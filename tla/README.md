# A TLA+ model of lk-overlay

lk-overlay is bare-metal firmware for the Raspberry Pi, built as an overlay on
the Little Kernel (LK): drivers for the VideoCore VPU and the ARM cores, boot
code, and small applications.  This directory holds TLA+ specifications of the
parts of it where several actors meet (threads, interrupt handlers, timer
callbacks, the ARM beside the VPU, the hardware), the TLC configurations that
check them on small instances, and proofs checked by TLAPS.

## 1. Inventory

The kernel itself (`lk`) and the USB stack (`lib/tinyusb/upstream`) are git
submodules whose directories are empty here.  Threads, mutexes, events, timers
and the USB stack are therefore external: they are modelled from how the code
uses them.  The VPU build has one core (`arch/vpu/include/arch/spinlock.h`
refuses SMP), so there an interrupt handler runs to its end and a section with
interrupts off is atomic; the ARM beside it, and every peripheral, is concurrent.

| Component | State it keeps | Operations | Interacts with | What is hard | What makes it correct |
|---|---|---|---|---|---|
| USB host driver, `platform/bcm28xx/dwc2/dwc2.c` | idle channel list, open endpoints, retry timers, owner and registers of each channel | `hcd_edpt_open`, `hcd_device_close`, `hcd_setup_send`, `hcd_edpt_xfer`, retry callback, interrupt | USB stack above, controller below, LK timers | completions, retries, halts and unplugs in any order; every branch must give the channel back exactly once | each channel idle or owned by one running transfer; each transfer reported once, in the end |
| packet queue, `lib/linked-list-fifo` | list, event, mutex | `fifo_push`, `fifo_pop` | network adapter driver | event signaled outside the lock | FIFO, no lost wakeup |
| USB network adapter, `lib/rpi-usb-nic` | transfer buffers, busy flags, tx queue, register access state | receive callback, transmit thread, register read and write, interrupt endpoint | dwc2 through the USB stack, minip | buffers reused while a transfer is in flight | one owner per buffer, packets in order |
| USB glue, `lib/tinyusb` | osal queues and mutexes, mass-storage callbacks, prober threads | `osal_queue_send/receive`, block read and write, mount and unmount | USB stack, bio layer | error paths that leave a lock held, unplug during I/O | queue keeps order; every request ends |
| mailbox FIFO, `platform/bcm28xx/mailbox` | ring, event, hardware FIFO | interrupt handler, push, pop | ARM, property server | ARM writes during the handler, ring full, index wrap | bounded FIFO; event exact |
| property server, `app/mailbox-property-server` | current message | tag walk, reply | mailbox FIFO, ARM | reply mailbox full, unknown tags | one reply for each request, in order |
| ARM mailbox client, `platform/bcm28xx/mailbox.c` | none | write, read with timeout | VPU firmware | compiled in no build | |
| inter-architecture calls, `app/inter-arch` | the device tree the other core left in memory | find it, read its nodes | ARM start-up | written before the reader starts | the reader finds what was written |
| display, `platform/bcm28xx/hvs` | display lists in a ring, scanout slots, vsync events | add layer, update list, vsync interrupt | slideshow, grid and other applications | list rewritten while the scanner reads it | the scanned list is never overwritten |
| 3D, `platform/bcm28xx/v3d` | binner and renderer state | command, interrupt | display | two stages handed on by interrupts | one frame at a time, rendered after it is binned |
| SD host, `platform/bcm28xx/sdhost` | command and transfer registers | command, block read | bio, boot | timeouts, retries, errors reported as success | data returned only when read |
| serial ports, `dev/uart/pl011`, `platform/bcm28xx/*uart.c` | receive ring, masks | interrupt, getc, putc | console | back-pressure through the interrupt mask | no character lost while there is room |
| DMA, timers, interrupt controllers, `platform/bcm28xx/{dma,intc}.c`, `dev/timer/vc4`, `arch/vpu` | registers, handler tables | start and wait, mask and unmask, set and fire | every driver | torn 64-bit reads; a mask that unmasks | |
| boot, `app/vc4-stage1`, `app/vc4-stage2`, `app/linux-bootloader`, `platform/bcm28xx/arm` | queue of boot targets, mounted file systems | add target, try target, start the ARM | SD, USB, network, file systems | fall-through between boot sources, leaks on error paths | every target tried once, in order; all opened files closed |
| network helpers, `lib/net-utils`, `lib/rpi-usb-nic/tftp` | transfer state | TFTP get | minip | downloads that end early, errors that do not wake the waiter | a size is reported only for a complete file |
| file systems, `lib/fs/ext2`, `lib/fs/zfs` | block cache, inode | lookup, read, extents | bio | index levels of extents | block mapping equals the on-disk tree |
| audio, `dev/audio` | double buffer, two events | DMA interrupt, write | applications | under-run | never writes the half being played |
| SPI, I2C, power, GPIO, PLL, OTP, random | registers | read, write, set up | drivers, console | busy loops without a timeout | the register sequence |
| applications, console commands, vendored Lua, LZ4, RISC-V emulator, data | their own | | display, console | left aside | left aside |

## 2. Plan

The order is by what the rest of the system stands on.  All of it is done, with
proofs:

1. `Dwc2Channels`: the channel allocator of the USB driver.
2. `ListFifo` and `MailboxFifo`, both shown to implement `AbstractFifo`.
3. `Dwc2Toggle`: the data toggle, packet and byte counts of a pipe.
4. `HvsDlist`: the display-list memory against the scanner and vsync.
5. `BootQueue`, `UsbDisk` and `LinuxLoader`: the boot targets, the disk that comes
   and goes, and the way to Linux.
6. `PropertyServer` over `MailboxFifo`: the ARM's requests through the ring and
   back.
7. `SdHost`, and `Stage1` over it and `BootQueue`: reading the SD card with
   errors and retries, and the first stage that boots from it.
8. `UsbNic` over `ListFifo`: the network adapter's threads and buffers.

9. What each of them promises those who use it, as abstract specifications, and
   the proofs that they keep it: `AbstractFifo`, `AbstractHost`, `AbstractServer`,
   `AbstractDisplay`, `AbstractBoot`.

What composes what:

    AbstractFifo <= ListFifo    <- UsbNic          BootQueue, UsbDisk <- LinuxLoader
    AbstractFifo <= MailboxFifo <- PropertyServer  BootQueue, UsbDisk, SdHost <- Stage1
    AbstractServer <= PropertyServer               AbstractBoot <= LinuxLoader, Stage1
    AbstractHost <= Dwc2Channels                   AbstractDisplay <= HvsDlist

(`<=` is implemented by, `<-` is extended by.)  What could still be added: the
USB driver on a multi-core ARM, where the interrupt handler runs beside a thread
that starts a transfer, and an address that is used again while a transfer is left
to it; the configuration of a channel of the HVS between two updates; the attempts
of the loader over a disk that reads as `SdHost` does.

## 3. The modules

Each protocol has a module with its constants and their assumptions, its
variables named as in the code, one action per handler or per atomic stretch of
one, and its properties; an `MC` module with the values of its constants that
TLC needs; and a module `...Proofs` (`UsbNic`'s is `ListFifoProofs`, `SdHost`'s is
`Stage1Proofs`).  A definition `BugX`, beside the definition
`X` it would replace, is a plausible mistake in that code that breaks a property
and shows that the property looks at the code.

A step is atomic where the code is: a section under a spinlock with interrupts
off, or an interrupt handler on the single-core VPU.  Where another actor can
run between two statements, they are two actions.  An assertion that fails
stops the firmware, which is `panic`: nothing happens after it.

### `Dwc2Channels` - `platform/bcm28xx/dwc2/dwc2.c`

| Here | In the code |
|---|---|
| `idle` | `dwc_state.idle_channels`, tail in, head out |
| `opened`, `dev`, `pipe`, `ic` | `dwc_state.open_endpoints` and the fields of `open_endpoint_t` |
| `armed` | endpoints whose `retry` timer is set |
| `owner` | `dwc_state.channels[].opep` |
| `hcchar`, `dir`, `hcint` | the enable and disable bits and the direction of HCCHARn, and HCINTn |
| `claimed`, `inflight` | the USB stack's view: pipes with a transfer outstanding |
| `Open`, `Close` | `hcd_edpt_open`, `hcd_device_close` |
| `SetupSend`, `EdptXfer` | `hcd_setup_send`, `hcd_edpt_xfer` with `dwc_find_idle_channel` and the programming of the channel |
| `RetryFires` | `dwc_in_retry` |
| `Irq` with `IrqUnowned`, `IrqNakHalt`, `IrqComplete`, `IrqOverrun`, `IrqXactErr`, `IrqIgnored` | one turn of the channel loop of `dwc_check_interrupt`, and its branches |
| `Hw...` | the controller: completions, NAKs, stalls, errors, and halts, which may be reported twice, as a comment says they are |

A STALL has no branch of its own in the code: it is a turn of `IrqIgnored`.  Its
channel is not given back: in the model, as in the driver, the transfer counts as
running from then on.  `ChannelsAccounted` says of every channel that it has one
place, and until the first fault that a held one is at work, so that it comes back;
after a fault it may not.  The history `started` is the direction of the transfer
an endpoint has in flight: a control pipe has transfers in both.

`AbstractHost` is the driver as the stack sees it: a transfer is requested, and
ends by a report or with its device.  Its `outstanding` is `claimed`.

### `Dwc2Toggle` - the same file, one pipe from end to end

The toggles of driver (`nextPid`), controller (`hctsiz.pid`) and device
(`devPid`), the packet counts of `dwc_host_in` and `dwc_host_out` with C's
division and the 10 bits of the register, the controller moving packet by packet,
and the branches of `dwc_check_interrupt` that read what is left.  Control pipes
are left out; each SETUP sets their toggle anew.  Channels are `Dwc2Channels`'
business: a transfer here has its own.

### `AbstractFifo`, `ListFifo` - `lib/linked-list-fifo`

`AbstractFifo` is the promise: put, delivered once and in order, refused only
when full.  `ListFifo` has the steps of `fifo_push` (`PushAdd` under the
spinlock, `PushSignal` after it) and of `fifo_pop` (`PopLock`, `PopWait`,
`PopRemove`, and `PopReturn` or, when the list was empty, `PopPanics`), and maps
to `AbstractFifo` by counting a node taken and not yet returned as waiting.

### `UsbNic` - `lib/rpi-usb-nic/nic.c`, over `ListFifo`

| Here | In the code |
|---|---|
| `TxQueue` | `nic_tx_queue`, by the stack's threads and, from a callback, by the USB thread |
| `TxPop`, `TxCopy`, `TxPanics`, `TxSend` | the loop of `nic_tx_thread`: the pop, the copy into `tx_buffer`, its assertion, `tuh_edpt_xfer` tried until it is accepted |
| `TxComplete` | the end of that transfer, `nic_tx_complete` |
| `StartRx`, `RxWait` | the loop of `nic_rx_thread` |
| `RxArrives`, `RxSignal` | `rx_cb` up to the hand-over to the stack, and its signal |
| `Unplug` | no transfer of the adapter is called back any more |

`tx_busy` is never set, so the buffer may be written while it is sent; the
history `sent` keeps what it held meanwhile.  A packet the stack has freed in the
queue is `Garbage`: the stack and the adapter have then both freed it
(`freed_twice`), on which lwIP may panic (`TxPanics`), and what holds of the bytes
that are sent holds only as long as this has not happened.  What else a broken pool
of pbufs does to the network stack is not modelled.  `StartRxPanics` is `start_rx`
without a pbuf, or with one of another length.  The callback of the polled
interrupt endpoint reads the PHY, sets the state of the link and starts DHCP when
it has come up: for this model, one more moment at which the USB thread may queue
packets.

### `MailboxFifo` - `platform/bcm28xx/mailbox/mailbox.c`

`mailbox_irq` register access by register access (`IrqEnter` reads the count,
`IrqDrain` moves a word with `mailbox_fifo_push`, `IrqStatus` looks again),
while `ArmWrite` may come at any point; `PopWait`, `PopTake` and `PopRetry` are
`mailbox_fifo_pop`.  The ring's words from `tail` on are `AbstractFifo`'s
`waiting`, with a capacity one below its size.

### `PropertyServer` - `app/mailbox-property-server/server.c`, over `MailboxFifo`

The ARM fills in a message and writes its address (`ArmAsk`), writes words of
other channels (`ArmOther`), and takes answers (`ArmAnswered`).  A thread of the
server pops (`ServerWait`, `ServerRetry`, `ServerTake`), walks the tags
(`HandleTag`), writes the response code (`SetCode`) and sends the address back
(`MailboxSend`, which drops it when the mailbox is full).  A tag is abstracted to
whether it is answered; a message is used by whoever has its address.

`AbstractServer` is the service as the ARM sees it: a message is free, asked,
answered with the code its tags call for, or lost.  The mapping, `Status`, looks
where the message's address is: `asked` while it is in the hardware FIFO, the ring
or a thread's hands, answered once it is in the mailbox to the ARM, lost when it
is nowhere.

### `HvsDlist` - `platform/bcm28xx/hvs/hvs.c`

`hvs_update_dlist` under the lock of a channel: `Acquire` (the caller locks),
`Begin`, `WriteWord` for each word, then `Overflow` (the list ran past the end:
start again at slot 0) or `Finish` (the end of the list, `dlist_target`, the
wrap at slot 3000).  `VfpStart` is `pv_irq` at the end of a frame: it sets
DISPLISTn and wakes the waiters of `hvs_wait_vsync`.  A word is abstracted to
the number of the update that wrote it.

`AbstractDisplay` is one channel as its user sees it: a picture that is shown and
one that waits for the vsync, each of one update.  It is mapped to the words that
are in the list memory where the lists are (`PictureOf`), not to the records of
which list is where, so that a word written over would show.

### `UsbDisk` - `lib/tinyusb/basic-host.c`, mass storage

Both boot loaders extend it.  `DiskIn` and `DiskOut` are `tuh_msc_mount_cb`, with its
assertion that there is one logical unit, and `tuh_msc_umount_cb`; `ReadTable` is
`partition_publish` of the prober thread that each plugging creates, and `PartAdded`
its hook, partition by partition.  A read waits for its answer without a timeout and
with `msd_mutex` locked (`held`): when the disk was pulled in the middle of one, all
reads after it wait too (`NoAnswer`).  A disk that is plugged in again is taken to
have the address that it had.

### `BootQueue`, `LinuxLoader` - `app/linux-bootloader/loader.c`

`BootQueue` is the list of targets with its event, a module of its own because
the first stage on the VPU has the same.  `LinuxLoader` adds who fills it - the
thread at the start (`Entry`), the prober thread of a USB disk (`MsdProbed`) and
the network interface (`LoaderStatus`) - and the loader: `Wait`, `Take`,
`TryDisk` or `TryNetwork`, the three files one by one (`LoadKernel`, `LoadDtb`,
`MaybeLoadInitrd`), `Unmount`, `PatchDtb`, `ExecuteLinux`.  Every early return is
there with what it forgets: a file left open keeps `/root` mounted (`leaked`), a
device tree that cannot be patched leaves it mounted, `map_physical` is never
undone (`room`).  A file is abstracted to how reading it ends, memory to whose
file is in it.  `FileHangs`, `InitrdHangs` and the last case of `TryDisk` are the
block reads that are never answered.  An assertion that fails in `tuh_msc_mount_cb`
halts the machine (`halted`).

`TftpGet` is `tftp_blocking_get` of `lib/net-utils/utils.c`, in three cases.
`NoClient`: `init_done` is never set, so every download makes another TFTP client,
and the assertion of the one for which lwIP has no room (`clients`) fails.
`Served`: the server answers; a file that does not fit fails an assertion.
`Disturbed`: without a network, or with a `fault` of the server or of memory, the
assertion that `tftp_get` has begun fails, or that of a block in one piece, or the
download ends early, with an error or unnoticed (`cut`).

`AbstractBoot` is what both boot loaders promise of targets: found, tried once, in
order and one at a time.  The target that is tried (`Trying`) is `device`, but for
the steps between two attempts; what ends a loader is `over` in `Phase`, and an
assertion of another thread, which may come at any moment, `halted`.

### `SdHost` - `platform/bcm28xx/sdhost/sdhost_impl.cpp`

The controller and the card: `HwCommand`, `HwWord`, `HwBlockEnd` (where the
checksum is looked at), `HwError`.  The driver: `StartRead` (a call), `DrainWait`,
`DrainFifo`, `SendRead`, `ReadAnswer`, then `ReadWord` word by word until
`ReadError`, `ReadTimeout` or `ReadDone`, and `SendStop`, which goes on to the
next attempt or returns (`AgainOrReturn`) while the card may still be sending.
`wait` and `wait_for_fifo_data` give up after some time: as
steps these are possible whenever the awaited has not come, and `gaveUp` and
`early` remember them, since the code does not.

### `Stage1` - `app/vc4-stage1`, over `BootQueue` and `SdHost`

`RestartController`, `FlushFifo` and `PartitionPublish` are the SD card at
start-up, `Entry` and `EntrySpi` the first targets, `MsdProbed` and `NicStatus`
those who add more.  The loop is `Wait` and `Take`, then `TryNetwork`, `TrySpi`,
or `Mount`, `Mounted`, `ElfOpened`, `ChainLoad` with a read of the disk before
each of the last three, and `Unmount`.  What is wrong in the code is there as it
is: a buffer of 2 MB that is not given back, the network image that is loaded
and not started, the entry point 0 of a file that cannot be loaded, a failed
download, or a second one, for which there is no TFTP client, that stops the
program.  It maps to `AbstractBoot` as `LinuxLoader` does.

## 4. What TLC checks

| Run | Question | Bounds |
|---|---|---|
| `Dwc2Faults` | With stalls, transaction errors and frame overruns in any order, does every channel have exactly one place, and every transfer its channel?  While no fault was reported, does no assertion fail and every transfer end? | one device with a control and an interrupt pipe, two channels, three endpoint structures; it may be unplugged and plugged in again |
| `Toggle` | Do driver, controller and device agree on the toggle, and are the sizes exact? | four pipes, one where packets fail; packets of 2 bytes, buffers of up to three packets; three transfers |
| `Fifo` | Is the packet queue a FIFO with no lost wakeup, are packets sent in order and all of them, has the receive buffer one owner? | a thread of the stack and the USB thread with two packets each, one transmit and one receive thread |
| `Mailbox` | Is the ring a bounded FIFO, does the event tell the truth, is each message with one holder, answered once with the code its tags call for or lost once, and in the end? | ring of 4, hardware FIFO of 3, seven words; three messages, one asked twice; two threads of the server; mailbox of 2 to the ARM |
| `Hvs` | Is a list that is shown ever written over, is the kernel, is an older frame shown? | memory of 12 words, wrap behind 7, lists of 2, 3 and 6 words, five updates |
| `Boot` | Is each target tried once and in order, is Linux only started with the complete files of one target, does a good target fail only when it is blocked, and is Linux started when it can be? | an SD card, a USB disk with one or two logical units plugged in up to twice, a network that comes up once, one or two TFTP clients, memory that runs short; nine contents of the three targets: each way in which one can be bad and each kind of initrd, beside targets that are good or have no kernel |
| `Stage1` | Does a read that returned hand over what was asked for, is a second stage started whole, does a disk with a good one fail only through a fault, is every target tried? | a card of three blocks of one word, a FIFO of one word, two attempts; a disk with one or two logical units plugged in once, a network up twice, one TFTP client; seven combinations of drivers and what is on the targets |

Five more runs, `Dwc2StallLeak`, `Dwc2SharedNumber`, `ToggleXactErr`,
`ListFifoAssert` and `HvsTwoUpdaters`, expect a violation: see below.

The bounds let the interesting cases happen.  Two channels are as many as the
device can have transfers outstanding, so a channel that is leaked is missed.
Three structures are enough for a second connection of the device after the first
was closed with a transfer running.
Two packets of each thread are enough for a third to be queued while one is
copied over another that is still sent.
Seven words go around the ring of 4 and overflow it, the handler meets a hardware
FIFO that fills up again, and three messages are one more than the mailbox to the
ARM holds, so that an answer is dropped.  Lists of 6 words overflow the memory
of 12, those of 2 and 3 wrap before, and five updates write more than the memory
holds.  Four of the loader's windows for a kernel would not fit the address space
of 100 MB, so the loader also runs out of it.  Two pluggings let a prober that hangs
keep `msd_mutex` from the next one; of the two TFTP clients a kernel and its device
tree take both, and a single one makes the second download fail.  A server that does
not answer is left out of the run, since with memory short a download has all of
its outcomes; the proofs have both.  A FIFO of one word is full or
empty all the time; a read of two blocks crosses the checksum of the first;
two attempts let the words of the first arrive during the second.  Larger blocks
and FIFOs are left to the proofs.  Deadlock is not checked where a
system may stop: the assertion has failed, all that a bound allows was done, or
Linux or the second stage runs.

### Fairness

`Dwc2Faults`: the interrupt and the timer are served and a halt that was asked for
is done (weak fairness), and a device that is asked again and again answers in
the end (strong fairness, since every NAK disables the answer until the retry).
`Fifo`: threads that can run are scheduled; nobody need push, and no transfer need
end, which is why `AllSent` excepts one that never does.  `Mailbox`: the interrupt
and the threads are served; the ARM need neither ask nor take its answers.
`Boot` and `Stage1`: the one thread that boots is scheduled; card, disk and
network need do nothing.  Nothing is assumed of mutexes beyond this: a consumer
that waits for `pop_lock` may be passed over.

### What the code does otherwise than it says

Five runs show a disagreement, each with the shortest behaviour TLC finds:

* `Dwc2StallLeak`: no branch of `dwc_check_interrupt` handles a STALL.  Its
  channel and its transfer are lost; after as many stalls as channels
  `assert(ic)` in `dwc_find_idle_channel` fails.
* `Dwc2SharedNumber`: an IN and an OUT endpoint of the same number share a
  structure, since `get_open_ep` compares the number without the direction.  One
  completion gives the other's running channel back, and the next start fails
  `assert((chan->hcchar & HCCHARn_ENABLE) == 0)`.
* `ToggleXactErr`: a transaction error after an odd number of packets leaves
  `next_pid` behind the device; the next transfer meets the data toggle error
  that `assert(0)` says never happens.
* `ListFifoAssert`: `fifo_push` signals after it has unlocked.  A consumer may
  have taken the node before, is woken on an empty list and fails `assert(n)`.
* `HvsTwoUpdaters`: the lock that `hvs.h` asks for is the channel's, the list
  memory is shared.  Two channels updated at the same time write into each
  other's list.

A sixth is proved, not run (`FullLastPackets`): `assert(last_packet > 0)` in
`dwc_host_out` fails on every OUT transfer of a whole number of packets, which a
block written to a USB disk is when the packets of its pipe have 512 bytes.

## 5. What is proved

The proofs hold for every value of the constants that the named assumptions of
the modules allow.  Each follows the same path: an inductive invariant `IInv`,
`InitIInv` (it holds at first), a lemma per action or group of actions that
preserves it, a lemma that puts them together for `Next`, and the theorems.

* **`Dwc2ChannelsProofs`** - all safety properties of `Dwc2Faults`, for any
  number of channels, devices, pipes and faults, and that the driver implements
  `AbstractHost`: a report ends one transfer (`HostRefinement`; that it is the
  driver's own transfer on that pipe is `ClaimBacked`).  Hypothesis `StackAndDevices`: a
  device's endpoints have distinct numbers, and an address is not used again
  while a transfer to its former device is left in the driver.  The first cannot
  be dropped, as `Dwc2SharedNumber` shows.  `ChannelsAccounted` alone is not
  inductive: one has to know what the flags of a channel say about the list
  (`FlagsInv`: an idle channel reports at most a late halt, which changes
  nothing), that a number names one structure (`NamesInv`), and that a channel
  works in the direction in which its transfer was started (`DirInv`, on which
  `RetriedAsIn` rests: a timer is set only for an IN transfer of a channel).
  With a channel for every pipe of every device (`EnoughChannels`) the assertion
  of `dwc_find_idle_channel` never fails, faults or not (`ChannelsSuffice`): an
  injection from the channels that are taken to the pipes with a transfer,
  counted with the library's theorems on cardinality.  Until the first fault every
  channel that is held is enabled or its interrupt will end or retry its transfer
  (the last part of `ChannelsConserved`, and `TransfersAdvance`), and, with
  `EnoughChannels`, no assertion fails at all (`NoAssertionFails`); the invariant is
  `Calm`.  `Dwc2StallLeak` runs out of
  channels all the same, because there an address is used again while a stalled
  transfer to its former device still holds one.
* **`Dwc2ToggleProofs`** - `TogglesAgree` for every pipe where no packet fails,
  and that without failing packets `assert(0)` is never reached.  Hypothesis
  `Regular`: a structure per pipe, transfers whose packets fit the 10 bits of their
  count, which the driver does not see to, and interrupt transfers of one packet,
  because a retry starts a longer one again from its beginning.  The invariant relates the parity of the packets moved to
  all three toggles.  `ReportIsExact` follows from a second one, `ReportInv`, on
  top of it: what an OUT transfer still has to send is its last packet and as many
  full ones as the packet count says, and an IN transfer has taken full packets
  until a short one ended it.  `FullLastPackets`, without hypotheses, says which
  transfers fail the assertion of `dwc_host_out`; `NoTransferAsserts`, that nothing
  else stops the driver as long as no packet fails.
* **`ListFifoProofs`** - `NoLostWakeup`, `OneConsumer`, and that the queue
  implements `AbstractFifo`.  No hypotheses.  The refinement rests on mutual
  exclusion: with two consumers between removal and return, nodes could be
  returned in another order than they were removed.  The same for the queue under
  the threads of `UsbNic`, and `SentInOrder` and `OneReceiver`: the transmit
  thread has at most one packet in hand (`InHand`) between the pop and the
  transfer, so that what it copies over a transfer is the next packet.  From the
  stack to the wire the adapter is then one FIFO (`NicIsFifo`): the packets in the
  queue, in hand and in the buffer, one behind the other, are the `waiting` of
  `AbstractFifo`.
* **`MailboxFifoProofs`** - the event is exact, the count the handler has read is
  covered, and the ring implements `AbstractFifo` across the wrap of its indices,
  for any size of ring and hardware FIFO.  No hypotheses.  Across hardware FIFO,
  ring and poppers together, `OrderKept`: the words popped, in the ring and still
  in the hardware, one behind the other, increase, and with the overflows counted
  they are all that were written (`NoneOvertaken`).
* **`PropertyServerProofs`** - the server does nothing to the mailbox but what
  `MailboxFifo` allows (`ServerUsesMailbox`), so the theorems of
  `MailboxFifoProofs` hold under it; `OneHolder` and `AnswerIsComplete` for any
  messages, threads and sizes; and that no answer is dropped when the mailbox to
  the ARM has room for every message, which `mailbox_send` relies on
  (`NoneDropped`).  The server implements `AbstractServer` (`ServiceRefinement`):
  the address of a message that is asked is in one place or nowhere, and stays
  nowhere, and the walk over the tags has collected the code of those it passed.
  The hypothesis of the model is the ARM's good behaviour: it
  does not use a message again before the answer came.
* **`HvsDlistProofs`** - `ScannedIntact`, `KernelIntact`, `NeverOlder`, for any
  memory, wrap point and lists.  `NeverOlder` holds of a frame and of a waiter alike:
  the vsync sets what is scanned to the last update that was finished, and who waited
  for it goes on only then.  Hypothesis `OneUpdater`: the threads that update
  share a channel; without it, `HvsTwoUpdaters`.  The invariant says where the
  next word goes, seen from each list: behind it by as many slots as words were
  written since, or in front of it once slot 0 came in between (`Placed`).
  `DisplayRefinement`: a channel whose lists are replaced within a lap of the
  memory (`LapKept`) implements `AbstractDisplay`.  Neither hypothesis can be
  dropped: TLC finds a picture that changes while it is shown when two threads
  update a channel each, and when a lap is written before a list is replaced.
* **`LinuxLoaderProofs`** - `WokenFindsTarget`, `ImageComplete`,
  `MountGivenBack`, for any targets, contents and comings and goings.  No
  hypotheses.  The invariant follows the mount and the files through the
  attempt: while a disk is tried it is the one mounted, and what was loaded in
  this attempt is there, although the files of failed targets are still in memory.
  The loader implements `AbstractBoot` (`LoaderRefinement`), and a good target
  fails only when it is blocked (`GoodTargetsBoot`, an action property; `Blocked`
  names all that stops one, a download for which lwIP has no client and a mutex that
  is never given back among them): that
  takes what is known of a target that is given up (`FailedInv`) and that a
  partition in the queue is of a disk that was plugged in (`FoundInv`).
* **`Stage1Proofs`** - `ReadIsExact`, `StartsWhole`, `RootIsFree`, for cards,
  blocks and FIFOs of any size and any number of attempts.  No hypotheses but a
  card of three blocks.  The invariant `SdInv`: as long as no wait gave up, the
  card is quiet between the stop of one attempt and the command of the next once
  the stop was waited for, and in the data loop the words in the buffer, in the
  FIFO and still to come are those of the request, one behind the other.  The
  first stage implements `AbstractBoot` (`StageRefinement`, with `TryInv`); a disk
  with a good second stage fails only when it is not there or a read of it went
  wrong (`GoodDisksStart`); and a read comes to an end (`ReadsAdvance`): each step
  of the driver lowers attempts left, stage of the attempt and words left, in this
  order of weight, and no step of card or controller raises them.

What the theorems say beyond the runs - `HostRefinement`, `DisplayRefinement`,
`FullLastPackets`, `ChannelsSuffice`, `TransfersAdvance`, `NicIsFifo`,
`OrderKept`, `ReadsAdvance`, Stage1's `StageRefinement`, and `RootIsFree`,
`MountGivenBack`, `WokenFindsTarget`, `AnswerIsComplete` - was checked with TLC on
instances of the same size before it was proved.

Where the code has a fault that it can meet, a property names the fault as an
exception: a truncated or empty file in `ImageComplete`, the messages lost in
`OneHolder`, what `Blocked` lists, a list that laps the memory in `ScannedIntact` or
is longer than the space before the kernel in `KernelIntact`, `early` and `gaveUp` of
the SD host.  These say that nothing else goes wrong, and not that the fault does
not; the hazards of `PROJECT.json` that stand for such a fault have a note instead of
a property.

Only model-checked: the liveness properties, since TLAPS has no proof of ENABLED
and of fairness here.  What of each is safety is proved:

| Liveness | Its safety core |
|---|---|
| `TransferEnds` | `TransfersAdvance`: a transfer never waits for an event that cannot come |
| `AllSent` | `NicIsFifo`, `NoWakeupLost` |
| `AllAccounted` | `OrderKept`, `EventIsExact` |
| `EveryRequestAnswered` | `ServiceRefinement`, `OneHolderAtATime` |
| `BootsIfPossible` | `GoodTargetsBoot`, `LoaderRefinement` |
| `TargetsTried` | `ReadsAdvance`, `StageRefinement` |

What is left to fairness is that the thread, the interrupt or the card takes its
next step.  No recursive definitions are used, and nothing needs an induction over
data.

## 6. What is not modelled, and why

* The kernel and the USB stack, submodules that are not there, and lwIP: only as
  the code uses them (events that stay signaled, mutexes, timers, one transfer
  per pipe, callbacks from one thread, packets that may be freed in the queue).
* Register sequences with no second actor: clocks, SDRAM, power, video encoders,
  pins, SPI and I2C, the second stage and the start of the ARM, which is held in
  reset meanwhile.  They wait for a bit in a loop, and no order of events changes
  what they do.
* In the modules that are there: of `dwc2.c` the port (reset, power, root-hub
  status), the dump commands and the multi-core race; of `hvs.c` how a layer
  becomes words, the order of layers, and the set-up of a channel at start-up; of
  the loader the addresses; of the property server what the answers say, and
  whether the hash of tag 3 fits the buffer it is written to; of the SD host the
  command sequence of `init_card`, abstracted to how it ends, and `stop`; of the
  first stage the builds with XMODEM and Lua; of the network adapter the PHY, the
  register accesses and the statistics.  A part that only prints is left out
  everywhere.
* `platform/bcm28xx/mailbox.c`, the ARM's side of the mailbox: no build compiles
  it, and its one caller is disabled.  `ArmWrite` of `MailboxFifo` is whatever
  software runs on the ARM, which waits until the FIFO has room.
* That an address of the USB bus is given to another disk while `basic-host.c` still
  has the old one, and that a device is given one for which the driver has a transfer
  left: the second is `ReuseBusy`, which only `Dwc2StallLeak` allows.
* The osal queues of `lib/tinyusb`: wrappers of the kernel's primitives whose users
  are in the submodule.  The serial port's ring: one handler and one reader.
  Audio: whether a half is written while it is played depends on time, which the
  models do not have.  The 3D driver: a console command that renders one frame.
* File systems, which are sequential parsers without a second actor: a matter for
  tests against images.
* Applications, the Lua and LZ4 libraries, generated tables and data.

By lines, most of the repository is none of these protocols: a test picture and
logos as arrays in C headers (three quarters of all lines), register definitions,
on-disk formats and vendored libraries.  `PROJECT.json` names the hazards there
are, by line, covered or not.
