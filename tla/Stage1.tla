------------------------------- MODULE Stage1 -------------------------------
(***************************************************************************)
(* app/vc4-stage1: the program on the VPU that looks for the second stage  *)
(* on the SD card, the SPI flash, the partitions of USB disks and the      *)
(* network, and jumps into the first one it has loaded.  The queue of      *)
(* targets is BootQueue, the USB disk is UsbDisk; the SD card is read      *)
(* through SdHost.                                                         *)
(*                                                                         *)
(* External: the file system layer, of which the reads are left (the super *)
(* block, the ELF header, the segments), lwIP and its TFTP client, the ELF *)
(* loader, the heap.                                                       *)
(***************************************************************************)
EXTENDS BootQueue, UsbDisk, SdHost

CONSTANTS
  Sd,            \* "sdhostp1"
  Spi,           \* "spi"
  Network,       \* "network"
  Setups,        \* builds, and what is on the targets
  Heap,          \* buffers of 2 MB that malloc can give
  Clients,       \* TFTP clients that lwIP has room for
  MaxLeases,     \* BOUND: calls of stage1_nic_status with the interface up
  None

Disk   == {Sd} \cup UsbPart
Target == Disk \cup {Spi, Network}

\* How the second stage of a target is: it can be loaded; there is no such file;
\* it is no ELF; it is one that cannot be loaded; there is no file system.
Kind == {"ok", "absent", "noelf", "noload", "nofs"}

ASSUME TargetAssumption ==
  /\ Sd # Network /\ Sd # Spi /\ Spi # Network
  /\ UsbPart \cap {Sd, Spi, Network} = {} /\ None \notin Target

ASSUME SetupAssumption == Setups \subseteq [builtin : SUBSET Target, elf : [Target -> Kind]]

ASSUME BoundAssumption == Heap \in Nat /\ Clients \in Nat /\ MaxLeases \in Nat

ASSUME CardAssumption == Blocks >= 3

\* What is read: the partition table, then by try_sd_boot the super block, the ELF
\* header and the segments.
Mbr        == [block |-> 0, count |-> 1]
SuperBlock == [block |-> 1, count |-> 1]
Header     == [block |-> 2, count |-> 1]
Segments   == [block |-> 1, count |-> 2]

VARIABLES
  builtin,    \* the targets whose drivers are in the build
  elf,        \* what is on the targets
  up,         \* netif_is_up(last_netif), with a DHCP lease
  leases,     \* calls of stage1_nic_status that added "network"
  pc,         \* where stage 1 is
  published,  \* is there a block device "sdhostp1"?
  device,     \* the target tried
  root,       \* the target mounted at /root, or None
  heap,       \* buffers left
  clients,    \* TFTP clients that lwIP can still make
  flushes,    \* blocks read by restart_controller so far
  flaw        \* history: a read of this attempt was cut short or damaged, unnoticed

setup   == <<builtin, elf>>
netVars == <<up, leases>>
memVars == <<heap, clients>>
tryVars == <<published, device, root, memVars, flushes, flaw>>
others  == <<setup, usbVars, netVars>>
stageVars == <<others, pc, tryVars>>
vars == <<queueVars, hwVars, sdVars, stageVars>>

StagePc == {"init", "flush", "mbr", "entry", "spi", "wait", "take", "try", "mount", "header",
            "segments", "unmount", "stage2", "null", "panic", "hung", "stuck", "halted"}

StageTypeOK ==
  /\ SdTypeOK
  /\ pending_devices \in Seq(Target) /\ nonempty \in BOOLEAN
  /\ [builtin |-> builtin, elf |-> elf] \in Setups
  /\ UsbTypeOK
  /\ up \in BOOLEAN /\ leases \in 0 .. MaxLeases
  /\ pc \in StagePc /\ published \in BOOLEAN
  /\ device \in Target \cup {None} /\ root \in Disk \cup {None}
  /\ heap \in 0 .. Heap /\ clients \in 0 .. Clients
  /\ flushes \in 0 .. 3 /\ flaw \in BOOLEAN

Init ==
  /\ QueueInit /\ UsbInit /\ SdInit
  /\ \E s \in Setups : builtin = s.builtin /\ elf = s.elf
  /\ up = FALSE /\ leases = 0
  /\ pc = "init" /\ published = FALSE /\ device = None /\ root = None
  /\ heap = Heap /\ clients = Clients /\ flushes = 0 /\ flaw = FALSE

\* Threads run once the platform is initialised, until one jumps away, panics or
\* fails an assertion.
Running == pc \notin {"init", "flush", "mbr", "stage2", "null", "panic", "stuck", "halted"}

-----------------------------------------------------------------------------
(* Devices that come and go *)

\* The machine halts when tuh_msc_mount_cb fails its assertion.
Plug ==
  /\ Running /\ UsbPart \cap builtin # {}
  /\ \/ DiskIn(FALSE) /\ UNCHANGED pc
     \/ DiskIn(TRUE) /\ pc' = "halted"
  /\ UNCHANGED <<queueVars, hwVars, sdVars, setup, netVars, tryVars>>

Unplug ==
  /\ Running /\ DiskOut
  /\ UNCHANGED <<queueVars, hwVars, sdVars, setup, netVars, pc, tryVars>>

Probe(i) ==
  /\ Running /\ ReadTable(i)
  /\ UNCHANGED <<queueVars, hwVars, sdVars, setup, netVars, pc, tryVars>>

\* stage1_msd_probed
MsdProbed(i) ==
  /\ Running /\ PartAdded(i)
  /\ AddBootTarget(NextPart(i))
  /\ UNCHANGED <<hwVars, sdVars, setup, netVars, pc, tryVars>>

\* stage1_nic_status, also for a lease that is renewed.
NicStatus ==
  /\ Running /\ Network \in builtin /\ leases < MaxLeases
  /\ up' = TRUE /\ leases' = leases + 1
  /\ AddBootTarget(Network)
  /\ UNCHANGED <<hwVars, sdVars, setup, usbVars, pc, tryVars>>

NetifDown ==
  /\ Running /\ up
  /\ up' = FALSE
  /\ UNCHANGED <<queueVars, hwVars, sdVars, setup, usbVars, leases, pc, tryVars>>

-----------------------------------------------------------------------------
(* The SD card at start-up *)

\* The constructor of BCM2708SDHost: init_card succeeds, with anything left in the
\* FIFO and the error bits, or fails five times, or waits for a card that is never
\* ready, with all else of the firmware.
RestartController ==
  /\ pc = "init"
  /\ \/ /\ Sd \in builtin
        /\ pc' = "flush"
        /\ fifo' \in {<<>>, <<Junk>>} /\ hsts' \in BOOLEAN
     \/ /\ pc' = "entry" /\ UNCHANGED <<fifo, hsts>>
     \/ /\ Sd \in builtin
        /\ pc' = "stuck" /\ UNCHANGED <<fifo, hsts>>
  /\ UNCHANGED <<queueVars, cmd, card, sdVars, others, tryVars>>

\* Three reads of the first block; one that fails is a panic.
FlushFifo ==
  /\ pc = "flush" /\ sd = "idle"
  /\ \/ /\ ~failed /\ flushes < 3
        /\ StartRead(Mbr, 1)
        /\ flushes' = flushes + 1 /\ UNCHANGED pc
     \/ /\ failed /\ pc' = "panic"
        /\ UNCHANGED <<hwVars, sdVars, flushes>>
     \/ /\ ~failed /\ flushes = 3 /\ pc' = "mbr"
        /\ StartRead(Mbr, Retries)
        /\ UNCHANGED flushes
  /\ UNCHANGED <<queueVars, others, published, device, root, memVars, flaw>>

\* The partition table was read: by a read that went wrong unnoticed, as anything.
PartitionPublish ==
  /\ pc = "mbr" /\ sd = "idle"
  /\ pc' = "entry"
  /\ published' \in (IF failed THEN {FALSE} ELSE IF Whole THEN {TRUE} ELSE BOOLEAN)
  /\ Forget
  /\ UNCHANGED <<queueVars, others, device, root, memVars, flushes, flaw>>

-----------------------------------------------------------------------------
(* stage1_entry *)

\* "sdhostp1" is queued whether there is a card or not, then the SPI flash.
Entry ==
  /\ pc = "entry"
  /\ AddBootTarget(Sd)
  /\ pc' = (IF Spi \in builtin THEN "spi" ELSE "wait")
  /\ UNCHANGED <<hwVars, sdVars, others, tryVars>>

EntrySpi ==
  /\ pc = "spi"
  /\ AddBootTarget(Spi)
  /\ pc' = "wait"
  /\ UNCHANGED <<hwVars, sdVars, others, tryVars>>

\* event_wait
Wait ==
  /\ pc = "wait" /\ nonempty
  /\ pc' = "take"
  /\ UNCHANGED <<queueVars, hwVars, sdVars, others, tryVars>>

\* A name of NULL is dereferenced.
Take ==
  /\ pc = "take"
  /\ RemoveHead
  /\ IF pending_devices = <<>> THEN pc' = "panic" /\ UNCHANGED device
                              ELSE pc' = "try" /\ device' = Head(pending_devices)
  /\ flaw' = FALSE
  /\ UNCHANGED <<hwVars, sdVars, others, published, root, memVars, flushes>>

\* tftp_blocking_get: init_done is never set, so each download makes another client.
\* Without room for it, without a file, or on an error, early or late, an assertion
\* fails here or in try_to_netboot; without a buffer the download goes to address 0,
\* over the program's memory, which counts as a panic.
DownloadFails ==
  /\ pc' = "panic"
  /\ clients' \in {clients, clients - 1} \cap Nat
  /\ UNCHANGED heap

Downloaded ==
  /\ heap > 0 /\ elf[Network] \notin {"absent", "nofs"}
  /\ clients > 0 /\ clients' = clients - 1

\* try_to_netboot: the buffer is not given back when the interface is down or what
\* was downloaded, perhaps cut short, is no ELF.  A second stage that was loaded is
\* not started ("if (false)").
TryNetwork ==
  /\ pc = "try" /\ device = Network
  /\ \/ /\ ~up
        /\ pc' = "wait" /\ heap' = (IF heap = 0 THEN 0 ELSE heap - 1) /\ UNCHANGED clients
     \/ up /\ DownloadFails
     \/ /\ up /\ Downloaded
        /\ pc' = "wait" /\ heap' = heap - 1
     \/ /\ up /\ Downloaded /\ elf[Network] # "noelf"
        /\ pc' = "wait" /\ UNCHANGED heap
  /\ UNCHANGED <<queueVars, hwVars, sdVars, others, published, device, root, flushes, flaw>>

\* try_to_spi_boot; when it returns, try_sd_boot("spi") finds no such disk.
TrySpi ==
  /\ pc = "try" /\ device = Spi
  /\ pc' = CASE elf[Spi] \in {"absent", "nofs"} -> "wait"
              [] elf[Spi] = "noelf"  -> "wait"
              [] elf[Spi] = "noload" -> "null"
              [] elf[Spi] = "ok"     -> "stage2"
  /\ UNCHANGED <<queueVars, hwVars, sdVars, others, tryVars>>

-----------------------------------------------------------------------------
(* try_sd_boot *)

Mountable(d) == root = None /\ IF d = Sd THEN published ELSE known

\* A read of the target's file system; a USB disk is read at once.
Read(r) == IF device = Sd THEN StartRead(r, Retries) ELSE UNCHANGED <<hwVars, sdVars>>

Unreachable == device \in UsbPart /\ NoAnswer

ReadFails == device = Sd /\ failed

\* What the driver or its caller could have noticed and did not.
Unnoticed == device = Sd /\ (early \/ gaveUp \/ \E i \in DOMAIN buf : buf[i] = Junk \/ ~buf[i].good)

\* Does the read show the target to be of one of these kinds?  When the words are
\* not those of the card, anything may be found.
Shows(kinds) == (device = Sd => Whole) => elf[device] \in kinds

Mount ==
  /\ pc = "try" /\ device \in Disk
  /\ IF Mountable(device) THEN pc' = "mount" /\ Read(SuperBlock)
                          ELSE pc' = "wait" /\ UNCHANGED <<hwVars, sdVars>>
  /\ UNCHANGED <<queueVars, others, tryVars>>

\* fs_mount has read the super block.
Mounted ==
  /\ pc = "mount" /\ sd = "idle" /\ ~Unreachable
  /\ \/ /\ ReadFails \/ Shows({"nofs"})
        /\ pc' = "wait" /\ Forget /\ UNCHANGED root
     \/ /\ ~ReadFails /\ Shows(Kind \ {"nofs"})
        /\ pc' = "header" /\ root' = device
        /\ Read(Header)
  /\ flaw' = (flaw \/ (~ReadFails /\ Unnoticed))
  /\ UNCHANGED <<queueVars, others, published, device, memVars, flushes>>

\* fs_open_file and elf_open_handle; closefile falls through to unmount.
ElfOpened ==
  /\ pc = "header" /\ sd = "idle" /\ ~Unreachable
  /\ \/ /\ ReadFails \/ Shows({"absent", "noelf", "nofs"})
        /\ pc' = "unmount" /\ Forget
     \/ /\ ~ReadFails /\ Shows({"ok", "noload"})
        /\ pc' = "segments"
        /\ Read(Segments)
  /\ flaw' = (flaw \/ (~ReadFails /\ Unnoticed))
  /\ UNCHANGED <<queueVars, others, published, device, root, memVars, flushes>>

\* load_and_run_elf and arch_chain_load, whose entry is NULL when elf_load failed.
ChainLoad ==
  /\ pc = "segments" /\ sd = "idle" /\ ~Unreachable
  /\ \/ /\ ReadFails \/ Shows(Kind \ {"ok"})
        /\ pc' = "null"
     \/ /\ ~ReadFails /\ Shows({"ok"})
        /\ pc' = "stage2"
  /\ flaw' = (flaw \/ (~ReadFails /\ Unnoticed))
  /\ UNCHANGED <<queueVars, hwVars, sdVars, others, published, device, root, memVars, flushes>>

DiskHangs ==
  /\ Unreachable
  /\ pc \in {"mount", "header", "segments"} \/ (pc = "try" /\ device \in Disk /\ root = None)
  /\ pc' = "hung" /\ held' = TRUE
  /\ UNCHANGED <<queueVars, hwVars, sdVars, setup, diskVars, netVars, tryVars>>

\* BUG: the file system stays mounted.
BugUnmount ==
  /\ pc = "unmount" /\ pc' = "wait"
  /\ UNCHANGED <<queueVars, hwVars, sdVars, others, tryVars>>

Unmount ==
  /\ pc = "unmount" /\ pc' = "wait"
  /\ root' = None
  /\ UNCHANGED <<queueVars, hwVars, sdVars, others, published, device, memVars, flushes, flaw>>

-----------------------------------------------------------------------------

\* The thread of stage 1 is the one that runs the SD driver.
Driver == SdDriver /\ UNCHANGED <<queueVars, stageVars>>

Loop ==
  \/ RestartController \/ FlushFifo \/ PartitionPublish \/ Entry \/ EntrySpi \/ Wait \/ Take
  \/ TryNetwork \/ TrySpi \/ Mount \/ Mounted \/ ElfOpened \/ ChainLoad
  \/ DiskHangs \/ Unmount \/ Driver

Hardware ==
  /\ pc \notin {"init", "stage2", "null", "panic", "stuck", "halted"}
  /\ SdHardware /\ UNCHANGED <<queueVars, stageVars>>

Next ==
  \/ Loop \/ Hardware
  \/ Plug \/ Unplug \/ NicStatus \/ NetifDown
  \/ \E i \in 1 .. MaxPlugs : Probe(i) \/ MsdProbed(i)

Spec == Init /\ [][Next]_vars

\* The thread is scheduled; the card, the disk and the network need do nothing.
FairSpec == Spec /\ WF_vars(Loop)

-----------------------------------------------------------------------------
(* Properties *)

\* The second stage that is started is one that the target holds and that was read
\* whole, and address 0 is only jumped to when the file cannot be loaded, but for
\* the reads in which something went wrong that nobody looked at.
StartsWhole ==
  ~flaw =>
    /\ pc = "stage2" => device # Network /\ elf[device] = "ok"
    /\ pc = "null" => elf[device] = "noload" \/ ReadFails

\* The attempt at a disk with a good second stage leaves the way to it only when the
\* disk is gone, not known yet or behind a read that is never answered, or a read went
\* wrong, noticed or not: what earlier targets left mounted or in the SD controller,
\* words and errors of their last reads, does not stop it.
OnlyFaultsStopGoodDisks ==
  [][/\ pc \in {"try", "mount", "header", "segments"} /\ device \in Disk /\ elf[device] = "ok"
     /\ pc' \notin {pc, "mount", "header", "segments", "stage2", "halted"}
     => \/ device = Sd /\ (pc = "try" /\ ~published)
        \/ device = Sd /\ (pc # "try" /\ (failed \/ Unnoticed))
        \/ device \in UsbPart /\ (~known \/ held)]_vars

\* The attempt seen from outside, see AbstractBoot.
StartUp == {"init", "flush", "mbr", "entry", "spi"}

Trying == IF pc \in StartUp \cup {"wait", "take", "halted"} THEN None ELSE device

Phase ==
  CASE pc \in StartUp -> "starting"
    [] pc \in {"stage2", "null", "panic", "stuck"} -> "over"
    [] pc = "halted" -> "halted"
    [] OTHER -> "serving"

Boot == INSTANCE AbstractBoot WITH queue <- pending_devices, trying <- Trying, phase <- Phase

\* The targets are tried in the order in which they were found: none is lost, none
\* is tried twice, and a stage 1 that waits for targets does not end.
TriesInOrder == Boot!Spec

\* Whenever the loop is back at the queue, nothing is mounted.
RootIsFree == pc \in {"wait", "take", "try"} => root = None

\* Every target in the queue is tried, whatever the SD card does, unless stage 1
\* ended before: in another target's second stage, at address 0, in a panic, or in
\* a read of a USB disk that was pulled.
TargetsTried ==
  \A t \in Target :
    t \in {pending_devices[i] : i \in DOMAIN pending_devices}
      ~> (pc = "try" /\ device = t) \/ pc \in {"stage2", "null", "panic", "hung", "halted"}
=============================================================================
