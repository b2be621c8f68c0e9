---------------------------- MODULE LinuxLoader -----------------------------
(***************************************************************************)
(* app/linux-bootloader/loader.c: the program on the ARM that looks for a  *)
(* kernel, a device tree and an initrd on the SD card, on the partitions   *)
(* of USB disks and on the network, and starts Linux from the first target *)
(* that has them.                                                          *)
(*                                                                         *)
(* A file is abstracted to how reading it ends, memory to whose file is in *)
(* it.  External, modelled from how the loader uses them: the file system  *)
(* layer (one mount at /root; an open file keeps it mounted), lwIP and its *)
(* TFTP client, the virtual memory manager.  The USB disk is UsbDisk.      *)
(***************************************************************************)
EXTENDS BootQueue, UsbDisk, Integers

CONSTANTS
  Sd,            \* "sdhostp1"
  Network,       \* "network"
  Contents,      \* what may be on the targets
  Room,          \* megabytes of kernel address space that map_physical can use
  Clients,       \* how many TFTP clients lwIP may have room for
  Faults,        \* what may go wrong: the TFTP "server", "memory" that runs short
  MaxNetEvents,  \* BOUND: calls of loader_status with the interface up
  None

Disk   == {Sd} \cup UsbPart
Target == Disk \cup {Network}
Piece  == {"kernel", "dtb", "initrd"}

\* How the reading of a file ends: it is read; it cannot be opened; fs_stat_file
\* fails; it is too big; fewer bytes are read than it has; it has no bytes.  A
\* device tree may also be no tree, or one without /memory or /soc.
Kind == {"ok", "absent", "stat", "big", "short", "empty"}
Device == [fs : BOOLEAN, kernel : Kind, initrd : Kind,
           dtb : Kind \cup {"invalid", "nomem"}]

ASSUME TargetAssumption ==
  Sd # Network /\ UsbPart \cap {Sd, Network} = {} /\ None \notin Target

ASSUME ContentsAssumption == Contents \subseteq [Target -> Device]

ASSUME BoundAssumption == Room \in Nat /\ Clients \subseteq Nat /\ MaxNetEvents \in Nat

ASSUME FaultAssumption == Faults \subseteq {"server", "memory"}

VARIABLES
  files,      \* what is on the targets
  up,         \* netif_is_up(last_netif), with a DHCP lease
  netEvents,  \* calls of loader_status that added "network"
  clients,    \* TFTP clients that lwIP can still make
  fault,      \* what else is wrong, or "none"
  pc,         \* where the loader is
  device,     \* the target tried
  root,       \* the target mounted at /root, or None
  leaked,     \* is a file of that mount left open?
  room,       \* megabytes that map_physical can still map
  mem,        \* whose file is at the load address, and is it whole?
  initrd,     \* initrd_size # 0
  cut         \* history: a download of this attempt ended early, unnoticed

attemptVars == <<root, leaked, room, mem, initrd, cut>>
loaderVars  == <<pc, device, attemptVars>>
netVars     == <<up, netEvents, fault>>
worldVars   == <<usbVars, netVars, clients>>
vars == <<queueVars, files, worldVars, loaderVars>>

LoaderPc == {"entry", "wait", "take", "try", "kernel", "dtb", "initrd", "patch",
             "execute", "unmount", "linux", "panic", "hung", "halted"}

TypeOK ==
  /\ pending_devices \in Seq(Target) /\ nonempty \in BOOLEAN
  /\ files \in Contents
  /\ UsbTypeOK
  /\ up \in BOOLEAN /\ netEvents \in 0 .. MaxNetEvents
  /\ clients \in Nat /\ fault \in {"none"} \cup Faults
  /\ pc \in LoaderPc
  /\ device \in Target \cup {None} /\ root \in Disk \cup {None}
  /\ leaked \in BOOLEAN /\ room \in 0 .. Room
  /\ mem \in [Piece -> [from : Target \cup {None}, whole : BOOLEAN]]
  /\ initrd \in BOOLEAN /\ cut \in BOOLEAN

Init ==
  /\ QueueInit /\ UsbInit
  /\ files \in Contents
  /\ up = FALSE /\ netEvents = 0 /\ clients \in Clients /\ fault = "none"
  /\ pc = "entry" /\ device = None /\ root = None /\ leaked = FALSE /\ room = Room
  /\ mem = [p \in Piece |-> [from |-> None, whole |-> FALSE]]
  /\ initrd = FALSE /\ cut = FALSE

\* A started kernel, a panic of the loader and a failed assertion of another
\* thread end everything.
Running == pc \notin {"linux", "panic", "halted"}

-----------------------------------------------------------------------------
(* Devices that come and go *)

\* The machine halts when tuh_msc_mount_cb fails its assertion.
Plug ==
  /\ Running
  /\ \/ DiskIn(FALSE) /\ UNCHANGED pc
     \/ DiskIn(TRUE) /\ pc' = "halted"
  /\ UNCHANGED <<queueVars, files, netVars, clients, device, attemptVars>>

Unplug ==
  /\ Running /\ DiskOut
  /\ UNCHANGED <<queueVars, files, netVars, clients, loaderVars>>

Probe(i) ==
  /\ Running /\ ReadTable(i)
  /\ UNCHANGED <<queueVars, files, netVars, clients, loaderVars>>

\* loader_msd_probed
MsdProbed(i) ==
  /\ Running /\ PartAdded(i)
  /\ AddBootTarget(NextPart(i))
  /\ UNCHANGED <<files, netVars, clients, loaderVars>>

\* loader_status, also for a lease that is renewed.
LoaderStatus ==
  /\ Running /\ netEvents < MaxNetEvents
  /\ up' = TRUE /\ netEvents' = netEvents + 1
  /\ AddBootTarget(Network)
  /\ UNCHANGED <<files, usbVars, fault, clients, loaderVars>>

NetifDown ==
  /\ Running /\ up
  /\ up' = FALSE
  /\ UNCHANGED <<queueVars, files, usbVars, netEvents, fault, clients, loaderVars>>

\* The server stops answering or sends what it should not, memory runs short, or
\* all is well again.
Fault(f) ==
  /\ Running /\ fault # f
  /\ fault' = f
  /\ UNCHANGED <<queueVars, files, usbVars, up, netEvents, clients, loaderVars>>

-----------------------------------------------------------------------------
(* loader_entry *)

\* The SD card is there from the start.
Entry ==
  /\ pc = "entry"
  /\ AddBootTarget(Sd)
  /\ pc' = "wait"
  /\ UNCHANGED <<files, worldVars, device, attemptVars>>

\* event_wait
Wait ==
  /\ pc = "wait" /\ nonempty
  /\ pc' = "take"
  /\ UNCHANGED <<queueVars, files, worldVars, device, attemptVars>>

\* A name of NULL is dereferenced.
Take ==
  /\ pc = "take"
  /\ RemoveHead
  /\ IF pending_devices = <<>> THEN pc' = "panic" /\ UNCHANGED device
                              ELSE pc' = "try" /\ device' = Head(pending_devices)
  /\ UNCHANGED <<files, worldVars, attemptVars>>

\* try_to_boot, for a disk: fs_mount
Mountable(d) == root = None /\ files[d].fs /\ (d \in UsbPart => known)

Unreachable == device \in UsbPart /\ NoAnswer

TryDisk ==
  /\ pc = "try" /\ device \in Disk
  /\ \/ /\ Mountable(device) /\ ~Unreachable
        /\ pc' = "kernel" /\ root' = device /\ UNCHANGED held
     \/ /\ ~Mountable(device)
        /\ pc' = "wait" /\ UNCHANGED <<root, held>>
     \/ /\ Unreachable /\ root = None
        /\ pc' = "hung" /\ held' = TRUE /\ UNCHANGED root
  /\ initrd' = FALSE /\ cut' = FALSE
  /\ UNCHANGED <<queueVars, files, diskVars, netVars, clients, device, leaked, room, mem>>

\* try_to_netboot
TryNetwork ==
  /\ pc = "try" /\ device = Network
  /\ pc' = (IF up THEN "kernel" ELSE "wait")
  /\ initrd' = FALSE /\ cut' = FALSE
  /\ UNCHANGED <<queueVars, files, worldVars, device, root, leaked, room, mem>>

-----------------------------------------------------------------------------
(* Loading *)

\* Megabytes that map_physical maps for a piece.
Window(p) == CASE p = "kernel" -> 32 [] p = "dtb" -> 1 [] p = "initrd" -> 16

\* BUG: the address space is not counted.
BugMapPhysical(p) == room' = room - Window(p)

MapPhysical(p) == room >= Window(p) /\ room' = room - Window(p)

Loaded(p, whole) == mem' = [mem EXCEPT ![p] = [from |-> device, whole |-> whole]]

NoWindow(p) ==
  /\ room < Window(p)
  /\ pc' = (IF device = Network THEN "wait" ELSE "unmount")
  /\ UNCHANGED <<held, clients, room, mem, leaked, cut>>

\* read_file for a piece of the kernel: a failed fs_stat_file and a partial read
\* leave the file open; after a partial read the address the file was mapped to is
\* given to free(), which may go unnoticed or not.
ReadFile(p, next) ==
  /\ device \in Disk /\ ~Unreachable /\ MapPhysical(p) /\ UNCHANGED <<held, clients, cut>>
  /\ \/ /\ files[device][p] \in {"ok", "invalid", "nomem"}
        /\ Loaded(p, TRUE) /\ pc' = next /\ UNCHANGED leaked
     \/ /\ files[device][p] = "empty"
        /\ pc' = next /\ UNCHANGED <<mem, leaked>>
     \/ /\ files[device][p] \in {"absent", "big"}
        /\ pc' = "unmount" /\ UNCHANGED <<mem, leaked>>
     \/ /\ files[device][p] = "stat"
        /\ pc' = "unmount" /\ leaked' = TRUE /\ UNCHANGED mem
     \/ /\ files[device][p] = "short"
        /\ Loaded(p, FALSE) /\ leaked' = TRUE /\ pc' \in {"unmount", "panic"}

FileHangs(p) ==
  /\ Unreachable /\ MapPhysical(p)
  /\ pc' = "hung" /\ held' = TRUE
  /\ UNCHANGED <<clients, mem, leaked, cut>>

\* tftp_blocking_get for a piece of the kernel.  init_done is never set: each
\* download makes another client, and the assertion of the one for which lwIP has
\* no room fails.
NoClient ==
  /\ clients = 0
  /\ pc' = "panic" /\ UNCHANGED <<clients, mem, cut>>

\* The server answers: only a negative size is an error; a file that does not fit
\* fails an assertion.
Served(p, next) ==
  /\ clients > 0 /\ clients' = clients - 1
  /\ up /\ fault = "none" /\ UNCHANGED cut
  /\ \/ /\ files[device][p] \in {"ok", "invalid", "nomem"}
        /\ Loaded(p, TRUE) /\ pc' = next
     \/ /\ files[device][p] = "empty"
        /\ pc' = next /\ UNCHANGED mem
     \/ /\ files[device][p] = "big"
        /\ Loaded(p, FALSE) /\ pc' = "panic"
     \/ /\ files[device][p] \in {"absent", "stat", "short"}
        /\ mem' = mem \/ Loaded(p, FALSE)
        /\ pc' = "wait"

\* Without a network, a server or memory: the assertion that tftp_get has begun
\* fails, or that of a block in one piece; or the download ends early, with an
\* error or without one.
Disturbed(p, next) ==
  /\ clients > 0 /\ clients' = clients - 1
  /\ ~up \/ fault # "none"
  /\ mem' = mem \/ Loaded(p, FALSE)
  /\ \/ pc' \in {"wait", "panic"} /\ UNCHANGED cut
     \/ pc' = next /\ cut' = TRUE

TftpGet(p, next) ==
  /\ device = Network /\ MapPhysical(p)
  /\ NoClient \/ Served(p, next) \/ Disturbed(p, next)
  /\ UNCHANGED <<held, leaked>>

Load(p, next) ==
  NoWindow(p) \/ ReadFile(p, next) \/ FileHangs(p) \/ TftpGet(p, next)

\* load_kernel, network_load_kernel: the kernel, then the device tree
LoadKernel ==
  /\ pc = "kernel" /\ Load("kernel", "dtb")
  /\ UNCHANGED <<queueVars, files, diskVars, netVars, device, root, initrd>>

LoadDtb ==
  /\ pc = "dtb" /\ Load("dtb", IF device = Network THEN "patch" ELSE "initrd")
  /\ UNCHANGED <<queueVars, files, diskVars, netVars, device, root, initrd>>

\* BUG: an initrd that is read in part is used.
BugMaybeLoadInitrd ==
  /\ pc = "initrd" /\ ~Unreachable
  /\ \/ /\ files[device].initrd \notin {"ok", "short"}
        /\ UNCHANGED <<leaked, room, mem, initrd>>
     \/ /\ files[device].initrd \in {"ok", "short"}
        /\ MapPhysical("initrd")
        /\ Loaded("initrd", files[device].initrd = "ok")
        /\ initrd' = TRUE /\ UNCHANGED leaked
  /\ pc' = "patch"
  /\ UNCHANGED <<queueVars, files, worldVars, device, root, cut>>

\* maybe_load_initrd: whatever happens, the boot goes on.
MaybeLoadInitrd ==
  /\ pc = "initrd" /\ ~Unreachable
  /\ \/ /\ files[device].initrd \in {"absent", "stat", "big"}
        /\ UNCHANGED <<leaked, room, mem, initrd>>
     \/ /\ files[device].initrd \in {"ok", "short", "empty"} /\ room < Window("initrd")
        /\ leaked' = TRUE /\ UNCHANGED <<room, mem, initrd>>
     \/ /\ files[device].initrd = "ok" /\ MapPhysical("initrd")
        /\ Loaded("initrd", TRUE) /\ initrd' = TRUE /\ UNCHANGED leaked
     \/ /\ files[device].initrd = "short" /\ MapPhysical("initrd")
        /\ Loaded("initrd", FALSE) /\ leaked' = TRUE /\ UNCHANGED initrd
     \/ /\ files[device].initrd = "empty" /\ MapPhysical("initrd")
        /\ UNCHANGED <<mem, leaked, initrd>>
  /\ pc' = "patch"
  /\ UNCHANGED <<queueVars, files, worldVars, device, root, cut>>

InitrdHangs ==
  /\ pc = "initrd" /\ Unreachable
  /\ pc' = "hung" /\ held' = TRUE
  /\ UNCHANGED <<queueVars, files, diskVars, netVars, clients, device, attemptVars>>

\* BUG: the file system stays mounted.
BugUnmount ==
  /\ pc = "unmount"
  /\ pc' = "wait"
  /\ UNCHANGED <<queueVars, files, worldVars, device, attemptVars>>

\* fs_unmount; a file that was left open keeps the file system mounted.
Unmount ==
  /\ pc = "unmount"
  /\ root' = (IF leaked THEN root ELSE None)
  /\ pc' = "wait"
  /\ UNCHANGED <<queueVars, files, worldVars, device, leaked, room, mem, initrd, cut>>

-----------------------------------------------------------------------------
(* Starting Linux *)

\* What fdt_open_into and the lookups of /chosen, /memory and /soc make of what is
\* at the address of the device tree.
TreeIs(kind) ==
  LET t == mem["dtb"]
  IN IF t.from = None THEN kind = "invalid"
     ELSE t.whole => kind = files[t.from].dtb

\* patch_dtb; on failure try_to_boot returns ("TODO, cleanup mounts").
PatchDtb ==
  /\ pc = "patch"
  /\ \E kind \in {"ok", "invalid", "nomem"} :
       /\ TreeIs(kind)
       /\ pc' = CASE kind = "ok" -> "execute"
                  [] kind = "invalid" -> "wait"
                  [] kind = "nomem" -> "panic"
  /\ UNCHANGED <<queueVars, files, worldVars, device, attemptVars>>

\* execute_linux, a second later: arch_chain_load panics when it has no memory for
\* its address space.
ExecuteLinux ==
  /\ pc = "execute"
  /\ pc' = "linux" \/ (fault = "memory" /\ pc' = "panic")
  /\ UNCHANGED <<queueVars, files, worldVars, device, attemptVars>>

Loader ==
  \/ Entry \/ Wait \/ Take \/ TryDisk \/ TryNetwork
  \/ LoadKernel \/ LoadDtb \/ MaybeLoadInitrd \/ InitrdHangs \/ Unmount
  \/ PatchDtb \/ ExecuteLinux

Next ==
  \/ Loader
  \/ Plug \/ Unplug \/ LoaderStatus \/ NetifDown
  \/ \E i \in 1 .. MaxPlugs : Probe(i) \/ MsdProbed(i)
  \/ \E f \in {"none"} \cup Faults : Fault(f)

Spec == Init /\ [][Next]_vars

\* The scheduler runs the loader's thread; devices come and go as they like.
FairSpec == Spec /\ WF_vars(Loader)

-----------------------------------------------------------------------------
(* Properties *)

\* The event is unsignaled with the last name, so the loader, once woken, finds
\* one: pd->name is never read from NULL.
WokenFindsTarget == pc = "take" => pending_devices # <<>>

\* The attempt seen from outside, see AbstractBoot.
Trying == IF pc \in {"entry", "wait", "take", "halted"} THEN None ELSE device

Phase ==
  CASE pc = "entry" -> "starting"
    [] pc \in {"linux", "panic"} -> "over"
    [] pc = "halted" -> "halted"
    [] OTHER -> "serving"

Boot == INSTANCE AbstractBoot WITH queue <- pending_devices, trying <- Trying, phase <- Phase

\* The targets are tried in the order in which they were found, whoever finds
\* them: none is lost, none is tried twice, and nothing but an attempt ends the
\* loader, so that a woken loader never reads a name of NULL.
TriesInOrder == Boot!Spec

\* What Linux is started with is what the target tried has: kernel, device tree
\* and initrd are never mixed from several targets or from parts of files, with
\* the exceptions the code has: an empty file, a download cut short.
ImageComplete ==
  pc = "linux" =>
    /\ \A p \in {"kernel", "dtb"} :
         \/ mem[p] = [from |-> device, whole |-> TRUE]
         \/ files[device][p] = "empty"
         \/ cut
    /\ initrd => mem["initrd"] = [from |-> device, whole |-> TRUE]

\* Only a file that was left open, or a device tree that could not be patched,
\* leaves /root mounted when a target has failed.
MountGivenBack ==
  pc \in {"wait", "take", "try"} /\ root # None =>
    leaked \/ files[root].dtb \in {"invalid", "empty"}

Bootable(t) == files[t].kernel = "ok" /\ files[t].dtb = "ok" /\ (t \in Disk => files[t].fs)

\* What keeps a target from being booted: the loader, or the machine, has stopped;
\* an earlier attempt has used up the address space or left /root mounted; the disk
\* is gone, its partitions are not known yet or msd_mutex is never given back; the
\* network, its server or its memory is gone, or lwIP has no room for another client;
\* there is no memory to start Linux.
Blocked(t) ==
  \/ pc \in {"panic", "hung", "halted"}
  \/ room < Window("kernel") + Window("dtb")
  \/ t \in Disk /\ root # None /\ (leaked \/ files[root].dtb \in {"invalid", "empty"})
  \/ t \in UsbPart /\ (~known \/ held)
  \/ t = Network /\ (~up \/ fault # "none" \/ clients = 0)
  \/ pc = "execute" /\ fault = "memory"

\* The attempt at a target that can be booted ends without Linux, by an assertion
\* or a panic as well, only when the target was blocked at that moment or a download
\* had been cut short unnoticed: what earlier attempts and events left behind stops
\* it only in the ways that Blocked names.
OnlyBlockedTargetsFail ==
  [][Trying # None /\ pc' \in {"wait", "panic", "hung"} =>
       ~Bootable(device) \/ Blocked(device) \/ (pc = "patch" /\ cut)]_vars

\* A target that can be booted is booted in the end, whatever was tried before it,
\* unless Linux was started from another or the loader was blocked.
BootsIfPossible ==
  \A t \in Target :
    (t \in {pending_devices[i] : i \in DOMAIN pending_devices} /\ Bootable(t))
      ~> (pc = "linux" \/ Blocked(t))
=============================================================================
