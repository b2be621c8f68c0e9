------------------------- MODULE LinuxLoaderProofs --------------------------
(***************************************************************************)
(* Proofs about LinuxLoader, for any number of USB partitions, any content *)
(* of the targets, any address space and any coming and going of devices.  *)
(***************************************************************************)
EXTENDS LinuxLoader, TLAPS

-----------------------------------------------------------------------------
(* The inductive invariant *)

QueueInv ==
  /\ nonempty <=> pending_devices # <<>>
  /\ pc = "take" => pending_devices # <<>>

Busy == {"kernel", "dtb", "initrd", "patch", "execute", "unmount", "linux"}

\* While a disk is tried it is mounted; only disks have an initrd and unmounting.
DeviceInv ==
  /\ pc \in Busy \cup {"try"} => device \in Target
  /\ pc \in {"initrd", "unmount"} => device \in Disk
  /\ pc \in Busy /\ device \in Disk => root = device /\ ~cut

\* A mount that is left over.
Left == root # None => leaked \/ files[root].dtb \in {"invalid", "empty"}

MountInv ==
  /\ pc \in {"entry", "wait", "take", "try"} => Left
  /\ pc \in Busy /\ device = Network => Left

Mine(p) == mem[p] = [from |-> device, whole |-> TRUE]

Have(p) == Mine(p) \/ files[device][p] = "empty" \/ cut

LoadInv ==
  /\ pc \in {"dtb", "initrd", "patch", "execute", "linux"} => Have("kernel")
  /\ pc \in {"initrd", "patch", "execute", "linux"} => Have("dtb")
  /\ pc \in {"kernel", "dtb", "initrd"} => ~initrd
  /\ pc \in {"patch", "execute", "linux"} /\ initrd => Mine("initrd")

IInv == TypeOK /\ QueueInv /\ DeviceInv /\ MountInv /\ LoadInv

-----------------------------------------------------------------------------
(* Facts about the definitions *)

\* Every file of a target has a kind.
LEMMA FileKinds ==
  ASSUME TypeOK, NEW t \in Target
  PROVE  /\ files[t].kernel \in Kind /\ files[t].initrd \in Kind
         /\ files[t].dtb \in Kind \cup {"invalid", "nomem"}
         /\ files[t].fs \in BOOLEAN
BY ContentsAssumption DEF TypeOK, Device

\* The targets are disks or the network, and None is no target.
LEMMA Targets == Network \notin Disk /\ None \notin Target /\ Disk \subseteq Target
BY TargetAssumption DEF Target, Disk

\* Adding a name keeps the queue and its event in step.
LEMMA Adding ==
  ASSUME TypeOK, QueueInv, NEW name \in Target, AddBootTarget(name), pc' = pc \/ pc' = "wait"
  PROVE  QueueInv' /\ pending_devices' \in Seq(Target) /\ nonempty' \in BOOLEAN
BY DEF TypeOK, QueueInv, AddBootTarget

\* The steps of the disk and its probers keep the types.
LEMMA DiskTypes ==
  ASSUME UsbTypeOK,
         \/ (\E b \in BOOLEAN : DiskIn(b)) \/ DiskOut
         \/ (\E i \in 1 .. MaxPlugs : ReadTable(i) \/ PartAdded(i))
         \/ (UNCHANGED diskVars /\ held' \in BOOLEAN) \/ UNCHANGED usbVars
  PROVE  UsbTypeOK'
<1>1. CASE \E b \in BOOLEAN : DiskIn(b)
    BY <1>1, UsbAssumption DEF UsbTypeOK, DiskIn
<1>2. CASE DiskOut
    BY <1>2 DEF UsbTypeOK, DiskOut
<1>3. ASSUME NEW i \in 1 .. MaxPlugs, ReadTable(i)
      PROVE  UsbTypeOK'
    BY <1>3 DEF UsbTypeOK, ReadTable
<1>4. ASSUME NEW i \in 1 .. MaxPlugs, PartAdded(i)
      PROVE  UsbTypeOK'
  <2>1. probed[i] + 1 \in 0 .. Len(UsbParts)
      BY <1>4, UsbAssumption DEF UsbTypeOK, PartAdded
  <2> QED
      BY <1>4, <2>1 DEF UsbTypeOK, PartAdded
<1>5. CASE (UNCHANGED diskVars /\ held' \in BOOLEAN) \/ UNCHANGED usbVars
    BY <1>5 DEF UsbTypeOK, usbVars, diskVars
<1> QED
    BY <1>1, <1>2, <1>3, <1>4, <1>5

LEMMA PartFound ==
  ASSUME UsbTypeOK, NEW i \in 1 .. MaxPlugs, PartAdded(i)
  PROVE  NextPart(i) \in Target
<1>1. probed[i] + 1 \in 1 .. Len(UsbParts)
    BY UsbAssumption DEF UsbTypeOK, PartAdded
<1> QED
    BY <1>1, UsbAssumption DEF NextPart, Target, Disk

LEMMA Initial == Init => IInv
<1> SUFFICES ASSUME Init PROVE IInv
    OBVIOUS
<1>1. TypeOK
  <2>1. 0 \in 0 .. Len(UsbParts) /\ 0 \in 0 .. MaxPlugs /\ 0 \in 0 .. MaxNetEvents
        /\ Room \in 0 .. Room /\ clients \in Nat
      BY BoundAssumption, UsbAssumption DEF Init
  <2>2. UsbTypeOK
      BY <2>1 DEF Init, UsbInit, UsbTypeOK
  <2>3. mem \in [Piece -> [from : Target \cup {None}, whole : BOOLEAN]]
      BY DEF Init
  <2>4. pending_devices \in Seq(Target)
      BY DEF Init, QueueInit
  <2> QED
      BY <2>1, <2>2, <2>3, <2>4 DEF Init, QueueInit, TypeOK, LoaderPc
<1>2. QueueInv /\ DeviceInv /\ MountInv /\ LoadInv
    BY DEF Init, QueueInit, QueueInv, DeviceInv, MountInv, LoadInv, Busy, Left
<1> QED
    BY <1>1, <1>2 DEF IInv

-----------------------------------------------------------------------------
(* The world: the loader's own state does not change *)

LEMMA WorldStep ==
  ASSUME IInv, UNCHANGED <<files, loaderVars>>, QueueInv', TypeOK'
  PROVE  IInv'
<1>1. DeviceInv' /\ MountInv'
    BY DEF IInv, DeviceInv, MountInv, Left, loaderVars, attemptVars
<1>2. LoadInv'
    BY DEF IInv, LoadInv, Have, Mine, loaderVars, attemptVars
<1> QED
    BY <1>1, <1>2 DEF IInv

LEMMA PlugStep == ASSUME IInv, Plug PROVE IInv'
<1>0. (UNCHANGED pc \/ pc' = "halted") /\ \E b \in BOOLEAN : DiskIn(b)
    BY DEF Plug
<1>1. TypeOK' /\ QueueInv'
    BY <1>0, DiskTypes DEF IInv, TypeOK, QueueInv, Plug, queueVars, netVars, attemptVars, LoaderPc
<1>2. CASE UNCHANGED pc
    BY <1>1, <1>2, WorldStep DEF Plug, loaderVars
<1>3. CASE pc' = "halted"
    BY <1>1, <1>3 DEF IInv, DeviceInv, MountInv, LoadInv, Busy
<1> QED
    BY <1>0, <1>2, <1>3

LEMMA UnplugStep == ASSUME IInv, Unplug PROVE IInv'
<1>1. TypeOK' /\ QueueInv'
    BY DiskTypes DEF IInv, TypeOK, QueueInv, Unplug, queueVars, netVars, loaderVars, attemptVars
<1> QED
    BY <1>1, WorldStep DEF Unplug

LEMMA ProbeStep ==
  ASSUME IInv, NEW i \in 1 .. MaxPlugs, Probe(i)
  PROVE  IInv'
<1>1. TypeOK' /\ QueueInv'
    BY DiskTypes DEF IInv, TypeOK, QueueInv, Probe, queueVars, netVars, loaderVars, attemptVars
<1> QED
    BY <1>1, WorldStep DEF Probe

LEMMA NetifDownStep == ASSUME IInv, NetifDown PROVE IInv'
<1>1. TypeOK' /\ QueueInv'
    BY DiskTypes DEF IInv, TypeOK, QueueInv, NetifDown, queueVars, loaderVars, attemptVars
<1> QED
    BY <1>1, WorldStep DEF NetifDown

LEMMA FaultStep ==
  ASSUME IInv, NEW f \in {"none"} \cup Faults, Fault(f)
  PROVE  IInv'
<1>1. TypeOK' /\ QueueInv'
    BY DiskTypes DEF IInv, TypeOK, QueueInv, Fault, queueVars, loaderVars, attemptVars
<1> QED
    BY <1>1, WorldStep DEF Fault

LEMMA LoaderStatusStep == ASSUME IInv, LoaderStatus PROVE IInv'
<1>1. Network \in Target
    BY DEF Target
<1>2. QueueInv' /\ pending_devices' \in Seq(Target) /\ nonempty' \in BOOLEAN
    BY <1>1, Adding DEF IInv, LoaderStatus, loaderVars, attemptVars
<1>3. TypeOK'
    BY <1>2, DiskTypes, BoundAssumption DEF IInv, TypeOK, LoaderStatus, loaderVars, attemptVars
<1> QED
    BY <1>2, <1>3, WorldStep DEF LoaderStatus

LEMMA MsdProbedStep ==
  ASSUME IInv, NEW i \in 1 .. MaxPlugs, MsdProbed(i)
  PROVE  IInv'
<1>1. NextPart(i) \in Target
    BY PartFound DEF IInv, TypeOK, MsdProbed
<1>2. QueueInv' /\ pending_devices' \in Seq(Target) /\ nonempty' \in BOOLEAN
    BY <1>1, Adding DEF IInv, MsdProbed, loaderVars
<1>3. TypeOK'
    BY <1>2, DiskTypes DEF IInv, TypeOK, MsdProbed, netVars, loaderVars, attemptVars
<1> QED
    BY <1>2, <1>3, WorldStep DEF MsdProbed

-----------------------------------------------------------------------------
(* The loader's steps that load nothing *)

LEMMA EntryStep == ASSUME IInv, Entry PROVE IInv'
<1>1. Sd \in Target
    BY DEF Target, Disk
<1>2. QueueInv' /\ pending_devices' \in Seq(Target) /\ nonempty' \in BOOLEAN
    BY <1>1, Adding DEF IInv, Entry
<1>3. TypeOK'
    BY <1>2, DiskTypes DEF IInv, TypeOK, Entry, worldVars, netVars,
       attemptVars, LoaderPc
<1>4. DeviceInv' /\ MountInv' /\ LoadInv'
    BY DEF IInv, DeviceInv, MountInv, LoadInv, Left, Busy, Entry, attemptVars
<1> QED
    BY <1>2, <1>3, <1>4 DEF IInv

LEMMA WaitStep == ASSUME IInv, Wait PROVE IInv'
<1>1. TypeOK' /\ QueueInv'
    BY DiskTypes DEF IInv, TypeOK, QueueInv, Wait, queueVars, worldVars, netVars,
       attemptVars, LoaderPc
<1>2. DeviceInv' /\ MountInv' /\ LoadInv'
    BY DEF IInv, DeviceInv, MountInv, LoadInv, Left, Busy, Wait, attemptVars
<1> QED
    BY <1>1, <1>2 DEF IInv

\* A woken loader finds a name: the panic is not reached.
LEMMA TakeStep == ASSUME IInv, Take PROVE IInv'
<1>1. pending_devices # <<>>
    BY DEF IInv, QueueInv, Take
<1>2. /\ pc' = "try" /\ device' = Head(pending_devices)
      /\ pending_devices' = Tail(pending_devices)
    BY <1>1 DEF Take, RemoveHead
<1>3. device' \in Target /\ pending_devices' \in Seq(Target)
    BY <1>1, <1>2 DEF IInv, TypeOK
<1>4. QueueInv' /\ nonempty' \in BOOLEAN
    BY <1>1, <1>2 DEF IInv, TypeOK, QueueInv, Take, RemoveHead
<1>5. TypeOK'
    BY <1>2, <1>3, <1>4, DiskTypes DEF IInv, TypeOK, Take, worldVars, netVars,
       attemptVars, LoaderPc
<1>6. DeviceInv' /\ MountInv' /\ LoadInv'
    BY <1>2, <1>3 DEF IInv, DeviceInv, MountInv, LoadInv, Left, Busy, Take, attemptVars
<1> QED
    BY <1>4, <1>5, <1>6 DEF IInv

LEMMA TryDiskStep == ASSUME IInv, TryDisk PROVE IInv'
<1>0. held' \in BOOLEAN /\ UNCHANGED diskVars
    BY DEF IInv, TypeOK, UsbTypeOK, TryDisk
<1>1. TypeOK' /\ QueueInv'
    BY <1>0, DiskTypes DEF IInv, TypeOK, QueueInv, TryDisk, queueVars, worldVars, netVars,
       attemptVars, LoaderPc
<1>2. DeviceInv'
    BY Targets DEF IInv, TypeOK, DeviceInv, TryDisk, Mountable, Busy
<1>3. MountInv'
    BY Targets DEF IInv, MountInv, Left, TryDisk, Busy
<1>4. LoadInv'
    BY DEF IInv, LoadInv, TryDisk
<1> QED
    BY <1>1, <1>2, <1>3, <1>4 DEF IInv

LEMMA TryNetworkStep == ASSUME IInv, TryNetwork PROVE IInv'
<1>1. TypeOK' /\ QueueInv'
    BY DiskTypes DEF IInv, TypeOK, QueueInv, TryNetwork, queueVars, worldVars, netVars,
       attemptVars, LoaderPc
<1>2. DeviceInv'
    BY Targets DEF IInv, DeviceInv, TryNetwork, Busy
<1>3. MountInv'
    BY DEF IInv, MountInv, Left, TryNetwork, Busy
<1>4. LoadInv'
    BY DEF IInv, LoadInv, TryNetwork
<1> QED
    BY <1>1, <1>2, <1>3, <1>4 DEF IInv

LEMMA InitrdHangsStep == ASSUME IInv, InitrdHangs PROVE IInv'
<1>1. TypeOK' /\ QueueInv'
    BY DiskTypes DEF IInv, TypeOK, QueueInv, InitrdHangs, queueVars, worldVars, netVars,
       attemptVars, LoaderPc
<1>2. DeviceInv' /\ MountInv' /\ LoadInv'
    BY DEF IInv, DeviceInv, MountInv, LoadInv, Busy, InitrdHangs, attemptVars
<1> QED
    BY <1>1, <1>2 DEF IInv

LEMMA UnmountStep == ASSUME IInv, Unmount PROVE IInv'
<1>1. TypeOK' /\ QueueInv'
    BY DiskTypes DEF IInv, TypeOK, QueueInv, Unmount, queueVars, worldVars, netVars,
       attemptVars, LoaderPc
<1>2. DeviceInv' /\ LoadInv'
    BY DEF IInv, DeviceInv, LoadInv, Busy, Unmount
<1>3. MountInv'
    BY Targets DEF IInv, MountInv, Left, Busy, Unmount
<1> QED
    BY <1>1, <1>2, <1>3 DEF IInv

\* A tree that could not be patched was the device's own, and not a good one.
LEMMA PatchDtbStep == ASSUME IInv, PatchDtb PROVE IInv'
<1>1. TypeOK' /\ QueueInv'
    BY DiskTypes DEF IInv, TypeOK, QueueInv, PatchDtb, queueVars, worldVars, netVars,
       attemptVars, LoaderPc
<1>2. pc = "patch" /\ pc' \in {"execute", "wait", "panic"}
    BY DEF PatchDtb
<1>3. DeviceInv' /\ LoadInv'
    BY <1>2 DEF IInv, DeviceInv, LoadInv, Have, Mine, Busy, PatchDtb, attemptVars
<1>4. CASE pc' # "wait"
  <2> QED
    BY <1>1, <1>2, <1>3, <1>4 DEF IInv, MountInv, Left, Busy, PatchDtb, attemptVars
<1>5. CASE pc' = "wait" /\ device = Network
  <2> QED
    BY <1>1, <1>2, <1>3, <1>5 DEF IInv, MountInv, Left, Busy, PatchDtb, attemptVars
<1>6. CASE pc' = "wait" /\ device \in Disk
  <2>1. TreeIs("invalid")
      BY <1>6 DEF PatchDtb
  <2>2. root = device /\ ~cut /\ device \in Target /\ Have("dtb")
      BY <1>2, <1>6 DEF IInv, DeviceInv, LoadInv, Busy
  <2>3. files[device].dtb \in {"invalid", "empty"}
    <3>1. CASE Mine("dtb")
        BY <2>1, <2>2, <3>1, Targets DEF TreeIs, Mine
    <3> QED
        BY <2>2, <3>1 DEF Have
  <2> QED
    BY <1>1, <1>2, <1>3, <1>6, <2>2, <2>3 DEF IInv, MountInv, Left, Busy, PatchDtb, attemptVars
<1> QED
    BY <1>2, <1>4, <1>5, <1>6 DEF IInv, DeviceInv, Busy, Target

LEMMA ExecuteLinuxStep == ASSUME IInv, ExecuteLinux PROVE IInv'
<1>1. TypeOK' /\ QueueInv'
    BY DiskTypes DEF IInv, TypeOK, QueueInv, ExecuteLinux, queueVars, worldVars, netVars,
       attemptVars, LoaderPc
<1>2. DeviceInv' /\ MountInv' /\ LoadInv'
    BY DEF IInv, DeviceInv, MountInv, LoadInv, Left, Have, Mine, Busy, ExecuteLinux, attemptVars
<1> QED
    BY <1>1, <1>2 DEF IInv

-----------------------------------------------------------------------------
(* Loading *)

\* What the loading of a piece does, wherever it comes from.
Outcome(p, next) ==
  /\ room' \in 0 .. Room /\ held' \in BOOLEAN /\ clients' \in Nat
  /\ leaked' \in BOOLEAN /\ (leaked => leaked')
  /\ cut' \in BOOLEAN /\ (cut => cut') /\ (device \in Disk => cut' = cut)
  /\ mem' \in [Piece -> [from : Target \cup {None}, whole : BOOLEAN]]
  /\ \A q \in Piece \ {p} : mem'[q] = mem[q]
  /\ pc' \in {next, "wait", "unmount", "panic", "hung"}
  /\ pc' = next =>
       mem'[p] = [from |-> device, whole |-> TRUE] \/ files[device][p] = "empty" \/ cut'
  /\ pc' = "wait" => device = Network
  /\ pc' = "unmount" => device \in Disk

LEMMA Overwritten ==
  ASSUME TypeOK, NEW p \in Piece, device \in Target, NEW whole \in BOOLEAN, Loaded(p, whole)
  PROVE  /\ mem' \in [Piece -> [from : Target \cup {None}, whole : BOOLEAN]]
         /\ mem'[p] = [from |-> device, whole |-> whole]
         /\ \A q \in Piece \ {p} : mem'[q] = mem[q]
BY DEF TypeOK, Loaded

LEMMA Mapped ==
  ASSUME TypeOK, NEW p \in Piece, MapPhysical(p)
  PROVE  room' \in 0 .. Room
BY BoundAssumption DEF TypeOK, MapPhysical, Window, Piece

LEMMA LoadOutcome ==
  ASSUME TypeOK, device \in Target, NEW p \in {"kernel", "dtb"},
         NEW next \in {"dtb", "patch", "initrd"}, Load(p, next)
  PROVE  Outcome(p, next)
<1>0. p \in Piece /\ TRUE \in BOOLEAN /\ FALSE \in BOOLEAN
    BY DEF Piece
<1>a. device = Network \/ device \in Disk
    BY DEF Target
<1>b. leaked \in BOOLEAN /\ cut \in BOOLEAN /\ room \in 0 .. Room
      /\ held \in BOOLEAN /\ clients \in Nat
      /\ mem \in [Piece -> [from : Target \cup {None}, whole : BOOLEAN]]
    BY DEF TypeOK, UsbTypeOK
<1>1. CASE NoWindow(p)
    BY <1>1, <1>a, <1>b DEF NoWindow, Outcome
<1>2. CASE ReadFile(p, next)
  <2>1. /\ room' \in 0 .. Room /\ device \in Disk /\ cut' = cut
        /\ held' = held /\ clients' = clients
      BY <1>0, <1>2, Mapped DEF ReadFile
  <2>2. CASE Loaded(p, TRUE) /\ pc' = next /\ UNCHANGED leaked
      BY <2>1, <2>2, <1>0, <1>b, Overwritten DEF Outcome
  <2>3. CASE files[device][p] = "empty" /\ pc' = next /\ UNCHANGED <<mem, leaked>>
      BY <2>1, <2>3, <1>b DEF Outcome
  <2>4. CASE pc' = "unmount" /\ UNCHANGED mem /\ leaked' \in BOOLEAN /\ (leaked => leaked')
      BY <2>1, <2>4, <1>b DEF Outcome
  <2>5. CASE Loaded(p, FALSE) /\ leaked' = TRUE /\ pc' \in {"unmount", "panic"}
      BY <2>1, <2>5, <1>0, <1>b, Overwritten DEF Outcome
  <2> QED
      BY <1>2, <1>b, <2>2, <2>3, <2>4, <2>5 DEF ReadFile
<1>3. CASE FileHangs(p)
    BY <1>0, <1>3, <1>b, Mapped DEF FileHangs, Outcome
<1>4. CASE TftpGet(p, next)
  <2>1. /\ room' \in 0 .. Room /\ device = Network /\ leaked' = leaked /\ device \notin Disk
        /\ held' = held
      BY <1>0, <1>4, Mapped, Targets DEF TftpGet
  <2>2. clients' \in Nat
    <3>1. clients' = clients \/ (clients > 0 /\ clients' = clients - 1)
        BY <1>4 DEF TftpGet, NoClient, Served, Disturbed
    <3> QED
        BY <1>b, <3>1
  <2>3. CASE Loaded(p, TRUE) /\ pc' = next /\ UNCHANGED cut
      BY <2>1, <2>2, <2>3, <1>0, <1>b, Overwritten DEF Outcome
  <2>4. CASE files[device][p] = "empty" /\ pc' = next /\ UNCHANGED <<mem, cut>>
      BY <2>1, <2>2, <2>4, <1>b DEF Outcome
  <2>5. CASE Loaded(p, FALSE) /\ pc' \in {"wait", "panic"} /\ UNCHANGED cut
      BY <2>1, <2>2, <2>5, <1>0, <1>b, Overwritten DEF Outcome
  <2>6. CASE UNCHANGED mem /\ pc' \in {"wait", "panic"} /\ UNCHANGED cut
      BY <2>1, <2>2, <2>6, <1>b DEF Outcome
  <2>7. CASE UNCHANGED mem /\ pc' = next /\ cut' = TRUE
      BY <2>1, <2>2, <2>7, <1>b DEF Outcome
  <2>8. CASE Loaded(p, FALSE) /\ pc' = next /\ cut' = TRUE
      BY <2>1, <2>2, <2>8, <1>0, <1>b, Overwritten DEF Outcome
  <2>9. CASE NoClient
      BY <2>6, <2>9 DEF NoClient
  <2>10. CASE Served(p, next)
      BY <2>3, <2>4, <2>5, <2>6, <2>10 DEF Served
  <2>11. CASE Disturbed(p, next)
      BY <2>5, <2>6, <2>7, <2>8, <2>11 DEF Disturbed
  <2> QED
      BY <1>4, <2>9, <2>10, <2>11 DEF TftpGet
<1> QED
    BY <1>1, <1>2, <1>3, <1>4 DEF Load

LEMMA LoadKernelStep == ASSUME IInv, LoadKernel PROVE IInv'
<1>1. pc = "kernel" /\ device \in Target /\ "kernel" \in Piece
    BY DEF IInv, DeviceInv, Busy, LoadKernel, Piece
<1>2. Outcome("kernel", "dtb")
    BY <1>1, LoadOutcome DEF IInv, LoadKernel
<1>3. TypeOK' /\ QueueInv'
    BY <1>2, DiskTypes DEF IInv, TypeOK, QueueInv, LoadKernel, Outcome, queueVars, worldVars,
       netVars, attemptVars, LoaderPc
<1>4. DeviceInv'
    BY <1>1, <1>2 DEF IInv, DeviceInv, LoadKernel, Outcome, Busy
<1>5. MountInv'
    BY <1>1, <1>2, Targets DEF IInv, MountInv, Left, LoadKernel, Outcome, Busy
<1>6. LoadInv'
    BY <1>1, <1>2 DEF IInv, LoadInv, Have, Mine, LoadKernel, Outcome
<1> QED
    BY <1>3, <1>4, <1>5, <1>6 DEF IInv

LEMMA LoadDtbStep == ASSUME IInv, LoadDtb PROVE IInv'
<1> DEFINE next == IF device = Network THEN "patch" ELSE "initrd"
<1>1. pc = "dtb" /\ device \in Target /\ "dtb" \in Piece /\ "kernel" \in Piece \ {"dtb"}
      /\ next \in {"dtb", "patch", "initrd"}
    BY DEF IInv, DeviceInv, Busy, LoadDtb, Piece
<1>2. Outcome("dtb", next)
    BY <1>1, LoadOutcome DEF IInv, LoadDtb
<1>3. TypeOK' /\ QueueInv'
    BY <1>2, DiskTypes DEF IInv, TypeOK, QueueInv, LoadDtb, Outcome, queueVars, worldVars, netVars,
       attemptVars, LoaderPc
<1>4. DeviceInv'
    BY <1>1, <1>2 DEF IInv, DeviceInv, LoadDtb, Outcome, Busy, Target
<1>5. MountInv'
    BY <1>1, <1>2, Targets DEF IInv, MountInv, Left, LoadDtb, Outcome, Busy
<1>6. LoadInv'
  <2>1. Have("kernel") /\ ~initrd /\ mem'["kernel"] = mem["kernel"]
        /\ initrd' = initrd /\ files' = files /\ device' = device
      BY <1>1, <1>2 DEF IInv, LoadInv, LoadDtb, Outcome
  <2>2. Have("kernel")'
      BY <2>1, <1>2 DEF Have, Mine, Outcome
  <2>3. pc' = next => Have("dtb")'
      BY <2>1, <1>2 DEF Have, Mine, Outcome
  <2> QED
      BY <1>1, <1>2, <2>1, <2>2, <2>3 DEF LoadInv, Outcome
<1> QED
    BY <1>3, <1>4, <1>5, <1>6 DEF IInv

LEMMA MaybeLoadInitrdStep == ASSUME IInv, MaybeLoadInitrd PROVE IInv'
<1>0. pc = "initrd" /\ pc' = "patch" /\ device \in Target /\ device \in Disk
      /\ ~initrd /\ Have("kernel") /\ Have("dtb")
    BY DEF IInv, DeviceInv, LoadInv, MaybeLoadInitrd, Busy
<1>1. "initrd" \in Piece /\ {"kernel", "dtb"} \subseteq Piece \ {"initrd"}
    BY DEF Piece
<1>2. room' \in 0 .. Room
    BY <1>1, Mapped DEF IInv, TypeOK, MaybeLoadInitrd
<1>3. /\ mem' \in [Piece -> [from : Target \cup {None}, whole : BOOLEAN]]
      /\ \A q \in Piece \ {"initrd"} : mem'[q] = mem[q]
      /\ initrd' \in BOOLEAN /\ leaked' \in BOOLEAN
      /\ initrd' => mem'["initrd"] = [from |-> device, whole |-> TRUE]
  <2>1. CASE UNCHANGED <<mem, initrd>> /\ leaked' \in {leaked, TRUE}
      BY <1>0, <2>1 DEF IInv, TypeOK
  <2>2. CASE Loaded("initrd", TRUE) /\ initrd' = TRUE /\ UNCHANGED leaked
      BY <1>0, <1>1, <2>2, Overwritten DEF IInv, TypeOK
  <2>3. CASE Loaded("initrd", FALSE) /\ leaked' = TRUE /\ UNCHANGED initrd
      BY <1>0, <1>1, <2>3, Overwritten DEF IInv, TypeOK
  <2> QED
      BY <2>1, <2>2, <2>3 DEF MaybeLoadInitrd
<1>4. TypeOK' /\ QueueInv'
    BY <1>2, <1>3, DiskTypes DEF IInv, TypeOK, QueueInv, MaybeLoadInitrd, queueVars, worldVars,
       netVars, attemptVars, LoaderPc
<1>5. DeviceInv' /\ MountInv'
    BY <1>0, Targets DEF IInv, DeviceInv, MountInv, MaybeLoadInitrd, Busy
<1>6. LoadInv'
    BY <1>0, <1>1, <1>3 DEF LoadInv, Have, Mine, MaybeLoadInitrd
<1> QED
    BY <1>4, <1>5, <1>6 DEF IInv

-----------------------------------------------------------------------------
(* Every step, and the theorems *)

LEMMA Inductive == IInv /\ [Next]_vars => IInv'
<1> SUFFICES ASSUME IInv, [Next]_vars PROVE IInv'
    OBVIOUS
<1>1. CASE Loader
    BY <1>1, EntryStep, WaitStep, TakeStep, TryDiskStep, TryNetworkStep, LoadKernelStep,
       LoadDtbStep, MaybeLoadInitrdStep, InitrdHangsStep, UnmountStep, PatchDtbStep,
       ExecuteLinuxStep DEF Loader
<1>2. CASE UNCHANGED vars
  <2>1. TypeOK' /\ QueueInv'
      BY <1>2, DiskTypes DEF IInv, TypeOK, QueueInv, vars, queueVars, worldVars,
         netVars, loaderVars, attemptVars
  <2> QED
      BY <1>2, <2>1, WorldStep DEF vars
<1> QED
    BY <1>1, <1>2, PlugStep, UnplugStep, LoaderStatusStep, NetifDownStep, ProbeStep,
       MsdProbedStep, FaultStep DEF Next

LEMMA Invariant == Spec => []IInv
BY Initial, Inductive, PTL DEF Spec

\* The loader's state keeps its types; the address space is never overdrawn.
THEOREM Typing == Spec => []TypeOK
<1>1. IInv => TypeOK
    BY DEF IInv
<1> QED
    BY <1>1, Invariant, PTL

\* The loader, once woken, finds a name in the queue, whoever adds names meanwhile.
THEOREM TargetFound == Spec => []WokenFindsTarget
<1>1. IInv => WokenFindsTarget
    BY DEF IInv, QueueInv, WokenFindsTarget
<1> QED
    BY <1>1, Invariant, PTL

\* Linux is started with the whole kernel, device tree and initrd of one target,
\* but for empty files and downloads cut short.
THEOREM OneCompleteSource == Spec => []ImageComplete
<1>1. IInv => ImageComplete
    BY DEF IInv, LoadInv, Have, Mine, ImageComplete
<1> QED
    BY <1>1, Invariant, PTL

\* A failed target leaves /root mounted only with a file left open or a device tree
\* that could not be patched.
THEOREM NothingLeftMounted == Spec => []MountGivenBack
<1>1. IInv => MountGivenBack
    BY DEF IInv, MountInv, Left, MountGivenBack
<1> QED
    BY <1>1, Invariant, PTL
-----------------------------------------------------------------------------
(* The loader implements AbstractBoot *)

\* A step of an attempt: it goes on, it is given up, or it ends the loader.
LEMMA AttemptStep ==
  ASSUME device \in Target, UNCHANGED <<pending_devices, device>>,
         pc \notin {"entry", "wait", "take", "linux", "panic", "halted"},
         pc' \notin {"entry", "take", "halted"}
  PROVE  Boot!Next \/ UNCHANGED <<pending_devices, Trying, Phase>>
<1>1. Trying = device /\ Trying # None /\ Phase = "serving"
    BY Targets DEF Trying, Phase
<1>2. CASE pc' = "wait"
  <2>1. Trying' = None /\ Phase' = "serving"
      BY <1>2 DEF Trying, Phase
  <2> QED
      BY <1>1, <2>1 DEF Boot!Next, Boot!GiveUp
<1>3. CASE pc' \in {"linux", "panic"}
  <2>1. Trying' = device /\ Phase' = "over"
      BY <1>3 DEF Trying, Phase
  <2> QED
      BY <1>1, <2>1 DEF Boot!Next, Boot!End
<1>4. CASE pc' \notin {"wait", "linux", "panic"}
    BY <1>1, <1>4 DEF Trying, Phase
<1> QED
    BY <1>2, <1>3, <1>4

\* A step of the world: at most a target is found.
LEMMA FindStep ==
  ASSUME UNCHANGED <<pc, device>>,
         \/ UNCHANGED pending_devices
         \/ Running /\ \E t \in Target : AddBootTarget(t)
  PROVE  Boot!Next \/ UNCHANGED <<pending_devices, Trying, Phase>>
<1>1. Trying' = Trying /\ Phase' = Phase
    BY DEF Trying, Phase
<1>2. Running => Phase \in {"starting", "serving"}
    BY DEF Running, Phase
<1> QED
    BY <1>1, <1>2 DEF AddBootTarget, Boot!Next, Boot!Find

LEMMA BootStep ==
  IInv /\ [Next]_vars => [Boot!Next]_<<pending_devices, Trying, Phase>>
<1> SUFFICES ASSUME IInv, [Next]_vars
             PROVE  Boot!Next \/ UNCHANGED <<pending_devices, Trying, Phase>>
    OBVIOUS
<1>0. TypeOK /\ QueueInv /\ DeviceInv
    BY DEF IInv
<1>1. CASE Entry
  <2>1. Sd \in Target /\ pending_devices' = Append(pending_devices, Sd)
      BY <1>1 DEF Entry, AddBootTarget, Target, Disk
  <2>2. Phase = "starting" /\ Phase' = "serving" /\ Trying = None /\ Trying' = None
      BY <1>1 DEF Entry, Phase, Trying
  <2> QED
      BY <2>1, <2>2 DEF Boot!Next, Boot!Find
<1>2. CASE Wait
    BY <1>2 DEF Wait, queueVars, Trying, Phase
<1>3. CASE Take
  <2>1. pending_devices # <<>> /\ pending_devices' = Tail(pending_devices)
      BY <1>0, <1>3 DEF Take, RemoveHead, QueueInv
  <2>2. pc = "take" /\ pc' = "try" /\ device' = Head(pending_devices)
      BY <1>3, <2>1 DEF Take
  <2>3. Trying = None /\ Trying' = Head(pending_devices) /\ Phase = "serving" /\ Phase' = "serving"
      BY <2>2 DEF Trying, Phase
  <2> QED
      BY <2>1, <2>3 DEF Boot!Next, Boot!Try
<1>4. ASSUME TryDisk \/ TryNetwork \/ InitrdHangs \/ Unmount \/ PatchDtb \/ ExecuteLinux
             \/ MaybeLoadInitrd \/ LoadKernel \/ LoadDtb
      PROVE  /\ pc \in (Busy \cup {"try"}) \ {"linux"} /\ pc' \notin {"entry", "take", "halted"}
             /\ UNCHANGED <<pending_devices, device>>
  <2>1. CASE TryDisk \/ TryNetwork \/ InitrdHangs \/ Unmount
      BY <2>1 DEF TryDisk, TryNetwork, InitrdHangs, Unmount, queueVars, Busy
  <2>2. CASE PatchDtb \/ ExecuteLinux \/ MaybeLoadInitrd
      BY <2>2 DEF PatchDtb, ExecuteLinux, MaybeLoadInitrd, queueVars, Busy
  <2>3. \A p, next : Load(p, next) => pc' \in {"wait", "unmount", "panic", "hung", next}
      BY DEF Load, NoWindow, ReadFile, FileHangs, TftpGet, NoClient, Served, Disturbed
  <2>4. CASE LoadKernel
      BY <2>3, <2>4 DEF LoadKernel, queueVars, Busy
  <2>5. CASE LoadDtb
      BY <2>3, <2>5 DEF LoadDtb, queueVars, Busy
  <2> QED
      BY <1>4, <2>1, <2>2, <2>4, <2>5
<1>5. CASE TryDisk \/ TryNetwork \/ InitrdHangs \/ Unmount \/ PatchDtb \/ ExecuteLinux
           \/ MaybeLoadInitrd \/ LoadKernel \/ LoadDtb
  <2>1. device \in Target
      BY <1>0, <1>4, <1>5 DEF DeviceInv
  <2>2. pc \notin {"entry", "wait", "take", "linux", "panic", "halted"}
        /\ pc' \notin {"entry", "take", "halted"}
      BY <1>4, <1>5 DEF Busy
  <2> QED
      BY <1>4, <1>5, <2>1, <2>2, AttemptStep
<1>6. CASE Unplug \/ NetifDown \/ (\E i \in 1 .. MaxPlugs : Probe(i))
           \/ (\E f \in {"none"} \cup Faults : Fault(f)) \/ UNCHANGED vars
  <2>1. UNCHANGED <<pc, device, pending_devices>>
      BY <1>6 DEF Unplug, NetifDown, Probe, Fault, vars, queueVars, loaderVars
  <2> QED
      BY <2>1, FindStep
<1>9. CASE Plug
  <2>1. UNCHANGED <<device, pending_devices>> /\ Running
      BY <1>9 DEF Plug, DiskIn, queueVars
  <2>2. CASE UNCHANGED pc
      BY <2>1, <2>2, FindStep
  <2>3. CASE pc' = "halted"
    <3>1. Phase \in {"starting", "serving"} /\ Phase' = "halted" /\ Trying' = None
        BY <2>1, <2>3 DEF Running, Phase, Trying
    <3> QED
        BY <2>1, <3>1 DEF Boot!Next, Boot!Halt
  <2> QED
      BY <1>9, <2>2, <2>3 DEF Plug
<1>7. CASE LoaderStatus
  <2>1. UNCHANGED <<pc, device>> /\ Running /\ AddBootTarget(Network) /\ Network \in Target
      BY <1>7 DEF LoaderStatus, loaderVars, Target
  <2> QED
      BY <2>1, FindStep
<1>8. ASSUME NEW i \in 1 .. MaxPlugs, MsdProbed(i)
      PROVE  Boot!Next \/ UNCHANGED <<pending_devices, Trying, Phase>>
  <2>2. NextPart(i) \in Target
      BY <1>0, <1>8, PartFound DEF TypeOK, MsdProbed
  <2>3. UNCHANGED <<pc, device>> /\ Running /\ AddBootTarget(NextPart(i))
      BY <1>8 DEF MsdProbed, loaderVars, attemptVars
  <2> QED
      BY <2>2, <2>3, FindStep
<1> QED
    BY <1>1, <1>2, <1>3, <1>5, <1>6, <1>7, <1>8, <1>9 DEF Next, Loader

\* The loader tries each target it was told of once, in order, one at a time, and
\* nothing but an attempt ends it: see TriesInOrder.
THEOREM LoaderRefinement == Spec => TriesInOrder
<1>1. Init => Boot!Init
    BY DEF Init, QueueInit, Boot!Init, Trying, Phase
<1> QED
    BY <1>1, BootStep, Invariant, PTL DEF Spec, TriesInOrder, Boot!Spec, Boot!vars

-----------------------------------------------------------------------------
(* A good target fails only when it is blocked *)

\* The partitions known are those of a disk that is plugged in.
DiskInv == known => usb = "in"

\* A disk is given up only for a bad file or for want of address space.
FailedInv ==
  pc = "unmount" =>
    \/ files[device].kernel # "ok" \/ files[device].dtb # "ok"
    \/ room < Window("kernel") + Window("dtb")

LEMMA DiskStep == UsbTypeOK /\ DiskInv /\ [Next]_vars => DiskInv'
<1> SUFFICES ASSUME UsbTypeOK, DiskInv, [Next]_vars PROVE DiskInv'
    OBVIOUS
<1>1. CASE UNCHANGED diskVars
    BY <1>1 DEF DiskInv, diskVars
<1>2. CASE Plug \/ Unplug
    BY <1>2 DEF Plug, DiskIn, Unplug, DiskOut, DiskInv
<1>5. ASSUME NEW i \in 1 .. MaxPlugs, Probe(i) \/ MsdProbed(i)
      PROVE  DiskInv'
  <2>1. CASE Probe(i)
    <3>1. usb' = usb /\ (UNCHANGED known \/ (~NoAnswer /\ known' = TRUE))
        BY <2>1 DEF Probe, ReadTable
    <3> QED
        BY <3>1 DEF DiskInv, NoAnswer, UsbTypeOK
  <2>2. CASE MsdProbed(i)
      BY <2>2 DEF MsdProbed, PartAdded, DiskInv
  <2> QED
      BY <1>5, <2>1, <2>2
<1>3. CASE Loader
  <2>1. UNCHANGED diskVars
      BY <1>3 DEF Loader, Entry, Wait, Take, TryDisk, TryNetwork, LoadKernel, LoadDtb,
         MaybeLoadInitrd, InitrdHangs, Unmount, PatchDtb, ExecuteLinux, worldVars, usbVars
  <2> QED
      BY <1>1, <2>1
<1>4. CASE LoaderStatus \/ NetifDown \/ (\E f \in {"none"} \cup Faults : Fault(f))
           \/ UNCHANGED vars
  <2>1. UNCHANGED diskVars
      BY <1>4 DEF LoaderStatus, NetifDown, Fault, vars, worldVars, usbVars
  <2> QED
      BY <1>1, <2>1
<1> QED
    BY <1>2, <1>3, <1>4, <1>5 DEF Next

\* How the loading of a piece can fail.
LEMMA LoadFails ==
  ASSUME TypeOK, DiskInv, device \in Target, NEW p \in {"kernel", "dtb"},
         NEW next \in {"dtb", "patch", "initrd"}, Load(p, next), pc' # next
  PROVE  \/ files[device][p] # "ok"
         \/ room < Window("kernel") + Window("dtb") /\ room' = room
         \/ device = Network /\ (~up \/ fault # "none" \/ clients = 0) /\ pc' # "unmount"
         \/ device \in UsbPart /\ (~known \/ held) /\ pc' # "unmount"
<1>1. CASE NoWindow(p)
    BY <1>1 DEF NoWindow, Window, TypeOK
<1>2. CASE ReadFile(p, next)
    BY <1>2 DEF ReadFile
<1>3. CASE FileHangs(p)
    BY <1>3 DEF FileHangs, Unreachable, NoAnswer, DiskInv
<1>4. CASE TftpGet(p, next)
    BY <1>4 DEF TftpGet, NoClient, Served, Disturbed
<1> QED
    BY <1>1, <1>2, <1>3, <1>4 DEF Load

LEMMA FailedStep == IInv /\ DiskInv /\ FailedInv /\ [Next]_vars => FailedInv'
<1> SUFFICES ASSUME IInv, DiskInv, FailedInv, [Next]_vars, pc' = "unmount"
             PROVE  \/ files'[device'].kernel # "ok" \/ files'[device'].dtb # "ok"
                    \/ room' < Window("kernel") + Window("dtb")
    BY DEF FailedInv
<1>1. CASE pc = "unmount" /\ UNCHANGED <<files, device, room>>
    BY <1>1 DEF FailedInv
<1>2. CASE LoadKernel
  <2>1. device \in Target /\ TypeOK /\ Load("kernel", "dtb") /\ UNCHANGED <<files, device>>
      BY <1>2 DEF IInv, DeviceInv, Busy, LoadKernel
  <2> QED
      BY <2>1, LoadFails
<1>3. CASE LoadDtb
  <2>1. device \in Target /\ TypeOK /\ UNCHANGED <<files, device>>
        /\ Load("dtb", IF device = Network THEN "patch" ELSE "initrd")
      BY <1>3 DEF IInv, DeviceInv, Busy, LoadDtb
  <2> QED
      BY <2>1, LoadFails
<1>4. CASE Entry \/ Wait \/ Take \/ TryDisk \/ TryNetwork \/ MaybeLoadInitrd \/ InitrdHangs
           \/ Unmount \/ PatchDtb \/ ExecuteLinux
    BY <1>4 DEF Entry, Wait, Take, TryDisk, TryNetwork, MaybeLoadInitrd, InitrdHangs, Unmount,
       PatchDtb, ExecuteLinux
<1>5. CASE \/ Plug \/ Unplug \/ LoaderStatus \/ NetifDown \/ UNCHANGED vars
           \/ \E i \in 1 .. MaxPlugs : Probe(i) \/ MsdProbed(i)
           \/ \E f \in {"none"} \cup Faults : Fault(f)
  <2>1. UNCHANGED <<pc, files, device, room>>
      BY <1>5 DEF Plug, Unplug, LoaderStatus, NetifDown, Probe, MsdProbed, Fault, vars,
         loaderVars, attemptVars
  <2> QED
      BY <1>1, <2>1
<1> QED
    BY <1>2, <1>3, <1>4, <1>5 DEF Next, Loader

\* A tree that is the device's own and good is patched.
LEMMA PatchFails ==
  ASSUME IInv, PatchDtb, pc' # "execute"
  PROVE  files[device].dtb # "ok" \/ cut
<1>1. PICK kind \in {"invalid", "nomem"} : TreeIs(kind)
    BY DEF PatchDtb
<1>2. device \in Target /\ Have("dtb")
    BY DEF IInv, DeviceInv, LoadInv, Busy, PatchDtb, attemptVars
<1>3. CASE Mine("dtb")
    BY <1>1, <1>2, <1>3, Targets DEF TreeIs, Mine
<1> QED
    BY <1>2, <1>3 DEF Have

LEMMA OnlyBlockedStep ==
  ASSUME IInv, DiskInv, FailedInv, [Next]_vars,
         Trying # None, pc' \in {"wait", "panic", "hung"}
  PROVE  ~Bootable(device) \/ Blocked(device) \/ (pc = "patch" /\ cut)
<1>0. /\ pc \notin {"entry", "wait", "take"} /\ TypeOK /\ DeviceInv /\ MountInv
      /\ (pc \in Busy \cup {"try"} => device \in Target)
    BY DEF IInv, DeviceInv, Trying
<1>1. CASE TryDisk
  <2>1. device \in Disk /\ Left
      BY <1>1 DEF IInv, MountInv, TryDisk
  <2>2. CASE root # None
      BY <2>1, <2>2 DEF Left, Blocked
  <2>3. CASE ~files[device].fs
      BY <2>1, <2>3 DEF Bootable
  <2>4. CASE device \in UsbPart /\ (~known \/ held)
      BY <2>4 DEF Blocked
  <2> QED
      BY <1>1, <2>1, <2>2, <2>3, <2>4 DEF TryDisk, Mountable, Unreachable, NoAnswer, DiskInv
<1>2. CASE TryNetwork
    BY <1>2 DEF TryNetwork, Blocked
<1>3. CASE LoadKernel
  <2>1. device \in Target /\ Load("kernel", "dtb") /\ pc' # "dtb"
      BY <1>0, <1>3 DEF LoadKernel, Busy
  <2> QED
      BY <1>0, <2>1, LoadFails DEF Bootable, Blocked
<1>4. CASE LoadDtb
  <2> DEFINE next == IF device = Network THEN "patch" ELSE "initrd"
  <2>1. device \in Target /\ Load("dtb", next) /\ pc' # next /\ next \in {"dtb", "patch", "initrd"}
      BY <1>0, <1>4 DEF LoadDtb, Busy
  <2> HIDE DEF next
  <2> QED
      BY <1>0, <2>1, LoadFails DEF Bootable, Blocked
<1>5. CASE InitrdHangs
    BY <1>5 DEF InitrdHangs, Unreachable, NoAnswer, Blocked, DiskInv
<1>6. CASE Unmount
    BY <1>6 DEF Unmount, FailedInv, Bootable, Blocked
<1>7. CASE PatchDtb
    BY <1>7, PatchFails DEF PatchDtb, Bootable
<1>8. CASE Entry \/ Wait \/ Take \/ MaybeLoadInitrd \/ ExecuteLinux
    BY <1>0, <1>8 DEF Entry, Wait, Take, MaybeLoadInitrd, ExecuteLinux, Blocked
<1>9. CASE \/ Plug \/ Unplug \/ LoaderStatus \/ NetifDown \/ UNCHANGED vars
           \/ \E i \in 1 .. MaxPlugs : Probe(i) \/ MsdProbed(i)
           \/ \E f \in {"none"} \cup Faults : Fault(f)
  <2>1. pc' = pc \/ pc' = "halted"
      BY <1>9 DEF Plug, Unplug, LoaderStatus, NetifDown, Probe, MsdProbed, Fault, vars,
         loaderVars
  <2> QED
      BY <1>0, <2>1 DEF Blocked
<1> QED
    BY <1>1, <1>2, <1>3, <1>4, <1>5, <1>6, <1>7, <1>8, <1>9 DEF Next, Loader

\* An attempt at a target with a good kernel and a good device tree starts Linux,
\* but for what Blocked names and downloads cut short: see OnlyBlockedTargetsFail.
THEOREM GoodTargetsBoot == Spec => OnlyBlockedTargetsFail
<1>1. Init => DiskInv /\ FailedInv
    BY DEF Init, UsbInit, DiskInv, FailedInv
<1>2. IInv /\ DiskInv /\ FailedInv /\ [Next]_vars =>
        [Trying # None /\ pc' \in {"wait", "panic", "hung"} =>
           ~Bootable(device) \/ Blocked(device) \/ (pc = "patch" /\ cut)]_vars
    BY OnlyBlockedStep
<1>3. IInv => UsbTypeOK
    BY DEF IInv, TypeOK
<1> QED
    BY <1>1, <1>2, <1>3, DiskStep, FailedStep, Invariant, PTL DEF Spec, OnlyBlockedTargetsFail
=============================================================================
