------------------------------ MODULE UsbDisk -------------------------------
(***************************************************************************)
(* lib/tinyusb/basic-host.c, the mass storage part: a USB disk that comes  *)
(* and goes, the prober thread that each plugging creates, and msd_mutex,  *)
(* which a read keeps until it is answered.  The boot loaders, whose hooks *)
(* the probers run, are composed with it.                                  *)
(*                                                                         *)
(* External: TinyUSB, whose callbacks report the disk and answer its       *)
(* reads, and the block layer, which knows the partitions of the disk; a   *)
(* disk that is plugged in again has the address that it had.              *)
(***************************************************************************)
EXTENDS Sequences, Naturals

CONSTANTS
  UsbPart,    \* the partitions of the USB disk
  UsbParts,   \* the same in the order in which a hook adds them
  Luns,       \* how many logical units the disk may have
  MaxPlugs    \* BOUND: how often the disk is plugged in

ASSUME UsbAssumption ==
  UsbParts \in Seq(UsbPart) /\ Luns \subseteq Nat \ {0} /\ MaxPlugs \in Nat

VARIABLES
  usb,      \* the disk: "in" or "out"
  plugs,    \* pluggings so far
  table,    \* the prober of each plugging: has it read the partition table?
  probed,   \* partitions that its hook has added
  known,    \* does the block layer know the partitions?
  held      \* is msd_mutex held by a read that is never answered?

diskVars == <<usb, plugs, table, probed, known>>
usbVars  == <<diskVars, held>>

UsbTypeOK ==
  /\ usb \in {"in", "out"} /\ plugs \in 0 .. MaxPlugs
  /\ table \in [1 .. MaxPlugs -> {"unread", "read", "hung"}]
  /\ probed \in [1 .. MaxPlugs -> 0 .. Len(UsbParts)]
  /\ known \in BOOLEAN /\ held \in BOOLEAN

UsbInit ==
  /\ usb = "out" /\ plugs = 0 /\ known = FALSE /\ held = FALSE
  /\ table = [i \in 1 .. MaxPlugs |-> "unread"] /\ probed = [i \in 1 .. MaxPlugs |-> 0]

\* tuh_msc_mount_cb registers the disk and creates a prober thread; the assertion of
\* a disk with a second logical unit fails.
DiskIn(asserts) ==
  /\ usb = "out" /\ plugs < MaxPlugs
  /\ usb' = "in" /\ plugs' = plugs + 1
  /\ \E n \in Luns : asserts = (n > 1)
  /\ UNCHANGED <<table, probed, known, held>>

\* tuh_msc_umount_cb
DiskOut ==
  /\ usb = "in"
  /\ usb' = "out" /\ known' = FALSE
  /\ UNCHANGED <<plugs, table, probed, held>>

\* A read waits for ever: the disk was pulled, or another read keeps msd_mutex.
NoAnswer == usb = "out" \/ held

\* partition_publish of the prober.  It waits for msd_mutex; when the disk is gone
\* it fails, which the prober does not notice, or, when the disk was pulled in the
\* middle of a read, waits for an answer and keeps the mutex.
ReadTable(i) ==
  /\ i <= plugs /\ table[i] = "unread"
  /\ \/ /\ ~NoAnswer
        /\ table' = [table EXCEPT ![i] = "read"] /\ known' = TRUE /\ UNCHANGED held
     \/ /\ usb = "out"
        /\ table' = [table EXCEPT ![i] = "read"] /\ UNCHANGED <<known, held>>
     \/ /\ usb = "out"
        /\ table' = [table EXCEPT ![i] = "hung"] /\ held' = TRUE /\ UNCHANGED known
  /\ UNCHANGED <<usb, plugs, probed>>

\* The hook of the prober, which adds the partitions one by one.
NextPart(i) == UsbParts[probed[i] + 1]

PartAdded(i) ==
  /\ i <= plugs /\ table[i] = "read" /\ probed[i] < Len(UsbParts)
  /\ probed' = [probed EXCEPT ![i] = @ + 1]
  /\ UNCHANGED <<usb, plugs, table, known, held>>
=============================================================================
