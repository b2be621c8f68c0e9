----------------------------- MODULE Dwc2Toggle -----------------------------
(***************************************************************************)
(* The data toggle, the packet count and the byte count of the bulk and    *)
(* interrupt pipes of platform/bcm28xx/dwc2/dwc2.c.                        *)
(*                                                                         *)
(* Host and device each keep one bit per pipe, DATA0 or DATA1, that flips  *)
(* with every packet moved.  While a transfer runs the bit is in the       *)
(* controller's HCTSIZn; between transfers the driver keeps it in next_pid *)
(* of the endpoint structure, and works it out from the number of packets  *)
(* the controller says are left.  A receiver whose bit differs takes the   *)
(* packet for a repetition: a device drops it silently, the controller     *)
(* reports a data toggle error.                                            *)
(*                                                                         *)
(* Dwc2Channels has the channels, here every transfer has its own.  A pipe *)
(* stays open: hcd_edpt_open set next_pid to DATA0, as the device did when *)
(* it was configured.  Control pipes, whose toggle each SETUP packet sets  *)
(* anew, are left out.                                                     *)
(*                                                                         *)
(* External: the controller, the devices, and the stack, which has one     *)
(* transfer outstanding per pipe.                                          *)
(***************************************************************************)
EXTENDS Integers

CONSTANTS
  InPipe, OutPipe,  \* pipes by direction
  Interrupt,        \* those of interrupt type, the others are bulk
  Endpoint, Struct, \* the endpoint structure get_open_ep finds for a pipe
  Mps,              \* max_packet_size
  PacketLimit,      \* 2^10: the packet count field of HCTSIZn has 10 bits
  Size,             \* the buffer sizes the stack asks for on each pipe
  Fault,            \* the pipes where packets may fail with a transaction error
  MaxTransfers,     \* BOUND: transfers started in a behaviour
  None

Pipe == InPipe \cup OutPipe

ASSUME PipeAssumption ==
  InPipe \cap OutPipe = {} /\ Interrupt \subseteq InPipe

ASSUME StructAssumption == Struct \in [Pipe -> Endpoint]

ASSUME SizeAssumption ==
  /\ Mps \in Nat \ {0, 1} /\ PacketLimit \in Nat \ {0, 1}
  /\ Size \in [Pipe -> SUBSET Nat]
  /\ Fault \subseteq Pipe /\ MaxTransfers \in Nat

\* What the interrupt reads in HCINTn.
Flag == {"xfercompl", "nak", "datatglerr", "xacterr"}

ASSUME NoneAssumption == None \notin Nat \cup Flag

VARIABLES
  nextPid,   \* open_endpoint_t.next_pid
  buflen,    \* open_endpoint_t.buflen
  packets,   \* open_endpoint_t.packets
  xfer,      \* where the transfer of a pipe is
  hctsiz,    \* HCTSIZn of the channel of a running transfer
  event,     \* what the controller reports of it, None while it goes on
  devPid,    \* the device's toggle
  accepted,  \* history: bytes the receiver took in this transfer
  reported,  \* history: bytes of the last transfer reported as a success
  started,   \* how many transfers were started
  panic      \* the assertion that failed, or "none"

driverVars == <<nextPid, buflen, packets>>
vars == <<driverVars, xfer, hctsiz, event, devPid, accepted, reported,
          started, panic>>

\* The encodings of HCTSIZn: 0 is DATA0 and 2 is DATA1.
Pid == {0, 2}
\* BUG: the encodings are taken for 0 and 1.
BugFlip(pid) == 1 - pid
Flip(pid) == 2 - pid

TypeOK ==
  /\ nextPid \in [Endpoint -> Pid]
  /\ buflen \in [Endpoint -> Nat] /\ packets \in [Endpoint -> Nat]
  /\ xfer \in [Pipe -> {"none", "running", "retry"}]
  /\ hctsiz \in [Pipe -> [bytes : Nat, packets : 0 .. PacketLimit - 1, pid : Pid]]
  /\ event \in [Pipe -> Flag \cup {None}]
  /\ devPid \in [Pipe -> Pid]
  /\ accepted \in [Pipe -> Nat]
  /\ reported \in [Pipe -> Nat \cup {None}]
  /\ started \in 0 .. MaxTransfers
  /\ panic \in {"none", "last_packet", "data_toggle"}

\* hcd_edpt_open, for every pipe
Init ==
  /\ nextPid = [e \in Endpoint |-> 0]
  /\ buflen = [e \in Endpoint |-> 0] /\ packets = [e \in Endpoint |-> 0]
  /\ xfer = [p \in Pipe |-> "none"]
  /\ hctsiz = [p \in Pipe |-> [bytes |-> 0, packets |-> 0, pid |-> 0]]
  /\ event = [p \in Pipe |-> None]
  /\ devPid = [p \in Pipe |-> 0]
  /\ accepted = [p \in Pipe |-> 0]
  /\ reported = [p \in Pipe |-> None]
  /\ started = 0 /\ panic = "none"

-----------------------------------------------------------------------------
(* Starting a transfer *)

\* Division of the C language, which rounds towards zero.
CDiv(a, b) == IF a < 0 THEN -((-a) \div b) ELSE a \div b

\* dwc_host_in: packets the buffer has room for, at least one.
InPackets(size) == CDiv(size - 1, Mps) + 1

\* dwc_host_out
OutPackets(size) == size \div Mps + 1
LastPacket(size) == size - (OutPackets(size) - 1) * Mps

\* What dwc_host_in and dwc_host_out have in common.
Program(p, size, count) ==
  /\ buflen' = [buflen EXCEPT ![Struct[p]] = size]
  /\ packets' = [packets EXCEPT ![Struct[p]] = count]
  /\ hctsiz' = [hctsiz EXCEPT ![p] =
       [bytes |-> size, packets |-> count % PacketLimit, pid |-> nextPid[Struct[p]]]]
  /\ xfer' = [xfer EXCEPT ![p] = "running"]
  /\ UNCHANGED <<nextPid, event, devPid>>

\* The stack has claimed the pipe.
Start(p) ==
  /\ panic = "none" /\ xfer[p] = "none" /\ started < MaxTransfers
  /\ started' = started + 1
  /\ accepted' = [accepted EXCEPT ![p] = 0]
  /\ reported' = [reported EXCEPT ![p] = None]

\* hcd_edpt_xfer on an IN pipe
HostIn(p, size) ==
  /\ Start(p)
  /\ Program(p, size, InPackets(size))
  /\ UNCHANGED panic

\* hcd_edpt_xfer on an OUT pipe: a last packet of 0 bytes fails an assertion
\* unless the whole transfer is empty.
HostOut(p, size) ==
  /\ Start(p)
  /\ Program(p, size, OutPackets(size))
  /\ panic' = (IF size # 0 /\ LastPacket(size) <= 0 THEN "last_packet" ELSE panic)

\* dwc_in_retry: the transfer as it was first asked for.
RetryFires(p) ==
  /\ panic = "none" /\ xfer[p] = "retry"
  /\ Program(p, buflen[Struct[p]], InPackets(buflen[Struct[p]]))
  /\ UNCHANGED <<accepted, reported, started, panic>>

-----------------------------------------------------------------------------
(* The controller and the device *)

Runs(p) == panic = "none" /\ xfer[p] = "running" /\ event[p] = None

\* A packet is moved: HCTSIZn counts down and flips its bit.
Moved(p, left, last) ==
  /\ hctsiz' = [hctsiz EXCEPT ![p] =
       [bytes |-> left, packets |-> @.packets - 1, pid |-> Flip(@.pid)]]
  /\ event' = (IF last THEN [event EXCEPT ![p] = "xfercompl"] ELSE event)

\* The device answers an IN token; a short packet ends the transfer.
HwIn(p) ==
  /\ Runs(p) /\ p \in InPipe /\ devPid[p] = hctsiz[p].pid
  /\ \E n \in 0 .. Mps :
       /\ n <= hctsiz[p].bytes
       /\ Moved(p, hctsiz[p].bytes - n, n < Mps \/ hctsiz[p].packets = 1)
       /\ accepted' = [accepted EXCEPT ![p] = @ + n]
  /\ devPid' = [devPid EXCEPT ![p] = Flip(@)]
  /\ UNCHANGED <<driverVars, xfer, reported, started, panic>>

HwInToggleError(p) ==
  /\ Runs(p) /\ p \in InPipe /\ devPid[p] # hctsiz[p].pid
  /\ event' = [event EXCEPT ![p] = "datatglerr"]
  /\ UNCHANGED <<driverVars, xfer, hctsiz, devPid, accepted, reported, started, panic>>

\* The device acknowledges an OUT packet, and takes it if the toggle is right.
\* Once the transfer is complete, the byte count is 0 or what it was ("TODO, is
\* bytes not always correct?").
HwOut(p) ==
  /\ Runs(p) /\ p \in OutPipe
  /\ LET n == IF hctsiz[p].bytes < Mps THEN hctsiz[p].bytes ELSE Mps
         fits == devPid[p] = hctsiz[p].pid
         last == hctsiz[p].packets = 1
     IN /\ \E left \in {hctsiz[p].bytes - n, buflen[Struct[p]]} :
             /\ left = hctsiz[p].bytes - n \/ last
             /\ Moved(p, left, last)
        /\ accepted' = (IF fits THEN [accepted EXCEPT ![p] = @ + n] ELSE accepted)
        /\ devPid' = (IF fits THEN [devPid EXCEPT ![p] = Flip(@)] ELSE devPid)
  /\ UNCHANGED <<driverVars, xfer, reported, started, panic>>

\* An interrupt endpoint has nothing to say: the controller halts the channel.
HwNak(p) ==
  /\ Runs(p) /\ p \in Interrupt
  /\ event' = [event EXCEPT ![p] = "nak"]
  /\ UNCHANGED <<driverVars, xfer, hctsiz, devPid, accepted, reported, started, panic>>

\* A packet is not answered although it was repeated.
HwXactErr(p) ==
  /\ p \in Fault /\ Runs(p)
  /\ event' = [event EXCEPT ![p] = "xacterr"]
  /\ UNCHANGED <<driverVars, xfer, hctsiz, devPid, accepted, reported, started, panic>>

-----------------------------------------------------------------------------
(* dwc_check_interrupt *)

Event(p, flag) == panic = "none" /\ event[p] = flag
                  /\ event' = [event EXCEPT ![p] = None]

IrqNakHalt(p) ==
  /\ Event(p, "nak")
  /\ xfer' = [xfer EXCEPT ![p] = "retry"]
  /\ UNCHANGED <<driverVars, hctsiz, devPid, accepted, reported, started, panic>>

PacketsMoved(p) == packets[Struct[p]] - hctsiz[p].packets

\* BUG: an OUT transfer whose byte count did not move is reported as empty.
BugTotalSize(p) == buflen[Struct[p]] - hctsiz[p].bytes

TotalSize(p) ==
  LET total == buflen[Struct[p]] - hctsiz[p].bytes
  IN IF p \in OutPipe /\ total = 0 THEN buflen[Struct[p]]
     ELSE IF total < 0 THEN 0 ELSE total

\* BUG: the bit is flipped once for the transfer, not for each packet.
BugToggled(p) == Flip(nextPid[Struct[p]])

\* next_pid after the packets moved: flipped if their number is odd.
Toggled(p) ==
  IF PacketsMoved(p) % 2 = 1 THEN Flip(nextPid[Struct[p]]) ELSE nextPid[Struct[p]]

IrqComplete(p) ==
  /\ Event(p, "xfercompl")
  /\ nextPid' = [nextPid EXCEPT ![Struct[p]] = Toggled(p)]
  /\ xfer' = [xfer EXCEPT ![p] = "none"]
  /\ reported' = [reported EXCEPT ![p] = TotalSize(p)]
  /\ UNCHANGED <<buflen, packets, hctsiz, devPid, accepted, started, panic>>

IrqToggleError(p) ==
  /\ Event(p, "datatglerr")
  /\ panic' = "data_toggle"
  /\ UNCHANGED <<driverVars, xfer, hctsiz, devPid, accepted, reported, started>>

\* The transfer is reported as failed; next_pid is left alone.
IrqXactErr(p) ==
  /\ Event(p, "xacterr")
  /\ xfer' = [xfer EXCEPT ![p] = "none"]
  /\ UNCHANGED <<driverVars, hctsiz, devPid, accepted, reported, started, panic>>

Irq(p) == IrqNakHalt(p) \/ IrqComplete(p) \/ IrqToggleError(p) \/ IrqXactErr(p)
Hw(p)  == HwIn(p) \/ HwInToggleError(p) \/ HwOut(p) \/ HwNak(p) \/ HwXactErr(p)

Next ==
  \/ \E p \in InPipe : \E size \in Size[p] : HostIn(p, size)
  \/ \E p \in OutPipe : \E size \in Size[p] : HostOut(p, size)
  \/ \E p \in Pipe : RetryFires(p) \/ Irq(p) \/ Hw(p)

Spec == Init /\ [][Next]_vars

-----------------------------------------------------------------------------
(* Properties *)

\* The driver and the device agree on the toggle of a pipe whenever no transfer
\* runs on it, and the controller and the device while one does, although the
\* driver only counts packets when a transfer completes.  A packet that fails
\* breaks this (IrqXactErr), on its own pipe and on no other.
TogglesAgree ==
  panic = "none" =>
    \A p \in Pipe \ Fault :
      devPid[p] = (IF xfer[p] = "running" THEN
                     IF event[p] = "xfercompl" THEN Toggled(p) ELSE hctsiz[p].pid
                   ELSE nextPid[Struct[p]])

\* A success reported to the stack has the number of bytes the receiver took: a
\* short answer is not padded, and nothing is dropped as a repetition.  What a
\* device takes of an OUT transfer after a failed packet is not certain.
ReportIsExact ==
  \A p \in InPipe \cup (OutPipe \ Fault) :
    reported[p] # None => reported[p] = accepted[p]

\* "assert(0)" after "data toggle error"
NoToggleError == panic # "data_toggle"

\* "if (size != 0) assert(last_packet > 0)": this check of dwc_host_out fails on the
\* transfers that fill their last packet, such as a block written to a USB disk, and
\* on no other.
FullLastPacketFails ==
  [][panic = "none" =>
       (panic' = "last_packet"
          <=> \E p \in OutPipe : \E size \in Size[p] :
                HostOut(p, size) /\ size # 0 /\ size % Mps = 0)]_vars
=============================================================================
