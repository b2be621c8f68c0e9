-------------------------- MODULE Dwc2ToggleProofs --------------------------
(***************************************************************************)
(* Proofs about Dwc2Toggle, for any packet size, any number of pipes and   *)
(* any buffer sizes, under hypotheses on the world (Regular): the pipes    *)
(* have structures of their own, the packets of a transfer fit the 10 bits *)
(* of HCTSIZn, and an interrupt transfer is one packet (dwc_in_retry       *)
(* starts a longer one again from its beginning, with the toggle it had    *)
(* there, and reports only what came since).  Packets may fail on the      *)
(* pipes of Fault: what is proved of toggles on the other pipes, and of    *)
(* sizes on all but the OUT pipes among them, holds beside that.           *)
(***************************************************************************)
EXTENDS Dwc2Toggle, TLAPS

Regular ==
  /\ \A p, q \in Pipe : Struct[p] = Struct[q] => p = q
  /\ \A p \in InPipe : \A size \in Size[p] : InPackets(size) < PacketLimit
  /\ \A p \in OutPipe : \A size \in Size[p] : OutPackets(size) < PacketLimit
  /\ \A p \in Interrupt : \A size \in Size[p] : size <= Mps

-----------------------------------------------------------------------------
(* The inductive invariant *)

\* On a pipe where no packet fails: while a transfer runs the bit of HCTSIZn is
\* the device's, and the one the driver would work out if it ended here.
AgreeInv(p) ==
  /\ event[p] \notin {"datatglerr", "xacterr"}
  /\ xfer[p] = "running" => devPid[p] = hctsiz[p].pid /\ hctsiz[p].pid = Toggled(p)
  /\ xfer[p] # "running" => devPid[p] = nextPid[Struct[p]]

\* An interrupt transfer is a single packet, so that it can be started again
\* from its beginning.
InterruptInv(p) ==
  /\ buflen[Struct[p]] <= Mps
  /\ xfer[p] = "running" =>
       /\ packets[Struct[p]] = 1
       /\ event[p] # "xfercompl" => hctsiz[p].packets = 1

PipeInv(p) ==
  /\ event[p] = "nak" => p \in Interrupt
  /\ event[p] = "xacterr" => p \in Fault
  /\ xfer[p] = "retry" => p \in Interrupt
  /\ xfer[p] = "running" /\ event[p] # "xfercompl" => hctsiz[p].packets > 0
  /\ xfer[p] # "running" => event[p] = None
  /\ p \in Interrupt /\ xfer[p] # "none" => InterruptInv(p)
  /\ p \notin Fault => AgreeInv(p)

IInv ==
  /\ TypeOK
  /\ panic = "none" => \A p \in Pipe : PipeInv(p)

-----------------------------------------------------------------------------
(* Arithmetic *)

LEMMA SmallQuotient ==
  ASSUME NEW d \in Nat \ {0}, NEW a \in 0 .. d - 1 PROVE a \div d = 0
BY SMT

LEMMA QuotientNat ==
  ASSUME NEW d \in Nat \ {0}, NEW a \in Nat PROVE a \div d \in Nat
BY SMT

\* A buffer has room for a packet at least, and a small one for no more.
LEMMA InPacketsBounds ==
  ASSUME NEW size \in Nat
  PROVE  /\ InPackets(size) \in Nat /\ InPackets(size) >= 1
         /\ size <= Mps => InPackets(size) = 1
<1> USE SizeAssumption
<1>1. CASE size = 0
  <2>1. 1 \div Mps = 0
    BY SmallQuotient
  <2>2. CDiv(size - 1, Mps) = 0
    BY <1>1, <2>1 DEF CDiv
  <2> QED BY <2>2 DEF InPackets
<1>2. CASE size # 0
  <2>1. CDiv(size - 1, Mps) = (size - 1) \div Mps
    BY <1>2 DEF CDiv
  <2>2. (size - 1) \div Mps \in Nat
    BY <1>2, QuotientNat
  <2>3. ASSUME size <= Mps PROVE (size - 1) \div Mps = 0
    BY <1>2, <2>3, SmallQuotient
  <2> QED BY <2>1, <2>2, <2>3 DEF InPackets
<1> QED BY <1>1, <1>2

LEMMA OutPacketsBounds ==
  ASSUME NEW size \in Nat PROVE OutPackets(size) \in Nat /\ OutPackets(size) >= 1
BY SizeAssumption, QuotientNat DEF OutPackets

LEMMA SmallRemainder ==
  ASSUME NEW d \in Nat \ {0}, NEW a \in 0 .. d - 1 PROVE a % d = a
BY SMT

\* One packet fewer left is one packet more moved: the parity changes.
LEMMA Parity ==
  ASSUME NEW a \in Int, NEW b \in Int
  PROVE  (a - (b - 1)) % 2 = 1 <=> (a - b) % 2 # 1
BY SMT
-----------------------------------------------------------------------------
(* The steps *)

\* A pipe is disturbed only by a change to what belongs to it.
LEMMA Frame ==
  ASSUME NEW q \in Pipe, PipeInv(q),
         event'[q] = event[q], xfer'[q] = xfer[q], hctsiz'[q] = hctsiz[q],
         devPid'[q] = devPid[q], nextPid'[Struct[q]] = nextPid[Struct[q]],
         buflen'[Struct[q]] = buflen[Struct[q]],
         packets'[Struct[q]] = packets[Struct[q]]
  PROVE  PipeInv(q)'
BY DEF PipeInv, AgreeInv, InterruptInv, Toggled, PacketsMoved

\* The fields of the records and functions that the type invariant gives.
LEMMA Fields ==
  ASSUME TypeOK, NEW p \in Pipe
  PROVE  /\ Struct[p] \in Endpoint
         /\ hctsiz[p].bytes \in Nat /\ hctsiz[p].packets \in 0 .. PacketLimit - 1
         /\ hctsiz[p].pid \in Pid
         /\ hctsiz[p] = [bytes |-> hctsiz[p].bytes, packets |-> hctsiz[p].packets,
                         pid |-> hctsiz[p].pid]
         /\ nextPid[Struct[p]] \in Pid /\ devPid[p] \in Pid
         /\ buflen[Struct[p]] \in Nat /\ packets[Struct[p]] \in Nat
         /\ accepted[p] \in Nat
BY StructAssumption DEF TypeOK

LEMMA FlipPid == ASSUME NEW pid \in Pid PROVE Flip(pid) \in Pid /\ Flip(pid) # pid
                                              /\ Flip(Flip(pid)) = pid
BY DEF Pid, Flip

LEMMA InitIInv == Init => IInv
<1> SUFFICES ASSUME Init PROVE IInv
  OBVIOUS
<1> USE DEF Init
<1>1. TypeOK
  BY SizeAssumption DEF TypeOK, Pid
<1>2. ASSUME NEW p \in Pipe PROVE PipeInv(p)
  BY StructAssumption, NoneAssumption DEF PipeInv, AgreeInv, Flag
<1> QED BY <1>1, <1>2 DEF IInv

\* Programming a channel for a transfer that fits HCTSIZn.
LEMMA ProgramPreserves ==
  ASSUME Regular, IInv, panic = "none",
         NEW p \in Pipe, xfer[p] # "running", NEW size \in Nat, NEW count \in Nat,
         count >= 1, count < PacketLimit,
         p \in Interrupt => size <= Mps /\ count = 1,
         Program(p, size, count)
  PROVE  /\ nextPid' \in [Endpoint -> Pid]
         /\ buflen' \in [Endpoint -> Nat] /\ packets' \in [Endpoint -> Nat]
         /\ xfer' \in [Pipe -> {"none", "running", "retry"}]
         /\ hctsiz' \in [Pipe -> [bytes : Nat, packets : 0 .. PacketLimit - 1, pid : Pid]]
         /\ event' \in [Pipe -> Flag \cup {None}]
         /\ devPid' \in [Pipe -> Pid]
         /\ \A q \in Pipe : PipeInv(q)'
<1> TypeOK /\ PipeInv(p)
  BY DEF IInv
<1> USE DEF Program
<1>1. count % PacketLimit = count
  <2>1. PacketLimit \in Nat \ {0} /\ count \in 0 .. PacketLimit - 1
    BY SizeAssumption
  <2> QED BY <2>1, SmallRemainder
<1>2. Struct[p] \in Endpoint /\ nextPid[Struct[p]] \in Pid /\ devPid[p] \in Pid
  BY Fields
<1>3. hctsiz' = [hctsiz EXCEPT ![p] =
                  [bytes |-> size, packets |-> count, pid |-> nextPid[Struct[p]]]]
  BY <1>1
<1>4. hctsiz' \in [Pipe -> [bytes : Nat, packets : 0 .. PacketLimit - 1, pid : Pid]]
  BY <1>2, <1>3, SizeAssumption DEF TypeOK
<1>5. /\ nextPid' \in [Endpoint -> Pid]
      /\ buflen' \in [Endpoint -> Nat] /\ packets' \in [Endpoint -> Nat]
      /\ xfer' \in [Pipe -> {"none", "running", "retry"}]
      /\ event' \in [Pipe -> Flag \cup {None}]
      /\ devPid' \in [Pipe -> Pid]
  BY DEF TypeOK
<1>6. PipeInv(p)'
  <2>1. /\ xfer'[p] = "running" /\ event'[p] = None
        /\ p \notin Fault => devPid'[p] = nextPid[Struct[p]]
        /\ hctsiz'[p] = [bytes |-> size, packets |-> count, pid |-> nextPid[Struct[p]]]
        /\ buflen'[Struct[p]] = size /\ packets'[Struct[p]] = count
        /\ nextPid'[Struct[p]] = nextPid[Struct[p]]
    BY <1>2, <1>3 DEF TypeOK, PipeInv, AgreeInv
  <2>2. PacketsMoved(p)' = 0
    BY <2>1 DEF PacketsMoved
  <2>3. p \notin Fault => AgreeInv(p)'
    BY <2>1, <2>2, NoneAssumption DEF AgreeInv, Toggled, Flag
  <2>4. p \in Interrupt => InterruptInv(p)'
    BY <2>1 DEF InterruptInv
  <2> QED BY <2>1, <2>3, <2>4, NoneAssumption DEF PipeInv
<1>7. ASSUME NEW q \in Pipe, q # p PROVE PipeInv(q)'
  <2>1. Struct[q] # Struct[p] /\ Struct[q] \in Endpoint /\ PipeInv(q)
    BY <1>7, Fields DEF Regular, IInv
  <2> QED BY <1>2, <1>7, <2>1, Frame DEF TypeOK
<1> QED BY <1>4, <1>5, <1>6, <1>7

LEMMA InStep ==
  ASSUME Regular, IInv, NEW p \in InPipe, NEW size \in Size[p], HostIn(p, size)
  PROVE  IInv'
<1>1. p \in Pipe /\ size \in Nat /\ panic = "none" /\ xfer[p] = "none"
  BY SizeAssumption DEF Pipe, HostIn, Start
<1>2. InPackets(size) \in Nat /\ InPackets(size) >= 1 /\ InPackets(size) < PacketLimit
  BY <1>1, InPacketsBounds DEF Regular
<1>3. p \in Interrupt => size <= Mps /\ InPackets(size) = 1
  BY <1>1, InPacketsBounds DEF Regular
<1>4. Program(p, size, InPackets(size))
  BY DEF HostIn
<1>5. started' \in 0 .. MaxTransfers /\ accepted' \in [Pipe -> Nat]
      /\ reported' \in [Pipe -> Nat \cup {None}] /\ panic' = panic
  BY <1>1, SizeAssumption DEF HostIn, Start, IInv, TypeOK
<1> QED BY <1>1, <1>2, <1>3, <1>4, <1>5, ProgramPreserves DEF IInv, TypeOK

LEMMA OutStep ==
  ASSUME Regular, IInv, NEW p \in OutPipe, NEW size \in Size[p], HostOut(p, size)
  PROVE  IInv'
<1>1. p \in Pipe /\ p \notin Interrupt /\ size \in Nat /\ panic = "none" /\ xfer[p] = "none"
  BY SizeAssumption, PipeAssumption DEF Pipe, HostOut, Start
<1>2. OutPackets(size) \in Nat /\ OutPackets(size) >= 1 /\ OutPackets(size) < PacketLimit
  BY <1>1, OutPacketsBounds DEF Regular
<1>3. Program(p, size, OutPackets(size))
  BY DEF HostOut
<1>4. started' \in 0 .. MaxTransfers /\ accepted' \in [Pipe -> Nat]
      /\ reported' \in [Pipe -> Nat \cup {None}] /\ panic' \in {"none", "last_packet"}
  BY <1>1, SizeAssumption DEF HostOut, Start, IInv, TypeOK
<1> QED BY <1>1, <1>2, <1>3, <1>4, ProgramPreserves DEF IInv, TypeOK

LEMMA RetryStep ==
  ASSUME Regular, IInv, NEW p \in Pipe, RetryFires(p)
  PROVE  IInv'
<1> DEFINE size == buflen[Struct[p]]
<1>1. panic = "none" /\ xfer[p] = "retry" /\ size \in Nat /\ PipeInv(p)
  BY Fields DEF RetryFires, IInv
<1>2. p \in Interrupt /\ size <= Mps
  BY <1>1 DEF PipeInv, InterruptInv
<1>3. InPackets(size) = 1
  BY <1>1, <1>2, InPacketsBounds
<1>4. 1 < PacketLimit
  BY SizeAssumption
<1>5. Program(p, size, InPackets(size))
  BY DEF RetryFires
<1>6. accepted' = accepted /\ reported' = reported /\ started' = started /\ panic' = panic
  BY DEF RetryFires
<1> QED BY <1>1, <1>2, <1>3, <1>4, <1>5, <1>6, ProgramPreserves DEF IInv, TypeOK

\* What a step leaves alone need not be typed again.
LEMMA IrqStep ==
  ASSUME Regular, IInv, NEW p \in Pipe, Irq(p)
  PROVE  IInv'
<1> TypeOK /\ panic = "none" /\ PipeInv(p)
  BY DEF Irq, IrqNakHalt, IrqComplete, IrqToggleError, IrqXactErr, Event, IInv
<1> USE NoneAssumption DEF Flag
<1>1. CASE IrqNakHalt(p)
  <2> USE <1>1 DEF IrqNakHalt, Event
  <2>1. TypeOK'
    BY DEF TypeOK, driverVars
  <2>2. xfer[p] = "running" /\ p \in Interrupt /\ InterruptInv(p)
        /\ (p \notin Fault => AgreeInv(p))
    BY DEF PipeInv
  <2>3. PacketsMoved(p) = 0
    BY <2>2 DEF InterruptInv, PacketsMoved
  <2>4. p \notin Fault => devPid[p] = nextPid[Struct[p]]
    BY <2>2, <2>3 DEF AgreeInv, Toggled
  <2>5. event'[p] = None /\ xfer'[p] = "retry"
    BY DEF TypeOK
  <2>6. PipeInv(p)'
    BY <2>2, <2>4, <2>5 DEF PipeInv, AgreeInv, InterruptInv, driverVars
  <2>7. ASSUME NEW q \in Pipe, q # p PROVE PipeInv(q)'
    BY <2>7, Frame DEF IInv, TypeOK, driverVars
  <2> QED BY <2>1, <2>6, <2>7 DEF IInv
<1>2. CASE IrqComplete(p)
  <2> USE <1>2 DEF IrqComplete, Event
  <2>1. Struct[p] \in Endpoint /\ Toggled(p) \in Pid /\ TotalSize(p) \in Nat
    <3>1. Struct[p] \in Endpoint /\ nextPid[Struct[p]] \in Pid
          /\ buflen[Struct[p]] \in Nat /\ hctsiz[p].bytes \in Nat
      BY Fields
    <3>2. Toggled(p) \in Pid
      BY <3>1, FlipPid DEF Toggled
    <3>3. TotalSize(p) \in Nat
      BY <3>1 DEF TotalSize
    <3> QED BY <3>1, <3>2, <3>3
  <2>2. TypeOK'
    BY <2>1 DEF TypeOK
  <2>3. xfer[p] = "running" /\ (p \notin Fault => devPid[p] = Toggled(p))
    BY DEF PipeInv, AgreeInv
  <2>4. event'[p] = None /\ xfer'[p] = "none" /\ nextPid'[Struct[p]] = Toggled(p)
        /\ devPid'[p] = devPid[p]
    BY <2>1 DEF TypeOK
  <2>5. PipeInv(p)'
    BY <2>3, <2>4 DEF PipeInv, AgreeInv
  <2>6. ASSUME NEW q \in Pipe, q # p PROVE PipeInv(q)'
    <3>1. Struct[q] # Struct[p] /\ Struct[q] \in Endpoint /\ PipeInv(q)
      BY <2>6, Fields DEF Regular, IInv
    <3> QED BY <2>1, <2>6, <3>1, Frame DEF TypeOK
  <2> QED BY <2>2, <2>5, <2>6 DEF IInv
<1>3. CASE IrqToggleError(p)
  <2>1. panic' = "data_toggle" /\ TypeOK'
    BY <1>3 DEF IrqToggleError, Event, TypeOK, driverVars
  <2> QED BY <2>1 DEF IInv
<1>4. CASE IrqXactErr(p)
  <2> USE <1>4 DEF IrqXactErr, Event
  <2>1. TypeOK'
    BY DEF TypeOK, driverVars
  <2>2. event'[p] = None /\ xfer'[p] = "none" /\ p \in Fault
    BY DEF TypeOK, PipeInv
  <2>3. PipeInv(p)'
    BY <2>2 DEF PipeInv
  <2>4. ASSUME NEW q \in Pipe, q # p PROVE PipeInv(q)'
    BY <2>4, Frame DEF IInv, TypeOK, driverVars
  <2> QED BY <2>1, <2>3, <2>4 DEF IInv
<1> QED BY <1>1, <1>2, <1>3, <1>4 DEF Irq

\* Moving a packet flips the bit of HCTSIZn, and what the driver would make
\* of the packet count.
LEMMA MovedToggles ==
  ASSUME TypeOK, NEW p \in Pipe, hctsiz[p].packets > 0,
         NEW left \in Nat, NEW last \in BOOLEAN, Moved(p, left, last),
         UNCHANGED driverVars
  PROVE  /\ hctsiz' \in [Pipe -> [bytes : Nat, packets : 0 .. PacketLimit - 1, pid : Pid]]
         /\ hctsiz'[p].pid = Flip(hctsiz[p].pid)
         /\ hctsiz'[p].packets = hctsiz[p].packets - 1
         /\ hctsiz[p].pid = Toggled(p) => hctsiz'[p].pid = Toggled(p)'
<1> USE DEF Moved
<1>1. /\ hctsiz[p].packets \in 1 .. PacketLimit - 1 /\ hctsiz[p].pid \in Pid
      /\ nextPid[Struct[p]] \in Pid /\ packets[Struct[p]] \in Nat
  <2>1. /\ hctsiz[p].packets \in 0 .. PacketLimit - 1 /\ hctsiz[p].pid \in Pid
        /\ nextPid[Struct[p]] \in Pid /\ packets[Struct[p]] \in Nat
    BY Fields
  <2> QED BY <2>1, SizeAssumption
<1>2. hctsiz'[p] = [bytes |-> left, packets |-> hctsiz[p].packets - 1,
                    pid |-> Flip(hctsiz[p].pid)]
  BY DEF TypeOK
<1>3. hctsiz' \in [Pipe -> [bytes : Nat, packets : 0 .. PacketLimit - 1, pid : Pid]]
  <2>1. [bytes |-> left, packets |-> hctsiz[p].packets - 1, pid |-> Flip(hctsiz[p].pid)]
          \in [bytes : Nat, packets : 0 .. PacketLimit - 1, pid : Pid]
    BY <1>1, FlipPid, SizeAssumption
  <2> QED BY <2>1 DEF TypeOK
<1>4. PacketsMoved(p)' % 2 = 1 <=> PacketsMoved(p) % 2 # 1
  <2>1. PacketsMoved(p)' = packets[Struct[p]] - (hctsiz[p].packets - 1)
    BY <1>2 DEF PacketsMoved, driverVars
  <2> QED BY <1>1, <2>1, Parity DEF PacketsMoved
<1>5. hctsiz[p].pid = Toggled(p) => hctsiz'[p].pid = Toggled(p)'
  BY <1>1, <1>2, <1>4, FlipPid DEF Toggled, driverVars
<1> QED BY <1>2, <1>3, <1>5

\* A report other than a completion changes nothing but the event.
LEMMA Reported ==
  ASSUME IInv, panic = "none", NEW p \in Pipe, xfer[p] = "running", event[p] = None,
         NEW flag \in Flag \ {"xfercompl"},
         event' = [event EXCEPT ![p] = flag],
         flag = "nak" => p \in Interrupt,
         flag \in {"xacterr", "datatglerr"} => p \in Fault,
         UNCHANGED <<driverVars, xfer, hctsiz, devPid, accepted, reported, started, panic>>
  PROVE  IInv'
<1> TypeOK /\ PipeInv(p)
  BY DEF IInv
<1>1. TypeOK'
  BY DEF TypeOK, driverVars
<1>2. event'[p] = flag /\ event[p] # "xfercompl"
  BY NoneAssumption DEF TypeOK, Flag
<1>3. PipeInv(p)'
  <2>1. p \in Interrupt => InterruptInv(p)'
    BY <1>2 DEF PipeInv, InterruptInv, driverVars
  <2>2. p \notin Fault => AgreeInv(p)'
    BY <1>2 DEF PipeInv, AgreeInv, Toggled, PacketsMoved, driverVars
  <2> QED BY <1>2, <2>1, <2>2 DEF PipeInv, Flag
<1>4. ASSUME NEW q \in Pipe, q # p PROVE PipeInv(q)'
  BY <1>4, Frame DEF IInv, TypeOK, driverVars
<1> QED BY <1>1, <1>3, <1>4 DEF IInv

LEMMA HwStep ==
  ASSUME Regular, IInv, NEW p \in Pipe, Hw(p)
  PROVE  IInv'
<1> TypeOK /\ panic = "none" /\ PipeInv(p)
  BY DEF Hw, HwIn, HwInToggleError, HwOut, HwNak, HwXactErr, Runs, IInv
<1> xfer[p] = "running" /\ event[p] = None
  BY DEF Hw, HwIn, HwInToggleError, HwOut, HwNak, HwXactErr, Runs
<1>0. /\ hctsiz[p].bytes \in Nat /\ hctsiz[p].pid \in Pid /\ devPid[p] \in Pid
      /\ buflen[Struct[p]] \in Nat /\ accepted[p] \in Nat
  BY Fields
<1>a. hctsiz[p].packets \in Int /\ hctsiz[p].packets > 0
  <2>1. event[p] # "xfercompl"
    BY NoneAssumption DEF Flag
  <2>2. hctsiz[p].packets \in 0 .. PacketLimit - 1
    BY Fields
  <2> QED BY <2>1, <2>2, SizeAssumption DEF PipeInv
<1>b. p \notin Fault => devPid[p] = hctsiz[p].pid /\ hctsiz[p].pid = Toggled(p)
  BY DEF PipeInv, AgreeInv
<1>1. CASE HwIn(p)
  <2> USE <1>1 DEF HwIn
  <2>1. PICK n \in 0 .. Mps :
          /\ n <= hctsiz[p].bytes
          /\ Moved(p, hctsiz[p].bytes - n, n < Mps \/ hctsiz[p].packets = 1)
          /\ accepted' = [accepted EXCEPT ![p] = @ + n]
    OBVIOUS
  <2> DEFINE left == hctsiz[p].bytes - n
             last == n < Mps \/ hctsiz[p].packets = 1
  <2>2. left \in Nat /\ last \in BOOLEAN /\ n \in Nat
    BY <1>0, <2>1, SizeAssumption
  <2>3. Moved(p, left, last)
    BY <2>1
  <2> HIDE DEF left
  <2>4. /\ hctsiz' \in [Pipe -> [bytes : Nat, packets : 0 .. PacketLimit - 1, pid : Pid]]
        /\ hctsiz'[p].pid = Flip(hctsiz[p].pid)
        /\ hctsiz'[p].packets = hctsiz[p].packets - 1
        /\ hctsiz[p].pid = Toggled(p) => hctsiz'[p].pid = Toggled(p)'
    BY <1>a, <2>2, <2>3, MovedToggles
  <2>5. devPid' = [devPid EXCEPT ![p] = Flip(@)] /\ UNCHANGED <<driverVars, xfer, reported, started, panic>>
    OBVIOUS
  <2>6. event' = (IF last THEN [event EXCEPT ![p] = "xfercompl"] ELSE event)
    BY <2>3 DEF Moved
  <2>7. TypeOK'
    <3>1. accepted' \in [Pipe -> Nat] /\ devPid' \in [Pipe -> Pid]
      BY <1>0, <2>1, <2>2, <2>5, FlipPid DEF TypeOK
    <3>2. event' \in [Pipe -> Flag \cup {None}]
      BY <2>6 DEF TypeOK, Flag
    <3> QED BY <2>4, <2>5, <3>1, <3>2 DEF TypeOK, driverVars
  <2>8. /\ event'[p] # "xfercompl" => hctsiz'[p].packets > 0
        /\ p \notin Fault => devPid'[p] = hctsiz'[p].pid /\ hctsiz'[p].pid = Toggled(p)'
    <3>1. devPid'[p] = hctsiz'[p].pid
      BY <2>4, <2>5 DEF TypeOK
    <3>2. event'[p] # "xfercompl" => hctsiz'[p].packets > 0
      <4> SUFFICES ASSUME event'[p] # "xfercompl" PROVE hctsiz[p].packets > 1
        BY <1>a, <2>4
      <4>1. hctsiz[p].packets # 1
        BY <2>6 DEF TypeOK
      <4> QED BY <1>a, <4>1
    <3> QED BY <1>b, <2>4, <3>1, <3>2
  <2>9. p \in Interrupt => event'[p] = "xfercompl"
    <3> SUFFICES ASSUME p \in Interrupt PROVE hctsiz[p].packets = 1
      BY <2>6 DEF TypeOK
    <3> QED BY NoneAssumption DEF PipeInv, InterruptInv, Flag
  <2>10. PipeInv(p)'
    <3>1. event'[p] \in {None, "xfercompl"} /\ xfer'[p] = "running"
      BY <2>5, <2>6 DEF TypeOK
    <3>2. p \in Interrupt => InterruptInv(p)'
      BY <2>5, <2>9, <3>1 DEF PipeInv, InterruptInv, driverVars
    <3>3. p \notin Fault => AgreeInv(p)'
      BY <2>8, <3>1, NoneAssumption DEF AgreeInv, Flag
    <3> QED BY <2>8, <3>1, <3>2, <3>3, NoneAssumption DEF PipeInv, Flag
  <2>11. ASSUME NEW q \in Pipe, q # p PROVE PipeInv(q)'
    <3>1. hctsiz'[q] = hctsiz[q] /\ event'[q] = event[q] /\ devPid'[q] = devPid[q]
      BY <2>3, <2>5, <2>6, <2>11 DEF Moved, TypeOK
    <3> QED BY <2>5, <3>1, Frame DEF IInv, driverVars
  <2> QED BY <2>7, <2>10, <2>11 DEF IInv
<1>2. CASE HwInToggleError(p)
  BY <1>2, <1>b, Reported DEF HwInToggleError, Flag
<1>3. CASE HwOut(p)
  <2> DEFINE n == IF hctsiz[p].bytes < Mps THEN hctsiz[p].bytes ELSE Mps
             last == hctsiz[p].packets = 1
  <2>1. PICK left \in {hctsiz[p].bytes - n, buflen[Struct[p]]} : Moved(p, left, last)
    BY <1>3 DEF HwOut
  <2>2. left \in Nat /\ n \in Nat
    BY <1>0, SizeAssumption
  <2>3. /\ p \in OutPipe
        /\ accepted' \in {accepted, [accepted EXCEPT ![p] = @ + n]}
        /\ devPid' \in {devPid, [devPid EXCEPT ![p] = Flip(@)]}
        /\ p \notin Fault => devPid' = [devPid EXCEPT ![p] = Flip(@)]
        /\ UNCHANGED <<driverVars, xfer, reported, started, panic>>
    BY <1>3, <1>b DEF HwOut
  <2> HIDE DEF n
  <2>4. /\ hctsiz' \in [Pipe -> [bytes : Nat, packets : 0 .. PacketLimit - 1, pid : Pid]]
        /\ hctsiz'[p].pid = Flip(hctsiz[p].pid)
        /\ hctsiz'[p].packets = hctsiz[p].packets - 1
        /\ hctsiz[p].pid = Toggled(p) => hctsiz'[p].pid = Toggled(p)'
    BY <1>a, <2>1, <2>2, <2>3, MovedToggles
  <2>6. event' = (IF last THEN [event EXCEPT ![p] = "xfercompl"] ELSE event)
    BY <2>1 DEF Moved
  <2>7. TypeOK'
    <3>a. accepted[p] + n \in Nat /\ Flip(devPid[p]) \in Pid
      BY <1>0, <2>2, FlipPid
    <3>b. /\ [accepted EXCEPT ![p] = @ + n] \in [Pipe -> Nat]
          /\ [devPid EXCEPT ![p] = Flip(@)] \in [Pipe -> Pid]
      BY <3>a DEF TypeOK
    <3>1. accepted' \in [Pipe -> Nat] /\ devPid' \in [Pipe -> Pid]
      BY <2>3, <3>b DEF TypeOK
    <3>2. event' \in [Pipe -> Flag \cup {None}]
      BY <2>6 DEF TypeOK, Flag
    <3> QED BY <2>3, <2>4, <3>1, <3>2 DEF TypeOK, driverVars
  <2>8. /\ event'[p] # "xfercompl" => hctsiz'[p].packets > 0
        /\ p \notin Fault => devPid'[p] = hctsiz'[p].pid /\ hctsiz'[p].pid = Toggled(p)'
    <3>1. p \notin Fault => devPid'[p] = hctsiz'[p].pid
      BY <1>b, <2>3, <2>4 DEF TypeOK
    <3>2. event'[p] # "xfercompl" => hctsiz'[p].packets > 0
      <4> SUFFICES ASSUME event'[p] # "xfercompl" PROVE hctsiz[p].packets > 1
        BY <1>a, <2>4
      <4>1. hctsiz[p].packets # 1
        BY <2>6 DEF TypeOK
      <4> QED BY <1>a, <4>1
    <3> QED BY <1>b, <2>4, <3>1, <3>2
  <2>9. PipeInv(p)'
    <3>1. event'[p] \in {None, "xfercompl"} /\ xfer'[p] = "running" /\ p \notin Interrupt
      BY <2>3, <2>6, PipeAssumption DEF TypeOK
    <3>2. p \notin Fault => AgreeInv(p)'
      BY <2>8, <3>1, NoneAssumption DEF AgreeInv, Flag
    <3> QED BY <2>8, <3>1, <3>2, NoneAssumption DEF PipeInv, Flag
  <2>10. ASSUME NEW q \in Pipe, q # p PROVE PipeInv(q)'
    <3>1. hctsiz'[q] = hctsiz[q] /\ event'[q] = event[q] /\ devPid'[q] = devPid[q]
      BY <2>1, <2>3, <2>6, <2>10 DEF Moved, TypeOK
    <3> QED BY <2>3, <3>1, Frame DEF IInv, driverVars
  <2> QED BY <2>7, <2>9, <2>10 DEF IInv
<1>4. CASE HwNak(p)
  BY <1>4, Reported DEF HwNak, Flag
<1>5. CASE HwXactErr(p)
  BY <1>5, Reported DEF HwXactErr, Flag
<1> QED BY <1>1, <1>2, <1>3, <1>4, <1>5 DEF Hw

-----------------------------------------------------------------------------
(* The theorems *)

LEMMA Inductive == ASSUME Regular PROVE IInv /\ [Next]_vars => IInv'
<1> SUFFICES ASSUME IInv, [Next]_vars PROVE IInv'
  OBVIOUS
<1>1. CASE \E p \in InPipe : \E size \in Size[p] : HostIn(p, size)
  BY <1>1, InStep
<1>2. CASE \E p \in OutPipe : \E size \in Size[p] : HostOut(p, size)
  BY <1>2, OutStep
<1>3. CASE \E p \in Pipe : RetryFires(p)
  BY <1>3, RetryStep
<1>4. CASE \E p \in Pipe : Irq(p)
  BY <1>4, IrqStep
<1>5. CASE \E p \in Pipe : Hw(p)
  BY <1>5, HwStep
<1>6. CASE UNCHANGED vars
  <2> USE <1>6 DEF vars, driverVars
  <2>1. TypeOK'
    BY DEF IInv, TypeOK
  <2>2. ASSUME panic = "none", NEW q \in Pipe PROVE PipeInv(q)'
    BY <2>2, Frame DEF IInv
  <2> QED BY <2>1, <2>2 DEF IInv
<1> QED BY <1>1, <1>2, <1>3, <1>4, <1>5, <1>6 DEF Next

LEMMA Invariance == ASSUME Regular PROVE Spec => []IInv
BY InitIInv, Inductive, PTL DEF Spec

\* TypeOK: the pipes, channels and counts keep their types.  That a count fits its 10
\* bits is what Regular asks of the lengths, not what the driver sees to.
THEOREM Typing == ASSUME Regular PROVE Spec => []TypeOK
<1>1. IInv => TypeOK
  BY DEF IInv
<1> QED BY <1>1, Invariance, PTL

\* Driver, controller and device agree on the toggle of every pipe where no
\* packet fails, whatever happens on the others: the parity of the packets moved
\* is all the driver needs to look at.
THEOREM TogglesInStep == ASSUME Regular PROVE Spec => []TogglesAgree
<1>1. IInv => TogglesAgree
  BY DEF IInv, TogglesAgree, PipeInv, AgreeInv
<1> QED BY <1>1, Invariance, PTL

\* The assertion on a data toggle error of dwc_check_interrupt is never reached
\* when no packet fails on any pipe.
THEOREM NoDataToggleError ==
  ASSUME Regular, Fault = {} PROVE Spec => []NoToggleError
<1>1. ASSUME IInv, NoToggleError, [Next]_vars PROVE NoToggleError'
  <2> USE <1>1
  <2>1. ASSUME NEW p \in Pipe, IrqToggleError(p) PROVE FALSE
    BY <2>1 DEF IrqToggleError, Event, IInv, PipeInv, AgreeInv
  <2> QED
    BY <2>1 DEF Next, vars, NoToggleError, HostIn, HostOut, RetryFires, Irq, IrqNakHalt,
      IrqComplete, IrqXactErr, Hw, HwIn, HwInToggleError, HwOut, HwNak, HwXactErr, Pipe
<1>2. Init => NoToggleError
  BY DEF Init, NoToggleError
<1> QED BY <1>1, <1>2, Invariance, PTL DEF Spec

-----------------------------------------------------------------------------
(* The last packet of an OUT transfer *)

LEMMA Remainder ==
  ASSUME NEW d \in Nat \ {0}, NEW a \in Nat
  PROVE  a - (a \div d) * d = a % d /\ a % d \in 0 .. d - 1
BY SMT

LEMMA LastPacketIs ==
  ASSUME NEW size \in Nat PROVE LastPacket(size) = size % Mps /\ size % Mps \in Nat
<1>1. size \div Mps \in Nat /\ OutPackets(size) - 1 = size \div Mps
  BY SizeAssumption, QuotientNat DEF OutPackets
<1>2. LastPacket(size) = size - (size \div Mps) * Mps
  BY <1>1 DEF LastPacket
<1>3. size - (size \div Mps) * Mps = size % Mps /\ size % Mps \in 0 .. Mps - 1
  BY SizeAssumption, Remainder
<1> QED BY <1>2, <1>3, SizeAssumption

LEMMA OutAsserts ==
  ASSUME NEW p \in OutPipe, NEW size \in Size[p], HostOut(p, size)
  PROVE  panic = "none" /\ (panic' = "last_packet" <=> size # 0 /\ size % Mps = 0)
<1>1. size \in Nat
  BY SizeAssumption DEF Pipe
<1>2. panic = "none"
  BY DEF HostOut, Start
<1>3. panic' = IF size # 0 /\ LastPacket(size) <= 0 THEN "last_packet" ELSE panic
  BY DEF HostOut
<1>4. LastPacket(size) <= 0 <=> size % Mps = 0
  BY <1>1, LastPacketIs
<1> QED BY <1>2, <1>3, <1>4

\* A step that starts no OUT transfer does not fail this check.
LEMMA OthersDoNotAssert ==
  ASSUME Next, panic = "none",
         \A p \in OutPipe : \A size \in Size[p] : ~HostOut(p, size)
  PROVE  panic' # "last_packet"
BY DEF Next, HostIn, RetryFires, Irq, IrqNakHalt, IrqComplete, IrqToggleError, IrqXactErr,
       Hw, HwIn, HwInToggleError, HwOut, HwNak, HwXactErr

\* Which transfers fail the check of dwc_host_out, without any hypothesis: those of a
\* whole number of packets, but for the empty one.
THEOREM FullLastPackets == Spec => FullLastPacketFails
<1>1. ASSUME Next, panic = "none"
      PROVE  panic' = "last_packet"
               <=> \E p \in OutPipe : \E size \in Size[p] :
                     HostOut(p, size) /\ size # 0 /\ size % Mps = 0
  BY <1>1, OutAsserts, OthersDoNotAssert
<1>2. [Next]_vars =>
        [panic = "none" =>
           (panic' = "last_packet"
              <=> \E p \in OutPipe : \E size \in Size[p] :
                    HostOut(p, size) /\ size # 0 /\ size % Mps = 0)]_vars
  BY <1>1
<1> QED BY <1>2, PTL DEF Spec, FullLastPacketFails

\* No transfer of the stack fills its last packet.
NoFullLastPacket ==
  \A p \in OutPipe : \A size \in Size[p] : size = 0 \/ size % Mps # 0

\* Nothing else stops a driver whose packets all arrive: neither of the assertions
\* about a transfer fails.
THEOREM NoTransferAsserts ==
  ASSUME Regular, Fault = {}, NoFullLastPacket PROVE Spec => [](panic = "none")
<1> DEFINE LastPacketFull == panic = "last_packet"
<1>1. IInv /\ NoToggleError /\ ~LastPacketFull => panic = "none"
  BY DEF IInv, TypeOK, NoToggleError
<1>2. ASSUME ~LastPacketFull, [Next]_vars PROVE ~LastPacketFull'
  <2>1. CASE UNCHANGED vars
    BY <1>2, <2>1 DEF vars
  <2>2. ASSUME NEW p \in OutPipe, NEW size \in Size[p], HostOut(p, size)
        PROVE  panic' # "last_packet"
    BY <2>2, OutAsserts DEF NoFullLastPacket
  <2>3. CASE Next /\ panic = "none"
    BY <2>2, <2>3, OthersDoNotAssert
  <2>4. CASE Next /\ panic # "none"
    BY <2>4 DEF Next, HostIn, HostOut, Start, RetryFires, Irq, IrqNakHalt, IrqComplete,
                IrqToggleError, IrqXactErr, Event, Hw, HwIn, HwInToggleError, HwOut, HwNak,
                HwXactErr, Runs
  <2> QED BY <1>2, <2>1, <2>3, <2>4
<1>3. Init => ~LastPacketFull
  BY DEF Init
<1>4. Spec => []NoToggleError
  BY NoDataToggleError
<1>5. Spec => []IInv
  BY Invariance
<1> HIDE DEF LastPacketFull
<1> QED BY <1>1, <1>2, <1>3, <1>4, <1>5, PTL DEF Spec

-----------------------------------------------------------------------------
(* The sizes reported *)

\* What is left of an OUT transfer: its last packet, and full ones before it.
OutLeft(p) ==
  IF event[p] = "xfercompl"
    THEN /\ accepted[p] = buflen[Struct[p]]
         /\ hctsiz[p].bytes \in {0, buflen[Struct[p]]}
    ELSE /\ accepted[p] + hctsiz[p].bytes = buflen[Struct[p]]
         /\ hctsiz[p].bytes = LastPacket(buflen[Struct[p]]) + (hctsiz[p].packets - 1) * Mps

ReportInv(p) ==
  /\ xfer[p] # "none" => reported[p] = None
  /\ p \in InPipe \cup (OutPipe \ Fault) /\ reported[p] # None => reported[p] = accepted[p]
  /\ panic = "none" =>
       /\ p \in InPipe /\ xfer[p] = "running" =>
            accepted[p] + hctsiz[p].bytes = buflen[Struct[p]]
       /\ p \in Interrupt /\ xfer[p] # "none" /\ event[p] # "xfercompl" => accepted[p] = 0
       /\ p \in OutPipe \ Fault /\ xfer[p] = "running" => OutLeft(p)

LEMMA LastPacketBounds ==
  ASSUME NEW size \in Nat PROVE LastPacket(size) \in 0 .. Mps - 1
<1> USE SizeAssumption
<1>1. ASSUME NEW d \in Nat \ {0} PROVE size - (size \div d) * d \in 0 .. d - 1
  BY SMT
<1>2. LastPacket(size) = size - (size \div Mps) * Mps
  BY QuotientNat DEF LastPacket, OutPackets
<1> QED BY <1>1, <1>2

\* A packet more to come is that many bytes more.
LEMMA PacketsLeft ==
  ASSUME NEW k \in Nat, k > 1
  PROVE  (k - 1) * Mps = (k - 2) * Mps + Mps /\ (k - 2) * Mps \in Nat
BY SizeAssumption, SMT

LEMMA ReportFrame ==
  ASSUME NEW q \in Pipe, ReportInv(q), panic = "none",
         event'[q] = event[q], xfer'[q] = xfer[q], hctsiz'[q] = hctsiz[q],
         buflen'[Struct[q]] = buflen[Struct[q]],
         accepted'[q] = accepted[q], reported'[q] = reported[q]
  PROVE  ReportInv(q)'
BY DEF ReportInv, OutLeft

\* Starting a transfer, for the first time or again.
LEMMA ProgramReports ==
  ASSUME Regular, IInv, IInv', panic = "none",
         NEW p \in Pipe, NEW size \in Nat, NEW count \in 1 .. PacketLimit - 1,
         p \in OutPipe => count = OutPackets(size),
         event[p] = None, accepted'[p] = 0, reported'[p] = None,
         Program(p, size, count)
  PROVE  ReportInv(p)'
<1> TypeOK
  BY DEF IInv
<1>1. count % PacketLimit = count
  BY SizeAssumption, SmallRemainder
<1>2. /\ buflen'[Struct[p]] = size /\ event'[p] = None
      /\ hctsiz'[p].bytes = size /\ hctsiz'[p].packets = count
  BY <1>1, Fields DEF Program, TypeOK
<1>3. p \in OutPipe => size = LastPacket(size) + (count - 1) * Mps
  BY QuotientNat, SizeAssumption DEF LastPacket, OutPackets
<1>4. event'[p] # "xfercompl"
  BY <1>2, NoneAssumption DEF Flag
<1>5. OutLeft(p)' <=> /\ 0 + size = size
                      /\ size = LastPacket(size) + (count - 1) * Mps
  BY <1>2, <1>4 DEF OutLeft
<1> QED BY <1>2, <1>3, <1>5 DEF ReportInv

LEMMA StartReports ==
  ASSUME Regular, IInv, IInv', NEW p \in Pipe,
         \/ p \in InPipe /\ \E size \in Size[p] : HostIn(p, size)
         \/ p \in OutPipe /\ \E size \in Size[p] : HostOut(p, size),
         \A q \in Pipe : ReportInv(q)
  PROVE  \A q \in Pipe : ReportInv(q)'
<1> TypeOK
  BY DEF IInv
<1>1. PICK size \in Size[p] : \/ p \in InPipe /\ HostIn(p, size)
                              \/ p \in OutPipe /\ HostOut(p, size)
  OBVIOUS
<1> DEFINE count == IF p \in InPipe THEN InPackets(size) ELSE OutPackets(size)
<1>2. size \in Nat /\ Start(p) /\ Program(p, size, count)
  BY <1>1, SizeAssumption, PipeAssumption DEF HostIn, HostOut
<1>3. count \in 1 .. PacketLimit - 1 /\ (p \in OutPipe => count = OutPackets(size))
  BY <1>1, <1>2, InPacketsBounds, OutPacketsBounds, SizeAssumption, PipeAssumption DEF Regular
<1>4. panic = "none" /\ xfer[p] = "none" /\ event[p] = None
      /\ accepted'[p] = 0 /\ reported'[p] = None
  BY <1>2 DEF Start, TypeOK, IInv, PipeInv
<1> HIDE DEF count
<1>5. ReportInv(p)'
  BY <1>2, <1>3, <1>4, ProgramReports
<1>6. ASSUME NEW q \in Pipe, q # p PROVE ReportInv(q)'
  <2>1. Struct[q] # Struct[p] /\ Struct[q] \in Endpoint
    BY <1>6, StructAssumption DEF Regular
  <2> QED BY <1>2, <1>4, <1>6, <2>1, ReportFrame DEF Start, Program, TypeOK
<1> QED BY <1>5, <1>6

LEMMA RetryReports ==
  ASSUME Regular, IInv, IInv', NEW p \in Pipe, RetryFires(p), \A q \in Pipe : ReportInv(q)
  PROVE  \A q \in Pipe : ReportInv(q)'
<1> DEFINE size == buflen[Struct[p]]
<1> TypeOK /\ panic = "none" /\ xfer[p] = "retry" /\ PipeInv(p) /\ size \in Nat
  BY Fields DEF RetryFires, IInv
<1>1. p \in Interrupt /\ size <= Mps /\ event[p] = None /\ p \notin OutPipe
  BY PipeAssumption DEF PipeInv, InterruptInv
<1>2. InPackets(size) = 1 /\ 1 \in 1 .. PacketLimit - 1
  BY <1>1, InPacketsBounds, SizeAssumption
<1>3. event[p] # "xfercompl"
  BY <1>1, NoneAssumption DEF Flag
<1>4. accepted'[p] = 0 /\ reported'[p] = None
  BY <1>1, <1>3 DEF RetryFires, ReportInv
<1>5. Program(p, size, 1)
  BY <1>2 DEF RetryFires
<1>6. ReportInv(p)'
  BY <1>1, <1>2, <1>4, <1>5, ProgramReports
<1>7. ASSUME NEW q \in Pipe, q # p PROVE ReportInv(q)'
  <2>1. Struct[q] # Struct[p] /\ Struct[q] \in Endpoint
    BY <1>7, StructAssumption DEF Regular
  <2> QED BY <1>7, <2>1, ReportFrame DEF RetryFires, Program, TypeOK
<1> QED BY <1>6, <1>7

LEMMA IrqReports ==
  ASSUME Regular, IInv, IInv', NEW p \in Pipe, Irq(p), \A q \in Pipe : ReportInv(q)
  PROVE  \A q \in Pipe : ReportInv(q)'
<1> TypeOK /\ panic = "none" /\ PipeInv(p) /\ ReportInv(p)
  BY DEF Irq, IrqNakHalt, IrqComplete, IrqToggleError, IrqXactErr, Event, IInv
<1>0. Struct[p] \in Endpoint /\ buflen[Struct[p]] \in Nat /\ hctsiz[p].bytes \in Nat
      /\ accepted[p] \in Nat
  BY Fields
<1>1. CASE IrqNakHalt(p)
  <2> USE <1>1 DEF IrqNakHalt, Event
  <2>1. xfer[p] = "running" /\ p \in Interrupt /\ p \notin OutPipe /\ event[p] # "xfercompl"
    BY NoneAssumption, PipeAssumption DEF PipeInv, Flag
  <2>2. event'[p] = None /\ xfer'[p] = "retry"
    BY DEF TypeOK
  <2>3. ReportInv(p)'
    BY <2>1, <2>2 DEF ReportInv
  <2>4. ASSUME NEW q \in Pipe, q # p PROVE ReportInv(q)'
    BY <2>4, ReportFrame DEF TypeOK, driverVars
  <2> QED BY <2>3, <2>4
<1>2. CASE IrqComplete(p)
  <2> USE <1>2 DEF IrqComplete, Event
  <2>1. xfer[p] = "running"
    BY NoneAssumption DEF PipeInv, Flag
  <2>2. xfer'[p] = "none" /\ reported'[p] = TotalSize(p) /\ accepted'[p] = accepted[p]
    BY DEF TypeOK
  <2>3. p \in InPipe => TotalSize(p) = accepted[p]
    BY <1>0, <2>1, PipeAssumption DEF ReportInv, TotalSize
  <2>4. p \in OutPipe \ Fault => TotalSize(p) = accepted[p]
    BY <1>0, <2>1 DEF ReportInv, OutLeft, TotalSize
  <2>5. ReportInv(p)'
    BY <2>2, <2>3, <2>4 DEF ReportInv
  <2>6. ASSUME NEW q \in Pipe, q # p PROVE ReportInv(q)'
    BY <2>6, ReportFrame DEF TypeOK
  <2> QED BY <2>5, <2>6
<1>3. CASE IrqToggleError(p)
  BY <1>3 DEF IrqToggleError, ReportInv
<1>4. CASE IrqXactErr(p)
  <2> USE <1>4 DEF IrqXactErr, Event
  <2>1. xfer'[p] = "none" /\ UNCHANGED <<reported, accepted>>
    BY DEF TypeOK
  <2>2. ReportInv(p)'
    BY <2>1 DEF ReportInv
  <2>3. ASSUME NEW q \in Pipe, q # p PROVE ReportInv(q)'
    BY <2>3, ReportFrame DEF TypeOK, driverVars
  <2> QED BY <2>2, <2>3
<1> QED BY <1>1, <1>2, <1>3, <1>4 DEF Irq

LEMMA HwReports ==
  ASSUME Regular, IInv, IInv', NEW p \in Pipe, Hw(p), \A q \in Pipe : ReportInv(q)
  PROVE  \A q \in Pipe : ReportInv(q)'
<1> TypeOK /\ panic = "none" /\ PipeInv(p) /\ ReportInv(p)
  BY DEF Hw, HwIn, HwInToggleError, HwOut, HwNak, HwXactErr, Runs, IInv
<1> xfer[p] = "running" /\ event[p] = None /\ event[p] # "xfercompl"
  BY NoneAssumption DEF Hw, HwIn, HwInToggleError, HwOut, HwNak, HwXactErr, Runs, Flag
<1>0. /\ hctsiz[p].bytes \in Nat /\ buflen[Struct[p]] \in Nat /\ accepted[p] \in Nat
      /\ hctsiz[p].packets \in Nat /\ hctsiz[p].packets > 0
  <2>1. hctsiz[p].packets \in 0 .. PacketLimit - 1
    BY Fields
  <2>2. hctsiz[p].packets > 0
    BY DEF PipeInv
  <2>3. hctsiz[p].bytes \in Nat /\ buflen[Struct[p]] \in Nat /\ accepted[p] \in Nat
    BY Fields
  <2> QED BY <2>1, <2>2, <2>3, SizeAssumption
<1>1. CASE HwIn(p)
  <2>1. PICK n \in 0 .. Mps :
          /\ n <= hctsiz[p].bytes
          /\ Moved(p, hctsiz[p].bytes - n, n < Mps \/ hctsiz[p].packets = 1)
          /\ accepted' = [accepted EXCEPT ![p] = @ + n]
    BY <1>1 DEF HwIn
  <2>2. /\ hctsiz'[p].bytes = hctsiz[p].bytes - n /\ accepted'[p] = accepted[p] + n
        /\ UNCHANGED <<buflen, xfer, reported, panic>> /\ n \in Nat
    BY <1>1, <2>1, SizeAssumption DEF HwIn, Moved, TypeOK, driverVars
  <2>3. p \in Interrupt => event'[p] = "xfercompl"
    BY <2>1 DEF PipeInv, InterruptInv, Moved, TypeOK
  <2>4. p \in InPipe /\ p \notin OutPipe
    BY <1>1, PipeAssumption DEF HwIn
  <2>5. ReportInv(p)'
    BY <1>0, <2>2, <2>3, <2>4 DEF ReportInv
  <2>6. ASSUME NEW q \in Pipe, q # p PROVE ReportInv(q)'
    BY <1>1, <2>1, <2>6, ReportFrame DEF HwIn, Moved, TypeOK, driverVars
  <2> QED BY <2>5, <2>6
<1>2. CASE HwOut(p)
  <2> DEFINE n == IF hctsiz[p].bytes < Mps THEN hctsiz[p].bytes ELSE Mps
             last == hctsiz[p].packets = 1
  <2>1. PICK left \in {hctsiz[p].bytes - n, buflen[Struct[p]]} :
          (left = hctsiz[p].bytes - n \/ last) /\ Moved(p, left, last)
    BY <1>2 DEF HwOut
  <2>2. /\ p \in OutPipe /\ p \notin InPipe /\ p \notin Interrupt
        /\ UNCHANGED <<buflen, xfer, reported, panic>>
        /\ accepted' \in {accepted, [accepted EXCEPT ![p] = @ + n]}
    BY <1>2, PipeAssumption DEF HwOut, driverVars
  <2>3. hctsiz'[p].bytes = left /\ hctsiz'[p].packets = hctsiz[p].packets - 1
        /\ event'[p] = IF last THEN "xfercompl" ELSE None
    BY <2>1 DEF Moved, TypeOK
  <2>4. ASSUME p \notin Fault PROVE OutLeft(p)'
    <3>1. accepted'[p] = accepted[p] + n
      BY <1>2, <2>4 DEF HwOut, PipeInv, AgreeInv, TypeOK
    <3>2. /\ accepted[p] + hctsiz[p].bytes = buflen[Struct[p]]
          /\ hctsiz[p].bytes = LastPacket(buflen[Struct[p]]) + (hctsiz[p].packets - 1) * Mps
      BY <2>2, <2>4 DEF ReportInv, OutLeft
    <3>3. LastPacket(buflen[Struct[p]]) \in 0 .. Mps - 1 /\ Mps \in Nat \ {0, 1}
      BY <1>0, LastPacketBounds, SizeAssumption
    <3>4. CASE last
      <4>1. hctsiz[p].bytes = LastPacket(buflen[Struct[p]]) /\ n = hctsiz[p].bytes
        BY <3>2, <3>3, <3>4
      <4>2. left \in {0, buflen[Struct[p]]} /\ accepted'[p] = buflen[Struct[p]]
        BY <1>0, <2>1, <3>1, <3>2, <4>1
      <4> QED BY <2>2, <2>3, <3>4, <4>2 DEF OutLeft
    <3>5. CASE ~last
      <4>1. /\ (hctsiz[p].packets - 1) * Mps = (hctsiz[p].packets - 2) * Mps + Mps
            /\ (hctsiz[p].packets - 2) * Mps \in Nat
        BY <1>0, <3>5, PacketsLeft
      <4>2. n = Mps /\ left = hctsiz[p].bytes - Mps
        BY <1>0, <2>1, <3>2, <3>3, <3>5, <4>1
      <4>3. hctsiz'[p].packets - 1 = hctsiz[p].packets - 2
        BY <1>0, <2>3
      <4>4. /\ accepted'[p] + left = buflen[Struct[p]]
            /\ left = LastPacket(buflen[Struct[p]]) + (hctsiz[p].packets - 2) * Mps
        BY <1>0, <3>1, <3>2, <3>3, <4>1, <4>2
      <4>5. event'[p] # "xfercompl"
        BY <2>3, <3>5, NoneAssumption DEF Flag
      <4> QED BY <2>2, <2>3, <4>3, <4>4, <4>5 DEF OutLeft
    <3> QED BY <3>4, <3>5
  <2>5. ReportInv(p)'
    BY <2>2, <2>4 DEF ReportInv
  <2>6. ASSUME NEW q \in Pipe, q # p PROVE ReportInv(q)'
    BY <2>1, <2>2, <2>6, ReportFrame DEF Moved, TypeOK
  <2> QED BY <2>5, <2>6
<1>3. CASE HwInToggleError(p) \/ HwNak(p) \/ HwXactErr(p)
  <2>1. /\ UNCHANGED <<driverVars, xfer, hctsiz, accepted, reported, panic>>
        /\ event'[p] # "xfercompl" /\ \A q \in Pipe : q # p => event'[q] = event[q]
    BY <1>3, NoneAssumption DEF HwInToggleError, HwNak, HwXactErr, TypeOK, Flag
  <2>2. ReportInv(p)'
    BY <2>1 DEF ReportInv, OutLeft, driverVars
  <2>3. ASSUME NEW q \in Pipe, q # p PROVE ReportInv(q)'
    BY <2>1, <2>3, ReportFrame DEF driverVars
  <2> QED BY <2>2, <2>3
<1> QED BY <1>1, <1>2, <1>3 DEF Hw

\* IrqComplete reports what the receiver took, for short answers, several packets
\* and an OUT byte count that did not move: see ReportIsExact.
THEOREM ReportsExact == ASSUME Regular PROVE Spec => []ReportIsExact
<1> DEFINE R == \A p \in Pipe : ReportInv(p)
<1>1. Init => R
  BY NoneAssumption DEF Init, ReportInv
<1>2. IInv /\ IInv' /\ R /\ [Next]_vars => R'
  <2> SUFFICES ASSUME IInv, IInv', R, [Next]_vars PROVE R'
    OBVIOUS
  <2>1. CASE \E p \in InPipe : \E size \in Size[p] : HostIn(p, size)
    BY <2>1, StartReports DEF Pipe
  <2>2. CASE \E p \in OutPipe : \E size \in Size[p] : HostOut(p, size)
    BY <2>2, StartReports DEF Pipe
  <2>3. CASE \E p \in Pipe : RetryFires(p) \/ Irq(p) \/ Hw(p)
    BY <2>3, RetryReports, IrqReports, HwReports
  <2>4. CASE UNCHANGED vars
    BY <2>4 DEF vars, driverVars, ReportInv, OutLeft
  <2> QED BY <2>1, <2>2, <2>3, <2>4 DEF Next
<1>3. R => ReportIsExact
  BY DEF ReportInv, ReportIsExact, Pipe
<1> HIDE DEF R
<1> QED BY <1>1, <1>2, <1>3, Invariance, PTL DEF Spec
=============================================================================
