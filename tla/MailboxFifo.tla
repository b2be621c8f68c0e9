---------------------------- MODULE MailboxFifo ----------------------------
(***************************************************************************)
(* The receiving side of the ARM-to-VPU mailbox,                           *)
(* platform/bcm28xx/mailbox/mailbox.c: the interrupt handler moves words   *)
(* from the hardware FIFO into a ring buffer, from which threads pop them. *)
(*                                                                         *)
(* The ARM writes while the handler runs, so every register access of the  *)
(* handler is a step of its own.  The VPU has one core: threads stand      *)
(* still while the handler runs, and a critical section, with interrupts   *)
(* off, is one step.                                                       *)
(*                                                                         *)
(* External: the hardware FIFO, the ARM and the kernel's event.            *)
(***************************************************************************)
EXTENDS Integers, Sequences, FiniteSets

CONSTANTS
  Popper,    \* threads that call mailbox_fifo_pop
  Size,      \* words in the ring, 128 in the firmware
  HwDepth,   \* words in the hardware FIFO, 8 in the hardware
  MaxWords,  \* BOUND: words the ARM writes in a behaviour
  None

ASSUME MailboxAssumption ==
  /\ Size \in Nat \ {0, 1} /\ HwDepth \in Nat \ {0}
  /\ MaxWords \in Nat /\ None \notin Nat

\* The ARM's words are numbered as they are written.
Word == 1 .. MaxWords

VARIABLES
  sent,       \* how many words the ARM has written
  hw,         \* the hardware FIFO
  irq,        \* where mailbox_irq is
  pending,    \* its local: words left of the count read from STATUS
  buf, head, tail, event,   \* struct mailbox_fifo
  pc,         \* where each popper is
  delivered,  \* history: the words mailbox_fifo_pop returned
  lost        \* history: how many times "fifo overflow" was printed

ringVars == <<buf, head, tail, event, lost>>
irqVars  == <<hw, irq, pending>>
popVars  == <<pc, delivered>>
vars == <<sent, ringVars, irqVars, popVars>>

TypeOK ==
  /\ sent \in 0 .. MaxWords
  /\ hw \in Seq(Word) /\ Len(hw) <= HwDepth
  /\ irq \in {"off", "drain"}
  /\ pending \in 0 .. HwDepth
  /\ buf \in [0 .. Size - 1 -> Word \cup {None}]
  /\ head \in 0 .. Size - 1 /\ tail \in 0 .. Size - 1
  /\ event \in BOOLEAN
  /\ pc \in [Popper -> {"wait", "take"}]
  /\ delivered \in Seq(Word)
  /\ lost \in Nat

\* mailbox_init
Init ==
  /\ sent = 0 /\ hw = <<>> /\ irq = "off" /\ pending = 0
  /\ buf = [i \in 0 .. Size - 1 |-> None]
  /\ head = 0 /\ tail = 0 /\ event = FALSE
  /\ pc = [t \in Popper |-> "wait"]
  /\ delivered = <<>> /\ lost = 0

-----------------------------------------------------------------------------
(* The ring *)

\* modpow2: Size is a power of two, and the C code masks with Size - 1.
Modpow2(v) == v % Size

Consumed == Modpow2(head - tail)

\* BUG: the slot that tells a full ring from an empty one is used too.
BugSpaceAvail == Size - Consumed

\* mailbox_fifo_space_avail
SpaceAvail == Size - Consumed - 1

\* BUG: the head index is not wrapped.
BugPushNoWrap(w) ==
  \/ /\ SpaceAvail > 0
     /\ buf' = [buf EXCEPT ![head] = w]
     /\ head' = head + 1
     /\ event' = TRUE
     /\ UNCHANGED <<tail, lost>>
  \/ /\ SpaceAvail = 0
     /\ lost' = lost + 1
     /\ UNCHANGED <<buf, head, tail, event>>

\* mailbox_fifo_push
Push(w) ==
  \/ /\ SpaceAvail > 0
     /\ buf' = [buf EXCEPT ![head] = w]
     /\ head' = Modpow2(head + 1)
     /\ event' = TRUE
     /\ UNCHANGED <<tail, lost>>
  \/ /\ SpaceAvail = 0
     /\ lost' = lost + 1
     /\ UNCHANGED <<buf, head, tail, event>>

-----------------------------------------------------------------------------
(* The ARM, and the interrupt *)

\* mailbox_write of the ARM: wait for space in the FIFO, then write.
ArmWrite ==
  /\ sent < MaxWords /\ Len(hw) < HwDepth
  /\ sent' = sent + 1
  /\ hw' = Append(hw, sent + 1)
  /\ UNCHANGED <<irq, pending, ringVars, popVars>>

\* BUG: one word more than STATUS counts is read.
BugIrqEnter ==
  /\ irq = "off" /\ hw # <<>>
  /\ pending' = Len(hw) + 1
  /\ irq' = "drain"
  /\ UNCHANGED <<sent, hw, ringVars, popVars>>

\* mailbox_irq, entered because data is present: STATUS holds the count.
IrqEnter ==
  /\ irq = "off" /\ hw # <<>>
  /\ pending' = Len(hw)
  /\ irq' = "drain"
  /\ UNCHANGED <<sent, hw, ringVars, popVars>>

\* One turn of the inner loop: a word goes from the FIFO to the ring.
IrqDrain ==
  /\ irq = "drain" /\ pending > 0
  /\ hw # <<>> /\ hw' = Tail(hw)
  /\ pending' = pending - 1
  /\ Push(Head(hw))
  /\ UNCHANGED <<sent, irq, popVars>>

\* STATUS is read again: go on while the FIFO is not empty.
IrqStatus ==
  /\ irq = "drain" /\ pending = 0
  /\ pending' = Len(hw)
  /\ irq' = (IF hw = <<>> THEN "off" ELSE "drain")
  /\ UNCHANGED <<sent, hw, ringVars, popVars>>

-----------------------------------------------------------------------------
(* mailbox_fifo_pop *)

\* event_wait
PopWait(t) ==
  /\ irq = "off" /\ pc[t] = "wait" /\ event
  /\ pc' = [pc EXCEPT ![t] = "take"]
  /\ UNCHANGED <<sent, irqVars, ringVars, delivered>>

\* BUG: the event stays signaled when the ring runs empty.
BugPopTakeSignaled(t) ==
  /\ irq = "off" /\ pc[t] = "take" /\ tail # head
  /\ delivered' = Append(delivered, buf[tail])
  /\ tail' = Modpow2(tail + 1)
  /\ pc' = [pc EXCEPT ![t] = "wait"]
  /\ UNCHANGED <<sent, irqVars, buf, head, event, lost>>

\* BUG: the event is turned off whatever is left.
BugPopTakeUnsignals(t) ==
  /\ irq = "off" /\ pc[t] = "take" /\ tail # head
  /\ delivered' = Append(delivered, buf[tail])
  /\ tail' = Modpow2(tail + 1)
  /\ event' = FALSE
  /\ pc' = [pc EXCEPT ![t] = "wait"]
  /\ UNCHANGED <<sent, irqVars, buf, head, lost>>

\* The oldest word is returned; when it was the last, the event is turned off.
PopTake(t) ==
  /\ irq = "off" /\ pc[t] = "take" /\ tail # head
  /\ delivered' = Append(delivered, buf[tail])
  /\ tail' = Modpow2(tail + 1)
  /\ event' = (event /\ tail' # head)
  /\ pc' = [pc EXCEPT ![t] = "wait"]
  /\ UNCHANGED <<sent, irqVars, buf, head, lost>>

\* Another thread was faster: goto retry.
PopRetry(t) ==
  /\ irq = "off" /\ pc[t] = "take" /\ tail = head
  /\ pc' = [pc EXCEPT ![t] = "wait"]
  /\ UNCHANGED <<sent, irqVars, ringVars, delivered>>

Irq == IrqEnter \/ IrqDrain \/ IrqStatus
Pop(t) == PopWait(t) \/ PopTake(t) \/ PopRetry(t)

Next == ArmWrite \/ Irq \/ \E t \in Popper : Pop(t)

Spec == Init /\ [][Next]_vars

\* The interrupt is served and the poppers are scheduled.
FairSpec == Spec /\ WF_vars(Irq) /\ \A t \in Popper : WF_vars(Pop(t))

-----------------------------------------------------------------------------
(* Properties *)

\* The event says exactly whether the ring holds a word: no popper sleeps
\* while there is one, and none spins while there is none.
EventMeansData == event <=> head # tail

\* The handler never reads more words than the FIFO holds, although it reads
\* the count once and the ARM goes on writing.
CountIsThere == irq = "drain" => pending <= Len(hw)

\* The words in the ring, oldest first.
Waiting == [i \in 1 .. Consumed |-> buf[Modpow2(tail + i - 1)]]

Fifo == INSTANCE AbstractFifo
          WITH Element <- Word, Capacity <- Size - 1,
               waiting <- Waiting, refused <- lost

\* The ring implements a FIFO that refuses a word only when Size - 1 words
\* are waiting, across the wrap of the indices.
ImplementsFifo == Fifo!Spec

\* The VPU catches up with the ARM: every word written is returned by a pop or
\* counted as an overflow, in the end.
AllAccounted ==
  Len(delivered) + lost < sent ~> Len(delivered) + lost = sent

\* The ARM's words reach the poppers in the order in which they were written, none
\* twice, and only those counted as an overflow are missing, while the ARM writes
\* during the handler and threads overtake each other in mailbox_fifo_pop.
Arrived == (delivered \o Waiting) \o hw

Increasing(s) == \A i, j \in DOMAIN s : i < j => s[i] < s[j]

NoneOvertaken ==
  /\ Increasing(Arrived)
  /\ \A i \in DOMAIN Arrived : Arrived[i] <= sent
  /\ Len(Arrived) + lost = sent
=============================================================================
