---------------------------- MODULE AbstractFifo ----------------------------
(***************************************************************************)
(* What the firmware's queues between an interrupt handler or a thread and *)
(* the thread that serves it promise: elements are delivered once each, in *)
(* the order in which they were put, and an element is refused only when   *)
(* Capacity elements are waiting.  lib/linked-list-fifo has no capacity;   *)
(* platform/bcm28xx/mailbox/mailbox.c drops a word when its ring is full.  *)
(***************************************************************************)
EXTENDS Naturals, Sequences

CONSTANTS
  Element,
  Capacity    \* elements that may wait, 0 when there is no limit

VARIABLES
  waiting,    \* put and not yet delivered, oldest first
  delivered,  \* history: what the consumers were given
  refused     \* history: how many elements were turned away

vars == <<waiting, delivered, refused>>

Init == waiting = <<>> /\ delivered = <<>> /\ refused = 0

Put(x) ==
  /\ Capacity = 0 \/ Len(waiting) < Capacity
  /\ waiting' = Append(waiting, x)
  /\ UNCHANGED <<delivered, refused>>

Refuse ==
  /\ Capacity # 0 /\ Len(waiting) >= Capacity
  /\ refused' = refused + 1
  /\ UNCHANGED <<waiting, delivered>>

Deliver ==
  /\ waiting # <<>>
  /\ waiting' = Tail(waiting)
  /\ delivered' = Append(delivered, Head(waiting))
  /\ UNCHANGED refused

Next == (\E x \in Element : Put(x)) \/ Refuse \/ Deliver

Spec == Init /\ [][Next]_vars
=============================================================================
