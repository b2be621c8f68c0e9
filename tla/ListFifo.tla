------------------------------ MODULE ListFifo ------------------------------
(***************************************************************************)
(* lib/linked-list-fifo: a queue of list nodes between the threads that    *)
(* push (the network stack handing packets to lib/rpi-usb-nic) and those   *)
(* that pop (its transmit thread).  The list is changed under a spinlock   *)
(* with interrupts off, so each critical section is one step; between two  *)
(* steps of a thread the scheduler may run any other one.                  *)
(*                                                                         *)
(* External: the kernel's mutex and event (src/lk is a submodule).  The    *)
(* event stays signaled until event_unsignal.                              *)
(***************************************************************************)
EXTENDS Integers, Sequences

CONSTANTS
  Producer, Consumer,   \* threads
  MaxPush,              \* BOUND: pushes per producer
  None                  \* NULL, and no thread

ASSUME ListFifoAssumption ==
  /\ MaxPush \in Nat /\ None \notin Consumer /\ None \notin Producer \X (1 .. MaxPush)
  /\ Producer \cap Consumer = {}

Node == Producer \X (1 .. MaxPush)

VARIABLES
  fifo,       \* the list, oldest node first
  evt,        \* fifo_t.evt: is it signaled?
  pop_lock,   \* the consumer that holds the mutex, or None
  pushed,     \* number of nodes each producer has pushed
  pc,         \* where each thread is
  n,          \* the local n of each consumer in fifo_pop
  delivered,  \* history: the nodes fifo_pop returned
  panic       \* has assert(n) failed?

vars == <<fifo, evt, pop_lock, pushed, pc, n, delivered, panic>>

ProducerPc == {"ready", "signal"}
ConsumerPc == {"ready", "wait", "remove", "return"}

TypeOK ==
  /\ fifo \in Seq(Node)
  /\ evt \in BOOLEAN
  /\ pop_lock \in Consumer \cup {None}
  /\ pushed \in [Producer -> 0 .. MaxPush]
  /\ pc \in [Producer \cup Consumer -> ProducerPc \cup ConsumerPc]
  /\ \A p \in Producer : pc[p] \in ProducerPc
  /\ \A c \in Consumer : pc[c] \in ConsumerPc
  /\ n \in [Consumer -> Node \cup {None}]
  /\ delivered \in Seq(Node)
  /\ panic \in BOOLEAN

\* fifo_init
Init ==
  /\ fifo = <<>> /\ evt = FALSE /\ pop_lock = None
  /\ pushed = [p \in Producer |-> 0]
  /\ pc = [t \in Producer \cup Consumer |-> "ready"]
  /\ n = [c \in Consumer |-> None]
  /\ delivered = <<>> /\ panic = FALSE

-----------------------------------------------------------------------------
(* fifo_push *)

\* The node is added to the list: at its head, fifo_pop takes from its tail.
PushAdd(p) ==
  /\ ~panic /\ pc[p] = "ready" /\ pushed[p] < MaxPush
  /\ fifo' = Append(fifo, <<p, pushed[p] + 1>>)
  /\ pushed' = [pushed EXCEPT ![p] = @ + 1]
  /\ pc' = [pc EXCEPT ![p] = "signal"]
  /\ UNCHANGED <<evt, pop_lock, n, delivered, panic>>

\* The event is signaled after the lock was dropped.
PushSignal(p) ==
  /\ ~panic /\ pc[p] = "signal"
  /\ evt' = TRUE
  /\ pc' = [pc EXCEPT ![p] = "ready"]
  /\ UNCHANGED <<fifo, pop_lock, pushed, n, delivered, panic>>

-----------------------------------------------------------------------------
(* fifo_pop *)

PopLock(c) ==
  /\ ~panic /\ pc[c] = "ready" /\ pop_lock = None
  /\ pop_lock' = c
  /\ pc' = [pc EXCEPT ![c] = "wait"]
  /\ UNCHANGED <<fifo, evt, pushed, n, delivered, panic>>

PopWait(c) ==
  /\ ~panic /\ pc[c] = "wait" /\ evt
  /\ pc' = [pc EXCEPT ![c] = "remove"]
  /\ UNCHANGED <<fifo, evt, pop_lock, pushed, n, delivered, panic>>

\* BUG: the event is unsignaled whatever is left on the list.
BugPopRemoveUnsignals(c) ==
  /\ ~panic /\ pc[c] = "remove"
  /\ fifo # <<>>
  /\ fifo' = Tail(fifo) /\ n' = [n EXCEPT ![c] = Head(fifo)]
  /\ evt' = FALSE
  /\ pc' = [pc EXCEPT ![c] = "return"]
  /\ UNCHANGED <<pop_lock, pushed, delivered, panic>>

\* BUG: the node pushed last is taken.
BugPopRemoveNewest(c) ==
  /\ ~panic /\ pc[c] = "remove"
  /\ fifo # <<>>
  /\ n' = [n EXCEPT ![c] = fifo[Len(fifo)]]
  /\ fifo' = SubSeq(fifo, 1, Len(fifo) - 1)
  /\ evt' = (evt /\ fifo' # <<>>)
  /\ pc' = [pc EXCEPT ![c] = "return"]
  /\ UNCHANGED <<pop_lock, pushed, delivered, panic>>

\* The oldest node, or NULL; an empty list is unsignaled.
PopRemove(c) ==
  /\ ~panic /\ pc[c] = "remove"
  /\ \/ fifo # <<>> /\ fifo' = Tail(fifo) /\ n' = [n EXCEPT ![c] = Head(fifo)]
     \/ fifo = <<>> /\ fifo' = fifo       /\ n' = [n EXCEPT ![c] = None]
  /\ evt' = (evt /\ fifo' # <<>>)
  /\ pc' = [pc EXCEPT ![c] = "return"]
  /\ UNCHANGED <<pop_lock, pushed, delivered, panic>>

\* BUG: NULL is returned without the assertion.
BugPopReturnsNull(c) ==
  /\ ~panic /\ pc[c] = "return"
  /\ pop_lock' = None
  /\ delivered' = Append(delivered, n[c])
  /\ n' = [n EXCEPT ![c] = None]
  /\ pc' = [pc EXCEPT ![c] = "ready"]
  /\ UNCHANGED <<fifo, evt, pushed, panic>>

\* assert(n), then the mutex is released and the node returned.
PopReturn(c) ==
  /\ ~panic /\ pc[c] = "return"
  /\ n[c] # None
  /\ pop_lock' = None
  /\ delivered' = Append(delivered, n[c])
  /\ n' = [n EXCEPT ![c] = None]
  /\ pc' = [pc EXCEPT ![c] = "ready"]
  /\ UNCHANGED <<fifo, evt, pushed, panic>>

PopPanics(c) ==
  /\ ~panic /\ pc[c] = "return" /\ n[c] = None
  /\ panic' = TRUE
  /\ UNCHANGED <<fifo, evt, pop_lock, pushed, pc, n, delivered>>

Next ==
  \/ \E p \in Producer : PushAdd(p) \/ PushSignal(p)
  \/ \E c \in Consumer :
       PopLock(c) \/ PopWait(c) \/ PopRemove(c) \/ PopReturn(c) \/ PopPanics(c)

Spec == Init /\ [][Next]_vars

-----------------------------------------------------------------------------
(* Properties *)

\* A node is never left on the list with nobody told: if the event is off
\* while the list has nodes, some producer is about to signal it.
NoLostWakeup ==
  fifo # <<>> /\ ~evt => \E p \in Producer : pc[p] = "signal"

\* One consumer at a time is between the wait and the return: the second one
\* would take the node that the event announced to the first.
OneConsumer ==
  \A c, d \in Consumer : pc[c] # "ready" /\ pc[d] # "ready" => c = d

\* What the queue promises, see AbstractFifo: the nodes a consumer has taken
\* and not yet returned count as waiting.
Taken ==
  IF pop_lock \in Consumer /\ n[pop_lock] # None THEN <<n[pop_lock]>> ELSE <<>>

Fifo == INSTANCE AbstractFifo
          WITH Element <- Node, Capacity <- 0,
               waiting <- Taken \o fifo, refused <- 0

\* Every node is returned to a consumer, exactly once and in order, whatever
\* the interleaving of producers and consumers.
DeliversInOrder == Fifo!Spec

\* fifo_pop, assert(n): a consumer woken by the event finds a node.
WokenFindsNode == ~panic
=============================================================================
