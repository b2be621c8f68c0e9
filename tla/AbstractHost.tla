---------------------------- MODULE AbstractHost ----------------------------
(***************************************************************************)
(* What a host driver promises the USB stack: a transfer requested of a    *)
(* pipe ends once, by itself, with a report to that pipe or with its       *)
(* device.  Channels, retries and interrupts are not seen from here.       *)
(***************************************************************************)
CONSTANTS Device, Pipe

VARIABLE outstanding  \* the pipes with a transfer not yet reported

Init == outstanding = {}

Request(q) == q \notin outstanding /\ outstanding' = outstanding \cup {q}

Report(q) == q \in outstanding /\ outstanding' = outstanding \ {q}

Disconnect(d) == outstanding' = outstanding \ ({d} \X Pipe)

Next ==
  \/ \E q \in Device \X Pipe : Request(q) \/ Report(q)
  \/ \E d \in Device : Disconnect(d)

Spec == Init /\ [][Next]_outstanding
=============================================================================
