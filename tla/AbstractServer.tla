--------------------------- MODULE AbstractServer ---------------------------
(***************************************************************************)
(* What app/mailbox-property-server promises the ARM: a request is         *)
(* answered once, with the response code that its tags call for, or it is  *)
(* lost and never answered.  Rings, threads and mailboxes are not seen     *)
(* from here.                                                              *)
(***************************************************************************)
EXTENDS Sequences

CONSTANTS
  Buffer,    \* the messages
  Messages   \* the lists of tags that may be asked for

VARIABLES
  status,    \* of each message: "free", "asked", its response code, or "lost"
  request    \* the tags of each message

vars == <<status, request>>

\* The response code of a list of tags.
Response(m) == IF "refused" \in {m[k] : k \in DOMAIN m} THEN "error" ELSE "success"

Init ==
  /\ status = [b \in Buffer |-> "free"]
  /\ request = [b \in Buffer |-> <<>>]

Ask(b) ==
  /\ status[b] = "free" /\ status' = [status EXCEPT ![b] = "asked"]
  /\ \E m \in Messages : request' = [request EXCEPT ![b] = m]

Answer(b) ==
  /\ status[b] = "asked"
  /\ status' = [status EXCEPT ![b] = Response(request[b])]
  /\ UNCHANGED request

Lose(b) ==
  /\ status[b] = "asked" /\ status' = [status EXCEPT ![b] = "lost"]
  /\ UNCHANGED request

Taken(b) ==
  /\ status[b] \in {"success", "error"} /\ status' = [status EXCEPT ![b] = "free"]
  /\ request' = [request EXCEPT ![b] = <<>>]

Next == \E b \in Buffer : Ask(b) \/ Answer(b) \/ Lose(b) \/ Taken(b)

Spec == Init /\ [][Next]_vars
=============================================================================
