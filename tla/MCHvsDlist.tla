----------------------------- MODULE MCHvsDlist -----------------------------
(* Instances of HvsDlist for TLC: two channels, an application and a shell. *)
EXTENDS HvsDlist

CONSTANTS c0, c1, app, shell

\* The lists of channel 1 are updated by both threads, channel 0 by none.
OneChannel == [t \in Thread |-> {c1}]

\* Each thread has a channel of its own.
OwnChannel == [t \in Thread |-> IF t = app THEN {c0} ELSE {c1}]
=============================================================================
