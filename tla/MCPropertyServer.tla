-------------------------- MODULE MCPropertyServer --------------------------
(* Instances of PropertyServer for TLC. *)
EXTENDS PropertyServer

CONSTANTS b1, b2, b3

\* Three messages, one of them used again, and words of another channel.
Schedule == <<b1, None, b2, None, b3, None, b1>>

\* A message that is answered, one in which the first tag is refused.
Lists == {<<"answered">>, <<"refused", "answered">>}
=============================================================================
