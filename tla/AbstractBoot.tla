---------------------------- MODULE AbstractBoot ----------------------------
(***************************************************************************)
(* What the two boot loaders promise of the targets they find: each one is *)
(* tried once, in the order in which they were found, one at a time, and a *)
(* loader that waits for targets does not end while it waits: only an      *)
(* attempt ends it, by starting what was loaded or by failing, or a        *)
(* failure before it has begun, or the machine that halts under it.        *)
(* app/linux-bootloader/loader.c and app/vc4-stage1/stage1.c.              *)
(***************************************************************************)
EXTENDS Sequences

CONSTANTS Target, None

VARIABLES
  queue,   \* found and not yet tried, oldest first
  trying,  \* the target tried, or None
  phase    \* "starting", "serving", "over", or "halted" by something else

vars == <<queue, trying, phase>>

Init == queue = <<>> /\ trying = None /\ phase = "starting"

\* A loader begins to serve with a target it has found itself.
Find(t) ==
  /\ phase \in {"starting", "serving"}
  /\ queue' = Append(queue, t)
  /\ phase' \in {phase, "serving"}
  /\ UNCHANGED trying

Try ==
  /\ phase = "serving" /\ trying = None /\ queue # <<>>
  /\ trying' = Head(queue) /\ queue' = Tail(queue)
  /\ UNCHANGED phase

GiveUp ==
  /\ phase = "serving" /\ trying # None
  /\ trying' = None
  /\ UNCHANGED <<queue, phase>>

End ==
  /\ phase = "starting" \/ (phase = "serving" /\ trying # None)
  /\ phase' = "over"
  /\ UNCHANGED <<queue, trying>>

\* An assertion of a thread that is not the loader's fails.
Halt ==
  /\ phase \in {"starting", "serving"}
  /\ phase' = "halted" /\ trying' = None
  /\ UNCHANGED queue

Next == (\E t \in Target : Find(t)) \/ Try \/ GiveUp \/ End \/ Halt

Spec == Init /\ [][Next]_vars
=============================================================================
