-------------------------- MODULE AbstractDisplay --------------------------
(***************************************************************************)
(* What hvs.h promises of a channel: hvs_update_dlist "schedules a         *)
(* pageflip at the next vsync, based on the current state of the layers    *)
(* list", and of several calls in a frame "only the last state will be     *)
(* applied".  A picture is the words the HVS scans and the update they are *)
(* of.  It is all of one update, nothing of it changes while it is shown   *)
(* or waits for the vsync, and no older one is shown behind it.            *)
(***************************************************************************)
EXTENDS Naturals

VARIABLES
  latest,  \* the picture of the last update
  shown    \* the picture that is scanned

displayVars == <<latest, shown>>

OfOneUpdate(p) == \A i \in DOMAIN p.words : p.words[i] = p.update

DisplayInit == OfOneUpdate(latest) /\ shown = latest

\* hvs_update_dlist as its caller sees it
Compose ==
  /\ latest'.update > latest.update /\ OfOneUpdate(latest')
  /\ UNCHANGED shown

\* The vsync
Flip == shown' = latest /\ UNCHANGED latest

Spec == DisplayInit /\ [][Compose \/ Flip]_displayVars
=============================================================================
