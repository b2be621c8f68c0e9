----------------------------- MODULE MCListFifo -----------------------------
(* Instances of ListFifo for TLC: the threads are model values of the cfg. *)
EXTENDS ListFifo
=============================================================================
