---------------------------- MODULE MCDwc2Toggle ----------------------------
(* Instances of Dwc2Toggle for TLC: one pipe of each kind, packets of 2. *)
EXTENDS Dwc2Toggle

\* Every pipe has a structure of its own.
OwnStruct == [p \in Pipe |-> p]

\* OUT transfers that are not a multiple of 2, single interrupt packets.
UsualSizes ==
  [p \in Pipe |-> IF p \in OutPipe THEN {0, 1, 3, 5}
                  ELSE IF p \in Interrupt THEN {1, 2} ELSE 0 .. 5]
=============================================================================
