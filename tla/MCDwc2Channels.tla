--------------------------- MODULE MCDwc2Channels ---------------------------
(* Instances of Dwc2Channels for TLC: the endpoint descriptors of the devices. *)
EXTENDS Dwc2Channels, TLC

Control == [num |-> 0, type |-> "control",   dir |-> "both"]
IntrIn  == [num |-> 1, type |-> "interrupt", dir |-> "in"]
BulkIn  == [num |-> 1, type |-> "bulk",      dir |-> "in"]
BulkOut1 == [num |-> 1, type |-> "bulk",     dir |-> "out"]

\* A keyboard or a hub.
HidPipes   == {Control, IntrIn}
ControlOnly == {Control}
\* A device whose IN and OUT pipes have the same number.
SharedPipes == {BulkIn, BulkOut1}
=============================================================================
