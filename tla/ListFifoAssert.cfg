CONSTANTS
  Producer = {p1}
  Consumer = {c1}
  MaxPush = 2
  None = None
SPECIFICATION Spec
INVARIANT WokenFindsNode
CHECK_DEADLOCK FALSE
