CONSTANTS
  ChannelCount = 2
  MaxObjects = 3
  Device = {d1}
  Pipe <- ControlOnly
  Fault = {"stall"}
  ReuseBusy = TRUE
  None = None
SPECIFICATION Spec
INVARIANT IdleChannelFound
CHECK_DEADLOCK FALSE
