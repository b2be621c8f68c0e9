CONSTANTS
  ChannelCount = 2
  MaxObjects = 2
  Device = {d1}
  Pipe <- SharedPipes
  Fault = {}
  ReuseBusy = FALSE
  None = None
SPECIFICATION Spec
INVARIANT StartedOnOff
CHECK_DEADLOCK FALSE
