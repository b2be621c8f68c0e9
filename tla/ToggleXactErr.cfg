CONSTANTS
  InPipe = {bulkIn}
  OutPipe = {}
  Interrupt = {}
  Endpoint = {bulkIn, bulkOut, intrIn}
  Struct <- OwnStruct
  Mps = 2
  PacketLimit = 4
  Size <- UsualSizes
  Fault = {bulkIn}
  MaxTransfers = 3
  None = None
SPECIFICATION Spec
INVARIANTS NoToggleError
CHECK_DEADLOCK FALSE
