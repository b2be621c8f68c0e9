CONSTANTS
  InPipe = {bulkIn, flakyIn, intrIn}
  OutPipe = {bulkOut}
  Interrupt = {intrIn}
  Endpoint = {bulkIn, flakyIn, bulkOut, intrIn}
  Struct <- OwnStruct
  Mps = 2
  PacketLimit = 4
  Size <- UsualSizes
  Fault = {flakyIn}
  MaxTransfers = 3
  None = None
SPECIFICATION Spec
INVARIANTS TypeOK TogglesAgree ReportIsExact
CHECK_DEADLOCK FALSE
