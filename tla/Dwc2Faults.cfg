CONSTANTS
  ChannelCount = 2
  MaxObjects = 3
  Device = {d1}
  Pipe <- HidPipes
  Fault = {"stall", "xacterr", "frmovrun"}
  ReuseBusy = FALSE
  None = None
SPECIFICATION FairSpec
INVARIANTS TypeOK ChannelsAccounted TransferTracked IdleIsQuiet ClaimBacked RetriedAsIn NoDoubleReturn NoAssertFails
PROPERTY TransferEnds
CHECK_DEADLOCK FALSE
