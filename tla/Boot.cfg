CONSTANTS
  sd = sd
  usb0 = usb0
  net = net
  Sd = sd
  UsbPart = {usb0}
  UsbParts <- Usb
  Network = net
  Contents <- MCContents
  Room = 100
  Clients = {1, 2}
  Luns = {1, 2}
  Faults = {"memory"}
  MaxPlugs = 2
  MaxNetEvents = 1
  None = None
SPECIFICATION FairSpec
INVARIANTS TypeOK ImageComplete
PROPERTIES TriesInOrder OnlyBlockedTargetsFail BootsIfPossible
CHECK_DEADLOCK FALSE
