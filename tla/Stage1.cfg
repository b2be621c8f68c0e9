CONSTANTS
  sd1 = sd1
  spi1 = spi1
  usb0 = usb0
  net = net
  Blocks = 3
  BlockWords = 1
  FifoDepth = 1
  Retries = 2
  Junk = Junk
  Sd = sd1
  Spi = spi1
  UsbPart = {usb0}
  UsbParts <- Usb
  Network = net
  Setups <- MCSetups
  Heap = 1
  Clients = 1
  Luns = {1, 2}
  MaxPlugs = 1
  MaxLeases = 2
  None = None
SPECIFICATION FairSpec
INVARIANTS StageTypeOK ReadIsExact StartsWhole
PROPERTIES OnlyFaultsStopGoodDisks TargetsTried
CHECK_DEADLOCK FALSE
