CONSTANTS
  c0 = c0
  c1 = c1
  app = app
  shell = shell
  Channel = {c0, c1}
  Thread = {app, shell}
  MayUpdate <- OneChannel
  Slots = 12
  WrapAt = 7
  FirstSlot = 2
  KernelAt = 10
  KernelEnd = 10
  Lens = {2, 3, 6}
  MaxUpdates = 5
  KernelWord = KernelWord
  None = None
SPECIFICATION Spec
INVARIANTS TypeOK ScannedIntact KernelIntact
PROPERTY NeverOlder
