CONSTANTS
  stack = stack
  usb = usb
  txt = txt
  Producer = {stack, usb}
  Consumer = {txt}
  Tx = txt
  Usb = usb
  Garbage = Garbage
  MaxPush = 2
  None = None
SPECIFICATION NicFairSpec
INVARIANTS NicTypeOK NoLostWakeup SentInOrder OneReceiver
PROPERTIES DeliversInOrder AllSent
CHECK_DEADLOCK FALSE
