CONSTANTS
  b1 = b1
  b2 = b2
  b3 = b3
  Popper = {t1, t2}
  Size = 4
  HwDepth = 3
  MaxWords = 7
  None = None
  Buffer = {b1, b2, b3}
  MessageOf <- Schedule
  Messages <- Lists
  ReplyDepth = 2
SPECIFICATION FairServerSpec
INVARIANTS ServerTypeOK EventMeansData CountIsThere OneHolder
PROPERTIES ImplementsFifo AllAccounted AnswersOnce EveryRequestAnswered
CHECK_DEADLOCK FALSE
