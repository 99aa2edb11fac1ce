SPECIFICATION FairSpec
CHECK_DEADLOCK FALSE
CONSTANTS
  Threads = {t1, t2}
  InputSlots = {1}
  OutputSlots = {1}
  MaxCalls = 2
  MaxCancels = 1
  MaxSpurious = 0
  PipeCap = 1
PROPERTIES EveryCallReturns
