SPECIFICATION Spec
CONSTANTS
  Threads = {t1, t2}
  InputSlots = {1, 2}
  OutputSlots = {1}
  MaxCalls = 2
  MaxCancels = 1
  MaxSpurious = 1
  PipeCap = 2
INVARIANTS SlotsAccounted OneRequestPerSlot PixelsIntact
PROPERTIES ServiceSpec
