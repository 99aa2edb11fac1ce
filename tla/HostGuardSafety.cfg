CONSTANTS
  Jobs <- SmallJobs
  InputSlots = 2
  OutputSlots = 2
  Wire <- SmallWire
SPECIFICATION Spec
INVARIANTS AccessStaysInSlot PaintStaysInImage HonestIsServed
CHECK_DEADLOCK FALSE
