SPECIFICATION Spec
CONSTANTS
  w1 = w1
  w2 = w2
  Threads <- MCThreads
  Scanner = w1
  Height = 7
  Channels = 3
  BandRows = 3
  Stages = {"scan", "reproject", "blend"}
  MaxFailures = 2
INVARIANTS ReadsAreTrue
PROPERTIES StageEnds
CHECK_DEADLOCK FALSE
