SPECIFICATION CacheSpec
CONSTANTS
  c1 = c1
  c2 = c2
  w1 = w1
  Procs <- MCProcs
  Threads <- MCThreads
  Owner <- MCOwner
  PidsRecycle = TRUE
  MaxSaves = 2
  MaxKills = 1
  MaxFaults = 1
SYMMETRY Alike
INVARIANTS MappedIsOpened CacheStaysClean DecodedInTurn
CHECK_DEADLOCK FALSE
