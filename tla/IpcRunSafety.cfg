SPECIFICATION FairSpec
CONSTANTS
  Modes <- EveryMode
  Bands = 2
  Par = 2
  Faults <- EveryFault
  AnyThread = TRUE
  MaxRequests = 3
  MaxCancels = 2
PROPERTIES RunReturns OrphanExits StreamSpec
CHECK_DEADLOCK FALSE
INVARIANTS NothingLeftBehind OutcomeIsTrue
