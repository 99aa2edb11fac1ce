SPECIFICATION Spec
CONSTANTS
  MaxRuns = 2
  MaxPanels = 2
INVARIANTS SessionIsLast FirstRunIsAllOrNothing QuietBlendIsPure
