SPECIFICATION Spec
CONSTANTS Sub = 8
 Margin = 1
 Pad = 1
 Taps = 1
 Tol = 2
 Jobs <- MCJobs
INVARIANTS ChannelsMayDiffer
CHECK_DEADLOCK FALSE
