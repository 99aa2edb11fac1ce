SPECIFICATION PipeSpec
CONSTANTS Base = 4
 W32 = 2
 W64 = 3
 Threads = {"a", "b"}
 Plans <- MCPlans
 Room = 2
PROPERTIES ChannelSpec EndIsNoticed
CHECK_DEADLOCK FALSE
