SPECIFICATION Spec
CONSTANTS
  MaxStreams = 2
  MaxEnables = 2
  MaxPending = 1
  MaxBad = 1
CHECK_DEADLOCK FALSE
INVARIANT PacketFindsPipeline
