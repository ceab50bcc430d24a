SPECIFICATION ServicesSpec
CONSTANTS
  MaxStreams = 2
  MaxEnables = 1
  MaxPending = 1
  MaxBad = 1
  Sessions = {s1}
  Queues = {events}
  QueueCap = 2
  BatchSize = 2
  MaxRecords = 3
  MaxLogFails = 2
  MaxSnapshots = 2
  Phones = {p1, p2}
  Guests = {g}
  NoSocket = NoSocket
  MaxMobileFails = 1
  MaxLogins = 4
  MaxAsks = 3
INVARIANTS
  StreamsOwned
  LogKept
  AccountsKept
PROPERTIES
  WorkingStreamKept
  PartitionsKept
  LogMovesOn
CHECK_DEADLOCK FALSE
