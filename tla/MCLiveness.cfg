CONSTANTS
  RingCapacity = 2
  DrainCapacity = 1
  MaxRecords = 4
  MaxSessions = 2
  Sources = {s1}
  MaxCaptures = 1
  MaxIntervals = 1
  MaxAccepted = 1
  Ops = {a, b}
  SlotCount = 1
  ShardCount = 1
  OneRecord = 1
  Capacity <- MCCapacity
  NoSlot = NoSlot
  Owner = Owner
  Worker = Worker
  Nobody = Nobody
  MaxGeneration = 1
  MaxBegins = 2
SPECIFICATION MCSpec
INVARIANTS
  StartupRecordsKept
PROPERTIES
  FifoImplemented
  PublishedIsDrained
  EveryCallReturns
