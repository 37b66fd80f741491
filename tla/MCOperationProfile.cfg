CONSTANTS
  Ops = {a, b}
  SlotCount = 2
  ShardCount = 1
  OneRecord = 1
  Capacity <- MCCapacity
  NoSlot = NoSlot
  Owner = Owner
  Worker = Worker
  Nobody = Nobody
  MaxGeneration = 2
  MaxBegins = 3
SPECIFICATION MCSpec
SYMMETRY Symmetric
VIEW LiveView
INVARIANTS
    CountsBelongToCapture
    RecycledSlotIsFree
    AdmissionsConserved
    RecordsAccountedFor
PROPERTIES
    SealedCaptureIsFrozen
