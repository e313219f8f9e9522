SPECIFICATION PoolFair
CONSTANTS
  Runs = {a, b}
  Slots = {s}
  Operators = {k1, k2}
  None = None
  MaxActive = 2
  MaxSlots = 1
  Files = 2
  MaxEpoch = 2
  MaxFaults = 1
INVARIANTS
  CountersMatchAllocations
  VolumeExclusive
  ContentKept
PROPERTIES
  SlotReturned
CHECK_DEADLOCK FALSE
