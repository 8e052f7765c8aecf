\* The service may start during an operation, on_event may be late, Inhibit may fail.
CONSTANT MaxOperations = 4
SPECIFICATION FairSpec
INVARIANTS
  WaitsForOnEvent
  Rearmed
  LocksAccounted
PROPERTY ShutdownProceeds
