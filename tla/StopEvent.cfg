\* Three requests, no symmetry (a liveness property is checked).
CONSTANTS
  r1 = r1
  r2 = r2
  r3 = r3
  Requesters <- MCRequesters
  MainThread = main_thread
  NoOwner = no_owner
SPECIFICATION FairSpec
INVARIANTS
  NoLostWakeup
PROPERTY
  ImplementsContract
