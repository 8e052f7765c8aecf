\* Any set-up call may fail, the join may time out, SIGHUP comes from anybody.
CONSTANTS
  Codes <- MCCodes
  HasEvent = TRUE
  HasReload = TRUE
  Faults <- MCAllFaults
  JoinTimesOut = TRUE
  HupAnytime = TRUE
  MaxHups = 2
  MaxEvents = 1
SPECIFICATION MainFairSpec
INVARIANTS
  HupNotLost
  ReloadAnnounced
  ReloadNeverKills
  SafeUnlessDetached
  NothingLeaks
PROPERTIES
  ImplementsLifecycle
  ReloadServed
  StopLeadsToExit
