\* Every control, and an on_run that may fail by itself.
CONSTANTS
  Codes <- MCCodes
  Accepted <- MCAll
  MaxControls = 3
SPECIFICATION FairSpec
INVARIANT FailureReported
PROPERTIES
  ImplementsLifecycle
  NeverBack
  StopServed
