\* on_run fails while the handler reports.
CONSTANTS
  Codes <- MCCodes
  Accepted <- MCReload
  MaxControls = 2
SPECIFICATION Spec
INVARIANT StoppedAlwaysReported
