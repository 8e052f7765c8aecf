CONSTANTS
  r1 = r1
  r2 = r2
  r3 = r3
  Requesters = {r1}
  MainThread = main_thread
  NoOwner = no_owner
SPECIFICATION StopSpec
INVARIANT NoUseAfterDispose
