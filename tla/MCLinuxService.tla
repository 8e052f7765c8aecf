--------------------------- MODULE MCLinuxService ---------------------------
(* Callbacks succeed, or fail with 1 or 2 (two values, so that the first      *)
(* failure can be told from a later one).                                     *)
EXTENDS LinuxService, TLC

MCCodes == {0, 1, 2}
MCAllFaults == FaultPoints
=============================================================================
