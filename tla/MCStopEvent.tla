----------------------------- MODULE MCStopEvent -----------------------------
(* Three concurrent calls of svc_request_stop(): one of them can be the first *)
(* to set the flag, one blocked on the lock, one late.                        *)
EXTENDS StopEvent, TLC

CONSTANTS r1, r2, r3
MCRequesters == {r1, r2, r3}
=============================================================================
