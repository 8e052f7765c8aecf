-------------------------- MODULE ServiceLifecycle --------------------------
(***************************************************************************)
(* What service-sample promises about the three lifecycle callbacks,       *)
(* whatever the platform: on_start once; on_run once and only after        *)
(* on_start returned 0; on_stop once and always after on_run returned; and *)
(* the result of the service is the value of the first callback that       *)
(* failed.  svc_run_lifecycle() (Linux, console) and service_main()        *)
(* (Windows) are two implementations of it.                                *)
(***************************************************************************)
EXTENDS Integers

CONSTANT Codes          \* integers a callback may return; 0 is EXIT_SUCCESS

VARIABLES phase,        \* which callback is due or running
          outcome       \* value of the first callback that failed, else 0

vars == <<phase, outcome>>

Phases == {"starting", "running", "stopping", "stopped"}

TypeOK == phase \in Phases /\ outcome \in Codes

Init == phase = "starting" /\ outcome = 0

\* on_start returned c: 0 lets on_run run, anything else ends the service.
StartReturns(c) ==
  /\ phase = "starting"
  /\ phase' = IF c = 0 THEN "running" ELSE "stopped"
  /\ outcome' = c

\* on_run returned c: on_stop runs in either case.
RunReturns(c) ==
  /\ phase = "running"
  /\ phase' = "stopping"
  /\ outcome' = c

\* on_stop returned c: it counts only when on_run had succeeded.
StopReturns(c) ==
  /\ phase = "stopping"
  /\ phase' = "stopped"
  /\ outcome' = IF outcome # 0 THEN outcome ELSE c

Next == \E c \in Codes : StartReturns(c) \/ RunReturns(c) \/ StopReturns(c)

Spec == Init /\ [][Next]_vars
=============================================================================
