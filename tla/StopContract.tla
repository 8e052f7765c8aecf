---------------------------- MODULE StopContract ----------------------------
(***************************************************************************)
(* What the stop abstraction promises to on_run: svc_wait_for_stop() says  *)
(* "stop" only when a stop was requested, a request is never withdrawn,    *)
(* and once one was made the waiting loop is told, unless on_run has left  *)
(* the loop on its own account.                                            *)
(***************************************************************************)
VARIABLES requested,    \* a stop was requested
          waiter        \* the loop of on_run: "waiting", "told" or "left"

vars == <<requested, waiter>>

TypeOK == requested \in BOOLEAN /\ waiter \in {"waiting", "told", "left"}

Init == requested = FALSE /\ waiter = "waiting"

Request == requested' = TRUE /\ UNCHANGED waiter

Tell == /\ requested
        /\ waiter = "waiting"
        /\ waiter' = "told"
        /\ UNCHANGED requested

Leave == /\ waiter = "waiting"
         /\ waiter' = "left"
         /\ UNCHANGED requested

Next == Request \/ Tell \/ Leave

Spec == Init /\ [][Next]_vars /\ WF_vars(Tell)
=============================================================================
