------------------------------ MODULE StopEvent ------------------------------
(***************************************************************************)
(* The stop abstraction of service-sample.c, one action per access to the  *)
(* lock, the condition variable or the flag: svc_request_stop() runs in    *)
(* the threads that deliver SIGTERM, SIGINT, a console control or an SCM   *)
(* control (Requesters, each one call), svc_wait_for_stop() in the loop of *)
(* on_run on the main thread, which also creates and disposes the two      *)
(* primitives in main().                                                   *)
(***************************************************************************)
EXTENDS Naturals

CONSTANTS Requesters,   \* one element per call of svc_request_stop()
          MainThread,   \* the thread that runs main() and on_run
          NoOwner       \* "the lock is free"

ASSUME ThreadsAssumption == MainThread \notin Requesters
                            /\ NoOwner \notin Requesters \cup {MainThread}

Threads == Requesters \cup {MainThread}

VARIABLES
  s_stop_requested,     \* the flag, 0 or 1
  s_stop_lock,          \* "null"; "live"; "dead": disposed, pointer not yet NULL
  s_stop_cv,            \* likewise
  owner,                \* who holds the lock
  pc,                   \* where each thread is
  verdict               \* history: how the loop of on_run ended, if it did

stop_vars == <<s_stop_requested, s_stop_lock, s_stop_cv, owner, pc, verdict>>

Primitive == {"null", "live", "dead"}
RequesterPc == {"idle", "lock", "set", "unlock", "broadcast", "done", "fault"}
StopMainPc == {"create_lock", "create_cv", "register", "on_start", "run",
               "wait_lock", "wait_test", "cv_wait", "sleep", "relock", "poll_lock", "wait_read",
               "dispose_cv", "null_cv", "dispose_lock", "null_lock", "exit"}

\* The callback is registered before on_start and is never unregistered.
Registered == pc[MainThread] \notin {"create_lock", "create_cv", "register"}

StopInit ==
  /\ s_stop_requested = 0
  /\ s_stop_lock = "null" /\ s_stop_cv = "null"
  /\ owner = NoOwner
  /\ pc = [t \in Threads |-> IF t = MainThread THEN "create_lock" ELSE "idle"]
  /\ verdict = "waiting"

Goto(t, from, to) == pc[t] = from /\ pc' = [pc EXCEPT ![t] = to]

-----------------------------------------------------------------------------
(* svc_request_stop(), in a thread of its own *)

\* if (s_stop_lock == NULL || s_stop_cv == NULL) return;
RequestCheck(r) ==
  /\ Registered
  /\ Goto(r, "idle", IF s_stop_lock = "null" \/ s_stop_cv = "null"
                     THEN "done" ELSE "lock")
  /\ UNCHANGED <<s_stop_requested, s_stop_lock, s_stop_cv, owner, verdict>>

\* Mutant: the flag is written without waiting for the lock.
RequestWithoutLock(r) ==
  /\ Goto(r, "lock", "set")
  /\ UNCHANGED <<s_stop_requested, s_stop_lock, s_stop_cv, owner, verdict>>

\* The lock is taken; a lock that main() has disposed meanwhile is a fault.
RequestLock(r) ==
  /\ \/ /\ s_stop_lock = "live" /\ owner = NoOwner
        /\ Goto(r, "lock", "set")
        /\ owner' = r
     \/ /\ s_stop_lock # "live"
        /\ Goto(r, "lock", "fault")
        /\ UNCHANGED owner
  /\ UNCHANGED <<s_stop_requested, s_stop_lock, s_stop_cv, verdict>>

RequestSet(r) ==
  /\ Goto(r, "set", "unlock")
  /\ s_stop_requested' = 1
  /\ UNCHANGED <<s_stop_lock, s_stop_cv, owner, verdict>>

RequestUnlock(r) ==
  /\ \/ /\ s_stop_lock = "live"
        /\ Goto(r, "unlock", "broadcast")
        /\ owner' = NoOwner
     \/ /\ s_stop_lock # "live"
        /\ Goto(r, "unlock", "fault")
        /\ UNCHANGED owner
  /\ UNCHANGED <<s_stop_requested, s_stop_lock, s_stop_cv, verdict>>

\* The broadcast comes after the unlock; it moves a sleeper on.
RequestBroadcast(r) ==
  /\ pc[r] = "broadcast"
  /\ pc' = [pc EXCEPT ![r] = IF s_stop_cv = "live" THEN "done" ELSE "fault",
                       ![MainThread] = IF @ = "sleep" THEN "relock" ELSE @]
  /\ UNCHANGED <<s_stop_requested, s_stop_lock, s_stop_cv, owner, verdict>>

svc_request_stop(r) ==
  \/ RequestCheck(r) \/ RequestLock(r) \/ RequestSet(r)
  \/ RequestUnlock(r) \/ RequestBroadcast(r)

-----------------------------------------------------------------------------
(* main(): creation and disposal of the primitives *)

CreateLock ==
  /\ \/ Goto(MainThread, "create_lock", "create_cv") /\ s_stop_lock' = "live"
     \/ Goto(MainThread, "create_lock", "exit") /\ UNCHANGED s_stop_lock
  /\ UNCHANGED <<s_stop_requested, s_stop_cv, owner, verdict>>

\* On failure the lock is disposed and its pointer cleared before main returns.
CreateCondvar ==
  /\ \/ Goto(MainThread, "create_cv", "register") /\ s_stop_cv' = "live"
        /\ UNCHANGED s_stop_lock
     \/ Goto(MainThread, "create_cv", "exit") /\ s_stop_lock' = "null"
        /\ UNCHANGED s_stop_cv
  /\ UNCHANGED <<s_stop_requested, owner, verdict>>

\* com_util_shutdown_request_register(), the first step of svc_run_lifecycle().
RegisterCallback ==
  /\ Goto(MainThread, "register", "on_start")
  /\ UNCHANGED <<s_stop_requested, s_stop_lock, s_stop_cv, owner, verdict>>

\* on_start succeeds and on_run begins, or it fails and on_run never waits.
StartReturns ==
  /\ \/ Goto(MainThread, "on_start", "run") /\ UNCHANGED verdict
     \/ Goto(MainThread, "on_start", "dispose_cv") /\ verdict' = "left"
  /\ UNCHANGED <<s_stop_requested, s_stop_lock, s_stop_cv, owner>>

\* on_run returns although no wait has told it to stop (it failed).
RunGivesUp ==
  /\ Goto(MainThread, "run", "dispose_cv")
  /\ verdict' = "left"
  /\ UNCHANGED <<s_stop_requested, s_stop_lock, s_stop_cv, owner>>

DisposePrimitives ==
  /\ \/ Goto(MainThread, "dispose_cv", "null_cv") /\ s_stop_cv' = "dead"
        /\ UNCHANGED s_stop_lock
     \/ Goto(MainThread, "null_cv", "dispose_lock") /\ s_stop_cv' = "null"
        /\ UNCHANGED s_stop_lock
     \/ Goto(MainThread, "dispose_lock", "null_lock") /\ s_stop_lock' = "dead"
        /\ UNCHANGED s_stop_cv
     \/ Goto(MainThread, "null_lock", "exit") /\ s_stop_lock' = "null"
        /\ UNCHANGED s_stop_cv
  /\ UNCHANGED <<s_stop_requested, owner, verdict>>

-----------------------------------------------------------------------------
(* svc_wait_for_stop(), called by on_run in a loop until it returns 1 *)

\* The NULL check passes: on_run only runs while both primitives are live.
WaitCall ==
  /\ Goto(MainThread, "run", "wait_lock")
  /\ UNCHANGED <<s_stop_requested, s_stop_lock, s_stop_cv, owner, verdict>>

\* svc_stop_requested(), the look at the flag without the sleep.
svc_stop_requested ==
  /\ Goto(MainThread, "run", "poll_lock")
  /\ UNCHANGED <<s_stop_requested, s_stop_lock, s_stop_cv, owner, verdict>>

WaitLock ==
  /\ owner = NoOwner
  /\ \/ Goto(MainThread, "wait_lock", "wait_test")
     \/ Goto(MainThread, "poll_lock", "wait_read")  \* of svc_stop_requested
     \/ Goto(MainThread, "relock", "wait_read")     \* inside com_util_condvar_wait
  /\ owner' = MainThread
  /\ UNCHANGED <<s_stop_requested, s_stop_lock, s_stop_cv, verdict>>

WaitTest ==
  /\ Goto(MainThread, "wait_test", IF s_stop_requested = 0 THEN "cv_wait" ELSE "wait_read")
  /\ UNCHANGED <<s_stop_requested, s_stop_lock, s_stop_cv, owner, verdict>>

\* com_util_condvar_wait() releases the lock and sleeps in one step.
CondvarWait ==
  /\ Goto(MainThread, "cv_wait", "sleep")
  /\ owner' = NoOwner
  /\ UNCHANGED <<s_stop_requested, s_stop_lock, s_stop_cv, verdict>>

\* The timeout, or a spurious wakeup.
WakeByTimeout ==
  /\ Goto(MainThread, "sleep", "relock")
  /\ UNCHANGED <<s_stop_requested, s_stop_lock, s_stop_cv, owner, verdict>>

\* Mutant: every wakeup counts as a stop request (no second look at the flag).
WaitReturnsOnWakeup ==
  /\ Goto(MainThread, "wait_read", "dispose_cv")
  /\ verdict' = "told"
  /\ owner' = NoOwner
  /\ UNCHANGED <<s_stop_requested, s_stop_lock, s_stop_cv>>

\* The flag is read again, the lock released, and 1 or 0 returned.
WaitReturn ==
  /\ \/ /\ s_stop_requested = 1
        /\ Goto(MainThread, "wait_read", "dispose_cv")
        /\ verdict' = "told"
     \/ /\ s_stop_requested = 0
        /\ Goto(MainThread, "wait_read", "run")
        /\ UNCHANGED verdict
  /\ owner' = NoOwner
  /\ UNCHANGED <<s_stop_requested, s_stop_lock, s_stop_cv>>

svc_wait_for_stop ==
  \/ WaitCall \/ WaitLock \/ WaitTest \/ CondvarWait \/ WaitReturn

main == CreateLock \/ CreateCondvar \/ RegisterCallback \/ StartReturns
        \/ DisposePrimitives

Exited == pc[MainThread] = "exit" /\ UNCHANGED stop_vars

StopNext ==
  \/ \E r \in Requesters : svc_request_stop(r)
  \/ svc_wait_for_stop
  \/ svc_stop_requested
  \/ WakeByTimeout
  \/ main
  \/ RunGivesUp
  \/ Exited

StopSpec == StopInit /\ [][StopNext]_stop_vars

(* Both threads keep running.  No fairness for WakeByTimeout: a stop must be *)
(* noticed because it is signalled, not because the wait times out.          *)
FairSpec ==
  /\ StopSpec
  /\ WF_stop_vars(svc_wait_for_stop)
  /\ WF_stop_vars(main)
  /\ \A r \in Requesters : WF_stop_vars(svc_request_stop(r))

-----------------------------------------------------------------------------
(* Properties *)

\* Every variable has its type; the flag stays 0 or 1 however many threads call
\* svc_request_stop(), and each thread is at a step of its own function.
StopTypeOK ==
  /\ s_stop_requested \in {0, 1}
  /\ s_stop_lock \in Primitive /\ s_stop_cv \in Primitive
  /\ owner \in Threads \cup {NoOwner}
  /\ pc \in [Threads -> StopMainPc \cup RequesterPc]
  /\ \A r \in Requesters : pc[r] \in RequesterPc
  /\ pc[MainThread] \in StopMainPc
  /\ verdict \in {"waiting", "told", "left"}

\* No lost wakeup: while main sleeps in the condition variable with the flag
\* already set, the thread that set it has its broadcast still before it
\* (svc_request_stop sets the flag under the lock and broadcasts afterwards;
\* svc_wait_for_stop tests it under the lock).
NoLostWakeup ==
  pc[MainThread] = "sleep" /\ s_stop_requested = 1
    => \E r \in Requesters : pc[r] \in {"unlock", "broadcast"}

\* The lock, the flag and the condition variable together do what the
\* abstract contract says: on_run is told to stop only after a request, and is
\* told once there is one, without the help of the timeout.
Contract == INSTANCE StopContract WITH requested <- s_stop_requested = 1,
                                       waiter <- verdict
ImplementsContract == Contract!Spec

\* service-sample.h says of svc_request_stop() that it is thread-safe: no call
\* of it reaches a lock or a condition variable that main() has disposed.
NoUseAfterDispose == \A r \in Requesters : pc[r] # "fault"
=============================================================================
