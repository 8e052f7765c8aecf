---------------------------- MODULE WindowsService ----------------------------
(***************************************************************************)
(* One run of the service under the Windows service control manager:       *)
(* service_main() on its own thread, service_ctrl_handler() on the         *)
(* dispatcher thread, and the SCM, which delivers one control at a time    *)
(* according to the last status it was given.  Both threads fill the same  *)
(* s_status field by field, without a lock, before SetServiceStatus().     *)
(***************************************************************************)
EXTENDS Integers

CONSTANTS
  Codes,              \* values a lifecycle callback may return
  Accepted,           \* the controls accepted_controls() declares
  MaxControls         \* bound: controls delivered

EventControls == {"POWEREVENT", "SESSIONCHANGE"}
StopControls == {"STOP", "SHUTDOWN"}

ASSUME CodesAssumption == Codes \subseteq Int /\ 0 \in Codes
ASSUME ControlsAssumption ==
  /\ StopControls \subseteq Accepted
  /\ Accepted \subseteq StopControls \cup EventControls \cup {"PRESHUTDOWN", "PARAMCHANGE"}
  /\ MaxControls \in Nat

VARIABLES
  mpc, rc,            \* service_main()
  hpc,                \* service_ctrl_handler()
  s_status,           \* the shared SERVICE_STATUS
  call,               \* the set_service_status() each thread is in
  stop_requested,
  scm,                \* the status the SCM has
  delivered,          \* controls delivered
  crossed             \* history: on_run failed by itself while the handler was at work or
                      \* before it could be kept from it, or INTERROGATE came

vars == <<mpc, rc, hpc, s_status, call, stop_requested, scm, delivered, crossed>>

Threads == {"main", "handler"}
States == <<"NONE", "START_PENDING", "RUNNING", "STOP_PENDING", "STOPPED">>
StateNames == {States[i] : i \in 1..5}
Statuses == [state : StateNames, accept : BOOLEAN, code : Codes]
Status(state, accept, code) == [state |-> state, accept |-> accept, code |-> code]

\* No call, or the status it writes and the field it is about to write.
NoCall == [step |-> "none", status |-> Status("NONE", FALSE, 0)]
Calls == [step : {"none", "state", "code", "publish"}, status : Statuses]

Init ==
  /\ mpc = "register" /\ rc = 0 /\ hpc = "idle"
  /\ s_status = Status("NONE", FALSE, 0) /\ scm = Status("NONE", FALSE, 0)
  /\ call = [t \in Threads |-> NoCall]
  /\ stop_requested = FALSE /\ delivered = 0 /\ crossed = FALSE

Free(t) == call[t].step = "none"
Begin(t, status) == call' = [call EXCEPT ![t] = [step |-> "state", status |-> status]]

-----------------------------------------------------------------------------
(* set_service_status() and set_service_stopped() *)

WriteState(t) ==
  /\ call[t].step = "state"
  /\ s_status' = [s_status EXCEPT !.state = call[t].status.state,
                                  !.accept = call[t].status.accept]
  /\ call' = [call EXCEPT ![t].step = "code"]
  /\ UNCHANGED <<mpc, rc, hpc, stop_requested, scm, delivered, crossed>>

\* Mutant: set_service_stopped() leaves NO_ERROR where set_service_status() does.
WriteNoError(t) ==
  /\ call[t].step = "code"
  /\ s_status' = [s_status EXCEPT !.code = 0]
  /\ call' = [call EXCEPT ![t].step = "publish"]
  /\ UNCHANGED <<mpc, rc, hpc, stop_requested, scm, delivered, crossed>>

WriteCode(t) ==
  /\ call[t].step = "code"
  /\ s_status' = [s_status EXCEPT !.code = call[t].status.code]
  /\ call' = [call EXCEPT ![t].step = "publish"]
  /\ UNCHANGED <<mpc, rc, hpc, stop_requested, scm, delivered, crossed>>

\* SetServiceStatus() reads s_status; after SERVICE_STOPPED the SCM listens no more.
Publish(t) ==
  /\ call[t].step = "publish"
  /\ scm' = IF scm.state = "STOPPED" THEN scm ELSE s_status
  /\ call' = [call EXCEPT ![t] = NoCall]
  /\ UNCHANGED <<mpc, rc, hpc, s_status, stop_requested, delivered, crossed>>

SetStatus(t) == WriteState(t) \/ WriteCode(t) \/ Publish(t)

-----------------------------------------------------------------------------
(* service_main() *)

MainAt(label) == mpc = label /\ Free("main")
HandlerAt(label) == hpc = label /\ Free("handler")

\* RegisterServiceCtrlHandlerEx fails: the SCM is never told anything.
RegisterHandler ==
  /\ MainAt("register")
  /\ \/ mpc' = "on_start" /\ Begin("main", Status("START_PENDING", FALSE, 0))
     \/ mpc' = "unregistered" /\ UNCHANGED call
  /\ UNCHANGED <<rc, hpc, s_status, stop_requested, scm, delivered, crossed>>

OnStart ==
  /\ MainAt("on_start")
  /\ \E c \in Codes :
       /\ rc' = c
       /\ IF c = 0
          THEN mpc' = "on_run" /\ Begin("main", Status("RUNNING", TRUE, 0))
          ELSE mpc' = "returned" /\ Begin("main", Status("STOPPED", FALSE, c))
  /\ UNCHANGED <<hpc, s_status, stop_requested, scm, delivered, crossed>>

OnRunReturns(c) ==
  /\ MainAt("on_run")
  /\ rc' = c /\ mpc' = "on_stop"
  /\ Begin("main", Status("STOP_PENDING", FALSE, 0))
  /\ UNCHANGED <<hpc, s_status, stop_requested, scm, delivered>>

OnRunTold == stop_requested /\ (\E c \in Codes : OnRunReturns(c)) /\ UNCHANGED crossed
OnRunFails ==
  /\ ~stop_requested /\ \E c \in Codes \ {0} : OnRunReturns(c)
  /\ crossed' = (crossed \/ ~HandlerAt("idle"))

\* Mutant: the value of on_stop replaces the failure of on_run.
OnStopOverwrites ==
  /\ MainAt("on_stop")
  /\ mpc' = "returned"
  /\ \E c \in Codes : rc' = c /\ Begin("main", Status("STOPPED", FALSE, c))
  /\ UNCHANGED <<hpc, s_status, stop_requested, scm, delivered, crossed>>

OnStop ==
  /\ MainAt("on_stop")
  /\ mpc' = "returned"
  /\ \E c \in Codes : rc' = IF rc # 0 THEN rc ELSE c
  /\ Begin("main", Status("STOPPED", FALSE, rc'))
  /\ UNCHANGED <<hpc, s_status, stop_requested, scm, delivered, crossed>>

-----------------------------------------------------------------------------
(* The SCM and service_ctrl_handler() *)

\* The SCM sends a control the last status accepts to an idle handler.
Deliver(control) ==
  /\ HandlerAt("idle") /\ scm.accept /\ control \in Accepted
  /\ delivered < MaxControls /\ delivered' = delivered + 1
  /\ hpc' = control
  /\ crossed' = (crossed \/ mpc # "on_run")
  /\ UNCHANGED <<mpc, rc, s_status, call, stop_requested, scm>>

\* The current s_status is published again, whoever is writing it.
Interrogate ==
  /\ HandlerAt("idle") /\ scm.state \notin {"NONE", "STOPPED"}
  /\ delivered < MaxControls /\ delivered' = delivered + 1
  /\ call' = [call EXCEPT !["handler"].step = "publish"] /\ crossed' = TRUE
  /\ UNCHANGED <<mpc, rc, hpc, s_status, stop_requested, scm>>

\* Mutant: the controls stay accepted while the stop is pending.
HandleStopKeepsControls ==
  /\ HandlerAt("STOP") \/ HandlerAt("SHUTDOWN") \/ HandlerAt("PRESHUTDOWN")
  /\ hpc' = "request_stop"
  /\ Begin("handler", Status("STOP_PENDING", TRUE, 0))
  /\ UNCHANGED <<mpc, rc, s_status, stop_requested, scm, delivered, crossed>>

\* Mutant: the stop is reported to the SCM but not requested.
HandleStopOnlyReports ==
  /\ HandlerAt("STOP") \/ HandlerAt("SHUTDOWN") \/ HandlerAt("PRESHUTDOWN")
  /\ hpc' = "idle"
  /\ Begin("handler", Status("STOP_PENDING", FALSE, 0))
  /\ UNCHANGED <<mpc, rc, s_status, stop_requested, scm, delivered, crossed>>

\* STOP and SHUTDOWN at once, PRESHUTDOWN after on_event has returned.
HandleStop ==
  /\ HandlerAt("STOP") \/ HandlerAt("SHUTDOWN") \/ HandlerAt("PRESHUTDOWN")
  /\ hpc' = "request_stop"
  /\ Begin("handler", Status("STOP_PENDING", FALSE, 0))
  /\ UNCHANGED <<mpc, rc, s_status, stop_requested, scm, delivered, crossed>>

RequestStop ==
  /\ HandlerAt("request_stop")
  /\ hpc' = "idle" /\ stop_requested' = TRUE
  /\ UNCHANGED <<mpc, rc, s_status, call, scm, delivered, crossed>>

\* on_event has returned from a power or session event.
HandleEvent ==
  /\ \E control \in EventControls : HandlerAt(control)
  /\ hpc' = "idle"
  /\ UNCHANGED <<mpc, rc, s_status, call, stop_requested, scm, delivered, crossed>>

\* svc_dispatch_reload(): on_reload has returned, svc_os_notify_ready() follows.
HandleReload ==
  /\ HandlerAt("PARAMCHANGE")
  /\ hpc' = "idle"
  /\ Begin("handler", Status("RUNNING", TRUE, 0))
  /\ UNCHANGED <<mpc, rc, s_status, stop_requested, scm, delivered, crossed>>

-----------------------------------------------------------------------------
Returned ==
  /\ mpc \in {"returned", "unregistered"} /\ \A t \in Threads : Free(t)
  /\ hpc = "idle"

\* Waiting for a control the bound no longer lets the SCM send, or finished.
Rest ==
  /\ Returned \/ delivered = MaxControls
  /\ UNCHANGED vars

MainStep == RegisterHandler \/ OnStart \/ OnRunTold \/ OnStop \/ SetStatus("main")
HandlerStep == HandleStop \/ RequestStop \/ HandleEvent \/ HandleReload \/ SetStatus("handler")

Next ==
  \/ MainStep \/ OnRunFails \/ HandlerStep
  \/ Interrogate \/ \E control \in Accepted : Deliver(control)
  \/ Rest

Spec == Init /\ [][Next]_vars
FairSpec == Spec /\ WF_vars(MainStep) /\ WF_vars(HandlerStep)

-----------------------------------------------------------------------------
(* Properties *)

\* Every variable has its type: what the SCM has is a status, not a mixture of
\* fields outside their ranges.
TypeOK ==
  /\ mpc \in {"register", "unregistered", "on_start", "on_run", "on_stop", "returned"}
  /\ rc \in Codes /\ stop_requested \in BOOLEAN /\ crossed \in BOOLEAN /\ delivered \in 0..MaxControls
  /\ hpc \in {"idle", "request_stop"} \cup Accepted
  /\ s_status \in Statuses /\ scm \in Statuses
  /\ call \in [Threads -> Calls]

lifecycle_phase ==
  CASE mpc \in {"register", "unregistered", "on_start"} -> "starting"
    [] mpc = "on_run" -> "running"
    [] mpc = "on_stop" -> "stopping"
    [] mpc = "returned" -> "stopped"

Lifecycle == INSTANCE ServiceLifecycle WITH phase <- lifecycle_phase, outcome <- rc

\* Under the SCM too the callbacks run as ServiceLifecycle promises.
ImplementsLifecycle == Lifecycle!Spec

\* The SCM learns of the end and of the failure: when both threads are done it has been
\* told SERVICE_STOPPED, with the value of the first callback that failed, although every
\* other report writes NO_ERROR into the same structure.  Their reports may cross only
\* when on_run fails by itself while a control is handled, or when INTERROGATE publishes
\* what is being written.
FailureReported ==
  ~crossed => /\ Returned /\ mpc = "returned" => scm.state = "STOPPED"
              /\ scm.state = "STOPPED" => mpc = "returned" /\ scm.code = rc

Rank(state) == CHOOSE i \in 1..5 : States[i] = state

\* The states the SCM sees follow the diagram of README.md: a report of the handler
\* thread never takes the service back to an earlier one.
NeverBack == [][~crossed => Rank(scm'.state) >= Rank(scm.state)]_scm

\* A stop control that was delivered leads to SERVICE_STOPPED.
StopServed ==
  hpc \in StopControls \cup {"PRESHUTDOWN"} ~> (scm.state = "STOPPED" \/ crossed)

\* docs/service-events.md:175 has SERVICE_STOPPED reported whenever on_run has returned.
StoppedAlwaysReported == Returned /\ mpc = "returned" => scm.state = "STOPPED"
=============================================================================
