------------------------ MODULE WindowsService_proofs -------------------------
(***************************************************************************)
(* Proofs about WindowsService, for every set of codes and controls and    *)
(* any number of them: types, what the SCM learns while the reports of the *)
(* two threads do not cross, and the lifecycle.                            *)
(***************************************************************************)
EXTENDS WindowsService, TLAPS

Busy(t) == call[t].step # "none"
HandlerBusy == hpc # "idle" \/ Busy("handler")

\* The handler works only while on_run does and main reports nothing, so that one thread
\* at most fills s_status; once the stop is reported nothing more is delivered.
TakeTurns ==
  /\ HandlerBusy => mpc = "on_run" /\ ~Busy("main")
  /\ stop_requested \/ (hpc = "request_stop" /\ ~Busy("handler")) => ~scm.accept
  /\ stop_requested => ~HandlerBusy /\ mpc \notin {"register", "unregistered", "on_start"}
  /\ mpc = "on_run" /\ Busy("main") => ~scm.accept /\ ~stop_requested

\* The status each thread reports at each place, and what s_status holds of it.
Due(t) ==
  IF t = "handler" THEN IF hpc = "request_stop" THEN "STOP_PENDING" ELSE "RUNNING"
  ELSE CASE mpc = "on_start" -> "START_PENDING"
         [] mpc = "on_run" -> "RUNNING"
         [] mpc = "on_stop" -> "STOP_PENDING"
         [] mpc = "returned" -> "STOPPED"
         [] OTHER -> "NONE"
Reported ==
  \A t \in Threads : Busy(t) =>
    /\ call[t].status.state = Due(t)
    /\ call[t].status.accept <=> call[t].status.state = "RUNNING"
    /\ call[t].status.state = "STOPPED" => call[t].status.code = rc
    /\ call[t].step # "state" => /\ s_status.state = call[t].status.state
                                 /\ s_status.accept <=> call[t].status.accept
    /\ call[t].step = "publish" => s_status.code = call[t].status.code

\* The state the SCM has at each step of service_main().
Known ==
  /\ mpc \in {"register", "unregistered"} => scm.state = "NONE" /\ ~scm.accept /\ ~Busy("main")
  /\ mpc = "on_start" => /\ ~scm.accept
                         /\ scm.state = IF Busy("main") THEN "NONE" ELSE "START_PENDING"
  /\ mpc = "on_run" /\ Busy("main") => scm.state = "START_PENDING"
  /\ mpc = "on_run" /\ ~Busy("main") =>
       \/ scm.state = "RUNNING"
       \/ scm.state = "STOP_PENDING" /\ ~scm.accept /\ ~Busy("handler")
            /\ (hpc = "request_stop" \/ stop_requested)
  /\ mpc = "on_stop" => scm.state \in {"RUNNING", "STOP_PENDING"}
  /\ mpc = "on_stop" /\ ~Busy("main") => scm.state = "STOP_PENDING"
  /\ mpc = "returned" /\ Busy("main") => scm.state \in {"START_PENDING", "STOP_PENDING"}
  /\ mpc = "returned" /\ ~Busy("main") => scm.state = "STOPPED" /\ scm.code = rc

InTurn == TakeTurns /\ Reported /\ Known
IInv == TypeOK /\ (~crossed => InTurn)

-----------------------------------------------------------------------------
\* The states by name.
LEMMA Named == StateNames = {"NONE", "START_PENDING", "RUNNING", "STOP_PENDING", "STOPPED"}
<1>1. /\ States[1] = "NONE" /\ States[2] = "START_PENDING" /\ States[3] = "RUNNING"
      /\ States[4] = "STOP_PENDING" /\ States[5] = "STOPPED"
  BY DEF States
<1>2. 1..5 = {1, 2, 3, 4, 5}  OBVIOUS
<1>3. StateNames = {States[1], States[2], States[3], States[4], States[5]}
  BY <1>2 DEF StateNames
<1> QED  BY <1>1, <1>3

LEMMA InitInv == Init => IInv
<1> SUFFICES ASSUME Init PROVE IInv
  OBVIOUS
<1> USE CodesAssumption, ControlsAssumption DEF Init, NoCall, Status, Threads
<1>1. TypeOK
  <2>1. Status("NONE", FALSE, 0) \in Statuses
    BY Named DEF Statuses
  <2>2. call \in [Threads -> Calls]  BY <2>1 DEF Calls
  <2>3. s_status \in Statuses /\ scm \in Statuses  BY <2>1
  <2>4. delivered \in 0..MaxControls /\ rc \in Codes  OBVIOUS
  <2>5. stop_requested \in BOOLEAN /\ crossed \in BOOLEAN  OBVIOUS
  <2> QED  BY <2>2, <2>3, <2>4, <2>5, Zenon DEF TypeOK
<1>2. TakeTurns  BY DEF TakeTurns, HandlerBusy, Busy
<1>3. Reported  BY DEF Reported, Busy
<1>4. Known  BY DEF Known, Busy
<1> QED  BY <1>1, <1>2, <1>3, <1>4 DEF IInv, InTurn

\* The statuses a report may carry.
LEMMA Statused ==
  ASSUME NEW state \in StateNames, NEW accept \in BOOLEAN, NEW code \in Codes
  PROVE  Status(state, accept, code) \in Statuses
BY DEF Status, Statuses

LEMMA Began ==
  ASSUME TypeOK, NEW t \in Threads, NEW status \in Statuses, Begin(t, status)
  PROVE  /\ call' \in [Threads -> Calls]
         /\ call'[t] = [step |-> "state", status |-> status]
         /\ \A u \in Threads \ {t} : call'[u] = call[u]
<1>1. [step |-> "state", status |-> status] \in Calls  BY DEF Calls
<1> QED  BY <1>1 DEF Begin, TypeOK

-----------------------------------------------------------------------------
(* One lemma per action *)

LEMMA RegisterStep == ASSUME IInv, RegisterHandler PROVE IInv'
<1>1. /\ mpc = "register" /\ ~Busy("main")
      /\ UNCHANGED <<rc, hpc, s_status, stop_requested, scm, delivered, crossed>>
  BY DEF RegisterHandler, MainAt, Free, Busy
<1>2. CASE mpc' = "on_start" /\ Begin("main", Status("START_PENDING", FALSE, 0))
  <2>1. /\ call' \in [Threads -> Calls]
        /\ call'["main"] = [step |-> "state", status |-> Status("START_PENDING", FALSE, 0)]
        /\ call'["handler"] = call["handler"]
    BY <1>2, Began, Named, Statused, CodesAssumption DEF IInv, Threads
  <2>2. TypeOK'  BY <1>1, <1>2, <2>1 DEF IInv, TypeOK
  <2>3. ASSUME ~crossed PROVE TakeTurns' /\ Reported' /\ Known'
    BY <1>1, <1>2, <2>1, <2>3
    DEF IInv, InTurn, TakeTurns, Reported, Known, HandlerBusy, Busy, Due, Threads, Status
  <2> QED  BY <1>1, <2>2, <2>3 DEF IInv, InTurn
<1>3. CASE mpc' = "unregistered" /\ UNCHANGED call
  <2>1. TypeOK'  BY <1>1, <1>3 DEF IInv, TypeOK
  <2>2. ASSUME ~crossed PROVE TakeTurns' /\ Reported' /\ Known'
    BY <1>1, <1>3, <2>2
    DEF IInv, InTurn, TakeTurns, Reported, Known, HandlerBusy, Busy, Due, Threads
  <2> QED  BY <1>1, <2>1, <2>2 DEF IInv, InTurn
<1> QED  BY <1>2, <1>3 DEF RegisterHandler

LEMMA OnStartStep == ASSUME IInv, OnStart PROVE IInv'
<1>1. PICK c \in Codes :
        /\ rc' = c
        /\ IF c = 0 THEN mpc' = "on_run" /\ Begin("main", Status("RUNNING", TRUE, 0))
           ELSE mpc' = "returned" /\ Begin("main", Status("STOPPED", FALSE, c))
  BY DEF OnStart
<1>2. /\ mpc = "on_start" /\ ~Busy("main")
      /\ UNCHANGED <<hpc, s_status, stop_requested, scm, delivered, crossed>>
  BY DEF OnStart, MainAt, Free, Busy
<1> DEFINE st == IF c = 0 THEN Status("RUNNING", TRUE, 0) ELSE Status("STOPPED", FALSE, c)
<1>3. st \in Statuses  BY Statused, CodesAssumption, Named
<1>4. /\ call' \in [Threads -> Calls] /\ call'["main"] = [step |-> "state", status |-> st]
      /\ call'["handler"] = call["handler"]
  BY <1>1, <1>3, Began DEF IInv, Threads
<1>5. TypeOK'  BY <1>1, <1>2, <1>4 DEF IInv, TypeOK
<1>6. ASSUME ~crossed PROVE TakeTurns' /\ Reported' /\ Known'
  BY <1>1, <1>2, <1>4, <1>6
  DEF IInv, InTurn, TakeTurns, Reported, Known, HandlerBusy, Busy, Due, Threads, Status
<1> QED  BY <1>2, <1>5, <1>6 DEF IInv, InTurn

LEMMA OnRunStep == ASSUME IInv, OnRunTold \/ OnRunFails PROVE IInv'
<1>1. PICK c \in Codes : /\ rc' = c /\ mpc' = "on_stop"
                          /\ Begin("main", Status("STOP_PENDING", FALSE, 0))
  BY DEF OnRunTold, OnRunFails, OnRunReturns
<1>2. /\ mpc = "on_run" /\ ~Busy("main")
      /\ UNCHANGED <<hpc, s_status, stop_requested, scm, delivered>>
  BY DEF OnRunTold, OnRunFails, OnRunReturns, MainAt, Free, Busy
<1>3. /\ call' \in [Threads -> Calls]
      /\ call'["main"] = [step |-> "state", status |-> Status("STOP_PENDING", FALSE, 0)]
      /\ call'["handler"] = call["handler"]
  BY <1>1, Began, Named, Statused, CodesAssumption DEF IInv, Threads
<1>4. ~crossed' => ~crossed /\ (stop_requested \/ ~HandlerBusy)
  BY Zenon DEF OnRunTold, OnRunFails, HandlerAt, Free, HandlerBusy, Busy
<1>5. crossed' \in BOOLEAN  BY Zenon DEF OnRunTold, OnRunFails, IInv, TypeOK
<1>6. TypeOK'  BY <1>1, <1>2, <1>3, <1>5 DEF IInv, TypeOK
<1>7. ASSUME ~crossed' PROVE TakeTurns' /\ Reported' /\ Known'
  BY <1>1, <1>2, <1>3, <1>4, <1>7
  DEF IInv, InTurn, TakeTurns, Reported, Known, HandlerBusy, Busy, Due, Threads, Status
<1> QED  BY <1>6, <1>7 DEF IInv, InTurn

LEMMA OnStopStep == ASSUME IInv, OnStop PROVE IInv'
<1>1. /\ mpc = "on_stop" /\ ~Busy("main") /\ mpc' = "returned"
      /\ Begin("main", Status("STOPPED", FALSE, rc'))
      /\ UNCHANGED <<hpc, s_status, stop_requested, scm, delivered, crossed>>
  BY DEF OnStop, MainAt, Free, Busy
<1>2. rc' \in Codes  BY DEF OnStop, IInv, TypeOK
<1>3. /\ call' \in [Threads -> Calls]
      /\ call'["main"] = [step |-> "state", status |-> Status("STOPPED", FALSE, rc')]
      /\ call'["handler"] = call["handler"]
  BY <1>1, <1>2, Began, Named, Statused DEF IInv, Threads
<1>4. TypeOK'  BY <1>1, <1>2, <1>3 DEF IInv, TypeOK
<1>5. ASSUME ~crossed PROVE TakeTurns' /\ Reported' /\ Known'
  BY <1>1, <1>3, <1>5
  DEF IInv, InTurn, TakeTurns, Reported, Known, HandlerBusy, Busy, Due, Threads, Status
<1> QED  BY <1>1, <1>4, <1>5 DEF IInv, InTurn

\* A report under way: one field, the other fields, then the call.  While the reports do
\* not cross, the other thread is in none.
LEMMA WriteStep == ASSUME IInv, NEW t \in Threads, WriteState(t) \/ WriteCode(t) PROVE IInv'
<1>1. UNCHANGED <<mpc, rc, hpc, stop_requested, scm, delivered, crossed>>
  BY DEF WriteState, WriteCode
<1>2. call[t] \in Calls /\ call \in [Threads -> Calls] /\ s_status \in Statuses
  BY DEF IInv, TypeOK
<1>3. /\ call' \in [Threads -> Calls] /\ call'[t].status = call[t].status
      /\ Busy(t) /\ Busy(t)'
      /\ \A u \in Threads \ {t} : call'[u] = call[u]
  BY <1>2 DEF WriteState, WriteCode, Calls, Busy
<1>4. s_status' \in Statuses
  BY <1>2 DEF WriteState, WriteCode, Calls, Statuses
<1>5. TypeOK'  BY <1>1, <1>3, <1>4 DEF IInv, TypeOK
<1>6. ASSUME ~crossed PROVE TakeTurns' /\ Known'
  BY <1>1, <1>3, <1>6 DEF IInv, InTurn, TakeTurns, Known, HandlerBusy, Busy, Threads
<1>7. ASSUME ~crossed PROVE Reported'
  <2>1. \A u \in Threads \ {t} : ~Busy(u)'
    BY <1>1, <1>3, <1>7 DEF IInv, InTurn, TakeTurns, HandlerBusy, Busy, Threads
  <2>2. /\ call[t].status.state = Due(t)
        /\ call[t].status.accept <=> call[t].status.state = "RUNNING"
        /\ call[t].status.state = "STOPPED" => call[t].status.code = rc
        /\ call[t].step # "state" => /\ s_status.state = call[t].status.state
                                     /\ s_status.accept <=> call[t].status.accept
    BY <1>3, <1>7 DEF IInv, InTurn, Reported
  <2>3. /\ s_status'.state = call[t].status.state /\ (s_status'.accept <=> call[t].status.accept)
        /\ call'[t].step = "publish" => s_status'.code = call[t].status.code
    <3>1. CASE WriteState(t)
      <4>1. /\ s_status' = [s_status EXCEPT !.state = call[t].status.state,
                                           !.accept = call[t].status.accept]
            /\ call' = [call EXCEPT ![t].step = "code"]
        BY <3>1 DEF WriteState
      <4> QED  BY <1>2, <4>1 DEF Calls, Statuses
    <3>2. CASE WriteCode(t)
      <4>1. /\ call[t].step = "code"
            /\ s_status' = [s_status EXCEPT !.code = call[t].status.code]
        BY <3>2 DEF WriteCode
      <4> QED  BY <1>2, <2>2, <4>1 DEF Calls, Statuses
    <3> QED  BY <3>1, <3>2
  <2> QED  BY <1>1, <1>3, <2>1, <2>2, <2>3 DEF Reported, Due
<1> QED  BY <1>1, <1>5, <1>6, <1>7 DEF IInv, InTurn

\* What a report that crosses no other publishes.
LEMMA Published ==
  ASSUME IInv, ~crossed, NEW t \in Threads, Publish(t)
  PROVE  /\ scm' = s_status /\ scm.state # "STOPPED" /\ s_status.state = Due(t)
         /\ s_status.accept <=> s_status.state = "RUNNING"
         /\ s_status.state = "STOPPED" => s_status.code = rc
         /\ Busy(t) /\ ~Busy(t)' /\ \A u \in Threads \ {t} : ~Busy(u) /\ ~Busy(u)'
<1>1. call[t].step = "publish" /\ call' = [call EXCEPT ![t] = NoCall] /\ call \in [Threads -> Calls]
  BY DEF Publish, IInv, TypeOK
<1>2. Busy(t) /\ ~Busy(t)' /\ \A u \in Threads \ {t} : call'[u] = call[u]
  BY <1>1 DEF Busy, NoCall
<1>3. \A u \in Threads \ {t} : ~Busy(u)
  BY <1>2 DEF IInv, InTurn, TakeTurns, HandlerBusy, Threads
<1>4. scm.state # "STOPPED"
  BY <1>2 DEF IInv, TypeOK, InTurn, TakeTurns, HandlerBusy, Known, Threads
<1> QED
  BY <1>1, <1>2, <1>3, <1>4 DEF Publish, Busy, IInv, InTurn, Reported

LEMMA PublishStep == ASSUME IInv, NEW t \in Threads, Publish(t) PROVE IInv'
<1>1. UNCHANGED <<mpc, rc, hpc, s_status, stop_requested, delivered, crossed>>
  BY DEF Publish
<1>2. TypeOK'
  <2>1. NoCall \in Calls  BY Named, CodesAssumption DEF NoCall, Calls, Status, Statuses
  <2>2. call' \in [Threads -> Calls]  BY <2>1 DEF Publish, IInv, TypeOK
  <2>3. scm' \in Statuses  BY DEF Publish, IInv, TypeOK
  <2> QED  BY <1>1, <2>2, <2>3 DEF IInv, TypeOK
<1>3. ASSUME ~crossed PROVE InTurn'
  <2>1. /\ scm' = s_status /\ s_status.state = Due(t)
        /\ s_status.accept <=> s_status.state = "RUNNING"
        /\ s_status.state = "STOPPED" => s_status.code = rc
        /\ Busy(t) /\ ~Busy(t)' /\ \A u \in Threads \ {t} : ~Busy(u) /\ ~Busy(u)'
    BY <1>3, Published
  <2>2. CASE t = "main"
    BY <1>1, <1>3, <2>1, <2>2
    DEF IInv, TypeOK, InTurn, TakeTurns, Reported, Known, HandlerBusy, Due, Threads
  <2>3. CASE t = "handler"
    BY <1>1, <1>3, <2>1, <2>3
    DEF IInv, TypeOK, InTurn, TakeTurns, Reported, Known, HandlerBusy, Due, Threads
  <2> QED  BY <2>2, <2>3 DEF Threads
<1> QED  BY <1>1, <1>2, <1>3 DEF IInv

LEMMA DeliverStep ==
  ASSUME IInv, (\E control \in Accepted : Deliver(control)) \/ Interrogate PROVE IInv'
<1>1. CASE Interrogate
  <2>1. call'["handler"].step = "publish" /\ call' \in [Threads -> Calls]
    BY <1>1 DEF Interrogate, IInv, TypeOK, Threads, Calls
  <2>2. /\ delivered' \in 0..MaxControls /\ crossed'
        /\ UNCHANGED <<mpc, rc, hpc, s_status, stop_requested, scm>>
    BY <1>1, ControlsAssumption DEF Interrogate, IInv, TypeOK
  <2> QED  BY <2>1, <2>2 DEF IInv, TypeOK
<1>2. ASSUME NEW control \in Accepted, Deliver(control) PROVE IInv'
  <2>1. /\ hpc = "idle" /\ ~Busy("handler") /\ scm.accept /\ hpc' = control /\ control # "request_stop"
        /\ UNCHANGED <<mpc, rc, s_status, call, stop_requested, scm>>
    BY <1>2, ControlsAssumption DEF Deliver, HandlerAt, Free, Busy, StopControls, EventControls
  <2>2. ~crossed' => ~crossed /\ mpc = "on_run"
    BY <1>2, Zenon DEF Deliver
  <2>3. TypeOK'
    <3>1. crossed' \in BOOLEAN  BY <1>2, Zenon DEF Deliver
    <3>2. delivered' \in 0..MaxControls
      BY <1>2, ControlsAssumption DEF Deliver, IInv, TypeOK
    <3> QED  BY <2>1, <3>1, <3>2 DEF IInv, TypeOK
  <2>4. ASSUME ~crossed' PROVE InTurn'
    BY <2>1, <2>2, <2>4
    DEF IInv, InTurn, TakeTurns, Reported, Known, HandlerBusy, Busy, Due, Threads
  <2> QED  BY <2>3, <2>4 DEF IInv
<1> QED  BY <1>1, <1>2

LEMMA HandleStep ==
  ASSUME IInv, HandleStop \/ RequestStop \/ HandleEvent \/ HandleReload PROVE IInv'
<1>1. ~Busy("handler") /\ UNCHANGED <<mpc, rc, s_status, scm, delivered, crossed>>
  BY DEF HandleStop, RequestStop, HandleEvent, HandleReload, HandlerAt, Free, Busy
<1>2. CASE HandleStop
  <2>1. /\ hpc \notin {"idle", "request_stop"} /\ hpc' = "request_stop" /\ UNCHANGED stop_requested
        /\ Begin("handler", Status("STOP_PENDING", FALSE, 0))
    BY <1>2 DEF HandleStop, HandlerAt
  <2>2. /\ call' \in [Threads -> Calls]
        /\ call'["handler"] = [step |-> "state", status |-> Status("STOP_PENDING", FALSE, 0)]
        /\ call'["main"] = call["main"]
    BY <2>1, Began, Named, Statused, CodesAssumption DEF IInv, Threads
  <2>3. TypeOK'  BY <1>1, <2>1, <2>2 DEF IInv, TypeOK
  <2>4. ASSUME ~crossed PROVE InTurn'
    BY <1>1, <2>1, <2>2, <2>4
    DEF IInv, InTurn, TakeTurns, Reported, Known, HandlerBusy, Busy, Due, Threads, Status
  <2> QED  BY <1>1, <2>3, <2>4 DEF IInv
<1>3. CASE RequestStop
  <2>1. hpc = "request_stop" /\ hpc' = "idle" /\ stop_requested' = TRUE /\ UNCHANGED call
    BY <1>3 DEF RequestStop, HandlerAt
  <2>2. TypeOK'  BY <1>1, <2>1 DEF IInv, TypeOK
  <2>3. ASSUME ~crossed PROVE InTurn'
    BY <1>1, <2>1, <2>3
    DEF IInv, InTurn, TakeTurns, Reported, Known, HandlerBusy, Busy, Due, Threads
  <2> QED  BY <1>1, <2>2, <2>3 DEF IInv
<1>4. CASE HandleEvent
  <2>1. hpc \notin {"idle", "request_stop"} /\ hpc' = "idle" /\ UNCHANGED <<stop_requested, call>>
    BY <1>4 DEF HandleEvent, HandlerAt, EventControls
  <2>2. TypeOK'  BY <1>1, <2>1 DEF IInv, TypeOK
  <2>3. ASSUME ~crossed PROVE InTurn'
    BY <1>1, <2>1, <2>3
    DEF IInv, InTurn, TakeTurns, Reported, Known, HandlerBusy, Busy, Due, Threads
  <2> QED  BY <1>1, <2>2, <2>3 DEF IInv
<1>5. CASE HandleReload
  <2>1. /\ hpc = "PARAMCHANGE" /\ hpc' = "idle" /\ UNCHANGED stop_requested
        /\ Begin("handler", Status("RUNNING", TRUE, 0))
    BY <1>5 DEF HandleReload, HandlerAt
  <2>2. /\ call' \in [Threads -> Calls]
        /\ call'["handler"] = [step |-> "state", status |-> Status("RUNNING", TRUE, 0)]
        /\ call'["main"] = call["main"]
    BY <2>1, Began, Named, Statused, CodesAssumption DEF IInv, Threads
  <2>3. TypeOK'  BY <1>1, <2>1, <2>2 DEF IInv, TypeOK
  <2>4. ASSUME ~crossed PROVE InTurn'
    BY <1>1, <2>1, <2>2, <2>4
    DEF IInv, InTurn, TakeTurns, Reported, Known, HandlerBusy, Busy, Due, Threads, Status
  <2> QED  BY <1>1, <2>3, <2>4 DEF IInv
<1> QED  BY <1>2, <1>3, <1>4, <1>5

-----------------------------------------------------------------------------
LEMMA Invariance == Spec => []IInv
<1>1. IInv /\ [Next]_vars => IInv'
  <2> SUFFICES ASSUME IInv, [Next]_vars PROVE IInv'
    OBVIOUS
  <2>1. CASE RegisterHandler  BY <2>1, RegisterStep
  <2>2. CASE OnStart  BY <2>2, OnStartStep
  <2>3. CASE OnRunTold \/ OnRunFails  BY <2>3, OnRunStep
  <2>4. CASE OnStop  BY <2>4, OnStopStep
  <2>5. CASE \E t \in Threads : SetStatus(t)
    BY <2>5, WriteStep, PublishStep DEF SetStatus
  <2>6. CASE (\E control \in Accepted : Deliver(control)) \/ Interrogate
    BY <2>6, DeliverStep
  <2>7. CASE HandleStop \/ RequestStop \/ HandleEvent \/ HandleReload
    BY <2>7, HandleStep
  <2>8. CASE UNCHANGED vars
    BY <2>8 DEF vars, IInv, TypeOK, InTurn, TakeTurns, Reported, Known, HandlerBusy, Busy, Due
  <2> QED
    BY <2>1, <2>2, <2>3, <2>4, <2>5, <2>6, <2>7, <2>8
    DEF Next, MainStep, HandlerStep, Rest, Threads
<1> QED  BY InitInv, <1>1, PTL DEF Spec

\* Types: the SCM is never given a mixture of fields outside their ranges.
THEOREM Typing == Spec => []TypeOK
<1>1. IInv => TypeOK  BY DEF IInv
<1> QED  BY Invariance, <1>1, PTL

\* SERVICE_STOPPED is reported, with the first failure as its code, for every number of
\* controls, as long as the reports of the two threads cannot cross.
THEOREM FailureIsReported == Spec => []FailureReported
<1>1. IInv => FailureReported
  BY DEF IInv, TypeOK, InTurn, Known, Busy, FailureReported, Returned, Free, Threads
<1> QED  BY Invariance, <1>1, PTL

\* The numbers of the states.
LEMMA Ranked ==
  /\ Rank("NONE") = 1 /\ Rank("START_PENDING") = 2 /\ Rank("RUNNING") = 3
  /\ Rank("STOP_PENDING") = 4 /\ Rank("STOPPED") = 5
<1>1. /\ States[1] = "NONE" /\ States[2] = "START_PENDING" /\ States[3] = "RUNNING"
      /\ States[4] = "STOP_PENDING" /\ States[5] = "STOPPED"
  BY DEF States
<1>2. ASSUME NEW k \in 1..5 PROVE Rank(States[k]) = k
  <2>1. \A i \in 1..5 : States[i] = States[k] => i = k  BY <1>1
  <2> QED  BY <2>1 DEF Rank
<1> QED  BY <1>1, <1>2

\* No report takes the SCM back to an earlier state.
THEOREM StatesFollow == Spec => NeverBack
<1>1. IInv /\ [Next]_vars => [~crossed => Rank(scm'.state) >= Rank(scm.state)]_scm
  <2> SUFFICES ASSUME IInv, [Next]_vars, ~crossed, scm' # scm
               PROVE  Rank(scm'.state) >= Rank(scm.state)
    OBVIOUS
  <2>1. PICK t \in Threads : Publish(t)
    BY DEF Next, MainStep, HandlerStep, Rest, SetStatus, Threads, vars, RegisterHandler, OnStart,
           OnRunTold, OnRunFails, OnRunReturns, OnStop, WriteState, WriteCode, Deliver, Interrogate,
           HandleStop, RequestStop, HandleEvent, HandleReload
  <2>2. scm'.state = Due(t) /\ Busy(t)  BY <2>1, Published
  <2>3. CASE t = "main"
    BY <2>2, <2>3, Ranked DEF IInv, TypeOK, InTurn, Known, Due
  <2>4. CASE t = "handler"
    BY <2>2, <2>4, Ranked DEF IInv, InTurn, TakeTurns, HandlerBusy, Known, Due
  <2> QED  BY <2>3, <2>4 DEF Threads
<1> QED  BY Invariance, <1>1, PTL DEF Spec, NeverBack

-----------------------------------------------------------------------------
\* service_main() implements ServiceLifecycle: the three steps that return from a callback
\* are its steps, all others stutter.
THEOREM LifecycleImplemented == Spec => ImplementsLifecycle
<1> USE DEF Lifecycle!vars, lifecycle_phase
<1>1. Init => Lifecycle!Init
  BY DEF Init, Lifecycle!Init
<1>2. ASSUME [Next]_vars PROVE [Lifecycle!Next]_Lifecycle!vars
  <2>1. CASE OnStart
    <3> PICK c \in Codes : /\ mpc = "on_start" /\ rc' = c
                           /\ mpc' = IF c = 0 THEN "on_run" ELSE "returned"
      BY <2>1 DEF OnStart, MainAt
    <3>1. Lifecycle!StartReturns(c)  BY DEF Lifecycle!StartReturns
    <3> QED  BY <3>1 DEF Lifecycle!Next
  <2>2. CASE OnRunTold \/ OnRunFails
    <3> PICK c \in Codes : OnRunReturns(c)  BY <2>2 DEF OnRunTold, OnRunFails
    <3>1. Lifecycle!RunReturns(c)  BY DEF OnRunReturns, MainAt, Lifecycle!RunReturns
    <3> QED  BY <3>1 DEF Lifecycle!Next
  <2>3. CASE OnStop
    <3> PICK c \in Codes : /\ mpc = "on_stop" /\ mpc' = "returned"
                           /\ rc' = IF rc # 0 THEN rc ELSE c
      BY <2>3 DEF OnStop, MainAt
    <3>1. Lifecycle!StopReturns(c)  BY DEF Lifecycle!StopReturns
    <3> QED  BY <3>1 DEF Lifecycle!Next
  <2>4. CASE RegisterHandler
    BY <2>4 DEF RegisterHandler, MainAt
  <2>5. CASE \E t \in Threads : SetStatus(t)
    BY <2>5 DEF SetStatus, WriteState, WriteCode, Publish
  <2>6. CASE HandleStop \/ RequestStop \/ HandleEvent \/ HandleReload \/ Interrogate
               \/ (\E control \in Accepted : Deliver(control)) \/ UNCHANGED vars
    BY <2>6 DEF HandleStop, RequestStop, HandleEvent, HandleReload, Interrogate, Deliver, vars
  <2> QED
    BY <1>2, <2>1, <2>2, <2>3, <2>4, <2>5, <2>6 DEF Next, MainStep, HandlerStep, Rest, Threads
<1> QED
  BY <1>1, <1>2, PTL DEF Spec, ImplementsLifecycle, Lifecycle!Spec
=============================================================================
