------------------------- MODULE LinuxService_proofs -------------------------
(***************************************************************************)
(* Proofs about LinuxService, for every set of callback values, every set  *)
(* of failing calls and every bound: types, the resources main and the     *)
(* event thread share, and the lifecycle.  At the end, about StopEvent for *)
(* any set of requesters: types, no lost wakeup, and the safety part of    *)
(* StopContract.                                                           *)
(***************************************************************************)
EXTENDS LinuxService, StopEvent, FiniteSetTheorems, TLAPS

\* A step that changes no variable keeps every state predicate.
LEMMA Stutter ==
  ASSUME UNCHANGED vars
  PROVE  /\ FlagsOK => FlagsOK'
         /\ ValuesOK => ValuesOK'
         /\ Resources => Resources'
<1>1. UNCHANGED <<mpc, rc, thread, detached, handler, tracer>>
  BY DEF vars, main_vars
<1>2. UNCHANGED <<stop_requested, def, stop_fd, reload_fd, stop_count, reload_count>>
  BY DEF vars, shared_vars, count_vars
<1>3. UNCHANGED <<tpc, reload_watched, watchdog, bus, locks>>
  BY DEF vars, thread_vars
<1>4. UNCHANGED <<death, hups, events, hpc, sent, hup_due, early, misuse>>
  BY DEF vars, env_vars
<1>5. FlagsOK => FlagsOK'
  BY <1>1, <1>2, <1>3, <1>4 DEF FlagsOK
<1>6. ValuesOK => ValuesOK'
  BY <1>1, <1>2, <1>3, <1>4 DEF ValuesOK
<1>7. Resources => Resources'
  BY <1>1, <1>2, <1>3, <1>4
  DEF Resources, SharedWhileJoinable, HandlerHasFd, ReleasedInOrder,
      SafeUnlessDetached, StartFailureLeavesNothing, HupNotLost
<1> QED
  BY <1>5, <1>6, <1>7

\* Every step keeps the flags Boolean.
LEMMA FlagsStep ==
  FlagsOK /\ [Next]_vars => FlagsOK'
<1> USE DEF FlagsOK, Main, Thread,
            main_vars, shared_vars, count_vars, thread_vars, env_vars
<1>1. ASSUME FlagsOK, StartStopFd PROVE FlagsOK'  BY <1>1, ZenonT(90) DEF StartStopFd
<1>2. ASSUME FlagsOK, StartReload PROVE FlagsOK'  BY <1>2, ZenonT(90) DEF StartReload
<1>3. ASSUME FlagsOK, StartThread PROVE FlagsOK'  BY <1>3, ZenonT(90) DEF StartThread
<1>4. ASSUME FlagsOK, Register PROVE FlagsOK'  BY <1>4 DEF Register
<1>5. ASSUME FlagsOK, OnStart PROVE FlagsOK'  BY <1>5 DEF OnStart
<1>6. ASSUME FlagsOK, NotifyReady PROVE FlagsOK'  BY <1>6 DEF NotifyReady
<1>7. ASSUME FlagsOK, OnRunTold PROVE FlagsOK'  BY <1>7 DEF OnRunTold, OnRunReturns
<1>8. ASSUME FlagsOK, NotifyStopping PROVE FlagsOK'  BY <1>8 DEF NotifyStopping
<1>9. ASSUME FlagsOK, OnStop PROVE FlagsOK'  BY <1>9 DEF OnStop
<1>10. ASSUME FlagsOK, WriteStop PROVE FlagsOK'  BY <1>10 DEF WriteStop
<1>11. ASSUME FlagsOK, Join PROVE FlagsOK'  BY <1>11, ZenonT(90) DEF Join
<1>12. ASSUME FlagsOK, RestoreHandler PROVE FlagsOK'  BY <1>12 DEF RestoreHandler
<1>13. ASSUME FlagsOK, CloseReload PROVE FlagsOK'  BY <1>13 DEF CloseReload
<1>14. ASSUME FlagsOK, CloseStop PROVE FlagsOK'  BY <1>14 DEF CloseStop
<1>15. ASSUME FlagsOK, ClearDef PROVE FlagsOK'  BY <1>15 DEF ClearDef
<1>16. ASSUME FlagsOK, Dispose PROVE FlagsOK'  BY <1>16 DEF Dispose
<1>17. ASSUME FlagsOK, OnRunFails PROVE FlagsOK'  BY <1>17 DEF OnRunFails, OnRunReturns
<1>18. ASSUME FlagsOK, ThreadBegin PROVE FlagsOK'  BY <1>18 DEF ThreadBegin
<1>19. ASSUME FlagsOK, ThreadSetupStop PROVE FlagsOK'  BY <1>19, ZenonT(90) DEF ThreadSetupStop
<1>20. ASSUME FlagsOK, ThreadSetupReload PROVE FlagsOK'  BY <1>20, ZenonT(90) DEF ThreadSetupReload
<1>21. ASSUME FlagsOK, ThreadSetupBus PROVE FlagsOK'  BY <1>21, ZenonT(90) DEF ThreadSetupBus
<1>22. ASSUME FlagsOK, OnStopRequested PROVE FlagsOK'  BY <1>22 DEF OnStopRequested
<1>23. ASSUME FlagsOK, OnReloadRequested PROVE FlagsOK'  BY <1>23, ZenonT(90) DEF OnReloadRequested
<1>24. ASSUME FlagsOK, DispatchReload PROVE FlagsOK'
  <2>1. early' = (mpc \in ReadyDue)  BY <1>24 DEF DispatchReload
  <2>2. early' \in BOOLEAN  BY <2>1
  <2>3. hup_due' = FALSE /\ UNCHANGED <<main_vars, shared_vars, count_vars, reload_watched,
                                        watchdog, bus, locks>>
    BY <1>24 DEF DispatchReload
  <2> QED  BY <1>24, <2>2, <2>3, ZenonT(90)
<1>25. ASSUME FlagsOK, OnReloadReturns PROVE FlagsOK'  BY <1>25 DEF OnReloadReturns
<1>26. ASSUME FlagsOK, OnDbusSignal PROVE FlagsOK'  BY <1>26 DEF OnDbusSignal
<1>27. ASSUME FlagsOK, OnEventReturns PROVE FlagsOK'  BY <1>27, ZenonT(90) DEF OnEventReturns
<1>28. ASSUME FlagsOK, LoopFails PROVE FlagsOK'  BY <1>28 DEF LoopFails
<1>29. ASSUME FlagsOK, Cleanup PROVE FlagsOK'  BY <1>29 DEF Cleanup
<1>30. ASSUME NEW t, FlagsOK, HandlerStep(t) PROVE FlagsOK'
  BY <1>30, ZenonT(90) DEF HandlerStep, HandlerTest, HandlerWrite
<1>31. ASSUME FlagsOK, Hup PROVE FlagsOK'  BY <1>31, ZenonT(90) DEF Hup
<1>32. ASSUME FlagsOK, Term PROVE FlagsOK'  BY <1>32, ZenonT(90) DEF Term
<1>33. ASSUME FlagsOK, WatchdogKill PROVE FlagsOK'  BY <1>33 DEF WatchdogKill
<1>34. ASSUME FlagsOK, Gone \/ UNCHANGED vars PROVE FlagsOK'
  <2>1. UNCHANGED vars  BY <1>34 DEF Gone
  <2> QED  BY <1>34, <2>1, Stutter
<1> QED
  BY <1>1, <1>2, <1>3, <1>4, <1>5, <1>6, <1>7, <1>8, <1>9, <1>10, <1>11, <1>12,
     <1>13, <1>14, <1>15, <1>16, <1>17, <1>18, <1>19, <1>20, <1>21, <1>22,
     <1>23, <1>24, <1>25, <1>26, <1>27, <1>28, <1>29, <1>30, <1>31, <1>32,
     <1>33, <1>34
  DEF Next, MainStep, ThreadStep, SignalThreads

\* Every step keeps the program counters, codes, descriptors and messages typed.
LEMMA ValuesStep ==
  ValuesOK /\ [Next]_vars => ValuesOK'
<1> USE CodesAssumption, BoundsAssumption
    DEF ValuesOK, Messages, Main, Thread, Notify, Trace,
        main_vars, shared_vars, count_vars, thread_vars, env_vars
<1>1. ASSUME ValuesOK, StartStopFd PROVE ValuesOK'  BY <1>1 DEF StartStopFd, MainPc
<1>2. ASSUME ValuesOK, StartReload PROVE ValuesOK'  BY <1>2 DEF StartReload, MainPc
<1>3. ASSUME ValuesOK, StartThread PROVE ValuesOK'  BY <1>3 DEF StartThread, MainPc, ThreadPc
<1>4. ASSUME ValuesOK, Register PROVE ValuesOK'  BY <1>4 DEF Register, MainPc
<1>5. ASSUME ValuesOK, OnStart PROVE ValuesOK'  BY <1>5 DEF OnStart, MainPc
<1>6. ASSUME ValuesOK, NotifyReady PROVE ValuesOK'  BY <1>6 DEF NotifyReady, MainPc
<1>7. ASSUME ValuesOK, OnRunTold PROVE ValuesOK'  BY <1>7 DEF OnRunTold, OnRunReturns, MainPc
<1>8. ASSUME ValuesOK, NotifyStopping PROVE ValuesOK'  BY <1>8 DEF NotifyStopping, MainPc
<1>9. ASSUME ValuesOK, OnStop PROVE ValuesOK'  BY <1>9 DEF OnStop, MainPc
<1>10. ASSUME ValuesOK, WriteStop PROVE ValuesOK'  BY <1>10 DEF WriteStop, MainPc
<1>11. ASSUME ValuesOK, Join PROVE ValuesOK'  BY <1>11 DEF Join, MainPc
<1>12. ASSUME ValuesOK, RestoreHandler PROVE ValuesOK'  BY <1>12 DEF RestoreHandler, MainPc
<1>13. ASSUME ValuesOK, CloseReload PROVE ValuesOK'  BY <1>13 DEF CloseReload, MainPc
<1>14. ASSUME ValuesOK, CloseStop PROVE ValuesOK'  BY <1>14 DEF CloseStop, MainPc
<1>15. ASSUME ValuesOK, ClearDef PROVE ValuesOK'  BY <1>15 DEF ClearDef, MainPc
<1>16. ASSUME ValuesOK, Dispose PROVE ValuesOK'  BY <1>16 DEF Dispose, MainPc
<1>17. ASSUME ValuesOK, OnRunFails PROVE ValuesOK'  BY <1>17 DEF OnRunFails, OnRunReturns, MainPc
<1>18. ASSUME ValuesOK, ThreadBegin PROVE ValuesOK'  BY <1>18 DEF ThreadBegin, ThreadPc
<1>19. ASSUME ValuesOK, ThreadSetupStop PROVE ValuesOK'  BY <1>19 DEF ThreadSetupStop, ThreadPc
<1>20. ASSUME ValuesOK, ThreadSetupReload PROVE ValuesOK'  BY <1>20 DEF ThreadSetupReload, ThreadPc
<1>21. ASSUME ValuesOK, ThreadSetupBus PROVE ValuesOK'  BY <1>21 DEF ThreadSetupBus, ThreadPc
<1>22. ASSUME ValuesOK, OnStopRequested PROVE ValuesOK'  BY <1>22 DEF OnStopRequested, ThreadPc
<1>23. ASSUME ValuesOK, OnReloadRequested PROVE ValuesOK'  BY <1>23 DEF OnReloadRequested, ThreadPc
<1>24. ASSUME ValuesOK, DispatchReload PROVE ValuesOK'  BY <1>24 DEF DispatchReload, ThreadPc
<1>25. ASSUME ValuesOK, OnReloadReturns PROVE ValuesOK'  BY <1>25 DEF OnReloadReturns, ThreadPc
<1>26. ASSUME ValuesOK, OnDbusSignal PROVE ValuesOK'
  <2>1. events' \in 0..MaxEvents  BY <1>26 DEF OnDbusSignal
  <2>2. misuse' \subseteq {"tracer"} \cup SignalThreads  BY <1>26 DEF OnDbusSignal
  <2>3. tpc' \in ThreadPc  BY <1>26 DEF OnDbusSignal, ThreadPc
  <2>4. UNCHANGED <<mpc, rc, tracer, stop_fd, reload_fd, hpc, sent, hups, death>>
    BY <1>26 DEF OnDbusSignal
  <2>5. /\ mpc' \in MainPc /\ rc' \in Codes /\ tracer' \in {"open", "disposing", "null"}
        /\ stop_fd' \in {"none", "open"} /\ reload_fd' \in {"none", "open"}
        /\ death' \in {"none", "SIGHUP", "SIGTERM", "SIGSEGV", "WATCHDOG"}
    BY <1>26, <2>4
  <2>6. hpc' \in [SignalThreads -> {"idle", "test", "write"}]  BY <1>26, <2>4
  <2>7. sent' \in Seq(Messages) /\ hups' \in 0..MaxHups  BY <1>26, <2>4
  <2> QED  BY <2>1, <2>2, <2>3, <2>5, <2>6, <2>7, ZenonT(60)
<1>27. ASSUME ValuesOK, OnEventReturns PROVE ValuesOK'  BY <1>27 DEF OnEventReturns, ThreadPc
<1>28. ASSUME ValuesOK, LoopFails PROVE ValuesOK'  BY <1>28 DEF LoopFails, ThreadPc
<1>29. ASSUME ValuesOK, Cleanup PROVE ValuesOK'  BY <1>29 DEF Cleanup, ThreadPc
<1>30. ASSUME NEW t \in SignalThreads, ValuesOK, HandlerStep(t) PROVE ValuesOK'
  <2>1. hpc' \in [SignalThreads -> {"idle", "test", "write"}]
    BY <1>30 DEF HandlerStep, HandlerTest, HandlerWrite
  <2>2. misuse' \subseteq {"tracer"} \cup SignalThreads
    <3>1. misuse' = misuse \/ misuse' = misuse \cup {t}
      BY <1>30 DEF HandlerStep, HandlerTest, HandlerWrite
    <3> QED  BY <1>30, <3>1
  <2> QED  BY <1>30, <2>1, <2>2 DEF HandlerStep, HandlerTest, HandlerWrite
<1>31. ASSUME ValuesOK, Hup PROVE ValuesOK'
  <2>1. hups' \in 0..MaxHups  BY <1>31 DEF Hup
  <2>2. hpc' \in [SignalThreads -> {"idle", "test", "write"}]  BY <1>31 DEF Hup
  <2>3. death' \in {"none", "SIGHUP", "SIGTERM", "SIGSEGV", "WATCHDOG"}
    BY <1>31 DEF Hup
  <2> QED  BY <1>31, <2>1, <2>2, <2>3 DEF Hup
<1>32. ASSUME ValuesOK, Term PROVE ValuesOK'  BY <1>32 DEF Term
<1>33. ASSUME ValuesOK, WatchdogKill PROVE ValuesOK'  BY <1>33 DEF WatchdogKill
<1>34. ASSUME ValuesOK, Gone \/ UNCHANGED vars PROVE ValuesOK'
  <2>1. UNCHANGED vars  BY <1>34 DEF Gone
  <2> QED  BY <1>34, <2>1, Stutter
<1> QED
  BY <1>1, <1>2, <1>3, <1>4, <1>5, <1>6, <1>7, <1>8, <1>9, <1>10, <1>11, <1>12,
     <1>13, <1>14, <1>15, <1>16, <1>17, <1>18, <1>19, <1>20, <1>21, <1>22,
     <1>23, <1>24, <1>25, <1>26, <1>27, <1>28, <1>29, <1>30, <1>31, <1>32,
     <1>33, <1>34
  DEF Next, MainStep, ThreadStep, SignalThreads

\* Every step keeps what main and the event thread share in order.
LEMMA ResourcesStep ==
  ValuesOK /\ Resources /\ [Next]_vars => Resources'
<1> USE DEF Resources, SharedWhileJoinable, HandlerHasFd, ReleasedInOrder,
            SafeUnlessDetached, StartFailureLeavesNothing, HupNotLost,
            StartPc, ServicePc, EndPc, Main, Thread, Notify, Trace, SignalThreads,
            main_vars, shared_vars, count_vars, thread_vars, env_vars
<1>1. ASSUME Resources, StartStopFd PROVE Resources'  BY <1>1 DEF StartStopFd
<1>2. ASSUME Resources, StartReload PROVE Resources'  BY <1>2 DEF StartReload
<1>3. ASSUME Resources, StartThread PROVE Resources'
  <2> mpc = "start_thread" /\ mpc' = "register"  BY <1>3 DEF StartThread
  <2> ~thread /\ ~detached /\ tracer = "open" /\ def /\ stop_fd = "open"
    BY <1>3
  <2>a. tpc \in {"none", "ended"} /\ hpc["events"] = "idle" /\ hpc["main"] = "idle"
    BY <1>3 DEF StartThread
  <2>1. SharedWhileJoinable'
    <3>1. CASE thread' = TRUE /\ tpc' = "begin"  BY <1>3, <3>1 DEF StartThread
    <3>2. CASE UNCHANGED <<thread, tpc>>  BY <1>3, <2>a, <3>2 DEF StartThread
    <3> QED  BY <1>3, <3>1, <3>2 DEF StartThread
  <2>2. HandlerHasFd'
    <3>1. hpc'["events"] = "idle" /\ hpc'["main"] = "idle"  BY <1>3, <2>a DEF StartThread
    <3>2. handler' => reload_fd' = "open"  BY <1>3 DEF StartThread
    <3>3. reload_fd' = "open" => def'  BY <1>3 DEF StartThread
    <3> QED  BY <3>1, <3>2, <3>3
  <2>3. ReleasedInOrder'  BY <1>3 DEF StartThread
  <2>4. SafeUnlessDetached'  BY <1>3 DEF StartThread
  <2>5. StartFailureLeavesNothing'  BY <1>3 DEF StartThread
  <2>6. HupNotLost'  BY <1>3 DEF StartThread
  <2> QED  BY <2>1, <2>2, <2>3, <2>4, <2>5, <2>6
<1>4. ASSUME Resources, Register PROVE Resources'  BY <1>4 DEF Register
<1>5. ASSUME Resources, OnStart PROVE Resources'  BY <1>5 DEF OnStart
<1>6. ASSUME Resources, NotifyReady PROVE Resources'  BY <1>6 DEF NotifyReady
<1>7. ASSUME Resources, OnRunTold PROVE Resources'  BY <1>7 DEF OnRunTold, OnRunReturns
<1>8. ASSUME Resources, NotifyStopping PROVE Resources'  BY <1>8 DEF NotifyStopping
<1>9. ASSUME Resources, OnStop PROVE Resources'  BY <1>9 DEF OnStop
<1>10. ASSUME Resources, WriteStop PROVE Resources'  BY <1>10 DEF WriteStop
<1>11. ASSUME Resources, Join PROVE Resources'  BY <1>11 DEF Join
<1>12. ASSUME Resources, RestoreHandler PROVE Resources'  BY <1>12 DEF RestoreHandler
<1>13. ASSUME Resources, CloseReload PROVE Resources'  BY <1>13 DEF CloseReload
<1>14. ASSUME Resources, CloseStop PROVE Resources'  BY <1>14 DEF CloseStop
<1>15. ASSUME Resources, ClearDef PROVE Resources'  BY <1>15 DEF ClearDef
<1>16. ASSUME Resources, Dispose PROVE Resources'  BY <1>16 DEF Dispose
<1>17. ASSUME Resources, OnRunFails PROVE Resources'  BY <1>17 DEF OnRunFails, OnRunReturns
<1>18. ASSUME Resources, ThreadBegin PROVE Resources'  BY <1>18 DEF ThreadBegin, ThreadRunning, Alive
<1>19. ASSUME Resources, ThreadSetupStop PROVE Resources'  BY <1>19 DEF ThreadSetupStop, ThreadRunning, Alive
<1>20. ASSUME Resources, ThreadSetupReload PROVE Resources'  BY <1>20 DEF ThreadSetupReload, ThreadRunning, Alive
<1>21. ASSUME Resources, ThreadSetupBus PROVE Resources'  BY <1>21 DEF ThreadSetupBus, ThreadRunning, Alive
<1>22. ASSUME Resources, OnStopRequested PROVE Resources'  BY <1>22 DEF OnStopRequested, ThreadRunning, Alive
<1>23. ASSUME Resources, OnReloadRequested PROVE Resources'  BY <1>23 DEF OnReloadRequested, ReloadReadable, ThreadRunning, Alive
<1>24. ASSUME Resources, DispatchReload PROVE Resources'  BY <1>24 DEF DispatchReload, ThreadRunning, Alive
<1>25. ASSUME Resources, OnReloadReturns PROVE Resources'  BY <1>25 DEF OnReloadReturns, ThreadRunning, Alive
<1>26. ASSUME Resources, OnDbusSignal PROVE Resources'  BY <1>26 DEF OnDbusSignal, ThreadRunning, Alive
<1>27. ASSUME Resources, OnEventReturns PROVE Resources'  BY <1>27 DEF OnEventReturns, ThreadRunning, Alive
<1>28. ASSUME Resources, LoopFails PROVE Resources'  BY <1>28 DEF LoopFails, ThreadRunning, Alive
<1>29. ASSUME Resources, Cleanup PROVE Resources'  BY <1>29 DEF Cleanup, ThreadRunning, Alive
<1>30. ASSUME NEW t \in SignalThreads, ValuesOK, Resources, HandlerStep(t) PROVE Resources'
  BY <1>30 DEF HandlerStep, HandlerTest, HandlerWrite, Alive, ValuesOK
<1>31. ASSUME ValuesOK, Resources, Hup PROVE Resources'
  BY <1>31 DEF Hup, Alive, ThreadRunning, ValuesOK
<1>32. ASSUME Resources, Term PROVE Resources'  BY <1>32 DEF Term, Alive
<1>33. ASSUME Resources, WatchdogKill PROVE Resources'  BY <1>33 DEF WatchdogKill
<1>34. ASSUME Resources, Gone \/ UNCHANGED vars PROVE Resources'
  <2>1. UNCHANGED vars  BY <1>34 DEF Gone
  <2> QED  BY <1>34, <2>1, Stutter
<1> QED
  BY <1>1, <1>2, <1>3, <1>4, <1>5, <1>6, <1>7, <1>8, <1>9, <1>10, <1>11, <1>12,
     <1>13, <1>14, <1>15, <1>16, <1>17, <1>18, <1>19, <1>20, <1>21, <1>22,
     <1>23, <1>24, <1>25, <1>26, <1>27, <1>28, <1>29, <1>30, <1>31, <1>32,
     <1>33, <1>34
  DEF Next, MainStep, ThreadStep, SignalThreads

\* The initial state: nothing is started, open or installed.
LEMMA InitInv == Init => TypeOK /\ Resources
<1> SUFFICES ASSUME Init PROVE TypeOK /\ Resources
  OBVIOUS
<1>1. FlagsOK
  BY DEF Init, FlagsOK
<1>2. ValuesOK
  BY CodesAssumption, BoundsAssumption DEF Init, ValuesOK, MainPc, ThreadPc, Messages
<1>3. Resources
  BY DEF Init, Resources, SharedWhileJoinable, HandlerHasFd, ReleasedInOrder,
         SafeUnlessDetached, StartFailureLeavesNothing, HupNotLost, StartPc, ServicePc, EndPc, SignalThreads
<1> QED
  BY <1>1, <1>2, <1>3 DEF TypeOK

\* The counters keep within their bounds and systemd receives known messages only,
\* whichever calls of the set-up fail.
THEOREM Typing == Spec => []TypeOK
<1>1. TypeOK /\ [Next]_vars => TypeOK'
  BY FlagsStep, ValuesStep DEF TypeOK
<1> QED
  BY InitInv, <1>1, PTL DEF Spec

\* Types and shared resources hold together in every reachable state.
LEMMA Invariance == Spec => [](TypeOK /\ Resources)
<1>1. TypeOK /\ Resources /\ [Next]_vars => Resources'
  BY ResourcesStep DEF TypeOK
<1> QED
  BY InitInv, Typing, <1>1, PTL DEF Spec

\* The process crashes on a shared pointer, or main, the event thread or a SIGHUP handler
\* on one of the two uses what main has given up, only after a join that timed out.
THEOREM SharedStateOutlivesThread == Spec => []SafeUnlessDetached
<1>1. Resources => SafeUnlessDetached
  BY DEF Resources
<1> QED
  BY Invariance, <1>1, PTL

\* A forwarded SIGHUP stays pending until a later on_reload has begun.
THEOREM ForwardedHupIsNotLost == Spec => []HupNotLost
<1>1. Resources => HupNotLost
  BY DEF Resources
<1> QED
  BY Invariance, <1>1, PTL

\* Without an event thread no SIGHUP handler and no eventfd is left behind.
THEOREM FailedStartReleases == Spec => []StartFailureLeavesNothing
<1>1. Resources => StartFailureLeavesNothing
  BY DEF Resources
<1> QED
  BY Invariance, <1>1, PTL

\* A process that ends by itself has released every handler, descriptor and lock,
\* whatever call of the set-up had failed.
THEOREM ReleasesEverything == Spec => []CleanExit
<1>1. TypeOK /\ Resources => CleanExit
  BY DEF TypeOK, ValuesOK, ThreadPc, Resources, SharedWhileJoinable, HandlerHasFd,
         ReleasedInOrder, StartPc, ServicePc, EndPc, CleanExit
<1> QED
  BY Invariance, <1>1, PTL

\* Nothing is left behind, neither by a start that failed nor by the end of the process.
THEOREM NothingIsLeaked == Spec => []NothingLeaks
<1>1. StartFailureLeavesNothing /\ CleanExit => NothingLeaks
  BY DEF NothingLeaks
<1> QED
  BY FailedStartReleases, ReleasesEverything, <1>1, PTL

-----------------------------------------------------------------------------
\* The callbacks are called as ServiceLifecycle promises: the step that returns
\* from a callback is the abstract step, every other step of main, of the event
\* thread and of the environment is a stutter.
THEOREM LifecycleImplemented == Spec => ImplementsLifecycle
<1> USE DEF Lifecycle!vars, lifecycle_phase, Main
<1>1. Init => Lifecycle!Init
  BY DEF Init, Lifecycle!Init
<1>2. ASSUME TypeOK, [Next]_vars PROVE [Lifecycle!Next]_Lifecycle!vars
  <2>1. CASE StartStopFd \/ StartReload \/ StartThread \/ Register \/ NotifyReady
    BY <2>1 DEF StartStopFd, StartReload, StartThread, Register, NotifyReady
  <2>2. CASE OnStart
    <3> PICK c \in Codes : /\ mpc = "on_start" /\ rc' = c
                           /\ mpc' = IF c = 0 THEN "notify_ready" ELSE "write_stop"
      BY <2>2 DEF OnStart
    <3>1. Lifecycle!StartReturns(c)
      BY DEF Lifecycle!StartReturns
    <3> QED  BY <3>1 DEF Lifecycle!Next
  <2>3. CASE OnRunTold \/ OnRunFails
    <3> PICK c \in Codes : OnRunReturns(c)
      BY <2>3 DEF OnRunTold, OnRunFails
    <3>1. Lifecycle!RunReturns(c)
      BY DEF OnRunReturns, Lifecycle!RunReturns
    <3> QED  BY <3>1 DEF Lifecycle!Next
  <2>4. CASE OnStop
    <3> PICK c \in Codes : /\ mpc = "on_stop" /\ mpc' = "write_stop"
                           /\ rc' = IF rc # 0 THEN rc ELSE c
      BY <2>4 DEF OnStop
    <3>1. Lifecycle!StopReturns(c)
      BY DEF Lifecycle!StopReturns
    <3> QED  BY <3>1 DEF Lifecycle!Next
  <2>5. CASE NotifyStopping \/ WriteStop \/ Join \/ RestoreHandler \/ CloseReload
               \/ CloseStop \/ ClearDef \/ Dispose
    BY <2>5 DEF NotifyStopping, WriteStop, Join, RestoreHandler, CloseReload, CloseStop,
                ClearDef, Dispose
  <2>6. CASE ThreadStep \/ LoopFails \/ \E t \in SignalThreads : HandlerStep(t)
    <3>1. UNCHANGED main_vars
      BY <2>6 DEF ThreadStep, ThreadBegin, ThreadSetupStop, ThreadSetupReload, ThreadSetupBus,
           OnStopRequested, OnReloadRequested, DispatchReload, OnReloadReturns, OnDbusSignal,
           OnEventReturns, LoopFails, Cleanup, HandlerStep, HandlerTest, HandlerWrite
    <3> QED  BY <3>1 DEF main_vars
  <2>7. CASE Hup \/ Term \/ WatchdogKill \/ Gone \/ UNCHANGED vars
    BY <2>7 DEF Hup, Term, WatchdogKill, Gone, vars, main_vars
  <2> QED
    BY <1>2, <2>1, <2>2, <2>3, <2>4, <2>5, <2>6, <2>7 DEF Next, MainStep, SignalThreads
<1> QED
  BY <1>1, <1>2, Typing, PTL DEF Spec, ImplementsLifecycle, Lifecycle!Spec

-----------------------------------------------------------------------------
\* The number of times a message has been sent is a number.
LEMMA SentIsNat ==
  ASSUME sent \in Seq(Messages), NEW m
  PROVE  /\ IsFiniteSet({i \in DOMAIN sent : sent[i] = m})
         /\ Sent(m) \in Nat
<1> DEFINE I == {i \in DOMAIN sent : sent[i] = m}
<1>1. IsFiniteSet(1..Len(sent))  BY FS_Interval
<1>2. I \in SUBSET (1..Len(sent))  OBVIOUS
<1> QED  BY <1>1, <1>2, FS_Subset, FS_CardinalityType DEF Sent

\* A message that is sent is counted once, the others as before.
LEMMA SentOnce ==
  ASSUME sent \in Seq(Messages), NEW m, NEW x \in Messages, sent' = Append(sent, x)
  PROVE  /\ Sent(m) \in Nat
         /\ Sent(m)' = Sent(m) + (IF m = x THEN 1 ELSE 0)
         /\ Contains(sent, m) => Contains(sent', m)
         /\ Contains(sent', x)
<1> DEFINE n == Len(sent)
           I == {i \in DOMAIN sent : sent[i] = m}
<1>1. /\ n \in Nat /\ DOMAIN sent = 1..n
      /\ DOMAIN sent' = 1..(n + 1) /\ Len(sent') = n + 1
      /\ \A i \in 1..n : sent'[i] = sent[i]
      /\ sent'[n + 1] = x
  OBVIOUS
<1>2. IsFiniteSet(I) /\ Cardinality(I) \in Nat  BY SentIsNat DEF Sent
<1>3. Contains(sent', x) /\ (Contains(sent, m) => Contains(sent', m))
  BY <1>1 DEF Contains
<1>4. CASE m = x
  <2>1. {i \in DOMAIN sent' : sent'[i] = m} = I \cup {n + 1}  BY <1>1, <1>4
  <2>2. n + 1 \notin I  BY <1>1
  <2>3. Cardinality(I \cup {n + 1}) = Cardinality(I) + 1  BY <1>2, <2>2, FS_AddElement
  <2> QED  BY <1>2, <1>3, <1>4, <2>1, <2>3 DEF Sent
<1>5. CASE m # x
  <2>1. {i \in DOMAIN sent' : sent'[i] = m} = I  BY <1>1, <1>5
  <2>2. Sent(m)' = Cardinality(I) /\ Sent(m) = Cardinality(I)  BY <2>1 DEF Sent
  <2> QED  BY <1>2, <1>3, <1>5, <2>2
<1> QED  BY <1>4, <1>5

\* Most steps report nothing: they keep what is reported when they neither begin nor end
\* a callback and main stays on its side of on_start and of on_run.
LEMMA ReportsNothing ==
  ASSUME Reported, UNCHANGED sent, tpc' = "on_reload" <=> tpc = "on_reload",
         mpc' \in ReadyDue => mpc \in ReadyDue,
         mpc \in {"on_run", "notify_stopping"} => mpc' \in {"on_run", "notify_stopping"}
  PROVE  Reported'
<1>1. /\ Sent("READY")' = Sent("READY") /\ Sent("RELOADING")' = Sent("RELOADING")
      /\ Contains(sent', "STOPPING") <=> Contains(sent, "STOPPING")
  BY DEF Sent
<1>2. OpenReloads' = OpenReloads  BY DEF OpenReloads
<1> QED  BY <1>1, <1>2 DEF Reported

\* Every step keeps what systemd has been told in line with the two threads.
LEMMA ReportedStep ==
  TypeOK /\ Resources /\ Reported /\ [Next]_vars => Reported'
<1> SUFFICES ASSUME TypeOK, Resources, Reported, [Next]_vars PROVE Reported'
  OBVIOUS
<1>t. sent \in Seq(Messages)  BY DEF TypeOK, ValuesOK
<1>r. "READY" # "RELOADING" /\ "READY" # "STOPPING" /\ "RELOADING" # "STOPPING"
      /\ {"READY", "RELOADING", "STOPPING"} = Messages
  BY DEF Messages
<1>1. CASE NotifyReady
  <2>1. /\ mpc = "notify_ready" /\ mpc' = "on_run" /\ tpc' = tpc
        /\ sent' = Append(sent, "READY")
    BY <1>1 DEF NotifyReady, Main, Notify, thread_vars
  <2>2. /\ Sent("READY")' = Sent("READY") + 1 /\ Sent("RELOADING")' = Sent("RELOADING")
        /\ Sent("READY") \in Nat /\ Sent("RELOADING") \in Nat
    BY <1>t, <1>r, <2>1, SentOnce
  <2> QED  BY <2>1, <2>2 DEF Reported, ReadyDue, OpenReloads
<1>2. CASE NotifyStopping
  <2>1. /\ mpc = "notify_stopping" /\ mpc' = "on_stop" /\ tpc' = tpc
        /\ sent' = Append(sent, "STOPPING")
    BY <1>2 DEF NotifyStopping, Main, Notify, thread_vars
  <2>2. /\ Sent("READY")' = Sent("READY") /\ Sent("RELOADING")' = Sent("RELOADING")
        /\ Contains(sent', "STOPPING")
    BY <1>t, <1>r, <2>1, SentOnce
  <2> QED  BY <2>1, <2>2 DEF Reported, ReadyDue, OpenReloads
<1>3. CASE DispatchReload
  <2>1. /\ tpc = "reloading" /\ tpc' = "on_reload" /\ mpc' = mpc
        /\ sent' = Append(sent, "RELOADING")
    BY <1>3 DEF DispatchReload, Thread, Notify, main_vars
  <2>2. /\ Sent("READY")' = Sent("READY") /\ Sent("RELOADING")' = Sent("RELOADING") + 1
        /\ Sent("READY") \in Nat /\ Sent("RELOADING") \in Nat
        /\ Contains(sent, "STOPPING") => Contains(sent', "STOPPING")
    BY <1>t, <1>r, <2>1, SentOnce
  <2> QED  BY <2>1, <2>2 DEF Reported, ReadyDue, OpenReloads
<1>4. CASE OnReloadReturns
  <2>1. /\ tpc = "on_reload" /\ tpc' = "loop" /\ mpc' = mpc
        /\ sent' = Append(sent, "READY")
    BY <1>4 DEF OnReloadReturns, Thread, Notify, main_vars
  <2>2. /\ Sent("READY")' = Sent("READY") + 1 /\ Sent("RELOADING")' = Sent("RELOADING")
        /\ Sent("READY") \in Nat /\ Sent("RELOADING") \in Nat
        /\ Contains(sent, "STOPPING") => Contains(sent', "STOPPING")
    BY <1>t, <1>r, <2>1, SentOnce
  <2> QED  BY <2>1, <2>2 DEF Reported, ReadyDue, OpenReloads
<1>5. CASE StartThread
  <2>1. tpc \in {"none", "ended"} /\ mpc = "start_thread"
    BY <1>5 DEF StartThread, Main, Resources, SharedWhileJoinable, StartPc, ServicePc
  <2>2. UNCHANGED sent /\ mpc' = "register" /\ tpc' \in {"begin", tpc}
    BY <1>5 DEF StartThread, Main
  <2> QED  BY <2>1, <2>2, ReportsNothing DEF ReadyDue
<1>6. CASE StartStopFd \/ StartReload \/ Register \/ OnStart \/ OnStop \/ WriteStop \/ Join
             \/ RestoreHandler \/ CloseReload \/ CloseStop \/ ClearDef \/ Dispose
  <2>1. /\ UNCHANGED <<sent, tpc>> /\ mpc \notin {"on_run", "notify_stopping"}
        /\ mpc' \in ReadyDue => mpc \in ReadyDue
    BY <1>6 DEF StartStopFd, StartReload, Register, OnStart, OnStop, WriteStop, Join,
         RestoreHandler, CloseReload, CloseStop, ClearDef, Dispose, Main, thread_vars, ReadyDue
  <2> QED  BY <2>1, ReportsNothing
<1>7. CASE OnRunTold \/ OnRunFails
  <2>1. UNCHANGED <<sent, tpc>> /\ mpc = "on_run" /\ mpc' = "notify_stopping"
    BY <1>7 DEF OnRunTold, OnRunFails, OnRunReturns, Main, thread_vars
  <2> QED  BY <2>1, ReportsNothing DEF ReadyDue
<1>8. CASE ThreadBegin \/ ThreadSetupStop \/ ThreadSetupReload \/ ThreadSetupBus
             \/ OnStopRequested \/ OnReloadRequested \/ OnDbusSignal \/ OnEventReturns
             \/ LoopFails \/ Cleanup
  <2>1. UNCHANGED <<sent, mpc>> /\ tpc # "on_reload" /\ tpc' # "on_reload"
    BY <1>8 DEF ThreadBegin, ThreadSetupStop, ThreadSetupReload, ThreadSetupBus,
         OnStopRequested, OnReloadRequested, OnDbusSignal, OnEventReturns, LoopFails,
         Cleanup, Thread, main_vars
  <2> QED  BY <2>1, ReportsNothing
<1>9. CASE (\E t \in SignalThreads : HandlerStep(t)) \/ Hup \/ Term \/ WatchdogKill \/ Gone \/ UNCHANGED vars
  <2>1. UNCHANGED <<sent, mpc, tpc>>
    BY <1>9 DEF HandlerStep, HandlerTest, HandlerWrite, Hup, Term, WatchdogKill, Gone, vars, main_vars, thread_vars
  <2> QED  BY <2>1, ReportsNothing
<1> QED
  BY <1>1, <1>2, <1>3, <1>4, <1>5, <1>6, <1>7, <1>8, <1>9
  DEF Next, MainStep, ThreadStep, SignalThreads

\* What is sent last is the last report, unless it is STOPPING=1, which leaves it as it was.
LEMMA LastReportOfAppend ==
  ASSUME sent \in Seq(Messages), NEW x \in Messages, sent' = Append(sent, x),
         NEW m \in {"READY", "RELOADING"}
  PROVE  LastReport(m)' <=> (IF x = "STOPPING" THEN LastReport(m) ELSE m = x)
<1> DEFINE n == Len(sent)
<1>1. /\ n \in Nat /\ DOMAIN sent = 1..n
      /\ DOMAIN sent' = 1..(n + 1)
      /\ \A i \in 1..n : sent'[i] = sent[i]
      /\ sent'[n + 1] = x
  OBVIOUS
<1>2. CASE x = "STOPPING"
  <2>1. LastReport(m) => LastReport(m)'
    <3> SUFFICES ASSUME NEW i \in 1..n, sent[i] = m,
                        \A j \in 1..n : j > i => sent[j] = "STOPPING"
                 PROVE  LastReport(m)'
      BY <1>1 DEF LastReport
    <3>1. i \in 1..(n + 1) /\ sent'[i] = m
          /\ \A j \in 1..(n + 1) : j > i => sent'[j] = "STOPPING"
      BY <1>1, <1>2
    <3> QED  BY <1>1, <3>1 DEF LastReport
  <2>2. LastReport(m)' => LastReport(m)
    <3> SUFFICES ASSUME NEW i \in 1..(n + 1), sent'[i] = m,
                        \A j \in 1..(n + 1) : j > i => sent'[j] = "STOPPING"
                 PROVE  LastReport(m)
      BY <1>1 DEF LastReport
    <3>1. i \in 1..n  BY <1>1, <1>2
    <3>2. sent[i] = m /\ \A j \in 1..n : j > i => sent[j] = "STOPPING"
      BY <1>1, <3>1
    <3> QED  BY <1>1, <3>1, <3>2 DEF LastReport
  <2> QED  BY <1>2, <2>1, <2>2
<1>3. CASE x # "STOPPING"
  <2>1. m = x => LastReport(m)'
    <3>1. n + 1 \in 1..(n + 1) /\ \A j \in 1..(n + 1) : ~(j > n + 1)  BY <1>1
    <3> QED  BY <1>1, <3>1 DEF LastReport
  <2>2. LastReport(m)' => m = x
    <3> SUFFICES ASSUME NEW i \in 1..(n + 1), sent'[i] = m,
                        \A j \in 1..(n + 1) : j > i => sent'[j] = "STOPPING"
                 PROVE  m = x
      BY <1>1 DEF LastReport
    <3>1. i = n + 1  BY <1>1, <1>3
    <3> QED  BY <1>1, <3>1
  <2> QED  BY <1>3, <2>1, <2>2
<1> QED  BY <1>2, <1>3

\* Steps that send nothing, begin and end no reload and leave main on its side of its
\* READY=1 keep the last report in line with the reload.
LEMMA AnnouncesNothing ==
  ASSUME Announced, UNCHANGED <<sent, early>>, tpc' = "on_reload" <=> tpc = "on_reload",
         mpc' \in ReadyDue <=> mpc \in ReadyDue
  PROVE  Announced'
<1>1. LastReport("RELOADING")' = LastReport("RELOADING")  BY DEF LastReport
<1> QED  BY <1>1 DEF Announced, ReloadAnnounced

\* Every step keeps systemd's view of a reload in line with the event thread.
LEMMA AnnouncedStep ==
  TypeOK /\ Resources /\ Announced /\ [Next]_vars => Announced'
<1> SUFFICES ASSUME TypeOK, Resources, Announced, [Next]_vars PROVE Announced'
  OBVIOUS
<1>t. sent \in Seq(Messages)  BY DEF TypeOK, ValuesOK
<1>r. {"READY", "RELOADING", "STOPPING"} = Messages  BY DEF Messages
<1>1. CASE NotifyReady
  <2>1. /\ mpc = "notify_ready" /\ mpc' = "on_run" /\ tpc' = tpc /\ early' = early
        /\ sent' = Append(sent, "READY")
    BY <1>1 DEF NotifyReady, Main, Notify, thread_vars
  <2>2. ~LastReport("RELOADING")'  BY <1>t, <1>r, <2>1, LastReportOfAppend
  <2> QED  BY <2>1, <2>2 DEF Announced, ReloadAnnounced, ReadyDue
<1>2. CASE NotifyStopping
  <2>1. /\ mpc = "notify_stopping" /\ mpc' = "on_stop" /\ tpc' = tpc /\ early' = early
        /\ sent' = Append(sent, "STOPPING")
    BY <1>2 DEF NotifyStopping, Main, Notify, thread_vars
  <2>2. LastReport("RELOADING")' <=> LastReport("RELOADING")
    BY <1>t, <1>r, <2>1, LastReportOfAppend
  <2> QED  BY <2>1, <2>2 DEF Announced, ReloadAnnounced, ReadyDue
<1>3. CASE DispatchReload
  <2>1. /\ tpc' = "on_reload" /\ mpc' = mpc /\ early' = (mpc \in ReadyDue)
        /\ sent' = Append(sent, "RELOADING")
    BY <1>3 DEF DispatchReload, Thread, Notify, main_vars
  <2>2. LastReport("RELOADING")'  BY <1>t, <1>r, <2>1, LastReportOfAppend
  <2> QED  BY <2>1, <2>2 DEF Announced, ReloadAnnounced
<1>4. CASE OnReloadReturns
  <2>1. /\ tpc' = "loop" /\ mpc' = mpc
        /\ sent' = Append(sent, "READY")
    BY <1>4 DEF OnReloadReturns, Thread, Notify, main_vars
  <2>2. ~LastReport("RELOADING")'  BY <1>t, <1>r, <2>1, LastReportOfAppend
  <2> QED  BY <2>1, <2>2 DEF Announced, ReloadAnnounced
<1>5. CASE StartThread
  <2>1. tpc \in {"none", "ended"} /\ mpc = "start_thread"
    BY <1>5 DEF StartThread, Main, Resources, SharedWhileJoinable, StartPc, ServicePc
  <2>2. UNCHANGED <<sent, early>> /\ mpc' = "register" /\ tpc' \in {"begin", tpc}
    BY <1>5 DEF StartThread, Main
  <2> QED  BY <2>1, <2>2, AnnouncesNothing DEF ReadyDue
<1>6. CASE StartStopFd \/ StartReload \/ Register \/ OnStop \/ Join
             \/ RestoreHandler \/ CloseReload \/ CloseStop \/ ClearDef \/ Dispose
  <2>1. UNCHANGED <<sent, early, tpc>> /\ (mpc' \in ReadyDue <=> mpc \in ReadyDue)
    BY <1>6 DEF StartStopFd, StartReload, Register, OnStop, Join,
         RestoreHandler, CloseReload, CloseStop, ClearDef, Dispose, Main, thread_vars, ReadyDue
  <2> QED  BY <2>1, AnnouncesNothing
<1>7. CASE OnRunTold \/ OnRunFails \/ WriteStop
  <2>1. UNCHANGED <<sent, early, tpc>> /\ mpc \notin ReadyDue /\ mpc' \notin ReadyDue
    BY <1>7 DEF OnRunTold, OnRunFails, OnRunReturns, WriteStop, Main, thread_vars, ReadyDue
  <2> QED  BY <2>1, AnnouncesNothing
<1>8. CASE OnStart
  <2>1. /\ UNCHANGED <<sent, early, tpc>> /\ mpc = "on_start"
        /\ mpc' \in {"notify_ready", "write_stop"}
    BY <1>8 DEF OnStart, Main, thread_vars
  <2>2. LastReport("RELOADING")' = LastReport("RELOADING")  BY <2>1 DEF LastReport
  <2> QED  BY <2>1, <2>2 DEF Announced, ReloadAnnounced, ReadyDue
<1>9. CASE ThreadBegin \/ ThreadSetupStop \/ ThreadSetupReload \/ ThreadSetupBus
             \/ OnStopRequested \/ OnReloadRequested \/ OnDbusSignal \/ OnEventReturns
             \/ LoopFails \/ Cleanup
  <2>1. UNCHANGED <<sent, early, mpc>> /\ tpc # "on_reload" /\ tpc' # "on_reload"
    BY <1>9 DEF ThreadBegin, ThreadSetupStop, ThreadSetupReload, ThreadSetupBus,
         OnStopRequested, OnReloadRequested, OnDbusSignal, OnEventReturns, LoopFails,
         Cleanup, Thread, main_vars
  <2> QED  BY <2>1, AnnouncesNothing
<1>10. CASE (\E t \in SignalThreads : HandlerStep(t)) \/ Hup \/ Term \/ WatchdogKill \/ Gone
              \/ UNCHANGED vars
  <2>1. UNCHANGED <<sent, early, mpc, tpc>>
    BY <1>10 DEF HandlerStep, HandlerTest, HandlerWrite, Hup, Term, WatchdogKill, Gone, vars,
         main_vars, thread_vars
  <2> QED  BY <2>1, AnnouncesNothing
<1> QED
  BY <1>1, <1>2, <1>3, <1>4, <1>5, <1>6, <1>7, <1>8, <1>9, <1>10
  DEF Next, MainStep, ThreadStep, SignalThreads

\* Every step keeps the handler while the service can be told to reload.
LEMMA HandlerStandsStep ==
  Resources /\ HandlerStands /\ [Next]_vars => HandlerStands'
<1> SUFFICES ASSUME Resources, HandlerStands, [Next]_vars PROVE HandlerStands'
  OBVIOUS
<1> USE DEF HandlerStands
<1>1. CASE StartStopFd \/ StartReload \/ StartThread
  BY <1>1 DEF StartStopFd, StartReload, StartThread, Main, Alive, ServicePc, StartPc,
       env_vars, Resources, ReleasedInOrder, HandlerHasFd
<1>2. CASE Register \/ OnStart \/ NotifyReady \/ OnRunTold \/ OnRunFails \/ NotifyStopping
             \/ OnStop
  <2>1. UNCHANGED <<handler, reload_fd, death>> /\ mpc \in ServicePc
    BY <1>2 DEF Register, OnStart, NotifyReady, OnRunTold, OnRunFails, OnRunReturns,
         NotifyStopping, OnStop, Main, shared_vars, env_vars, ServicePc
  <2> QED  BY <2>1
<1>3. CASE WriteStop \/ Join \/ RestoreHandler \/ CloseReload \/ CloseStop \/ ClearDef \/ Dispose
  BY <1>3 DEF WriteStop, Join, RestoreHandler, CloseReload, CloseStop, ClearDef, Dispose,
       Main, Alive, shared_vars, env_vars, ServicePc
<1>4. CASE ThreadStep \/ LoopFails \/ \E t \in SignalThreads : HandlerStep(t)
  <2>1. UNCHANGED <<handler, reload_fd, mpc>> /\ death' \in {death, "none", "SIGSEGV"}
    BY <1>4 DEF ThreadStep, ThreadBegin, ThreadSetupStop, ThreadSetupReload, ThreadSetupBus,
         OnStopRequested, OnReloadRequested, DispatchReload, OnReloadReturns, OnDbusSignal,
         OnEventReturns, LoopFails, Cleanup, HandlerStep, HandlerTest, HandlerWrite,
         main_vars, shared_vars, env_vars
  <2> QED  BY <2>1
<1>5. CASE Hup
  <2>1. UNCHANGED <<handler, reload_fd, mpc>> /\ (death' = death \/ ~handler)
    BY <1>5 DEF Hup, main_vars, shared_vars
  <2> QED  BY <2>1
<1>6. CASE Term \/ WatchdogKill \/ Gone \/ UNCHANGED vars
  <2>1. UNCHANGED <<handler, reload_fd, mpc>> /\ death' \in {death, "SIGTERM", "WATCHDOG"}
    BY <1>6 DEF Term, WatchdogKill, Gone, vars, main_vars, shared_vars, env_vars
  <2> QED  BY <2>1
<1> QED
  BY <1>1, <1>2, <1>3, <1>4, <1>5, <1>6 DEF Next, MainStep, SignalThreads

\* What has been reported and the handler hold together with the shared resources.
LEMMA ReportedInvariance == Spec => [](Reported /\ HandlerStands)
<1>1. Init => Reported /\ HandlerStands
  <2> SUFFICES ASSUME Init PROVE Reported /\ HandlerStands
    OBVIOUS
  <2>1. \A m : Sent(m) = 0
    <3> TAKE m
    <3>1. {i \in DOMAIN sent : sent[i] = m} = {}  BY DEF Init
    <3> QED  BY <3>1, FS_EmptySet DEF Sent
  <2>2. Reported  BY <2>1 DEF Init, Reported, OpenReloads, ReadyDue
  <2>3. HandlerStands  BY DEF Init, HandlerStands, ServicePc
  <2> QED  BY <2>2, <2>3
<1> QED
  BY <1>1, Invariance, ReportedStep, HandlerStandsStep, PTL DEF Spec

\* systemd's last word on a reload is RELOADING=1 exactly while on_reload runs, but for a
\* reload that was under way when main sent its READY=1.
THEOREM ReloadIsAnnounced == Spec => []ReloadAnnounced
<1>1. Init => Announced
  BY DEF Init, Announced, ReloadAnnounced, LastReport
<1>2. Announced => ReloadAnnounced
  BY DEF Announced
<1> QED
  BY <1>1, <1>2, AnnouncedStep, Invariance, PTL DEF Spec

\* From the READY=1 after on_start to STOPPING=1 a SIGHUP finds its handler, unless the
\* set-up of the eventfd or of the handler had failed.
THEOREM SighupIsNotFatal == Spec => []ReloadNeverKills
<1>1. TypeOK /\ Reported /\ HandlerStands => ReloadNeverKills
  <2> SUFFICES ASSUME TypeOK, Reported, HandlerStands, death = "SIGHUP",
                      Sent("READY") > Sent("RELOADING"), ~Contains(sent, "STOPPING")
               PROVE  reload_fd = "none"
    BY DEF ReloadNeverKills
  <2>1. Sent("READY") \in Nat /\ Sent("RELOADING") \in Nat
    BY SentIsNat DEF TypeOK, ValuesOK
  <2>2. mpc \in {"on_run", "notify_stopping"}  BY <2>1 DEF Reported, OpenReloads
  <2> QED  BY <2>2 DEF HandlerStands, ServicePc, TypeOK, ValuesOK
<1> QED
  BY Typing, ReportedInvariance, <1>1, PTL

-----------------------------------------------------------------------------
(***************************************************************************)
(* The stop abstraction, by which main waits and any thread requests the   *)
(* stop: LinuxService has it as one flag that is set once and for all.     *)
(***************************************************************************)

\* The wait of on_run holds the lock between these labels.
MainHolds == {"wait_test", "cv_wait", "wait_read"}

\* Main is in on_start or in the loop of on_run, where nothing is disposed.
MainInService == {"register", "on_start", "run", "wait_lock", "sleep", "relock",
                  "poll_lock"}
                 \cup MainHolds

(* The part of the state on which the absence of lost wakeups rests: the    *)
(* critical sections exclude each other, between the test of the flag and   *)
(* the sleep nobody can have set it, and until on_run has ended the         *)
(* primitives are live and no verdict has been given.                       *)
LockInv ==
  /\ \A r \in Requesters : pc[r] \in {"set", "unlock"} => owner = r
  /\ pc[MainThread] \in MainHolds => owner = MainThread
  /\ pc[MainThread] = "create_cv" => s_stop_lock = "live"
  /\ pc[MainThread] \in MainInService => s_stop_lock = "live" /\ s_stop_cv = "live"
  /\ pc[MainThread] \in MainInService \cup {"create_lock", "create_cv"}
       => verdict = "waiting"
  /\ pc[MainThread] = "cv_wait" => s_stop_requested = 0

StopInv == StopTypeOK /\ LockInv /\ NoLostWakeup

-----------------------------------------------------------------------------
\* Every call keeps the types: the flag stays 0 or 1 however often a stop is
\* requested (svc_request_stop is idempotent) and every label is a known one.
THEOREM StopTyping == StopSpec => []StopTypeOK
<1> USE ThreadsAssumption DEF StopTypeOK, Threads, Primitive, RequesterPc, StopMainPc
<1>1. StopInit => StopTypeOK
  BY DEF StopInit
<1>2. StopTypeOK /\ [StopNext]_stop_vars => StopTypeOK'
  <2> SUFFICES ASSUME StopTypeOK, [StopNext]_stop_vars PROVE StopTypeOK'
    OBVIOUS
  <2> USE DEF Goto
  <2>1. ASSUME NEW r \in Requesters, svc_request_stop(r) PROVE StopTypeOK'
    <3>1. CASE RequestCheck(r)  BY <3>1 DEF RequestCheck
    <3>2. CASE RequestLock(r)  BY <3>2 DEF RequestLock
    <3>3. CASE RequestSet(r)  BY <3>3 DEF RequestSet
    <3>4. CASE RequestUnlock(r)  BY <3>4 DEF RequestUnlock
    <3>5. CASE RequestBroadcast(r)  BY <3>5 DEF RequestBroadcast
    <3> QED  BY <2>1, <3>1, <3>2, <3>3, <3>4, <3>5 DEF svc_request_stop
  <2>2. CASE svc_wait_for_stop
    BY <2>2 DEF svc_wait_for_stop, WaitCall, WaitLock, WaitTest, CondvarWait, WaitReturn
  <2>3. CASE WakeByTimeout \/ svc_stop_requested
    BY <2>3 DEF WakeByTimeout, svc_stop_requested
  <2>4. CASE main
    BY <2>4 DEF main, CreateLock, CreateCondvar, RegisterCallback, StartReturns,
                DisposePrimitives
  <2>5. CASE RunGivesUp  BY <2>5 DEF RunGivesUp
  <2>6. CASE UNCHANGED stop_vars  BY <2>6 DEF stop_vars
  <2> QED
    BY <2>1, <2>2, <2>3, <2>4, <2>5, <2>6 DEF StopNext, Exited
<1> QED
  BY <1>1, <1>2, PTL DEF StopSpec

-----------------------------------------------------------------------------
LEMMA LockInvInit == StopInit => LockInv /\ NoLostWakeup
  BY ThreadsAssumption DEF StopInit, LockInv, NoLostWakeup, Threads, MainInService, MainHolds

\* Each step keeps the critical sections apart and the flag stable between
\* the test of it and the sleep.
LEMMA LockInvStep == StopInv /\ [StopNext]_stop_vars => LockInv'
<1> SUFFICES ASSUME StopTypeOK, LockInv, [StopNext]_stop_vars PROVE LockInv'
  BY DEF StopInv
<1> USE ThreadsAssumption DEF StopTypeOK, Threads, LockInv, MainInService, MainHolds, Goto
<1>1. ASSUME NEW r \in Requesters, svc_request_stop(r) PROVE LockInv'
  <2>1. CASE RequestCheck(r)  BY <2>1 DEF RequestCheck
  <2>2. CASE RequestLock(r)  BY <2>2 DEF RequestLock
  <2>3. CASE RequestSet(r)  BY <2>3 DEF RequestSet
  <2>4. CASE RequestUnlock(r)  BY <2>4 DEF RequestUnlock
  <2>5. CASE RequestBroadcast(r)  BY <2>5 DEF RequestBroadcast
  <2> QED  BY <1>1, <2>1, <2>2, <2>3, <2>4, <2>5 DEF svc_request_stop
<1>2. CASE svc_wait_for_stop
  BY <1>2 DEF svc_wait_for_stop, WaitCall, WaitLock, WaitTest, CondvarWait, WaitReturn
<1>3. CASE WakeByTimeout \/ svc_stop_requested
    BY <1>3 DEF WakeByTimeout, svc_stop_requested
<1>4. CASE main
  BY <1>4 DEF main, CreateLock, CreateCondvar, RegisterCallback, StartReturns,
              DisposePrimitives
<1>5. CASE RunGivesUp  BY <1>5 DEF RunGivesUp
<1>6. CASE UNCHANGED stop_vars  BY <1>6 DEF stop_vars
<1> QED
  BY <1>1, <1>2, <1>3, <1>4, <1>5, <1>6 DEF StopNext, Exited

\* The thread that sets the flag while main sleeps keeps its broadcast before
\* it until main is awake; main only goes to sleep with the flag still clear.
LEMMA NoLostWakeupStep == StopInv /\ [StopNext]_stop_vars => NoLostWakeup'
<1> SUFFICES ASSUME StopTypeOK, LockInv, NoLostWakeup, [StopNext]_stop_vars PROVE NoLostWakeup'
  BY DEF StopInv
<1> USE ThreadsAssumption DEF StopTypeOK, Threads, LockInv, MainInService, MainHolds, Goto
<1>1. ASSUME NEW r \in Requesters, svc_request_stop(r) PROVE NoLostWakeup'
  <2> USE DEF NoLostWakeup
  <2>1. CASE RequestCheck(r)  BY <2>1 DEF RequestCheck
  <2>2. CASE RequestLock(r)  BY <2>2 DEF RequestLock
  <2>3. CASE RequestSet(r)  BY <2>3 DEF RequestSet
  <2>4. CASE RequestUnlock(r)  BY <2>4 DEF RequestUnlock
  <2>5. CASE RequestBroadcast(r)
    <3>1. pc'[MainThread] # "sleep"  BY <2>5 DEF RequestBroadcast
    <3> QED  BY <3>1
  <2> QED  BY <1>1, <2>1, <2>2, <2>3, <2>4, <2>5 DEF svc_request_stop
<1>2. CASE svc_wait_for_stop
  <2>1. \A r \in Requesters : pc'[r] = pc[r]
    BY <1>2 DEF svc_wait_for_stop, WaitCall, WaitLock, WaitTest, CondvarWait, WaitReturn
  <2>2. pc'[MainThread] = "sleep" => s_stop_requested' = 0
    BY <1>2 DEF svc_wait_for_stop, WaitCall, WaitLock, WaitTest, CondvarWait, WaitReturn
  <2> QED  BY <2>2 DEF NoLostWakeup
<1>3. CASE WakeByTimeout \/ svc_stop_requested
    BY <1>3 DEF WakeByTimeout, svc_stop_requested, NoLostWakeup
<1>4. CASE main
  BY <1>4 DEF main, CreateLock, CreateCondvar, RegisterCallback, StartReturns,
              DisposePrimitives, NoLostWakeup
<1>5. CASE RunGivesUp  BY <1>5 DEF RunGivesUp, NoLostWakeup
<1>6. CASE UNCHANGED stop_vars  BY <1>6 DEF stop_vars, NoLostWakeup
<1> QED
  BY <1>1, <1>2, <1>3, <1>4, <1>5, <1>6 DEF StopNext, Exited

\* The inductive invariant.
THEOREM StopInvariance == StopSpec => []StopInv
<1>1. StopInit => LockInv /\ NoLostWakeup
  BY LockInvInit
<1>2. StopInv /\ [StopNext]_stop_vars => LockInv' /\ NoLostWakeup'
  BY LockInvStep, NoLostWakeupStep
<1>3. LockInv /\ NoLostWakeup /\ StopTypeOK => StopInv
  BY DEF StopInv
<1>4. StopInv /\ StopTypeOK' /\ LockInv' /\ NoLostWakeup' => StopInv'
  BY DEF StopInv
<1> QED
  BY <1>1, <1>2, <1>3, <1>4, StopTyping, PTL DEF StopSpec

\* A stop request is never lost between the test of the flag and the sleep of
\* svc_wait_for_stop, for any number of concurrent requests.
THEOREM WakeupNotLost == StopSpec => []NoLostWakeup
<1>1. StopInv => NoLostWakeup
  BY DEF StopInv
<1> QED
  BY <1>1, StopInvariance, PTL

-----------------------------------------------------------------------------
\* Safety half of ImplementsContract: every step of the lock, flag and condition
\* variable is a step of the contract or leaves it alone, so on_run is told to
\* stop only after a request and a request is never withdrawn.
THEOREM ImplementsContractSafety ==
  StopSpec => Contract!Init /\ [][Contract!Next]_(Contract!vars)
<1> USE ThreadsAssumption DEF Contract!vars
<1>1. StopInit => Contract!Init
  BY DEF StopInit, Contract!Init
<1>2. StopInv /\ [StopNext]_stop_vars => [Contract!Next]_(Contract!vars)
  <2> SUFFICES ASSUME StopTypeOK, LockInv, [StopNext]_stop_vars
               PROVE  [Contract!Next]_(Contract!vars)
    BY DEF StopInv
  <2> USE DEF StopTypeOK, LockInv, MainInService, MainHolds, Goto, Contract!Next, Contract!Request,
              Contract!Tell, Contract!Leave
  <2>1. ASSUME NEW r \in Requesters, svc_request_stop(r)
        PROVE  [Contract!Next]_(Contract!vars)
    BY <2>1 DEF svc_request_stop, RequestCheck, RequestLock, RequestSet,
                RequestUnlock, RequestBroadcast
  <2>2. CASE svc_wait_for_stop
    BY <2>2 DEF svc_wait_for_stop, WaitCall, WaitLock, WaitTest, CondvarWait, WaitReturn
  <2>3. CASE WakeByTimeout \/ svc_stop_requested
    BY <2>3 DEF WakeByTimeout, svc_stop_requested
  <2>4. CASE main
    BY <2>4 DEF main, CreateLock, CreateCondvar, RegisterCallback, StartReturns,
                DisposePrimitives
  <2>5. CASE RunGivesUp  BY <2>5 DEF RunGivesUp
  <2>6. CASE UNCHANGED stop_vars  BY <2>6 DEF stop_vars
  <2> QED
    BY <2>1, <2>2, <2>3, <2>4, <2>5, <2>6 DEF StopNext, Exited
<1> QED
  BY <1>1, <1>2, StopInvariance, PTL DEF StopSpec
=============================================================================
