----------------------------- MODULE LinuxService -----------------------------
(***************************************************************************)
(* One run of `service-sample run` under systemd: the main thread          *)
(* (svc_os_run_service around svc_run_lifecycle), the OS-event thread of   *)
(* service-sample_linux_events.c, the SIGHUP handler that forwards to an   *)
(* eventfd, and systemd, which sends SIGTERM and SIGHUP, receives the      *)
(* sd_notify messages and runs the watchdog.  The stop abstraction is the  *)
(* flag that StopEvent implements; logind's part of an OS event is in      *)
(* LogindInhibitor.                                                        *)
(***************************************************************************)
EXTENDS Integers, SequencesExt

CONSTANTS
  Codes,          \* values a lifecycle callback may return
  HasEvent,       \* svc_definition.on_event is set
  HasReload,      \* svc_definition.on_reload is set
  Faults,         \* the system calls that may fail
  JoinTimesOut,   \* the event thread may take longer than the join waits
  HupAnytime,     \* SIGHUP comes from anybody, not only from systemctl reload
  MaxHups,        \* bound: SIGHUPs sent
  MaxEvents       \* bound: D-Bus signals dispatched

FaultPoints == {"stop_eventfd", "reload_eventfd", "sigaction", "thread",
                "sd_event_new", "watchdog", "add_stop", "add_reload", "bus", "loop"}

ASSUME CodesAssumption == Codes \subseteq 0..255 /\ 0 \in Codes
ASSUME FlagsAssumption == /\ HasEvent \in BOOLEAN /\ HasReload \in BOOLEAN
                          /\ JoinTimesOut \in BOOLEAN /\ HupAnytime \in BOOLEAN
ASSUME BoundsAssumption == /\ Faults \subseteq FaultPoints
                           /\ MaxHups \in Nat /\ MaxEvents \in Nat

VARIABLES
  \* main thread
  mpc, rc, thread, detached, handler, tracer,
  \* shared: s_ctx and the stop flag
  stop_requested, def, stop_fd, reload_fd,
  stop_count, reload_count,   \* the two eventfd counters: readable or not
  \* event thread
  tpc, reload_watched, watchdog, bus, locks,
  hpc,            \* per thread: where sighup_signal_handler() has interrupted it
  \* systemd
  sent, death, hups, events,
  \* history, for the properties only
  hup_due,        \* a SIGHUP was forwarded after the last on_reload began
  early,          \* the last reload began before main had sent READY=1
  misuse          \* uses of something main had already given up: the tracer, and the
                  \* threads whose SIGHUP handler wrote to the descriptor after its close

main_vars == <<mpc, rc, thread, detached, handler, tracer>>
shared_vars == <<stop_requested, def, stop_fd, reload_fd>>
count_vars == <<stop_count, reload_count>>
thread_vars == <<tpc, reload_watched, watchdog, bus, locks>>
env_vars == <<death, hups, events>>
vars == <<main_vars, shared_vars, count_vars, thread_vars, hpc, sent, env_vars,
          hup_due, early, misuse>>

MainPc == {"start_stop_fd", "start_reload", "start_thread", "register", "on_start",
           "notify_ready", "on_run", "notify_stopping", "on_stop", "write_stop",
           "join", "restore", "close_reload", "close_stop", "clear_def",
           "dispose", "close_tracer", "null_tracer", "exit"}
ThreadPc == {"none", "begin", "setup_stop", "setup_reload", "setup_bus", "loop",
             "reloading", "on_reload", "on_event", "cleanup", "ended"}
Messages == {"READY", "RELOADING", "STOPPING"}

\* SIGHUP is process-directed: it runs on main, on the event thread, or on a helper,
\* which stands for the threads of the tracer and of the shutdown callback.
SignalThreads == {"main", "events", "helper"}
ReadyDue == {"start_stop_fd", "start_reload", "start_thread", "register", "on_start",
             "notify_ready"}

Alive == death = "none" /\ mpc # "exit"
ThreadRunning == Alive /\ tpc \notin {"none", "ended"} /\ hpc["events"] = "idle"

\* shutdown_request_callback is registered, the stop primitives still exist.
TermHandled == mpc \notin {"start_stop_fd", "start_reload", "start_thread", "register",
                           "close_tracer", "null_tracer", "exit"}

Init ==
  /\ mpc = "start_stop_fd" /\ rc = 0 /\ thread = FALSE /\ detached = FALSE
  /\ handler = FALSE /\ tracer = "open"
  /\ stop_requested = FALSE /\ def = FALSE /\ stop_fd = "none" /\ reload_fd = "none"
  /\ stop_count = FALSE /\ reload_count = FALSE
  /\ tpc = "none" /\ reload_watched = FALSE /\ watchdog = FALSE /\ bus = FALSE
  /\ locks = FALSE /\ hpc = [t \in SignalThreads |-> "idle"]
  /\ sent = <<>> /\ death = "none" /\ hups = 0 /\ events = 0
  /\ hup_due = FALSE /\ early = FALSE /\ misuse = {}

Main(from, to) == Alive /\ hpc["main"] = "idle" /\ mpc = from /\ mpc' = to
Thread(from, to) == ThreadRunning /\ tpc = from /\ tpc' = to
Notify(message) == sent' = Append(sent, message)

\* com_util_tracer_write() from the event thread while main disposes the tracer.
Trace(also) ==
  misuse' = misuse \cup also \cup (IF tracer = "disposing" THEN {"tracer"} ELSE {})

-----------------------------------------------------------------------------
(* svc_linux_events_start() on the main thread *)

StartStopFd ==
  /\ \/ /\ Main("start_stop_fd", "start_reload")
        /\ stop_fd' = "open" /\ def' = TRUE
     \/ /\ "stop_eventfd" \in Faults       \* release_local_resources()
        /\ Main("start_stop_fd", "register")
        /\ stop_fd' = "none" /\ def' = FALSE
  /\ UNCHANGED <<rc, thread, detached, handler, tracer, stop_requested, reload_fd,
                 count_vars, thread_vars, hpc, sent, env_vars, hup_due, early, misuse>>

\* eventfd and sigaction; the failure of either closes the eventfd again.
StartReload ==
  /\ Main("start_reload", "start_thread")
  /\ \/ HasReload /\ handler' = TRUE /\ reload_fd' = "open"
     \/ /\ ~HasReload \/ Faults \cap {"reload_eventfd", "sigaction"} # {}
        /\ UNCHANGED <<handler, reload_fd>>
  /\ UNCHANGED <<rc, thread, detached, tracer, stop_requested, def, stop_fd,
                 count_vars, thread_vars, hpc, sent, env_vars, hup_due, early, misuse>>

StartThread ==
  /\ Main("start_thread", "register")
  /\ \/ /\ thread' = TRUE /\ tpc' = "begin"
        /\ UNCHANGED <<handler, reload_fd, stop_fd, def, reload_count, hup_due>>
     \/ /\ "thread" \in Faults              \* release_local_resources()
        /\ handler' = FALSE /\ reload_fd' = "none" /\ stop_fd' = "none" /\ def' = FALSE
        /\ reload_count' = FALSE /\ hup_due' = FALSE
        /\ UNCHANGED <<thread, tpc>>
  /\ UNCHANGED <<rc, detached, tracer, stop_requested, stop_count,
                 reload_watched, watchdog, bus, locks, hpc, sent, env_vars, early, misuse>>

-----------------------------------------------------------------------------
(* svc_run_lifecycle() on the main thread *)

Register ==
  /\ Main("register", "on_start")
  /\ UNCHANGED <<rc, thread, detached, handler, tracer, shared_vars, count_vars,
                 thread_vars, hpc, sent, env_vars, hup_due, early, misuse>>

OnStart ==
  /\ \E c \in Codes :
       /\ Main("on_start", IF c = 0 THEN "notify_ready" ELSE "write_stop")
       /\ rc' = c
  /\ UNCHANGED <<thread, detached, handler, tracer, shared_vars, count_vars,
                 thread_vars, hpc, sent, env_vars, hup_due, early, misuse>>

NotifyReady ==
  /\ Main("notify_ready", "on_run")
  /\ Notify("READY")
  /\ UNCHANGED <<rc, thread, detached, handler, tracer, shared_vars, count_vars,
                 thread_vars, hpc, env_vars, hup_due, early, misuse>>

OnRunReturns(c) ==
  /\ Main("on_run", "notify_stopping")
  /\ rc' = c
  /\ UNCHANGED <<thread, detached, handler, tracer, shared_vars, count_vars,
                 thread_vars, hpc, sent, env_vars, hup_due, early, misuse>>

\* svc_wait_for_stop() returned 1; or on_run fails without being told to stop.
OnRunTold == stop_requested /\ \E c \in Codes : OnRunReturns(c)
OnRunFails == ~stop_requested /\ \E c \in Codes \ {0} : OnRunReturns(c)

\* Mutant: only a successful on_run is followed by STOPPING=1.
NotifyStoppingAfterSuccess ==
  /\ Main("notify_stopping", "on_stop")
  /\ IF rc = 0 THEN Notify("STOPPING") ELSE UNCHANGED sent
  /\ UNCHANGED <<rc, thread, detached, handler, tracer, shared_vars, count_vars,
                 thread_vars, hpc, env_vars, hup_due, early, misuse>>

NotifyStopping ==
  /\ Main("notify_stopping", "on_stop")
  /\ Notify("STOPPING")
  /\ UNCHANGED <<rc, thread, detached, handler, tracer, shared_vars, count_vars,
                 thread_vars, hpc, env_vars, hup_due, early, misuse>>

\* Mutant: the value of on_stop replaces the failure of on_run.
OnStopOverwrites ==
  /\ Main("on_stop", "write_stop")
  /\ \E c \in Codes : rc' = c
  /\ UNCHANGED <<thread, detached, handler, tracer, shared_vars, count_vars,
                 thread_vars, hpc, sent, env_vars, hup_due, early, misuse>>

OnStop ==
  /\ Main("on_stop", "write_stop")
  /\ \E c \in Codes : rc' = IF rc # 0 THEN rc ELSE c
  /\ UNCHANGED <<thread, detached, handler, tracer, shared_vars, count_vars,
                 thread_vars, hpc, sent, env_vars, hup_due, early, misuse>>

-----------------------------------------------------------------------------
(* svc_linux_events_stop() and the end of main() *)

WriteStop ==
  /\ Main("write_stop", IF thread THEN "join" ELSE "restore")
  /\ stop_count' = (stop_count \/ thread)
  /\ UNCHANGED <<rc, thread, detached, handler, tracer, shared_vars, reload_count,
                 thread_vars, hpc, sent, env_vars, hup_due, early, misuse>>

\* Mutant: the eventfds are closed without waiting for the thread.
JoinWithoutWaiting ==
  /\ Main("join", "restore")
  /\ thread' = FALSE
  /\ UNCHANGED <<rc, detached, handler, tracer, shared_vars, count_vars,
                 thread_vars, hpc, sent, env_vars, hup_due, early, misuse>>

\* Mutant: the join has no time limit.
JoinForever ==
  /\ Main("join", "restore")
  /\ tpc = "ended" /\ thread' = FALSE
  /\ UNCHANGED <<rc, detached, handler, tracer, shared_vars, count_vars,
                 thread_vars, hpc, sent, env_vars, hup_due, early, misuse>>

Join ==
  /\ Main("join", "restore")
  /\ \/ tpc = "ended" /\ UNCHANGED detached
     \/ JoinTimesOut /\ tpc # "ended" /\ detached' = TRUE
  /\ thread' = FALSE
  /\ UNCHANGED <<rc, handler, tracer, shared_vars, count_vars,
                 thread_vars, hpc, sent, env_vars, hup_due, early, misuse>>

\* release_local_resources(): the handler first, then the two eventfds.
RestoreHandler ==
  /\ Main("restore", "close_reload")
  /\ handler' = FALSE
  /\ UNCHANGED <<rc, thread, detached, tracer, shared_vars, count_vars,
                 thread_vars, hpc, sent, env_vars, hup_due, early, misuse>>

CloseReload ==
  /\ Main("close_reload", "close_stop")
  /\ reload_fd' = "none" /\ reload_count' = FALSE
  /\ UNCHANGED <<rc, thread, detached, handler, tracer, stop_requested, def, stop_fd,
                 stop_count, thread_vars, hpc, sent, env_vars, hup_due, early, misuse>>

CloseStop ==
  /\ Main("close_stop", "clear_def")
  /\ stop_fd' = "none" /\ stop_count' = FALSE
  /\ UNCHANGED <<rc, thread, detached, handler, tracer, stop_requested, def, reload_fd,
                 reload_count, thread_vars, hpc, sent, env_vars, hup_due, early, misuse>>

ClearDef ==
  /\ Main("clear_def", "dispose")
  /\ def' = FALSE
  /\ UNCHANGED <<rc, thread, detached, handler, tracer, stop_requested, stop_fd, reload_fd,
                 count_vars, thread_vars, hpc, sent, env_vars, hup_due, early, misuse>>

\* The condition variable and the lock go (what a late request then does is in
\* StopEvent); tracer_close() disposes the tracer, then clears the handle.
Dispose ==
  /\ \/ Main("dispose", "close_tracer") /\ UNCHANGED tracer
     \/ Main("close_tracer", "null_tracer") /\ tracer' = "disposing"
     \/ Main("null_tracer", "exit") /\ tracer' = "null"
  /\ UNCHANGED <<rc, thread, detached, handler, shared_vars, count_vars,
                 thread_vars, hpc, sent, env_vars, hup_due, early, misuse>>

-----------------------------------------------------------------------------
(* events_thread_func() *)

ThreadBegin ==
  /\ \/ Thread("begin", "setup_stop") /\ UNCHANGED misuse
     \/ "sd_event_new" \in Faults /\ Thread("begin", "ended") /\ Trace({})
  /\ UNCHANGED <<main_vars, shared_vars, count_vars, reload_watched, watchdog, bus, locks,
                 hpc, sent, env_vars, hup_due, early>>

\* sd_event_set_watchdog; without the stop source the loop is not entered.
ThreadSetupStop ==
  /\ \/ /\ stop_fd = "open"
        /\ Thread("setup_stop", "setup_reload")
        /\ UNCHANGED misuse
     \/ /\ stop_fd = "none" \/ "add_stop" \in Faults
        /\ Thread("setup_stop", "cleanup")
        /\ Trace({})
  /\ watchdog' = TRUE \/ ("watchdog" \in Faults /\ UNCHANGED watchdog)
  /\ UNCHANGED <<main_vars, shared_vars, count_vars, reload_watched, bus, locks,
                 hpc, sent, env_vars, hup_due, early>>

ThreadSetupReload ==
  /\ Thread("setup_reload", "setup_bus")
  /\ \/ reload_fd = "open" /\ reload_watched' = TRUE
     \/ /\ reload_fd = "none" \/ "add_reload" \in Faults
        /\ UNCHANGED reload_watched
  /\ UNCHANGED <<main_vars, shared_vars, count_vars, watchdog, bus, locks,
                 hpc, sent, env_vars, hup_due, early, misuse>>

\* s_ctx.def->on_event is read through the pointer main clears.
ThreadSetupBus ==
  /\ Thread("setup_bus", "loop")
  /\ death' = IF def THEN "none" ELSE "SIGSEGV"
  /\ IF def /\ HasEvent
     THEN \/ bus' = TRUE /\ locks' = TRUE /\ UNCHANGED misuse
          \/ /\ "bus" \in Faults /\ Trace({})
             /\ (bus' = TRUE /\ locks' \in BOOLEAN) \/ UNCHANGED <<bus, locks>>
     ELSE UNCHANGED <<bus, locks, misuse>>
  /\ UNCHANGED <<main_vars, shared_vars, count_vars, reload_watched, watchdog,
                 hpc, sent, hups, events, hup_due, early>>

\* on_stop_requested(): sd_event_exit().  A closed eventfd has left the epoll set.
OnStopRequested ==
  /\ Thread("loop", "cleanup")
  /\ stop_fd = "open" /\ stop_count
  /\ stop_count' = FALSE
  /\ UNCHANGED <<main_vars, shared_vars, reload_count, reload_watched, watchdog, bus, locks,
                 hpc, sent, env_vars, hup_due, early, misuse>>

ReloadReadable == reload_watched /\ reload_fd = "open" /\ reload_count

\* Mutant: the source is one-shot, a second SIGHUP is never dispatched.
OnReloadRequestedOnce ==
  /\ ReloadReadable
  /\ Thread("loop", IF def THEN "reloading" ELSE "loop")
  /\ reload_count' = FALSE /\ reload_watched' = FALSE
  /\ UNCHANGED <<main_vars, shared_vars, stop_count, watchdog, bus, locks,
                 hpc, sent, env_vars, hup_due, early, misuse>>

\* on_reload_requested(): read() takes the whole counter before the dispatch.
OnReloadRequested ==
  /\ ReloadReadable
  /\ Thread("loop", IF def THEN "reloading" ELSE "loop")
  /\ reload_count' = FALSE
  /\ UNCHANGED <<main_vars, shared_vars, stop_count, reload_watched, watchdog, bus, locks,
                 hpc, sent, env_vars, hup_due, early, misuse>>

\* Mutant: READY=1 goes out before the callback instead of after it.
DispatchReloadReadyFirst ==
  /\ Thread("reloading", "on_reload")
  /\ sent' = sent \o <<"RELOADING", "READY">> /\ hup_due' = FALSE
  /\ early' = (mpc \in ReadyDue) /\ Trace({})
  /\ UNCHANGED <<main_vars, shared_vars, count_vars, reload_watched, watchdog, bus, locks,
                 hpc, env_vars>>

\* svc_dispatch_reload(): RELOADING=1, on_reload(), READY=1.
DispatchReload ==
  /\ Thread("reloading", "on_reload")
  /\ Notify("RELOADING") /\ hup_due' = FALSE
  /\ early' = (mpc \in ReadyDue) /\ Trace({})
  /\ UNCHANGED <<main_vars, shared_vars, count_vars, reload_watched, watchdog, bus, locks,
                 hpc, env_vars>>

\* Mutant: the counter is emptied after the callback instead of before it.
OnReloadDrainsLate ==
  /\ Thread("on_reload", "loop")
  /\ Notify("READY") /\ reload_count' = FALSE
  /\ UNCHANGED <<main_vars, shared_vars, stop_count, reload_watched, watchdog, bus, locks,
                 hpc, env_vars, hup_due, early, misuse>>

OnReloadReturns ==
  /\ Thread("on_reload", "loop")
  /\ Notify("READY")
  /\ UNCHANGED <<main_vars, shared_vars, count_vars, reload_watched, watchdog, bus, locks,
                 hpc, env_vars, hup_due, early, misuse>>

\* A logind signal: svc_dispatch_event() calls on_event.
OnDbusSignal ==
  /\ bus /\ events < MaxEvents
  /\ Thread("loop", "on_event")
  /\ events' = events + 1
  /\ IF def THEN Trace({}) ELSE UNCHANGED misuse
  /\ UNCHANGED <<main_vars, shared_vars, count_vars, reload_watched, watchdog, bus, locks,
                 hpc, sent, death, hups, hup_due, early>>

\* on_event returned; an inhibitor lock is released, kept, or taken again, and
\* acquire_inhibit_lock() reads s_ctx.def->name without a check.
OnEventReturns ==
  /\ Thread("on_event", "loop")
  /\ \/ locks' = FALSE /\ UNCHANGED <<death, misuse>>
     \/ UNCHANGED <<locks, death, misuse>>
     \/ def /\ locks' = TRUE /\ UNCHANGED <<death, misuse>>
     \/ def /\ "bus" \in Faults /\ Trace({}) /\ UNCHANGED <<locks, death>>
     \/ ~def /\ death' = "SIGSEGV" /\ UNCHANGED <<locks, misuse>>
  /\ UNCHANGED <<main_vars, shared_vars, count_vars, reload_watched, watchdog, bus,
                 hpc, sent, hups, events, hup_due, early>>

LoopFails ==
  /\ "loop" \in Faults
  /\ Thread("loop", "cleanup") /\ Trace({})
  /\ UNCHANGED <<main_vars, shared_vars, count_vars, reload_watched, watchdog, bus, locks,
                 hpc, sent, env_vars, hup_due, early>>

\* Mutant: the inhibitor locks are left to the end of the process.
CleanupKeepsLocks ==
  /\ Thread("cleanup", "ended")
  /\ bus' = FALSE
  /\ UNCHANGED <<main_vars, shared_vars, count_vars, reload_watched, watchdog, locks,
                 hpc, sent, env_vars, hup_due, early, misuse>>

Cleanup ==
  /\ Thread("cleanup", "ended")
  /\ locks' = FALSE /\ bus' = FALSE
  /\ UNCHANGED <<main_vars, shared_vars, count_vars, reload_watched, watchdog,
                 hpc, sent, env_vars, hup_due, early, misuse>>

-----------------------------------------------------------------------------
(* systemd, the terminal and the kernel *)

\* systemctl reload works on an active unit only; kill(1) at any time.
HupAllowed ==
  HupAnytime \/ (Contains(sent, "READY") /\ ~Contains(sent, "STOPPING"))

\* SIGHUP: the default action ends the process; the handler interrupts any thread that
\* is not in it already.
Hup ==
  /\ Alive /\ HupAllowed /\ hups < MaxHups
  /\ hups' = hups + 1
  /\ \/ ~handler /\ death' = "SIGHUP" /\ UNCHANGED hpc
     \/ /\ handler /\ UNCHANGED death
        /\ \E t \in SignalThreads :
             /\ hpc[t] = "idle" /\ (t = "events" => ThreadRunning)
             /\ hpc' = [hpc EXCEPT ![t] = "test"]
  /\ UNCHANGED <<main_vars, shared_vars, count_vars, thread_vars, sent, events,
                 hup_due, early, misuse>>

\* sighup_signal_handler(): the descriptor is tested here ...
HandlerTest(t) ==
  /\ Alive /\ hpc[t] = "test"
  /\ hpc' = [hpc EXCEPT ![t] = IF reload_fd = "open" THEN "write" ELSE "idle"]
  /\ UNCHANGED <<main_vars, shared_vars, count_vars, thread_vars, sent, env_vars,
                 hup_due, early, misuse>>

\* ... and written to here, when main may have closed it: s_ctx.reload_fd is either read
\* again, which then finds -1, or still the number of the descriptor that is gone.
HandlerWrite(t) ==
  /\ Alive /\ hpc[t] = "write"
  /\ hpc' = [hpc EXCEPT ![t] = "idle"]
  /\ IF reload_fd = "open"
     THEN reload_count' = TRUE /\ hup_due' = TRUE /\ UNCHANGED misuse
     ELSE /\ misuse' = misuse \cup {t} \/ UNCHANGED misuse
          /\ UNCHANGED <<reload_count, hup_due>>
  /\ UNCHANGED <<main_vars, shared_vars, stop_count, thread_vars, sent, env_vars, early>>

HandlerStep(t) == HandlerTest(t) \/ HandlerWrite(t)

\* SIGTERM or SIGINT: svc_request_stop() once the callback is registered.
Term ==
  /\ Alive /\ ~stop_requested
  /\ \/ TermHandled /\ stop_requested' = TRUE /\ UNCHANGED death
     \/ mpc \in {"start_stop_fd", "start_reload", "start_thread", "register"}
        /\ death' = "SIGTERM" /\ UNCHANGED stop_requested
  /\ UNCHANGED <<main_vars, def, stop_fd, reload_fd, count_vars, thread_vars, hpc, sent,
                 hups, events, hup_due, early, misuse>>

\* WatchdogSec=30: nobody sends WATCHDOG=1 any more.
WatchdogKill ==
  /\ Alive /\ mpc = "on_run"
  /\ tpc \in {"none", "ended"} \/ (tpc = "loop" /\ ~watchdog)
  /\ death' = "WATCHDOG"
  /\ UNCHANGED <<main_vars, shared_vars, count_vars, thread_vars, hpc, sent, hups, events,
                 hup_due, early, misuse>>

Gone == ~Alive /\ UNCHANGED vars

MainStep ==
  \/ StartStopFd \/ StartReload \/ StartThread
  \/ Register \/ OnStart \/ NotifyReady \/ OnRunTold \/ NotifyStopping \/ OnStop
  \/ WriteStop \/ Join \/ RestoreHandler \/ CloseReload \/ CloseStop \/ ClearDef \/ Dispose
  \/ HandlerStep("main")

ThreadStep ==
  \/ ThreadBegin \/ ThreadSetupStop \/ ThreadSetupReload \/ ThreadSetupBus
  \/ OnStopRequested \/ OnReloadRequested \/ DispatchReload \/ OnReloadReturns
  \/ OnDbusSignal \/ OnEventReturns \/ Cleanup \/ HandlerStep("events")

Next == \/ MainStep \/ OnRunFails \/ ThreadStep \/ LoopFails \/ HandlerStep("helper")
        \/ Hup \/ Term \/ WatchdogKill \/ Gone

Spec == Init /\ [][Next]_vars

\* main runs; on_run may go on for ever until it is told to stop.
MainFairSpec == Spec /\ WF_vars(MainStep)

-----------------------------------------------------------------------------
(* Properties *)

FlagsOK ==
  /\ thread \in BOOLEAN /\ detached \in BOOLEAN /\ handler \in BOOLEAN
  /\ stop_requested \in BOOLEAN /\ def \in BOOLEAN
  /\ stop_count \in BOOLEAN /\ reload_count \in BOOLEAN
  /\ reload_watched \in BOOLEAN /\ watchdog \in BOOLEAN
  /\ bus \in BOOLEAN /\ locks \in BOOLEAN /\ hup_due \in BOOLEAN /\ early \in BOOLEAN

ValuesOK ==
  /\ mpc \in MainPc /\ rc \in Codes /\ tracer \in {"open", "disposing", "null"}
  /\ stop_fd \in {"none", "open"} /\ reload_fd \in {"none", "open"}
  /\ tpc \in ThreadPc /\ hpc \in [SignalThreads -> {"idle", "test", "write"}]
  /\ sent \in Seq(Messages) /\ hups \in 0..MaxHups /\ events \in 0..MaxEvents
  /\ death \in {"none", "SIGHUP", "SIGTERM", "SIGSEGV", "WATCHDOG"}
  /\ misuse \subseteq {"tracer"} \cup SignalThreads

\* Every variable has its type: the counters stay within their bounds and
\* systemd has received only the three messages of service-sample_linux.c.
TypeOK == FlagsOK /\ ValuesOK

lifecycle_phase ==
  IF mpc \in {"start_stop_fd", "start_reload", "start_thread", "register", "on_start"}
    THEN "starting"
  ELSE IF mpc \in {"notify_ready", "on_run"} THEN "running"
  ELSE IF mpc \in {"notify_stopping", "on_stop"} THEN "stopping" ELSE "stopped"

Lifecycle == INSTANCE ServiceLifecycle WITH phase <- lifecycle_phase, outcome <- rc

\* Whatever the event thread, the signals and systemd do in between, the process
\* calls on_start, on_run and on_stop as ServiceLifecycle promises and ends with
\* the value of the first callback that failed.
ImplementsLifecycle == Lifecycle!Spec

\* What the event thread shares with main (the definition, the two descriptors,
\* the tracer) outlives it: the process crashes on them, or main, the event thread or a
\* SIGHUP handler on one of the two uses what is gone, only after a join that timed out.
\* A handler on a thread that main never joins is left out: main restores the old action
\* before it closes the descriptor so that no handler writes to one that is closed
\* (service-sample_linux_events.c:526-527), but one that has begun there still may.
SafeUnlessDetached ==
  misuse \ {"helper"} # {} \/ death = "SIGSEGV" => detached

\* A SIGHUP that was forwarded is not lost: until on_reload has begun after it,
\* the eventfd is readable or the dispatch is on its way.
HupNotLost == hup_due /\ reload_fd = "open" => reload_count \/ tpc = "reloading"

\* The number of times a message was sent, and whether it is the last report of READY=1
\* and RELOADING=1 (STOPPING=1 takes neither back).
Sent(message) == Cardinality({i \in DOMAIN sent : sent[i] = message})
LastReport(message) ==
  \E i \in DOMAIN sent :
    sent[i] = message /\ \A j \in DOMAIN sent : j > i => sent[j] = "STOPPING"

\* systemd's view of a reload is that of the event thread: its last word is RELOADING=1
\* exactly while on_reload runs, whatever main reports in between.  The one exception is
\* told openly: a reload that began before main's READY=1 seems over when that is sent.
\* (Nothing is said of the READY=1 a reload sends before on_start has returned, or of the
\* one it sends after STOPPING=1.)
ReloadAnnounced ==
  \/ LastReport("RELOADING") <=> tpc = "on_reload"
  \/ tpc = "on_reload" /\ early /\ mpc \notin ReadyDue

\* When the process ends by itself nothing is left: no handler, no descriptor,
\* no inhibitor lock or bus connection, unless its thread had to be detached.
CleanExit ==
  mpc = "exit" => /\ ~handler /\ stop_fd = "none" /\ reload_fd = "none" /\ ~def
                  /\ detached \/ (~locks /\ ~bus /\ tpc \in {"none", "ended"})

\* svc_linux_events_start() that fails leaves nothing: without a thread that
\* reads it, no SIGHUP handler is installed and no eventfd stays open.
StartFailureLeavesNothing ==
  ~thread /\ ~detached /\ mpc \in {"register", "on_start", "notify_ready", "on_run",
                                   "notify_stopping", "on_stop", "write_stop"}
    => ~handler /\ reload_fd = "none" /\ stop_fd = "none" /\ ~def

\* Nothing leaks: neither a start of the event thread that failed nor the end of the
\* process leaves a handler, a descriptor, a lock or a connection behind.
NothingLeaks == StartFailureLeavesNothing /\ CleanExit

\* SIGHUP, fatal without a handler, never ends a service that systemctl would reload:
\* from the READY=1 after on_start to STOPPING=1 the handler is there, unless its set-up
\* failed.
ReloadNeverKills ==
  death = "SIGHUP" /\ Sent("READY") > Sent("RELOADING") /\ ~Contains(sent, "STOPPING") => reload_fd = "none"

\* A SIGHUP forwarded while on_run is running leads to a call of on_reload, also one that
\* comes while on_reload runs, if the callbacks of the event thread return; unless on_run
\* returns first, or the loop of the thread ended or could not watch the eventfd.
ReloadServed ==
  WF_vars(ThreadStep) =>
    ((hup_due /\ mpc = "on_run")
       ~> (~hup_due \/ mpc # "on_run" \/ ~Alive
             \/ tpc = "ended" \/ (tpc = "loop" /\ ~reload_watched /\ Sent("RELOADING") = 0)))

\* A stop request leads to the end of the process, whatever the event thread is
\* doing when main writes the stop eventfd and joins it.
StopLeadsToExit == stop_requested ~> ~Alive

-----------------------------------------------------------------------------
(* The inductive invariant behind the safety properties (LinuxService_proofs) *)

StartPc == {"start_stop_fd", "start_reload", "start_thread"}
ServicePc == {"register", "on_start", "notify_ready", "on_run", "notify_stopping", "on_stop",
              "write_stop"}
EndPc == {"close_tracer", "null_tracer", "exit"}

\* Until main has joined it, the event thread finds everything it shares with main.
SharedWhileJoinable ==
  /\ thread => mpc \in ServicePc \cup {"join"} /\ def /\ stop_fd = "open" /\ tpc # "none"
  /\ mpc = "join" => thread
  /\ tpc \notin {"none", "ended"} => thread \/ detached
  /\ detached => ~thread /\ mpc \notin StartPc \cup ServicePc \cup {"join"}
  /\ tracer # "open" => mpc \in {"null_tracer", "exit"}

\* The handler exists only while the eventfd it writes to does.
HandlerHasFd ==
  /\ handler => reload_fd = "open"
  /\ handler => mpc \in {"start_thread", "join", "restore"} \cup ServicePc
  /\ reload_fd = "open" => def
  /\ hpc["main"] = "write" => reload_fd = "open"
  /\ hpc["events"] # "idle" => tpc \notin {"none", "ended"}
  /\ hpc["events"] = "write" /\ thread => reload_fd = "open"

\* release_local_resources() and the thread give up what they hold in this order.
ReleasedInOrder ==
  /\ mpc \in {"close_stop", "clear_def", "dispose"} \cup EndPc => reload_fd = "none"
  /\ mpc \in {"clear_def", "dispose"} \cup EndPc => stop_fd = "none"
  /\ mpc \in {"dispose"} \cup EndPc => ~def
  /\ mpc \in {"start_stop_fd", "start_reload"} => reload_fd = "none" /\ ~hup_due
  /\ mpc \in {"start_reload", "start_thread"} => def /\ stop_fd = "open"
  /\ tpc \notin {"loop", "reloading", "on_reload", "on_event", "cleanup"} => ~bus /\ ~locks

Resources ==
  /\ SharedWhileJoinable /\ HandlerHasFd /\ ReleasedInOrder
  /\ SafeUnlessDetached /\ StartFailureLeavesNothing /\ HupNotLost

\* Every RELOADING=1 of the event thread is followed by a READY=1 of its own before the
\* next; main adds one, which is missing until it has called notify_ready.
OpenReloads == IF tpc = "on_reload" THEN 1 ELSE 0
Reported ==
  /\ Sent("RELOADING") - Sent("READY") \in {OpenReloads, OpenReloads - 1}
  /\ mpc \in ReadyDue => Sent("RELOADING") - Sent("READY") = OpenReloads
  /\ Sent("RELOADING") - Sent("READY") = OpenReloads - 1 /\ ~Contains(sent, "STOPPING")
       => mpc \in {"on_run", "notify_stopping"}

\* A reload that runs before main's READY=1 began before it.
Announced == ReloadAnnounced /\ (tpc = "on_reload" /\ mpc \in ReadyDue => early)

\* The handler stands as long as the eventfd is open and the service runs, and the
\* process dies of SIGHUP without it.
HandlerStands ==
  /\ mpc \in {"start_reload", "start_thread", "join"} \cup ServicePc => (reload_fd = "open" => handler)
  /\ death = "SIGHUP" => ~handler

=============================================================================
