--------------------------- MODULE LogindInhibitor ---------------------------
(***************************************************************************)
(* The delay inhibitor locks of the event thread: systemd-logind announces *)
(* a suspend or a shutdown, waits for the delay locks or its own limit,    *)
(* acts, and announces the end; the service takes the locks while it sets  *)
(* up the bus, gives one back after on_event and takes it again at the     *)
(* end.  Signals queue up while on_event runs.  logind is external.        *)
(***************************************************************************)
EXTENDS Integers, Sequences

CONSTANT MaxOperations     \* bound: suspends and shutdowns announced

ASSUME InhibitorAssumption == MaxOperations \in Nat

Whats == {"sleep", "shutdown"}

VARIABLES
  \* logind
  operation,    \* what is under way: [what, phase], phase "idle" when nothing is
  count,        \* operations announced: the number of the current one
  expired,      \* the limit has passed for the current one
  locks,        \* delay locks the service has, by what
  \* the service's event thread
  pc,
  subscribed,   \* the operations whose signals logind sends to the service
  queue,
  held,         \* inhibit_sleep_fd, inhibit_shutdown_fd
  \* history
  awaited,      \* operations announced while the lock was held whose on_event is due
  failed,       \* the locks whose last Inhibit call failed for reasons of its own
  late          \* an operation was announced while the service was at the one before

logind_vars == <<operation, count, expired>>
vars == <<logind_vars, locks, pc, subscribed, queue, held, awaited, failed, late>>

\* pc 1..4 are the calls of setup_bus_monitoring() before the last, sd_bus_attach_event().
Attaching == 5
Loop == 6
Dispatched == 7       \* on_event is running for the signal at the head
Released == 8         \* the bus is closed, or never was there

Operations == [what : Whats, phase : {"idle", "delaying", "acting"}]
Signals == [what : Whats, starting : BOOLEAN, number : 0..MaxOperations]
Signal(starting) == [what |-> operation.what, starting |-> starting, number |-> count]

\* The service may start while an operation is under way.
Init ==
  /\ operation \in Operations /\ late = (operation.phase # "idle")
  /\ count = 0 /\ expired = FALSE
  /\ locks = [w \in Whats |-> 0]
  /\ pc = 1 /\ subscribed = {} /\ queue = <<>>
  /\ held = [w \in Whats |-> FALSE]
  /\ awaited = {} /\ failed = {}

-----------------------------------------------------------------------------
(* logind *)

Emit(starting) ==
  queue' = IF operation'.what \in subscribed THEN Append(queue, Signal(starting)') ELSE queue

\* PrepareForSleep(true) or PrepareForShutdown(true).
Prepare(w) ==
  /\ operation.phase = "idle" /\ count < MaxOperations
  /\ late' = (late \/ pc # Loop \/ queue # <<>>)
  /\ operation' = [what |-> w, phase |-> "delaying"]
  /\ count' = count + 1 /\ expired' = FALSE
  /\ Emit(TRUE)
  /\ awaited' = IF w \in subscribed /\ held[w] THEN awaited \cup {count'} ELSE awaited
  /\ UNCHANGED <<locks, pc, subscribed, held, failed>>

\* The operation starts when no delay lock is left, or when the limit has passed.
Act ==
  /\ operation.phase = "delaying" /\ locks[operation.what] = 0
  /\ operation' = [operation EXCEPT !.phase = "acting"]
  /\ UNCHANGED <<count, expired, locks, pc, subscribed, queue, held, awaited, failed, late>>

ActExpired ==
  /\ operation.phase = "delaying" /\ locks[operation.what] > 0
  /\ operation' = [operation EXCEPT !.phase = "acting"] /\ expired' = TRUE
  /\ UNCHANGED <<count, locks, pc, subscribed, queue, held, awaited, failed, late>>

\* The system is awake again, or the shutdown was cancelled.
Finish ==
  /\ operation.phase = "acting"
  /\ operation' = [operation EXCEPT !.phase = "idle"]
  /\ UNCHANGED <<count, expired>>
  /\ Emit(FALSE)
  /\ UNCHANGED <<locks, pc, subscribed, held, awaited, failed, late>>

-----------------------------------------------------------------------------
(* The event thread *)

\* A process that has a lock may be given another; while the operation is under
\* way logind refuses the call.
acquire_inhibit_lock(w) ==
  \/ /\ operation.what # w \/ operation.phase = "idle"
     /\ locks' = [locks EXCEPT ![w] = @ + 1]
     /\ held' = [held EXCEPT ![w] = TRUE]
     /\ failed' = failed \ {w}
  \/ /\ operation.what = w /\ operation.phase # "idle"
     /\ held' = [held EXCEPT ![w] = FALSE]
     /\ failed' = failed \ {w}
     /\ UNCHANGED locks
  \/ /\ held' = [held EXCEPT ![w] = FALSE]
     /\ failed' = failed \cup {w}
     /\ UNCHANGED locks

Release(w) ==
  /\ held' = [held EXCEPT ![w] = FALSE]
  /\ locks' = [locks EXCEPT ![w] = IF held[w] THEN @ - 1 ELSE @]
  /\ UNCHANGED failed

Keep == UNCHANGED <<locks, held, failed>>

\* Mutant: the subscriptions come last.
setup_subscribes_last ==
  << <<"lock", "sleep">>, <<"lock", "shutdown">>,
     <<"subscribe", "sleep">>, <<"subscribe", "shutdown">> >>

\* setup_bus_monitoring(): subscribe to the two signals, then take the two locks.
setup_bus_monitoring ==
  << <<"subscribe", "sleep">>, <<"subscribe", "shutdown">>,
     <<"lock", "sleep">>, <<"lock", "shutdown">> >>

\* A subscription that fails is logged and no more: its lock is taken all the same.
Setup ==
  /\ pc \in DOMAIN setup_bus_monitoring
  /\ pc' = pc + 1
  /\ LET call == setup_bus_monitoring[pc][1]
         what == setup_bus_monitoring[pc][2]
     IN  \/ /\ call = "subscribe" /\ Keep
            /\ subscribed' = subscribed \cup {what} \/ UNCHANGED subscribed
         \/ call = "lock" /\ acquire_inhibit_lock(what) /\ UNCHANGED subscribed
  /\ UNCHANGED <<logind_vars, queue, awaited, late>>

\* sd_bus_attach_event() worked: sd_event_loop() dispatches the signals.
Attach ==
  /\ pc = Attaching /\ pc' = Loop
  /\ UNCHANGED <<logind_vars, locks, subscribed, queue, held, awaited, failed, late>>

\* Mutant: the lock is given back before on_event is called.
ReceiveReleasesFirst ==
  /\ pc = Loop /\ queue # <<>>
  /\ pc' = Dispatched
  /\ IF Head(queue).starting THEN Release(Head(queue).what) ELSE Keep
  /\ UNCHANGED <<logind_vars, subscribed, queue, awaited, late>>

\* The head of the queue is read; on_event is called for all but the cancelled
\* shutdown.
Receive ==
  /\ pc = Loop /\ queue # <<>>
  /\ pc' = Dispatched
  /\ UNCHANGED <<logind_vars, locks, subscribed, queue, held, awaited, failed, late>>

on_prepare_for_sleep(starting) ==
  IF starting THEN Release("sleep") ELSE acquire_inhibit_lock("sleep")

\* Mutant: the shutdown lock is kept until the service ends.
on_prepare_for_shutdown_keeps(starting) ==
  IF starting \/ held["shutdown"] THEN Keep ELSE acquire_inhibit_lock("shutdown")

\* Mutant: the shutdown lock is taken again without looking at the descriptor.
on_prepare_for_shutdown_unchecked(starting) ==
  IF starting THEN Release("shutdown") ELSE acquire_inhibit_lock("shutdown")

on_prepare_for_shutdown(starting) ==
  IF starting THEN Release("shutdown")
  ELSE IF held["shutdown"] THEN Keep ELSE acquire_inhibit_lock("shutdown")

\* on_event has returned.
Dispatch ==
  /\ pc = Dispatched
  /\ pc' = Loop
  /\ queue' = Tail(queue)
  /\ IF Head(queue).what = "sleep" THEN on_prepare_for_sleep(Head(queue).starting)
                                   ELSE on_prepare_for_shutdown(Head(queue).starting)
  /\ awaited' = IF Head(queue).starting THEN awaited \ {Head(queue).number} ELSE awaited
  /\ UNCHANGED <<logind_vars, subscribed, late>>

release_inhibit_locks ==
  /\ locks' = [w \in Whats |-> IF held[w] THEN locks[w] - 1 ELSE locks[w]]
  /\ held' = [w \in Whats |-> FALSE]

\* There is no system bus, it cannot be attached to the loop, or the loop has ended: the
\* locks are released, the connection is closed.
CloseBus ==
  /\ pc \in {1, Attaching, Loop}
  /\ pc' = Released
  /\ release_inhibit_locks
  /\ subscribed' = {} /\ queue' = <<>> /\ awaited' = {} /\ failed' = {}
  /\ UNCHANGED <<logind_vars, late>>

\* The service has ended, or the bound lets logind announce nothing more.
Rest == (pc = Released \/ count = MaxOperations) /\ UNCHANGED vars

Logind == Act \/ Finish
EventThread == Setup \/ Attach \/ Receive \/ Dispatch

Next == Logind \/ ActExpired \/ EventThread \/ CloseBus \/ Rest
        \/ \E w \in Whats : Prepare(w)

Spec == Init /\ [][Next]_vars

\* logind goes on with what it announced, on_event returns.  Its limit need not help.
FairSpec == Spec /\ WF_vars(Logind) /\ WF_vars(EventThread)

-----------------------------------------------------------------------------
(* Properties *)

\* Every variable has its type: the service never gives back more locks than it
\* took (a descriptor closed twice would make the count of logind negative).
TypeOK ==
  /\ operation \in Operations /\ count \in 0..MaxOperations /\ expired \in BOOLEAN
  /\ locks \in [Whats -> Nat] /\ held \in [Whats -> BOOLEAN]
  /\ pc \in 1..Released /\ subscribed \subseteq Whats
  /\ queue \in Seq(Signals) /\ awaited \subseteq 0..MaxOperations
  /\ failed \subseteq Whats /\ late \in BOOLEAN

\* A suspend or shutdown that was announced while the lock was held starts only
\* after on_event returned for it, unless the limit passed, as long as the service is
\* never behind: after that it may give back the lock of one operation for another.
WaitsForOnEvent == operation.phase = "acting" /\ ~expired /\ ~late => count \notin awaited

\* When nothing is under way and nothing is queued, the lock of every operation the service
\* is told of is held for the next time, also when the service started in the middle of one;
\* only an Inhibit call that failed of its own leaves one out.  Without its subscription a
\* lock that was refused at the start is never taken again.
Rearmed ==
  pc = Loop /\ queue = <<>> /\ operation.phase = "idle"
    => \A w \in subscribed : held[w] \/ w \in failed

\* The descriptors and logind's count agree: on_prepare_for_shutdown() looks at its
\* descriptor before it takes a lock, on_prepare_for_sleep() does not and may lose
\* one, at the first resume after a start during a suspend, never more.
Surplus(w) == locks[w] - IF held[w] THEN 1 ELSE 0
LocksAccounted == Surplus("shutdown") = 0 /\ Surplus("sleep") \in {0, 1}

\* A shutdown is not held up for ever by a service whose on_event returns, however far
\* it is behind and without the help of logind's limit, unless the service has the lock
\* without having subscribed to the signal.
ShutdownProceeds ==
  operation = [what |-> "shutdown", phase |-> "delaying"]
    ~> operation.phase # "delaying" \/ (held["shutdown"] /\ "shutdown" \notin subscribed)
=============================================================================
