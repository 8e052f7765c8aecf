------------------------ MODULE LogindInhibitor_proofs ------------------------
(***************************************************************************)
(* Proofs about LogindInhibitor, for any number of operations: types, the  *)
(* locks the descriptors account for, and the operations that wait.        *)
(***************************************************************************)
EXTENDS LogindInhibitor, TLAPS

UnderWay == operation.phase # "idle"

\* The queue is a piece of what logind announces of the operations the service hears of:
\* the beginning of one is followed by its end at once, and an end comes after its beginning
\* unless the subscription came in between.
Alternates ==
  /\ \A i \in 1..Len(queue) :
       /\ queue[i].what \in subscribed
       /\ queue[i].starting =>
            IF i = Len(queue) THEN UnderWay /\ operation.what = queue[i].what
            ELSE ~queue[i + 1].starting /\ queue[i + 1].what = queue[i].what
       /\ ~queue[i].starting =>
            \A k \in 1..(i - 1) : queue[k].what = queue[i].what =>
              queue[i - 1].starting /\ queue[i - 1].what = queue[i].what
  /\ UnderWay =>
       \A k \in 1..Len(queue) : queue[k].what = operation.what =>
         queue[Len(queue)].starting /\ queue[Len(queue)].what = operation.what

\* Before the loop nothing is handled, and only what is set up is held.
SetUp ==
  /\ pc \in {1, Released} => subscribed = {}
  /\ pc = Released => awaited = {}
  /\ pc = Dispatched => queue # <<>>
  /\ pc \in {1, 2, 3, Released} => ~held["sleep"]
  /\ pc \in {1, 2, 3} => locks["sleep"] = 0
  /\ pc \in {1, 2, 3, 4, Released} => ~held["shutdown"]
  /\ pc \in {1, 2, 3, 4} => locks["shutdown"] = 0

\* The end of an operation whose beginning the service has not handled is the only one
\* that can find a lock held, and then none was lost before it.
EndComes(w) ==
  \/ /\ w \in subscribed /\ UnderWay /\ operation.what = w
     /\ \A i \in 1..Len(queue) : queue[i].what # w
  \/ \E i \in 1..Len(queue) :
       /\ queue[i].what = w /\ ~queue[i].starting
       /\ \A k \in 1..(i - 1) : queue[k].what # w
Accounts ==
  /\ LocksAccounted
  /\ EndComes("sleep") /\ held["sleep"] => Surplus("sleep") = 0

\* A lock that is missing is taken again at an end that is on its way.
Due(w) == \/ UnderWay /\ operation.what = w
          \/ \E i \in 1..Len(queue) : queue[i].what = w /\ ~queue[i].starting
TakenAgain ==
  /\ pc \in {4, Attaching, Loop, Dispatched} /\ "sleep" \in subscribed
       => held["sleep"] \/ "sleep" \in failed \/ Due("sleep")
  /\ pc \in {Attaching, Loop, Dispatched} /\ "shutdown" \in subscribed
       => held["shutdown"] \/ "shutdown" \in failed \/ Due("shutdown")

\* A service that was never late has its lock as long as on_event is due, and the signal
\* it is due for is the next one.
OnTime ==
  /\ awaited \subseteq 0..count
  /\ ~late =>
       /\ pc \in 1..Attaching => ~UnderWay /\ queue = <<>>
       /\ count \in awaited =>
            /\ pc \in {Loop, Dispatched} /\ held[operation.what]
            /\ queue # <<>> /\ Head(queue).starting /\ Head(queue).number = count
            /\ Head(queue).what = operation.what
            /\ operation.phase = "acting" => expired

IInv == TypeOK /\ SetUp /\ Alternates /\ Accounts /\ TakenAgain /\ OnTime

-----------------------------------------------------------------------------
(* What a step does to the queue, the locks and the descriptors *)

\* Emit appends one signal of the operation, or nothing reaches the service.
LEMMA Emitted ==
  ASSUME IInv, NEW starting \in BOOLEAN, Emit(starting),
         operation' \in Operations, count' \in 0..MaxOperations
  PROVE  /\ queue' \in Seq(Signals)
         /\ operation'.what \notin subscribed => queue' = queue
         /\ operation'.what \in subscribed =>
              /\ Len(queue') = Len(queue) + 1 /\ queue' # <<>>
              /\ \A i \in 1..Len(queue) : queue'[i] = queue[i]
              /\ queue'[Len(queue')] =
                   [what |-> operation'.what, starting |-> starting, number |-> count']
              /\ Head(queue') = IF queue = <<>> THEN queue'[Len(queue')] ELSE Head(queue)
<1>1. queue \in Seq(Signals)  BY DEF IInv, TypeOK
<1>2. Signal(starting)' = [what |-> operation'.what, starting |-> starting, number |-> count']
  BY DEF Signal
<1>3. Signal(starting)' \in Signals  BY <1>2 DEF Signals, Operations
<1>4. queue' = IF operation'.what \in subscribed THEN Append(queue, Signal(starting)')
               ELSE queue
  BY DEF Emit
<1> QED  BY <1>1, <1>2, <1>3, <1>4

\* An Inhibit call adds a lock with its descriptor, or leaves the service without.
LEMMA Acquired ==
  ASSUME TypeOK, NEW w \in Whats, acquire_inhibit_lock(w)
  PROVE  /\ locks' \in [Whats -> Nat] /\ held' \in [Whats -> BOOLEAN] /\ failed' \subseteq Whats
         /\ \A u \in Whats \ {w} : locks'[u] = locks[u] /\ held'[u] = held[u]
                                    /\ (u \in failed <=> u \in failed')
         /\ held'[w] => locks'[w] = locks[w] + 1
         /\ ~held'[w] => locks'[w] = locks[w]
         /\ held'[w] \/ w \in failed' \/ (UnderWay /\ operation.what = w)
<1>1. held \in [Whats -> BOOLEAN] /\ locks \in [Whats -> Nat] /\ failed \subseteq Whats
  BY DEF TypeOK
<1>2. CASE /\ locks' = [locks EXCEPT ![w] = @ + 1] /\ held' = [held EXCEPT ![w] = TRUE]
           /\ failed' = failed \ {w}
  BY <1>1, <1>2
<1>3. CASE /\ operation.what = w /\ operation.phase # "idle"
           /\ held' = [held EXCEPT ![w] = FALSE] /\ failed' = failed \ {w} /\ UNCHANGED locks
  BY <1>1, <1>3 DEF UnderWay
<1>4. CASE held' = [held EXCEPT ![w] = FALSE] /\ failed' = failed \cup {w} /\ UNCHANGED locks
  BY <1>1, <1>4
<1> QED  BY <1>2, <1>3, <1>4 DEF acquire_inhibit_lock

\* A release gives back the lock of the descriptor, if there is one.
LEMMA GivenBack ==
  ASSUME TypeOK, Accounts, NEW w \in Whats, Release(w)
  PROVE  /\ locks' \in [Whats -> Nat] /\ held' \in [Whats -> BOOLEAN] /\ failed' = failed
         /\ \A u \in Whats \ {w} : locks'[u] = locks[u] /\ held'[u] = held[u]
         /\ ~held'[w]
         /\ locks'[w] = locks[w] - (IF held[w] THEN 1 ELSE 0)
<1>1. held[w] => locks[w] > 0
  BY DEF TypeOK, Accounts, LocksAccounted, Surplus, Whats
<1>2. held' = [held EXCEPT ![w] = FALSE] /\ failed' = failed  BY DEF Release
<1>3. locks' = [locks EXCEPT ![w] = IF held[w] THEN @ - 1 ELSE @]  BY DEF Release
<1>4. held \in [Whats -> BOOLEAN] /\ locks \in [Whats -> Nat]  BY DEF TypeOK
<1>5. held' \in [Whats -> BOOLEAN]  BY <1>2, <1>4
<1>6. locks' \in [Whats -> Nat]  BY <1>1, <1>3, <1>4
<1> QED  BY <1>1, <1>2, <1>3, <1>4, <1>5, <1>6

\* The initial state: nothing is set up, held or awaited.
LEMMA InitInv == Init => IInv
<1> SUFFICES ASSUME Init PROVE IInv
  OBVIOUS
<1> USE InhibitorAssumption DEF Init
<1>1. TypeOK
  <2>1. expired \in BOOLEAN /\ late \in BOOLEAN  BY Zenon
  <2>2. held \in [Whats -> BOOLEAN] /\ locks \in [Whats -> Nat]  OBVIOUS
  <2> QED  BY <2>1, <2>2 DEF TypeOK, Released
<1>2. SetUp  BY DEF SetUp, Whats, Dispatched, Released
<1>3. Alternates  BY DEF Alternates
<1>4. Accounts  BY DEF Accounts, LocksAccounted, Surplus, Whats
<1>5. TakenAgain  BY DEF TakenAgain, Loop, Dispatched, Attaching
<1>6. OnTime  BY DEF OnTime, UnderWay, Released, Attaching
<1> QED  BY <1>1, <1>2, <1>3, <1>4, <1>5, <1>6 DEF IInv

-----------------------------------------------------------------------------
(* One lemma per action *)

\* What the queue, the locks and the descriptors leave alone.
Unlocked == UNCHANGED <<locks, held, failed>>

LEMMA PrepareStep == ASSUME IInv, NEW w \in Whats, Prepare(w) PROVE IInv'
<1> USE InhibitorAssumption
<1>1. /\ operation.phase = "idle" /\ operation' = [what |-> w, phase |-> "delaying"]
      /\ count' = count + 1 /\ count < MaxOperations /\ expired' = FALSE
      /\ awaited' = IF w \in subscribed /\ held[w] THEN awaited \cup {count'} ELSE awaited
      /\ Emit(TRUE)
      /\ UNCHANGED <<locks, pc, subscribed, held, failed>>
  BY DEF Prepare
<1>2. ~UnderWay /\ UnderWay' /\ operation'.what = w /\ operation' \in Operations
  BY <1>1 DEF UnderWay, Operations
<1>3. count \in Nat /\ count' \in 0..MaxOperations
  BY <1>1 DEF IInv, TypeOK
<1>4. /\ queue' \in Seq(Signals)
      /\ w \notin subscribed => queue' = queue
      /\ w \in subscribed =>
           /\ Len(queue') = Len(queue) + 1 /\ queue' # <<>>
           /\ \A i \in 1..Len(queue) : queue'[i] = queue[i]
           /\ queue'[Len(queue')] = [what |-> w, starting |-> TRUE, number |-> count']
           /\ Head(queue') = IF queue = <<>> THEN queue'[Len(queue')] ELSE Head(queue)
  BY <1>1, <1>2, <1>3, Emitted
<1>5. ~late' => ~late /\ pc = Loop /\ queue = <<>>
  BY Zenon DEF Prepare
<1>6. queue \in Seq(Signals)
  BY DEF IInv, TypeOK
<1>7. TypeOK'
  <2>1. late' \in BOOLEAN /\ expired' \in BOOLEAN  BY Zenon DEF Prepare
  <2>2. awaited' \subseteq 0..MaxOperations  BY <1>1, <1>3 DEF IInv, TypeOK
  <2> QED  BY <1>1, <1>2, <1>3, <1>4, <2>1, <2>2 DEF IInv, TypeOK
<1>8. SetUp'
  <2>1. pc = Released => awaited' = {}
    BY <1>1 DEF IInv, SetUp
  <2> QED  BY <1>1, <1>4, <2>1 DEF IInv, SetUp, Dispatched, Released
<1>9. Alternates'
  <2>1. CASE w \notin subscribed
    BY <1>1, <1>2, <1>4, <2>1 DEF IInv, Alternates
  <2>2. CASE w \in subscribed
    <3> DEFINE n == Len(queue)
    <3>0. /\ n \in Nat /\ Len(queue') = n + 1 /\ \A i \in 1..n : queue'[i] = queue[i]
          /\ queue'[n + 1].what = w /\ queue'[n + 1].starting
      BY <1>4, <1>6, <2>2
    <3>a. \A i \in 1..n :
            /\ queue[i].what \in subscribed
            /\ queue[i].starting =>
                 IF i = n THEN UnderWay /\ operation.what = queue[i].what
                 ELSE ~queue[i + 1].starting /\ queue[i + 1].what = queue[i].what
            /\ ~queue[i].starting =>
                 \A k \in 1..(i - 1) : queue[k].what = queue[i].what =>
                   queue[i - 1].starting /\ queue[i - 1].what = queue[i].what
      BY DEF IInv, Alternates
    <3> HIDE DEF n
    <3>1. ASSUME NEW i \in 1..(n + 1)
          PROVE  /\ queue'[i].what \in subscribed
                 /\ queue'[i].starting =>
                      IF i = n + 1 THEN operation'.what = queue'[i].what
                      ELSE ~queue'[i + 1].starting /\ queue'[i + 1].what = queue'[i].what
                 /\ ~queue'[i].starting =>
                      \A k \in 1..(i - 1) : queue'[k].what = queue'[i].what =>
                        queue'[i - 1].starting /\ queue'[i - 1].what = queue'[i].what
      <4>1. CASE i = n + 1  BY <1>2, <2>2, <3>0, <4>1
      <4>2. CASE i \in 1..n
        <5>1. queue[i].starting => i # n  BY <1>2, <3>a, <4>2
        <5>2. queue[i].starting => i + 1 \in 1..n  BY <3>0, <4>2, <5>1
        <5>3. \A k \in 1..(i - 1) : k \in 1..n /\ i - 1 \in 1..n  BY <3>0, <4>2
        <5> QED  BY <3>0, <3>a, <4>2, <5>1, <5>2, <5>3
      <4> QED  BY <3>0, <4>1, <4>2
    <3> QED  BY <1>1, <1>2, <3>0, <3>1 DEF Alternates
  <2> QED  BY <2>1, <2>2
<1>10. Accounts'
  <2>1. LocksAccounted' /\ Surplus("sleep")' = Surplus("sleep")
    BY <1>1 DEF IInv, Accounts, LocksAccounted, Surplus
  <2>2. EndComes("sleep")' => EndComes("sleep")
    <3>1. CASE w \notin subscribed
      BY <1>1, <1>2, <1>4, <3>1 DEF EndComes
    <3>2. CASE w \in subscribed
      <4> DEFINE n == Len(queue)
      <4>0. /\ n \in Nat /\ Len(queue') = n + 1 /\ \A i \in 1..n : queue'[i] = queue[i]
            /\ queue'[n + 1].what = w /\ queue'[n + 1].starting
        BY <1>4, <1>6, <3>2
      <4> HIDE DEF n
      <4>1. CASE \A i \in 1..(n + 1) : queue'[i].what # "sleep"
        <5>1. w # "sleep"  BY <4>0, <4>1
        <5> QED  BY <1>2, <4>0, <4>1, <5>1 DEF EndComes
      <4>2. CASE \E i \in 1..(n + 1) :
                   /\ queue'[i].what = "sleep" /\ ~queue'[i].starting
                   /\ \A k \in 1..(i - 1) : queue'[k].what # "sleep"
        <5> PICK i \in 1..(n + 1) :
                   /\ queue'[i].what = "sleep" /\ ~queue'[i].starting
                   /\ \A k \in 1..(i - 1) : queue'[k].what # "sleep"
          BY <4>2
        <5>1. i \in 1..n  BY <4>0
        <5>2. \A k \in 1..(i - 1) : k \in 1..n  BY <4>0, <5>1
        <5>3. queue[i].what = "sleep" /\ ~queue[i].starting
              /\ \A k \in 1..(i - 1) : queue[k].what # "sleep"
          BY <4>0, <5>1, <5>2
        <5> QED  BY <5>1, <5>3 DEF EndComes, n
      <4> QED  BY <4>0, <4>1, <4>2 DEF EndComes
    <3> QED  BY <3>1, <3>2
  <2> QED  BY <1>1, <2>1, <2>2 DEF IInv, Accounts
<1>11. TakenAgain'
  <2>1. ASSUME NEW u \in Whats, Due(u) PROVE Due(u)'
    BY <1>1, <1>2, <1>4, <1>6, <2>1 DEF Due
  <2> QED  BY <1>1, <2>1 DEF IInv, TakenAgain, Whats
<1>12. OnTime'
  <2>1. awaited' \subseteq 0..count'  BY <1>1, <1>3 DEF IInv, OnTime
  <2>2. ASSUME ~late'
        PROVE  /\ pc' = Loop
               /\ count' \in awaited' =>
                    /\ held'[operation'.what]
                    /\ queue' # <<>> /\ Head(queue').starting /\ Head(queue').number = count'
                    /\ Head(queue').what = operation'.what
                    /\ operation'.phase # "acting"
    <3>1. count' \notin awaited  BY <1>1, <1>3 DEF IInv, OnTime
    <3> QED  BY <1>1, <1>2, <1>4, <1>5, <2>2, <3>1
  <2> QED  BY <2>1, <2>2 DEF OnTime, Loop, Attaching
<1> QED  BY <1>7, <1>8, <1>9, <1>10, <1>11, <1>12 DEF IInv

LEMMA ActStep == ASSUME IInv, Act \/ ActExpired PROVE IInv'
<1>1. /\ operation.phase = "delaying" /\ operation' = [operation EXCEPT !.phase = "acting"]
      /\ UNCHANGED <<count, locks, pc, subscribed, queue, held, awaited, failed, late>>
      /\ (locks[operation.what] = 0 /\ UNCHANGED expired) \/ expired' = TRUE
  BY DEF Act, ActExpired
<1>2. UnderWay /\ UnderWay' /\ operation'.what = operation.what /\ operation' \in Operations
  BY <1>1 DEF UnderWay, IInv, TypeOK, Operations
<1>3. TypeOK'
  <2>1. expired' \in BOOLEAN  BY <1>1, Zenon DEF IInv, TypeOK
  <2> QED  BY <1>1, <1>2, <2>1 DEF IInv, TypeOK
<1>4. SetUp'  BY <1>1 DEF IInv, SetUp
<1>5. Alternates'  BY <1>1, <1>2 DEF IInv, Alternates
<1>6. Accounts'  BY <1>1, <1>2 DEF IInv, Accounts, LocksAccounted, Surplus, EndComes
<1>7. TakenAgain'  BY <1>1, <1>2 DEF IInv, TakenAgain, Due
<1>8. OnTime'
  <2>1. held[operation.what] => locks[operation.what] > 0
    BY DEF IInv, TypeOK, Operations, Whats, Accounts, LocksAccounted, Surplus
  <2> QED  BY <1>1, <1>2, <2>1 DEF IInv, OnTime
<1> QED  BY <1>3, <1>4, <1>5, <1>6, <1>7, <1>8 DEF IInv

LEMMA FinishStep == ASSUME IInv, Finish PROVE IInv'
<1>1. /\ UnderWay /\ ~UnderWay' /\ operation' = [operation EXCEPT !.phase = "idle"]
      /\ UNCHANGED <<count, expired, locks, pc, subscribed, held, awaited, failed, late>>
      /\ Emit(FALSE)
  BY DEF Finish, UnderWay, IInv, TypeOK, Operations
<1>2. operation' \in Operations /\ operation'.what = operation.what /\ count' \in 0..MaxOperations
  BY <1>1 DEF IInv, TypeOK, Operations
<1>3. queue \in Seq(Signals)  BY DEF IInv, TypeOK
<1>4. /\ queue' \in Seq(Signals)
      /\ operation.what \notin subscribed => queue' = queue
      /\ operation.what \in subscribed =>
           /\ Len(queue') = Len(queue) + 1 /\ queue' # <<>>
           /\ \A i \in 1..Len(queue) : queue'[i] = queue[i]
           /\ queue'[Len(queue')] = [what |-> operation.what, starting |-> FALSE, number |-> count']
           /\ Head(queue') = IF queue = <<>> THEN queue'[Len(queue')] ELSE Head(queue)
  BY <1>1, <1>2, Emitted
<1>5. TypeOK'  BY <1>1, <1>2, <1>4 DEF IInv, TypeOK
<1>6. SetUp'  BY <1>1, <1>4 DEF IInv, SetUp, Dispatched, Released
<1> DEFINE n == Len(queue)
<1>s. operation.what \in subscribed =>
        /\ n \in Nat /\ Len(queue') = n + 1 /\ \A i \in 1..n : queue'[i] = queue[i]
        /\ queue'[n + 1].what = operation.what /\ ~queue'[n + 1].starting
  BY <1>3, <1>4
<1>a. /\ \A i \in 1..n :
            /\ queue[i].what \in subscribed
            /\ queue[i].starting =>
                 IF i = n THEN UnderWay /\ operation.what = queue[i].what
                 ELSE ~queue[i + 1].starting /\ queue[i + 1].what = queue[i].what
            /\ ~queue[i].starting =>
                 \A k \in 1..(i - 1) : queue[k].what = queue[i].what =>
                   queue[i - 1].starting /\ queue[i - 1].what = queue[i].what
      /\ \A k \in 1..n : queue[k].what = operation.what =>
            queue[n].starting /\ queue[n].what = operation.what
  BY <1>1 DEF IInv, Alternates
<1>7. Alternates'
  <2>1. CASE operation.what \notin subscribed
    <3>1. \A i \in 1..n : ~(queue[i].starting /\ i = n)  BY <1>a, <2>1
    <3> QED  BY <1>1, <1>4, <1>a, <2>1, <3>1 DEF Alternates
  <2>2. CASE operation.what \in subscribed
    <3>0. /\ n \in Nat /\ Len(queue') = n + 1 /\ \A i \in 1..n : queue'[i] = queue[i]
          /\ queue'[n + 1].what = operation.what /\ ~queue'[n + 1].starting
      BY <1>s, <2>2
    <3> HIDE DEF n
    <3>1. ASSUME NEW i \in 1..(n + 1)
          PROVE  /\ queue'[i].what \in subscribed
                 /\ queue'[i].starting =>
                      i # n + 1 /\ ~queue'[i + 1].starting /\ queue'[i + 1].what = queue'[i].what
                 /\ ~queue'[i].starting =>
                      \A k \in 1..(i - 1) : queue'[k].what = queue'[i].what =>
                        queue'[i - 1].starting /\ queue'[i - 1].what = queue'[i].what
      <4>1. CASE i = n + 1
        <5>1. \A k \in 1..n : k \in 1..n /\ n \in 1..n  BY <3>0
        <5> QED  BY <1>a, <2>2, <3>0, <4>1, <5>1
      <4>2. CASE i = n /\ i \in 1..n /\ queue[i].starting
        BY <1>a, <3>0, <4>2
      <4>3. CASE i \in 1..n /\ ~(i = n /\ queue[i].starting)
        <5>1. queue[i].starting => i + 1 \in 1..n  BY <3>0, <4>3
        <5>2. \A k \in 1..(i - 1) : k \in 1..n /\ i - 1 \in 1..n  BY <3>0, <4>3
        <5>3. i # n + 1  BY <3>0, <4>3
        <5> QED  BY <3>0, <1>a, <4>3, <5>1, <5>2, <5>3
      <4> QED  BY <3>0, <4>1, <4>2, <4>3
    <3> QED  BY <1>1, <3>0, <3>1 DEF Alternates
  <2> QED  BY <2>1, <2>2
<1>8. Accounts'
  <2>1. LocksAccounted' /\ Surplus("sleep")' = Surplus("sleep")
    BY <1>1 DEF IInv, Accounts, LocksAccounted, Surplus
  <2>2. EndComes("sleep")' => EndComes("sleep")
    <3>1. CASE operation.what \notin subscribed
      BY <1>1, <1>4, <3>1 DEF EndComes
    <3>2. CASE operation.what \in subscribed
      <4>0. /\ n \in Nat /\ Len(queue') = n + 1 /\ \A i \in 1..n : queue'[i] = queue[i]
            /\ queue'[n + 1].what = operation.what /\ ~queue'[n + 1].starting
        BY <1>s, <3>2
      <4> HIDE DEF n
      <4>1. SUFFICES ASSUME NEW i \in 1..(n + 1),
                            queue'[i].what = "sleep" /\ ~queue'[i].starting,
                            \A k \in 1..(i - 1) : queue'[k].what # "sleep"
                     PROVE  EndComes("sleep")
        BY <1>1, <4>0 DEF EndComes
      <4>2. CASE i \in 1..n
        <5>1. \A k \in 1..(i - 1) : k \in 1..n  BY <4>0, <4>2
        <5>2. queue[i].what = "sleep" /\ ~queue[i].starting
              /\ \A k \in 1..(i - 1) : queue[k].what # "sleep"
          BY <4>0, <4>1, <4>2, <5>1
        <5> QED  BY <4>2, <5>2 DEF EndComes, n
      <4>3. CASE i = n + 1
        <5>1. \A k \in 1..n : queue[k].what # "sleep"  BY <4>0, <4>1, <4>3
        <5> QED  BY <1>1, <3>2, <4>0, <4>1, <4>3, <5>1 DEF EndComes, n
      <4> QED  BY <4>0, <4>2, <4>3
    <3> QED  BY <3>1, <3>2
  <2> QED  BY <1>1, <2>1, <2>2 DEF IInv, Accounts
<1>9. TakenAgain'
  <2>1. ASSUME NEW u \in subscribed, Due(u) PROVE Due(u)'
    <3>1. CASE UnderWay /\ operation.what = u
      <4>1. /\ Len(queue') \in 1..Len(queue') /\ ~queue'[Len(queue')].starting
            /\ queue'[Len(queue')].what = u
        BY <1>3, <1>4, <2>1, <3>1
      <4> QED  BY <4>1 DEF Due
    <3>2. CASE \E i \in 1..Len(queue) : queue[i].what = u /\ ~queue[i].starting
      BY <1>3, <1>4, <2>1, <3>2 DEF Due
    <3> QED  BY <2>1, <3>1, <3>2 DEF Due
  <2> QED  BY <1>1, <2>1 DEF IInv, TakenAgain
<1>10. OnTime'
  BY <1>1, <1>2, <1>4 DEF IInv, OnTime, TypeOK, Attaching
<1> QED  BY <1>5, <1>6, <1>7, <1>8, <1>9, <1>10 DEF IInv

LEMMA SetupStep == ASSUME IInv, Setup PROVE IInv'
<1>1. /\ pc \in 1..4 /\ pc' = pc + 1
      /\ UNCHANGED <<operation, count, expired, queue, awaited, late>>
  BY DEF Setup, logind_vars, setup_bus_monitoring
<1>2. ASSUME NEW w \in Whats, pc = IF w = "sleep" THEN 1 ELSE 2,
             subscribed' = subscribed \cup {w} \/ UNCHANGED subscribed,
             UNCHANGED <<locks, held, failed>>
      PROVE  IInv'
  <2>2. TypeOK'  BY <1>1, <1>2 DEF IInv, TypeOK, Released
  <2>3. SetUp'  BY <1>1, <1>2 DEF IInv, SetUp, Dispatched, Released, Whats
  <2>4. Alternates'  BY <1>1, <1>2 DEF IInv, Alternates, UnderWay
  <2>5. Accounts'
    <3>1. ~held["sleep"]  BY <1>2 DEF IInv, SetUp
    <3> QED  BY <1>2, <3>1 DEF IInv, Accounts, LocksAccounted, Surplus
  <2>6. TakenAgain'  BY <1>1, <1>2 DEF TakenAgain, Loop, Dispatched, Attaching
  <2>7. OnTime'  BY <1>1, <1>2 DEF IInv, OnTime, UnderWay, Loop, Dispatched, Attaching
  <2> QED  BY <2>2, <2>3, <2>4, <2>5, <2>6, <2>7 DEF IInv
<1>3. ASSUME NEW w \in Whats, pc = IF w = "sleep" THEN 3 ELSE 4, acquire_inhibit_lock(w),
             UNCHANGED subscribed
      PROVE  IInv'
  <2>1. /\ locks' \in [Whats -> Nat] /\ held' \in [Whats -> BOOLEAN] /\ failed' \subseteq Whats
        /\ \A u \in Whats \ {w} : locks'[u] = locks[u] /\ held'[u] = held[u]
                                   /\ (u \in failed <=> u \in failed')
        /\ held'[w] => locks'[w] = locks[w] + 1
        /\ ~held'[w] => locks'[w] = locks[w]
        /\ held'[w] \/ w \in failed' \/ (UnderWay /\ operation.what = w)
    BY <1>3, Acquired DEF IInv
  <2>2. locks[w] = 0 /\ ~held[w]
    BY <1>3 DEF IInv, SetUp, Whats
  <2>3. TypeOK'  BY <1>1, <1>3, <2>1 DEF IInv, TypeOK, Released
  <2>4. SetUp'  BY <1>1, <1>3, <2>1, <2>2 DEF IInv, SetUp, Dispatched, Released, Whats
  <2>5. Alternates'  BY <1>1, <1>3 DEF IInv, Alternates, UnderWay
  <2>6. Accounts'
    <3>1. EndComes("sleep")' => EndComes("sleep")  BY <1>1, <1>3 DEF EndComes, UnderWay
    <3> QED
      BY <1>1, <1>3, <2>1, <2>2, <3>1 DEF IInv, Accounts, LocksAccounted, Surplus, Whats
  <2>7. TakenAgain'
    <3>1. \A u \in Whats : Due(u) => Due(u)'  BY <1>1 DEF Due, UnderWay
    <3>2. held'[w] \/ w \in failed' \/ Due(w)'  BY <2>1, <3>1 DEF Due
    <3> QED
      BY <1>1, <1>3, <2>1, <3>1, <3>2 DEF IInv, TakenAgain, Whats, Attaching, Loop, Dispatched
  <2>8. OnTime'
    BY <1>1, <1>3 DEF IInv, OnTime, UnderWay, Loop, Dispatched, Attaching
  <2> QED  BY <2>3, <2>4, <2>5, <2>6, <2>7, <2>8 DEF IInv
<1>4. CASE pc = 1
  <2>1. (subscribed' = subscribed \cup {"sleep"} \/ UNCHANGED subscribed) /\ Keep
    BY <1>4 DEF Setup, setup_bus_monitoring
  <2> QED  BY <1>2, <1>4, <2>1 DEF Whats, Keep
<1>5. CASE pc = 2
  <2>1. (subscribed' = subscribed \cup {"shutdown"} \/ UNCHANGED subscribed) /\ Keep
    BY <1>5 DEF Setup, setup_bus_monitoring
  <2> QED  BY <1>2, <1>5, <2>1 DEF Whats, Keep
<1>6. CASE pc = 3
  <2>1. acquire_inhibit_lock("sleep") /\ UNCHANGED subscribed
    BY <1>6 DEF Setup, setup_bus_monitoring
  <2> QED  BY <1>3, <1>6, <2>1 DEF Whats
<1>7. CASE pc = 4
  <2>1. acquire_inhibit_lock("shutdown") /\ UNCHANGED subscribed
    BY <1>7 DEF Setup, setup_bus_monitoring
  <2> QED  BY <1>3, <1>7, <2>1 DEF Whats
<1> QED  BY <1>1, <1>4, <1>5, <1>6, <1>7

LEMMA AttachStep == ASSUME IInv, Attach PROVE IInv'
<1>1. /\ pc = Attaching /\ pc' = Loop
      /\ UNCHANGED <<operation, count, expired, locks, subscribed, queue, held, awaited, failed, late>>
  BY DEF Attach, logind_vars
<1>2. TypeOK'  BY <1>1 DEF IInv, TypeOK, Loop, Released
<1>3. SetUp'  BY <1>1 DEF IInv, SetUp, Loop, Dispatched, Released
<1>4. Alternates'  BY <1>1 DEF IInv, Alternates, UnderWay
<1>5. Accounts'  BY <1>1 DEF IInv, Accounts, LocksAccounted, Surplus, EndComes, UnderWay
<1>6. TakenAgain'  BY <1>1 DEF IInv, TakenAgain, Due, UnderWay, Attaching, Loop, Dispatched
<1>7. OnTime'  BY <1>1 DEF IInv, OnTime, UnderWay, Attaching, Loop, Dispatched
<1> QED  BY <1>2, <1>3, <1>4, <1>5, <1>6, <1>7 DEF IInv

LEMMA ReceiveStep == ASSUME IInv, Receive PROVE IInv'
<1>1. /\ pc = Loop /\ pc' = Dispatched /\ queue # <<>>
      /\ UNCHANGED <<operation, count, expired, locks, subscribed, queue, held, awaited, failed, late>>
  BY DEF Receive, logind_vars
<1>2. TypeOK'  BY <1>1 DEF IInv, TypeOK, Dispatched, Released
<1>3. SetUp'  BY <1>1 DEF IInv, SetUp, Loop, Dispatched, Released
<1>4. Alternates'  BY <1>1 DEF IInv, Alternates, UnderWay
<1>5. Accounts'  BY <1>1 DEF IInv, Accounts, LocksAccounted, Surplus, EndComes, UnderWay
<1>6. TakenAgain'  BY <1>1 DEF IInv, TakenAgain, Due, UnderWay, Attaching, Loop, Dispatched
<1>7. OnTime'  BY <1>1 DEF IInv, OnTime, UnderWay, Attaching, Loop, Dispatched
<1> QED  BY <1>2, <1>3, <1>4, <1>5, <1>6, <1>7 DEF IInv

LEMMA CloseBusStep == ASSUME IInv, CloseBus PROVE IInv'
<1>1. /\ pc' = Released /\ subscribed' = {} /\ queue' = <<>> /\ awaited' = {} /\ failed' = {}
      /\ locks' = [w \in Whats |-> IF held[w] THEN locks[w] - 1 ELSE locks[w]]
      /\ held' = [w \in Whats |-> FALSE]
      /\ UNCHANGED <<operation, count, expired, late>>
  BY DEF CloseBus, release_inhibit_locks, logind_vars
<1>2. \A w \in Whats : held[w] => locks[w] > 0
  BY DEF IInv, TypeOK, Accounts, LocksAccounted, Surplus, Whats
<1>3. TypeOK'
  <2>1. held' \in [Whats -> BOOLEAN]  BY <1>1
  <2>2. locks' \in [Whats -> Nat]  BY <1>1, <1>2 DEF IInv, TypeOK
  <2> QED  BY <1>1, <2>1, <2>2 DEF IInv, TypeOK, Released
<1>4. SetUp'  BY <1>1 DEF SetUp, Dispatched, Released, Whats
<1>5. Alternates'  BY <1>1 DEF Alternates
<1>6. Accounts'
  BY <1>1 DEF IInv, TypeOK, Accounts, LocksAccounted, Surplus, Whats
<1>7. TakenAgain'  BY <1>1 DEF TakenAgain, Attaching, Loop, Dispatched, Released
<1>8. OnTime'  BY <1>1 DEF IInv, OnTime, TypeOK, Attaching, Loop, Dispatched, Released
<1> QED  BY <1>3, <1>4, <1>5, <1>6, <1>7, <1>8 DEF IInv

\* on_event has returned for the first signal: the handler gives back or takes a lock.
LEMMA DispatchStep == ASSUME IInv, Dispatch PROVE IInv'
<1> DEFINE m == Head(queue)
           n == Len(queue)
<1>1. /\ pc = Dispatched /\ pc' = Loop /\ queue' = Tail(queue)
      /\ awaited' = IF m.starting THEN awaited \ {m.number} ELSE awaited
      /\ UNCHANGED <<operation, count, expired, subscribed, late>>
  BY DEF Dispatch, logind_vars
<1>2. /\ queue \in Seq(Signals) /\ queue # <<>> /\ m = queue[1] /\ m \in Signals /\ n \in Nat \ {0}
      /\ queue' \in Seq(Signals) /\ Len(queue') = n - 1
      /\ \A i \in 1..(n - 1) : queue'[i] = queue[i + 1]
  <2>1. queue \in Seq(Signals) /\ queue # <<>>  BY <1>1 DEF IInv, TypeOK, SetUp
  <2> QED  BY <1>1, <2>1
<1>3. m.what \in Whats /\ m.number \in Nat  BY <1>2 DEF Signals
\* What follows the first signal.
<1>a. \A i \in 1..n :
        /\ queue[i].what \in subscribed
        /\ queue[i].starting =>
             IF i = n THEN UnderWay /\ operation.what = queue[i].what
             ELSE ~queue[i + 1].starting /\ queue[i + 1].what = queue[i].what
        /\ ~queue[i].starting =>
             \A k \in 1..(i - 1) : queue[k].what = queue[i].what =>
               queue[i - 1].starting /\ queue[i - 1].what = queue[i].what
  BY DEF IInv, Alternates
<1>b. UnderWay => \A k \in 1..n : queue[k].what = operation.what =>
                    queue[n].starting /\ queue[n].what = operation.what
  BY DEF IInv, Alternates
<1>5. /\ m.starting /\ n > 1 => 1 \in 1..Len(queue') /\ ~queue'[1].starting /\ queue'[1].what = m.what
      /\ m.starting /\ n = 1 => queue' = <<>> /\ UnderWay /\ operation.what = m.what
  BY <1>2, <1>a
<1>6. \/ m.starting /\ Release(m.what)
      \/ ~m.starting /\ acquire_inhibit_lock(m.what) /\ (m.what = "shutdown" => ~held["shutdown"])
      \/ ~m.starting /\ m.what = "shutdown" /\ held["shutdown"] /\ UNCHANGED <<locks, held, failed>>
  BY <1>3 DEF Dispatch, on_prepare_for_sleep, on_prepare_for_shutdown, Keep, Whats
<1>7. /\ locks' \in [Whats -> Nat] /\ held' \in [Whats -> BOOLEAN] /\ failed' \subseteq Whats
      /\ \A u \in Whats \ {m.what} : locks'[u] = locks[u] /\ held'[u] = held[u]
                                      /\ (u \in failed <=> u \in failed')
  BY <1>3, <1>6, Acquired, GivenBack DEF IInv, TypeOK
<1>8. m.starting => ~held'[m.what] /\ locks'[m.what] = locks[m.what] - IF held[m.what] THEN 1 ELSE 0
  BY <1>3, <1>6, GivenBack DEF IInv
<1>9. ~m.starting => /\ held'[m.what] => locks'[m.what] = locks[m.what] + 1
                                         \/ (m.what = "shutdown" /\ held["shutdown"]
                                              /\ locks'[m.what] = locks[m.what])
                     /\ ~held'[m.what] => locks'[m.what] = locks[m.what]
                     /\ m.what = "shutdown" /\ held'[m.what] /\ ~held["shutdown"]
                          => locks'[m.what] = locks[m.what] + 1
                     /\ held'[m.what] \/ m.what \in failed' \/ (UnderWay /\ operation.what = m.what)
                     /\ m.what = "shutdown" /\ held["shutdown"]
                          => held'[m.what] /\ locks'[m.what] = locks[m.what]
  BY <1>3, <1>6, Acquired DEF IInv
<1>10. TypeOK'
  <2>1. awaited' \subseteq 0..MaxOperations  BY <1>1 DEF IInv, TypeOK
  <2> QED  BY <1>1, <1>2, <1>7, <2>1 DEF IInv, TypeOK, Loop, Released
<1>11. SetUp'  BY <1>1 DEF SetUp, Loop, Dispatched, Released
<1>12. Alternates'
  <2>0. n - 1 \in Nat /\ n \in 1..n  BY <1>2
  <2>1. ASSUME NEW i \in 1..(n - 1)
        PROVE  /\ queue'[i].what \in subscribed
               /\ queue'[i].starting =>
                    IF i = n - 1 THEN UnderWay /\ operation.what = queue'[i].what
                    ELSE ~queue'[i + 1].starting /\ queue'[i + 1].what = queue'[i].what
               /\ ~queue'[i].starting =>
                    \A k \in 1..(i - 1) : queue'[k].what = queue'[i].what =>
                      queue'[i - 1].starting /\ queue'[i - 1].what = queue'[i].what
    <3> DEFINE j == i + 1
    <3>1. /\ j \in 1..n /\ queue'[i] = queue[j] /\ i = j - 1 /\ (i = n - 1 <=> j = n)
          /\ i # n - 1 => queue'[i + 1] = queue[j + 1]
      BY <1>2
    <3>2. \A k \in 1..(i - 1) : /\ k + 1 \in 1..(j - 1) /\ queue'[k] = queue[k + 1]
                                /\ queue'[i - 1] = queue[j - 1]
      BY <1>2
    <3> HIDE DEF j, n
    <3> QED  BY <1>a, <3>1, <3>2
  <2>2. \A k \in 1..(n - 1) : /\ k + 1 \in 1..n /\ queue'[k] = queue[k + 1]
                              /\ queue'[n - 1] = queue[n]
    BY <1>2
  <2>3. UnderWay' = UnderWay /\ UNCHANGED <<operation, subscribed>> /\ Len(queue') = n - 1
    BY <1>1, <1>2 DEF UnderWay
  <2> HIDE DEF n
  <2>4. UnderWay => \A k \in 1..(n - 1) : queue'[k].what = operation.what =>
                      queue'[n - 1].starting /\ queue'[n - 1].what = operation.what
    BY <1>b, <2>2
  <2> QED  BY <2>1, <2>3, <2>4 DEF Alternates
\* After an end comes no second one: its beginning stands between them.
<1>c. ASSUME NEW w \in Whats, w = m.what, ~m.starting PROVE ~EndComes(w)'
  <2>1. CASE /\ UnderWay /\ operation.what = w
             /\ \A i \in 1..(n - 1) : queue'[i].what # w
    <3>1. queue[n].starting /\ queue[n].what = w  BY <1>2, <1>b, <1>c, <2>1
    <3>2. n # 1 /\ n - 1 \in 1..(n - 1) /\ queue'[n - 1] = queue[n]  BY <1>2, <1>c, <3>1
    <3> QED  BY <2>1, <3>1, <3>2
  <2>2. ASSUME NEW i \in 1..(n - 1), queue'[i].what = w, ~queue'[i].starting,
               \A k \in 1..(i - 1) : queue'[k].what # w
        PROVE  FALSE
    <3>1. i + 1 \in 1..n /\ queue'[i] = queue[i + 1] /\ 1 \in 1..((i + 1) - 1)
      BY <1>2
    <3>2. queue[i].starting /\ queue[i].what = w
      BY <1>2, <1>a, <1>c, <2>2, <3>1
    <3>3. i # 1  BY <1>2, <1>c, <3>2
    <3>4. i - 1 \in 1..(i - 1) /\ i - 1 \in 1..(n - 1) /\ queue'[i - 1] = queue[i]  BY <1>2, <3>3
    <3> QED  BY <2>2, <3>2, <3>4
  <2> QED  BY <1>1, <1>2, <2>1, <2>2 DEF EndComes, UnderWay
<1>13. Accounts'
  <2>1. CASE m.what = "shutdown"
    <3>1. Surplus("shutdown")' = 0
      BY <1>7, <1>8, <1>9, <2>1 DEF IInv, TypeOK, Accounts, LocksAccounted, Surplus, Whats
    <3>2. locks'["sleep"] = locks["sleep"] /\ held'["sleep"] = held["sleep"]
      BY <1>7, <2>1 DEF Whats
    <3>3. Surplus("sleep")' = Surplus("sleep")  BY <3>2 DEF Surplus
    <3>4. EndComes("sleep")' => EndComes("sleep")
      <4>1. CASE /\ "sleep" \in subscribed /\ UnderWay /\ operation.what = "sleep"
                 /\ \A i \in 1..(n - 1) : queue'[i].what # "sleep"
        <5>1. \A i \in 1..n : queue[i].what # "sleep"
          <6> TAKE i \in 1..n
          <6>1. CASE i = 1  BY <1>2, <2>1, <6>1
          <6>2. CASE i # 1
            <7>1. i - 1 \in 1..(n - 1) /\ queue'[i - 1] = queue[i]  BY <1>2, <6>2
            <7> QED  BY <4>1, <7>1
          <6> QED  BY <6>1, <6>2
        <5> QED  BY <4>1, <5>1 DEF EndComes
      <4>2. ASSUME NEW i \in 1..(n - 1), queue'[i].what = "sleep", ~queue'[i].starting,
                   \A k \in 1..(i - 1) : queue'[k].what # "sleep"
            PROVE  EndComes("sleep")
        <5>1. i + 1 \in 1..n /\ queue'[i] = queue[i + 1]  BY <1>2
        <5>2. \A k \in 1..((i + 1) - 1) : queue[k].what # "sleep"
          <6> TAKE k \in 1..((i + 1) - 1)
          <6>1. CASE k = 1  BY <1>2, <2>1, <6>1
          <6>2. CASE k # 1
            <7>1. k - 1 \in 1..(i - 1) /\ k - 1 \in 1..(n - 1) /\ queue'[k - 1] = queue[k]
              BY <1>2, <6>2
            <7> QED  BY <4>2, <7>1
          <6> QED  BY <6>1, <6>2
        <5> QED  BY <4>2, <5>1, <5>2 DEF EndComes
      <4> QED  BY <1>1, <1>2, <4>1, <4>2 DEF EndComes, UnderWay
    <3> QED  BY <3>1, <3>2, <3>3, <3>4 DEF IInv, Accounts, LocksAccounted
  <2>2. CASE m.what = "sleep"
    <3>1. locks'["shutdown"] = locks["shutdown"] /\ held'["shutdown"] = held["shutdown"]
      BY <1>7, <2>2 DEF Whats
    <3>2. Surplus("shutdown")' = 0  BY <3>1 DEF IInv, Accounts, LocksAccounted, Surplus
    <3>3. CASE m.starting
      <4>1. Surplus("sleep")' = Surplus("sleep") /\ ~held'["sleep"]
        BY <1>7, <1>8, <2>2, <3>3 DEF IInv, TypeOK, Surplus, Whats
      <4> QED  BY <3>2, <4>1 DEF IInv, Accounts, LocksAccounted
    <3>4. CASE ~m.starting
      <4>1. held["sleep"] => Surplus("sleep") = 0
        <5>1. 1 \in 1..n /\ queue[1].what = "sleep" /\ ~queue[1].starting
              /\ \A k \in 1..(1 - 1) : queue[k].what # "sleep"
          BY <1>2, <2>2, <3>4
        <5>2. EndComes("sleep")  BY <5>1 DEF EndComes
        <5> QED  BY <5>2 DEF IInv, Accounts
      <4>2. Surplus("sleep")' \in {0, 1}
        BY <1>7, <1>9, <2>2, <3>4, <4>1 DEF IInv, TypeOK, Accounts, LocksAccounted, Surplus, Whats
      <4>3. ~EndComes("sleep")'
        BY <1>c, <2>2, <3>4 DEF Whats
      <4> QED  BY <3>2, <4>2, <4>3 DEF Accounts, LocksAccounted
    <3> QED  BY <3>3, <3>4
  <2> QED  BY <1>3, <2>1, <2>2 DEF Whats
<1>14. TakenAgain'
  <2>1. ASSUME NEW u \in subscribed PROVE held'[u] \/ u \in failed' \/ Due(u)'
    <3>w. u \in Whats  BY DEF IInv, TypeOK
    <3>1. CASE u = m.what
      <4>1. CASE m.starting /\ n > 1
        <5>1. 1 \in 1..Len(queue') /\ queue'[1].what = u /\ ~queue'[1].starting
          BY <1>2, <1>5, <3>1, <4>1
        <5> QED  BY <5>1 DEF Due
      <4>2. CASE m.starting /\ n = 1
        BY <1>1, <1>5, <3>1, <4>2 DEF Due, UnderWay
      <4>3. CASE ~m.starting
        BY <1>1, <1>9, <3>1, <4>3 DEF Due, UnderWay
      <4> QED  BY <1>2, <4>1, <4>2, <4>3
    <3>2. CASE u # m.what
      <4>1. held[u] \/ u \in failed \/ Due(u)
        BY <1>1, <3>w DEF IInv, TakenAgain, Whats, Dispatched
      <4>2. ASSUME NEW i \in 1..n, queue[i].what = u, ~queue[i].starting PROVE Due(u)'
        <5>1. i - 1 \in 1..Len(queue') /\ queue'[i - 1] = queue[i]
          BY <1>2, <3>2, <4>2
        <5> QED  BY <4>2, <5>1 DEF Due
      <4>3. Due(u) => Due(u)'
        BY <1>1, <4>2 DEF Due, UnderWay
      <4> QED  BY <1>7, <3>2, <3>w, <4>1, <4>3
    <3> QED  BY <3>1, <3>2
  <2> QED  BY <1>1, <2>1 DEF TakenAgain
<1>15. OnTime'
  <2>1. awaited' \subseteq 0..count'  BY <1>1 DEF IInv, OnTime
  <2>2. ASSUME ~late', count' \in awaited' PROVE FALSE
    <3>1. count \in awaited /\ m.starting /\ m.number = count  BY <1>1, <2>2 DEF IInv, OnTime
    <3> QED  BY <1>1, <2>2, <3>1
  <2> QED  BY <1>1, <2>1, <2>2 DEF OnTime, Loop, Attaching
<1> QED  BY <1>10, <1>11, <1>12, <1>13, <1>14, <1>15 DEF IInv

-----------------------------------------------------------------------------
LEMMA Invariance == Spec => []IInv
<1>1. IInv /\ [Next]_vars => IInv'
  <2> SUFFICES ASSUME IInv, [Next]_vars PROVE IInv'
    OBVIOUS
  <2>1. CASE \E w \in Whats : Prepare(w)  BY <2>1, PrepareStep
  <2>2. CASE Act \/ ActExpired  BY <2>2, ActStep
  <2>3. CASE Finish  BY <2>3, FinishStep
  <2>4. CASE Setup  BY <2>4, SetupStep
  <2>5. CASE Receive  BY <2>5, ReceiveStep
  <2>6. CASE Dispatch  BY <2>6, DispatchStep
  <2>7. CASE CloseBus  BY <2>7, CloseBusStep
  <2>9. CASE Attach  BY <2>9, AttachStep
  <2>8. CASE UNCHANGED vars
    BY <2>8 DEF vars, logind_vars, IInv, TypeOK, SetUp, Alternates, Accounts, LocksAccounted,
                Surplus, EndComes, TakenAgain, Due, OnTime, UnderWay
  <2> QED
    BY <2>1, <2>2, <2>3, <2>4, <2>5, <2>6, <2>7, <2>8, <2>9 DEF Next, Logind, EventThread, Rest
<1> QED  BY InitInv, <1>1, PTL DEF Spec

\* Types: whatever signals queue up, no lock is given back that was not taken.
THEOREM Typing == Spec => []TypeOK
<1>1. IInv => TypeOK  BY DEF IInv
<1> QED  BY Invariance, <1>1, PTL

\* The descriptors account for the locks logind counts; on_prepare_for_sleep() loses at
\* most one, however many operations there are.
THEOREM LocksAreAccounted == Spec => []LocksAccounted
<1>1. IInv => LocksAccounted  BY DEF IInv, Accounts
<1> QED  BY Invariance, <1>1, PTL

\* When all is quiet the lock of every operation the service hears of is held for the next
\* one, unless an Inhibit call failed: setup_bus_monitoring() subscribes before it takes them.
THEOREM IsRearmed == Spec => []Rearmed
<1>1. IInv => Rearmed
  BY DEF IInv, TypeOK, TakenAgain, Due, UnderWay, Rearmed, Whats, Loop
<1> QED  BY Invariance, <1>1, PTL

\* No operation starts before on_event returned for it, while the service is on time and
\* logind's limit does not pass.
THEOREM OperationsWait == Spec => []WaitsForOnEvent
<1>1. IInv => WaitsForOnEvent  BY DEF IInv, OnTime, WaitsForOnEvent
<1> QED  BY Invariance, <1>1, PTL
=============================================================================
