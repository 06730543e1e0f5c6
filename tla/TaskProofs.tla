----------------------------- MODULE TaskProofs -----------------------------
(***************************************************************************)
(* Proofs about TaskManager, for any number of tasks, keys, goroutines,    *)
(* crashes and cancellations.                                              *)
(***************************************************************************)
EXTENDS TaskManager, TLAPS

\* What the goroutines, the dispatch and the queues are about: tasks, and in a
\* queue only those of its key.
OfKey(k) == {t \in Tasks : KeyOf[t] = k}

WellFormed ==
    /\ \A g \in Goroutines :
          /\ run[g].pc # "none" => run[g].task \in Tasks
          /\ run[g].pc \in {"released", "woke", "handing"} => KeyOf[run[g].task] # NoKey
          /\ run[g].pc \in {"woke", "handing"}
             => run[g].next \in Tasks /\ KeyOf[run[g].next] = KeyOf[run[g].task]
    /\ mu.pc # "free" => mu.task \in Tasks
    /\ mu.pc \in {"marking", "enqueueing"} => KeyOf[mu.task] # NoKey
    /\ \A k \in Keys : queue[k] \in Seq(OfKey(k))

\* A goroutine that holds a key is the one the registry names, for the key and
\* for Cancel.
Registered ==
    \A g \in Goroutines : (Holding(g) /\ KeyOf[run[g].task] # NoKey) =>
        /\ lock[KeyOf[run[g].task]] = run[g].task
        /\ handle[run[g].task] = g

\* The inductive invariant.  OneRunPerKey is inductive only with the registry:
\* a key whose lock is free has no holder.
Locking == WellFormed /\ OneRunPerKey /\ Registered /\ QueueIsWatched

IInv == TypeOK /\ Locking

\* The variables Locking speaks of.
core == <<handle, lock, queue, run, mu, asleep>>

LEMMA LockingUntouched == ASSUME Locking, UNCHANGED core PROVE Locking'
BY DEF Locking, core, WellFormed, OneRunPerKey, Registered, QueueIsWatched, Holding, Wakers

LEMMA KeysOfTasks == \A t \in Tasks : KeyOf[t] # NoKey => KeyOf[t] \in Keys
BY TaskAssumption

LEMMA InitInv == Init => IInv
<1> SUFFICES ASSUME Init PROVE IInv
  OBVIOUS
<1> USE TaskAssumption
<1>1. NoRun \in RunRecord /\ Unlocked \in MuRecord
  BY DEF NoRun, RunRecord, Unlocked, MuRecord
<1>2. TypeOK
  BY <1>1 DEF Init, TypeOK
<1>3. Locking
  BY DEF Init, Locking, WellFormed, OneRunPerKey, Registered, QueueIsWatched,
         Holding, NoRun, Unlocked, OfKey
<1> QED
  BY <1>2, <1>3 DEF IInv
-----------------------------------------------------------------------------
(* The actions that touch neither registry nor queue nor goroutine. *)

LEMMA ClientInv ==
    ASSUME IInv, NEW t \in Tasks, Submit(t) \/ ComesDue(t) \/ CancelRead(t) \/ CancelWrite(t)
    PROVE  IInv'
<1>1. UNCHANGED core
  BY DEF Submit, ComesDue, CancelRead, CancelWrite, core, registry, store, control, history
<1>2. CASE Submit(t)
  <2>1. TypeOK'
    BY <1>2 DEF IInv, TypeOK, Submit, registry, control, history, Live
  <2> QED
    BY <1>1, <2>1, LockingUntouched DEF IInv
<1>3. CASE ComesDue(t)
  <2>1. TypeOK'
    BY <1>3 DEF IInv, TypeOK, ComesDue, registry, control, history
  <2> QED
    BY <1>1, <2>1, LockingUntouched DEF IInv
<1>4. CASE CancelRead(t)
  <2>1. cancels' \in 0..MaxCancels
    BY <1>4, TaskAssumption DEF IInv, TypeOK, CancelRead
  <2>2. TypeOK'
    BY <1>4, <2>1 DEF IInv, TypeOK, CancelRead, store, registry, control, history, Live
  <2> QED
    BY <1>1, <2>2, LockingUntouched DEF IInv
<1>5. CASE CancelWrite(t)
  <2>1. TypeOK'
    BY <1>5 DEF IInv, TypeOK, CancelWrite, registry, control, Terminal
  <2> QED
    BY <1>1, <2>1, LockingUntouched DEF IInv
<1> QED
  BY <1>2, <1>3, <1>4, <1>5

LEMMA LoopInv == ASSUME IInv, Tick \/ LeaveLoop \/ Start \/ Stop PROVE IInv'
<1>1. UNCHANGED core
  BY DEF Tick, LeaveLoop, Start, Stop, core, registry, store, history
<1>2. CASE Tick
  <2>1. FindDueTasks \subseteq [task : Tasks, attempt : Nat]
    <3> SUFFICES ASSUME NEW d \in FindDueTasks PROVE d \in [task : Tasks, attempt : Nat]
      OBVIOUS
    <3>1. PICK t \in Tasks : d = [task |-> t, attempt |-> attempt[t]]
      BY Zenon DEF FindDueTasks, Due
    <3> QED
      BY <3>1 DEF IInv, TypeOK
  <2>2. TypeOK'
    BY <1>2, <2>1 DEF IInv, TypeOK, Tick, store, registry, history
  <2> QED
    BY <1>1, <2>2, LockingUntouched DEF IInv
<1>3. CASE LeaveLoop
  <2>1. TypeOK'
    BY <1>3 DEF IInv, TypeOK, LeaveLoop, store, registry, history
  <2> QED
    BY <1>1, <2>1, LockingUntouched DEF IInv
<1>4. CASE Start
  <2>1. status' \in [Tasks -> {"absent"} \cup Live \cup Terminal]
    BY <1>4 DEF IInv, TypeOK, Start, Live, Terminal
  <2>2. later' \subseteq Tasks
    BY <1>4 DEF IInv, TypeOK, Start
  <2>3. TypeOK'
    BY <1>4, <2>1, <2>2 DEF IInv, TypeOK, Start, registry, history
  <2> QED
    BY <1>1, <2>3, LockingUntouched DEF IInv
<1>5. CASE Stop
  <2>1. TypeOK'
    BY <1>5 DEF IInv, TypeOK, Stop, store, registry, history
  <2> QED
    BY <1>1, <2>1, LockingUntouched DEF IInv
<1> QED
  BY <1>2, <1>3, <1>4, <1>5
-----------------------------------------------------------------------------
(* dispatchTask. *)

\* What a record of a goroutine is made of.
LEMMA FreshRun ==
    ASSUME TypeOK, NEW t \in Tasks, NEW n \in Nat, NEW b \in BOOLEAN
    PROVE  /\ NoRun \in RunRecord /\ Unlocked \in MuRecord
           /\ NewRun(t, n, b) \in RunRecord
           /\ [pc |-> "launching", task |-> t, bySched |-> b] \in MuRecord
           /\ [pc |-> "marking", task |-> t, bySched |-> b] \in MuRecord
<1>1. 0 \in 0..NTasks /\ t \in 0..NTasks
  BY TaskAssumption DEF Tasks
<1>2. NoRun \in RunRecord /\ Unlocked \in MuRecord
  BY <1>1 DEF NoRun, RunRecord, Unlocked, MuRecord
<1>3. NewRun(t, n, b) \in RunRecord
  BY <1>1 DEF RunRecord, NewRun
<1>4. /\ [pc |-> "launching", task |-> t, bySched |-> b] \in MuRecord
      /\ [pc |-> "marking", task |-> t, bySched |-> b] \in MuRecord
  BY <1>1 DEF MuRecord
<1> QED
  BY <1>2, <1>3, <1>4

\* Taking a key that is free for a goroutine that was none of its holders.
LEMMA RegisterInv ==
    ASSUME IInv, NEW t \in Tasks, NEW n \in Nat, NEW b \in BOOLEAN, NEW g \in Goroutines,
           \/ run[g].pc = "none" \/ (run[g].pc = "handing" /\ run[g].next = t),
           Register(t, n, b, g), snap' \subseteq [task : Tasks, attempt : Nat]
    PROVE  IInv'
<1> DEFINE r == NewRun(t, n, b)
<1>1. /\ r.pc = "starting" /\ r.task = t /\ r \in RunRecord
      /\ run' = [run EXCEPT ![g] = r]
      /\ run \in [Goroutines -> RunRecord]
  BY FreshRun DEF IInv, TypeOK, NewRun, Register
<1> HIDE DEF r
<1>2. \A h \in Goroutines : run'[h] = IF h = g THEN r ELSE run[h]
  BY <1>1
<1>3. /\ lock' = [k \in Keys |-> IF k = KeyOf[t] THEN t ELSE lock[k]]
      /\ asleep' = [k \in Keys |-> IF k = KeyOf[t] THEN "no" ELSE asleep[k]]
      /\ handle' = [handle EXCEPT ![t] = g]
      /\ mu' = [pc |-> "launching", task |-> t, bySched |-> b]
      /\ KeyOf[t] # NoKey => lock[KeyOf[t]] = 0
      /\ UNCHANGED <<status, attempt, later, queue, mgr, crashes, cancel, cancels, begun, torn, raced>>
  BY DEF Register, Blocked, HandleOf, store
<1>4. TypeOK'
  <2>1. lock' \in [Keys -> 0..NTasks] /\ asleep' \in [Keys -> {"no", "late", "dead"}]
    BY <1>3, TaskAssumption DEF IInv, TypeOK, Tasks
  <2>2. handle' \in [Tasks -> 0..MaxRuns] /\ run' \in [Goroutines -> RunRecord]
    BY <1>1, <1>3, TaskAssumption DEF IInv, TypeOK, Goroutines
  <2>3. mu' \in MuRecord
    BY <1>3, FreshRun DEF IInv
  <2> QED
    BY <1>3, <2>1, <2>2, <2>3 DEF IInv, TypeOK
<1>5. WellFormed'
  BY <1>1, <1>2, <1>3 DEF IInv, Locking, WellFormed, OfKey
<1>6. ASSUME NEW h \in Goroutines, h # g, Holding(h), KeyOf[run[h].task] # NoKey
      PROVE  run[h].task # t /\ KeyOf[run[h].task] # KeyOf[t]
  <2>1. run[h].task \in Tasks /\ lock[KeyOf[run[h].task]] = run[h].task
    BY <1>6 DEF IInv, Locking, WellFormed, Registered, Holding
  <2> QED
    BY <1>6, <2>1, <1>3 DEF Tasks
<1>7. OneRunPerKey'
  BY <1>1, <1>2, <1>6 DEF IInv, Locking, OneRunPerKey, Holding
<1>8. Registered'
  <2> SUFFICES ASSUME NEW h \in Goroutines, Holding(h)', KeyOf[run'[h].task] # NoKey
               PROVE  lock'[KeyOf[run'[h].task]] = run'[h].task /\ handle'[run'[h].task] = h
    BY DEF Registered
  <2>1. CASE h = g
    BY <2>1, <1>1, <1>2, <1>3, KeysOfTasks DEF IInv, TypeOK
  <2>2. CASE h # g
    <3>1. Holding(h) /\ run[h].task \in Tasks /\ run'[h] = run[h]
      BY <2>2, <1>2 DEF IInv, Locking, WellFormed, Holding
    <3> QED
      BY <2>2, <3>1, <1>3, <1>6, KeysOfTasks DEF IInv, TypeOK, Locking, Registered
  <2> QED
    BY <2>1, <2>2
<1>9. QueueIsWatched'
  <2> SUFFICES ASSUME NEW k \in Keys, queue'[k] # <<>>
               PROVE  lock'[k] # 0 \/ Wakers(k)' # {} \/ asleep'[k] # "no"
    BY DEF QueueIsWatched
  <2>1. CASE k = KeyOf[t]
    BY <2>1, <1>3 DEF Tasks
  <2>2. CASE k # KeyOf[t]
    <3>1. \A h \in Wakers(k) : h # g
      BY <2>2 DEF Wakers, IInv, Locking, WellFormed
    <3>2. Wakers(k) \subseteq Wakers(k)'
      BY <3>1, <1>2 DEF Wakers
    <3> QED
      BY <2>2, <3>2, <1>3 DEF IInv, Locking, QueueIsWatched
  <2> QED
    BY <2>1, <2>2
<1> QED
  BY <1>4, <1>5, <1>7, <1>8, <1>9 DEF IInv, Locking

LEMMA QueueUpInv ==
    ASSUME IInv, NEW t \in Tasks, NEW b \in BOOLEAN, QueueUp(t, b),
           snap' \subseteq [task : Tasks, attempt : Nat],
           \/ UNCHANGED run
           \/ \E g \in Goroutines : /\ run[g].pc = "handing" /\ run[g].next = t
                                    /\ run' = [run EXCEPT ![g] = NoRun]
    PROVE  IInv'
<1>1. /\ mu' = [pc |-> "marking", task |-> t, bySched |-> b]
      /\ KeyOf[t] # NoKey /\ KeyOf[t] \in Keys /\ lock[KeyOf[t]] # 0
      /\ UNCHANGED <<status, attempt, later, handle, lock, queue, mgr, crashes, cancel,
                     cancels, begun, asleep, torn, raced>>
  BY KeysOfTasks DEF QueueUp, Blocked, store, registry, history
<1>2. /\ run' \in [Goroutines -> RunRecord]
      /\ \A g \in Goroutines : \/ run'[g] = run[g]
                               \/ /\ run'[g] = NoRun
                                  /\ run[g].pc = "handing" /\ run[g].next = t
  BY FreshRun DEF IInv, TypeOK
<1>3. TypeOK'
  BY <1>1, <1>2, FreshRun DEF IInv, TypeOK
<1>4. WellFormed'
  BY <1>1, <1>2 DEF IInv, Locking, WellFormed, NoRun, OfKey
<1>5. OneRunPerKey' /\ Registered'
  BY <1>1, <1>2 DEF IInv, Locking, OneRunPerKey, Registered, Holding, NoRun
<1>6. QueueIsWatched'
  <2> SUFFICES ASSUME NEW k \in Keys, queue[k] # <<>>
               PROVE  lock[k] # 0 \/ Wakers(k)' # {} \/ asleep[k] # "no"
    BY <1>1 DEF QueueIsWatched
  <2>1. CASE k = KeyOf[t]
    BY <1>1, <2>1
  <2>2. CASE k # KeyOf[t]
    <3>1. Wakers(k) \subseteq Wakers(k)'
      BY <1>2, <2>2 DEF Wakers, IInv, Locking, WellFormed
    <3> QED
      BY <3>1 DEF IInv, Locking, QueueIsWatched
  <2> QED
    BY <2>1, <2>2
<1> QED
  BY <1>3, <1>4, <1>5, <1>6 DEF IInv, Locking

LEMMA DispatchNextInv == ASSUME IInv, DispatchNext PROVE IInv'
<1>1. PICK d \in snap : /\ snap' = snap \ {d}
                        /\ \/ QueueUp(d.task, TRUE) /\ UNCHANGED run
                           \/ \E g \in Goroutines : /\ FirstFree(g)
                                                    /\ Register(d.task, d.attempt, TRUE, g)
  BY DEF DispatchNext
<1>2. d.task \in Tasks /\ d.attempt \in Nat /\ snap' \subseteq [task : Tasks, attempt : Nat]
  BY <1>1 DEF IInv, TypeOK
<1>3. CASE QueueUp(d.task, TRUE) /\ UNCHANGED run
  BY <1>2, <1>3, QueueUpInv
<1>4. ASSUME NEW g \in Goroutines, FirstFree(g), Register(d.task, d.attempt, TRUE, g)
      PROVE  IInv'
  <2>1. run[g].pc = "none"
    BY <1>4 DEF FirstFree
  <2> QED
    BY <1>2, <1>4, <2>1, RegisterInv
<1> QED
  BY <1>1, <1>3, <1>4

LEMMA HandOverInv == ASSUME IInv, NEW g \in Goroutines, HandOver(g) PROVE IInv'
<1>1. /\ run[g].pc = "handing" /\ run[g].next \in Tasks /\ run[g].attempt \in Nat
      /\ snap' \subseteq [task : Tasks, attempt : Nat]
  BY DEF HandOver, IInv, TypeOK, Locking, WellFormed, RunRecord
<1>2. CASE QueueUp(run[g].next, FALSE) /\ run' = [run EXCEPT ![g] = NoRun]
  BY <1>1, <1>2, QueueUpInv
<1>3. CASE Register(run[g].next, run[g].attempt, FALSE, g)
  BY <1>1, <1>3, RegisterInv
<1> QED
  BY <1>2, <1>3 DEF HandOver

LEMMA MarkQueuedInv == ASSUME IInv, MarkQueued PROVE IInv'
<1>1. TypeOK'
  BY DEF MarkQueued, IInv, TypeOK, MuRecord, Live, registry, control, history
<1>2. WellFormed'
  BY DEF MarkQueued, IInv, TypeOK, MuRecord, Locking, WellFormed, registry
<1>3. OneRunPerKey' /\ Registered' /\ QueueIsWatched'
  BY DEF MarkQueued, IInv, Locking, OneRunPerKey, Registered, QueueIsWatched, Holding,
         Wakers, registry, history
<1> QED
  BY <1>1, <1>2, <1>3 DEF IInv, Locking

LEMMA EnqueueInv == ASSUME IInv, Enqueue PROVE IInv'
<1> DEFINE k == KeyOf[mu.task]
<1>1. mu.task \in Tasks /\ k \in Keys
  BY KeysOfTasks DEF Enqueue, IInv, Locking, WellFormed
<1>2. /\ queue' = [queue EXCEPT ![k] = Append(@, mu.task)]
      /\ asleep' = IF lock[k] = 0 /\ Wakers(k) = {}
                   THEN [asleep EXCEPT ![k] = "late"] ELSE asleep
      /\ mu' = Unlocked
      /\ UNCHANGED <<store, registry, run, control, cancel, cancels, begun, torn, raced>>
  BY DEF Enqueue
<1>3. queue[k] \in Seq(Tasks) /\ queue[k] \in Seq(OfKey(k)) /\ mu.task \in OfKey(k)
  BY <1>1 DEF IInv, TypeOK, Locking, WellFormed, OfKey
<1> HIDE DEF k
<1>4. Append(queue[k], mu.task) \in Seq(Tasks) /\ Append(queue[k], mu.task) \in Seq(OfKey(k))
  BY <1>1, <1>3
<1>5. TypeOK'
  <2>1. queue' \in [Keys -> Seq(Tasks)]
    BY <1>1, <1>2, <1>4 DEF IInv, TypeOK
  <2>2. mu' \in MuRecord
    BY <1>1, <1>2, FreshRun DEF IInv
  <2>3. asleep' \in [Keys -> {"no", "late", "dead"}]
    BY <1>1, <1>2 DEF IInv, TypeOK
  <2> QED
    BY <1>2, <2>1, <2>2, <2>3 DEF IInv, TypeOK, store, registry, control
<1>6. WellFormed'
  BY <1>1, <1>2, <1>4 DEF IInv, TypeOK, Locking, WellFormed, Unlocked, OfKey
<1>7. OneRunPerKey' /\ Registered'
  BY <1>2 DEF IInv, Locking, OneRunPerKey, Registered, Holding, registry
<1>8. QueueIsWatched'
  <2> SUFFICES ASSUME NEW l \in Keys, queue'[l] # <<>>
               PROVE  lock'[l] # 0 \/ Wakers(l)' # {} \/ asleep'[l] # "no"
    BY DEF QueueIsWatched
  <2>1. UNCHANGED lock /\ Wakers(l)' = Wakers(l)
    BY <1>2 DEF registry, Wakers
  <2>2. CASE l = k
    BY <1>1, <1>2, <2>1, <2>2 DEF IInv, TypeOK
  <2>3. CASE l # k
    BY <1>1, <1>2, <2>1, <2>3 DEF IInv, TypeOK, Locking, QueueIsWatched
  <2> QED
    BY <2>2, <2>3
<1> QED
  BY <1>5, <1>6, <1>7, <1>8 DEF IInv, Locking

LEMMA LaunchInv == ASSUME IInv, NEW g \in Goroutines, Launch(g) PROVE IInv'
<1>1. /\ mu.task \in Tasks /\ run[g].pc = "starting" /\ run[g] \in RunRecord
      /\ run' = [run EXCEPT ![g].pc = "handler"] /\ mu' = Unlocked
      /\ UNCHANGED <<handle, lock, queue, asleep>>
  BY DEF Launch, IInv, TypeOK, Locking, WellFormed, registry
<1>2. /\ run'[g] = [run[g] EXCEPT !.pc = "handler"]
      /\ \A h \in Goroutines : h # g => run'[h] = run[h]
      /\ run' \in [Goroutines -> RunRecord]
  BY <1>1 DEF IInv, TypeOK, RunRecord
<1>3. TypeOK'
  <2>1. attempt' \in [Tasks -> Nat] /\ begun' \in [Tasks -> Nat]
    BY <1>1 DEF Launch, IInv, TypeOK, RunRecord
  <2>2. status' \in [Tasks -> {"absent"} \cup Live \cup Terminal]
    BY <1>1 DEF Launch, IInv, TypeOK, Live
  <2>3. mu' \in MuRecord
    BY <1>1, FreshRun DEF IInv
  <2> QED
    BY <1>2, <2>1, <2>2, <2>3 DEF Launch, IInv, TypeOK, registry, control
<1>4. WellFormed'
  BY <1>1, <1>2 DEF IInv, Locking, WellFormed, Unlocked, RunRecord
<1>5. \A h \in Goroutines : /\ Holding(h)' <=> Holding(h)
                            /\ run'[h].task = run[h].task
                            /\ run'[h].pc \in {"released", "woke", "handing"}
                               <=> run[h].pc \in {"released", "woke", "handing"}
  BY <1>1, <1>2 DEF Holding, RunRecord
<1>6. OneRunPerKey' /\ Registered'
  BY <1>1, <1>5 DEF IInv, Locking, OneRunPerKey, Registered
<1>7. QueueIsWatched'
  BY <1>1, <1>5 DEF IInv, Locking, QueueIsWatched, Wakers
<1> QED
  BY <1>3, <1>4, <1>6, <1>7 DEF IInv, Locking
-----------------------------------------------------------------------------
(* runTask and onTaskFinished. *)

LEMMA HandlerReturnsInv ==
    ASSUME IInv, NEW g \in Goroutines, NEW outcome \in {"ok", "retryable", "error"},
           HandlerReturns(g, outcome)
    PROVE  IInv'
<1>1. /\ run[g].pc = "handler" /\ run[g] \in RunRecord /\ run[g].task \in Tasks
      /\ run' = [run EXCEPT ![g].pc = "ended"]
      /\ UNCHANGED <<handle, lock, queue, asleep, mu>>
  BY DEF HandlerReturns, IInv, TypeOK, Locking, WellFormed, registry, history
<1>2. /\ run'[g] = [run[g] EXCEPT !.pc = "ended"]
      /\ \A h \in Goroutines : h # g => run'[h] = run[h]
      /\ run' \in [Goroutines -> RunRecord]
  BY <1>1 DEF IInv, TypeOK, RunRecord
<1>3. TypeOK'
  <2>1. Verdict(run[g], outcome) \in {"succeeded", "cancelled", "pending", "failed"}
    BY DEF Verdict
  <2>2. status' \in [Tasks -> {"absent"} \cup Live \cup Terminal]
    BY <1>1, <2>1 DEF HandlerReturns, IInv, TypeOK, Live, Terminal
  <2>3. later' \subseteq Tasks
    BY <1>1 DEF HandlerReturns, IInv, TypeOK
  <2> QED
    BY <1>1, <1>2, <2>2, <2>3 DEF HandlerReturns, IInv, TypeOK, control, history
<1>4. WellFormed'
  BY <1>1, <1>2 DEF IInv, Locking, WellFormed, RunRecord
<1>5. \A h \in Goroutines : /\ Holding(h)' <=> Holding(h)
                            /\ run'[h].task = run[h].task
                            /\ run'[h].pc \in {"released", "woke", "handing"}
                               <=> run[h].pc \in {"released", "woke", "handing"}
  BY <1>1, <1>2 DEF Holding, RunRecord
<1>6. OneRunPerKey' /\ Registered'
  BY <1>1, <1>5 DEF IInv, Locking, OneRunPerKey, Registered
<1>7. QueueIsWatched'
  BY <1>1, <1>5 DEF IInv, Locking, QueueIsWatched, Wakers
<1> QED
  BY <1>3, <1>4, <1>6, <1>7 DEF IInv, Locking

LEMMA UnregisterInv == ASSUME IInv, NEW g \in Goroutines, Unregister(g) PROVE IInv'
<1> DEFINE t == run[g].task
<1>1. /\ run[g].pc = "ended" /\ run[g] \in RunRecord /\ t \in Tasks /\ Holding(g)
      /\ KeyOf[t] # NoKey => KeyOf[t] \in Keys /\ lock[KeyOf[t]] = t
  BY KeysOfTasks DEF Unregister, IInv, TypeOK, Locking, WellFormed, Registered, Holding
<1>2. /\ handle' = [handle EXCEPT ![t] = 0]
      /\ lock' = [k \in Keys |-> IF k = KeyOf[t] /\ lock[k] = t THEN 0 ELSE lock[k]]
      /\ run' = [run EXCEPT ![g] = IF KeyOf[t] = NoKey THEN NoRun
                                   ELSE [@ EXCEPT !.pc = "released"]]
      /\ UNCHANGED <<status, attempt, later, queue, mu, snap, mgr, crashes, cancel, cancels,
                     begun, asleep, torn, raced>>
  BY DEF Unregister, store, control, history
<1> HIDE DEF t
<1>3. /\ KeyOf[t] = NoKey => run'[g] = NoRun
      /\ KeyOf[t] # NoKey => /\ run'[g].pc = "released" /\ run'[g].task = t
                             /\ run'[g] \in RunRecord
      /\ \A h \in Goroutines : h # g => run'[h] = run[h]
      /\ run' \in [Goroutines -> RunRecord]
  <2>1. run \in [Goroutines -> RunRecord] /\ NoRun \in RunRecord
    BY <1>1, FreshRun DEF IInv, TypeOK
  <2>2. /\ [run[g] EXCEPT !.pc = "released"] \in RunRecord
        /\ [run[g] EXCEPT !.pc = "released"].pc = "released"
        /\ [run[g] EXCEPT !.pc = "released"].task = t
    BY <1>1 DEF RunRecord, t
  <2> QED
    BY <1>2, <2>1, <2>2
<1>4. TypeOK'
  <2>1. lock' \in [Keys -> 0..NTasks] /\ handle' \in [Tasks -> 0..MaxRuns]
    BY <1>1, <1>2, TaskAssumption DEF IInv, TypeOK
  <2> QED
    BY <1>2, <1>3, <2>1 DEF IInv, TypeOK
<1>5. WellFormed'
  BY <1>1, <1>2, <1>3 DEF IInv, Locking, WellFormed, NoRun, OfKey
<1>6. \A h \in Goroutines : Holding(h)' => Holding(h) /\ h # g /\ run'[h] = run[h]
  BY <1>3 DEF Holding, NoRun
<1>7. OneRunPerKey'
  BY <1>6 DEF IInv, Locking, OneRunPerKey
<1>8. Registered'
  <2> SUFFICES ASSUME NEW h \in Goroutines, Holding(h)', KeyOf[run'[h].task] # NoKey
               PROVE  lock'[KeyOf[run'[h].task]] = run'[h].task /\ handle'[run'[h].task] = h
    BY DEF Registered
  <2>1. Holding(h) /\ h # g /\ run'[h] = run[h] /\ run[h].task \in Tasks
    BY <1>6 DEF IInv, Locking, WellFormed, Holding
  <2>2. KeyOf[run[h].task] # KeyOf[t] /\ KeyOf[run[h].task] \in Keys
    BY <1>1, <2>1, KeysOfTasks DEF IInv, Locking, OneRunPerKey, t
  <2> QED
    BY <1>1, <1>2, <2>1, <2>2 DEF IInv, TypeOK, Locking, Registered
<1>9. QueueIsWatched'
  <2> SUFFICES ASSUME NEW k \in Keys, queue[k] # <<>>
               PROVE  lock'[k] # 0 \/ Wakers(k)' # {} \/ asleep[k] # "no"
    BY <1>2 DEF QueueIsWatched
  <2>1. CASE k = KeyOf[t]
    BY <1>3, <2>1, TaskAssumption DEF Wakers
  <2>2. CASE k # KeyOf[t]
    <3>1. Wakers(k) \subseteq Wakers(k)'
      BY <1>1, <1>3 DEF Wakers
    <3> QED
      BY <1>2, <2>2, <3>1 DEF IInv, Locking, QueueIsWatched
  <2> QED
    BY <2>1, <2>2
<1> QED
  BY <1>4, <1>5, <1>7, <1>8, <1>9 DEF IInv, Locking

LEMMA HeadAndTail ==
    ASSUME NEW S, NEW q \in Seq(S), q # <<>>
    PROVE  Head(q) \in S /\ Tail(q) \in Seq(S)
OBVIOUS

\* A goroutine that ends leaves the locks as they are.
LEMMA Vacated ==
    ASSUME WellFormed, OneRunPerKey, Registered, NEW g \in Goroutines, run'[g].pc = "none",
           \A h \in Goroutines : h # g => run'[h] = run[h],
           UNCHANGED <<handle, lock, queue, mu>>
    PROVE  WellFormed' /\ OneRunPerKey' /\ Registered'
<1>1. \A h \in Goroutines : run'[h].pc # "none" => run'[h] = run[h]
  OBVIOUS
<1>2. \A h \in Goroutines : Holding(h)' => Holding(h) /\ run'[h] = run[h]
  BY <1>1 DEF Holding
<1>3. WellFormed'
  <2>1. \A h \in Goroutines :
           /\ run'[h].pc # "none" => run'[h].task \in Tasks
           /\ run'[h].pc \in {"released", "woke", "handing"} => KeyOf[run'[h].task] # NoKey
           /\ run'[h].pc \in {"woke", "handing"}
              => run'[h].next \in Tasks /\ KeyOf[run'[h].next] = KeyOf[run'[h].task]
    BY <1>1 DEF WellFormed
  <2> QED
    BY <2>1 DEF WellFormed
<1>4. OneRunPerKey'
  BY <1>2 DEF OneRunPerKey
<1>5. Registered'
  BY <1>2 DEF Registered
<1> QED
  BY <1>3, <1>4, <1>5

LEMMA DequeueInv == ASSUME IInv, NEW g \in Goroutines, Dequeue(g) PROVE IInv'
<1> DEFINE k == KeyOf[run[g].task]
<1>1. /\ run[g].pc = "released" /\ run[g] \in RunRecord /\ run[g].task \in Tasks
      /\ k # NoKey /\ k \in Keys /\ queue[k] \in Seq(Tasks) /\ queue[k] \in Seq(OfKey(k))
      /\ UNCHANGED <<status, attempt, later, handle, lock, mu, snap, mgr, crashes, cancel,
                     cancels, begun, asleep, torn, raced>>
  BY KeysOfTasks DEF Dequeue, IInv, TypeOK, Locking, WellFormed, store, registry, control, history
<1>2. \/ queue[k] = <<>> /\ run' = [run EXCEPT ![g] = NoRun] /\ UNCHANGED queue
      \/ /\ queue[k] # <<>>
         /\ run' = [run EXCEPT ![g].pc = "woke", ![g].next = Head(queue[k])]
         /\ queue' = [queue EXCEPT ![k] = Tail(@)]
  BY DEF Dequeue
<1>3. run \in [Goroutines -> RunRecord] /\ queue \in [Keys -> Seq(Tasks)]
  BY DEF IInv, TypeOK
<1>4. CASE queue[k] = <<>> /\ run' = [run EXCEPT ![g] = NoRun] /\ UNCHANGED queue
  <2>1. /\ run' \in [Goroutines -> RunRecord] /\ run'[g] = NoRun
        /\ \A h \in Goroutines : h # g => run'[h] = run[h]
    BY <1>1, <1>3, <1>4, FreshRun DEF IInv
  <2>2. TypeOK'
    BY <1>1, <1>4, <2>1 DEF IInv, TypeOK
  <2>3. WellFormed' /\ OneRunPerKey' /\ Registered'
    <3>1. run'[g].pc = "none"
      BY <2>1 DEF NoRun
    <3> QED
      BY <1>1, <1>4, <2>1, <3>1, Vacated DEF IInv, Locking
  <2>4. \A l \in Keys : l # k => Wakers(l) \subseteq Wakers(l)'
    BY <2>1 DEF Wakers
  <2>5. QueueIsWatched'
    BY <1>1, <1>4, <2>4 DEF IInv, Locking, QueueIsWatched
  <2> QED
    BY <2>2, <2>3, <2>5 DEF IInv, Locking
<1>5. CASE /\ queue[k] # <<>>
           /\ run' = [run EXCEPT ![g].pc = "woke", ![g].next = Head(queue[k])]
           /\ queue' = [queue EXCEPT ![k] = Tail(@)]
  <2>1. /\ Head(queue[k]) \in OfKey(k) /\ Tail(queue[k]) \in Seq(OfKey(k))
        /\ Tail(queue[k]) \in Seq(Tasks) /\ Head(queue[k]) \in Tasks
    BY <1>1, <1>5, HeadAndTail
  <2>2. PICK n \in Tasks : n = Head(queue[k])
    BY <2>1
  <2> DEFINE r == [run[g] EXCEPT !.pc = "woke", !.next = n]
  <2>3. /\ r \in RunRecord /\ r.pc = "woke" /\ r.task = run[g].task /\ r.next = n
    <3>1. n \in 0..NTasks
      BY TaskAssumption DEF Tasks
    <3> QED
      BY <1>1, <3>1 DEF RunRecord
  <2>10. run' = [run EXCEPT ![g] = r]
    BY <1>3, <1>5, <2>2
  <2> HIDE DEF r
  <2>4. /\ run' \in [Goroutines -> RunRecord] /\ run'[g] = r
        /\ \A h \in Goroutines : h # g => run'[h] = run[h]
    BY <1>3, <2>3, <2>10
  <2>5. /\ queue' \in [Keys -> Seq(Tasks)]
        /\ \A l \in Keys : queue'[l] = IF l = k THEN Tail(queue[k]) ELSE queue[l]
    BY <1>1, <1>3, <1>5, <2>1
  <2>6. TypeOK'
    BY <1>1, <2>4, <2>5 DEF IInv, TypeOK
  <2>7. WellFormed'
    <3>1. n \in Tasks /\ KeyOf[n] = k
      BY <2>1, <2>2 DEF OfKey
    <3>2. \A h \in Goroutines :
             /\ run'[h].pc # "none" => run'[h].task \in Tasks
             /\ run'[h].pc \in {"released", "woke", "handing"} => KeyOf[run'[h].task] # NoKey
             /\ run'[h].pc \in {"woke", "handing"}
                => run'[h].next \in Tasks /\ KeyOf[run'[h].next] = KeyOf[run'[h].task]
      BY <1>1, <2>3, <2>4, <3>1 DEF IInv, Locking, WellFormed
    <3>3. \A l \in Keys : queue'[l] \in Seq(OfKey(l))
      BY <2>1, <2>5 DEF IInv, Locking, WellFormed
    <3> QED
      BY <1>1, <3>2, <3>3 DEF IInv, Locking, WellFormed
  <2>8. OneRunPerKey' /\ Registered'
    BY <1>1, <2>3, <2>4 DEF IInv, Locking, OneRunPerKey, Registered, Holding
  <2>9. QueueIsWatched'
    <3>1. \A l \in Keys : Wakers(l)' = Wakers(l)
      BY <1>1, <2>3, <2>4 DEF Wakers
    <3>2. g \in Wakers(k)
      BY <1>1 DEF Wakers
    <3> QED
      BY <1>1, <2>5, <3>1, <3>2 DEF IInv, Locking, QueueIsWatched
  <2> QED
    BY <2>6, <2>7, <2>8, <2>9 DEF IInv, Locking
<1> QED
  BY <1>2, <1>4, <1>5

LEMMA RereadInv == ASSUME IInv, NEW g \in Goroutines, Reread(g) PROVE IInv'
<1> DEFINE k == KeyOf[run[g].task]
           t == run[g].next
<1>1. /\ run[g].pc = "woke" /\ run[g] \in RunRecord /\ run[g].task \in Tasks /\ t \in Tasks
      /\ k # NoKey /\ k \in Keys /\ KeyOf[t] = k /\ attempt[t] \in Nat
      /\ run \in [Goroutines -> RunRecord] /\ asleep \in [Keys -> {"no", "late", "dead"}]
      /\ UNCHANGED <<status, attempt, later, handle, lock, queue, mu, snap, mgr, crashes,
                     cancel, cancels, begun, torn, raced>>
  BY KeysOfTasks DEF Reread, IInv, TypeOK, Locking, WellFormed, store, registry, control
<1>2. CASE StillQueued(t)
  <2> DEFINE r == [run[g] EXCEPT !.pc = "handing", !.attempt = attempt[t]]
  <2>1. run' = [run EXCEPT ![g] = r] /\ UNCHANGED asleep
    BY <1>1, <1>2 DEF Reread
  <2>2. /\ r \in RunRecord /\ r.pc = "handing" /\ r.task = run[g].task /\ r.next = t
    BY <1>1 DEF RunRecord
  <2> HIDE DEF r
  <2>3. /\ run' \in [Goroutines -> RunRecord] /\ run'[g] = r
        /\ \A h \in Goroutines : h # g => run'[h] = run[h]
    BY <1>1, <2>1, <2>2
  <2>4. TypeOK'
    BY <1>1, <2>1, <2>3 DEF IInv, TypeOK
  <2>5. WellFormed' /\ OneRunPerKey' /\ Registered'
    <3>1. \A h \in Goroutines :
             /\ run'[h].pc # "none" => run'[h].task \in Tasks
             /\ run'[h].pc \in {"released", "woke", "handing"} => KeyOf[run'[h].task] # NoKey
             /\ run'[h].pc \in {"woke", "handing"}
                => run'[h].next \in Tasks /\ KeyOf[run'[h].next] = KeyOf[run'[h].task]
      BY <1>1, <2>2, <2>3 DEF IInv, Locking, WellFormed
    <3>2. WellFormed'
      BY <1>1, <3>1 DEF IInv, Locking, WellFormed, OfKey
    <3>3. \A h \in Goroutines : (Holding(h) <=> Holding(h)') /\ run'[h].task = run[h].task
      BY <1>1, <2>2, <2>3 DEF Holding
    <3>4. OneRunPerKey' /\ Registered'
      BY <1>1, <3>3 DEF IInv, Locking, OneRunPerKey, Registered
    <3> QED
      BY <3>2, <3>4
  <2>6. \A l \in Keys : Wakers(l)' = Wakers(l)
    BY <1>1, <2>2, <2>3 DEF Wakers
  <2>7. QueueIsWatched'
    BY <1>1, <2>1, <2>6 DEF IInv, Locking, QueueIsWatched
  <2> QED
    BY <2>4, <2>5, <2>7 DEF IInv, Locking
<1>3. CASE ~StillQueued(t)
  <2>1. /\ run' = [run EXCEPT ![g] = NoRun]
        /\ asleep' = IF queue[k] # <<>> /\ lock[k] = 0 /\ Wakers(k) = {g}
                     THEN [asleep EXCEPT ![k] = "dead"] ELSE asleep
    BY <1>3 DEF Reread
  <2>2. /\ run' \in [Goroutines -> RunRecord] /\ run'[g] = NoRun
        /\ \A h \in Goroutines : h # g => run'[h] = run[h]
    BY <1>1, <2>1, FreshRun DEF IInv
  <2>3. asleep' \in [Keys -> {"no", "late", "dead"}]
    BY <1>1, <2>1
  <2>4. TypeOK'
    BY <1>1, <2>2, <2>3 DEF IInv, TypeOK
  <2>5. WellFormed' /\ OneRunPerKey' /\ Registered'
    <3>1. run'[g].pc = "none"
      BY <2>2 DEF NoRun
    <3> QED
      BY <1>1, <2>2, <3>1, Vacated DEF IInv, Locking
  <2>6. QueueIsWatched'
    <3> SUFFICES ASSUME NEW l \in Keys, queue[l] # <<>>
                 PROVE  lock[l] # 0 \/ Wakers(l)' # {} \/ asleep'[l] # "no"
      BY <1>1 DEF QueueIsWatched
    <3>1. \A h \in Wakers(l) : h # g => h \in Wakers(l)'
      BY <2>2 DEF Wakers
    <3>2. CASE l = k
      <4>1. g \in Wakers(k)
        BY <1>1 DEF Wakers
      <4>2. CASE Wakers(k) = {g}
        BY <1>1, <2>1, <3>2, <4>2
      <4>3. CASE Wakers(k) # {g}
        BY <3>1, <3>2, <4>1, <4>3
      <4> QED
        BY <4>2, <4>3
    <3>3. CASE l # k
      <4>1. Wakers(l) \subseteq Wakers(l)'
        BY <3>1, <3>3 DEF Wakers
      <4>2. asleep'[l] = asleep[l]
        BY <1>1, <2>1, <3>3
      <4> QED
        BY <4>1, <4>2 DEF IInv, Locking, QueueIsWatched
    <3> QED
      BY <3>2, <3>3
  <2> QED
    BY <2>4, <2>5, <2>6 DEF IInv, Locking
<1> QED
  BY <1>2, <1>3
-----------------------------------------------------------------------------
(* Cancel and the end of the process. *)

\* serialKeyQueue.remove leaves a queue of the same elements.
LEMMA WithoutIsQueue ==
    ASSUME NEW S, NEW q \in Seq(S), NEW t
    PROVE  Without(q, t) \in Seq(S) /\ (q = <<>> => Without(q, t) = <<>>)
<1>1. CASE \A i \in DOMAIN q : q[i] # t
  BY <1>1 DEF Without
<1>2. CASE \E i \in DOMAIN q : q[i] = t
  <2> DEFINE e(i) == IF \A j \in 1..i : q[j] # t THEN q[i] ELSE q[i + 1]
  <2>1. Len(q) \in Nat /\ Len(q) # 0 /\ q # <<>>
    BY <1>2
  <2>2. \A i \in 1..(Len(q) - 1) : e(i) \in S
    BY <2>1
  <2>3. Without(q, t) = [i \in 1..(Len(q) - 1) |-> e(i)]
    BY <1>2 DEF Without
  <2> HIDE DEF e
  <2>4. [i \in 1..(Len(q) - 1) |-> e(i)] \in Seq(S)
    BY <2>1, <2>2
  <2> QED
    BY <2>1, <2>3, <2>4
<1> QED
  BY <1>1, <1>2

LEMMA CancelSignalInv == ASSUME IInv, NEW t \in Tasks, CancelSignal(t) PROVE IInv'
<1>1. /\ \A g \in Goroutines : /\ run'[g].pc = run[g].pc /\ run'[g].task = run[g].task
                              /\ run'[g].next = run[g].next
      /\ run' \in [Goroutines -> RunRecord]
  <2>1. ASSUME NEW g \in Goroutines
        PROVE  /\ [run[g] EXCEPT !.cancelled = TRUE] \in RunRecord
               /\ [run[g] EXCEPT !.cancelled = TRUE].pc = run[g].pc
               /\ [run[g] EXCEPT !.cancelled = TRUE].task = run[g].task
               /\ [run[g] EXCEPT !.cancelled = TRUE].next = run[g].next
    <3>1. run[g] \in RunRecord
      BY DEF IInv, TypeOK
    <3>2. [run[g] EXCEPT !.cancelled = TRUE] \in RunRecord
      BY <3>1 DEF RunRecord
    <3> QED
      BY <3>1, <3>2 DEF RunRecord
  <2> QED
    BY <2>1 DEF CancelSignal, IInv, TypeOK
<1>2. UNCHANGED <<status, attempt, later, handle, lock, queue, mu, snap, mgr, crashes, cancels,
                  begun, asleep, torn, raced>>
  BY DEF CancelSignal, store, registry, control, history
<1>3. TypeOK'
  BY <1>1, <1>2 DEF CancelSignal, IInv, TypeOK
<1>4. WellFormed' /\ OneRunPerKey' /\ Registered'
  BY <1>1, <1>2 DEF IInv, Locking, WellFormed, OneRunPerKey, Registered, Holding, OfKey
<1>5. QueueIsWatched'
  BY <1>1, <1>2 DEF IInv, Locking, QueueIsWatched, Wakers
<1> QED
  BY <1>3, <1>4, <1>5 DEF IInv, Locking

LEMMA CancelDequeueInv == ASSUME IInv, NEW t \in Tasks, CancelDequeue(t) PROVE IInv'
<1>1. /\ queue' = [k \in Keys |-> IF k = KeyOf[t] THEN Without(queue[k], t) ELSE queue[k]]
      /\ UNCHANGED <<status, attempt, later, handle, lock, run, mu, snap, mgr, crashes, cancels,
                     begun, asleep, raced>>
  BY DEF CancelDequeue, store, registry, control
<1>2. \A k \in Keys : /\ queue'[k] \in Seq(Tasks) /\ queue'[k] \in Seq(OfKey(k))
                      /\ queue'[k] # <<>> => queue[k] # <<>>
  <2> TAKE k \in Keys
  <2>1. queue[k] \in Seq(Tasks) /\ queue[k] \in Seq(OfKey(k))
    BY DEF IInv, TypeOK, Locking, WellFormed
  <2>2. /\ Without(queue[k], t) \in Seq(Tasks) /\ Without(queue[k], t) \in Seq(OfKey(k))
        /\ queue[k] = <<>> => Without(queue[k], t) = <<>>
    BY <2>1, WithoutIsQueue
  <2> QED
    BY <1>1, <2>1, <2>2
<1>3. TypeOK'
  <2>1. queue' \in [Keys -> Seq(Tasks)]
    BY <1>1, <1>2
  <2>2. torn' \subseteq Tasks
    BY DEF CancelDequeue, IInv, TypeOK
  <2> QED
    BY <1>1, <2>1, <2>2 DEF CancelDequeue, IInv, TypeOK
<1>4. WellFormed' /\ OneRunPerKey' /\ Registered'
  BY <1>1, <1>2 DEF IInv, Locking, WellFormed, OneRunPerKey, Registered, Holding, OfKey
<1>5. QueueIsWatched'
  BY <1>1, <1>2 DEF IInv, Locking, QueueIsWatched, Wakers
<1> QED
  BY <1>3, <1>4, <1>5 DEF IInv, Locking

LEMMA CrashInv == ASSUME IInv, Crash PROVE IInv'
<1>1. NoRun \in RunRecord /\ Unlocked \in MuRecord
  BY TaskAssumption DEF NoRun, RunRecord, Unlocked, MuRecord
<1>2. crashes' \in 0..MaxCrashes
  BY TaskAssumption DEF Crash, IInv, TypeOK
<1>3. TypeOK'
  BY <1>1, <1>2, TaskAssumption DEF Crash, IInv, TypeOK, store
<1>4. Locking'
  BY DEF Crash, Locking, WellFormed, OneRunPerKey, Registered, QueueIsWatched, Holding,
         NoRun, Unlocked, OfKey
<1> QED
  BY <1>3, <1>4 DEF IInv
-----------------------------------------------------------------------------
LEMMA NextInv == IInv /\ [Next]_vars => IInv'
<1> SUFFICES ASSUME IInv, [Next]_vars PROVE IInv'
  OBVIOUS
<1>1. CASE UNCHANGED vars
  <2>1. UNCHANGED core /\ TypeOK'
    BY <1>1 DEF vars, core, store, registry, control, history, IInv, TypeOK
  <2> QED
    BY <2>1, LockingUntouched DEF IInv
<1>2. ASSUME NEW t \in Tasks, Client(t) PROVE IInv'
  BY <1>2, ClientInv, CancelSignalInv, CancelDequeueInv DEF Client
<1>3. ASSUME NEW g \in Goroutines, Runner(g) PROVE IInv'
  BY <1>3, LaunchInv, HandlerReturnsInv, UnregisterInv, DequeueInv, RereadInv, HandOverInv
     DEF Runner, Finish
<1>4. CASE Scheduler \/ Start \/ Stop
  BY <1>4, LoopInv, DispatchNextInv DEF Scheduler
<1>5. CASE MarkQueued \/ Enqueue \/ Crash
  BY <1>5, MarkQueuedInv, EnqueueInv, CrashInv
<1> QED
  BY <1>1, <1>2, <1>3, <1>4, <1>5 DEF Next

LEMMA Invariant == Spec => []IInv
BY InitInv, NextInv, PTL DEF Spec

\* The store, the registry, the queues and the goroutines keep their types.
THEOREM TypeCorrect == Spec => []TypeOK
<1>1. IInv => TypeOK
  BY DEF IInv
<1> QED
  BY <1>1, Invariant, PTL

\* A serialization key serializes, whatever the scheduler, the finishing tasks
\* and the cancellations do.
THEOREM KeySerializes == Spec => []OneRunPerKey
<1>1. IInv => OneRunPerKey
  BY DEF IInv, Locking
<1> QED
  BY <1>1, Invariant, PTL

\* The handle by which Cancel finds a running task with a key is its own.
THEOREM CancelFindsTheRun == Spec => []CancelReaches
<1>1. IInv => CancelReaches
  BY DEF IInv, Locking, Registered, CancelReaches, Holding
<1> QED
  BY <1>1, Invariant, PTL

\* A queue is left without anybody to empty it in two ways only.
THEOREM QueueSleepsInTwoWays == Spec => []QueueIsWatched
<1>1. IInv => QueueIsWatched
  BY DEF IInv, Locking
<1> QED
  BY <1>1, Invariant, PTL
-----------------------------------------------------------------------------
(* A task is in one place at a time, so a final status stays, a queued     *)
(* task is found, and MaxAttempts is kept.                                 *)

Elements(q) == {q[i] : i \in DOMAIN q}
Unrepeated(q) == \A i, j \in DOMAIN q : q[i] = q[j] => i = j

\* The places a task can be in, beside the m.mu it is dispatched under.
InQueue(t) == \E k \in Keys : t \in Elements(queue[k])
InSnap(t) == \E d \in snap : d.task = t
Drawn(g, t) == run[g].pc = "woke" /\ run[g].next = t
Handed(g, t) == run[g].pc = "handing" /\ run[g].next = t
Runs(g, t) == run[g].pc = "handler" /\ run[g].task = t
With(g, t) == Drawn(g, t) \/ Handed(g, t) \/ Runs(g, t)

\* No task is in two places.
OnePlace ==
    /\ \A k \in Keys : Unrepeated(queue[k])
    /\ \A d, e \in snap : d.task = e.task => d = e
    /\ \A t \in Tasks :
          /\ \A g, h \in Goroutines : With(g, t) /\ With(h, t) => g = h
          /\ \A g \in Goroutines : With(g, t) => ~InQueue(t) /\ ~InSnap(t) /\ mu.task # t
          /\ InQueue(t) => ~InSnap(t) /\ mu.task # t
          /\ InSnap(t) => mu.task # t

\* Cancel marked the task while somebody was about to write its status.
Marked(t) == status[t] = "cancelled" /\ t \in raced

\* The status of a task, by the place where it is.
StatusFits ==
    \A t \in Tasks :
        /\ InQueue(t) => status[t] \in {"queued", "cancelled"}
        /\ InSnap(t) => status[t] = "pending" \/ Marked(t)
        /\ mu.task = t =>
              \/ Marked(t)
              \/ status[t] = IF mu.bySched /\ mu.pc # "enqueueing" THEN "pending" ELSE "queued"
        /\ \A g \in Goroutines :
              /\ Drawn(g, t) => status[t] \in {"queued", "cancelled"}
              /\ Handed(g, t) => status[t] = "queued" \/ Marked(t)
              /\ Runs(g, t) => status[t] = "running" \/ Marked(t)

\* The goroutine that m.mu is about to start is the only one starting.
Starting ==
    /\ mu.pc = "free" => mu = Unlocked
    /\ \A g \in Goroutines : run[g].pc = "starting" =>
          /\ mu.pc = "launching" /\ run[g].task = mu.task
          /\ \A h \in Goroutines : run[h].pc = "starting" => g = h

\* What attempt a place has in view, and that one is left where one may start.
AttemptsFit ==
    /\ \A t \in Tasks :
          /\ begun[t] = attempt[t] /\ attempt[t] <= MaxAttempts[t]
          /\ (mu.task = t \/ status[t] \in {"absent", "pending", "queued"})
             => attempt[t] < MaxAttempts[t]
    /\ \A d \in snap : d.attempt = attempt[d.task] /\ d.attempt < MaxAttempts[d.task]
    /\ \A g \in Goroutines :
          /\ run[g].pc = "starting" => run[g].attempt = attempt[run[g].task] + 1
          /\ run[g].pc = "handing" => /\ run[g].attempt = attempt[run[g].next]
                                      /\ run[g].attempt < MaxAttempts[run[g].next]
          /\ run[g].pc = "handler" => run[g].attempt = attempt[run[g].task]

\* A process that has not called Start holds nothing in memory.
DownIsEmpty ==
    mgr = "down" => /\ mu.pc = "free" /\ snap = {}
                    /\ \A k \in Keys : queue[k] = <<>>
                    /\ \A g \in Goroutines : run[g].pc = "none"

Found ==
    \A t \in Tasks : status[t] = "queued" =>
        \/ mgr = "down" \/ InQueue(t) \/ mu.task = t \/ t \in torn
        \/ \E g \in Goroutines : Drawn(g, t) \/ Handed(g, t)

Fates == OnePlace /\ StatusFits /\ Starting /\ AttemptsFit /\ DownIsEmpty /\ Found

\* The inductive invariant, on top of the one about locks and queues.
FInv == IInv /\ Fates
-----------------------------------------------------------------------------
(* Queues. *)

LEMMA AppendElements ==
    ASSUME NEW q \in Seq(Tasks), NEW t \in Tasks
    PROVE  /\ Elements(Append(q, t)) = Elements(q) \cup {t}
           /\ (Unrepeated(q) /\ t \notin Elements(q)) => Unrepeated(Append(q, t))
<1> DEFINE r == Append(q, t)
<1>1. /\ Len(q) \in Nat /\ DOMAIN q = 1..Len(q) /\ DOMAIN r = 1..(Len(q) + 1)
      /\ r[Len(q) + 1] = t /\ \A i \in 1..Len(q) : r[i] = q[i]
  OBVIOUS
<1> HIDE DEF r
<1>2. Elements(r) = Elements(q) \cup {t}
  BY <1>1 DEF Elements
<1>3. (Unrepeated(q) /\ t \notin Elements(q)) => Unrepeated(r)
  BY <1>1 DEF Unrepeated, Elements
<1> QED
  BY <1>2, <1>3 DEF r

LEMMA TailElements ==
    ASSUME NEW q \in Seq(Tasks), q # <<>>
    PROVE  /\ Elements(q) = Elements(Tail(q)) \cup {Head(q)}
           /\ Unrepeated(q) => Unrepeated(Tail(q)) /\ Head(q) \notin Elements(Tail(q))
<1> DEFINE r == Tail(q)
           h == Head(q)
<1>1. /\ Len(q) \in Nat /\ Len(q) # 0 /\ DOMAIN q = 1..Len(q) /\ DOMAIN r = 1..(Len(q) - 1)
      /\ h = q[1] /\ \A i \in 1..(Len(q) - 1) : r[i] = q[i + 1]
  OBVIOUS
<1> HIDE DEF r, h
<1>2. Elements(q) = Elements(r) \cup {h}
  <2>1. \A i \in DOMAIN q : i = 1 \/ (i - 1 \in DOMAIN r /\ q[i] = r[i - 1])
    BY <1>1
  <2>2. Elements(q) \subseteq Elements(r) \cup {h}
    BY <1>1, <2>1 DEF Elements
  <2>3. Elements(r) \cup {h} \subseteq Elements(q)
    BY <1>1 DEF Elements
  <2> QED
    BY <2>2, <2>3
<1>3. ASSUME Unrepeated(q) PROVE Unrepeated(r) /\ h \notin Elements(r)
  <2>1. \A i \in DOMAIN r : i \in Nat /\ i + 1 \in DOMAIN q /\ i + 1 # 1
    BY <1>1
  <2>2. Unrepeated(r)
    <3> SUFFICES ASSUME NEW i \in DOMAIN r, NEW j \in DOMAIN r, r[i] = r[j] PROVE i = j
      BY DEF Unrepeated
    <3>1. i + 1 = j + 1
      BY <1>1, <1>3, <2>1 DEF Unrepeated
    <3> QED
      BY <2>1, <3>1
  <2>3. 1 \in DOMAIN q
    BY <1>1
  <2>4. \A i \in DOMAIN r : r[i] # h
    BY <1>1, <1>3, <2>1, <2>3 DEF Unrepeated
  <2> QED
    BY <2>2, <2>4 DEF Elements
<1> QED
  BY <1>2, <1>3 DEF r, h

LEMMA WithoutElements ==
    ASSUME NEW q \in Seq(Tasks), NEW t \in Tasks, Unrepeated(q)
    PROVE  Elements(Without(q, t)) = Elements(q) \ {t} /\ Unrepeated(Without(q, t))
<1>1. CASE \A i \in DOMAIN q : q[i] # t
  BY <1>1 DEF Without, Elements
<1>2. CASE \E i \in DOMAIN q : q[i] = t
  <2> DEFINE r == Without(q, t)
  <2>1. PICK m \in DOMAIN q : q[m] = t
    BY <1>2
  <2>2. DOMAIN q = 1..Len(q) /\ Len(q) \in Nat /\ m \in 1..Len(q)
    BY <2>1
  <2>3. r = [i \in 1..(Len(q) - 1) |-> IF \A j \in 1..i : q[j] # t THEN q[i] ELSE q[i + 1]]
    BY <1>2 DEF Without
  <2>4. \A i \in 1..(Len(q) - 1) : (\A j \in 1..i : q[j] # t) <=> i < m
    BY <2>1, <2>2 DEF Unrepeated
  <2>5. DOMAIN r = 1..(Len(q) - 1) /\ \A i \in 1..(Len(q) - 1) :
            r[i] = IF i < m THEN q[i] ELSE q[i + 1]
    BY <2>3, <2>4
  <2> HIDE DEF r
  <2>6. Elements(r) \subseteq Elements(q) \ {t}
    <3> SUFFICES ASSUME NEW i \in 1..(Len(q) - 1) PROVE r[i] \in Elements(q) \ {t}
      BY <2>5 DEF Elements
    <3>1. CASE i < m
      BY <2>1, <2>2, <2>5, <3>1 DEF Elements, Unrepeated
    <3>2. CASE ~(i < m)
      BY <2>1, <2>2, <2>5, <3>2 DEF Elements, Unrepeated
    <3> QED
      BY <3>1, <3>2
  <2>7. Elements(q) \ {t} \subseteq Elements(r)
    <3> SUFFICES ASSUME NEW i \in 1..Len(q), i # m PROVE q[i] \in Elements(r)
      BY <2>1, <2>2 DEF Elements
    <3>1. CASE i < m
      <4>1. i \in DOMAIN r /\ r[i] = q[i]
        BY <2>2, <2>5, <3>1
      <4> QED
        BY <4>1 DEF Elements
    <3>2. CASE ~(i < m)
      <4>1. i - 1 \in DOMAIN r /\ r[i - 1] = q[i]
        BY <2>2, <2>5, <3>2
      <4> QED
        BY <4>1 DEF Elements
    <3> QED
      BY <3>1, <3>2
  <2>8. Unrepeated(r)
    <3> SUFFICES ASSUME NEW i \in 1..(Len(q) - 1), NEW j \in 1..(Len(q) - 1), r[i] = r[j]
                 PROVE  i = j
      BY <2>5 DEF Unrepeated
    <3> DEFINE s(n) == IF n < m THEN n ELSE n + 1
    <3>1. q[s(i)] = q[s(j)] /\ s(i) \in DOMAIN q /\ s(j) \in DOMAIN q
      BY <2>2, <2>5
    <3>2. s(i) = s(j)
      BY <3>1 DEF Unrepeated
    <3> QED
      BY <2>2, <3>2
  <2> QED
    BY <2>6, <2>7, <2>8 DEF r
<1> QED
  BY <1>1, <1>2
-----------------------------------------------------------------------------
(* Actions that leave every task where it is. *)

LEMMA QueueKept == ASSUME UNCHANGED queue PROVE \A t \in Tasks : InQueue(t)' <=> InQueue(t)
BY DEF InQueue, Elements

LEMMA SnapKept == ASSUME UNCHANGED snap PROVE \A t \in Tasks : InSnap(t)' <=> InSnap(t)
BY DEF InSnap

\* The goroutines that a step does not touch.
LEMMA OthersKept ==
    ASSUME NEW S, \A h \in Goroutines \ S : /\ run'[h].pc = run[h].pc
                                            /\ run'[h].task = run[h].task
                                            /\ run'[h].next = run[h].next
    PROVE  \A h \in Goroutines \ S, t \in Tasks :
              /\ Drawn(h, t)' <=> Drawn(h, t)
              /\ Handed(h, t)' <=> Handed(h, t)
              /\ Runs(h, t)' <=> Runs(h, t)
BY DEF Drawn, Handed, Runs

LEMMA PlacesKept ==
    ASSUME UNCHANGED <<run, mu, queue, snap>>
    PROVE  /\ \A t \in Tasks : (InQueue(t)' <=> InQueue(t)) /\ (InSnap(t)' <=> InSnap(t))
           /\ \A g \in Goroutines, t \in Tasks :
                 /\ Drawn(g, t)' <=> Drawn(g, t)
                 /\ Handed(g, t)' <=> Handed(g, t)
                 /\ Runs(g, t)' <=> Runs(g, t)
           /\ OnePlace => OnePlace'
           /\ (Starting /\ UNCHANGED attempt) => Starting'
<1>1. \A t \in Tasks : (InQueue(t)' <=> InQueue(t)) /\ (InSnap(t)' <=> InSnap(t))
  BY DEF InQueue, InSnap, Elements
<1>2. \A g \in Goroutines, t \in Tasks :
         /\ Drawn(g, t)' <=> Drawn(g, t)
         /\ Handed(g, t)' <=> Handed(g, t)
         /\ Runs(g, t)' <=> Runs(g, t)
         /\ With(g, t)' <=> With(g, t)
  BY DEF Drawn, Handed, Runs, With
<1>3. OnePlace => OnePlace'
  BY <1>1, <1>2 DEF OnePlace, Unrepeated
<1>4. (Starting /\ UNCHANGED attempt) => Starting'
  BY DEF Starting, Unlocked
<1> QED
  BY <1>1, <1>2, <1>3, <1>4

LEMMA InitFates == Init => Fates
<1> SUFFICES ASSUME Init PROVE Fates
  OBVIOUS
<1>1. /\ \A t \in Tasks : ~InQueue(t) /\ ~InSnap(t) /\ mu.task # t
      /\ \A g \in Goroutines : run[g].pc = "none"
      /\ mu = Unlocked /\ mu.pc = "free" /\ snap = {}
  BY DEF Init, InQueue, InSnap, Elements, NoRun, Unlocked, Tasks
<1>2. \A t : \A g \in Goroutines :
        ~Drawn(g, t) /\ ~Handed(g, t) /\ ~Runs(g, t) /\ ~With(g, t)
  BY <1>1 DEF Drawn, Handed, Runs, With
<1>3. OnePlace /\ StatusFits /\ Starting
  BY <1>1, <1>2 DEF OnePlace, StatusFits, Starting, Init, Unrepeated
<1>4. AttemptsFit
  BY <1>1, TaskAssumption DEF AttemptsFit, Init
<1>5. DownIsEmpty /\ Found
  BY <1>1 DEF DownIsEmpty, Found, Init
<1> QED
  BY <1>3, <1>4, <1>5 DEF Fates

LEMMA ClientFates ==
    ASSUME FInv, NEW t \in Tasks, Submit(t) \/ ComesDue(t) \/ CancelRead(t)
    PROVE  Fates'
<1>1. /\ UNCHANGED <<run, mu, queue, snap, attempt, begun, mgr, raced, torn>>
      /\ \A u \in Tasks : status'[u] = status[u] \/ (status[u] = "absent" /\ status'[u] = "pending")
  BY DEF Submit, ComesDue, CancelRead, store, registry, control, history, FInv, IInv, TypeOK
<1>2. OnePlace' /\ Starting'
  BY <1>1, PlacesKept DEF FInv, Fates
<1>3. StatusFits'
  BY <1>1, PlacesKept DEF FInv, Fates, StatusFits, Marked
<1>4. AttemptsFit'
  BY <1>1 DEF FInv, Fates, AttemptsFit
<1>5. DownIsEmpty' /\ Found'
  BY <1>1, PlacesKept DEF FInv, Fates, DownIsEmpty, Found
<1> QED
  BY <1>2, <1>3, <1>4, <1>5 DEF Fates

LEMMA CancelWriteFates == ASSUME FInv, NEW t \in Tasks, CancelWrite(t) PROVE Fates'
<1>1. /\ UNCHANGED <<run, mu, queue, snap, attempt, begun, mgr, torn>>
      /\ status'[t] = "cancelled" /\ \A u \in Tasks : u # t => status'[u] = status[u]
      /\ raced' = IF InHand(t) THEN raced \cup {t} ELSE raced
  BY DEF CancelWrite, store, registry, control, history, FInv, IInv, TypeOK
<1>2. /\ mu.task = t => InHand(t)
      /\ InSnap(t) => InHand(t)
      /\ \A g \in Goroutines : Handed(g, t) \/ Runs(g, t) => InHand(t)
  BY DEF InHand, InSnap, Handed, Runs
<1>3. OnePlace' /\ Starting'
  BY <1>1, PlacesKept DEF FInv, Fates
<1>4. StatusFits'
  BY <1>1, <1>2, PlacesKept DEF FInv, Fates, StatusFits, Marked
<1>5. AttemptsFit'
  BY <1>1 DEF FInv, Fates, AttemptsFit
<1>6. DownIsEmpty' /\ Found'
  BY <1>1, PlacesKept DEF FInv, Fates, DownIsEmpty, Found
<1> QED
  BY <1>3, <1>4, <1>5, <1>6 DEF Fates

LEMMA LoopFates == ASSUME FInv, LeaveLoop \/ Stop PROVE Fates'
<1>1. UNCHANGED <<run, mu, queue, snap, attempt, begun, status, raced, torn>> /\ mgr # "down" /\ mgr' # "down"
  BY DEF LeaveLoop, Stop, InLoop, store, registry, history
<1>2. OnePlace' /\ Starting'
  BY <1>1, PlacesKept DEF FInv, Fates
<1>3. StatusFits' /\ AttemptsFit'
  BY <1>1, PlacesKept DEF FInv, Fates, StatusFits, Marked, AttemptsFit
<1>4. DownIsEmpty' /\ Found'
  BY <1>1, PlacesKept DEF FInv, Fates, DownIsEmpty, Found
<1> QED
  BY <1>2, <1>3, <1>4 DEF Fates

LEMMA StartFates == ASSUME FInv, Start PROVE Fates'
<1>1. /\ UNCHANGED <<run, mu, queue, snap, attempt, begun, raced, torn>> /\ mgr = "down" /\ mgr' # "down"
      /\ \A t \in Tasks : status'[t] = CASE status[t] = "running" -> "interrupted"
                                        [] status[t] = "queued" -> "pending"
                                        [] OTHER -> status[t]
  BY DEF Start, store, registry, history
<1>2. /\ \A t \in Tasks : ~InQueue(t) /\ ~InSnap(t) /\ mu.task # t
      /\ mu.pc = "free" /\ \A g \in Goroutines : run[g].pc = "none"
  BY <1>1 DEF FInv, Fates, DownIsEmpty, Starting, Unlocked, InQueue, InSnap, Elements, Tasks
<1>3. \A t : \A g \in Goroutines : ~Drawn(g, t) /\ ~Handed(g, t) /\ ~Runs(g, t)
  BY <1>2 DEF Drawn, Handed, Runs
<1>4. OnePlace' /\ Starting'
  BY <1>1, PlacesKept DEF FInv, Fates
<1>5. StatusFits'
  BY <1>1, <1>2, <1>3, PlacesKept DEF StatusFits
<1>6. AttemptsFit'
  <2>1. \A t \in Tasks : status'[t] \in {"absent", "pending", "queued"}
                        => status[t] \in {"absent", "pending", "queued"}
    BY <1>1
  <2> QED
    BY <1>1, <2>1 DEF FInv, Fates, AttemptsFit
<1>7. Found'
  BY <1>1 DEF Found
<1>8. DownIsEmpty'
  BY <1>1 DEF DownIsEmpty
<1> QED
  BY <1>4, <1>5, <1>6, <1>7, <1>8 DEF Fates

LEMMA CrashFates == ASSUME FInv, Crash PROVE Fates'
<1>1. /\ \A t \in Tasks : ~InQueue(t)' /\ ~InSnap(t)' /\ mu'.task # t
      /\ \A g \in Goroutines : run'[g].pc = "none"
      /\ mu' = Unlocked /\ mu'.pc = "free" /\ snap' = {} /\ mgr' = "down"
      /\ \A k \in Keys : queue'[k] = <<>>
      /\ UNCHANGED <<status, attempt, begun>>
  BY DEF Crash, InQueue, InSnap, Elements, NoRun, Unlocked, Tasks, store
<1>2. \A t : \A g \in Goroutines : ~Drawn(g, t)' /\ ~Handed(g, t)' /\ ~Runs(g, t)' /\ ~With(g, t)'
  BY <1>1 DEF Drawn, Handed, Runs, With
<1>3. OnePlace' /\ StatusFits' /\ Starting'
  BY <1>1, <1>2 DEF OnePlace, StatusFits, Starting, Unrepeated
<1>4. AttemptsFit'
  BY <1>1 DEF FInv, Fates, AttemptsFit
<1>5. DownIsEmpty' /\ Found'
  BY <1>1 DEF DownIsEmpty, Found
<1> QED
  BY <1>3, <1>4, <1>5 DEF Fates
-----------------------------------------------------------------------------
(* dispatchTask. *)

LEMMA MarkQueuedFates == ASSUME FInv, MarkQueued PROVE Fates'
<1> DEFINE t == mu.task
<1>1. /\ mu.pc = "marking" /\ t \in Tasks /\ mu'.task = t /\ mu'.pc = "enqueueing"
      /\ mu'.bySched = mu.bySched
      /\ UNCHANGED <<run, queue, snap, attempt, begun, mgr, raced, torn>>
      /\ status'[t] = "queued" /\ \A u \in Tasks : u # t => status'[u] = status[u]
  BY DEF MarkQueued, registry, control, history, FInv, IInv, TypeOK, MuRecord, Locking, WellFormed
<1> HIDE DEF t
<1>2. mgr # "down" /\ mu.task = t /\ \A g \in Goroutines : run[g].pc # "starting"
  BY <1>1 DEF FInv, Fates, DownIsEmpty, Starting, t
<1>3. /\ \A u \in Tasks : (InQueue(u)' <=> InQueue(u)) /\ (InSnap(u)' <=> InSnap(u))
      /\ \A h \in Goroutines, u \in Tasks : /\ Drawn(h, u)' <=> Drawn(h, u)
                                            /\ Handed(h, u)' <=> Handed(h, u)
                                            /\ Runs(h, u)' <=> Runs(h, u)
  BY <1>1, QueueKept, SnapKept, OthersKept
<1>4. OnePlace'
  BY <1>1, <1>2, <1>3 DEF FInv, Fates, OnePlace, With, Unrepeated
<1>5. StatusFits'
  BY <1>1, <1>2, <1>3 DEF FInv, Fates, OnePlace, With, StatusFits, Marked
<1>6. Starting'
  BY <1>1, <1>2 DEF Starting
<1>7. AttemptsFit'
  BY <1>1, <1>2 DEF FInv, Fates, AttemptsFit
<1>8. DownIsEmpty' /\ Found'
  BY <1>1, <1>2, <1>3 DEF FInv, Fates, DownIsEmpty, Found
<1> QED
  BY <1>4, <1>5, <1>6, <1>7, <1>8 DEF Fates

LEMMA EnqueueFates == ASSUME FInv, Enqueue PROVE Fates'
<1> DEFINE t == mu.task
           k == KeyOf[t]
<1>1. /\ mu.pc = "enqueueing" /\ t \in Tasks /\ k \in Keys /\ mu' = Unlocked
      /\ queue \in [Keys -> Seq(Tasks)] /\ queue' = [queue EXCEPT ![k] = Append(@, t)]
      /\ UNCHANGED <<run, snap, status, attempt, begun, mgr, raced, torn>>
  BY KeysOfTasks DEF Enqueue, store, control, FInv, IInv, TypeOK, Locking, WellFormed
<1>2. mu'.task \notin Tasks /\ mu'.pc = "free"
  BY <1>1 DEF Unlocked, Tasks
<1> HIDE DEF t, k
<1>3. /\ mgr # "down" /\ mu.task = t /\ ~InQueue(t) /\ status[t] \in {"queued", "cancelled"}
      /\ \A g \in Goroutines : run[g].pc # "starting"
  BY <1>1 DEF FInv, Fates, DownIsEmpty, Starting, OnePlace, StatusFits, Marked, t
<1>4. /\ Elements(queue'[k]) = Elements(queue[k]) \cup {t} /\ Unrepeated(queue'[k])
      /\ \A l \in Keys : l # k => queue'[l] = queue[l]
  <2>1. queue'[k] = Append(queue[k], t) /\ queue[k] \in Seq(Tasks)
    BY <1>1
  <2>2. Unrepeated(queue[k]) /\ t \notin Elements(queue[k])
    BY <1>1, <1>3 DEF FInv, Fates, OnePlace, InQueue
  <2> QED
    BY <1>1, <2>1, <2>2, AppendElements
<1>5. /\ \A u \in Tasks : InQueue(u)' <=> (InQueue(u) \/ u = t)
      /\ \A l \in Keys : Unrepeated(queue'[l])
  <2>1. \A l \in Keys : Unrepeated(queue'[l])
    BY <1>4 DEF FInv, Fates, OnePlace
  <2>2. \A l \in Keys : Elements(queue'[l])
                        = IF l = k THEN Elements(queue[k]) \cup {t} ELSE Elements(queue[l])
    BY <1>4
  <2>3. \A u \in Tasks : InQueue(u)' <=> (InQueue(u) \/ u = t)
    <3>1. \A u : InQueue(u)' <=> \E l \in Keys : u \in Elements(queue'[l])
      BY DEF InQueue
    <3> QED
      BY <1>1, <2>2, <3>1 DEF InQueue
  <2> QED
    BY <2>1, <2>3
<1>6. /\ \A u \in Tasks : InSnap(u)' <=> InSnap(u)
      /\ \A h \in Goroutines, u \in Tasks : /\ Drawn(h, u)' <=> Drawn(h, u)
                                            /\ Handed(h, u)' <=> Handed(h, u)
                                            /\ Runs(h, u)' <=> Runs(h, u)
  BY <1>1, SnapKept, OthersKept
<1>7. OnePlace'
  BY <1>1, <1>2, <1>3, <1>5, <1>6 DEF FInv, Fates, OnePlace, With
<1>8. StatusFits'
  BY <1>1, <1>2, <1>3, <1>5, <1>6 DEF FInv, Fates, StatusFits, Marked
<1>9. Starting'
  BY <1>1, <1>3 DEF Starting
<1>10. AttemptsFit'
  BY <1>1, <1>2 DEF FInv, Fates, AttemptsFit
<1>11. DownIsEmpty'
  BY <1>1, <1>3 DEF DownIsEmpty
<1>12. Found'
  BY <1>1, <1>3, <1>5, <1>6 DEF FInv, Fates, Found
<1> QED
  BY <1>7, <1>8, <1>9, <1>10, <1>11, <1>12 DEF Fates

LEMMA LaunchFates == ASSUME FInv, NEW g \in Goroutines, Launch(g) PROVE Fates'
<1> DEFINE t == mu.task
<1>1. /\ mu.pc = "launching" /\ t \in Tasks /\ run[g].pc = "starting" /\ run[g] \in RunRecord
      /\ mu' = Unlocked /\ run' = [run EXCEPT ![g].pc = "handler"]
      /\ UNCHANGED <<queue, snap, mgr, raced, torn>>
      /\ status'[t] = "running" /\ \A u \in Tasks : u # t => status'[u] = status[u]
      /\ attempt'[t] = run[g].attempt /\ \A u \in Tasks : u # t => attempt'[u] = attempt[u]
      /\ begun'[t] = begun[t] + 1 /\ \A u \in Tasks : u # t => begun'[u] = begun[u]
  BY DEF Launch, control, FInv, IInv, TypeOK, Locking, WellFormed
<1>2. /\ run'[g].pc = "handler" /\ run'[g].task = run[g].task /\ run'[g].attempt = run[g].attempt
      /\ \A h \in Goroutines : h # g => run'[h] = run[h]
  BY <1>1 DEF FInv, IInv, TypeOK, RunRecord
<1>3. mu'.task \notin Tasks /\ mu'.pc = "free"
  BY <1>1 DEF Unlocked, Tasks
<1>4. /\ mgr # "down" /\ run[g].task = t
      /\ \A h \in Goroutines : h # g => run[h].pc # "starting"
  BY <1>1 DEF FInv, Fates, DownIsEmpty, Starting
<1>5. /\ ~InQueue(t) /\ ~InSnap(t) /\ \A h \in Goroutines : ~With(h, t)
  BY <1>1 DEF FInv, Fates, OnePlace
<1>6. /\ \A u \in Tasks : mu.task = u => u = t
      /\ attempt[t] < MaxAttempts[t] /\ run[g].attempt = attempt[t] + 1 /\ begun[t] = attempt[t]
      /\ attempt[t] \in Nat /\ MaxAttempts[t] \in Nat
  BY <1>1, <1>4, TaskAssumption DEF FInv, IInv, TypeOK, Fates, AttemptsFit
<1> HIDE DEF t
<1>7. /\ \A u \in Tasks : (InQueue(u)' <=> InQueue(u)) /\ (InSnap(u)' <=> InSnap(u))
      /\ \A h \in Goroutines \ {g}, u \in Tasks : /\ Drawn(h, u)' <=> Drawn(h, u)
                                                  /\ Handed(h, u)' <=> Handed(h, u)
                                                  /\ Runs(h, u)' <=> Runs(h, u)
      /\ \A u \in Tasks : ~Drawn(g, u)' /\ ~Handed(g, u)' /\ (Runs(g, u)' <=> u = t)
  <2>1. \A u \in Tasks : ~Drawn(g, u)' /\ ~Handed(g, u)' /\ (Runs(g, u)' <=> u = t)
    BY <1>2, <1>4 DEF Drawn, Handed, Runs
  <2>2. \A h \in Goroutines \ {g} : /\ run'[h].pc = run[h].pc /\ run'[h].task = run[h].task
                                    /\ run'[h].next = run[h].next
    BY <1>2
  <2> QED
    BY <1>1, <2>1, <2>2, QueueKept, SnapKept, OthersKept
<1>8. OnePlace'
  BY <1>1, <1>3, <1>5, <1>7 DEF FInv, Fates, OnePlace, With, Unrepeated
<1>9. StatusFits'
  BY <1>1, <1>3, <1>5, <1>7 DEF FInv, Fates, StatusFits, With, Marked
<1>10. Starting'
  BY <1>1, <1>2, <1>3, <1>4 DEF Starting
<1>11. AttemptsFit'
  <2>1. \A u \in Tasks :
           /\ begun'[u] = attempt'[u] /\ attempt'[u] <= MaxAttempts[u]
           /\ (mu'.task = u \/ status'[u] \in {"absent", "pending", "queued"})
              => attempt'[u] < MaxAttempts[u]
    BY <1>1, <1>3, <1>6 DEF FInv, Fates, AttemptsFit
  <2>2. \A d \in snap' : d.attempt = attempt'[d.task] /\ d.attempt < MaxAttempts[d.task]
    BY <1>1, <1>5 DEF FInv, IInv, TypeOK, Fates, AttemptsFit, InSnap
  <2>3. \A h \in Goroutines :
           /\ run'[h].pc # "starting"
           /\ run'[h].pc = "handing" => /\ run'[h].attempt = attempt'[run'[h].next]
                                        /\ run'[h].attempt < MaxAttempts[run'[h].next]
           /\ run'[h].pc = "handler" => run'[h].attempt = attempt'[run'[h].task]
    <3> TAKE h \in Goroutines
    <3>1. CASE h = g
      BY <1>1, <1>2, <1>4, <3>1
    <3>2. CASE h # g
      BY <1>1, <1>2, <1>4, <1>5, <3>2
         DEF FInv, IInv, Locking, WellFormed, Fates, AttemptsFit, With, Handed, Runs
    <3> QED
      BY <3>1, <3>2
  <2> QED
    BY <2>1, <2>2, <2>3 DEF AttemptsFit
<1>12. DownIsEmpty' /\ Found'
  <2>1. \A u \in Tasks : ~Drawn(g, u) /\ ~Handed(g, u)
    BY <1>1 DEF Drawn, Handed
  <2> QED
    BY <1>1, <1>4, <1>6, <1>7, <2>1 DEF FInv, Fates, DownIsEmpty, Found
<1> QED
  BY <1>8, <1>9, <1>10, <1>11, <1>12 DEF Fates
-----------------------------------------------------------------------------
(* runTask and onTaskFinished. *)

LEMMA HandlerReturnsFates ==
    ASSUME FInv, NEW g \in Goroutines, NEW outcome \in {"ok", "retryable", "error"},
           HandlerReturns(g, outcome)
    PROVE  Fates'
<1> DEFINE t == run[g].task
           s == Verdict(run[g], outcome)
<1>1. /\ run[g].pc = "handler" /\ run[g] \in RunRecord /\ t \in Tasks
      /\ run' = [run EXCEPT ![g].pc = "ended"]
      /\ UNCHANGED <<queue, mu, snap, mgr, attempt, begun, raced, torn>>
      /\ status'[t] = s /\ \A u \in Tasks : u # t => status'[u] = status[u]
  BY DEF HandlerReturns, control, history, FInv, IInv, TypeOK, Locking, WellFormed
<1>2. /\ s \in {"succeeded", "cancelled", "pending", "failed"}
      /\ s = "pending" => run[g].attempt < MaxAttempts[t]
  BY DEF Verdict
<1> HIDE DEF s
<1>3. /\ run'[g].pc = "ended"
      /\ \A h \in Goroutines : h # g => run'[h] = run[h]
  BY <1>1 DEF FInv, IInv, TypeOK, RunRecord
<1>4. mgr # "down" /\ Runs(g, t) /\ run[g].attempt = attempt[t]
  BY <1>1 DEF FInv, Fates, DownIsEmpty, Runs, AttemptsFit
<1> HIDE DEF t
<1>5. /\ ~InQueue(t) /\ ~InSnap(t) /\ mu.task # t
      /\ \A h \in Goroutines : h # g => ~With(h, t)
  BY <1>1, <1>4 DEF FInv, Fates, OnePlace, With
<1>6. /\ \A u \in Tasks : (InQueue(u)' <=> InQueue(u)) /\ (InSnap(u)' <=> InSnap(u))
      /\ \A h \in Goroutines \ {g}, u \in Tasks :
            /\ Drawn(h, u)' <=> Drawn(h, u)
            /\ Handed(h, u)' <=> Handed(h, u)
            /\ Runs(h, u)' <=> Runs(h, u)
      /\ \A u \in Tasks : ~Drawn(g, u)' /\ ~Handed(g, u)' /\ ~Runs(g, u)'
      /\ \A u \in Tasks : ~Drawn(g, u) /\ ~Handed(g, u)
  <2>1. /\ \A u \in Tasks : ~Drawn(g, u)' /\ ~Handed(g, u)' /\ ~Runs(g, u)'
        /\ \A u \in Tasks : ~Drawn(g, u) /\ ~Handed(g, u)
    BY <1>1, <1>3 DEF Drawn, Handed, Runs
  <2>2. \A h \in Goroutines \ {g} : /\ run'[h].pc = run[h].pc /\ run'[h].task = run[h].task
                                    /\ run'[h].next = run[h].next
    BY <1>3
  <2> QED
    BY <1>1, <2>1, <2>2, QueueKept, SnapKept, OthersKept
<1>7. OnePlace'
  BY <1>1, <1>6 DEF FInv, Fates, OnePlace, With, Unrepeated
<1>8. StatusFits'
  BY <1>1, <1>5, <1>6 DEF FInv, Fates, StatusFits, With, Marked
<1>9. Starting'
  BY <1>1, <1>3 DEF FInv, Fates, Starting, Unlocked
<1>10. AttemptsFit'
  BY <1>1, <1>2, <1>3, <1>4, <1>5 DEF FInv, Fates, AttemptsFit
<1>11. DownIsEmpty' /\ Found'
  BY <1>1, <1>2, <1>4, <1>6 DEF FInv, Fates, DownIsEmpty, Found
<1> QED
  BY <1>7, <1>8, <1>9, <1>10, <1>11 DEF Fates

\* A goroutine with no task in hand leaves, or goes on without one.
LEMMA EmptyHanded ==
    ASSUME FInv, NEW g \in Goroutines, run[g].pc # "none",
           run'[g].pc \in {"none", "released"},
           \A h \in Goroutines : h # g => run'[h] = run[h],
           \A u \in Tasks : ~With(g, u) \/ (Drawn(g, u) /\ status[u] # "queued"),
           run[g].pc # "handler",
           UNCHANGED <<queue, mu, snap, mgr, status, attempt, begun, raced, torn>>
    PROVE  Fates'
<1>1. mgr # "down"
  BY DEF FInv, Fates, DownIsEmpty
<1>2. /\ \A u \in Tasks : (InQueue(u)' <=> InQueue(u)) /\ (InSnap(u)' <=> InSnap(u))
      /\ \A h \in Goroutines \ {g}, u \in Tasks :
            /\ Drawn(h, u)' <=> Drawn(h, u)
            /\ Handed(h, u)' <=> Handed(h, u)
            /\ Runs(h, u)' <=> Runs(h, u)
      /\ \A u \in Tasks : ~Drawn(g, u)' /\ ~Handed(g, u)' /\ ~Runs(g, u)'
  <2>1. \A u \in Tasks : ~Drawn(g, u)' /\ ~Handed(g, u)' /\ ~Runs(g, u)'
    BY DEF Drawn, Handed, Runs
  <2> QED
    BY <2>1, QueueKept, SnapKept, OthersKept
<1>3. OnePlace'
  BY <1>2 DEF FInv, Fates, OnePlace, With, Unrepeated
<1>4. StatusFits'
  BY <1>2 DEF FInv, Fates, StatusFits, Marked
<1>5. Starting' /\ AttemptsFit'
  BY DEF FInv, Fates, Starting, AttemptsFit, Unlocked
<1>6. \A u \in Tasks : status[u] = "queued" => ~Drawn(g, u) /\ ~Handed(g, u)
  BY DEF With, Drawn, Handed
<1>7. DownIsEmpty' /\ Found'
  BY <1>1, <1>2, <1>6 DEF FInv, Fates, DownIsEmpty, Found
<1> QED
  BY <1>3, <1>4, <1>5, <1>7 DEF Fates

LEMMA UnregisterFates == ASSUME FInv, NEW g \in Goroutines, Unregister(g) PROVE Fates'
<1>1. /\ run[g].pc = "ended" /\ run[g] \in RunRecord
      /\ run' = [run EXCEPT ![g] = IF KeyOf[run[g].task] = NoKey THEN NoRun
                                   ELSE [@ EXCEPT !.pc = "released"]]
      /\ UNCHANGED <<queue, mu, snap, mgr, status, attempt, begun, raced, torn>>
  BY DEF Unregister, store, control, history, FInv, IInv, TypeOK
<1>2. run'[g].pc \in {"none", "released"} /\ \A h \in Goroutines : h # g => run'[h] = run[h]
  <2>1. [run[g] EXCEPT !.pc = "released"].pc = "released" /\ NoRun.pc = "none"
    BY <1>1 DEF RunRecord, NoRun
  <2> QED
    BY <1>1, <2>1 DEF FInv, IInv, TypeOK
<1>3. \A u \in Tasks : ~With(g, u)
  BY <1>1 DEF With, Drawn, Handed, Runs
<1> QED
  BY <1>1, <1>2, <1>3, EmptyHanded

LEMMA RereadFates == ASSUME FInv, NEW g \in Goroutines, Reread(g) PROVE Fates'
<1> DEFINE t == run[g].next
<1>1. /\ run[g].pc = "woke" /\ run[g] \in RunRecord /\ t \in Tasks
      /\ UNCHANGED <<queue, mu, snap, mgr, status, attempt, begun, raced, torn>>
  BY DEF Reread, store, control, FInv, IInv, TypeOK, Locking, WellFormed
<1>2. CASE ~StillQueued(t)
  <2>1. run' = [run EXCEPT ![g] = NoRun]
    BY <1>2 DEF Reread
  <2>2. run'[g].pc = "none" /\ \A h \in Goroutines : h # g => run'[h] = run[h]
    BY <2>1 DEF NoRun, FInv, IInv, TypeOK
  <2>3. \A u \in Tasks : ~With(g, u) \/ (Drawn(g, u) /\ status[u] # "queued")
    BY <1>1, <1>2 DEF With, Drawn, Handed, Runs, StillQueued
  <2> QED
    BY <1>1, <2>2, <2>3, EmptyHanded
<1>3. CASE StillQueued(t)
  <2>1. run' = [run EXCEPT ![g].pc = "handing", ![g].attempt = attempt[t]]
    BY <1>3 DEF Reread
  <2>2. /\ run'[g].pc = "handing" /\ run'[g].next = t /\ run'[g].attempt = attempt[t]
        /\ \A h \in Goroutines : h # g => run'[h] = run[h]
    <3> DEFINE r == [run[g] EXCEPT !.pc = "handing", !.attempt = attempt[t]]
    <3>1. run' = [run EXCEPT ![g] = r]
      BY <2>1 DEF FInv, IInv, TypeOK
    <3>2. r.pc = "handing" /\ r.next = t /\ r.attempt = attempt[t]
      BY <1>1 DEF RunRecord
    <3> HIDE DEF r
    <3> QED
      BY <3>1, <3>2 DEF FInv, IInv, TypeOK
  <2>3. mgr # "down" /\ Drawn(g, t) /\ status[t] = "queued" /\ attempt[t] < MaxAttempts[t]
    BY <1>1, <1>3 DEF FInv, Fates, DownIsEmpty, AttemptsFit, StillQueued, Drawn
  <2>4. \A u \in Tasks : /\ Drawn(g, u) <=> u = t
                         /\ ~Drawn(g, u)' /\ ~Runs(g, u)' /\ (Handed(g, u)' <=> u = t)
    BY <1>1, <2>2 DEF Drawn, Runs, Handed
  <2> HIDE DEF t
  <2>5. /\ \A u \in Tasks : (InQueue(u)' <=> InQueue(u)) /\ (InSnap(u)' <=> InSnap(u))
        /\ \A h \in Goroutines \ {g}, u \in Tasks :
              /\ Drawn(h, u)' <=> Drawn(h, u)
              /\ Handed(h, u)' <=> Handed(h, u)
              /\ Runs(h, u)' <=> Runs(h, u)
    BY <1>1, <2>2, QueueKept, SnapKept, OthersKept
  <2>6. \A h \in Goroutines, u \in Tasks : With(h, u)' => With(h, u)
    BY <2>4, <2>5 DEF With
  <2>7. OnePlace'
    BY <1>1, <2>5, <2>6 DEF FInv, Fates, OnePlace, Unrepeated
  <2>8. StatusFits'
    BY <1>1, <2>3, <2>4, <2>5 DEF FInv, Fates, StatusFits, Marked
  <2>9. Starting' /\ AttemptsFit'
    BY <1>1, <2>2, <2>3 DEF FInv, Fates, Starting, AttemptsFit, Unlocked
  <2>10. DownIsEmpty' /\ Found'
    <3>1. \A h \in Goroutines, u \in Tasks :
             Drawn(h, u) \/ Handed(h, u) => Drawn(h, u)' \/ Handed(h, u)'
      BY <1>1, <2>4, <2>5 DEF Handed
    <3> QED
      BY <1>1, <2>3, <2>5, <3>1 DEF FInv, Fates, DownIsEmpty, Found
  <2> QED
    BY <2>7, <2>8, <2>9, <2>10 DEF Fates
<1> QED
  BY <1>2, <1>3

\* What is in the queues after one of them lost a task.
LEMMA LeftInQueues ==
    ASSUME FInv, NEW t \in Tasks, KeyOf[t] # NoKey,
           \A l \in Keys : l # KeyOf[t] => queue'[l] = queue[l],
           Elements(queue'[KeyOf[t]]) = Elements(queue[KeyOf[t]]) \ {t},
           Unrepeated(queue'[KeyOf[t]])
    PROVE  /\ \A u \in Tasks : InQueue(u)' <=> (InQueue(u) /\ u # t)
           /\ \A l \in Keys : Unrepeated(queue'[l])
<1> DEFINE k == KeyOf[t]
<1>1. k \in Keys
  BY KeysOfTasks
<1>2. \A l \in Keys : l # k => t \notin Elements(queue[l])
  <2> SUFFICES ASSUME NEW l \in Keys, l # k, t \in Elements(queue[l]) PROVE FALSE
    OBVIOUS
  <2>1. PICK i \in DOMAIN queue[l] : queue[l][i] = t
    BY DEF Elements
  <2>2. queue[l] \in Seq(OfKey(l))
    BY DEF FInv, IInv, Locking, WellFormed
  <2>3. t \in OfKey(l)
    BY <2>1, <2>2
  <2> QED
    BY <2>3 DEF OfKey
<1>3. \A l \in Keys : Elements(queue'[l]) = Elements(queue[l]) \ {t}
  BY <1>2 DEF Elements
<1>4. \A u : InQueue(u)' <=> \E l \in Keys : u \in Elements(queue'[l])
  BY DEF InQueue
<1>5. \A u \in Tasks : InQueue(u)' <=> (InQueue(u) /\ u # t)
  BY <1>3, <1>4 DEF InQueue
<1>6. \A l \in Keys : Unrepeated(queue'[l])
  BY DEF FInv, Fates, OnePlace
<1> QED
  BY <1>5, <1>6

LEMMA DequeueFates == ASSUME FInv, NEW g \in Goroutines, Dequeue(g) PROVE Fates'
<1> DEFINE k == KeyOf[run[g].task]
<1>1. /\ run[g].pc = "released" /\ run[g] \in RunRecord
      /\ k # NoKey /\ k \in Keys /\ queue[k] \in Seq(Tasks) /\ queue[k] \in Seq(OfKey(k))
      /\ UNCHANGED <<mu, snap, mgr, status, attempt, begun, raced, torn>>
  BY KeysOfTasks DEF Dequeue, store, control, history, FInv, IInv, TypeOK, Locking, WellFormed
<1>2. /\ run \in [Goroutines -> RunRecord] /\ queue \in [Keys -> Seq(Tasks)]
      /\ \A u \in Tasks : ~With(g, u) /\ ~Drawn(g, u) /\ ~Handed(g, u)
  BY <1>1 DEF FInv, IInv, TypeOK, With, Drawn, Handed, Runs
<1>3. CASE queue[k] = <<>>
  <2>1. run' = [run EXCEPT ![g] = NoRun] /\ UNCHANGED queue
    BY <1>3 DEF Dequeue
  <2>2. run'[g].pc = "none" /\ \A h \in Goroutines : h # g => run'[h] = run[h]
    BY <1>2, <2>1 DEF NoRun
  <2> QED
    BY <1>1, <1>2, <2>1, <2>2, EmptyHanded
<1>4. CASE queue[k] # <<>>
  <2>1. /\ run' = [run EXCEPT ![g].pc = "woke", ![g].next = Head(queue[k])]
        /\ queue' = [queue EXCEPT ![k] = Tail(@)]
    BY <1>4 DEF Dequeue
  <2>2. PICK t \in Tasks : t = Head(queue[k]) /\ KeyOf[t] = k
    BY <1>1, <1>4, HeadAndTail DEF OfKey
  <2>3. /\ run'[g].pc = "woke" /\ run'[g].next = t
        /\ \A h \in Goroutines : h # g => run'[h] = run[h]
    <3> DEFINE r == [run[g] EXCEPT !.pc = "woke", !.next = t]
    <3>1. run' = [run EXCEPT ![g] = r]
      BY <1>2, <2>1, <2>2
    <3>2. r.pc = "woke" /\ r.next = t
      BY <1>1 DEF RunRecord
    <3> HIDE DEF r
    <3> QED
      BY <1>2, <3>1, <3>2
  <2>4. /\ queue'[k] = Tail(queue[k]) /\ \A l \in Keys : l # k => queue'[l] = queue[l]
        /\ Unrepeated(queue[k])
    BY <1>1, <1>2, <2>1 DEF FInv, Fates, OnePlace
  <2>5. /\ Elements(queue[k]) = Elements(queue'[k]) \cup {t}
        /\ Unrepeated(queue'[k]) /\ t \notin Elements(queue'[k])
    BY <1>1, <1>4, <2>2, <2>4, TailElements
  <2>6. /\ \A u \in Tasks : InQueue(u)' <=> (InQueue(u) /\ u # t)
        /\ \A l \in Keys : Unrepeated(queue'[l])
    <3>1. Elements(queue'[k]) = Elements(queue[k]) \ {t}
      BY <2>5
    <3> HIDE DEF k
    <3> QED
      BY <1>1, <2>2, <2>4, <2>5, <3>1, LeftInQueues
  <2>7. InQueue(t)
    BY <1>1, <2>5 DEF InQueue
  <2>8. \A u \in Tasks : ~Handed(g, u)' /\ ~Runs(g, u)' /\ (Drawn(g, u)' <=> u = t)
    BY <2>3 DEF Drawn, Handed, Runs
  <2>9. /\ \A u \in Tasks : InSnap(u)' <=> InSnap(u)
        /\ \A h \in Goroutines \ {g}, u \in Tasks :
              /\ Drawn(h, u)' <=> Drawn(h, u)
              /\ Handed(h, u)' <=> Handed(h, u)
              /\ Runs(h, u)' <=> Runs(h, u)
    BY <1>1, <2>3, SnapKept, OthersKept
  <2>10. /\ mgr # "down" /\ ~InSnap(t) /\ mu.task # t /\ status[t] \in {"queued", "cancelled"}
         /\ \A h \in Goroutines : ~With(h, t)
    BY <1>1, <2>7 DEF FInv, Fates, DownIsEmpty, OnePlace, StatusFits
  <2>11. OnePlace'
    BY <1>1, <2>6, <2>8, <2>9, <2>10 DEF FInv, Fates, OnePlace, With
  <2>12. StatusFits'
    BY <1>1, <2>6, <2>8, <2>9, <2>10 DEF FInv, Fates, StatusFits, Marked
  <2>13. Starting' /\ AttemptsFit'
    BY <1>1, <2>3 DEF FInv, Fates, Starting, AttemptsFit, Unlocked
  <2>14. DownIsEmpty' /\ Found'
    BY <1>1, <1>2, <2>6, <2>8, <2>9, <2>10 DEF FInv, Fates, DownIsEmpty, Found
  <2> QED
    BY <2>11, <2>12, <2>13, <2>14 DEF Fates
<1> QED
  BY <1>3, <1>4
-----------------------------------------------------------------------------
(* The step that takes m.mu for a task. *)

\* The task moves from where it was to m.mu.
LEMMA TakenUp ==
    ASSUME FInv, NEW t \in Tasks, NEW b \in BOOLEAN,
           mu'.task = t, mu'.bySched = b, mu'.pc \in {"marking", "launching"},
           mu.pc = "free", mgr # "down",
           UNCHANGED <<queue, mgr, status, raced, torn>>,
           Marked(t) \/ status[t] = (IF b THEN "pending" ELSE "queued"),
           ~InQueue(t), snap' \subseteq snap,
           \A u \in Tasks : InSnap(u)' <=> (InSnap(u) /\ u # t),
           \A h \in Goroutines, u \in Tasks : Drawn(h, u)' <=> (Drawn(h, u) /\ u # t),
           \A h \in Goroutines, u \in Tasks : Handed(h, u)' <=> (Handed(h, u) /\ u # t),
           \A h \in Goroutines, u \in Tasks : Runs(h, u)' <=> (Runs(h, u) /\ u # t)
    PROVE  OnePlace' /\ StatusFits' /\ DownIsEmpty' /\ Found'
<1>1. \A u \in Tasks : mu.task # u /\ (InQueue(u)' <=> InQueue(u))
  BY QueueKept DEF FInv, Fates, Starting, Unlocked, Tasks
<1>2. \A h \in Goroutines, u \in Tasks : With(h, u)' => (With(h, u) /\ u # t)
  BY DEF With
<1>3. OnePlace'
  BY <1>1, <1>2 DEF FInv, Fates, OnePlace, Unrepeated
<1>4. StatusFits'
  BY <1>1 DEF FInv, Fates, StatusFits, Marked
<1>5. DownIsEmpty' /\ Found'
  BY <1>1 DEF FInv, Fates, DownIsEmpty, Found
<1> QED
  BY <1>3, <1>4, <1>5

LEMMA HandOverFates == ASSUME FInv, NEW g \in Goroutines, HandOver(g) PROVE Fates'
<1> DEFINE t == run[g].next
<1>1. /\ run[g].pc = "handing" /\ run[g] \in RunRecord /\ t \in Tasks /\ mu.pc = "free"
      /\ run[g].attempt \in Nat
      /\ UNCHANGED <<queue, snap, mgr, status, attempt, begun, raced, torn>>
  BY DEF HandOver, QueueUp, Register, store, history,
         FInv, IInv, TypeOK, RunRecord, Locking, WellFormed
<1>2. /\ run'[g].pc \in {"none", "starting"} /\ \A h \in Goroutines : h # g => run'[h] = run[h]
      /\ run'[g].pc = "starting" => /\ mu'.pc = "launching" /\ run'[g].task = t
                                    /\ run'[g].attempt = run[g].attempt + 1
      /\ mu'.task = t /\ mu'.bySched = FALSE /\ mu'.pc \in {"marking", "launching"}
  BY DEF HandOver, QueueUp, Register, NewRun, NoRun, FInv, IInv, TypeOK
<1>3. /\ mgr # "down" /\ Handed(g, t) /\ (status[t] = "queued" \/ Marked(t))
      /\ run[g].attempt = attempt[t] /\ run[g].attempt < MaxAttempts[t]
      /\ \A h \in Goroutines : run[h].pc # "starting"
  BY <1>1 DEF FInv, Fates, DownIsEmpty, StatusFits, AttemptsFit, Starting, Handed
<1>4. \A u \in Tasks : /\ ~Drawn(g, u) /\ ~Runs(g, u) /\ (Handed(g, u) <=> u = t)
                       /\ ~Drawn(g, u)' /\ ~Runs(g, u)' /\ ~Handed(g, u)'
  BY <1>1, <1>2 DEF Drawn, Runs, Handed
<1> HIDE DEF t
<1>5. /\ ~InQueue(t) /\ ~InSnap(t) /\ \A h \in Goroutines : h # g => ~With(h, t)
  BY <1>1, <1>3 DEF FInv, Fates, OnePlace, With
<1>6. /\ \A u \in Tasks : InSnap(u)' <=> (InSnap(u) /\ u # t)
      /\ \A h \in Goroutines \ {g}, u \in Tasks :
            /\ Drawn(h, u)' <=> Drawn(h, u)
            /\ Handed(h, u)' <=> Handed(h, u)
            /\ Runs(h, u)' <=> Runs(h, u)
  BY <1>1, <1>2, <1>5, SnapKept, OthersKept
<1>7. /\ \A h \in Goroutines, u \in Tasks : Drawn(h, u)' <=> (Drawn(h, u) /\ u # t)
      /\ \A h \in Goroutines, u \in Tasks : Handed(h, u)' <=> (Handed(h, u) /\ u # t)
      /\ \A h \in Goroutines, u \in Tasks : Runs(h, u)' <=> (Runs(h, u) /\ u # t)
  BY <1>4, <1>5, <1>6 DEF With
<1>8. OnePlace' /\ StatusFits' /\ DownIsEmpty' /\ Found'
  BY <1>1, <1>2, <1>3, <1>5, <1>6, <1>7, TakenUp
<1>9. Starting'
  BY <1>2, <1>3 DEF Starting, t
<1>10. AttemptsFit'
  BY <1>1, <1>2, <1>3 DEF FInv, Fates, AttemptsFit, t
<1> QED
  BY <1>8, <1>9, <1>10 DEF Fates

LEMMA DispatchNextFates == ASSUME FInv, DispatchNext PROVE Fates'
<1>1. PICK d \in snap : /\ snap' = snap \ {d}
                        /\ \/ QueueUp(d.task, TRUE) /\ UNCHANGED run
                           \/ \E g \in Goroutines : /\ FirstFree(g)
                                                    /\ Register(d.task, d.attempt, TRUE, g)
  BY DEF DispatchNext
<1> DEFINE t == d.task
<1>2. /\ t \in Tasks /\ mu.pc = "free" /\ d.attempt \in Nat
      /\ UNCHANGED <<queue, mgr, status, attempt, begun, raced, torn>>
      /\ mu'.task = t /\ mu'.bySched = TRUE /\ mu'.pc \in {"marking", "launching"}
  <2>1. d \in [task : Tasks, attempt : Nat]
    BY DEF FInv, IInv, TypeOK
  <2>2. QueueUp(t, TRUE) \/ \E g \in Goroutines : Register(t, d.attempt, TRUE, g)
    BY <1>1
  <2>3. /\ mu.pc = "free" /\ UNCHANGED <<queue, mgr, status, attempt, begun, raced, torn>>
        /\ \/ mu' = [pc |-> "marking", task |-> t, bySched |-> TRUE]
           \/ mu' = [pc |-> "launching", task |-> t, bySched |-> TRUE]
    <3> HIDE DEF t
    <3> QED
      BY <2>2 DEF QueueUp, Register, store, history
  <2> QED
    BY <2>1, <2>3
<1>3. PICK g : /\ \A h \in Goroutines : h # g => run'[h] = run[h]
               /\ g \in Goroutines => /\ run'[g].pc \in {"none", "starting"} \/ run'[g] = run[g]
                                      /\ run'[g] # run[g] => run[g].pc = "none"
                                      /\ run'[g].pc = "starting" /\ run'[g] # run[g] =>
                                            /\ mu'.pc = "launching" /\ run'[g].task = t
                                            /\ run'[g].attempt = d.attempt + 1
  <2>1. CASE UNCHANGED run
    BY <2>1
  <2>2. ASSUME NEW g \in Goroutines, FirstFree(g), Register(d.task, d.attempt, TRUE, g)
        PROVE  /\ \A h \in Goroutines : h # g => run'[h] = run[h]
               /\ run[g].pc = "none" /\ run'[g].pc = "starting" /\ run'[g].task = t
               /\ run'[g].attempt = d.attempt + 1 /\ mu'.pc = "launching"
    BY <2>2 DEF FirstFree, Register, NewRun, FInv, IInv, TypeOK
  <2> QED
    BY <1>1, <2>1, <2>2
<1>4. /\ mgr # "down" /\ InSnap(t) /\ (status[t] = "pending" \/ Marked(t))
      /\ d.attempt = attempt[t] /\ d.attempt < MaxAttempts[t]
      /\ \A h \in Goroutines : run[h].pc # "starting"
      /\ \A e \in snap : e.task = t => e = d
  BY <1>1, <1>2 DEF FInv, Fates, DownIsEmpty, StatusFits, AttemptsFit, Starting, InSnap, OnePlace
<1> HIDE DEF t
<1>5. /\ ~InQueue(t) /\ \A h \in Goroutines : ~With(h, t)
  BY <1>2, <1>4 DEF FInv, Fates, OnePlace
<1>6. /\ snap' \subseteq snap
      /\ \A u \in Tasks : InSnap(u)' <=> (InSnap(u) /\ u # t)
  BY <1>1, <1>4 DEF InSnap, t
<1>7. /\ \A h \in Goroutines, u \in Tasks : Drawn(h, u)' <=> (Drawn(h, u) /\ u # t)
      /\ \A h \in Goroutines, u \in Tasks : Handed(h, u)' <=> (Handed(h, u) /\ u # t)
      /\ \A h \in Goroutines, u \in Tasks : Runs(h, u)' <=> (Runs(h, u) /\ u # t)
  <2> SUFFICES ASSUME NEW h \in Goroutines, NEW u \in Tasks
               PROVE  /\ Drawn(h, u)' <=> Drawn(h, u)
                      /\ Handed(h, u)' <=> Handed(h, u)
                      /\ Runs(h, u)' <=> Runs(h, u)
    BY <1>5 DEF With
  <2>1. run'[h] = run[h] \/ (run[h].pc = "none" /\ run'[h].pc \in {"none", "starting"})
    BY <1>3
  <2> QED
    BY <2>1 DEF Drawn, Handed, Runs
<1>8. OnePlace' /\ StatusFits' /\ DownIsEmpty' /\ Found'
  BY <1>2, <1>4, <1>5, <1>6, <1>7, TakenUp
<1>9. Starting'
  BY <1>2, <1>3, <1>4 DEF Starting
<1>10. AttemptsFit'
  <2>1. \A u \in Tasks : (mu'.task = u \/ status'[u] \in {"absent", "pending", "queued"})
                        => attempt'[u] < MaxAttempts[u]
    BY <1>2, <1>4 DEF FInv, Fates, AttemptsFit
  <2>2. \A h \in Goroutines :
           /\ run'[h].pc = "starting" => run'[h].attempt = attempt'[run'[h].task] + 1
           /\ run'[h].pc = "handing" => /\ run'[h].attempt = attempt'[run'[h].next]
                                        /\ run'[h].attempt < MaxAttempts[run'[h].next]
           /\ run'[h].pc = "handler" => run'[h].attempt = attempt'[run'[h].task]
    BY <1>2, <1>3, <1>4 DEF FInv, Fates, AttemptsFit
  <2> QED
    BY <1>2, <1>6, <2>1, <2>2 DEF FInv, Fates, AttemptsFit
<1> QED
  BY <1>8, <1>9, <1>10 DEF Fates
-----------------------------------------------------------------------------
(* The scheduler's tick, and Cancel. *)

LEMMA TickFates == ASSUME FInv, Tick PROVE Fates'
<1>1. /\ snap = {} /\ snap' = FindDueTasks /\ ~mu.bySched
      /\ UNCHANGED <<run, mu, queue, mgr, status, attempt, begun, raced, torn>>
  BY DEF Tick, InLoop, store, history
<1>2. \A d \in snap' : /\ d.task \in Tasks /\ status[d.task] = "pending"
                       /\ d = [task |-> d.task, attempt |-> attempt[d.task]]
                       /\ d.attempt = attempt[d.task] /\ d.attempt < MaxAttempts[d.task]
  <2> SUFFICES ASSUME NEW d \in FindDueTasks
               PROVE  /\ d.task \in Tasks /\ status[d.task] = "pending"
                      /\ d = [task |-> d.task, attempt |-> attempt[d.task]]
                      /\ d.attempt = attempt[d.task] /\ d.attempt < MaxAttempts[d.task]
    BY <1>1
  <2>1. PICK t \in Due : d = [task |-> t, attempt |-> attempt[t]]
    BY Zenon DEF FindDueTasks
  <2>2. t \in Tasks /\ status[t] = "pending" /\ d.task = t /\ d.attempt = attempt[t]
    BY <2>1 DEF Due
  <2> QED
    BY <2>1, <2>2 DEF FInv, Fates, AttemptsFit
<1>3. \A t \in Tasks : InSnap(t)' => status[t] = "pending"
  BY <1>2 DEF InSnap
<1>4. \A d, e \in snap' : d.task = e.task => d = e
  <2> SUFFICES ASSUME NEW d \in snap', NEW e \in snap', d.task = e.task PROVE d = e
    OBVIOUS
  <2>1. /\ d = [task |-> d.task, attempt |-> attempt[d.task]]
        /\ e = [task |-> e.task, attempt |-> attempt[e.task]]
    BY <1>2
  <2> QED
    BY <2>1
<1>5. \A t \in Tasks : status[t] = "pending" =>
         /\ ~InQueue(t) /\ mu.task # t /\ \A h \in Goroutines : ~With(h, t)
  BY <1>1 DEF FInv, Fates, StatusFits, With, Marked
<1>6. /\ \A t \in Tasks : InQueue(t)' <=> InQueue(t)
      /\ \A h \in Goroutines, t \in Tasks :
            /\ Drawn(h, t)' <=> Drawn(h, t)
            /\ Handed(h, t)' <=> Handed(h, t)
            /\ Runs(h, t)' <=> Runs(h, t)
  BY <1>1, QueueKept, OthersKept
<1>7. \A h \in Goroutines, t \in Tasks : With(h, t)' <=> With(h, t)
  BY <1>6 DEF With
<1>8. OnePlace'
  BY <1>1, <1>3, <1>4, <1>5, <1>6, <1>7 DEF FInv, Fates, OnePlace, Unrepeated
<1>9. StatusFits'
  BY <1>1, <1>3, <1>6 DEF FInv, Fates, StatusFits, Marked
<1>10. Starting' /\ AttemptsFit'
  BY <1>1, <1>2 DEF FInv, Fates, Starting, AttemptsFit, Unlocked
<1>11. DownIsEmpty' /\ Found'
  <2>1. mgr # "down"
    BY DEF Tick, InLoop
  <2> QED
    BY <1>1, <1>6, <2>1 DEF FInv, Fates, DownIsEmpty, Found
<1> QED
  BY <1>8, <1>9, <1>10, <1>11 DEF Fates

LEMMA CancelSignalFates == ASSUME FInv, NEW t \in Tasks, CancelSignal(t) PROVE Fates'
<1>1. UNCHANGED <<mu, queue, snap, mgr, status, attempt, begun, raced, torn>>
  BY DEF CancelSignal, store, registry, control, history
<1>2. \A g \in Goroutines : /\ run'[g].pc = run[g].pc /\ run'[g].task = run[g].task
                            /\ run'[g].next = run[g].next /\ run'[g].attempt = run[g].attempt
  <2>1. \A g \in Goroutines : /\ [run[g] EXCEPT !.cancelled = TRUE].pc = run[g].pc
                             /\ [run[g] EXCEPT !.cancelled = TRUE].task = run[g].task
                             /\ [run[g] EXCEPT !.cancelled = TRUE].next = run[g].next
                             /\ [run[g] EXCEPT !.cancelled = TRUE].attempt = run[g].attempt
    BY DEF FInv, IInv, TypeOK, RunRecord
  <2> QED
    BY <2>1 DEF CancelSignal
<1>3. /\ \A u \in Tasks : (InQueue(u)' <=> InQueue(u)) /\ (InSnap(u)' <=> InSnap(u))
      /\ \A h \in Goroutines, u \in Tasks :
            /\ Drawn(h, u)' <=> Drawn(h, u)
            /\ Handed(h, u)' <=> Handed(h, u)
            /\ Runs(h, u)' <=> Runs(h, u)
  BY <1>1, <1>2, QueueKept, SnapKept, OthersKept
<1>4. OnePlace'
  BY <1>1, <1>3 DEF FInv, Fates, OnePlace, With, Unrepeated
<1>5. StatusFits'
  BY <1>1, <1>3 DEF FInv, Fates, StatusFits, Marked
<1>6. Starting' /\ AttemptsFit'
  BY <1>1, <1>2 DEF FInv, Fates, Starting, AttemptsFit, Unlocked
<1>7. DownIsEmpty' /\ Found'
  BY <1>1, <1>2, <1>3 DEF FInv, Fates, DownIsEmpty, Found
<1> QED
  BY <1>4, <1>5, <1>6, <1>7 DEF Fates

LEMMA CancelDequeueFates == ASSUME FInv, NEW t \in Tasks, CancelDequeue(t) PROVE Fates'
<1> DEFINE k == KeyOf[t]
<1>1. /\ UNCHANGED <<run, mu, snap, mgr, status, attempt, begun, raced>>
      /\ queue' = [l \in Keys |-> IF l = k THEN Without(queue[l], t) ELSE queue[l]]
      /\ torn' = IF status[t] = "queued" THEN torn \cup {t} ELSE torn
  BY DEF CancelDequeue, store, registry, control
<1>2. /\ \A u \in Tasks : InQueue(u)' => InQueue(u)
      /\ \A u \in Tasks : InQueue(u) => InQueue(u)' \/ u = t
      /\ \A l \in Keys : Unrepeated(queue'[l])
  <2>1. CASE k = NoKey
    <3>1. \A l \in Keys : queue'[l] = queue[l]
      BY <1>1, <2>1, TaskAssumption
    <3> QED
      BY <3>1 DEF InQueue, FInv, Fates, OnePlace
  <2>2. CASE k # NoKey
    <3>1. k \in Keys /\ queue[k] \in Seq(Tasks) /\ Unrepeated(queue[k])
      BY <2>2, KeysOfTasks DEF FInv, IInv, TypeOK, Fates, OnePlace
    <3>2. /\ queue'[k] = Without(queue[k], t)
          /\ \A l \in Keys : l # k => queue'[l] = queue[l]
      BY <1>1, <3>1
    <3>3. Elements(queue'[k]) = Elements(queue[k]) \ {t} /\ Unrepeated(queue'[k])
      BY <3>1, <3>2, WithoutElements
    <3> QED
      BY <2>2, <3>2, <3>3, LeftInQueues
  <2> QED
    BY <2>1, <2>2
<1>3. /\ \A u \in Tasks : InSnap(u)' <=> InSnap(u)
      /\ \A h \in Goroutines, u \in Tasks :
            /\ Drawn(h, u)' <=> Drawn(h, u)
            /\ Handed(h, u)' <=> Handed(h, u)
            /\ Runs(h, u)' <=> Runs(h, u)
  BY <1>1, SnapKept, OthersKept
<1>4. OnePlace'
  BY <1>1, <1>2, <1>3 DEF FInv, Fates, OnePlace, With
<1>5. StatusFits'
  BY <1>1, <1>2, <1>3 DEF FInv, Fates, StatusFits, Marked
<1>6. Starting' /\ AttemptsFit'
  BY <1>1 DEF FInv, Fates, Starting, AttemptsFit, Unlocked
<1>7. DownIsEmpty'
  <2>1. ASSUME mgr = "down" PROVE \A l \in Keys : queue'[l] = <<>>
    <3>1. \A l \in Keys : queue[l] = <<>>
      BY <2>1 DEF FInv, Fates, DownIsEmpty
    <3>2. Without(<<>>, t) = <<>>
      BY DEF Without
    <3> QED
      BY <1>1, <3>1, <3>2
  <2> QED
    BY <1>1, <2>1 DEF FInv, Fates, DownIsEmpty
<1>8. Found'
  BY <1>1, <1>2, <1>3 DEF FInv, Fates, Found
<1> QED
  BY <1>4, <1>5, <1>6, <1>7, <1>8 DEF Fates
-----------------------------------------------------------------------------
LEMMA NextFates == FInv /\ [Next]_vars => FInv'
<1> SUFFICES ASSUME FInv, [Next]_vars PROVE Fates'
  BY NextInv DEF FInv
<1>1. CASE UNCHANGED vars
  <2>1. /\ UNCHANGED <<run, mu, queue, snap, attempt, begun, status, mgr, raced, torn>>
    BY <1>1 DEF vars, store, control, history
  <2>2. OnePlace' /\ Starting'
    BY <2>1, PlacesKept DEF FInv, Fates
  <2>3. StatusFits'
    BY <2>1, PlacesKept DEF FInv, Fates, StatusFits, Marked
  <2>4. AttemptsFit'
    BY <2>1 DEF FInv, Fates, AttemptsFit
  <2>5. DownIsEmpty' /\ Found'
    BY <2>1, PlacesKept DEF FInv, Fates, DownIsEmpty, Found
  <2> QED
    BY <2>2, <2>3, <2>4, <2>5 DEF Fates
<1>2. ASSUME NEW t \in Tasks, Client(t) PROVE Fates'
  BY <1>2, ClientFates, CancelWriteFates, CancelSignalFates, CancelDequeueFates DEF Client
<1>3. ASSUME NEW g \in Goroutines, Runner(g) PROVE Fates'
  BY <1>3, LaunchFates, HandlerReturnsFates, UnregisterFates, DequeueFates, RereadFates,
     HandOverFates DEF Runner, Finish
<1>4. CASE Scheduler \/ Start \/ Stop
  BY <1>4, TickFates, LoopFates, DispatchNextFates, StartFates DEF Scheduler
<1>5. CASE MarkQueued \/ Enqueue \/ Crash
  BY <1>5, MarkQueuedFates, EnqueueFates, CrashFates
<1> QED
  BY <1>1, <1>2, <1>3, <1>4, <1>5 DEF Next

LEMMA FatesInvariant == Spec => []FInv
<1>1. Init => FInv
  BY InitInv, InitFates DEF FInv
<1> QED
  BY <1>1, NextFates, PTL DEF Spec

\* A queued task is in the queue or in somebody's hands, whatever cancels,
\* crashes and retries come in between.
THEOREM QueuedTasksAreFound == Spec => []QueuedIsFound
<1>1. FInv => QueuedIsFound
  <2>1. \A t \in Tasks : InQueue(t) => Queued(t)
    BY DEF InQueue, Elements, Queued
  <2> QED
    BY <2>1 DEF FInv, Fates, Found, QueuedIsFound, Drawn, Handed
<1> QED
  BY <1>1, FatesInvariant, PTL

\* The handler of a task is entered no more often than MaxAttempts, crashes
\* and cancels included.
AttemptsWithinLimit == \A t \in Tasks : begun[t] <= MaxAttempts[t]

\* No task has more attempts than it may, over all crashes.
THEOREM AttemptsAreBounded == Spec => []AttemptsWithinLimit
<1>1. FInv => AttemptsWithinLimit
  BY DEF FInv, Fates, AttemptsFit, AttemptsWithinLimit
<1> QED
  BY <1>1, FatesInvariant, PTL

\* A final status is overwritten by the races of Cancel only, in any history.
THEOREM FinalStatusStays == Spec => FinalStays
<1> DEFINE Kept(t) == (status[t] \in Terminal /\ status'[t] # status[t]) =>
                         \/ status'[t] = "cancelled" /\ cancel[t] # "none"
                         \/ status[t] = "cancelled" /\ t \in raced
<1>1. ASSUME FInv, Next, NEW t \in Tasks PROVE Kept(t)
  <2>1. ASSUME NEW u \in Tasks, Client(u) PROVE Kept(t)
    BY <1>1, <2>1 DEF Client, Submit, ComesDue, CancelRead, CancelSignal, CancelWrite, CancelDequeue,
                      store, Terminal, FInv, IInv, TypeOK
  <2>2. ASSUME MarkQueued \/ \E g \in Goroutines : Launch(g) PROVE Kept(t)
    <3>1. CASE t = mu.task
      BY <1>1, <2>2, <3>1 DEF FInv, Fates, StatusFits, Marked, Terminal
    <3>2. CASE t # mu.task
      <4>1. \E s : status' = [status EXCEPT ![mu.task] = s]
        BY <2>2 DEF MarkQueued, Launch
      <4>2. status \in [Tasks -> {"absent"} \cup Live \cup Terminal]
        BY <1>1 DEF FInv, IInv, TypeOK
      <4> QED
        BY <3>2, <4>1, <4>2
    <3> QED
      BY <3>1, <3>2
  <2>3. ASSUME NEW g \in Goroutines, NEW outcome \in {"ok", "retryable", "error"},
               HandlerReturns(g, outcome)
        PROVE  Kept(t)
    <3>1. run[g].pc = "handler" /\ status' = [status EXCEPT ![run[g].task] = Verdict(run[g], outcome)]
      BY <2>3 DEF HandlerReturns
    <3>2. CASE t = run[g].task
      BY <1>1, <3>1, <3>2 DEF FInv, Fates, StatusFits, Runs, Marked, Terminal
    <3>3. CASE t # run[g].task
      BY <3>1, <3>3 DEF FInv, IInv, TypeOK
    <3> QED
      BY <3>2, <3>3
  <2>4. ASSUME NEW g \in Goroutines, Finish(g) PROVE Kept(t)
    <3>1. UNCHANGED status
      BY <2>4 DEF Finish, Unregister, Dequeue, Reread, HandOver, QueueUp, Register, store
    <3> QED
      BY <3>1
  <2>5. CASE Scheduler \/ Enqueue \/ Stop \/ Crash
    <3>1. UNCHANGED status
      BY <2>5 DEF Scheduler, Tick, DispatchNext, LeaveLoop, QueueUp, Register, Enqueue, Stop, Crash, store
    <3> QED
      BY <3>1
  <2>6. CASE Start
    BY <2>6 DEF Start, Terminal
  <2> QED
    BY <1>1, <2>1, <2>2, <2>3, <2>4, <2>5, <2>6 DEF Next, Runner
<1>2. ASSUME FInv, [Next]_vars PROVE [\A t \in Tasks : Kept(t)]_vars
  BY <1>1, <1>2
<1> HIDE DEF Kept
<1>3. Spec => [][\A t \in Tasks : Kept(t)]_vars
  BY <1>2, FatesInvariant, PTL DEF Spec
<1> QED
  BY <1>3 DEF Kept, FinalStays
-----------------------------------------------------------------------------
(* TaskManager implements Jobs.                                              *)

KeepsPromise == [Promise!Next]_(Promise!vars)

LEMMA StageBecomes ==
    ASSUME TypeOK, NEW t \in Tasks, NEW s, status' = [status EXCEPT ![t] = s]
    PROVE  Stage' = [Stage EXCEPT ![t] = IF s \in {"pending", "queued"} THEN "waiting" ELSE s]
BY DEF Stage, TypeOK

\* A goroutine that goes on outside of a handler is not seen.
LEMMA SameWork ==
    ASSUME NEW g \in Goroutines, \A h \in Goroutines : h # g => run'[h] = run[h],
           run[g].pc # "handler", run'[g].pc # "handler"
    PROVE  UNCHANGED Working
BY DEF Working

LEMMA UnseenKept ==
    ASSUME UNCHANGED <<status, begun, raced>>, UNCHANGED Working, UNCHANGED Calling
    PROVE  KeepsPromise
BY DEF KeepsPromise, Promise!vars, Stage

LEMMA ClientKept ==
    ASSUME FInv, NEW t \in Tasks, Client(t)
    PROVE  KeepsPromise
<1>0. TypeOK
  BY DEF FInv, IInv
<1>1. CASE Submit(t)
  <2>1. UNCHANGED Working /\ UNCHANGED Calling
    BY <1>1 DEF Submit, Working, Calling
  <2>2. Stage' = [Stage EXCEPT ![t] = "waiting"]
    BY <1>0, <1>1, StageBecomes DEF Submit
  <2>3. Promise!Submit(t)
    BY <1>1, <2>1, <2>2 DEF Promise!Submit, Submit, Stage, history
  <2> QED
    BY <2>3 DEF KeepsPromise, Promise!Next
<1>2. CASE ComesDue(t)
  BY <1>2, UnseenKept DEF ComesDue, Working, Calling, history
<1>3. CASE CancelRead(t)
  <2>1. UNCHANGED Working /\ UNCHANGED Stage
    BY <1>3 DEF CancelRead, Working, Stage, store
  <2>2. Calling' = IF status[t] \in {"pending", "queued"} THEN Calling \cup {t} ELSE Calling
    BY <1>0, <1>3 DEF CancelRead, Calling, TypeOK
  <2>3. CASE status[t] \in {"pending", "queued"}
    <3>1. Promise!CallOff(t)
      BY <1>3, <2>1, <2>2, <2>3 DEF Promise!CallOff, CancelRead, Stage, history
    <3> QED
      BY <3>1 DEF KeepsPromise, Promise!Next
  <2>4. CASE status[t] \notin {"pending", "queued"}
    BY <1>3, <2>1, <2>2, <2>4, UnseenKept DEF CancelRead, store, history
  <2> QED
    BY <2>3, <2>4
<1>4. CASE CancelSignal(t)
  <2>1. \A g \in Goroutines : run'[g].pc = run[g].pc /\ run'[g].task = run[g].task
    BY <1>0, <1>4 DEF CancelSignal, TypeOK, RunRecord
  <2>2. UNCHANGED Working
    BY <2>1 DEF Working
  <2>3. UNCHANGED Calling
    BY <1>0, <1>4 DEF CancelSignal, Calling, TypeOK
  <2> QED
    BY <1>4, <2>2, <2>3, UnseenKept DEF CancelSignal, store, history
<1>5. CASE CancelWrite(t)
  <2>1. UNCHANGED Working
    BY <1>5 DEF CancelWrite, Working
  <2>2. Stage' = [Stage EXCEPT ![t] = "cancelled"]
    BY <1>0, <1>5, StageBecomes DEF CancelWrite
  <2>3. t \in Calling /\ Calling' = Calling \ {t}
    BY <1>0, <1>5 DEF CancelWrite, Calling, TypeOK
  <2>4. Promise!Cancel(t)
    BY <1>5, <2>1, <2>2, <2>3 DEF Promise!Cancel, CancelWrite
  <2> QED
    BY <2>4 DEF KeepsPromise, Promise!Next
<1>6. CASE CancelDequeue(t)
  <2>1. UNCHANGED Working /\ UNCHANGED Calling
    BY <1>0, <1>6 DEF CancelDequeue, Working, Calling, TypeOK
  <2> QED
    BY <1>6, <2>1, UnseenKept DEF CancelDequeue, store
<1> QED
  BY <1>1, <1>2, <1>3, <1>4, <1>5, <1>6 DEF Client

LEMMA MarkQueuedKept == ASSUME FInv, MarkQueued PROVE KeepsPromise
<1> DEFINE t == mu.task
<1>1. TypeOK /\ t \in Tasks /\ (Marked(t) \/ status[t] \in {"pending", "queued"})
  BY DEF MarkQueued, FInv, IInv, Locking, WellFormed, Fates, StatusFits
<1>2. UNCHANGED Working /\ UNCHANGED Calling /\ UNCHANGED <<begun, raced>>
  BY DEF MarkQueued, Working, Calling, history
<1>3. Stage' = [Stage EXCEPT ![t] = "waiting"]
  BY <1>1, StageBecomes DEF MarkQueued
<1>4. CASE Marked(t)
  <2>1. Promise!PutBack(t)
    BY <1>1, <1>2, <1>3, <1>4 DEF Promise!PutBack, Marked, Stage
  <2> QED
    BY <1>1, <2>1 DEF KeepsPromise, Promise!Next
<1>5. CASE status[t] \in {"pending", "queued"}
  <2>1. UNCHANGED Stage
    BY <1>1, <1>3, <1>5 DEF Stage
  <2> QED
    BY <1>2, <2>1 DEF KeepsPromise, Promise!vars
<1> QED
  BY <1>1, <1>4, <1>5

LEMMA LaunchKept == ASSUME FInv, NEW g \in Goroutines, Launch(g) PROVE KeepsPromise
<1> DEFINE t == mu.task
<1>1. /\ TypeOK /\ t \in Tasks /\ (Marked(t) \/ status[t] \in {"pending", "queued"})
      /\ run[g].pc = "starting" /\ run[g].task = t /\ run[g] \in RunRecord
  BY DEF Launch, FInv, IInv, TypeOK, Locking, WellFormed, Fates, StatusFits, Starting
<1>2. begun[t] < MaxAttempts[t]
  BY <1>1 DEF FInv, Fates, AttemptsFit
<1>3. Stage' = [Stage EXCEPT ![t] = "running"]
  BY <1>1, StageBecomes DEF Launch
<1>4. \A h \in Goroutines : run'[h].task = run[h].task
                         /\ (run'[h].pc = "handler" <=> h = g \/ run[h].pc = "handler")
  BY <1>1 DEF Launch, TypeOK, RunRecord
<1>5. Working' = Working \cup {t}
  BY <1>1, <1>4 DEF Working
<1>6. t \notin Working
  BY <1>1 DEF Working, FInv, Fates, OnePlace, With, Runs
<1>7. \A u \in Working : KeyOf[u] = KeyOf[t] => KeyOf[t] = NoKey
  BY <1>1 DEF Working, FInv, IInv, Locking, OneRunPerKey, Holding
<1>8. UNCHANGED Calling /\ UNCHANGED raced /\ begun' = [begun EXCEPT ![t] = @ + 1]
  BY DEF Launch, Calling
<1>9. Promise!Open(t, "waiting")
  BY <1>1 DEF Promise!Open, Marked, Stage
<1>10. Promise!Begin(t)
  BY <1>2, <1>3, <1>5, <1>6, <1>7, <1>8, <1>9 DEF Promise!Begin
<1> QED
  BY <1>1, <1>10 DEF KeepsPromise, Promise!Next

LEMMA HandlerReturnsKept ==
    ASSUME FInv, NEW g \in Goroutines, NEW outcome \in {"ok", "retryable", "error"},
           HandlerReturns(g, outcome)
    PROVE  KeepsPromise
<1> DEFINE t == run[g].task
           s == Verdict(run[g], outcome)
           stage == IF s = "pending" THEN "waiting" ELSE s
<1>1. /\ TypeOK /\ t \in Tasks /\ run[g].pc = "handler" /\ run[g] \in RunRecord
      /\ (Marked(t) \/ status[t] = "running")
  BY DEF HandlerReturns, FInv, IInv, TypeOK, Locking, WellFormed, Fates, StatusFits, Runs
<1>2. /\ s \in {"succeeded", "cancelled", "pending", "failed"}
      /\ s = "pending" => begun[t] < MaxAttempts[t]
  BY <1>1 DEF Verdict, FInv, Fates, AttemptsFit
<1>3. Stage' = [Stage EXCEPT ![t] = stage]
  <2>1. status' = [status EXCEPT ![t] = s]
    BY DEF HandlerReturns
  <2> HIDE DEF s
  <2> QED
    BY <1>1, <1>2, <2>1, StageBecomes
<1>4. \A h \in Goroutines : run'[h].task = run[h].task
                         /\ (run'[h].pc = "handler" <=> h # g /\ run[h].pc = "handler")
  BY <1>1 DEF HandlerReturns, TypeOK, RunRecord
<1>5. \A h \in Goroutines : h # g /\ run[h].pc = "handler" => run[h].task # t
  BY <1>1 DEF FInv, Fates, OnePlace, With, Runs
<1>6. t \in Working /\ Working' = Working \ {t}
  BY <1>1, <1>4, <1>5 DEF Working
<1>7. UNCHANGED Calling /\ UNCHANGED <<begun, raced>>
  BY DEF HandlerReturns, Calling, history
<1>8. Promise!Open(t, "running")
  BY <1>1 DEF Promise!Open, Marked, Stage
<1> HIDE DEF s
<1>9. /\ stage \in {"succeeded", "failed", "cancelled", "waiting"}
      /\ stage = "waiting" => begun[t] < MaxAttempts[t]
  BY <1>2
<1> HIDE DEF stage
<1>10. Promise!End(t)
  BY <1>3, <1>6, <1>7, <1>8, <1>9 DEF Promise!End
<1> QED
  BY <1>1, <1>10 DEF KeepsPromise, Promise!Next

LEMMA FinishKept == ASSUME FInv, NEW g \in Goroutines, Finish(g) PROVE KeepsPromise
<1>1. TypeOK /\ run[g] \in RunRecord
  BY DEF FInv, IInv, TypeOK
<1>2. /\ UNCHANGED <<status, begun, raced>> /\ UNCHANGED cancel
      /\ run[g].pc # "handler"
  BY DEF Finish, Unregister, Dequeue, Reread, HandOver, QueueUp, Register, store, history
<1>3. CASE Unregister(g)
  <2>1. run'[g].pc # "handler" /\ \A h \in Goroutines : h # g => run'[h] = run[h]
    BY <1>1, <1>3 DEF Unregister, TypeOK, NoRun, RunRecord
  <2> QED
    BY <1>2, <2>1, SameWork, UnseenKept DEF Calling
<1>4. CASE Dequeue(g)
  <2>1. run'[g].pc # "handler" /\ \A h \in Goroutines : h # g => run'[h] = run[h]
    BY <1>1, <1>4 DEF Dequeue, TypeOK, NoRun, RunRecord
  <2> QED
    BY <1>2, <2>1, SameWork, UnseenKept DEF Calling
<1>5. CASE Reread(g)
  <2>1. run'[g].pc # "handler" /\ \A h \in Goroutines : h # g => run'[h] = run[h]
    BY <1>1, <1>5 DEF Reread, TypeOK, NoRun, RunRecord
  <2> QED
    BY <1>2, <2>1, SameWork, UnseenKept DEF Calling
<1>6. CASE HandOver(g)
  <2>1. run'[g].pc # "handler" /\ \A h \in Goroutines : h # g => run'[h] = run[h]
    <3>1. \/ run' = [run EXCEPT ![g] = NoRun]
          \/ run' = [run EXCEPT ![g] = NewRun(run[g].next, run[g].attempt, FALSE)]
      BY <1>6 DEF HandOver, Register
    <3> QED
      BY <1>1, <3>1 DEF TypeOK, NoRun, NewRun
  <2> QED
    BY <1>2, <2>1, SameWork, UnseenKept DEF Calling
<1> QED
  BY <1>3, <1>4, <1>5, <1>6 DEF Finish

LEMMA SchedulerKept == ASSUME FInv, Scheduler PROVE KeepsPromise
<1>1. TypeOK
  BY DEF FInv, IInv
<1>2. UNCHANGED <<status, begun, raced>> /\ UNCHANGED cancel
  BY DEF Scheduler, Tick, DispatchNext, LeaveLoop, QueueUp, Register, store, history
<1>3. CASE UNCHANGED run
  BY <1>2, <1>3, UnseenKept DEF Working, Calling
<1>4. CASE \E g \in Goroutines : FirstFree(g) /\ \E t, n, b : Register(t, n, b, g)
  <2>1. PICK g \in Goroutines : FirstFree(g) /\ \E t, n, b : Register(t, n, b, g)
    BY <1>4
  <2>2. PICK t, n, b : Register(t, n, b, g)
    BY <2>1
  <2>3. /\ run[g].pc # "handler" /\ run'[g].pc # "handler"
        /\ \A h \in Goroutines : h # g => run'[h] = run[h]
    BY <1>1, <2>1, <2>2 DEF FirstFree, Register, NewRun, TypeOK
  <2>4. UNCHANGED Working
    BY <2>3, SameWork
  <2> QED
    BY <1>2, <2>4, UnseenKept DEF Calling
<1> QED
  BY <1>3, <1>4 DEF Scheduler, Tick, DispatchNext, LeaveLoop

LEMMA StartKept == ASSUME FInv, Start PROVE KeepsPromise
<1>1. TypeOK /\ Working = {}
  BY DEF Start, Working, FInv, IInv, Fates, DownIsEmpty
<1>2. UNCHANGED Working /\ UNCHANGED Calling /\ UNCHANGED <<begun, raced>>
  BY DEF Start, Working, Calling, history
<1>3. Stage' = [t \in Tasks |-> IF Stage[t] = "running" THEN "interrupted" ELSE Stage[t]]
  BY <1>1 DEF Start, Stage, TypeOK
<1>4. Promise!Repair
  BY <1>1, <1>2, <1>3 DEF Promise!Repair
<1> QED
  BY <1>4 DEF KeepsPromise, Promise!Next

LEMMA CrashKept == ASSUME FInv, Crash PROVE KeepsPromise
<1>1. Working' = {} /\ Calling' = {} /\ raced' = {}
  BY DEF Crash, Working, Calling, NoRun
<1>2. UNCHANGED Stage /\ UNCHANGED begun
  BY DEF Crash, Stage, store
<1>3. Promise!Crash
  BY <1>1, <1>2 DEF Promise!Crash
<1> QED
  BY <1>3 DEF KeepsPromise, Promise!Next

LEMMA OtherKept == ASSUME Enqueue \/ Stop \/ UNCHANGED vars PROVE KeepsPromise
BY UnseenKept DEF Enqueue, Stop, vars, Working, Calling, store, history

\* The manager treats tasks as Jobs says, whatever the scheduler, the hand-over
\* of a queue, Cancel, retries and crashes do to each other: a handler is
\* entered from a waiting task, alone in its key and within MaxAttempts.
THEOREM ImplementsJobs == Spec => KeepsJobs
<1>1. Init => Promise!Init
  BY DEF Init, Promise!Init, Stage, Working, Calling, NoRun
<1>2. FInv /\ [Next]_vars => KeepsPromise
  <2> SUFFICES ASSUME FInv, [Next]_vars PROVE KeepsPromise
    OBVIOUS
  <2>1. ASSUME NEW g \in Goroutines, Runner(g) PROVE KeepsPromise
    BY <2>1, LaunchKept, HandlerReturnsKept, FinishKept DEF Runner
  <2> QED
    BY <2>1, ClientKept, MarkQueuedKept, SchedulerKept, StartKept, CrashKept, OtherKept DEF Next
<1> QED
  BY <1>1, <1>2, FatesInvariant, PTL DEF Spec, KeepsPromise, KeepsJobs, Promise!Spec
=============================================================================
