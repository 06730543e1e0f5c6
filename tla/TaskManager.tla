---------------------------- MODULE TaskManager ----------------------------
(***************************************************************************)
(* The task manager of src/internal/task: a store of tasks, a scheduler    *)
(* goroutine that dispatches what is due, one goroutine per running task,  *)
(* and a serialization key that lets one task of a kind run at a time.     *)
(*                                                                         *)
(* m.mu serializes the dispatches, but the goroutine of a finished task    *)
(* releases its key and looks at the queue without it, Cancel reads a      *)
(* status and acts on it later, and the scheduler works on a snapshot of   *)
(* what was due.  Each of those is an action of its own here.              *)
(*                                                                         *)
(* A task's number is its age: created_at orders FindDueTasks.  The store  *)
(* keeps its rows over a crash; all the rest is memory.  Its writes        *)
(* succeed, as those of MemoryStore, the only implementation, do.          *)
(***************************************************************************)
EXTENDS Naturals, Sequences, FiniteSets

CONSTANTS
    NTasks,        \* how many tasks are submitted
    Keys,          \* serialization keys
    NoKey,         \* the key of a task that may run beside any other
    KeyOf,         \* SerializationKey of each task
    MaxAttempts,   \* MaxAttempts of each task
    BatchSize,     \* schedulerBatchSize
    Postponed,     \* tasks submitted with a ScheduledAt in the future
    MaxRuns,       \* bound: goroutines of runTask alive at once
    MaxCrashes,    \* bound: ends of the process
    MaxCancels     \* bound: calls of Cancel that are accepted

Tasks == 1..NTasks
Goroutines == 1..MaxRuns

ASSUME TaskAssumption ==
    /\ NTasks \in Nat /\ MaxRuns \in Nat /\ MaxCrashes \in Nat /\ MaxCancels \in Nat
    /\ BatchSize \in Nat \ {0}
    /\ NoKey \notin Keys
    /\ Postponed \subseteq Tasks
    /\ KeyOf \in [Tasks -> Keys \cup {NoKey}]
    /\ MaxAttempts \in [Tasks -> Nat \ {0}]

VARIABLES
    status,    \* the store: Status of each task, "absent" before Submit
    attempt,   \* the store: Attempt
    later,     \* the store: the tasks whose ScheduledAt is still to come
    handle,    \* cancelRegistry.running: the goroutine whose context Cancel reaches, or 0
    lock,      \* cancelRegistry.locks: the task that holds a key, or 0
    queue,     \* serialKeyQueue.queue
    run,       \* the goroutines of runTask
    mu,        \* m.mu, and where the dispatch that holds it stands
    snap,      \* what the current tick of the scheduler has still to dispatch
    mgr,       \* where the manager stands between Start and the end of the process
    crashes,   \* ends of the process so far
    cancel,    \* the Cancel of a task that is under way
    cancels,   \* calls of Cancel so far
    begun,     \* history: how often the handler of a task was entered
    asleep,    \* history: how the queue of a key lost the goroutine that empties it
    torn,      \* history: tasks a late Cancel took from the queue while queued anew,
    raced      \* history: tasks that Cancel marked while somebody was about to write

store == <<status, attempt, later>>
registry == <<handle, lock>>
history == <<begun, asleep, torn, raced>>
control == <<snap, mgr, crashes>>
vars == <<store, registry, queue, run, mu, control, cancel, cancels, history>>

Terminal == {"succeeded", "failed", "cancelled", "interrupted"}
Live == {"pending", "queued", "running"}

NoRun == [pc |-> "none", task |-> 0, attempt |-> 0, bySched |-> FALSE, cancelled |-> FALSE, next |-> 0]
Unlocked == [pc |-> "free", task |-> 0, bySched |-> FALSE]

RunRecord ==
    [pc : {"none", "starting", "handler", "ended", "released", "woke", "handing"},
     task : 0..NTasks, attempt : Nat, bySched : BOOLEAN, cancelled : BOOLEAN,
     next : 0..NTasks]
MuRecord == [pc : {"free", "marking", "enqueueing", "launching"},
             task : 0..NTasks, bySched : BOOLEAN]
TypeOK ==
    /\ status \in [Tasks -> {"absent"} \cup Live \cup Terminal]
    /\ attempt \in [Tasks -> Nat] /\ later \subseteq Tasks
    /\ handle \in [Tasks -> 0..MaxRuns] /\ lock \in [Keys -> 0..NTasks]
    /\ queue \in [Keys -> Seq(Tasks)]
    /\ run \in [Goroutines -> RunRecord]
    /\ mu \in MuRecord
    /\ snap \subseteq [task : Tasks, attempt : Nat]
    /\ crashes \in 0..MaxCrashes /\ cancels \in 0..MaxCancels
    /\ mgr \in {"down", "running", "stopped", "left"}
    /\ cancel \in [Tasks -> {"none", "pending", "queued", "running", "dequeue"}]
    /\ begun \in [Tasks -> Nat]
    /\ asleep \in [Keys -> {"no", "late", "dead"}] /\ torn \subseteq Tasks /\ raced \subseteq Tasks

Init ==
    /\ status = [t \in Tasks |-> "absent"]
    /\ attempt = [t \in Tasks |-> 0] /\ later = {}
    /\ handle = [t \in Tasks |-> 0] /\ lock = [k \in Keys |-> 0]
    /\ queue = [k \in Keys |-> <<>>]
    /\ run = [g \in Goroutines |-> NoRun]
    /\ mu = Unlocked
    /\ snap = {} /\ mgr = "down"
    /\ crashes = 0 /\ cancels = 0
    /\ cancel = [t \in Tasks |-> "none"]
    /\ begun = [t \in Tasks |-> 0]
    /\ asleep = [k \in Keys |-> "no"] /\ torn = {} /\ raced = {}
-----------------------------------------------------------------------------
(* The store, seen from its clients. *)

Submit(t) ==
    /\ status[t] = "absent"
    /\ \A u \in Tasks : u < t => status[u] # "absent"
    /\ status' = [status EXCEPT ![t] = "pending"]
    /\ later' = later \cup (Postponed \cap {t})
    /\ UNCHANGED <<attempt, registry, queue, run, mu, control, cancel, cancels, history>>

\* The clock passes the ScheduledAt of a task.
ComesDue(t) ==
    /\ t \in later
    /\ later' = later \ {t}
    /\ UNCHANGED <<status, attempt, registry, queue, run, mu, control, cancel, cancels, history>>

Due == {t \in Tasks : status[t] = "pending" /\ t \notin later}

\* FindDueTasks: the oldest BatchSize tasks that are due, as they are now.
FindDueTasks ==
    {[task |-> t, attempt |-> attempt[t]] :
        t \in {u \in Due : Cardinality({v \in Due : v < u}) < BatchSize}}
-----------------------------------------------------------------------------
(* dispatchTask, under m.mu. *)

FirstFree(g) ==
    /\ run[g].pc = "none"
    /\ \A h \in Goroutines : h < g => run[h].pc # "none"

\* Faulty variant of Blocked: the store is asked instead of the registry.
BlockedByStatus(t) ==
    KeyOf[t] # NoKey /\ \E u \in Tasks : KeyOf[u] = KeyOf[t] /\ status[u] = "running"

\* The key of the task is held.
Blocked(t) == KeyOf[t] # NoKey /\ lock[KeyOf[t]] # 0

\* Faulty variant of QueueUp: only the scheduler puts a task in the queue.
QueueUpScheduled(t, bySched) ==
    /\ mu.pc = "free" /\ Blocked(t)
    /\ mu' = IF bySched THEN [pc |-> "marking", task |-> t, bySched |-> TRUE] ELSE mu
    /\ UNCHANGED <<store, registry, queue, mgr, crashes, cancel, cancels, history>>

\* A dispatch takes m.mu and finds the key held.  bySched says whether it is
\* the scheduler's.
QueueUp(t, bySched) ==
    /\ mu.pc = "free" /\ Blocked(t)
    /\ mu' = [pc |-> "marking", task |-> t, bySched |-> bySched]
    /\ UNCHANGED <<store, registry, queue, mgr, crashes, cancel, cancels, history>>

\* Faulty variant of HandleOf: a further attempt is not registered.
HandleOfFirst(t, g) == IF attempt[t] = 0 THEN [handle EXCEPT ![t] = g] ELSE handle

\* cancelRegistry.running, with the cancel function of g for the task.
HandleOf(t, g) == [handle EXCEPT ![t] = g]

NewRun(t, n, bySched) ==
    [pc |-> "starting", task |-> t, attempt |-> n + 1, bySched |-> bySched,
     cancelled |-> FALSE, next |-> 0]

\* It finds the key free and takes it, for the goroutine g that it will start
\* and that inherits the scheduler's context or none.  register cannot fail:
\* only a dispatch takes a key, and this one holds m.mu.
Register(t, n, bySched, g) ==
    /\ mu.pc = "free" /\ ~Blocked(t)
    /\ mu' = [pc |-> "launching", task |-> t, bySched |-> bySched]
    /\ run' = [run EXCEPT ![g] = NewRun(t, n, bySched)]
    /\ handle' = HandleOf(t, g)
    /\ lock' = [k \in Keys |-> IF k = KeyOf[t] THEN t ELSE lock[k]]
    /\ asleep' = [k \in Keys |-> IF k = KeyOf[t] THEN "no" ELSE asleep[k]]
    /\ UNCHANGED <<store, queue, mgr, crashes, cancel, cancels, begun, torn, raced>>

MarkQueued ==
    /\ mu.pc = "marking"
    /\ status' = [status EXCEPT ![mu.task] = "queued"]
    /\ mu' = [mu EXCEPT !.pc = "enqueueing"]
    /\ UNCHANGED <<attempt, later, registry, queue, run, control, cancel, cancels, history>>

\* A goroutine of key k that has still to look at the queue.
Wakers(k) == {g \in Goroutines : /\ run[g].pc \in {"released", "woke", "handing"}
                                 /\ KeyOf[run[g].task] = k}

Enqueue ==
    /\ mu.pc = "enqueueing"
    /\ LET k == KeyOf[mu.task] IN
       /\ queue' = [queue EXCEPT ![k] = Append(@, mu.task)]
       /\ asleep' = IF lock[k] = 0 /\ Wakers(k) = {}
                    THEN [asleep EXCEPT ![k] = "late"] ELSE asleep
    /\ mu' = Unlocked
    /\ UNCHANGED <<store, registry, run, control, cancel, cancels,
                   begun, torn, raced>>

Launch(g) ==
    /\ mu.pc = "launching" /\ run[g].pc = "starting"
    /\ status' = [status EXCEPT ![mu.task] = "running"]
    /\ attempt' = [attempt EXCEPT ![mu.task] = run[g].attempt]
    /\ run' = [run EXCEPT ![g].pc = "handler"]
    /\ begun' = [begun EXCEPT ![mu.task] = @ + 1]
    /\ mu' = Unlocked
    /\ UNCHANGED <<later, registry, queue, control, cancel, cancels,
                   asleep, torn, raced>>
-----------------------------------------------------------------------------
(* runTask and onTaskFinished, in the goroutine of a task. *)

\* ctx.Err() # nil: Cancel reached the goroutine, or Stop ended the context of
\* the scheduler and this goroutine inherited it.
ContextDone(r) == r.cancelled \/ (r.bySched /\ mgr \in {"stopped", "left"})

\* Faulty variant of Verdict: the outcome is taken for a status.
VerdictRaw(r, outcome) ==
    IF outcome = "ok" THEN outcome ELSE IF ContextDone(r) THEN "cancelled" ELSE "failed"

\* Faulty variant of Verdict: one attempt too many.
VerdictOneMore(r, outcome) ==
    IF outcome = "ok" THEN "succeeded"
    ELSE IF ContextDone(r) THEN "cancelled"
    ELSE IF outcome = "retryable" /\ r.attempt <= MaxAttempts[r.task] THEN "pending"
    ELSE "failed"

\* The status runTask writes for what the handler returned.
Verdict(r, outcome) ==
    IF outcome = "ok" THEN "succeeded"
    ELSE IF ContextDone(r) THEN "cancelled"
    ELSE IF outcome = "retryable" /\ r.attempt < MaxAttempts[r.task] THEN "pending"
    ELSE "failed"

HandlerReturns(g, outcome) ==
    /\ run[g].pc = "handler"
    /\ LET t == run[g].task
           s == Verdict(run[g], outcome) IN
       /\ status' = [status EXCEPT ![t] = s]
       /\ later' = IF s = "pending" THEN later \cup {t} ELSE later
    /\ run' = [run EXCEPT ![g].pc = "ended"]
    /\ UNCHANGED <<attempt, registry, queue, mu, control, cancel,
                   cancels, history>>

Unregister(g) ==
    /\ run[g].pc = "ended"
    /\ LET t == run[g].task IN
       /\ handle' = [handle EXCEPT ![t] = 0]
       /\ lock' = [k \in Keys |-> IF k = KeyOf[t] /\ lock[k] = t THEN 0 ELSE lock[k]]
       /\ run' = [run EXCEPT ![g] = IF KeyOf[t] = NoKey THEN NoRun
                                    ELSE [@ EXCEPT !.pc = "released"]]
    /\ UNCHANGED <<store, queue, mu, control, cancel, cancels, history>>

\* Faulty variant of Dequeue: the last task of a queue is left there.
DequeueButLast(g) ==
    /\ run[g].pc = "released"
    /\ LET k == KeyOf[run[g].task] IN
       IF Len(queue[k]) < 2
       THEN run' = [run EXCEPT ![g] = NoRun] /\ UNCHANGED queue
       ELSE /\ run' = [run EXCEPT ![g].pc = "woke", ![g].next = Head(queue[k])]
            /\ queue' = [queue EXCEPT ![k] = Tail(@)]
    /\ UNCHANGED <<store, registry, mu, control, cancel, cancels, history>>

Dequeue(g) ==
    /\ run[g].pc = "released"
    /\ LET k == KeyOf[run[g].task] IN
       IF queue[k] = <<>>
       THEN run' = [run EXCEPT ![g] = NoRun] /\ UNCHANGED queue
       ELSE /\ run' = [run EXCEPT ![g].pc = "woke", ![g].next = Head(queue[k])]
            /\ queue' = [queue EXCEPT ![k] = Tail(@)]
    /\ UNCHANGED <<store, registry, mu, control, cancel, cancels, history>>

\* Faulty variant of StillQueued: the status is not looked at.
NotLookedAt(t) == TRUE

\* Faulty variant of StillQueued: the wrong status is expected.
StillPending(t) == status[t] = "pending"

StillQueued(t) == status[t] = "queued"

\* onTaskFinished reads the task it drew, and drops it unless it is queued:
\* nobody then looks at what is behind it.
Reread(g) ==
    /\ run[g].pc = "woke"
    /\ LET t == run[g].next
           k == KeyOf[run[g].task] IN
       IF StillQueued(t)
       THEN /\ run' = [run EXCEPT ![g].pc = "handing", ![g].attempt = attempt[t]]
            /\ UNCHANGED asleep
       ELSE /\ run' = [run EXCEPT ![g] = NoRun]
            /\ asleep' = IF queue[k] # <<>> /\ lock[k] = 0 /\ Wakers(k) = {g}
                         THEN [asleep EXCEPT ![k] = "dead"] ELSE asleep
    /\ UNCHANGED <<store, registry, queue, mu, control, cancel, cancels,
                   begun, torn, raced>>

HandOver(g) ==
    /\ run[g].pc = "handing"
    /\ \/ /\ QueueUp(run[g].next, FALSE)
          /\ run' = [run EXCEPT ![g] = NoRun]
       \/ Register(run[g].next, run[g].attempt, FALSE, g)
    /\ UNCHANGED snap
-----------------------------------------------------------------------------
(* The scheduler goroutine, from Start to Stop. *)

InLoop == mgr \in {"running", "stopped"} /\ snap = {} /\ ~mu.bySched

\* Also a tick that select prefers to the context that is done.
Tick ==
    /\ InLoop /\ Due # {}
    /\ snap' = FindDueTasks
    /\ UNCHANGED <<store, registry, queue, run, mu, mgr, crashes, cancel, cancels, history>>

DispatchNext ==
    \E d \in snap :
        /\ \A e \in snap : d.task <= e.task
        /\ snap' = snap \ {d}
        /\ \/ QueueUp(d.task, TRUE) /\ UNCHANGED run
           \/ \E g \in Goroutines : FirstFree(g) /\ Register(d.task, d.attempt, TRUE, g)

LeaveLoop ==
    /\ InLoop /\ mgr = "stopped"
    /\ mgr' = "left"
    /\ UNCHANGED <<store, registry, queue, run, mu, snap, crashes, cancel, cancels, history>>

\* MarkInterruptedOnStartup and the start of the scheduler; nothing reads
\* m.running in between.
Start ==
    /\ mgr = "down"
    /\ status' = [t \in Tasks |-> CASE status[t] = "running" -> "interrupted"
                                    [] status[t] = "queued" -> "pending"
                                    [] OTHER -> status[t]]
    /\ later' = {t \in later : status[t] # "queued"}
    /\ mgr' = "running"
    /\ UNCHANGED <<attempt, registry, queue, run, mu, snap, crashes, cancel, cancels, history>>

\* Stop waits neither for the scheduler nor for a task.
Stop ==
    /\ mgr = "running" /\ mu.pc = "free"
    /\ mgr' = "stopped"
    /\ UNCHANGED <<store, registry, queue, run, mu, snap, crashes, cancel, cancels, history>>

\* The process ends, after a Stop or without; a new one will Start.
Crash ==
    /\ mgr # "down" /\ crashes < MaxCrashes
    /\ handle' = [t \in Tasks |-> 0] /\ lock' = [k \in Keys |-> 0]
    /\ queue' = [k \in Keys |-> <<>>]
    /\ run' = [g \in Goroutines |-> NoRun]
    /\ mu' = Unlocked /\ snap' = {}
    /\ mgr' = "down" /\ crashes' = crashes + 1
    /\ cancel' = [t \in Tasks |-> "none"]
    /\ asleep' = [k \in Keys |-> "no"] /\ torn' = {} /\ raced' = {}
    /\ UNCHANGED <<store, cancels, begun>>
-----------------------------------------------------------------------------
(* Cancel: a read of the status, and what follows from it. *)

CancelRead(t) ==
    /\ cancel[t] = "none" /\ status[t] \in Live
    /\ cancels < MaxCancels /\ cancels' = cancels + 1
    /\ cancel' = [cancel EXCEPT ![t] = status[t]]
    /\ UNCHANGED <<store, registry, queue, run, mu, control, history>>

CancelSignal(t) ==
    /\ cancel[t] = "running"
    /\ cancel' = [cancel EXCEPT ![t] = "none"]
    /\ run' = [g \in Goroutines |-> IF handle[t] = g
                                    THEN [run[g] EXCEPT !.cancelled = TRUE] ELSE run[g]]
    /\ UNCHANGED <<store, registry, queue, mu, control, cancels, history>>

\* Somebody is about to write the status of the task, whatever it has become.
InHand(t) ==
    \/ mu.task = t
    \/ \E d \in snap : d.task = t
    \/ \E g \in Goroutines : \/ run[g].pc = "handler" /\ run[g].task = t
                             \/ run[g].pc = "handing" /\ run[g].next = t

CancelWrite(t) ==
    /\ cancel[t] \in {"pending", "queued"}
    /\ status' = [status EXCEPT ![t] = "cancelled"]
    /\ cancel' = [cancel EXCEPT ![t] = IF @ = "queued" THEN "dequeue" ELSE "none"]
    /\ raced' = IF InHand(t) THEN raced \cup {t} ELSE raced
    /\ UNCHANGED <<attempt, later, registry, queue, run, mu, control, cancels,
                   begun, asleep, torn>>

\* serialKeyQueue.remove: the first place of the task, if it has one.
Without(q, t) ==
    IF \A i \in DOMAIN q : q[i] # t THEN q
    ELSE [i \in 1..(Len(q) - 1) |-> IF \A j \in 1..i : q[j] # t THEN q[i] ELSE q[i + 1]]

CancelDequeue(t) ==
    /\ cancel[t] = "dequeue"
    /\ cancel' = [cancel EXCEPT ![t] = "none"]
    /\ queue' = [k \in Keys |-> IF k = KeyOf[t] THEN Without(queue[k], t) ELSE queue[k]]
    /\ torn' = IF status[t] = "queued" THEN torn \cup {t} ELSE torn
    /\ UNCHANGED <<store, registry, run, mu, control, cancels,
                   begun, asleep, raced>>
-----------------------------------------------------------------------------
Client(t) ==
    \/ Submit(t) \/ ComesDue(t)
    \/ CancelRead(t) \/ CancelSignal(t) \/ CancelWrite(t) \/ CancelDequeue(t)

Finish(g) == Unregister(g) \/ Dequeue(g) \/ Reread(g) \/ HandOver(g)

Runner(g) ==
    \/ Launch(g) \/ Finish(g)
    \/ \E outcome \in {"ok", "retryable", "error"} : HandlerReturns(g, outcome)

Scheduler == Tick \/ DispatchNext \/ LeaveLoop

Next ==
    \/ \E t \in Tasks : Client(t)
    \/ \E g \in Goroutines : Runner(g)
    \/ Scheduler \/ MarkQueued \/ Enqueue
    \/ Start \/ Stop \/ Crash

\* Goroutines run on, handlers return, and the scheduler ticks; nothing makes
\* anybody submit, cancel, stop or start, or a time come.
Fairness ==
    /\ \A g \in Goroutines : WF_vars(Runner(g))
    /\ WF_vars(Tick) /\ WF_vars(DispatchNext)
    /\ WF_vars(MarkQueued) /\ WF_vars(Enqueue)

Spec == Init /\ [][Next]_vars /\ Fairness
-----------------------------------------------------------------------------
(* What the package promises. *)

Holding(g) == run[g].pc \in {"starting", "handler", "ended"}

\* Two tasks of one serialization key never run their handlers at the same
\* time, also where a finished task, its successor and the scheduler meet.
OneRunPerKey ==
    \A g, h \in Goroutines :
        (/\ Holding(g) /\ Holding(h) /\ g # h
         /\ KeyOf[run[g].task] # NoKey) => KeyOf[run[g].task] # KeyOf[run[h].task]

\* While the handler of a task with a key runs, Cancel finds its context.  (A
\* task without a key that is retried before its goroutine unregistered takes
\* the new handle away with it.)
CancelReaches ==
    \A g \in Goroutines : (run[g].pc = "handler" /\ KeyOf[run[g].task] # NoKey)
                          => handle[run[g].task] = g

\* A queue that is not empty has a holder of the key, or a goroutine about to
\* look at it, but for two cases: a task was enqueued after the holder had
\* looked, or the one drawn was no longer queued and the next was not tried.
QueueIsWatched ==
    \A k \in Keys : queue[k] # <<>> =>
        lock[k] # 0 \/ Wakers(k) # {} \/ asleep[k] # "no"

Queued(t) == \E k \in Keys : \E i \in DOMAIN queue[k] : queue[k][i] = t

\* A task the store calls queued is in the queue of its key or in the hands of
\* who takes it out or puts it in, unless a slow Cancel took it.
QueuedIsFound ==
    mgr # "down" => \A t \in Tasks : status[t] = "queued" =>
        \/ Queued(t) \/ mu.task = t \/ t \in torn
        \/ \E g \in Goroutines : run[g].pc \in {"woke", "handing"} /\ run[g].next = t

\* A final status stays, but for the races of Cancel: it overwrites what a
\* task became since it looked, and a task that was in the hands of the
\* scheduler, of a dispatch or of its handler overwrites its "cancelled".
FinalStays ==
    [][\A t \in Tasks : (status[t] \in Terminal /\ status'[t] # status[t]) =>
          \/ status'[t] = "cancelled" /\ cancel[t] # "none"
          \/ status[t] = "cancelled" /\ t \in raced]_vars

\* What the package promises of its tasks, Jobs, of which this is an
\* implementation.
Stage ==
    [t \in Tasks |-> IF status[t] \in {"pending", "queued"} THEN "waiting" ELSE status[t]]
Working == {run[g].task : g \in {h \in Goroutines : run[h].pc = "handler"}}
Calling == {t \in Tasks : cancel[t] \in {"pending", "queued"}}

Promise == INSTANCE Jobs WITH
    stage <- Stage, working <- Working, entered <- begun, calling <- Calling, doubted <- raced

\* Whoever dispatches a task, and whatever retries, cancels and crashes come in
\* between: its handler is entered from a waiting task only, beside none of its
\* key and no more often than MaxAttempts, and what has ended is left alone,
\* but for the races of Cancel.
KeepsJobs == Promise!Spec

\* A task that is due or queued gets to run or is cancelled, however it goes
\* between the scheduler and the queue, unless the manager stops or the queue
\* of its key fell asleep.
DueIsRun ==
    \A t \in Tasks :
        (mgr = "running" /\ (t \in Due \/ status[t] = "queued"))
        ~> (\/ mgr # "running" \/ status[t] \notin {"pending", "queued"}
            \/ t \in torn \/ (KeyOf[t] # NoKey /\ asleep[KeyOf[t]] # "no"))
=============================================================================
