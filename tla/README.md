# A TLA+ model of tingly-box

tingly-box is a local AI gateway written in Go.  Clients send requests in one of
several API styles; a *rule* maps the requested model to a set of *services*
(provider and model); the gateway picks a service, forwards the request, and on
a failure that another service may mask tries the next one.  Around this core
the process runs agent sessions, chat bots, background refreshers and an
administration API.

The model covers four parts of it, each with the concurrency it lives in: the
routing core (who is selected, what is retried, and what the shared health state
does while requests run), the manager of background tasks, the lock that keeps
one server per configuration directory, and the agent sessions of the desk with
the processes that run them.

## Inventory

Paths are relative to `src/`.

### Modelled

| component | state | operations | interacts with |
|---|---|---|---|
| circuit breaker, `internal/loadbalance/breaker.go` | per (rule, service): state, failure count, trip time, probe claim, probe successes, recovery time | `Allow`, `RecordSuccess`, `RecordFailure`, reads, `Reset` of the store | asked by selection, told by failover, read by affinity |
| health monitor, `internal/loadbalance/health_monitor.go` | per service: status, rate-limit and auth flags, `RateLimitedUntil`, `LastErrorTime` | `IsHealthy` (which may probe the provider), `ReportRateLimit`, `ReportAuthError`, `ReportSuccess`, `ResetHealth` | asked by the health stage and the load balancer, told by failover and usage tracking |
| selection, `internal/routing`, `internal/typ/tactics.go`, `internal/protocolserver/load_balance.go` | none of its own | health stage, affinity stage, load balancer, tier walk | reads all shared state; claims breakers; pins sessions |
| affinity store, `internal/protocolserver/affinity.go` | per (rule, session): pinned service, expiry | `Get`, `Set`, expiry, `DeleteByRule` | read by the affinity stage, set after selection |
| failover, `internal/protocolserver/failover_dispatch.go` | per request: services tried, the first-chunk gate (buffer, status, committed) | attempt, judge, retry, commit, discard | tells breakers and health, selects fallbacks |
| task manager, `internal/task` | the stored status of each task; the registry of cancel functions and serialization keys; a FIFO queue per key; one goroutine per running task | submit, the scheduler's tick and dispatches, hand-over to the next of a queue, retries, `Cancel`, `Stop`, restart after a crash | one mutex serializes dispatches, and only them |
| instance lock, `internal/lock`, and the commands of `internal/command` | `flock` of an inode, the name of the lock file, the PID in it, the port and version files | start, start as a daemon, stop, restart, shutdown | several processes over one directory |
| agent sessions, `internal/desk`, `agentboot`, `agentboot/pool` | the claim of a session; the pool's entry; per process the session's state, stdin, stdout, events and the turn its Conductor has registered | send a message, stop it, Archive, Handoff, the turns an agent starts by itself, eviction, fallback to a process of its own | messages, pump, reader, pool and agent run concurrently |

What is hard in routing: `IsHealthy` reads, probes the provider with no lock held
and then writes; selection reads who is available before it claims; outcomes
arrive long after the breaker that admitted the request changed state, or never;
several ways to reach a service do not ask the breaker at all; a failover must
not mix the bytes of two answers, retry after the first byte, or blame the wrong
service; a tripped or unhealthy service has to come back.

In the task manager, the end of a task releases its key and looks at the queue
without the dispatch mutex, `Cancel` reads a status and acts on it later, the
scheduler works on a snapshot, and a crash loses everything but the store.  In
the instance lock, a process may die between any two file operations, asking for
the lock takes it for a moment, and files are removed after the lock was
released.  In the desk, a prompt passes four goroutines or processes on its way
to a result, each of which sees the state of the others late, while the pool, an
Archive or a Handoff wants the process gone and the agent starts turns of its
own; and what is written to the agent's stdin blocks, under two mutexes, until
the agent reads it.

### Not modelled

| component | why, and what a model of it would be about |
|---|---|
| interaction registry and remote sessions, `remote/interaction`, `remote/session` | maps with one lock over chat channels and a store that are left out; several waiters on one question share one channel, which the callers avoid |
| token refresher, `internal/worker/tokenrefresh` | writes back a snapshot of a provider after a slow refresh; the other writer is the configuration, which is left out |
| config watcher, `internal/config/watcher.go` | debounced file events; a change during a reload is absorbed; what it reloads is left out |
| quota refresher, `ai/quota` | a `Stop` and a `Start` in quick succession; periodic I/O |
| smart routing, protocol conversion, provider clients, guardrails, virtual models | they transform data and keep no state that requests share |
| configuration, database, OAuth flows, MCP runtime, chat platforms | external libraries and I/O, sequential under one lock |
| command line but for start, stop and restart, desktop, web frontend | user interface |

`PROJECT.json` lists every component with the reason, and the hazards of the
code with the properties that are about them.

## Modules

    Breaker ------------ BreakerUse ...implements... Circuit
       |                    `-- MCBreakerUse, BreakerProofs
       |-- Selection -- Gateway ...implements... Failover
       |                  `-- MCGateway, GatewayProofs
       `-- BreakerLemmas (used by BreakerProofs and GatewayProofs)
    HealthMonitor -- MCHealthMonitor, HealthProofs
    TaskManager ...implements... Jobs
      `-- MCTaskManager, TaskProofs
    Instance ...implements... SingleServer
      `-- MCInstance, InstanceProofs
    Desk ...implements... AgentSession
      `-- MCDesk, DeskProofs -- DeskFlowProofs

**Breaker** is the Go type as operators on a record.  Every method holds the
breaker's mutex from beginning to end, so one operator is one atomic step.
Instants are kept as ages: the code compares each instant only with `now`, and
only against one duration, so an age that stops at that duration loses nothing.
For the same reason the failure count stops at the threshold.  The Boolean
`halfOpenInFlight` and the instant `halfOpenClaimedAt` are one field,
`probeAgo`.

**BreakerUse** adds the requests: asked through `PickBreakerAvailable` (`Ask`) or
not asked at all (`Bypass`: an affinity pin, the only healthy service, the
degraded pick), withdrawn before dispatch, finished with a reported outcome or
without one, in any order.  `streak` and `probing` are history variables: the
run of equal outcomes reported last and the probes under way.  `Reset` is the
reset of the process-wide store: only tests and the simulator of the separate
`harness lb` command call it, and the properties hold with it too.

**Circuit** is the abstract promise: a flag, a flag and a countdown, with no
counter.  While the circuit is shut at most one request is let through per
`OpenDuration`, unless a success is reported.

**HealthMonitor** is one service's record. `IsHealthy` is two steps, `StartProbe`
and `ProbeSucceeds` or `ProbeFails`, between which anything may be reported.
`overtaken` and `byHand` are history: the probes that began before the last error,
and whether the last step was `ResetHealth`, the operator's reset, which the
rate-limit properties exempt. The health stage's logging loop, which asks again,
is one more caller.

**Selection** and **Gateway** compose the rule's breakers, the health verdicts
(reduced to the set of services refused), the pins and the request handlers.
One request goes through `Arrive` (health stage), `UseAffinity`, `Balance`,
`OpenBucket` and `Claim` or `Degrade` (the walk, with the read of who is
available and the claim in separate steps, as in the code), the attempt
(`Buffer`, `Stream`, `Return`), and the judgement of its outcome
(`JudgeCommitted`, `JudgeFinal`, `JudgeFailed`), which ends the request or starts
another selection among the services not tried.  A chain of calls that reads and
writes only the request itself is one step.  The gate's contents are sets of
services: whose bytes are buffered, and whose are on the wire.

**Failover** is the abstract promise to the clients of a rule: a call is tried on
one service after another, each at most once, the next only when the client has
heard nothing and the last one failed; what is heard comes from the one service
that did not fail; a failure is passed on only when no service is left.
`Gateway` maps the services dispatched to `tried`, the services reported to the
breakers to `failed`, and what left the gate to `heard`.

**TaskManager** has one action per stretch of code between two points where
another goroutine can see or change something.  A dispatch holds `m.mu` and is
`QueueUp`, `MarkQueued`, `Enqueue` if the key is held, and `Register`, `Launch`
if it is free.  A finished task is `HandlerReturns`, `Unregister`, `Dequeue`,
`Reread` and `HandOver`, only the last of which takes `m.mu`.  `Cancel` is
`CancelRead` and what it leads to: `CancelSignal`, or `CancelWrite` and
`CancelDequeue`.  `snap` is what a tick of the scheduler has read and has still
to dispatch.  A task's number is its age, which orders `FindDueTasks`.  The store
survives `Crash`; the rest is memory, and `Start` repairs the store.

**Jobs** is the abstract promise to whoever submits tasks: a task waits, is worked
on beside no other of its key and at most `MaxAttempts` times, and ends; what has
ended is left alone.  Cancellations are the exception, as in the code: one may be
late (`calling`), and one that hits a task in somebody's hands may be overwritten
(`doubted`).  `TaskManager` maps pending and queued tasks to waiting ones, the
tasks whose handler runs to `working`, and `raced` to `doubted`.

**Instance** has the lock file as an inode, because its path and the file a
process has open may part: `OpenFile` opens what the path names or makes a new
file, `Flock`, `Refused` and `Release` are the system calls, and `Unlink` removes
whatever the path names by then.  `IsLocked` is `ProbeOpen`, `ProbeLock` and
`ProbeRelease`; `why` says what its caller does with the answer.  A stop is
`GetPID`, `Terminate`, polls, `Kill` when they run out, and `Sweep`.  A signal
that ends a process only marks it (`killed`): the stop goes on, and the process
keeps its lock and its port and takes no step of its own until its end
(`Crash`), which comes at any later time.  A start as a
daemon takes the lock, forks a child that runs the same command, and exits
without releasing.  The port and version files are written and removed together
and are one variable.

**SingleServer** is the abstract promise of a configuration directory, without
files, locks or signals: one server at a time, no process a server twice, and a
stop that succeeds has seen its server end, or has made sure that it does nothing
but end (`dying`).  A server may go astray, and then the
directory knows of none.  `Instance` maps who holds the lock to `server`, or to
`strays` if its file was removed under it, `killed` to `dying`, and the stops that
have reported success, with the processes they signalled, to `stopped`.

**Desk** is one session.  A message is `StartTurn` (the claim), `Acquire`,
`Evicted`, `Open`, `Conduct`, `Await` or `RunTurn`, and the wait: `Settle` when
there is an outcome, `ContextDone` and `GraceOver` for the turn's time limit and
the user's stop.  An agent process is a record with what is on its way through
it: `inbox` (stdin), `wire` (stdout), `events` (from the pump to the Conductor)
and `turn` (what the Conductor has registered).  `Read`, `Begin`, `BeginOwn`,
`Finish` and `Die` are the agent, an external program; `PumpStart`, `PumpResult`
and `Terminate` are the pump of the `PersistentSession`; `ReadStart`,
`ReadResult` and `ReadEnd` are `Conductor.read`.

A write to stdin takes no context.  `writing` says that the pipe is full and the
encoder waits, with its mutex, for the agent to read the rest of the last prompt.
`Open` leaves that to its feeder goroutine; the `Send` of `RunTurn` waits itself
(`send`), holding `Conductor.mu`, so that `Reads` has to wait too.  It ends with
`PromptSent`, or with `SendBreaks` when the process is gone or was closed before
the write began.  The interrupt of a message that is stopped waits for the
encoder as well (`ContextDone`, then `Interrupted` or `InterruptFails`), and only
after it does the grace period run (`GraceOver`).

The pool forgets a process (`Evict`, `Reclaim`) before it closes it (`Close`),
outside its lock: `doomed` is what lies in between.  A process that is being
closed lives, and works, until it exits or is killed; `Evicted` is the return of
a `CloseAndRemove` and `CloseOver` that of the `Close` of a stopped message, both
when the process is dead.

**AgentSession** is the abstract promise of the desk, without processes, queues
or goroutines: a holder, who works, what each user was told, and whether the
session is sealed.  Work begins for the user who holds the session, while nobody
else works; the holder alone is answered, and of its own request unless it was
confused with another; a sealed session is worked on by nobody until a user
claims it.  Work that has been given up is not spoken of.  `Desk` maps
`Service.runs` to the holder, the living processes, closed or not, and the
one-shot turns to the workers (`Writers`), the outcomes of its messages to the
answers, the races `crossed` and `early` to the confused, and an archived
session nobody was late for to the sealed.  Given up are the processes the pool
has reclaimed and one that an Archive is closing which others overlapped with
(`Cast`): nobody who uses the session waits for their end.

Several properties of these three modules hold but for a race that the code has.
Each race is a history variable or a value of one (`asleep`, `torn`, `raced`,
`lost`, `late`), set in the step where it happens, and the property names the
exception.  So the property says exactly what the code guarantees, and the list
of exceptions is the list of races, given below.

Definitions marked *faulty variant* are the plausible mistakes the properties
are tested against.  No action uses them.

## Runs

| run | configuration | what it shows |
|---|---|---|
| `breaker` | 2 requests, thresholds 2 and 3, durations of 2 ticks | the counters are true; trips and recoveries happen only on streaks; nothing outlives its state; it implements `Circuit`; it recovers |
| `breaker_single_probe` | 3 requests | violation: two probes at once |
| `health` | 2 callers, timeout of 3 ticks, probe enabled | verdict and reason agree; only an overtaken probe ends a rate limit early; no service is banished |
| `health_window` | the same | violation: a 429 wiped by a probe |
| `gateway` | 2 requests of one session, a primary and a fallback tier | no retry after the first byte, the right service charged, failures only when exhausted, pins yield to a settled primary; it implements `Failover` |
| `gateway_flat` | 1 request, 3 services, horizontal tactic, one disabled provider | every request ends |
| `stale_pin` | 2 services of one tier | violation: a pin to an open breaker is honoured |
| `tasks` | 3 tasks of one key, one of which may retry, 2 goroutines, one cancellation, one crash | one task per key at a time; a cancellation finds the run; queues are watched and queued tasks found; final statuses stay; it implements `Jobs`, so no attempt too many; what is due is run |
| `instance` | 3 processes, any command each, one poll | one server; a stop finds it; what is published is the server's own; it implements `SingleServer`, so a stop that succeeds has seen its server let go or has killed it; a stop ends |
| `desk` | 2 messages, an Archive and a Handoff (3 of the 4 calls), 2 processes, one turn of the agent's own | no two processes live on the session; a waiting message is attended to and told its own result; a prompt is given once; Archive and Handoff return when the process they close is dead; it implements `AgentSession`; nobody holds the session for ever unless the agent stops reading its stdin: all but for the races below |
| `send_refused` | the same | violation: a message is sent although a turn of the agent's own came first |
| `closed_first` | the same | violation: a Handoff returns while a process of the session lives |

**Bounds.**  The breaker needs two requests for one outcome to arrive in the
other's trial, and three for two probes next to a late request.  A failure
threshold of 2 and a recovery threshold of 3 are unequal and above 1, so an
off-by-one or a wrong threshold shows.  Two ticks distinguish *just claimed*,
*waiting* and *over*.  In `gateway` the breakers trip and recover at once, which
shortens the way to every state of a breaker and leaves out none of the
transitions; the counting is `breaker`'s subject.  Two handlers reuse their slot
for any number of requests.  Two services are one failover and an exhausted
pool; three, in `gateway_flat`, let a walk lose a claim and go on.  The handlers
are symmetric in `gateway`, whose properties are safety properties.

`tasks` needs three tasks of one key for a holder, the head of the queue and one
behind it, and two goroutines for a holder and the one that hands over; a batch
of two leaves one task to the next tick.  Tasks without a key meet nobody but
their own retry, and postponed ones are the retried one's case; the proofs cover
both.  `instance` needs three processes for a server, one that stops it and a
third that starts meanwhile, or a daemon, its child and a stop; one poll is the
first and the last of a wait.  `desk` has a message before and one after a
change of process, and one call that meets both; all four calls together were
checked for the safety properties too (1.9 million states).  Its pool and agent
may refuse, reclaim and die at any step.

No instance is bounded by a state constraint.  Ages and counts saturate where the
code stops distinguishing them, and what is bounded by a constant (`MaxRuns`,
`MaxCrashes`, `MaxCancels`, `NProcs`, `MaxPolls`, `MaxOwn`, `MaxCalls`) is so in a
guard.  Deadlock is not checked where a system that has used them up, or whose
users have stopped asking, may rest.

**Fairness.**  `breaker`: time passes; the rule keeps receiving traffic that is
selected by its tactic and dispatched, and a working service keeps answering
some of it with a streamed success.  Strong fairness is used because asking,
dispatching and succeeding are disabled again and again by other requests and by
time.  `health`: time passes, the router keeps asking (every request does), and
a probe ends, since it is a request with a timeout.  `gateway_flat`: a handler
goroutine keeps running and an attempt ends.  Nothing is assumed about arrivals,
pins, health verdicts or the clock there.  `tasks`: goroutines run on, handlers
return and the scheduler's ticker fires; nobody need submit, cancel, stop or
start.  `instance`: a command that was launched goes on with its probes and its
stop, and a signal that ends a process arrives; a server owes nothing, not even a
reaction to SIGTERM.  `desk`: the goroutines of turns, Archive and Handoff go on
and their timers expire, a `Close` that was begun is called, and a process that
is being closed is killed in the end; agent, pump and reader owe nothing, and the
agent need not even read its stdin.  The kill comes `shutdownGracePeriod` (5 s)
after the close (`persistentSession.shutdown`), before the pool's `CloseTimeout`
(10 s) and `SessionCloseTimeout` (15 s) run out: the model assumes that a killed
process is gone within what is left, so that a `Close` never returns by its time
limit.  What remains without a limit is a write to stdin: `BusyEnds` says that
Archive and Handoff end, and that a message does unless it waits for a process
that nobody closes to read (`AgentOwes`).  `turnTimeout` and a stop by the user
do not end that wait; an Archive or the end of the process does.

## What the violations show

1. `OneProbeAtATime`: the comment of the `Breaker` type promises one probe per
   round.  An outcome does not know which request it belongs to, so the late
   success of a request sent before the trip, or of one that bypassed `Allow`,
   frees the slot of a probe still running.  What holds instead is
   `PacesProbes`: one per `OpenDuration` or reported success.
2. `WindowHolds`: `RateLimitedUntil` is documented as the earliest time a rate
   limit is cleared, and a 429 reported during an `IsHealthy` probe is wiped by
   the probe's verdict.  What holds is `OnlyOvertakenProbesCutWindow`.
3. `PinIsAvailable`: the promotion hold keeps a pin without looking at the pinned
   service's own breaker, against the first lines of the comment.
4. `SendIsRefused`: a message whose `Send` came after the agent's turn, but before
   its event was read, is not refused, against the comment of
   `beginUnsolicitedTurn` (`resident.go:84`).  The reader registers the agent's
   turn over the message's, which waits for its time limit.  What holds is
   `Attended`, with `overtaken` for this race and `early` for the one of `Await`.
5. `ClosedFirst`: a process that the pool's sweep has taken out and not closed
   yet is not waited for by a Handoff or an Archive, which find no session in the
   pool, against their comments (`service.go:620`, `service.go:727`).  The process
   may be in a turn by then, of the agent's own, or of a message that acquired it
   before the sweep: the pool does close a session with a turn in flight, against
   `pool.go:80`.  What holds is `ReleasedForGood`.

Five more statements of comments and documents are not what the code does; they
have no run of their own.

- The tier-routing document has any success reset the failure count
  (`tier-routing.md:83`); a buffered 200 ends the loop without `RecordSuccess`
  (`Gateway`, `JudgeFinal`).
- It has services of a disabled provider skipped (`tier-routing.md:243`); the
  pipeline refuses the request whose last stage picked one, although another
  service could serve it (`Gateway`, `FirstPick`).
- `Stop` of the task manager ends the scheduler's context, which the tasks that
  the scheduler dispatched inherit, although its comment says that running tasks
  are not interrupted.
- `runPersistentTurn` says that nothing was sent when it lets a process of its own
  run the turn (`turn.go:129`); the pool refuses a process after it was started
  with the prompt (`refused`, in `GivenOnce`).
- `turnTimeout` is said to bound one turn (`turn.go:13`); it does not bound a
  write to an agent that does not read (`AgentOwes`, in `BusyEnds`).

## The races the other properties name

The following are exceptions in a property and not runs of their own: no comment
or test speaks of them, but for the disagreements named above.

Task manager (`internal/task/manager.go`).

- `asleep = "dead"`: `onTaskFinished` drops the task it drew if that is no longer
  queued, and does not try the next one.  What is behind it waits until another
  task of the key ends.
- `asleep = "late"`: a dispatch found the key held, and by the time it enqueues
  the holder has released the key and found the queue empty.
- `torn`: the last step of a `Cancel` removes a task from the queue that was
  queued anew meanwhile; its status stays `queued`.
- `raced`: `Cancel` writes `cancelled` over the status of a task that has started
  or ended since it looked, and a dispatch or handler under way overwrites it.
- A task without a key that is retried before its goroutine has unregistered
  loses its cancel handle, so `CancelReaches` speaks of tasks with a key.

Instance lock (`internal/lock`).

- `lost`: `Unlock` releases the lock and then removes the file by its path, which
  by then may be the file of a new holder.  A third process makes a new file and
  locks that: two servers.  The same late removal, or the sweep of a stop, takes
  the port and version files of a new server.
- The moment in which `IsLocked` holds the lock makes a concurrent start fail.
- Between `flock` and the write of the PID the file names the previous holder.
- The child of a daemon may find its parent's lock and give up; that of
  `restart --daemon` may signal its own parent.
- A stop that had to kill reports success without waiting for the process to be
  gone.  While it lingers it has the lock and the port, so a start finds the
  server still running or the port taken; but it does nothing any more.

Desk (`internal/desk`, `agentboot`).

- `early`: `Open` submits the first prompt, and its result, or the end of the
  process, may be read before `Await` has registered the turn.  The message then
  waits for its time limit.
- `crossed`: a message is sent while the agent is in a turn of its own that the
  pump has not seen: one result is taken for the other.
- `overtaken`: the reader registers the agent's own turn over that of a message
  sent in between (violation 4).
- `refused`: the pool finds out that it is full after the process was started
  with the prompt; the turn is run again by another process.
- `swept`: the pool takes a session out under its lock and closes it outside, and
  a message may have acquired it meanwhile, or a Handoff or an Archive find
  nothing to wait for (violation 5).  The process may outlive their return, finish
  a turn and begin one of its own; `OneWriter`, `ReleasedForGood` and
  `AgentSession` do not speak of it until it has ended.
- `late`: a message or a turn of the agent claims the session after an Archive
  looked for a claim, or the Archive's wait ran out.
- A turn of the agent that began under a message's claim does not hold the
  session when that message ends, so a Handoff may end it; one that hangs holds
  the session, its time limit ending only its context.  `Busy` leaves out such
  turns.

## Proofs

Proved with TLAPS for every value of the constants that satisfies the named
assumptions: any thresholds and durations in ticks, any set of requests or
callers.

`BreakerProofs`, from `BreakerAssumption` (positive thresholds and open duration,
which the constructors enforce; a hold that may be zero): `TypeCorrect`,
`CountsAreTrue`, `NothingLeftOver`, `TripsOnStreak`, `RecoversOnStreak` and
`ImplementsCircuit`.  None of the invariants is inductive
alone.  `IInv` joins the type, the truth of the counters and the absence of
leftovers: the counters say that a closed breaker is below the threshold, since
one that a failure finds at it would have nothing to trip on, and the leftovers
are needed because a probe count surviving a trip would make the next recovery
shorter than its streak.  One lemma per action
carries `IInv` over a step; the action properties and the refinement are read
off the same case analysis (`AskCases`, `SucceedCases`, `FailCases`).

`HealthProofs`, from `HealthAssumption`: `TypeCorrect`, `VerdictHasReason` and
`OnlyOldProbesCutWindow`.  The inductive invariant adds to the second that, while
a window is open, every probe still running is overtaken: a probe cannot start
inside a window, and the report that opened it overtook those already running.

`GatewayProofs`, from `BreakerAssumption`, `SelectionAssumption` and
`GatewayAssumption`, for any services, tiers, sessions and number of concurrent
requests, any tactic: `TypeCorrect`, `ClientReadsOneAttempt`, `CommitIsFinal`,
`BlameIsExact`, `ExhaustedBeforeFailing`, `PinYields` and `ImplementsFailover`.
The invariant is one predicate per request, `Sound`: the gate holds the bytes of
the current attempt alone and nothing before the first one; an uncommitted gate
has sent nothing; a request still selecting is uncommitted and its candidates were
not tried; the charges are the services tried, but for the one still unjudged or
final. The properties alone are not inductive: that no second answer reaches the
client needs that a commit ends the loop and that a discard empties the buffer,
and that failing means exhausted needs that nothing tried is a candidate again.
Other requests disturb a request only through breakers, verdicts and pins, and
`Sound` mentions none of them: `StepInv` carries it over any step that moves one
request. `PinYields` needs the types alone: `OnlyAffinityUsesPin` singles out the
step, `EligibleInHold` reads the tiers. For the refinement there is one lemma per
step of `Failover` (`AskKept`, `TryKept`, `HearKept`, `FailKept`, `AnswerKept`,
`GiveUpKept` and so on), which says what the request of one handler has to show
before and after; `Sound` gives what it shows, and each action of `Gateway` is one
of those steps or one that no client sees.

`TaskProofs`, from `TaskAssumption`, for any tasks, keys, goroutines, crashes and
cancellations: `TypeCorrect`, `KeySerializes`, `CancelFindsTheRun` and
`QueueSleepsInTwoWays`.  `OneRunPerKey` is inductive only with the registry
(`Registered`): a goroutine between its dispatch and its `Unregister` is the one
the registry names, so a key whose lock is free has no holder.  `WellFormed` says
that goroutines and queues are about tasks of their key.

Its second half adds where a task can be: `QueuedTasksAreFound`,
`AttemptsAreBounded`, `FinalStatusStays` and `ImplementsJobs`. No task is in two
of the places queue, snapshot, dispatch and goroutine (`OnePlace`), its status
fits the place it is in unless a racing `Cancel` marked it (`StatusFits`), and so
does the attempt number the place carries (`AttemptsFit`). `DownIsEmpty` is what
makes `Start` safe. The refinement needs all of it: the place gives the status
from which a handler is entered, and that no goroutine works on the task already,
the attempt the place carries gives the bound, and the registry that the key is
free.

`InstanceProofs`, from `InstanceAssumption`, for any number of processes and
polls: `TypeCorrect`, `LockExcludes`, `ServersAreFound`, `StopsAreHonest`,
`PortsAreOwn` and `ImplementsSingle`. The invariant follows the file: who has it
open and did not lose it has the one the path names (`Named`), who is past `flock`
holds that inode (`Held`), and who is past the write is the PID in it (`Written`);
so two holders that lost nothing hold the same inode. A stop's honesty needs that
its polls ask for the lock of the inode of the very server it signalled (`Chase`),
that a killed process takes no step but its end, and that nobody is a server twice
(`Known`). The refinement uses the same facts step by step: `Named` and `Held`
give that nobody is known as the server when `flock` succeeds on the file that has
the name (`TakeKept`) and that a late `Unlink` hits every server known
(`UnlinkKept`), `Chase` and `Known` that the process a stop waited for was a
server and is none (`SweepKept`).

`DeskProofs`, from `DeskAssumption`, for any messages, processes and turns:
`TypeCorrect`, `SingleWriter`, `PromptOnce` and `Vacated`. The invariant relates
the three places that say who works on a session. Who works holds the claim
(`Claimed`); a process that lives is the pool's entry, or somebody has taken it
from the pool and waits for its end, and none lives once an Archive is over, those
set apart that nobody waits for (`Known`); the entry is none or the process the
holder drives (`Driven`), and none once the holder has evicted it (`Emptied`) or
an Archive nobody was late for has (`Alone`). `Given` counts the processes a
prompt was given to, by where the message is, and `Ended` says that a process that
has ended does nothing and has been read. `Vacated` and `SingleWriter` rest on
`Known`: while a living process is being closed the one who waits for it holds the
session or is the Archive, so no other is opened. A step of the holder
(`HolderStep`), its last step (`ReleaseStep`), a step of Archive or Handoff
(`CallerStep`) and a step of anybody else (`OthersStep`) each keep `Control` by
one lemma, so that each action's proof only says which of the four it is.

`DeskFlowProofs`, from the same assumption: `WaitersAttended` and `OwnResult`.  To
the invariant above, which says who works on a session, `Flow` adds `Talk`: what
is on its way through a process, in the order in which it must arrive.  It follows
the four queues a prompt and its result pass.

- What the agent writes alternates: the start of a turn, its result, the next
  start (`Spoken`).  The events of a session bracket its turns, but the first,
  whose start is no event (`Bracketed`, `Ordered`).
- `Expects` names the message that the Conductor's next result must be for: the
  one that opened the process, until a result is read, and afterwards the one
  registered.  `Routed` says that this message's turn is the next to end, be it
  still in stdin, being worked on, in stdout or among the events (`OnItsWay`),
  and `Adopted` that no start of a turn of the agent's own is read before.
- A message that registered over a turn of the agent's own is told no result
  while the start of that turn is unread (`Outrun`), and one that does not wait
  has none (`Untold`).

`Attended` and `ResultIsOwn` need the whole of it: the outcome a message gets is
decided when its prompt enters stdin, three goroutines earlier.  The proof has
one lemma on what a step may do to the record of a process (`Carries`), and one
for each kind of step (`TalkKept`, `Rests`, `Asks`, `OtherFlow`); each action
shows which kind it is.

`ImplementsSession`, in the same module, is the refinement: every step of `Desk`
is one step of `AgentSession` or none.  One lemma per abstract step
(`StopKept`, `ConfuseKept`, `ClaimKept`, `OccupyKept`, `StartKept`, `AnswerKept`,
`ReleaseKept`, `SealKept`) says what a step has to do to the mapped state, and
each action of `Desk` is shown to be one of them.  The claim and the pool
(`IInv`) give that nobody works when a process is opened or a one-shot turn
begins, and `Flow` after the step gives that an answer is the holder's own.

Model-checked only: liveness (`Recovers`, `NoBanishment`, `RequestsEnd`,
`DueIsRun`, `SignalledEnds`, `BusyEnds`), which the prover does not reach, since
it depends on fairness and on `ENABLED`.

## What the models leave out

- The choice of a service inside a bucket (random, token, latency and speed
  tactics) is nondeterministic.
- Smart routing, inactive services, providers deleted while a rule names them,
  and the preview of a selection, which changes nothing.  Whether a provider is
  enabled is fixed for a run.
- Rules with one service, which bypass gate and breakers.
- In `Gateway`, the health record is the verdict alone, and the TTL of a pin may
  pass at any time; both allow more behaviours than the code.
- The gate's headers travel with its body.  A client that disconnects is an
  attempt that returns early.
- The store of tasks does not fail: its only implementation is in memory.  A
  handler's panic ends the process, which is `Crash`.  A `Start` after a `Stop`
  within one process, and the reads `Wait`, `Get` and `List`, are left out.
- File operations and hooks of the instance lock do not fail, PIDs are not reused;
  the Windows lock, the desktop launcher, and a restart's choice of port (any
  port here) are left out.
- Of the desk, the stored status but for `archived`, projects, transcripts,
  approvals, background-task bookkeeping and the shutdown of the service; of the
  pool, the sessions of other keys, which appear as its fullness and as
  reclaims; of `agentboot`, the lengths of its time limits.  A process the pool
  refuses is closed at once and is not among the processes.
- Approvals and other control messages to the agent, but for the interrupt, are
  not written to stdin.  The interrupt that `cancelRun` writes for a turn of the
  agent's own (`service.go:700`) is taken to fit the pipe.
- `ReadStart` is one step: the hook of the reader claims the session in
  `Service.runs`, and then the Conductor registers the turn under its own mutex.

## Next

1. Other components with shared state, if what they race with is modelled too:
   the token refresher with the providers of the configuration, the config
   watcher with what it reloads, interactions with the chats that answer them.
