-------------------------------- MODULE Desk --------------------------------
(***************************************************************************)
(* One Desk session (src/internal/desk) and the agent processes that run   *)
(* it: the claim of a turn, the pool that keeps a process between turns    *)
(* (src/agentboot/pool), its PersistentSession and the Conductor that      *)
(* reads it (src/agentboot).                                               *)
(*                                                                         *)
(* A message passes a process over four hands: the agent takes it from     *)
(* stdin and writes the start and the result of its turn to stdout, the    *)
(* pump turns them into events, the Conductor gives the events to the turn *)
(* it has registered, and the message's goroutine waits for that.  The     *)
(* agent also starts turns by itself, when a background task ends.         *)
(*                                                                         *)
(* Output, approvals and the stored status are left out, but for archived; *)
(* so are the sessions of the other keys of the pool: they make it full,   *)
(* and they reclaim an idle process of this one.                           *)
(***************************************************************************)
EXTENDS Naturals, Sequences, FiniteSets

CONSTANTS
    Sent,      \* the messages sent to the session, in the order they come
    NProcs,    \* bound: processes opened for the pool
    MaxOwn,    \* bound: turns that the agent starts by itself
    MaxCalls   \* bound: messages accepted, Archive and Handoff together

Procs == 1..NProcs
Elements(s) == {s[i] : i \in DOMAIN s}
Messages == Elements(Sent)
Callers == Messages \cup {"archive", "handoff"}
Turns == Messages \cup {"own"}  \* whose turn it is: a message's, or the agent's own

ASSUME DeskAssumption ==
    /\ {NProcs, MaxOwn, MaxCalls} \subseteq Nat /\ Sent \in Seq(Messages)
    /\ Messages \cap {"none", "own", "error", "start", "end", "archive", "handoff"} = {}

VARIABLES
    proc,      \* the processes, with their PersistentSession and Conductor
    entry,     \* the process the pool has for the session, or 0
    resident,  \* the process of Service.residents, or 0
    runs,      \* who holds the session in Service.runs, or "none"
    doomed,    \* processes removed from the pool whose Close is being called
    call,      \* SendMessage, Archive and Handoff
    own,       \* turns the agent started by itself
    raced,     \* history: the known races that happened, and to whom
    late       \* history: somebody holds or held the session unknown to Archive

vars == <<proc, entry, resident, runs, doomed, call, own, raced, late>>

ProcRecord ==
    [state : {"none", "running", "idle", "closing", "terminated"},
     alive : BOOLEAN,
     fresh : BOOLEAN,                     \* no turn has ended yet
     inbox : Seq(Messages),               \* stdin
     writing : BOOLEAN,                   \* the encoder is at the last of inbox: the pipe is full
     doing : Turns \cup {"none"},         \* the turn the agent is in
     wire : Seq(Turns \cup {"start"}),    \* stdout: a turn's start, or its result
     events : Seq(Turns \cup {"start", "end"}),
     conducted : BOOLEAN,                 \* a Conductor reads the events
     heard : BOOLEAN,                     \* ... and has read a result or the end
     turn : Turns \cup {"none"},          \* the turn the Conductor has registered
     swept : BOOLEAN]                     \* history: the pool reclaimed it

Pcs == {"idle", "checked", "acquire", "evict", "evicted", "open", "conduct", "await", "run",
        "send", "wait", "interrupt", "grace", "close", "settle", "oneshot", "gone"}

CallRecord ==
    [pc : Pcs, hand : Procs \cup {0}, outcome : Turns \cup {"none", "error"},
     given : 0..2]                        \* processes that were given the prompt

Races == {"crossed", "early", "overtaken", "refused"}

\* The end of a process is the last event of its session, and comes once.
TypeOK ==
    /\ proc \in [Procs -> ProcRecord]
    /\ \A p \in Procs : \A i \in DOMAIN proc[p].events :
          proc[p].events[i] = "end" => i = Len(proc[p].events) /\ proc[p].state = "terminated"
    /\ entry \in Procs \cup {0} /\ resident \in Procs \cup {0}
    /\ runs \in Turns \cup {"handoff", "none"}
    /\ doomed \subseteq Procs
    /\ call \in [Callers -> CallRecord]
    /\ own \in 0..MaxOwn
    /\ raced \subseteq Races \X Messages
    /\ late \in BOOLEAN

NoProcess ==
    [state |-> "none", alive |-> FALSE, fresh |-> TRUE, inbox |-> <<>>, writing |-> FALSE,
     doing |-> "none", wire |-> <<>>, events |-> <<>>, conducted |-> FALSE, heard |-> FALSE,
     turn |-> "none", swept |-> FALSE]

Fresh(pc) == [pc |-> pc, hand |-> 0, outcome |-> "none", given |-> 0]

Init ==
    /\ proc = [p \in Procs |-> NoProcess]
    /\ entry = 0 /\ resident = 0 /\ runs = "none" /\ doomed = {}
    /\ call = [c \in Callers |-> Fresh("idle")]
    /\ own = 0 /\ raced = {} /\ late = FALSE

Become(p, r) == proc' = [proc EXCEPT ![p] = r]
-----------------------------------------------------------------------------
(* The agent, an external program. *)

\* It has read so much of stdin that the pipe takes the rest of the prompt.
Read(p) ==
    /\ proc[p].alive /\ proc[p].writing
    /\ Become(p, [proc[p] EXCEPT !.writing = FALSE])
    /\ UNCHANGED <<entry, resident, runs, doomed, call, own, raced, late>>

Begin(p) ==
    /\ proc[p].alive /\ proc[p].doing = "none" /\ proc[p].inbox # <<>>
    /\ proc[p].writing => Len(proc[p].inbox) > 1
    /\ Become(p, [proc[p] EXCEPT !.doing = Head(proc[p].inbox), !.inbox = Tail(@),
                                 !.wire = Append(@, "start")])
    /\ UNCHANGED <<entry, resident, runs, doomed, call, own, raced, late>>

\* A background task of an earlier turn has ended.
BeginOwn(p) ==
    /\ proc[p].alive /\ proc[p].doing = "none" /\ ~proc[p].fresh
    /\ own < MaxOwn /\ own' = own + 1
    /\ Become(p, [proc[p] EXCEPT !.doing = "own", !.wire = Append(@, "start")])
    /\ raced' = raced \cup ({"crossed"} \X Elements(proc[p].inbox))
    /\ UNCHANGED <<entry, resident, runs, doomed, call, late>>

Finish(p) ==
    /\ proc[p].doing # "none"
    /\ Become(p, [proc[p] EXCEPT !.doing = "none", !.fresh = FALSE,
                                 !.wire = Append(@, proc[p].doing)])
    /\ UNCHANGED <<entry, resident, runs, doomed, call, own, raced, late>>

\* It exits by itself, or because it is closed: then stdin ends, and it is
\* killed after the shutdownGracePeriod.
Die(p) ==
    /\ proc[p].alive
    /\ Become(p, [proc[p] EXCEPT !.alive = FALSE, !.doing = "none", !.inbox = <<>>,
                                 !.fresh = FALSE])
    /\ UNCHANGED <<entry, resident, runs, doomed, call, own, raced, late>>
-----------------------------------------------------------------------------
(* PersistentSession: the pump, and Close. *)

\* Faulty variant of Unsolicited: every start of a turn is taken for the agent's.
UnsolicitedAlways(p) == Head(proc[p].wire) = "start"

\* A turn that opens while the session is idle was not sent by anybody.
Unsolicited(p) == Head(proc[p].wire) = "start" /\ proc[p].state = "idle"

PumpStart(p) ==
    /\ proc[p].wire # <<>> /\ Head(proc[p].wire) = "start"
    /\ Become(p, IF Unsolicited(p)
                 THEN [proc[p] EXCEPT !.wire = Tail(@), !.state = "running",
                                      !.events = Append(@, "start")]
                 ELSE [proc[p] EXCEPT !.wire = Tail(@)])
    /\ UNCHANGED <<entry, resident, runs, doomed, call, own, raced, late>>

\* completeTurn.
PumpResult(p) ==
    /\ proc[p].wire # <<>> /\ Head(proc[p].wire) # "start"
    /\ Become(p, [proc[p] EXCEPT !.wire = Tail(@), !.events = Append(@, Head(proc[p].wire)),
                                 !.state = IF @ = "running" THEN "idle" ELSE @])
    /\ UNCHANGED <<entry, resident, runs, doomed, call, own, raced, late>>

\* Faulty variant of Terminate: it is not done once.
TerminateAgain(p) ==
    /\ proc[p].state # "none" /\ ~proc[p].alive /\ proc[p].wire = <<>>
    /\ Become(p, [proc[p] EXCEPT !.state = "terminated", !.events = Append(@, "end")])
    /\ UNCHANGED <<entry, resident, runs, doomed, call, own, raced, late>>

\* The process is gone and its output read.
Terminate(p) ==
    /\ proc[p].state \notin {"none", "terminated"} /\ ~proc[p].alive /\ proc[p].wire = <<>>
    /\ Become(p, [proc[p] EXCEPT !.state = "terminated", !.swept = FALSE,
                                 !.events = Append(@, "end")])
    /\ UNCHANGED <<entry, resident, runs, doomed, call, own, raced, late>>

Closed(r) == [r EXCEPT !.state = IF @ = "terminated" THEN @ ELSE "closing"]

\* Close of a process that was removed from the pool.
Close(p) ==
    /\ p \in doomed /\ doomed' = doomed \ {p}
    /\ Become(p, Closed(proc[p]))
    /\ UNCHANGED <<entry, resident, runs, call, own, raced, late>>
-----------------------------------------------------------------------------
(* The pool. *)

\* The pool has no session, or one whose process has ended.
Vacant == \A p \in Procs : entry = p => proc[p].state = "terminated"

\* Remove the session's process from the pool, to close it.
Evict ==
    /\ entry' = 0
    /\ doomed' = IF entry = 0 THEN doomed ELSE doomed \cup {entry}

\* The idle sweep, or an Open of another key that needs room.
Reclaim(p) ==
    /\ entry = p /\ proc[p].state = "idle"
    /\ entry' = 0 /\ doomed' = doomed \cup {p}
    /\ Become(p, [proc[p] EXCEPT !.swept = TRUE])
    /\ UNCHANGED <<resident, runs, call, own, raced, late>>
-----------------------------------------------------------------------------
(* The claim of the session, and its end. *)

\* The holder's done channel is closed: it wakes the Archive that waits.
Woken(f) == [f EXCEPT !["archive"].pc = IF @ = "wait" THEN "evict" ELSE @]

Release(c) ==
    /\ runs' = "none"
    /\ call' = Woken([call EXCEPT ![c] = Fresh("gone")])
    /\ raced' = raced \ ({"crossed", "early", "overtaken", "refused"} \X {c})

Goto(c, pc) == call' = [call EXCEPT ![c].pc = pc]

Called == {c \in Callers : call[c].pc \notin {"idle", "checked"}}
MayCall == Cardinality(Called) < MaxCalls

\* canSteer, and startTurn.  From its eviction on, Archive does not see who
\* claims the session; once it has closed it, only a message that canSteer had
\* let through before comes.  The user may send a refused message again.
StartTurn(m) ==
    /\ call[m].pc = "checked" \/ (call[m].pc = "idle" /\ call["archive"].pc # "gone")
    /\ MayCall /\ \A i, j \in DOMAIN Sent : (i < j /\ Sent[j] = m) => Sent[i] \in Called
    /\ runs = "none" /\ runs' = m
    /\ Goto(m, "acquire")
    /\ late' = (late \/ call["archive"].pc \in {"evict", "evicted", "gone"})
    /\ UNCHANGED <<proc, entry, resident, doomed, own, raced>>
-----------------------------------------------------------------------------
(* runPersistentTurn. *)

\* The process of the pool, if it lives, is conducted and has the settings
\* of this turn; one that is not is evicted.
Acquire(m) ==
    /\ call[m].pc = "acquire"
    /\ IF Vacant
       THEN entry' = 0 /\ Goto(m, "open") /\ UNCHANGED doomed
       ELSE \/ /\ resident = entry
               /\ call' = [call EXCEPT ![m].pc = "run", ![m].hand = entry]
               /\ UNCHANGED <<entry, doomed>>
            \/ /\ call' = [call EXCEPT ![m].pc = "evicted", ![m].hand = entry]
               /\ Evict
    /\ UNCHANGED <<proc, resident, runs, own, raced, late>>

\* Sessions.Close; canSteer may have let messages through that have not claimed.
ArchiveEnds ==
    \E checked \in SUBSET {m \in Messages : call[m].pc = "idle"} :
        call' = [c \in Callers |-> CASE c \in checked -> Fresh("checked")
                                     [] c = "archive" -> Fresh("gone")
                                     [] OTHER -> call[c]]

\* Nothing is left of the process that c closes.
Closes(c) == call[c].hand \notin doomed /\ \A p \in Procs : call[c].hand = p => ~proc[p].alive

\* Faulty variant of Evicted: the end of the process is not waited for.
EvictedAtOnce(c) ==
    /\ call[c].pc = "evicted"
    /\ CASE c = "handoff" -> Release(c)
         [] c = "archive" -> ArchiveEnds /\ UNCHANGED <<runs, raced>>
         [] OTHER -> Goto(c, "open") /\ UNCHANGED <<runs, raced>>
    /\ UNCHANGED <<proc, entry, resident, doomed, own, late>>

\* CloseAndRemove returns: the process is killed before its time limit.
Evicted(c) ==
    /\ call[c].pc = "evicted" /\ Closes(c)
    /\ CASE c = "handoff" -> Release(c)
         [] c = "archive" -> ArchiveEnds /\ UNCHANGED <<runs, raced>>
         [] OTHER -> Goto(c, "open") /\ UNCHANGED <<runs, raced>>
    /\ UNCHANGED <<proc, entry, resident, doomed, own, late>>

OneShot(m, given) ==
    call' = [call EXCEPT ![m].pc = "oneshot", ![m].hand = 0, ![m].given = @ + given]

\* Runner.Open starts a process with the prompt as its first turn.
Opened(m, p) ==
    /\ proc[p].state = "none" /\ \A q \in Procs : q < p => proc[q].state # "none"
    /\ Vacant /\ entry' = p
    /\ Become(p, [NoProcess EXCEPT !.state = "running", !.alive = TRUE, !.inbox = <<m>>,
                                   !.writing = TRUE])
    /\ call' = [call EXCEPT ![m].pc = "conduct", ![m].hand = p, ![m].given = @ + 1]
    /\ UNCHANGED raced

\* It fails, and a process of another kind runs the turn.  So it does if the
\* pool refuses the new process, but that one had the prompt too, until it is
\* closed; nobody reads it, and it is not in proc.
NotOpened(m) ==
    /\ \/ OneShot(m, 1) /\ UNCHANGED raced
       \/ OneShot(m, 2) /\ raced' = raced \cup {<<"refused", m>>}
    /\ UNCHANGED <<proc, entry>>

Open(m) ==
    /\ call[m].pc = "open"
    /\ (\E p \in Procs : Opened(m, p)) \/ NotOpened(m)
    /\ UNCHANGED <<resident, runs, doomed, own, late>>

\* newResident.
Conduct(m) ==
    /\ call[m].pc = "conduct"
    /\ resident' = call[m].hand
    /\ Become(call[m].hand, [proc[call[m].hand] EXCEPT !.conducted = TRUE])
    /\ Goto(m, "await")
    /\ UNCHANGED <<entry, runs, doomed, own, raced, late>>

\* Faulty variant of Failed: every error is taken for ErrSessionClosed.
FailedAnew(m) == OneShot(m, 1)

Failed(m) == call' = [call EXCEPT ![m].pc = "settle", ![m].outcome = "error"]

\* Conductor.Await, for the turn that Open has submitted.
Await(m) ==
    /\ call[m].pc = "await"
    /\ LET p == call[m].hand IN
       \/ /\ proc[p].turn = "none"
          /\ Become(p, [proc[p] EXCEPT !.turn = m])
          /\ raced' = IF proc[p].heard THEN raced \cup {<<"early", m>>} ELSE raced
          /\ Goto(m, "wait")
       \/ /\ proc[p].turn # "none"
          /\ Failed(m) /\ UNCHANGED <<proc, raced>>
    /\ UNCHANGED <<entry, resident, runs, doomed, own, late>>

AtRest(p) == proc[p].inbox = <<>> /\ proc[p].doing = "none" /\ proc[p].wire = <<>>

\* Send meets a turn of the agent's own that the pump has not seen, or
\* registers a turn before the Conductor has read that the agent started one.
SendRaces(m, p) ==
    {r \in {"crossed", "overtaken"} \X {m} :
        \/ r[1] = "crossed" /\ ~AtRest(p)
        \/ r[1] = "overtaken" /\ "start" \in Elements(proc[p].events)}

\* Faulty variant of MayRun: a turn in flight is not looked for.
MayRunAlways(p) == TRUE

MayRun(p) == proc[p].turn = "none"

\* The write fails because the process is gone: the session stays running
\* until the pump finds out.
SendFails(m, p) ==
    /\ ~proc[p].alive
    /\ Become(p, [proc[p] EXCEPT !.state = "running"])
    /\ Failed(m)

\* Conductor.RunTurn, which holds Conductor.mu until Send has returned.
RunTurn(m) ==
    /\ call[m].pc = "run"
    /\ LET p == call[m].hand IN
       \/ /\ MayRun(p) /\ proc[p].state = "idle"
          /\ \/ /\ proc[p].alive
                /\ Become(p, [proc[p] EXCEPT !.state = "running", !.turn = m,
                                             !.inbox = Append(@, m), !.writing = TRUE])
                /\ call' = [call EXCEPT ![m].pc = "send", ![m].given = @ + 1]
                /\ raced' = raced \cup SendRaces(m, p)
             \/ SendFails(m, p) /\ UNCHANGED raced
          /\ UNCHANGED <<entry, runs>>
       \/ /\ ~MayRun(p) \/ proc[p].state = "running"
          /\ Release(m) /\ UNCHANGED <<proc, entry>>
       \/ /\ MayRun(p) /\ proc[p].state \in {"closing", "terminated"}
          /\ entry' = 0
          /\ OneShot(m, 1) /\ UNCHANGED <<proc, runs, raced>>
    /\ UNCHANGED <<resident, doomed, own, late>>

\* The pipe has taken the prompt.  No timer and no stop ends the wait for it.
PromptSent(m) ==
    /\ call[m].pc = "send" /\ ~proc[call[m].hand].writing
    /\ Goto(m, "wait")
    /\ UNCHANGED <<proc, entry, resident, runs, doomed, own, raced, late>>

Unsent(r) == [r EXCEPT !.turn = "none", !.writing = FALSE,
                       !.inbox = IF r.alive THEN SubSeq(@, 1, Len(@) - 1) ELSE @]

\* The process is gone, or the session was closed before the write began.
SendBreaks(m) ==
    /\ call[m].pc = "send"
    /\ LET p == call[m].hand IN
       /\ proc[p].writing /\ (~proc[p].alive \/ proc[p].state = "closing")
       /\ Become(p, Unsent(proc[p]))
       /\ Failed(m)
    /\ UNCHANGED <<entry, resident, runs, doomed, own, raced, late>>
-----------------------------------------------------------------------------
(* Conductor.wait. *)

\* No interrupt, or none that ends the turn: the session is closed.
GiveUp(m) ==
    /\ Become(call[m].hand, Closed(proc[call[m].hand]))
    /\ Goto(m, "close")
    /\ UNCHANGED <<entry, resident, runs, doomed, own, raced, late>>

\* turnTimeout, a stop by the user, or an Archive.  An idle session has
\* nothing to interrupt.
ContextDone(m) ==
    /\ call[m].pc = "wait"
    /\ LET s == proc[call[m].hand].state IN
       IF s \in {"idle", "running"}
       THEN /\ Goto(m, IF s = "idle" THEN "grace" ELSE "interrupt")
            /\ UNCHANGED <<proc, entry, resident, runs, doomed, own, raced, late>>
       ELSE GiveUp(m)

\* The interrupt is written to stdin, when no prompt is any more.
Interrupted(m) ==
    /\ call[m].pc = "interrupt" /\ proc[call[m].hand].alive /\ ~proc[call[m].hand].writing
    /\ Goto(m, "grace")
    /\ UNCHANGED <<proc, entry, resident, runs, doomed, own, raced, late>>

InterruptFails(m) ==
    /\ call[m].pc = "interrupt"
    /\ LET r == proc[call[m].hand] IN ~r.alive \/ (r.state = "closing" /\ ~r.writing)
    /\ GiveUp(m)

\* Faulty variant of GraceOver: it waits for the interrupted turn's result.
GraceNeverOver(m) ==
    call[m].pc = "grace" /\ call[m].outcome # "none" /\ GiveUp(m)

\* The interrupted turn has not ended within SessionCloseTimeout.
GraceOver(m) == call[m].pc = "grace" /\ GiveUp(m)

\* Faulty variant of CloseOver: the end of the process is not waited for.
CloseOverAtOnce(m) ==
    /\ call[m].pc = "close" /\ Failed(m)
    /\ UNCHANGED <<proc, entry, resident, runs, doomed, own, raced, late>>

\* Close returns: the process was killed before the time limit.
CloseOver(m) ==
    /\ call[m].pc = "close" /\ ~proc[call[m].hand].alive
    /\ Failed(m)
    /\ UNCHANGED <<proc, entry, resident, runs, doomed, own, raced, late>>

\* There is an outcome, of the turn or of the wait for it.
Settle(m) ==
    /\ call[m].pc = "settle" \/ (call[m].pc \in {"wait", "grace"} /\ call[m].outcome # "none")
    /\ entry' = IF /\ call[m].outcome = "error" \/ call[m].pc = "grace"
                   /\ proc[call[m].hand].state = "terminated"
                THEN 0 ELSE entry
    /\ Release(m)
    /\ UNCHANGED <<proc, resident, doomed, own, late>>

\* AgentService.Run: a process of its own, for this turn.
OneShotEnds(m) ==
    /\ call[m].pc = "oneshot" /\ Release(m)
    /\ UNCHANGED <<proc, entry, resident, doomed, own, late>>
-----------------------------------------------------------------------------
(* Conductor.read. *)

\* Every event of a turn takes Conductor.mu.
Reads(p, e) ==
    /\ proc[p].conducted /\ proc[p].events # <<>> /\ Head(proc[p].events) = e
    /\ \A m \in Messages : call[m].pc = "send" => call[m].hand # p

\* Faulty variant of ReadStart: the agent's turn takes the session from a message.
ReadStartSeizes(p) ==
    /\ Reads(p, "start")
    /\ Become(p, [proc[p] EXCEPT !.events = Tail(@), !.turn = "own"])
    /\ runs' = "own"
    /\ UNCHANGED <<entry, resident, doomed, call, own, raced, late>>

\* beginUnsolicitedTurn: the agent's turn claims the session, unless a message has.
ReadStart(p) ==
    /\ Reads(p, "start")
    /\ Become(p, [proc[p] EXCEPT !.events = Tail(@), !.turn = "own"])
    /\ runs' = IF runs = "none" THEN "own" ELSE runs
    /\ UNCHANGED <<entry, resident, doomed, call, own, raced, late>>

\* The turn in flight gets x: a result, or the error that the process ended.
Finished(p, x) ==
    LET t == proc[p].turn IN
    /\ Become(p, [proc[p] EXCEPT !.events = Tail(@), !.turn = "none", !.heard = TRUE])
    /\ runs' = IF t = "own" /\ runs = "own" THEN "none" ELSE runs
    /\ call' = CASE t = "own" /\ runs = "own" -> Woken(call)
                 [] t \in Messages /\ call[t].pc \in {"wait", "interrupt", "grace"} /\ call[t].hand = p ->
                       [call EXCEPT ![t].outcome = x]
                 [] OTHER -> call

ReadResult(p) ==
    /\ \E x \in Turns : Reads(p, x) /\ Finished(p, x)
    /\ UNCHANGED <<entry, resident, doomed, own, raced, late>>

\* OnTerminated.
ReadEnd(p) ==
    /\ Reads(p, "end") /\ Finished(p, "error")
    /\ resident' = IF resident = p THEN 0 ELSE resident
    /\ UNCHANGED <<entry, doomed, own, raced, late>>
-----------------------------------------------------------------------------
(* Handoff and Archive. *)

\* Archive does not see it either, once it has begun to evict.
Handoff ==
    /\ call["handoff"].pc = "idle" /\ MayCall /\ runs = "none" /\ runs' = "handoff"
    /\ Goto("handoff", "evict")
    /\ late' = (late \/ call["archive"].pc \in {"evict", "evicted"})
    /\ UNCHANGED <<proc, entry, resident, doomed, own, raced>>

\* evictPersistent.
EvictPersistent(c) ==
    /\ call[c].pc = "evict" /\ Evict
    /\ call' = [call EXCEPT ![c].pc = "evicted", ![c].hand = entry]
    /\ UNCHANGED <<proc, resident, runs, own, raced, late>>

\* cancelRun; what it writes to interrupt a turn of the agent's own fits the pipe.
Archive ==
    /\ call["archive"].pc = "idle" /\ MayCall
    /\ Goto("archive", IF runs = "none" THEN "evict" ELSE "wait")
    /\ UNCHANGED <<proc, entry, resident, runs, doomed, own, raced, late>>

\* archiveWaitTimeout.
OutOfPatience ==
    /\ call["archive"].pc = "wait" /\ Goto("archive", "evict")
    /\ late' = TRUE
    /\ UNCHANGED <<proc, entry, resident, runs, doomed, own, raced>>
-----------------------------------------------------------------------------
Agent(p) == Read(p) \/ Begin(p) \/ BeginOwn(p) \/ Finish(p) \/ Die(p)

Session(p) == PumpStart(p) \/ PumpResult(p) \/ Terminate(p)

Conductor(p) == ReadStart(p) \/ ReadResult(p) \/ ReadEnd(p)

Turn(m) ==
    \/ Acquire(m) \/ Evicted(m) \/ Open(m) \/ Conduct(m) \/ Await(m)
    \/ RunTurn(m) \/ PromptSent(m) \/ SendBreaks(m)
    \/ ContextDone(m) \/ InterruptFails(m) \/ GraceOver(m) \/ CloseOver(m)
    \/ Settle(m) \/ OneShotEnds(m)

Archiving == OutOfPatience \/ EvictPersistent("archive") \/ Evicted("archive")

HandingOff == EvictPersistent("handoff") \/ Evicted("handoff")

Next ==
    \/ \E p \in Procs : Agent(p) \/ Session(p) \/ Conductor(p) \/ Close(p) \/ Reclaim(p)
    \/ \E m \in Messages : StartTurn(m) \/ Turn(m) \/ Interrupted(m)
    \/ Archive \/ Archiving \/ Handoff \/ HandingOff

Killed(p) == proc[p].state = "closing" /\ Die(p)

\* Goroutines go on, their timers expire, and what is closed is killed; the
\* agent owes nothing, not even to read stdin.
Fairness ==
    /\ WF_vars(\E m \in Messages : Turn(m)) /\ WF_vars(\E p \in Procs : Close(p))
    /\ WF_vars(\E p \in Procs : Killed(p))
    /\ WF_vars(Archiving) /\ WF_vars(HandingOff)

Spec == Init /\ [][Next]_vars /\ Fairness
-----------------------------------------------------------------------------
(* What Desk promises of a session. *)

\* A process whose end nobody who uses the session waits for: the pool has
\* reclaimed it, or an Archive is closing it that others do not wait for.
Cast(p) == proc[p].swept \/ (late /\ call["archive"].hand = p)

\* Who may write the session's file: a process that lives, closed or not.
Writers == {p \in Procs : proc[p].alive /\ ~Cast(p)} \cup {m \in Messages : call[m].pc = "oneshot"}

\* Never do two processes work on the session, but one that the pool has
\* reclaimed, or an Archive that others overlapped with has, and that still lives.
OneWriter == Cardinality(Writers) <= 1

Raced(race, c) == <<race, c>> \in raced

\* A message that waits for its turn is the turn its Conductor has registered,
\* or has its outcome, or came too early for it or overtook a turn of the agent's.
Attended ==
    \A m \in Messages : call[m].pc \in {"wait", "interrupt", "grace"} =>
        \/ proc[call[m].hand].turn = m \/ call[m].outcome # "none"
        \/ Raced("early", m) \/ Raced("overtaken", m)

\* What a message is told is the result of its own turn, or an error.
ResultIsOwn ==
    \A m \in Messages : call[m].outcome \in {"none", "error", m} \/ Raced("crossed", m) \/ Raced("early", m)

\* A prompt is given to one process, but that of a message the pool refused
\* is run again.
GivenOnce == \A m \in Messages : call[m].given <= 1 \/ Raced("refused", m)

\* Handoff returns the command, and Archive has put the session away.
Returns == call["handoff"].pc = "evicted" /\ call'["handoff"].pc # "evicted"
Sealed == call["archive"].pc = "gone" /\ ~late

\* When Handoff returns, and from the end of an Archive on, every process of the
\* session has ended, but one that the pool reclaimed or another call is closing.
ReleasedForGood == [][Returns \/ Sealed' => Writers' = {}]_vars

\* As the comments of Handoff and Archive have it: there is no process left.
ClosedFirst == [][Returns \/ Sealed' => \A p \in Procs : ~proc'[p].alive]_vars

\* As the comment of beginUnsolicitedTurn has it: when the agent's turn came first
\* the Send of the message is refused, so its turn is not the one that waits.
SendIsRefused ==
    [][\A m \in Messages :
          call[m].pc = "wait" /\ proc[call[m].hand].turn = m /\ ~Raced("early", m) =>
              proc'[call[m].hand].turn # "own"]_vars

Answers == [m \in Messages |-> call[m].outcome]
Confused == {m \in Messages : Raced("crossed", m) \/ Raced("early", m)}

\* Claim, pool, queues and goroutines together keep the promise of AgentSession:
\* whoever interferes, work begins for the message that holds the session and
\* beside nobody's, the holder alone is answered, and of its own request, and
\* after an Archive nothing works until a message claims the session again.
Promise ==
    INSTANCE AgentSession WITH
        Users <- Messages, Others <- {"own", "handoff"}, Workers <- Procs \cup Messages,
        holder <- runs, workers <- Writers, answer <- Answers, confused <- Confused,
        sealed <- Sealed

KeepsSession == Promise!Spec

\* An Archive or a Handoff is under way, or a message holds the session.
UnderWay == \E c \in {"archive", "handoff"} : call[c].pc \notin {"idle", "gone"}
Busy == UnderWay \/ runs \in Messages

\* Only the message is left, and it waits for a process that nobody closes to
\* read its stdin.
AgentOwes ==
    /\ ~UnderWay
    /\ \E m \in Messages :
          LET r == proc[call[m].hand] IN
          /\ call[m].pc = "interrupt" \/ (call[m].pc = "send" /\ r.writing)
          /\ r.alive /\ r.state # "closing"

\* Archive and Handoff end whatever the agent does.  So does the hold of a message,
\* but while the agent does not read its stdin: no time limit ends a blocked write.
BusyEnds == Busy ~> (~Busy \/ AgentOwes)
=============================================================================
