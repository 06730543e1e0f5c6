----------------------------- MODULE DeskProofs -----------------------------
(***************************************************************************)
(* Proofs about Desk, for any messages, processes, turns and calls.        *)
(***************************************************************************)
EXTENDS Desk, FiniteSetTheorems, SequenceTheorems, TLAPS

\* Where a message has no process yet; where the pool has none, and where it
\* works with the process it has in hand.
Starting == {"acquire", "evicted", "open"}
Without == {"evicted", "open", "oneshot"}
Driving == {"conduct", "await", "run", "send", "wait", "interrupt", "grace", "close", "settle"}
Holding == Starting \cup Driving \cup {"oneshot"}
Ending == {"evict", "evicted", "gone"}

\* The end of a process is its last event, and then it does nothing more and
\* its output has been read.
EndIsLast(r) == \A i \in DOMAIN r.events :
    r.events[i] = "end" => i = Len(r.events) /\ r.state = "terminated"
Over(r) ==
    /\ r.state \in {"none", "terminated"} => ~r.alive /\ r.wire = <<>>
    /\ ~r.alive => r.doing = "none"
Ended == \A p \in Procs : Over(proc[p])

Placed ==
    /\ \A m \in Messages : call[m].pc \in Holding \cup {"idle", "checked", "gone"}
    /\ call["handoff"].pc \in {"idle"} \cup Ending
    /\ call["archive"].pc \in {"idle", "wait"} \cup Ending
    /\ call["archive"].pc # "evicted" => call["archive"].hand = 0

\* Who works on the session has claimed it.
Claimed ==
    /\ \A m \in Messages : call[m].pc \in Holding => runs = m
    /\ call["handoff"].pc \in {"evict", "evicted"} => runs = "handoff"

\* A process that works or may begin to, and a caller that waits for its end.
Lives(p) == proc[p].alive /\ ~Cast(p)
Leaving(p, S) == \E c \in Callers : call[c].pc \in S /\ call[c].hand = p

\* The pool knows every process that lives, but one that somebody has taken from
\* it and waits for; whoever closes one waits for it; none is closed before it is
\* opened; and after the end of an Archive none lives, ...
Found(p) == Lives(p) => entry = p \/ Leaving(p, {"evicted"})
Awaited(p) == (Lives(p) /\ (p \in doomed \/ proc[p].state = "closing")) => Leaving(p, {"evicted", "close"})
Unopened(p) == proc[p].state = "none" => p \notin doomed /\ entry # p
Known ==
    /\ \A p \in Procs : Found(p) /\ Awaited(p) /\ Unopened(p)
    /\ Sealed => \A p \in Procs : ~Lives(p)

\* ... it has only the one that the holder of the session drives, ...
Driven == \A m \in Messages :
    call[m].pc \in Driving => call[m].hand \in Procs /\ entry \in {0, call[m].hand}

\* ... and none once the holder has evicted it.
Emptied ==
    /\ \A m \in Messages : call[m].pc \in Without => entry = 0
    /\ call["handoff"].pc = "evicted" => entry = 0

\* An Archive that nobody was late for has the session for itself.
Alone ==
    (~late /\ call["archive"].pc \in Ending) =>
        /\ runs \notin Messages
        /\ call["archive"].pc # "gone" => runs # "handoff"
        /\ call["archive"].pc # "evict" => entry = 0

\* How many processes a message can have been given to, by where it is.
Given == \A m \in Messages :
    /\ call[m].pc \in Starting \cup {"idle", "checked", "run", "gone"} => call[m].given = 0
    /\ call[m].pc \in Driving => call[m].given <= 1

Control == Placed /\ Claimed /\ Driven /\ Emptied /\ Alone /\ Given /\ GivenOnce

\* The inductive invariant.
IInv == TypeOK /\ Ended /\ Known /\ Control

LEMMA Names ==
    /\ \A m \in Messages : /\ m \notin {"none", "own", "error", "start", "end", "archive", "handoff"}
                           /\ m \in Callers
    /\ "archive" \in Callers /\ "handoff" \in Callers
BY DeskAssumption DEF Callers

LEMMA Numbers == Procs \subseteq Nat \ {0} /\ MaxOwn \in Nat /\ MaxCalls \in Nat
BY DeskAssumption DEF Procs

LEMMA NoProcessTyped == NoProcess \in ProcRecord /\ EndIsLast(NoProcess) /\ Over(NoProcess)
BY DEF NoProcess, ProcRecord, EndIsLast, Over

LEMMA FreshTyped ==
    ASSUME NEW pc \in Pcs
    PROVE  /\ Fresh(pc) \in CallRecord
           /\ Fresh(pc).pc = pc /\ Fresh(pc).given = 0 /\ Fresh(pc).outcome = "none"
BY DEF Fresh, CallRecord

LEMMA InitInv == Init => IInv
<1> SUFFICES ASSUME Init PROVE IInv
  OBVIOUS
<1>1. /\ \A p \in Procs : proc[p] = NoProcess
      /\ \A c \in Callers : call[c] = Fresh("idle")
  BY DEF Init
<1>2. "idle" \in Pcs
  BY DEF Pcs
<1>3. TypeOK
  <2>1. /\ proc \in [Procs -> ProcRecord] /\ call \in [Callers -> CallRecord]
        /\ \A p \in Procs : EndIsLast(proc[p])
    BY <1>1, <1>2, NoProcessTyped, FreshTyped DEF Init
  <2>2. /\ entry \in Procs \cup {0} /\ resident \in Procs \cup {0}
        /\ runs \in Turns \cup {"handoff", "none"} /\ doomed \subseteq Procs
        /\ own \in 0..MaxOwn /\ raced \subseteq Races \X Messages
    BY Numbers DEF Init
  <2>3. late \in BOOLEAN
    BY DEF Init
  <2> QED
    BY <2>1, <2>2, <2>3 DEF TypeOK, EndIsLast
<1>4. Ended /\ Known
  <2>1. \A p \in Procs : ~Lives(p) /\ Unopened(p)
    BY <1>1, Numbers DEF Init, Lives, Unopened, NoProcess
  <2> QED
    BY <1>1, <2>1, NoProcessTyped DEF Ended, Known, Found, Awaited
<1>5. \A c \in Callers : call[c].pc = "idle" /\ call[c].given = 0 /\ call[c].hand = 0
  BY <1>1, <1>2, FreshTyped DEF Fresh
<1>6. Control
  BY <1>5, Names DEF Control, Placed, Claimed, Driven, Emptied, Alone, Given, GivenOnce,
     Starting, Without, Driving, Holding, Ending
<1> QED
  BY <1>3, <1>4, <1>6 DEF IInv
-----------------------------------------------------------------------------
(* What any step keeps. *)

LEMMA BecomeTyped ==
    ASSUME TypeOK, Ended, NEW p \in Procs, NEW r \in ProcRecord,
           EndIsLast(r), Over(r), Become(p, r)
    PROVE  /\ proc' \in [Procs -> ProcRecord]
           /\ \A q \in Procs : EndIsLast(proc'[q])
           /\ Ended'
<1>1. \A q \in Procs : proc'[q] = IF q = p THEN r ELSE proc[q]
  BY DEF Become, TypeOK
<1>2. \A q \in Procs : EndIsLast(proc[q])
  BY DEF TypeOK, EndIsLast
<1> QED
  BY <1>1, <1>2 DEF Become, TypeOK, Ended

\* A caller that waits for the end of a process does so after the step.
Steady(c) == call[c].pc \in {"evicted", "close"} =>
    call'[c].pc = call[c].pc /\ call'[c].hand = call[c].hand

\* What a step does to a process that goes on living.
Calm(p) ==
    /\ proc'[p].state = "none" => proc[p].state = "none"
    /\ proc'[p].alive =>
          /\ proc[p].alive /\ (proc[p].swept => proc'[p].swept)
          /\ proc'[p].state = "closing" => proc[p].state = "closing" \/ p \in doomed \/ Leaving(p, {"close"})'

LEMMA KnownKept ==
    ASSUME IInv, late => late', Sealed' => Sealed, doomed' \subseteq doomed,
           \A c \in Callers : Steady(c), entry' \in {0, entry},
           \A p \in Procs : Calm(p) /\ (Lives(p) /\ entry = p /\ proc'[p].alive => entry' = p)
    PROVE  Known'
<1>1. ASSUME NEW p \in Procs, Lives(p)'
      PROVE  /\ Lives(p) /\ proc'[p].alive
             /\ \A S \in SUBSET {"evicted", "close"} : Leaving(p, S) => Leaving(p, S)'
  <2>1. proc'[p].alive /\ proc[p].alive /\ ~proc[p].swept
    BY <1>1 DEF Lives, Cast, Calm
  <2>2. ~(late /\ call["archive"].hand = p)
    <3> SUFFICES ASSUME late, call["archive"].hand = p PROVE FALSE
      OBVIOUS
    <3>1. call["archive"].pc = "evicted"
      BY Numbers DEF IInv, Control, Placed
    <3>2. call'["archive"].hand = p
      BY <3>1, Names DEF Steady
    <3> QED
      BY <1>1, <3>2 DEF Lives, Cast
  <2>3. \A S \in SUBSET {"evicted", "close"} : Leaving(p, S) => Leaving(p, S)'
    BY DEF Leaving, Steady
  <2> QED
    BY <2>1, <2>2, <2>3 DEF Lives, Cast
<1>2. ASSUME NEW p \in Procs
      PROVE  Found(p)'
  <2> SUFFICES ASSUME Lives(p)' PROVE entry' = p \/ Leaving(p, {"evicted"})'
    BY DEF Found
  <2> QED
    BY <1>1 DEF IInv, Known, Found
<1>3. ASSUME NEW p \in Procs
      PROVE  Awaited(p)'
  <2> SUFFICES ASSUME Lives(p)', p \in doomed' \/ proc'[p].state = "closing"
               PROVE  Leaving(p, {"evicted", "close"})'
    BY DEF Awaited
  <2>1. CASE p \in doomed \/ proc[p].state = "closing"
    BY <1>1, <2>1 DEF IInv, Known, Awaited
  <2>2. CASE Leaving(p, {"close"})'
    BY <2>2 DEF Leaving
  <2> QED
    BY <1>1, <2>1, <2>2 DEF Calm
<1>4. Sealed' => \A p \in Procs : ~Lives(p)'
  BY <1>1 DEF IInv, Known
<1>5. \A p \in Procs : Unopened(p)'
  BY Numbers DEF Calm, IInv, Known, Unopened
<1> QED
  BY <1>2, <1>3, <1>4, <1>5 DEF Known

\* A step that changes one process.
LEMMA KnownOne ==
    ASSUME IInv, entry' = entry, doomed' \subseteq doomed, late => late', Sealed' => Sealed,
           \A c \in Callers : Steady(c),
           NEW p \in Procs, NEW r, Become(p, r), r.state = "none" => proc[p].state = "none",
           r.alive => /\ proc[p].alive /\ (proc[p].swept => r.swept)
                      /\ r.state = "closing" =>
                            proc[p].state = "closing" \/ p \in doomed \/ Leaving(p, {"close"})'
    PROVE  Known'
<1>1. \A q \in Procs : proc'[q] = IF q = p THEN r ELSE proc[q]
  BY DEF Become, TypeOK, IInv
<1>2. \A q \in Procs : Calm(q)
  BY <1>1 DEF Calm
<1> QED
  BY <1>2, KnownKept

LEMMA KnownSame ==
    ASSUME IInv, proc' = proc, entry' = entry, doomed' = doomed, late => late', Sealed' => Sealed,
           \A c \in Callers : Steady(c)
    PROVE  Known'
<1>1. \A q \in Procs : Calm(q)
  BY DEF Calm
<1> QED
  BY <1>1, KnownKept

\* Nobody but the holder of the session waits for the end of a process that lives.
LEMMA Sole ==
    ASSUME IInv, NEW c \in Messages \cup {"handoff"}, runs = c, NEW p \in Procs, Lives(p)
    PROVE  /\ entry = p \/ (call[c].pc = "evicted" /\ call[c].hand = p)
           /\ p \in doomed \/ proc[p].state = "closing" =>
                 call[c].pc \in {"evicted", "close"} /\ call[c].hand = p
<1>1. {"evicted", "close"} \subseteq Holding /\ "evicted" \in Ending /\ "close" \notin Ending
  BY DEF Holding, Starting, Driving, Ending
<1>2. ASSUME NEW d \in Callers, call[d].hand = p, call[d].pc \in {"evicted", "close"}
      PROVE  d = c
  <2>1. CASE d \in Messages
    BY <1>1, <1>2, <2>1 DEF IInv, Control, Claimed
  <2>2. CASE d = "handoff"
    BY <1>1, <1>2, <2>2, Names DEF IInv, Control, Claimed, Placed
  <2>3. CASE d = "archive"
    <3>1. call[d].pc = "evicted" /\ ~late
      BY <1>1, <1>2, <2>3 DEF IInv, Control, Placed, Lives, Cast
    <3> QED
      BY <1>1, <2>3, <3>1 DEF IInv, Control, Alone
  <2> QED
    BY <2>1, <2>2, <2>3 DEF Callers
<1>3. /\ entry = p \/ Leaving(p, {"evicted"})
      /\ p \in doomed \/ proc[p].state = "closing" => Leaving(p, {"evicted", "close"})
  BY DEF IInv, Known, Found, Awaited
<1> QED
  BY <1>2, <1>3 DEF Leaving

\* The pool forgets a process that has ended, or that nobody waits for.
LEMMA ForgetKnown ==
    ASSUME IInv, NEW m \in Messages, runs = m, call[m].pc \notin {"evicted", "close"},
           NEW p \in Procs, entry \in {0, p},
           proc[p].state \in {"closing", "terminated"}
    PROVE  \A q \in Procs : ~Lives(q)
<1> SUFFICES ASSUME NEW q \in Procs, Lives(q) PROVE FALSE
  OBVIOUS
<1>1. entry = q /\ proc[q].state # "closing"
  BY Sole
<1>2. q = p
  BY <1>1, Numbers
<1> QED
  BY <1>1, <1>2 DEF IInv, Ended, Over, Lives

LEMMA NoneKept ==
    ASSUME IInv, entry' \in {0, entry}, doomed' = doomed, proc' = proc,
           \A q \in Procs : ~Lives(q)'
    PROVE  Known'
BY Numbers DEF IInv, Known, Found, Awaited, Unopened

\* A step of nobody who holds the session for a call: it may wake Archive.
LEMMA OthersStep ==
    ASSUME IInv, late' = late, raced \subseteq raced', entry' \in {0, entry},
           runs' = runs \/ (runs \in {"none", "own"} /\ runs' \in {"none", "own"}),
           \A m \in Messages : /\ call'[m].pc = call[m].pc
                               /\ call'[m].hand = call[m].hand
                               /\ call'[m].given = call[m].given,
           call'["handoff"].pc = call["handoff"].pc,
           call'["archive"].hand = call["archive"].hand,
           call'["archive"].pc = call["archive"].pc
             \/ (call["archive"].pc = "wait" /\ call'["archive"].pc = "evict" /\ runs' = "none")
    PROVE  Control'
<1>1. Placed' /\ Given'
  BY DEF IInv, Control, Placed, Given, Ending
<1>2. Claimed'
  BY Names DEF IInv, Control, Claimed
<1>3. Driven' /\ Emptied'
  BY DEF IInv, Control, Driven, Emptied
<1>4. Alone'
  BY Names DEF IInv, Control, Alone, Ending
<1>5. GivenOnce'
  BY DEF IInv, Control, GivenOnce, Raced
<1> QED
  BY <1>1, <1>2, <1>3, <1>4, <1>5 DEF Control

\* A step of the message that claims the session, or that holds and keeps it.
Keeps(m) ==
    /\ runs' = m /\ raced \subseteq raced'
    /\ \/ runs = m /\ late' = late
       \/ runs = "none" /\ late' = (late \/ call["archive"].pc \in Ending)
    /\ \A c \in Callers \ {m} : call'[c] = call[c]

LEMMA HolderStep ==
    ASSUME IInv, NEW m \in Messages, Keeps(m),
           call'[m].pc \in Holding,
           call'[m].pc \in Without => entry' = 0,
           call'[m].pc \in Driving => call'[m].hand \in Procs /\ entry' \in {0, call'[m].hand},
           call'[m].pc \in Starting \cup {"run"} => call'[m].given = 0,
           call'[m].pc \in Driving => call'[m].given <= 1,
           call'[m].given <= 1 \/ <<"refused", m>> \in raced'
    PROVE  Control'
<1>1. /\ \A n \in Messages \ {m} : call'[n] = call[n] /\ call[n].pc \notin Holding
      /\ call'["handoff"] = call["handoff"] /\ call["handoff"].pc \notin {"evict", "evicted"}
      /\ call'["archive"] = call["archive"]
  BY Names DEF IInv, Control, Claimed, Keeps
<1>2. /\ Driving \subseteq Holding /\ Starting \subseteq Holding /\ Without \subseteq Holding
      /\ Holding \cap {"idle", "checked", "gone"} = {}
  BY DEF Driving, Starting, Without, Holding
<1>3. Placed' /\ Claimed'
  BY <1>1 DEF IInv, Control, Placed, Claimed, Keeps
<1>4. Driven' /\ Emptied'
  BY <1>1, <1>2 DEF Driven, Emptied
<1>5. Alone'
  <2>1. CASE runs = m /\ late' = late
    BY <1>1, <2>1 DEF IInv, Control, Alone, Keeps
  <2>2. CASE runs = "none" /\ late' = (late \/ call["archive"].pc \in Ending)
    BY <1>1, <2>2 DEF Alone, Keeps
  <2> QED
    BY <2>1, <2>2 DEF Keeps
<1>6. Given'
  BY <1>1, <1>2 DEF IInv, Control, Given
<1>7. GivenOnce'
  BY <1>1 DEF IInv, Control, GivenOnce, Raced, Keeps
<1> QED
  BY <1>3, <1>4, <1>5, <1>6, <1>7 DEF Control

LEMMA ReleaseEffect ==
    ASSUME TypeOK, NEW c \in Messages \cup {"handoff"}, Release(c)
    PROVE  /\ call' \in [Callers -> CallRecord]
           /\ call'[c] = Fresh("gone")
           /\ \A d \in Callers \ {c, "archive"} : call'[d] = call[d]
           /\ call'["archive"].pc = IF call["archive"].pc = "wait" THEN "evict"
                                    ELSE call["archive"].pc
           /\ call'["archive"].hand = call["archive"].hand
           /\ runs' = "none"
           /\ \A d \in Messages \ {c} : <<"refused", d>> \in raced => <<"refused", d>> \in raced'
           /\ raced' \subseteq raced
<1> DEFINE f == [call EXCEPT ![c] = Fresh("gone")]
<1>1. /\ c \in Callers /\ c # "archive"
      /\ "gone" \in Pcs /\ "evict" \in Pcs
  BY Names DEF Pcs
<1>2. /\ f \in [Callers -> CallRecord] /\ f[c] = Fresh("gone")
      /\ \A d \in Callers \ {c} : f[d] = call[d]
  BY <1>1, FreshTyped DEF TypeOK
<1>3. call' = [f EXCEPT !["archive"].pc = IF @ = "wait" THEN "evict" ELSE @]
  BY DEF Release, Woken
<1> HIDE DEF f
<1>4. /\ \A d \in Callers \ {"archive"} : call'[d] = f[d]
      /\ call'["archive"] = [f["archive"] EXCEPT !.pc = IF @ = "wait" THEN "evict" ELSE @]
      /\ DOMAIN call' = Callers
  BY <1>2, <1>3, Names
<1>5. /\ call'["archive"] \in CallRecord
      /\ call'["archive"].pc = IF call["archive"].pc = "wait" THEN "evict" ELSE call["archive"].pc
      /\ call'["archive"].hand = call["archive"].hand
  BY <1>1, <1>2, <1>4, Names DEF CallRecord
<1>6. call' \in [Callers -> CallRecord]
  BY <1>2, <1>3, <1>4, <1>5
<1>7. /\ runs' = "none" /\ raced' \subseteq raced
      /\ \A d \in Messages \ {c} : <<"refused", d>> \in raced => <<"refused", d>> \in raced'
  BY DEF Release
<1> QED
  BY <1>1, <1>2, <1>4, <1>5, <1>6, <1>7, Names

\* The holder lets the session go.
LEMMA ReleaseStep ==
    ASSUME IInv, NEW c \in Messages \cup {"handoff"}, runs = c, Release(c),
           late' = late, entry' \in {0, entry}
    PROVE  Control'
<1>1. TypeOK
  BY DEF IInv
<1>2. /\ call'[c].pc = "gone" /\ call'[c].given = 0
      /\ \A d \in (Messages \cup {"handoff"}) \ {c} : call'[d] = call[d]
  BY <1>1, ReleaseEffect, FreshTyped, Names DEF Pcs
<1>3. /\ \A d \in Messages \ {c} : call[d].pc \notin Holding
      /\ c # "handoff" => call["handoff"].pc \notin {"evict", "evicted"}
      /\ "gone" \notin Holding
  BY Names DEF IInv, Control, Claimed, Holding, Starting, Driving
<1>4. /\ Driving \subseteq Holding /\ Without \subseteq Holding
      /\ "gone" \notin Driving /\ "gone" \notin Without
  BY DEF Driving, Without, Starting, Holding
<1>5. Placed' /\ Claimed'
  BY <1>1, <1>2, <1>3, ReleaseEffect DEF IInv, Control, Placed, Claimed, Ending
<1>6. Driven' /\ Emptied'
  BY <1>2, <1>3, <1>4 DEF Driven, Emptied
<1>7. Alone'
  BY <1>1, ReleaseEffect, Names DEF IInv, Control, Alone, Ending
<1>8. Given'
  BY <1>2, <1>4 DEF IInv, Control, Given
<1>9. GivenOnce'
  <2>1. \A d \in Messages \ {c} : <<"refused", d>> \in raced => <<"refused", d>> \in raced'
    BY <1>1, ReleaseEffect
  <2>2. \A d \in Messages \ {c} : call'[d].given <= 1 \/ <<"refused", d>> \in raced'
    BY <1>2, <2>1 DEF IInv, Control, GivenOnce, Raced
  <2>3. c \in Messages => call'[c].given <= 1
    BY <1>2
  <2>4. \A d \in Messages : call'[d].given <= 1 \/ <<"refused", d>> \in raced'
    BY <2>2, <2>3
  <2> QED
    BY <2>4 DEF GivenOnce, Raced
<1> QED
  BY <1>5, <1>6, <1>7, <1>8, <1>9 DEF Control
-----------------------------------------------------------------------------
(* The agent, the session's pump and the pool. *)

LEMMA StartIsWire == \A x \in Turns \cup {"start"} : x # "end"
BY Names DEF Turns

LEMMA Appended ==
    ASSUME NEW S, NEW s \in Seq(S), NEW x \in S
    PROVE  /\ Append(s, x) \in Seq(S)
           /\ Len(Append(s, x)) = Len(s) + 1
           /\ \A i \in DOMAIN Append(s, x) : Append(s, x)[i] = IF i = Len(s) + 1 THEN x ELSE s[i]
           /\ DOMAIN Append(s, x) = 1..(Len(s) + 1) /\ DOMAIN s = 1..Len(s)
OBVIOUS

LEMMA Popped ==
    ASSUME NEW S, NEW s \in Seq(S), s # <<>>
    PROVE  /\ Tail(s) \in Seq(S) /\ Head(s) \in S
           /\ Len(Tail(s)) = Len(s) - 1 /\ Len(s) > 0
           /\ \A i \in DOMAIN Tail(s) : Tail(s)[i] = s[i + 1] /\ i + 1 \in DOMAIN s
OBVIOUS

\* A step that changes one process and nothing else but what is counted and
\* recorded: it neither starts nor closes it.
LEMMA ProcStep ==
    ASSUME IInv, NEW p \in Procs, NEW r \in ProcRecord, EndIsLast(r), Over(r), Become(p, r),
           r.state = "none" => proc[p].state = "none",
           r.alive => /\ proc[p].alive /\ r.swept = proc[p].swept
                      /\ r.state = "closing" => proc[p].state = "closing",
           UNCHANGED <<entry, resident, runs, doomed, call, late>>, own' \in 0..MaxOwn,
           raced \subseteq raced', raced' \subseteq Races \X Messages
    PROVE  IInv'
<1>1. TypeOK /\ Ended
  BY DEF IInv
<1>2. TypeOK' /\ Ended'
  BY <1>1, BecomeTyped DEF TypeOK, EndIsLast
<1>3. Known'
  BY KnownOne DEF Steady, Sealed
<1>4. Control'
  BY OthersStep
<1> QED
  BY <1>2, <1>3, <1>4 DEF IInv

LEMMA ReadStep ==
    ASSUME IInv, NEW p \in Procs, Read(p)
    PROVE  IInv'
<1> DEFINE r == [proc[p] EXCEPT !.writing = FALSE]
<1>1. proc[p] \in ProcRecord /\ Over(proc[p]) /\ EndIsLast(proc[p]) /\ TypeOK
  BY DEF IInv, TypeOK, Ended, EndIsLast
<1>2. r \in ProcRecord /\ EndIsLast(r) /\ Over(r)
  BY <1>1 DEF ProcRecord, EndIsLast, Over
<1> QED
  BY <1>1, <1>2, ProcStep DEF Read, TypeOK, ProcRecord

LEMMA BeginStep ==
    ASSUME IInv, NEW p \in Procs, Begin(p)
    PROVE  IInv'
<1> DEFINE r == [proc[p] EXCEPT !.doing = Head(proc[p].inbox), !.inbox = Tail(@),
                                !.wire = Append(@, "start")]
<1>1. proc[p] \in ProcRecord /\ Over(proc[p]) /\ EndIsLast(proc[p]) /\ TypeOK
  BY DEF IInv, TypeOK, Ended, EndIsLast
<1>2. r \in ProcRecord
  BY <1>1, Popped, Appended DEF Begin, ProcRecord, Turns
<1>3. EndIsLast(r) /\ Over(r)
  BY <1>1 DEF Begin, EndIsLast, Over, ProcRecord
<1> QED
  BY <1>1, <1>2, <1>3, ProcStep DEF Begin, TypeOK, ProcRecord

LEMMA BeginOwnStep ==
    ASSUME IInv, NEW p \in Procs, BeginOwn(p)
    PROVE  IInv'
<1> DEFINE r == [proc[p] EXCEPT !.doing = "own", !.wire = Append(@, "start")]
<1>1. proc[p] \in ProcRecord /\ Over(proc[p]) /\ EndIsLast(proc[p]) /\ TypeOK
  BY DEF IInv, TypeOK, Ended, EndIsLast
<1>2. r \in ProcRecord
  BY <1>1, Appended DEF BeginOwn, ProcRecord, Turns
<1>3. EndIsLast(r) /\ Over(r)
  BY <1>1 DEF BeginOwn, EndIsLast, Over, ProcRecord
<1>4. raced \subseteq raced' /\ raced' \subseteq Races \X Messages
  <2>1. Elements(proc[p].inbox) \subseteq Messages
    BY <1>1 DEF Elements, ProcRecord
  <2> QED
    BY <1>1, <2>1 DEF BeginOwn, TypeOK, Races
<1>5. own' \in 0..MaxOwn
  BY <1>1, Numbers DEF BeginOwn, TypeOK
<1> QED
  BY <1>1, <1>2, <1>3, <1>4, <1>5, ProcStep DEF BeginOwn, ProcRecord

LEMMA FinishStep ==
    ASSUME IInv, NEW p \in Procs, Finish(p)
    PROVE  IInv'
<1> DEFINE r == [proc[p] EXCEPT !.doing = "none", !.fresh = FALSE,
                                !.wire = Append(@, proc[p].doing)]
<1>1. proc[p] \in ProcRecord /\ Over(proc[p]) /\ EndIsLast(proc[p]) /\ TypeOK
  BY DEF IInv, TypeOK, Ended, EndIsLast
<1>2. r \in ProcRecord
  BY <1>1, Appended, Names DEF Finish, ProcRecord, Turns
<1>3. EndIsLast(r) /\ Over(r)
  BY <1>1 DEF Finish, EndIsLast, Over, ProcRecord
<1> QED
  BY <1>1, <1>2, <1>3, ProcStep DEF Finish, TypeOK, ProcRecord

LEMMA DieStep ==
    ASSUME IInv, NEW p \in Procs, Die(p)
    PROVE  IInv'
<1> DEFINE r == [proc[p] EXCEPT !.alive = FALSE, !.doing = "none", !.inbox = <<>>,
                                !.fresh = FALSE]
<1>1. proc[p] \in ProcRecord /\ Over(proc[p]) /\ EndIsLast(proc[p]) /\ TypeOK
  BY DEF IInv, TypeOK, Ended, EndIsLast
<1>2. r \in ProcRecord
  <2>1. <<>> \in Seq(Messages)
    OBVIOUS
  <2> QED
    BY <1>1, <2>1 DEF ProcRecord
<1>3. EndIsLast(r) /\ Over(r)
  BY <1>1 DEF Die, EndIsLast, Over, ProcRecord
<1> QED
  BY <1>1, <1>2, <1>3, ProcStep DEF Die, TypeOK, ProcRecord

LEMMA PumpStartStep ==
    ASSUME IInv, NEW p \in Procs, PumpStart(p)
    PROVE  IInv'
<1> DEFINE r == IF Unsolicited(p)
                THEN [proc[p] EXCEPT !.wire = Tail(@), !.state = "running",
                                     !.events = Append(@, "start")]
                ELSE [proc[p] EXCEPT !.wire = Tail(@)]
<1>1. proc[p] \in ProcRecord /\ Over(proc[p]) /\ EndIsLast(proc[p]) /\ TypeOK
  BY DEF IInv, TypeOK, Ended, EndIsLast
<1>2. r \in ProcRecord
  <2>1. Tail(proc[p].wire) \in Seq(Turns \cup {"start"})
    BY <1>1, Popped DEF PumpStart, ProcRecord
  <2>2. Append(proc[p].events, "start") \in Seq(Turns \cup {"start", "end"})
    BY <1>1, Appended DEF ProcRecord
  <2> QED
    BY <1>1, <2>1, <2>2 DEF ProcRecord
<1>3. EndIsLast(r) /\ Over(r)
  BY <1>1, Appended DEF PumpStart, EndIsLast, Over, ProcRecord, Unsolicited
<1>4. /\ r.state = "none" => proc[p].state = "none"
      /\ r.alive => /\ proc[p].alive /\ r.swept = proc[p].swept
                    /\ r.state = "closing" => proc[p].state = "closing"
  BY <1>1 DEF Unsolicited, ProcRecord
<1>5. Become(p, r) /\ UNCHANGED <<entry, resident, runs, doomed, call, own, raced, late>>
  BY DEF PumpStart
<1> HIDE DEF r
<1> QED
  BY <1>1, <1>2, <1>3, <1>4, <1>5, ProcStep DEF TypeOK

LEMMA PumpResultStep ==
    ASSUME IInv, NEW p \in Procs, PumpResult(p)
    PROVE  IInv'
<1> DEFINE r == [proc[p] EXCEPT !.wire = Tail(@), !.events = Append(@, Head(proc[p].wire)),
                                !.state = IF @ = "running" THEN "idle" ELSE @]
<1>1. proc[p] \in ProcRecord /\ Over(proc[p]) /\ EndIsLast(proc[p]) /\ TypeOK
  BY DEF IInv, TypeOK, Ended, EndIsLast
<1>2. r \in ProcRecord
  <2>1. Tail(proc[p].wire) \in Seq(Turns \cup {"start"}) /\ Head(proc[p].wire) \in Turns
    BY <1>1, Popped DEF PumpResult, ProcRecord
  <2>2. Append(proc[p].events, Head(proc[p].wire)) \in Seq(Turns \cup {"start", "end"})
    BY <1>1, <2>1, Appended DEF ProcRecord
  <2> QED
    BY <1>1, <2>1, <2>2 DEF ProcRecord
<1>3. EndIsLast(r) /\ Over(r)
  BY <1>1, Popped, Appended, StartIsWire DEF PumpResult, EndIsLast, Over, ProcRecord
<1>4. /\ r.state = "none" => proc[p].state = "none"
      /\ r.alive => /\ proc[p].alive /\ r.swept = proc[p].swept
                    /\ r.state = "closing" => proc[p].state = "closing"
  BY <1>1 DEF ProcRecord
<1>5. Become(p, r) /\ UNCHANGED <<entry, resident, runs, doomed, call, own, raced, late>>
  BY DEF PumpResult
<1> HIDE DEF r
<1> QED
  BY <1>1, <1>2, <1>3, <1>4, <1>5, ProcStep DEF TypeOK

LEMMA TerminateStep ==
    ASSUME IInv, NEW p \in Procs, Terminate(p)
    PROVE  IInv'
<1> DEFINE r == [proc[p] EXCEPT !.state = "terminated", !.swept = FALSE,
                                !.events = Append(@, "end")]
<1>1. proc[p] \in ProcRecord /\ Over(proc[p]) /\ EndIsLast(proc[p]) /\ TypeOK
  BY DEF IInv, TypeOK, Ended, EndIsLast
<1>2. r \in ProcRecord
  <2>1. Append(proc[p].events, "end") \in Seq(Turns \cup {"start", "end"})
    BY <1>1, Appended DEF ProcRecord
  <2> QED
    BY <1>1, <2>1 DEF ProcRecord
<1>3. EndIsLast(r) /\ Over(r)
  BY <1>1, Appended DEF Terminate, EndIsLast, Over, ProcRecord
<1> QED
  BY <1>1, <1>2, <1>3, ProcStep DEF Terminate, TypeOK, ProcRecord

LEMMA ClosedTyped ==
    ASSUME NEW r \in ProcRecord, EndIsLast(r), Over(r)
    PROVE  /\ Closed(r) \in ProcRecord /\ EndIsLast(Closed(r)) /\ Over(Closed(r))
           /\ Closed(r).state \in {"closing", "terminated"}
           /\ Closed(r).alive = r.alive /\ Closed(r).swept = r.swept
BY DEF Closed, ProcRecord, EndIsLast, Over

LEMMA CloseStep ==
    ASSUME IInv, NEW p \in Procs, Close(p)
    PROVE  IInv'
<1>1. proc[p] \in ProcRecord /\ Over(proc[p]) /\ EndIsLast(proc[p]) /\ TypeOK /\ Ended
  BY DEF IInv, TypeOK, Ended, EndIsLast
<1>2. /\ Become(p, Closed(proc[p])) /\ doomed' = doomed \ {p}
      /\ UNCHANGED <<entry, resident, runs, call, own, raced, late>>
  BY DEF Close
<1>3. TypeOK' /\ Ended'
  BY <1>1, <1>2, BecomeTyped, ClosedTyped DEF TypeOK, EndIsLast
<1>4. Known'
  <2>1. p \in doomed
    BY DEF Close
  <2> QED
    BY <1>1, <1>2, <2>1, ClosedTyped, KnownOne DEF Steady, Sealed
<1>5. Control'
  BY <1>2, OthersStep
<1> QED
  BY <1>3, <1>4, <1>5 DEF IInv

LEMMA ReclaimStep ==
    ASSUME IInv, NEW p \in Procs, Reclaim(p)
    PROVE  IInv'
<1> DEFINE r == [proc[p] EXCEPT !.swept = TRUE]
<1>1. proc[p] \in ProcRecord /\ Over(proc[p]) /\ EndIsLast(proc[p]) /\ TypeOK /\ Ended
  BY DEF IInv, TypeOK, Ended, EndIsLast
<1>2. /\ Become(p, r) /\ doomed' = doomed \cup {p} /\ entry = p /\ entry' = 0
      /\ UNCHANGED <<resident, runs, call, own, raced, late>>
  BY DEF Reclaim
<1>3. /\ r \in ProcRecord /\ EndIsLast(r) /\ Over(r)
      /\ r.alive = proc[p].alive /\ r.state = proc[p].state /\ r.swept
  BY <1>1 DEF ProcRecord, EndIsLast, Over
<1> HIDE DEF r
<1>4. TypeOK' /\ Ended'
  BY <1>1, <1>2, <1>3, BecomeTyped DEF TypeOK, EndIsLast
<1>5. Known'
  <2>1. \A q \in Procs : proc'[q] = IF q = p THEN r ELSE proc[q]
    BY <1>1, <1>2 DEF Become, TypeOK
  <2>2. ~Lives(p)' /\ \A q \in Procs \ {p} : Lives(q)' = Lives(q) /\ q # entry
    BY <1>2, <1>3, <2>1 DEF Lives, Cast
  <2>3. \A q \in Procs, S \in {{"evicted"}, {"evicted", "close"}} : Leaving(q, S)' = Leaving(q, S)
    BY <1>2 DEF Leaving
  <2>4. \A q \in Procs : Found(q)' /\ Awaited(q)'
    BY <1>2, <2>1, <2>2, <2>3 DEF IInv, Known, Found, Awaited
  <2>5. \A q \in Procs : Unopened(q)'
    BY <1>2, <1>3, <2>1, Numbers DEF IInv, Known, Unopened
  <2> QED
    BY <1>2, <2>2, <2>4, <2>5 DEF IInv, Known, Sealed
<1>6. Control'
  BY <1>2, OthersStep
<1> QED
  BY <1>4, <1>5, <1>6 DEF IInv
-----------------------------------------------------------------------------
(* The Conductor. *)

LEMMA ReadTyped ==
    ASSUME NEW r \in ProcRecord, r.events # <<>>, EndIsLast(r), Over(r),
           NEW t \in Turns \cup {"none"}, NEW h \in BOOLEAN
    PROVE  LET s == [r EXCEPT !.events = Tail(@), !.turn = t, !.heard = h]
           IN  s \in ProcRecord /\ EndIsLast(s) /\ Over(s)
<1>1. Tail(r.events) \in Seq(Turns \cup {"start", "end"})
  BY Popped DEF ProcRecord
<1>2. /\ Len(Tail(r.events)) = Len(r.events) - 1
      /\ \A i \in DOMAIN Tail(r.events) :
            Tail(r.events)[i] = r.events[i + 1] /\ i + 1 \in DOMAIN r.events
  BY Popped DEF ProcRecord
<1> DEFINE s == [r EXCEPT !.events = Tail(@), !.turn = t, !.heard = h]
<1>3. s \in ProcRecord /\ Over(s)
  BY <1>1 DEF ProcRecord, Over
<1>4. s.events = Tail(r.events) /\ s.state = r.state
  BY DEF ProcRecord
<1>5. DOMAIN Tail(r.events) \subseteq Int /\ Len(r.events) \in Int
  BY <1>1 DEF ProcRecord
<1> HIDE DEF s
<1>6. EndIsLast(s)
  BY <1>2, <1>4, <1>5 DEF EndIsLast
<1> QED
  BY <1>3, <1>6 DEF s

LEMMA ReadStartStep ==
    ASSUME IInv, NEW p \in Procs, ReadStart(p)
    PROVE  IInv'
<1> DEFINE r == [proc[p] EXCEPT !.events = Tail(@), !.turn = "own"]
<1>1. proc[p] \in ProcRecord /\ Over(proc[p]) /\ EndIsLast(proc[p]) /\ TypeOK /\ Ended
  BY DEF IInv, TypeOK, Ended, EndIsLast
<1>2. /\ Become(p, r) /\ proc[p].events # <<>> /\ runs' = IF runs = "none" THEN "own" ELSE runs
      /\ UNCHANGED <<entry, resident, doomed, call, own, raced, late>>
  BY DEF ReadStart, Reads
<1>3. r = [proc[p] EXCEPT !.events = Tail(@), !.turn = "own", !.heard = proc[p].heard]
  BY <1>1 DEF ProcRecord
<1>4. /\ r \in ProcRecord /\ EndIsLast(r) /\ Over(r)
      /\ r.alive = proc[p].alive /\ r.state = proc[p].state /\ r.swept = proc[p].swept
  <2>1. proc[p].heard \in BOOLEAN /\ "own" \in Turns
    BY <1>1 DEF ProcRecord, Turns
  <2>2. r \in ProcRecord /\ EndIsLast(r) /\ Over(r)
    BY <1>1, <1>2, <1>3, <2>1, ReadTyped
  <2> QED
    BY <1>1, <2>2 DEF ProcRecord
<1> HIDE DEF r
<1>5. TypeOK' /\ Ended'
  BY <1>1, <1>2, <1>4, BecomeTyped DEF TypeOK, EndIsLast, Turns
<1>6. Known'
  BY <1>2, <1>4, KnownOne DEF Steady, Sealed
<1>7. Control'
  BY <1>2, OthersStep
<1> QED
  BY <1>5, <1>6, <1>7 DEF IInv

LEMMA FinishedCalls ==
    ASSUME TypeOK, NEW p \in Procs, NEW x \in Turns \cup {"error"}, Finished(p, x)
    PROVE  /\ call' \in [Callers -> CallRecord]
           /\ \A m \in Messages : /\ call'[m].pc = call[m].pc
                                  /\ call'[m].hand = call[m].hand
                                  /\ call'[m].given = call[m].given
           /\ call'["handoff"] = call["handoff"] /\ call'["archive"].hand = call["archive"].hand
           /\ call'["archive"].pc = call["archive"].pc
                \/ (call["archive"].pc = "wait" /\ call'["archive"].pc = "evict" /\ runs' = "none")
<1> DEFINE t == proc[p].turn
<1>1. call \in [Callers -> CallRecord] /\ \A c \in Callers : call[c] \in CallRecord
  BY DEF TypeOK
<1>2. CASE t = "own" /\ runs = "own"
  <2>1. runs' = "none" /\ call' = Woken(call)
    BY <1>2, Names DEF Finished
  <2>2. "evict" \in Pcs
    BY DEF Pcs
  <2> QED
    BY <1>1, <2>1, <2>2, Names DEF Woken, CallRecord
<1>3. CASE t \in Messages /\ call[t].pc \in {"wait", "interrupt", "grace"} /\ call[t].hand = p
  <2>1. call' = [call EXCEPT ![t].outcome = x]
    BY <1>3, Names DEF Finished
  <2> QED
    BY <1>1, <1>3, <2>1, Names DEF CallRecord
<1>4. CASE /\ ~(t = "own" /\ runs = "own")
           /\ ~(t \in Messages /\ call[t].pc \in {"wait", "interrupt", "grace"} /\ call[t].hand = p)
  <2>1. call' = call
    BY <1>4 DEF Finished
  <2> QED
    BY <1>1, <2>1
<1> QED
  BY <1>2, <1>3, <1>4

LEMMA FinishedStep ==
    ASSUME IInv, NEW p \in Procs, NEW x \in Turns \cup {"error"}, Finished(p, x),
           proc[p].events # <<>>, resident' \in Procs \cup {0},
           UNCHANGED <<entry, doomed, own, raced, late>>
    PROVE  IInv'
<1> DEFINE r == [proc[p] EXCEPT !.events = Tail(@), !.turn = "none", !.heard = TRUE]
<1>1. proc[p] \in ProcRecord /\ Over(proc[p]) /\ EndIsLast(proc[p]) /\ TypeOK /\ Ended
  BY DEF IInv, TypeOK, Ended, EndIsLast
<1>2. Become(p, r) /\ runs' \in {runs, "none"} /\ (runs' # runs => runs = "own")
  BY DEF Finished
<1>3. r \in ProcRecord /\ EndIsLast(r) /\ Over(r)
  BY <1>1, ReadTyped
<1>4. r.alive = proc[p].alive /\ r.state = proc[p].state /\ r.swept = proc[p].swept
  BY <1>1 DEF ProcRecord
<1> HIDE DEF r
<1>5. TypeOK' /\ Ended'
  BY <1>1, <1>2, <1>3, BecomeTyped, FinishedCalls DEF TypeOK, EndIsLast
<1>6. Known'
  <2>1. \A c \in Callers : Steady(c)
    BY <1>1, FinishedCalls DEF Steady, Callers
  <2>2. Sealed' => Sealed
    BY <1>1, FinishedCalls DEF Sealed
  <2> QED
    BY <1>2, <1>4, <2>1, <2>2, KnownOne
<1>7. Control'
  BY <1>1, <1>2, FinishedCalls, OthersStep
<1> QED
  BY <1>5, <1>6, <1>7 DEF IInv

LEMMA ReadResultStep ==
    ASSUME IInv, NEW p \in Procs, ReadResult(p)
    PROVE  IInv'
<1>1. PICK x \in Turns : Reads(p, x) /\ Finished(p, x)
  BY DEF ReadResult
<1> QED
  BY <1>1, FinishedStep DEF ReadResult, Reads, IInv, TypeOK

LEMMA ReadEndStep ==
    ASSUME IInv, NEW p \in Procs, ReadEnd(p)
    PROVE  IInv'
BY FinishedStep DEF ReadEnd, Reads, IInv, TypeOK
-----------------------------------------------------------------------------
(* The messages. *)

\* The pool gives up the process that c takes in hand, to close it.
LEMMA EvictKnown ==
    ASSUME IInv, Evict, proc' = proc, late' = late, NEW c \in Callers,
           call[c].pc \notin {"evicted", "close"}, call'[c].pc = "evicted", call'[c].hand = entry,
           \A d \in Callers \ {c} : call'[d] = call[d]
    PROVE  Known' /\ entry' = 0 /\ doomed' \subseteq Procs
<1>1. entry' = 0 /\ doomed' \subseteq Procs /\ doomed' \subseteq doomed \cup {entry}
  BY DEF IInv, TypeOK, Evict
<1>2. \A d \in Callers : Steady(d)
  BY DEF Steady
<1>3. ASSUME NEW p \in Procs
      PROVE  /\ Lives(p)' => Lives(p)
             /\ entry = p => Leaving(p, {"evicted"})' /\ Leaving(p, {"evicted", "close"})'
             /\ Leaving(p, {"evicted"}) => Leaving(p, {"evicted"})'
             /\ Leaving(p, {"evicted", "close"}) => Leaving(p, {"evicted", "close"})'
  <2>1. call["archive"].hand = p => call'["archive"].hand = p
    BY <1>2, Names, Numbers DEF Steady, IInv, Control, Placed
  <2> QED
    BY <1>2, <2>1 DEF Lives, Cast, Leaving, Steady
<1>4. \A p \in Procs : Found(p)' /\ Awaited(p)' /\ Unopened(p)'
  BY <1>1, <1>3, Numbers DEF IInv, Known, Found, Awaited, Unopened
<1>5. Sealed' => Sealed
  BY Names DEF Sealed
<1> QED
  BY <1>1, <1>3, <1>4, <1>5 DEF IInv, Known

LEMMA GotoEffect ==
    ASSUME TypeOK, NEW c \in Callers, NEW pc \in Pcs, Goto(c, pc)
    PROVE  /\ call' \in [Callers -> CallRecord]
           /\ call'[c].pc = pc /\ call'[c].hand = call[c].hand /\ call'[c].given = call[c].given
           /\ call'[c].outcome = call[c].outcome
           /\ \A d \in Callers \ {c} : call'[d] = call[d]
BY DEF Goto, TypeOK, CallRecord

LEMMA HandEffect ==
    ASSUME TypeOK, NEW c \in Callers, NEW pc \in Pcs, NEW h \in Procs \cup {0},
           call' = [call EXCEPT ![c].pc = pc, ![c].hand = h]
    PROVE  /\ call' \in [Callers -> CallRecord]
           /\ call'[c].pc = pc /\ call'[c].hand = h /\ call'[c].given = call[c].given
           /\ call'[c].outcome = call[c].outcome
           /\ \A d \in Callers \ {c} : call'[d] = call[d]
<1>1. call \in [Callers -> CallRecord]
  BY DEF TypeOK
<1>2. call' = [call EXCEPT ![c] = [call[c] EXCEPT !.pc = pc, !.hand = h]]
  OBVIOUS
<1>3. [call[c] EXCEPT !.pc = pc, !.hand = h] \in CallRecord
  BY <1>1 DEF CallRecord
<1>4. call' \in [Callers -> CallRecord] /\ \A d \in Callers \ {c} : call'[d] = call[d]
  BY <1>1, <1>2, <1>3
<1>5. call'[c] = [call[c] EXCEPT !.pc = pc, !.hand = h]
  BY <1>1, <1>2
<1> QED
  BY <1>1, <1>4, <1>5 DEF CallRecord

LEMMA OneShotEffect ==
    ASSUME TypeOK, NEW m \in Messages, NEW n \in 1..2, call[m].given = 0, OneShot(m, n)
    PROVE  /\ call' \in [Callers -> CallRecord]
           /\ call'[m].pc = "oneshot" /\ call'[m].given = n
           /\ call'[m].outcome = call[m].outcome
           /\ \A d \in Callers \ {m} : call'[d] = call[d]
<1>1. "oneshot" \in Pcs /\ m \in Callers
  BY Names DEF Pcs
<1> QED
  BY <1>1 DEF OneShot, TypeOK, CallRecord

LEMMA FailedEffect ==
    ASSUME TypeOK, NEW m \in Messages, Failed(m)
    PROVE  /\ call' \in [Callers -> CallRecord]
           /\ call'[m].pc = "settle" /\ call'[m].hand = call[m].hand
           /\ call'[m].given = call[m].given /\ call'[m].outcome = "error"
           /\ \A d \in Callers \ {m} : call'[d] = call[d]
<1>1. "settle" \in Pcs /\ m \in Callers
  BY Names DEF Pcs
<1> QED
  BY <1>1 DEF Failed, TypeOK, CallRecord

\* Where each step of a message leaves it.
LEMMA Stations ==
    /\ "acquire" \in Pcs /\ "acquire" \in Starting /\ "acquire" \notin Without
    /\ "evicted" \in Pcs /\ "evicted" \in Starting /\ "evicted" \in Without
    /\ "open" \in Pcs /\ "open" \in Starting /\ "open" \in Without
    /\ "oneshot" \in Holding /\ "oneshot" \in Without /\ "oneshot" \notin Starting
    /\ "oneshot" \notin Driving /\ "run" \in Pcs /\ "conduct" \in Pcs /\ "await" \in Pcs
    /\ {"send", "wait", "interrupt", "grace", "close", "settle"} \subseteq Pcs
    /\ Starting \subseteq Holding /\ Driving \subseteq Holding
    /\ Driving \cap Without = {} /\ Driving \cap Starting = {}
    /\ {"conduct", "await", "run", "send", "wait"} \subseteq Driving
    /\ {"interrupt", "grace", "close", "settle"} \subseteq Driving
    /\ "evicted" \notin Driving
    /\ {"idle", "checked", "gone"} \cap Holding = {}
    /\ {"evict", "evicted", "gone"} = Ending
BY DEF Pcs, Starting, Without, Driving, Holding, Ending

LEMMA ToStarting ==
    ASSUME IInv, NEW m \in Messages, Keeps(m), NEW pc \in Starting, call'[m].pc = pc,
           call'[m].given = 0, pc \in Without => entry' = 0
    PROVE  Control'
<1>1. pc \in Holding /\ pc \notin Driving /\ pc # "run"
  BY DEF Starting, Driving, Holding
<1>2. call'[m].given <= 1
  OBVIOUS
<1> QED
  BY <1>1, <1>2, HolderStep

LEMMA ToDriving ==
    ASSUME IInv, NEW m \in Messages, Keeps(m), NEW pc \in Driving, call'[m].pc = pc,
           call'[m].hand \in Procs, entry' \in {0, call'[m].hand},
           call'[m].given \in {0, 1}, pc = "run" => call'[m].given = 0
    PROVE  Control'
<1>1. pc \in Holding /\ pc \notin Starting /\ pc \notin Without
  BY DEF Starting, Driving, Holding, Without
<1>2. call'[m].given <= 1
  OBVIOUS
<1> QED
  BY <1>1, <1>2, HolderStep

LEMMA ToOneShot ==
    ASSUME IInv, NEW m \in Messages, Keeps(m), call'[m].pc = "oneshot", entry' = 0,
           NEW n \in 1..2, call'[m].given = n, n = 1 \/ <<"refused", m>> \in raced'
    PROVE  Control'
<1>1. "oneshot" \in Holding \ (Starting \cup Driving \cup {"run"})
  BY DEF Starting, Driving, Holding
<1>2. call'[m].given <= 1 \/ <<"refused", m>> \in raced'
  OBVIOUS
<1> QED
  BY <1>1, <1>2, HolderStep

\* A step of a message changes no other caller.
LEMMA OwnSteady ==
    ASSUME NEW m \in Messages, \A d \in Callers \ {m} : call'[d] = call[d],
           call[m].pc \notin {"evicted", "close"}, late => late'
    PROVE  (\A c \in Callers : Steady(c)) /\ (Sealed' => Sealed)
BY Names DEF Steady, Sealed

LEMMA StartTurnStep ==
    ASSUME IInv, NEW m \in Messages, StartTurn(m)
    PROVE  IInv'
<1>1. /\ runs = "none" /\ runs' = m /\ Goto(m, "acquire") /\ call[m].pc \in {"idle", "checked"}
      /\ late' = (late \/ call["archive"].pc \in Ending)
      /\ UNCHANGED <<proc, entry, resident, doomed, own, raced>>
  BY Stations DEF StartTurn
<1>2. /\ call' \in [Callers -> CallRecord] /\ call'[m].pc = "acquire"
      /\ call'[m].given = call[m].given /\ \A d \in Callers \ {m} : call'[d] = call[d]
  BY <1>1, GotoEffect, Names, Stations DEF IInv
<1>3. call[m].given = 0
  BY <1>1 DEF IInv, Control, Given
<1>4. TypeOK' /\ Ended' /\ Known'
  <2>1. TypeOK'
    BY <1>1, <1>2 DEF IInv, TypeOK, Turns
  <2> QED
    BY <1>1, <1>2, <2>1, OwnSteady, KnownSame DEF IInv, Ended, Over
<1>5. Control'
  <2>1. Keeps(m)
    BY <1>1, <1>2 DEF Keeps
  <2> QED
    BY <1>2, <1>3, <2>1, Stations, ToStarting
<1> QED
  BY <1>4, <1>5 DEF IInv

LEMMA AcquireStep ==
    ASSUME IInv, NEW m \in Messages, Acquire(m)
    PROVE  IInv'
<1>1. /\ call[m].pc = "acquire" /\ runs = m /\ call[m].given = 0 /\ m \in Callers
      /\ UNCHANGED <<proc, resident, runs, own, raced, late>> /\ TypeOK
  BY Names, Stations DEF Acquire, IInv, Control, Claimed, Given
<1>2. Ended'
  BY <1>1 DEF IInv, Ended, Over
<1>3. CASE Vacant /\ entry' = 0 /\ Goto(m, "open") /\ UNCHANGED doomed
  <2>2. /\ call' \in [Callers -> CallRecord] /\ call'[m].pc = "open"
        /\ call'[m].given = 0 /\ \A d \in Callers \ {m} : call'[d] = call[d]
    BY <1>1, <1>3, GotoEffect, Stations
  <2>1. Known'
    <3>1. \A p \in Procs : entry = p => ~proc'[p].alive
      BY <1>1, <1>3 DEF IInv, Ended, Over, Vacant
    <3>2. \A p \in Procs : Calm(p)
      BY <1>1 DEF Calm
    <3>3. (\A c \in Callers : Steady(c)) /\ (Sealed' => Sealed) /\ late' = late
      BY <1>1, <2>2, OwnSteady
    <3> QED
      BY <1>3, <3>1, <3>2, <3>3, KnownKept
  <2>3. TypeOK' /\ Keeps(m)
    BY <1>1, <1>3, <2>2 DEF TypeOK, Keeps
  <2>4. Control'
    BY <1>3, <2>2, <2>3, Stations, ToStarting
  <2> QED
    BY <1>2, <2>1, <2>3, <2>4 DEF IInv
<1>4. CASE /\ ~Vacant /\ UNCHANGED <<entry, doomed>>
           /\ call' = [call EXCEPT ![m].pc = "run", ![m].hand = entry]
  <2>1. entry \in Procs
    BY <1>1, <1>4 DEF TypeOK, Vacant
  <2>2. /\ call' \in [Callers -> CallRecord] /\ call'[m].pc = "run" /\ call'[m].hand = entry
        /\ call'[m].given = 0 /\ \A d \in Callers \ {m} : call'[d] = call[d]
    BY <1>1, <1>4, <2>1, Stations, HandEffect
  <2>3. TypeOK' /\ Known'
    BY <1>1, <1>4, <2>2, OwnSteady, KnownSame DEF TypeOK
  <2>4. Keeps(m)
    BY <1>1, <2>2 DEF Keeps
  <2>5. Control'
    BY <1>4, <2>1, <2>2, <2>4, Stations, ToDriving
  <2> QED
    BY <1>2, <2>3, <2>5 DEF IInv
<1>5. CASE Evict /\ call' = [call EXCEPT ![m].pc = "evicted", ![m].hand = entry]
  <2>1. /\ call' \in [Callers -> CallRecord] /\ call'[m].pc = "evicted"
        /\ call'[m].given = 0 /\ call'[m].hand = entry /\ \A d \in Callers \ {m} : call'[d] = call[d]
    <3>1. entry \in Procs \cup {0} /\ "evicted" \in Pcs
      BY <1>1, Stations DEF TypeOK
    <3> QED
      BY <1>1, <1>5, <3>1, HandEffect
  <2>2. TypeOK' /\ Known' /\ entry' = 0
    BY <1>1, <1>5, <2>1, EvictKnown DEF TypeOK
  <2>3. Keeps(m)
    BY <1>1, <2>1 DEF Keeps
  <2>4. Control'
    BY <2>1, <2>2, <2>3, Stations, ToStarting
  <2> QED
    BY <1>2, <2>2, <2>4 DEF IInv
<1> QED
  BY <1>3, <1>4, <1>5 DEF Acquire

LEMMA OpenStep ==
    ASSUME IInv, NEW m \in Messages, Open(m)
    PROVE  IInv'
<1>1. /\ call[m].pc = "open" /\ runs = m /\ call[m].given = 0 /\ m \in Callers /\ entry = 0
      /\ UNCHANGED <<resident, runs, doomed, own, late>> /\ TypeOK /\ Ended
  BY Names, Stations DEF Open, IInv, Control, Claimed, Given, Emptied
<1>2. \A q \in Procs : ~Lives(q)
  BY <1>1, Sole, Numbers
<1>3. ASSUME NEW p \in Procs, Opened(m, p)
      PROVE  IInv'
  <2> DEFINE r == [NoProcess EXCEPT !.state = "running", !.alive = TRUE, !.inbox = <<m>>,
                                    !.writing = TRUE]
  <2>1. r \in ProcRecord /\ EndIsLast(r) /\ Over(r)
    <3>1. <<m>> \in Seq(Messages)
      OBVIOUS
    <3>2. r \in ProcRecord
      BY <3>1, NoProcessTyped DEF ProcRecord
    <3>3. EndIsLast(r)
      BY NoProcessTyped DEF EndIsLast, NoProcess
    <3>4. Over(r)
      BY DEF NoProcess, Over
    <3> QED
      BY <3>2, <3>3, <3>4
  <2>2. /\ Become(p, r) /\ entry' = p /\ raced' = raced
        /\ call' = [call EXCEPT ![m].pc = "conduct", ![m].hand = p, ![m].given = @ + 1]
    BY <1>3 DEF Opened
  <2> HIDE DEF r
  <2>3. /\ call' \in [Callers -> CallRecord] /\ call'[m].pc = "conduct" /\ call'[m].hand = p
        /\ call'[m].given = 1 /\ \A d \in Callers \ {m} : call'[d] = call[d]
    BY <1>1, <2>2, Stations DEF TypeOK, CallRecord
  <2>4. TypeOK' /\ Ended'
    BY <1>1, <2>1, <2>2, <2>3, BecomeTyped DEF TypeOK, EndIsLast
  <2>5. Known'
    <3>1. \A q \in Procs : proc'[q] = IF q = p THEN r ELSE proc[q]
      BY <1>1, <2>2 DEF Become, TypeOK
    <3>2. r.state = "running"
      BY DEF r
    <3>3. \A q \in Procs \ {p} : ~Lives(q)'
      BY <1>1, <1>2, <2>3, <3>1, Names DEF Lives, Cast
    <3>4. p \notin doomed
      BY <1>3 DEF Opened, IInv, Known, Unopened
    <3>5. Found(p)' /\ Awaited(p)'
      BY <1>1, <2>2, <3>1, <3>2, <3>4 DEF Found, Awaited
    <3>7. \A q \in Procs : Unopened(q)'
      BY <1>1, <2>2, <3>1, <3>2 DEF IInv, Known, Unopened
    <3>6. ~Sealed'
      <4>1. ~Sealed
        BY <1>1, Stations DEF IInv, Control, Alone, Sealed
      <4> QED
        BY <1>1, <2>3, <4>1, Names DEF Sealed
    <3> QED
      BY <3>3, <3>5, <3>6, <3>7 DEF Known, Found, Awaited
  <2>6. Keeps(m)
    BY <1>1, <2>2, <2>3 DEF Keeps
  <2>7. Control'
    BY <2>2, <2>3, <2>6, Stations, ToDriving
  <2> QED
    BY <2>4, <2>5, <2>7 DEF IInv
<1>4. CASE NotOpened(m)
  <2>1. /\ proc' = proc /\ entry' = entry /\ raced \subseteq raced' /\ raced' \subseteq Races \X Messages
    BY <1>1, <1>4 DEF NotOpened, TypeOK, Races
  <2>2. PICK n \in 1..2 : OneShot(m, n) /\ (n = 1 \/ <<"refused", m>> \in raced')
    BY <1>4 DEF NotOpened
  <2>3. /\ call' \in [Callers -> CallRecord] /\ call'[m].pc = "oneshot" /\ call'[m].given = n
        /\ \A d \in Callers \ {m} : call'[d] = call[d]
    BY <1>1, <2>2, OneShotEffect
  <2>4. TypeOK' /\ Ended' /\ Known'
    BY <1>1, <2>1, <2>3, OwnSteady, KnownSame DEF TypeOK, Ended, Over
  <2>5. Keeps(m)
    BY <1>1, <2>1, <2>3 DEF Keeps
  <2>6. Control'
    BY <1>1, <2>1, <2>2, <2>3, <2>5, ToOneShot
  <2> QED
    BY <2>4, <2>6 DEF IInv
<1> QED
  BY <1>3, <1>4 DEF Open

LEMMA ConductStep ==
    ASSUME IInv, NEW m \in Messages, Conduct(m)
    PROVE  IInv'
<1> DEFINE p == call[m].hand
           r == [proc[p] EXCEPT !.conducted = TRUE]
<1>1. /\ call[m].pc = "conduct" /\ runs = m /\ m \in Callers /\ TypeOK /\ Ended
      /\ p \in Procs /\ entry \in {0, p} /\ call[m].given \in {0, 1}
  BY Names, Stations DEF Conduct, IInv, Control, Claimed, Driven, Given, TypeOK, CallRecord
<1>2. /\ Become(p, r) /\ resident' = p /\ Goto(m, "await")
      /\ UNCHANGED <<entry, runs, doomed, own, raced, late>>
  BY DEF Conduct
<1>3. proc[p] \in ProcRecord /\ Over(proc[p]) /\ EndIsLast(proc[p])
  BY <1>1 DEF TypeOK, Ended, EndIsLast
<1>4. /\ r \in ProcRecord /\ EndIsLast(r) /\ Over(r)
      /\ r.alive = proc[p].alive /\ r.state = proc[p].state /\ r.swept = proc[p].swept
  BY <1>3 DEF ProcRecord, EndIsLast, Over
<1> HIDE DEF r
<1>5. /\ call' \in [Callers -> CallRecord] /\ call'[m].pc = "await" /\ call'[m].hand = p
      /\ call'[m].given = call[m].given /\ \A d \in Callers \ {m} : call'[d] = call[d]
  BY <1>1, <1>2, GotoEffect, Stations
<1> HIDE DEF p
<1>6. TypeOK' /\ Ended'
  BY <1>1, <1>2, <1>4, <1>5, BecomeTyped DEF TypeOK, EndIsLast
<1>7. Known'
  BY <1>1, <1>2, <1>4, <1>5, OwnSteady, KnownOne
<1>8. Keeps(m)
  BY <1>1, <1>2, <1>5 DEF Keeps
<1>9. Control'
  BY <1>1, <1>2, <1>5, <1>8, Stations, ToDriving
<1> QED
  BY <1>6, <1>7, <1>9 DEF IInv

LEMMA AwaitStep ==
    ASSUME IInv, NEW m \in Messages, Await(m)
    PROVE  IInv'
<1> DEFINE p == call[m].hand
           r == [proc[p] EXCEPT !.turn = m]
<1>1. /\ call[m].pc = "await" /\ runs = m /\ m \in Callers /\ TypeOK /\ Ended
      /\ p \in Procs /\ entry \in {0, p} /\ call[m].given \in {0, 1}
  BY Names, Stations DEF Await, IInv, Control, Claimed, Driven, Given, TypeOK, CallRecord
<1>2. UNCHANGED <<entry, resident, runs, doomed, own, late>>
  BY DEF Await
<1>3. proc[p] \in ProcRecord /\ Over(proc[p]) /\ EndIsLast(proc[p])
  BY <1>1 DEF TypeOK, Ended, EndIsLast
<1>4. CASE /\ Become(p, r) /\ Goto(m, "wait")
           /\ raced' = IF proc[p].heard THEN raced \cup {<<"early", m>>} ELSE raced
  <2>1. /\ r \in ProcRecord /\ EndIsLast(r) /\ Over(r)
        /\ r.alive = proc[p].alive /\ r.state = proc[p].state /\ r.swept = proc[p].swept
    BY <1>3 DEF ProcRecord, EndIsLast, Over, Turns
  <2> HIDE DEF r
  <2>2. /\ call' \in [Callers -> CallRecord] /\ call'[m].pc = "wait" /\ call'[m].hand = p
        /\ call'[m].given = call[m].given /\ \A d \in Callers \ {m} : call'[d] = call[d]
    BY <1>1, <1>4, GotoEffect, Stations
  <2>3. raced \subseteq raced' /\ raced' \subseteq Races \X Messages
    BY <1>1, <1>4 DEF TypeOK, Races
  <2> HIDE DEF p
  <2>4. TypeOK' /\ Ended'
    BY <1>1, <1>2, <1>4, <2>1, <2>2, <2>3, BecomeTyped DEF TypeOK, EndIsLast
  <2>5. Known'
    BY <1>1, <1>2, <1>4, <2>1, <2>2, OwnSteady, KnownOne
  <2>6. Keeps(m)
    BY <1>1, <1>2, <2>2, <2>3 DEF Keeps
  <2>7. Control'
    BY <1>1, <1>2, <2>2, <2>6, Stations, ToDriving
  <2> QED
    BY <2>4, <2>5, <2>7 DEF IInv
<1>5. CASE Failed(m) /\ UNCHANGED <<proc, raced>>
  <2>1. /\ call' \in [Callers -> CallRecord] /\ call'[m].pc = "settle" /\ call'[m].hand = p
        /\ call'[m].given = call[m].given /\ \A d \in Callers \ {m} : call'[d] = call[d]
    BY <1>1, <1>5, FailedEffect
  <2> HIDE DEF p
  <2>2. TypeOK' /\ Ended' /\ Known' /\ Keeps(m)
    BY <1>1, <1>2, <1>5, <2>1, OwnSteady, KnownSame DEF TypeOK, Ended, Over, Keeps
  <2>3. Control'
    BY <1>1, <1>2, <2>1, <2>2, Stations, ToDriving
  <2> QED
    BY <2>2, <2>3 DEF IInv
<1> QED
  BY <1>4, <1>5 DEF Await

\* The holder, with a process in hand, goes on.
LEMMA OnwardStep ==
    ASSUME IInv, NEW m \in Messages, call[m].pc \in {"send", "wait", "interrupt"},
           NEW pc \in {"wait", "interrupt", "grace"}, Goto(m, pc),
           UNCHANGED <<proc, entry, resident, runs, doomed, own, raced, late>>
    PROVE  IInv'
<1> DEFINE p == call[m].hand
<1>1. /\ runs = m /\ m \in Callers /\ TypeOK /\ Ended /\ pc \in Pcs /\ pc \in Driving /\ pc # "run"
      /\ p \in Procs /\ entry \in {0, p} /\ call[m].given \in {0, 1}
  BY Names, Stations DEF IInv, Control, Claimed, Driven, Given, TypeOK, CallRecord
<1>2. /\ call' \in [Callers -> CallRecord] /\ call'[m].pc = pc /\ call'[m].hand = p
      /\ call'[m].given = call[m].given /\ \A d \in Callers \ {m} : call'[d] = call[d]
  BY <1>1, GotoEffect
<1> HIDE DEF p
<1>3. TypeOK' /\ Ended' /\ Known' /\ Keeps(m)
  BY <1>1, <1>2, OwnSteady, KnownSame DEF TypeOK, Ended, Over, Keeps
<1>4. Control'
  BY <1>1, <1>2, <1>3, ToDriving
<1> QED
  BY <1>3, <1>4 DEF IInv

LEMMA GiveUpStep ==
    ASSUME IInv, NEW m \in Messages, call[m].pc \in {"wait", "interrupt", "grace"}, GiveUp(m)
    PROVE  IInv'
<1>0. PICK p \in Procs : p = call[m].hand
  BY Stations DEF IInv, Control, Driven
<1>1. /\ runs = m /\ m \in Callers /\ TypeOK /\ Ended
      /\ entry \in {0, p} /\ call[m].given \in {0, 1}
      /\ Become(p, Closed(proc[p])) /\ Goto(m, "close")
      /\ UNCHANGED <<entry, resident, runs, doomed, own, raced, late>>
  BY <1>0, Names, Stations DEF IInv, Control, Claimed, Driven, Given, TypeOK, CallRecord, GiveUp
<1>2. /\ call' \in [Callers -> CallRecord] /\ call'[m].pc = "close" /\ call'[m].hand = p
      /\ call'[m].given = call[m].given /\ \A d \in Callers \ {m} : call'[d] = call[d]
  BY <1>1, <1>0, GotoEffect, Stations
<1>3. proc[p] \in ProcRecord /\ Over(proc[p]) /\ EndIsLast(proc[p])
  BY <1>1 DEF TypeOK, Ended, EndIsLast
<1>4. TypeOK' /\ Ended'
  BY <1>1, <1>2, <1>3, BecomeTyped, ClosedTyped DEF TypeOK, EndIsLast
<1>5. Known'
  <2>1. Leaving(p, {"close"})'
    BY <1>1, <1>2 DEF Leaving
  <2> QED
    BY <1>1, <1>2, <1>3, <2>1, OwnSteady, KnownOne, ClosedTyped
<1>6. Keeps(m)
  BY <1>1, <1>2 DEF Keeps
<1>7. Control'
  BY <1>1, <1>2, <1>6, Stations, ToDriving
<1> QED
  BY <1>4, <1>5, <1>7 DEF IInv

LEMMA ContextDoneStep ==
    ASSUME IInv, NEW m \in Messages, ContextDone(m)
    PROVE  IInv'
BY OnwardStep, GiveUpStep DEF ContextDone

LEMMA CloseOverStep ==
    ASSUME IInv, NEW m \in Messages, CloseOver(m)
    PROVE  IInv'
<1>0. PICK p \in Procs : p = call[m].hand
  BY Stations DEF CloseOver, IInv, Control, Driven
<1>1. /\ runs = m /\ m \in Callers /\ TypeOK /\ Ended /\ ~proc[p].alive /\ Failed(m)
      /\ entry \in {0, p} /\ call[m].given \in {0, 1} /\ call[m].pc = "close"
      /\ UNCHANGED <<proc, entry, resident, runs, doomed, own, raced, late>>
  BY <1>0, Names, Stations DEF IInv, Control, Claimed, Driven, Given, TypeOK, CallRecord, CloseOver
<1>2. /\ call' \in [Callers -> CallRecord] /\ call'[m].pc = "settle" /\ call'[m].hand = p
      /\ call'[m].given = call[m].given /\ \A d \in Callers \ {m} : call'[d] = call[d]
  BY <1>1, <1>0, FailedEffect
<1>3. TypeOK' /\ Ended' /\ Keeps(m)
  BY <1>1, <1>2 DEF TypeOK, Ended, Over, Keeps
<1>4. Known'
  <2>1. \A q \in Procs : Lives(q)' => Lives(q) /\ q # p
    BY <1>1, <1>2, Names DEF Lives, Cast
  <2>2. \A q \in Procs, S \in {{"evicted"}, {"evicted", "close"}} : q # p /\ Leaving(q, S) => Leaving(q, S)'
    BY <1>1, <1>2, <1>0 DEF Leaving
  <2>3. \A q \in Procs : Found(q)' /\ Awaited(q)' /\ Unopened(q)'
    BY <1>1, <2>1, <2>2 DEF IInv, Known, Found, Awaited, Unopened
  <2>4. Sealed' => Sealed
    BY <1>1, <1>2, Names DEF Sealed
  <2> QED
    BY <2>1, <2>3, <2>4 DEF IInv, Known
<1>5. Control'
  BY <1>1, <1>2, <1>3, Stations, ToDriving
<1> QED
  BY <1>3, <1>4, <1>5 DEF IInv

\* The holder's last step changes nobody else who closes a process.
LEMMA ReleaseSteady ==
    ASSUME TypeOK, NEW c \in Messages \cup {"handoff"}, Release(c), late' = late,
           call[c].pc \notin {"evicted", "close"}
    PROVE  (\A d \in Callers : Steady(d)) /\ (Sealed' => Sealed)
<1>1. c \in Callers
  BY Names
<1>2. \A d \in Callers : Steady(d)
  BY <1>1, ReleaseEffect DEF Steady
<1>3. Sealed' => Sealed
  BY ReleaseEffect DEF Sealed
<1> QED
  BY <1>2, <1>3

LEMMA LetGo ==
    ASSUME IInv, NEW c \in Messages \cup {"handoff"}, runs = c, Release(c),
           entry' \in {0, entry}, Known', UNCHANGED <<proc, resident, doomed, own, late>>
    PROVE  IInv'
<1>1. TypeOK /\ Ended
  BY DEF IInv
<1>2. /\ call' \in [Callers -> CallRecord] /\ runs' = "none" /\ raced' \subseteq raced
  BY <1>1, ReleaseEffect
<1>3. TypeOK'
  BY <1>1, <1>2 DEF TypeOK
<1>4. Ended'
  BY <1>1 DEF Ended, Over
<1>5. Control'
  BY ReleaseStep
<1> QED
  BY <1>3, <1>4, <1>5 DEF IInv

LEMMA RunTurnStep ==
    ASSUME IInv, NEW m \in Messages, RunTurn(m)
    PROVE  IInv'
<1> DEFINE p == call[m].hand
<1>1. /\ call[m].pc = "run" /\ runs = m /\ m \in Callers /\ TypeOK /\ Ended
      /\ p \in Procs /\ entry \in {0, p} /\ call[m].given = 0
      /\ UNCHANGED <<resident, doomed, own, late>>
  BY Names, Stations DEF RunTurn, IInv, Control, Claimed, Driven, Given
<1>2. proc[p] \in ProcRecord /\ Over(proc[p]) /\ EndIsLast(proc[p])
  BY <1>1 DEF TypeOK, Ended, EndIsLast
<1>3. CASE /\ proc[p].state = "idle" /\ proc[p].alive
           /\ Become(p, [proc[p] EXCEPT !.state = "running", !.turn = m,
                                        !.inbox = Append(@, m), !.writing = TRUE])
           /\ call' = [call EXCEPT ![m].pc = "send", ![m].given = @ + 1]
           /\ raced' = raced \cup SendRaces(m, p)
           /\ UNCHANGED <<entry, runs>>
  <2> DEFINE r == [proc[p] EXCEPT !.state = "running", !.turn = m, !.inbox = Append(@, m),
                               !.writing = TRUE]
  <2>1. Append(proc[p].inbox, m) \in Seq(Messages)
    BY <1>2 DEF ProcRecord
  <2>2. /\ r \in ProcRecord /\ EndIsLast(r) /\ Over(r)
        /\ r.state = "running" /\ r.swept = proc[p].swept
    BY <1>2, <1>3, <2>1 DEF ProcRecord, EndIsLast, Over, Turns
  <2> HIDE DEF r
  <2>3. /\ call' \in [Callers -> CallRecord] /\ call'[m].pc = "send" /\ call'[m].hand = p
        /\ call'[m].given = 1 /\ \A d \in Callers \ {m} : call'[d] = call[d]
    BY <1>1, <1>3, Stations DEF TypeOK, CallRecord
  <2>4. raced \subseteq raced' /\ raced' \subseteq Races \X Messages
    BY <1>1, <1>3 DEF TypeOK, Races, SendRaces
  <2>5. TypeOK' /\ Ended'
    BY <1>1, <1>3, <2>2, <2>3, <2>4, BecomeTyped DEF TypeOK, EndIsLast, r
  <2>6. Known'
    BY <1>1, <1>3, <2>2, <2>3, OwnSteady, KnownOne DEF r
  <2>7. Keeps(m)
    BY <1>1, <1>3, <2>3, <2>4 DEF Keeps
  <2>8. Control'
    BY <1>1, <1>3, <2>3, <2>7, Stations, ToDriving
  <2> QED
    BY <2>5, <2>6, <2>8 DEF IInv
<1>4. CASE SendFails(m, p) /\ proc[p].state = "idle" /\ UNCHANGED <<raced, entry, runs>>
  <2> DEFINE r == [proc[p] EXCEPT !.state = "running"]
  <2>1. Become(p, r) /\ Failed(m) /\ ~proc[p].alive
    BY <1>4 DEF SendFails
  <2>2. r \in ProcRecord /\ EndIsLast(r) /\ Over(r) /\ ~r.alive /\ r.state = "running"
    BY <1>2, <1>4, <2>1 DEF ProcRecord, EndIsLast, Over
  <2> HIDE DEF r
  <2>3. /\ call' \in [Callers -> CallRecord] /\ call'[m].pc = "settle" /\ call'[m].hand = p
        /\ call'[m].given = 0 /\ \A d \in Callers \ {m} : call'[d] = call[d]
    BY <1>1, <2>1, FailedEffect
  <2> HIDE DEF p
  <2>4. TypeOK' /\ Ended'
    BY <1>1, <1>4, <2>1, <2>2, <2>3, BecomeTyped DEF TypeOK, EndIsLast
  <2>5. Known'
    BY <1>1, <1>4, <2>1, <2>2, <2>3, OwnSteady, KnownOne
  <2>6. Keeps(m)
    BY <1>1, <1>4, <2>3 DEF Keeps
  <2>7. Control'
    BY <1>1, <1>4, <2>3, <2>6, Stations, ToDriving
  <2> QED
    BY <2>4, <2>5, <2>7 DEF IInv
<1>5. CASE Release(m) /\ UNCHANGED <<proc, entry>>
  <2>1. Known'
    BY <1>1, <1>5, ReleaseSteady, KnownSame
  <2> QED
    BY <1>1, <1>5, <2>1, LetGo
<1>6. CASE /\ proc[p].state \in {"closing", "terminated"}
           /\ entry' = 0 /\ OneShot(m, 1) /\ UNCHANGED <<proc, runs, raced>>
  <2>1. /\ call' \in [Callers -> CallRecord] /\ call'[m].pc = "oneshot" /\ call'[m].given = 1
        /\ \A d \in Callers \ {m} : call'[d] = call[d]
    BY <1>1, <1>6, OneShotEffect
  <2>2. TypeOK' /\ Ended'
    BY <1>1, <1>6, <2>1 DEF TypeOK, Ended, Over
  <2>3. Known'
    <3>1. \A q \in Procs : ~Lives(q)
      BY <1>1, <1>6, ForgetKnown
    <3>2. \A q \in Procs : ~Lives(q)'
      BY <1>1, <1>6, <2>1, <3>1, Names DEF Lives, Cast
    <3> QED
      BY <1>1, <1>6, <3>2, NoneKept
  <2>4. Keeps(m)
    BY <1>1, <1>6, <2>1 DEF Keeps
  <2>5. Control'
    <3>1. entry' = 0 /\ 1 \in 1..2
      BY <1>6
    <3> HIDE DEF p
    <3> QED
      BY <2>1, <2>4, <3>1, ToOneShot
  <2> QED
    BY <2>2, <2>3, <2>5 DEF IInv
<1> QED
  BY <1>3, <1>4, <1>5, <1>6 DEF RunTurn

\* A message whose prompt stdin has not taken forgets its turn.
LEMMA UnsentTyped ==
    ASSUME NEW r \in ProcRecord, EndIsLast(r), Over(r)
    PROVE  /\ Unsent(r) \in ProcRecord /\ EndIsLast(Unsent(r)) /\ Over(Unsent(r))
           /\ Unsent(r).state = r.state /\ Unsent(r).alive = r.alive /\ Unsent(r).swept = r.swept
<1> DEFINE n == Len(r.inbox) - 1
<1>1. r.inbox \in Seq(Messages) /\ Len(r.inbox) \in Nat
  BY DEF ProcRecord
<1>2. SubSeq(r.inbox, 1, n) \in Seq(Messages)
  <2>1. n \in Int /\ \A i \in 1..n : r.inbox[i] \in Messages
    BY <1>1
  <2> HIDE DEF n
  <2> QED
    BY <2>1, SubSeqProperties
<1>3. Unsent(r) \in ProcRecord
  BY <1>2 DEF Unsent, ProcRecord
<1>4. /\ Unsent(r).state = r.state /\ Unsent(r).alive = r.alive /\ Unsent(r).swept = r.swept
      /\ Unsent(r).events = r.events /\ Unsent(r).wire = r.wire /\ Unsent(r).doing = r.doing
  BY DEF Unsent, ProcRecord
<1> QED
  BY <1>3, <1>4 DEF EndIsLast, Over

LEMMA SendBreaksStep ==
    ASSUME IInv, NEW m \in Messages, SendBreaks(m)
    PROVE  IInv'
<1> DEFINE p == call[m].hand
           r == Unsent(proc[p])
<1>1. /\ call[m].pc = "send" /\ runs = m /\ m \in Callers /\ TypeOK /\ Ended
      /\ p \in Procs /\ entry \in {0, p} /\ call[m].given \in {0, 1}
      /\ Become(p, r) /\ Failed(m)
      /\ UNCHANGED <<entry, resident, runs, doomed, own, raced, late>>
  BY Names, Stations DEF SendBreaks, IInv, Control, Claimed, Driven, Given, TypeOK, CallRecord
<1>2. proc[p] \in ProcRecord /\ Over(proc[p]) /\ EndIsLast(proc[p])
  BY <1>1 DEF TypeOK, Ended, EndIsLast
<1>3. /\ r \in ProcRecord /\ EndIsLast(r) /\ Over(r)
      /\ r.alive = proc[p].alive /\ r.state = proc[p].state /\ r.swept = proc[p].swept
  BY <1>2, UnsentTyped
<1> HIDE DEF r
<1>4. /\ call' \in [Callers -> CallRecord] /\ call'[m].pc = "settle" /\ call'[m].hand = p
      /\ call'[m].given = call[m].given /\ \A d \in Callers \ {m} : call'[d] = call[d]
  BY <1>1, FailedEffect
<1> HIDE DEF p
<1>5. TypeOK' /\ Ended'
  BY <1>1, <1>3, <1>4, BecomeTyped DEF TypeOK, EndIsLast
<1>6. Known'
  BY <1>1, <1>3, <1>4, OwnSteady, KnownOne
<1>7. Keeps(m)
  BY <1>1, <1>4 DEF Keeps
<1>8. Control'
  BY <1>1, <1>4, <1>7, Stations, ToDriving
<1> QED
  BY <1>5, <1>6, <1>8 DEF IInv

LEMMA SettleStep ==
    ASSUME IInv, NEW m \in Messages, Settle(m)
    PROVE  IInv'
<1> DEFINE p == call[m].hand
<1>1. call[m].pc \in {"settle", "wait", "grace"}
  BY DEF Settle
<1>2. /\ runs = m /\ p \in Procs /\ entry \in {0, p}
      /\ UNCHANGED <<proc, resident, doomed, own, late>> /\ Release(m)
      /\ \/ entry' = entry
         \/ entry' = 0 /\ proc[p].state = "terminated"
      /\ (\A d \in Callers : Steady(d)) /\ (Sealed' => Sealed)
  BY <1>1, Stations, ReleaseSteady DEF Settle, IInv, Control, Claimed, Driven
<1> HIDE DEF p
<1>3. Known'
  <2>1. CASE entry' = entry
    BY <1>2, <2>1, KnownSame
  <2>2. CASE entry' = 0 /\ proc[p].state = "terminated"
    <3>1. \A q \in Procs : Calm(q)
      BY <1>2 DEF Calm
    <3>2. \A q \in Procs : entry = q => ~proc'[q].alive
      BY <1>2, <2>2, Numbers DEF IInv, Ended, Over
    <3> QED
      BY <1>2, <2>2, <3>1, <3>2, KnownKept
  <2> QED
    BY <1>2, <2>1, <2>2
<1> QED
  BY <1>2, <1>3, LetGo

LEMMA OneShotEndsStep ==
    ASSUME IInv, NEW m \in Messages, OneShotEnds(m)
    PROVE  IInv'
<1>1. /\ runs = m /\ Release(m) /\ UNCHANGED <<proc, entry, resident, doomed, own, late>>
      /\ call[m].pc = "oneshot"
  BY Stations DEF OneShotEnds, IInv, Control, Claimed
<1>2. Known'
  BY <1>1, ReleaseSteady, KnownSame DEF IInv
<1> QED
  BY <1>1, <1>2, LetGo

\* The end of a process, and the return of the call that waited for it.
LEMMA ClosesKnown ==
    ASSUME IInv, NEW c \in Callers, Closes(c), UNCHANGED <<proc, entry, doomed, late>>,
           \A d \in Callers \ {c} : Steady(d), c # "archive" => (Sealed' => Sealed),
           c = "archive" => (Sealed' => \A p \in Procs : ~Lives(p))
    PROVE  Known'
<1>1. ASSUME NEW p \in Procs, Lives(p)'
      PROVE  Lives(p) /\ call[c].hand # p
  <2>1. proc[p].alive /\ ~proc[p].swept /\ call[c].hand # p
    BY <1>1 DEF Lives, Cast, Closes
  <2>2. ~(late /\ call["archive"].hand = p)
    <3> SUFFICES ASSUME late, call["archive"].hand = p PROVE FALSE
      OBVIOUS
    <3>1. call["archive"].pc = "evicted" /\ c # "archive"
      BY <2>1, Numbers DEF IInv, Control, Placed
    <3>2. call'["archive"].hand = p
      BY <3>1, Names DEF Steady
    <3> QED
      BY <1>1, <3>2 DEF Lives, Cast
  <2> QED
    BY <2>1, <2>2 DEF Lives, Cast
<1>2. \A p \in Procs, S \in {{"evicted"}, {"evicted", "close"}} :
        call[c].hand # p /\ Leaving(p, S) => Leaving(p, S)'
  BY DEF Leaving, Steady
<1>3. \A p \in Procs : Found(p)' /\ Awaited(p)' /\ Unopened(p)'
  BY <1>1, <1>2 DEF IInv, Known, Found, Awaited, Unopened
<1>4. Sealed' => \A p \in Procs : ~Lives(p)'
  BY <1>1 DEF IInv, Known
<1> QED
  BY <1>3, <1>4 DEF Known

LEMMA MessageEvictedStep ==
    ASSUME IInv, NEW m \in Messages, Evicted(m)
    PROVE  IInv'
<1>1. /\ call[m].pc = "evicted" /\ runs = m /\ call[m].given = 0 /\ entry = 0 /\ m \in Callers
      /\ UNCHANGED <<proc, entry, resident, runs, doomed, own, raced, late>> /\ Goto(m, "open")
      /\ TypeOK /\ Closes(m)
  BY Names, Stations DEF Evicted, IInv, Control, Claimed, Given, Emptied
<1>2. /\ call' \in [Callers -> CallRecord] /\ call'[m].pc = "open"
      /\ call'[m].given = 0 /\ \A d \in Callers \ {m} : call'[d] = call[d]
  BY <1>1, GotoEffect, Stations
<1>3. TypeOK' /\ Ended' /\ Keeps(m)
  BY <1>1, <1>2 DEF IInv, TypeOK, Ended, Over, Keeps
<1>5. Known'
  <2>1. (\A d \in Callers \ {m} : Steady(d)) /\ m # "archive" /\ (Sealed' => Sealed)
    BY <1>1, <1>2, Names DEF Steady, Sealed
  <2> QED
    BY <1>1, <2>1, ClosesKnown
<1>4. Control'
  BY <1>1, <1>2, <1>3, Stations, ToStarting
<1> QED
  BY <1>3, <1>4, <1>5 DEF IInv
-----------------------------------------------------------------------------
(* Handoff and Archive. *)

\* A step of Handoff or Archive that touches no message and lets nothing go.
LEMMA CallerStep ==
    ASSUME IInv, NEW c \in {"handoff", "archive"}, call'[c].pc \in Ending \cup {"wait"},
           c = "handoff" => /\ call'[c].pc \in {"evict", "evicted"} /\ runs' = "handoff"
                            /\ runs = "handoff" \/ late' = (late \/ call["archive"].pc \in {"evict", "evicted"}),
           call'[c].pc = "evicted" => entry' = 0,
           (c = "archive" /\ call'[c].pc \in Ending /\ ~late') =>
               /\ runs' \notin Messages
               /\ call'[c].pc # "gone" => runs' # "handoff"
               /\ call'[c].pc # "evict" => entry' = 0,
           (c = "archive" /\ call'[c].pc # "evicted") => call'[c].hand = 0,
           \A d \in Callers \ {c} : call'[d] = call[d],
           runs' = runs \/ (runs = "none" /\ runs' = "handoff"),
           late => late', raced' = raced, entry' \in {0, entry}
    PROVE  Control'
<1>1. \A m \in Messages : call'[m] = call[m]
  BY Names
<1>2. c = "archive" => call'["handoff"] = call["handoff"]
  BY Names
<1>3. c = "handoff" => call'["archive"] = call["archive"]
  BY Names
<1>4. Placed'
  BY <1>1, <1>2, <1>3 DEF IInv, Control, Placed, Ending
<1>5. Claimed'
  <2>1. \A m \in Messages : call[m].pc \in Holding => runs = m /\ m \notin {"none", "handoff"}
    BY Names DEF IInv, Control, Claimed
  <2>2. \A m \in Messages : call'[m].pc \in Holding => runs' = m
    BY <1>1, <2>1
  <2>3. call'["handoff"].pc \in {"evict", "evicted"} => runs' = "handoff"
    BY <1>2 DEF IInv, Control, Claimed
  <2> QED
    BY <2>2, <2>3 DEF Claimed
<1>6. Driven'
  BY <1>1 DEF IInv, Control, Driven
<1>7. Emptied'
  BY <1>1, <1>2 DEF IInv, Control, Emptied
<1>8. Alone'
  <2>1. CASE c = "archive"
    BY <2>1 DEF Alone
  <2>2. CASE c = "handoff"
    <3> SUFFICES ASSUME ~late', call["archive"].pc \in Ending
                 PROVE  /\ runs' \notin Messages
                        /\ call["archive"].pc # "gone" => runs' # "handoff"
                        /\ call["archive"].pc # "evict" => entry' = 0
      BY <1>3, <2>2 DEF Alone
    <3>1. /\ call["archive"].pc # "gone" => runs # "handoff"
          /\ call["archive"].pc # "evict" => entry = 0
      BY DEF IInv, Control, Alone
    <3>2. call["archive"].pc # "gone" => runs' # "handoff"
      BY <2>2, <3>1 DEF Ending
    <3> QED
      BY <2>2, <3>1, <3>2, Names
  <2> QED
    BY <2>1, <2>2
<1>9. Given' /\ GivenOnce'
  BY <1>1 DEF IInv, Control, Given, GivenOnce, Raced
<1> QED
  BY <1>4, <1>5, <1>6, <1>7, <1>8, <1>9 DEF Control

\* Such a step keeps the rest if it moves the caller on.
LEMMA CallerTyped ==
    ASSUME IInv, NEW c \in {"handoff", "archive"}, NEW pc \in Pcs, Goto(c, pc),
           runs' \in {runs, "handoff"}, late' \in BOOLEAN, late => late', pc # "gone",
           call[c].pc \notin {"evicted", "close"},
           UNCHANGED <<proc, entry, resident, doomed, own, raced>>
    PROVE  TypeOK' /\ Ended' /\ Known'
<1>1. /\ call' \in [Callers -> CallRecord] /\ TypeOK /\ call'[c].pc = pc
      /\ \A d \in Callers \ {c} : call'[d] = call[d]
  BY GotoEffect, Names DEF IInv
<1>2. (\A d \in Callers : Steady(d)) /\ (Sealed' => Sealed)
  BY <1>1, Names DEF Steady, Sealed
<1> QED
  BY <1>1, <1>2, KnownSame DEF TypeOK, Ended, Over, IInv

LEMMA HandoffStep ==
    ASSUME IInv, Handoff
    PROVE  IInv'
<1>1. /\ runs = "none" /\ runs' = "handoff" /\ Goto("handoff", "evict") /\ TypeOK
      /\ call["handoff"].pc = "idle"
      /\ late' = (late \/ call["archive"].pc \in {"evict", "evicted"})
      /\ UNCHANGED <<proc, entry, resident, doomed, own, raced>>
  BY DEF Handoff, IInv
<1>2. "evict" \in Pcs /\ "evict" \in Ending
  BY DEF Pcs, Ending
<1>3. call'["handoff"].pc = "evict" /\ \A d \in Callers \ {"handoff"} : call'[d] = call[d]
  BY <1>1, <1>2, GotoEffect, Names
<1>4. TypeOK' /\ Ended' /\ Known'
  BY <1>1, <1>2, CallerTyped DEF TypeOK
<1>5. Control'
  BY <1>1, <1>2, <1>3, CallerStep
<1> QED
  BY <1>4, <1>5 DEF IInv

LEMMA ArchiveStep ==
    ASSUME IInv, Archive
    PROVE  IInv'
<1>1. /\ call["archive"].pc = "idle" /\ Goto("archive", IF runs = "none" THEN "evict" ELSE "wait")
      /\ UNCHANGED <<proc, entry, resident, runs, doomed, own, raced, late>> /\ TypeOK
  BY DEF Archive, IInv
<1>2. {"evict", "wait"} \subseteq Pcs /\ "evict" \in Ending /\ "wait" \notin Ending
  BY DEF Pcs, Ending
<1>3. PICK pc \in {"evict", "wait"} : Goto("archive", pc) /\ (pc = "evict" => runs = "none")
  BY <1>1
<1>4. /\ call'["archive"].pc = pc /\ call'["archive"].hand = 0
      /\ \A d \in Callers \ {"archive"} : call'[d] = call[d]
  BY <1>1, <1>2, <1>3, GotoEffect, Names DEF IInv, Control, Placed
<1>5. TypeOK' /\ Ended' /\ Known'
  BY <1>1, <1>2, <1>3, CallerTyped DEF TypeOK
<1>6. Control'
  <2>1. "none" \notin Messages
    BY Names
  <2> QED
    BY <1>1, <1>2, <1>3, <1>4, <2>1, CallerStep
<1> QED
  BY <1>5, <1>6 DEF IInv

LEMMA OutOfPatienceStep ==
    ASSUME IInv, OutOfPatience
    PROVE  IInv'
<1>1. /\ call["archive"].pc = "wait" /\ Goto("archive", "evict") /\ late' = TRUE
      /\ UNCHANGED <<proc, entry, resident, runs, doomed, own, raced>> /\ TypeOK
  BY DEF OutOfPatience, IInv
<1>2. "evict" \in Pcs /\ "evict" \in Ending
  BY DEF Pcs, Ending
<1>3. /\ call'["archive"].pc = "evict" /\ call'["archive"].hand = 0
      /\ \A d \in Callers \ {"archive"} : call'[d] = call[d]
  BY <1>1, <1>2, GotoEffect, Names DEF IInv, Control, Placed
<1>4. TypeOK' /\ Ended' /\ Known'
  BY <1>1, <1>2, CallerTyped
<1>5. Control'
  BY <1>1, <1>2, <1>3, CallerStep
<1> QED
  BY <1>4, <1>5 DEF IInv

LEMMA EvictPersistentStep ==
    ASSUME IInv, NEW c \in {"handoff", "archive"}, EvictPersistent(c)
    PROVE  IInv'
<1>1. /\ call[c].pc = "evict" /\ Evict /\ TypeOK /\ Ended
      /\ call' = [call EXCEPT ![c].pc = "evicted", ![c].hand = entry]
      /\ UNCHANGED <<proc, resident, runs, own, raced, late>> /\ c \in Callers
  BY Names DEF EvictPersistent, IInv
<1>2. "evicted" \in Pcs /\ {"evict", "evicted"} \subseteq Ending
  BY DEF Pcs, Ending
<1>4. /\ call' \in [Callers -> CallRecord] /\ call'[c].pc = "evicted" /\ call'[c].hand = entry
      /\ \A d \in Callers \ {c} : call'[d] = call[d]
  <2>1. entry \in Procs \cup {0}
    BY <1>1 DEF TypeOK
  <2> QED
    BY <1>1, <1>2, <2>1, HandEffect
<1>3. Known' /\ entry' = 0 /\ doomed' \subseteq Procs
  BY <1>1, <1>4, EvictKnown
<1>5. TypeOK' /\ Ended'
  BY <1>1, <1>3, <1>4 DEF TypeOK, Ended, Over
<1>6. c = "handoff" => runs = "handoff"
  BY <1>1 DEF IInv, Control, Claimed
<1>7. (c = "archive" /\ ~late) => runs \notin Messages /\ runs # "handoff"
  BY <1>1, <1>2 DEF IInv, Control, Alone
<1>8. Control'
  BY <1>1, <1>2, <1>3, <1>4, <1>6, <1>7, CallerStep
<1> QED
  BY <1>3, <1>5, <1>8 DEF IInv

LEMMA HandoffEvictedStep ==
    ASSUME IInv, Evicted("handoff")
    PROVE  IInv'
<1>1. /\ Release("handoff") /\ UNCHANGED <<proc, entry, resident, doomed, own, late>>
      /\ runs = "handoff" /\ Closes("handoff") /\ TypeOK
  BY DEF Evicted, IInv, Control, Claimed
<1>2. Known'
  <2>1. (\A d \in Callers \ {"handoff"} : Steady(d)) /\ (Sealed' => Sealed)
    BY <1>1, ReleaseEffect DEF Steady, Sealed
  <2> QED
    BY <1>1, <2>1, Names, ClosesKnown
<1> QED
  BY <1>1, <1>2, LetGo

LEMMA ArchiveEvictedStep ==
    ASSUME IInv, Evicted("archive")
    PROVE  IInv'
<1>1. /\ call["archive"].pc = "evicted" /\ Closes("archive") /\ ArchiveEnds /\ TypeOK
      /\ UNCHANGED <<proc, entry, resident, runs, doomed, own, raced, late>>
  BY DEF Evicted, IInv
<1>2. PICK checked \in SUBSET {m \in Messages : call[m].pc = "idle"} :
        call' = [c \in Callers |-> CASE c \in checked -> Fresh("checked")
                                     [] c = "archive" -> Fresh("gone")
                                     [] OTHER -> call[c]]
  BY <1>1 DEF ArchiveEnds
<1>3. "checked" \in Pcs /\ "gone" \in Pcs /\ "gone" \in Ending /\ "evicted" \in Ending
  BY DEF Pcs, Ending
<1>4. /\ \A c \in checked : c \in Messages /\ c \in Callers /\ c # "archive" /\ c # "handoff"
                            /\ call[c].pc = "idle" /\ call'[c] = Fresh("checked")
      /\ call'["archive"] = Fresh("gone")
      /\ \A c \in Callers \ (checked \cup {"archive"}) : call'[c] = call[c]
  BY <1>2, Names
<1>5. call' \in [Callers -> CallRecord]
  BY <1>1, <1>2, <1>3, FreshTyped DEF TypeOK
<1>6. /\ \A c \in checked : call'[c].pc = "checked" /\ call'[c].given = 0
      /\ call'["archive"].pc = "gone" /\ call'["archive"].hand = 0 /\ call'["handoff"] = call["handoff"]
      /\ \A m \in Messages \ checked : call'[m] = call[m]
  BY <1>3, <1>4, FreshTyped, Names DEF Fresh
<1>7. TypeOK' /\ Ended'
  BY <1>1, <1>5 DEF IInv, TypeOK, Ended, Over
<1>9. Known'
  <2>1. \A d \in Callers \ {"archive"} : Steady(d)
    BY <1>4 DEF Steady
  <2>2. ASSUME ~late, NEW p \in Procs, Lives(p)
        PROVE  FALSE
    <3>1. entry = 0 /\ runs \notin Messages /\ runs # "handoff"
      BY <1>1, <1>3, <2>2 DEF IInv, Control, Alone
    <3>2. PICK c \in Callers : call[c].pc = "evicted" /\ call[c].hand = p
      BY <2>2, <3>1, Numbers DEF IInv, Known, Found, Leaving
    <3>3. c \notin Messages /\ c # "handoff"
      BY <3>1, <3>2, Stations DEF IInv, Control, Claimed
    <3> QED
      BY <1>1, <2>2, <3>2, <3>3 DEF Callers, Closes, Lives
  <2> QED
    BY <1>1, <2>1, <2>2, Names, ClosesKnown DEF Sealed
<1>8. Control'
  <2>1. "checked" \notin Holding /\ "checked" \notin Driving /\ "checked" \notin Without
    BY DEF Holding, Driving, Starting, Without
  <2>2. Placed'
    BY <1>6, <1>3 DEF IInv, Control, Placed
  <2>3. Claimed'
    BY <1>1, <1>6, <2>1 DEF IInv, Control, Claimed
  <2>4. Driven' /\ Emptied'
    BY <1>1, <1>6, <2>1 DEF IInv, Control, Driven, Emptied
  <2>5. Alone'
    BY <1>1, <1>3, <1>6 DEF IInv, Control, Alone
  <2>6. \A m \in checked : call'[m].given <= 1
    BY <1>6
  <2>7. Given'
    BY <1>6, <2>1, <2>6 DEF IInv, Control, Given
  <2>8. GivenOnce'
    BY <1>1, <1>6, <2>6 DEF IInv, Control, GivenOnce, Raced
  <2> QED
    BY <2>2, <2>3, <2>4, <2>5, <2>7, <2>8 DEF Control
<1> QED
  BY <1>7, <1>8, <1>9 DEF IInv
-----------------------------------------------------------------------------
(* The invariant and what follows from it. *)

LEMMA NextInv == IInv /\ [Next]_vars => IInv'
<1> SUFFICES ASSUME IInv, [Next]_vars PROVE IInv'
  OBVIOUS
<1>1. ASSUME NEW p \in Procs, Agent(p)
      PROVE  IInv'
  BY <1>1, ReadStep, BeginStep, BeginOwnStep, FinishStep, DieStep DEF Agent
<1>2. ASSUME NEW p \in Procs, Session(p)
      PROVE  IInv'
  BY <1>2, PumpStartStep, PumpResultStep, TerminateStep DEF Session
<1>3. ASSUME NEW p \in Procs, Conductor(p)
      PROVE  IInv'
  BY <1>3, ReadStartStep, ReadResultStep, ReadEndStep DEF Conductor
<1>4. ASSUME NEW p \in Procs, Close(p) \/ Reclaim(p)
      PROVE  IInv'
  BY <1>4, CloseStep, ReclaimStep
<1>5. ASSUME NEW m \in Messages, StartTurn(m)
      PROVE  IInv'
  BY <1>5, StartTurnStep
<1>6. ASSUME NEW m \in Messages, Turn(m) \/ Interrupted(m)
      PROVE  IInv'
  <2>1. CASE PromptSent(m) \/ Interrupted(m)
    BY <2>1, OnwardStep DEF PromptSent, Interrupted
  <2>2. CASE InterruptFails(m) \/ GraceOver(m)
    BY <2>2, GiveUpStep DEF InterruptFails, GraceOver
  <2> QED
    BY <1>6, <2>1, <2>2, AcquireStep, MessageEvictedStep, OpenStep, ConductStep, AwaitStep,
       RunTurnStep, SendBreaksStep, ContextDoneStep, CloseOverStep, SettleStep, OneShotEndsStep DEF Turn
<1>7. CASE Archive \/ Archiving
  BY <1>7, ArchiveStep, OutOfPatienceStep, EvictPersistentStep, ArchiveEvictedStep DEF Archiving
<1>8. CASE Handoff \/ HandingOff
  BY <1>8, HandoffStep, EvictPersistentStep, HandoffEvictedStep DEF HandingOff
<1>9. CASE UNCHANGED vars
  <2>1. /\ UNCHANGED <<proc, entry, resident, runs, doomed>>
        /\ UNCHANGED <<call, own, raced, late>>
    BY <1>9 DEF vars
  <2>2. TypeOK' /\ Ended' /\ Known'
    BY <2>1, KnownSame DEF IInv, TypeOK, Ended, Over, Steady, Sealed
  <2>3. Control'
    BY <2>1, OthersStep DEF IInv
  <2> QED
    BY <2>2, <2>3 DEF IInv
<1> QED
  BY <1>1, <1>2, <1>3, <1>4, <1>5, <1>6, <1>7, <1>8, <1>9 DEF Next

LEMMA Invariance == Spec => []IInv
BY InitInv, NextInv, PTL DEF Spec

\* Every variable keeps its type, and the end of a process is the last event
\* of its session and comes once (PersistentSession.terminate).
THEOREM TypeCorrect == Spec => []TypeOK
<1>1. IInv => TypeOK
  BY DEF IInv
<1> QED
  BY <1>1, Invariance, PTL

\* A process that lives is the pool's, or a caller that has taken it from the pool
\* waits for its end, and then the pool has none and nobody else has one.
LEMMA Only ==
    ASSUME IInv, NEW p \in Procs, NEW q \in Procs, Lives(p), Lives(q)
    PROVE  p = q
<1>1. {"evicted"} \subseteq Holding /\ "evicted" \in Without /\ "evicted" \in Ending
  BY Stations DEF Holding
<1>2. ASSUME NEW r \in Procs, Lives(r), entry # r
      PROVE  /\ entry = 0
             /\ \/ runs \in Callers /\ call[runs].hand = r
                \/ runs \notin Callers \ {"archive"} /\ call["archive"].hand = r
  <2>1. PICK c \in Callers : call[c].pc = "evicted" /\ call[c].hand = r
    BY <1>2 DEF IInv, Known, Found, Leaving
  <2>2. CASE c \in Messages \cup {"handoff"}
    BY <1>1, <2>1, <2>2 DEF IInv, Control, Claimed, Emptied
  <2>3. CASE c = "archive"
    <3>1. ~late
      BY <1>2, <2>1, <2>3 DEF Lives, Cast
    <3>2. runs \notin Messages /\ runs # "handoff" /\ entry = 0
      BY <1>1, <2>1, <2>3, <3>1 DEF IInv, Control, Alone
    <3> QED
      BY <2>1, <2>3, <3>2 DEF Callers
  <2> QED
    BY <2>2, <2>3 DEF Callers
<1>3. runs # "archive"
  BY DeskAssumption DEF IInv, TypeOK, Turns
<1> QED
  BY <1>2, <1>3, Numbers

\* Who holds the session and has no process keeps it from all others.
LEMMA NoneLives ==
    ASSUME IInv, entry = 0, NEW c \in Messages \cup {"handoff"}, runs = c, call[c].pc # "evicted"
    PROVE  \A p \in Procs : ~Lives(p)
BY Sole, Numbers

\* Of the processes that live, but those that the pool reclaimed or an overlapped
\* Archive is closing, and a turn's own (the one-shot run of runWithAgentService),
\* there is at most one.
THEOREM SingleWriter == Spec => []OneWriter
<1>1. IInv => OneWriter
  <2> SUFFICES ASSUME IInv PROVE Cardinality(Writers) <= 1
    BY DEF OneWriter
  <2>1. \E x : \A y \in Writers : y = x
    <3>0. Writers = {p \in Procs : Lives(p)} \cup {m \in Messages : call[m].pc = "oneshot"}
      BY DEF Writers, Lives
    <3>1. CASE \E m \in Messages : call[m].pc = "oneshot"
      <4>1. \A m \in Messages : call[m].pc = "oneshot" => runs = m /\ entry = 0
        BY Stations DEF IInv, Control, Claimed, Emptied
      <4>2. \A p \in Procs : ~Lives(p)
        BY <3>1, <4>1, NoneLives
      <4>3. \A y \in Writers : y = runs
        BY <3>0, <4>1, <4>2
      <4> QED
        BY <4>3
    <3>2. CASE \A m \in Messages : call[m].pc # "oneshot"
      <4>1. \A y, z \in Writers : y = z
        BY <3>0, <3>2, Only
      <4> QED
        BY <4>1
    <3> QED
      BY <3>1, <3>2
  <2>2. PICK x : \A y \in Writers : y = x
    BY <2>1
  <2>3. CASE Writers = {}
    <3>1. Cardinality(Writers) = 0
      BY <2>3, FS_EmptySet
    <3> QED
      BY <3>1
  <2>4. CASE Writers # {}
    <3>1. Writers = {x}
      BY <2>2, <2>4
    <3>2. Cardinality(Writers) = 1
      BY <3>1, FS_Singleton
    <3> QED
      BY <3>2
  <2> QED
    BY <2>3, <2>4
<1> QED
  BY <1>1, Invariance, PTL

\* A prompt is given to one process, unless the pool refused the process that
\* had been opened with it and the turn was run again.
THEOREM PromptOnce == Spec => []GivenOnce
<1>1. IInv => GivenOnce
  BY DEF IInv, Control
<1> QED
  BY <1>1, Invariance, PTL

\* Handoff goes on from the eviction of the session only when it returns.
LEMMA OnlyItself ==
    ASSUME IInv, [Next]_vars, Returns
    PROVE  Evicted("handoff")
<1>1. call["handoff"].pc = "evicted" /\ call'["handoff"].pc # "evicted" /\ TypeOK /\ runs = "handoff"
  BY DEF Returns, IInv, Control, Claimed
<1>2. \A m \in Messages : m # "handoff" /\ call[m].pc \notin Holding
  BY <1>1, Names DEF IInv, Control, Claimed
<1>3. call' # call
  BY <1>1
<1>4. ASSUME NEW p \in Procs, Conductor(p)
      PROVE  FALSE
  <2>1. ~ReadStart(p)
    BY <1>3 DEF ReadStart
  <2>2. \A x \in Turns \cup {"error"} : Finished(p, x) => FALSE
    BY <1>1, FinishedCalls
  <2> QED
    BY <1>4, <2>1, <2>2 DEF Conductor, ReadResult, ReadEnd
<1>5. ASSUME NEW m \in Messages, StartTurn(m)
      PROVE  FALSE
  BY <1>1, <1>5, Names DEF StartTurn
<1>6. ASSUME NEW m \in Messages, Turn(m) \/ Interrupted(m)
      PROVE  FALSE
  <2>1. call[m].pc \in Holding
    BY <1>6 DEF Turn, Acquire, Evicted, Open, Conduct, Await, RunTurn, PromptSent, SendBreaks, ContextDone,
       Interrupted, InterruptFails, GraceOver, CloseOver, Settle, OneShotEnds, Holding, Starting, Driving
  <2> QED
    BY <1>2, <2>1
<1>7. CASE Archive \/ OutOfPatience
  <2>1. PICK pc \in {"evict", "wait"} : Goto("archive", pc)
    BY <1>7 DEF Archive, OutOfPatience
  <2> QED
    BY <1>1, <2>1, Names DEF Goto, TypeOK
<1>8. CASE EvictPersistent("archive")
  BY <1>1, <1>8, Names DEF EvictPersistent, TypeOK
<1>9. CASE Evicted("archive")
  <2>1. PICK checked \in SUBSET {m \in Messages : call[m].pc = "idle"} :
          call' = [c \in Callers |-> CASE c \in checked -> Fresh("checked")
                                       [] c = "archive" -> Fresh("gone")
                                       [] OTHER -> call[c]]
    BY <1>9 DEF Evicted, ArchiveEnds
  <2> QED
    BY <1>1, <2>1, Names
<1>10. ~Handoff /\ ~EvictPersistent("handoff")
  BY <1>1 DEF Handoff, EvictPersistent
<1>11. ASSUME NEW p \in Procs, Agent(p) \/ Session(p) \/ Close(p) \/ Reclaim(p)
       PROVE  FALSE
  BY <1>3, <1>11 DEF Agent, Read, Begin, BeginOwn, Finish, Die, Session, PumpStart, PumpResult, Terminate,
     Close, Reclaim
<1>12. ~UNCHANGED vars
  BY <1>3 DEF vars
<1> QED
  BY <1>4, <1>5, <1>6, <1>7, <1>8, <1>9, <1>10, <1>11, <1>12 DEF Next, Archiving, HandingOff

\* When Handoff returns the command that resumes the session elsewhere, and from
\* the end of an Archive that nobody overlapped with, every process of the session
\* has ended, but one that the pool reclaimed or an overlapped Archive is closing.
THEOREM Vacated == Spec => ReleasedForGood
<1>1. ASSUME IInv, IInv', [Next]_vars, Returns
      PROVE  Writers' = {}
  <2>1. /\ Release("handoff") /\ Closes("handoff") /\ UNCHANGED <<proc, entry, doomed, late>>
        /\ call["handoff"].pc = "evicted" /\ runs = "handoff" /\ entry = 0 /\ TypeOK
    BY <1>1, OnlyItself DEF Evicted, Returns, IInv, Control, Claimed, Emptied
  <2>2. ASSUME NEW p \in Procs, Lives(p)'
        PROVE  FALSE
    <3>1. Lives(p)
      BY <2>1, <2>2, ReleaseEffect DEF Lives, Cast
    <3>2. call["handoff"].hand = p
      BY <1>1, <2>1, <3>1, Sole, Numbers
    <3> QED
      BY <2>1, <3>1, <3>2 DEF Closes, Lives
  <2>3. ASSUME NEW m \in Messages, call'[m].pc = "oneshot"
        PROVE  FALSE
    <3>1. runs' = m
      BY <1>1, <2>3, Stations DEF IInv, Control, Claimed
    <3> QED
      BY <2>1, <3>1, ReleaseEffect, Names
  <2> QED
    BY <2>2, <2>3 DEF Writers, Lives
<1>2. ASSUME IInv', Sealed'
      PROVE  Writers' = {}
  <2>1. \A p \in Procs : ~Lives(p)'
    BY <1>2 DEF IInv, Known
  <2>2. \A m \in Messages : call'[m].pc # "oneshot"
    BY <1>2, Stations DEF IInv, Control, Claimed, Alone, Sealed
  <2> QED
    BY <2>1, <2>2 DEF Writers, Lives
<1>3. IInv /\ [Next]_vars => [Returns \/ Sealed' => Writers' = {}]_vars
  BY <1>1, <1>2, NextInv
<1> QED
  BY <1>3, Invariance, PTL DEF Spec, ReleasedForGood
=============================================================================
