--------------------------- MODULE DeskFlowProofs ---------------------------
(***************************************************************************)
(* Proofs about Desk, continued: a message that waits is attended to, the  *)
(* result it is told is its own, and Desk implements AgentSession.         *)
(***************************************************************************)
EXTENDS DeskProofs

\* Where a message has registered a turn with its process and waits for it, where
\* it has parted with the process; where it works with a process it has opened or
\* asked, and where it has it in hand.
Waiting == {"send", "wait", "interrupt", "grace"}
Parted == {"close", "settle"}
Opening == {"conduct", "await"}
Asking == Opening \cup Waiting
Using == Asking \cup {"run"}

Hand(m) == proc[call[m].hand]

\* The process whose first turn is m's, before its Conductor has read a result.
IsFirst(m) == call[m].pc \in Opening /\ ~Hand(m).heard
First(p) == \E m \in Messages : call[m].hand = p /\ IsFirst(m)

\* The next result that the Conductor reads of m's process will be m's.
Expects(m) ==
    \/ IsFirst(m)
    \/ /\ call[m].pc \in Waiting /\ Hand(m).turn = m
       /\ ~Raced("early", m) /\ ~Raced("overtaken", m)

\* What the agent writes: the start of a turn, its result, the start of the
\* next one; and no result comes while the session is idle.
Spoken(r) ==
    /\ \A i \in 1..(Len(r.wire) - 1) : (r.wire[i] = "start") # (r.wire[i + 1] = "start")
    /\ (r.alive /\ r.wire # <<>>) => ((r.wire[Len(r.wire)] = "start") <=> (r.doing # "none"))
    /\ r.state = "idle" =>
          /\ r.wire = <<>> => r.doing = "none"
          /\ r.wire # <<>> => r.wire[1] = "start"

\* The next event is no start of a turn of the agent's own.
Led(r) ==
    /\ r.events = <<>> => r.state # "idle"
    /\ r.events # <<>> => r.events[1] # "start"

\* m's turn is the next to end of those that the agent is asked for, is in, or
\* has ended: from stdin to the events of the session.
OnItsWay(r, m) ==
    \/ r.events # <<>> /\ r.events[1] \in {m, "end"}
    \/ /\ r.events = <<>>
       /\ \/ Len(r.wire) > 0 /\ r.wire[1] = m
          \/ Len(r.wire) > 1 /\ r.wire[1] = "start" /\ r.wire[2] = m
          \/ r.wire \in {<<>>, <<"start">>} /\ (r.doing = m \/ ~r.alive)
          \/ r.wire = <<>> /\ r.doing = "none" /\ r.inbox # <<>> /\ r.inbox[1] = m

\* In the events of a session every result follows the start of its turn, but
\* the first: the start of a turn that a message asked for is no event.
Bracketed(r) ==
    /\ \A i \in 2..Len(r.events) : r.events[i] \in Turns => r.events[i - 1] = "start"
    /\ r.events # <<>> => (r.state = "running" <=> r.events[Len(r.events)] = "start")

\* The session is in a turn, or has the result of one, whose start is no event.
Due(r) == IF r.events = <<>> THEN r.state = "running" ELSE r.events[1] \in Turns

\* A message that overtook a turn of the agent's own is not told a result.
Overtaker(m) == Raced("overtaken", m) /\ call[m].pc \in Waiting
Overtaken(p) == \E m \in Messages : call[m].hand = p /\ Overtaker(m)
Works(r) == r.alive /\ r.state \in {"running", "idle"}
Sane(p) == Works(proc[p]) /\ ~Overtaken(p)

Outrun == \A m \in Messages :
    /\ Raced("overtaken", m) => call[m].pc \in Waiting \cup Parted
    /\ (Raced("overtaken", m) /\ call[m].pc \in Parted) => ~Works(Hand(m))
    /\ Overtaker(m) =>
          /\ call[m].outcome = "none"
          /\ Hand(m).turn = m => Hand(m).events # <<>> /\ Hand(m).events[1] = "start"

Untold == \A m \in Messages :
    call[m].pc \notin Waiting \cup Parted => call[m].outcome = "none"

Registered == \A m \in Messages : call[m].pc \in Waiting =>
    Hand(m).turn = m \/ call[m].outcome # "none" \/ Raced("early", m) \/ Raced("overtaken", m)

Speech == \A p \in Procs : Spoken(proc[p])
Adopted == \A m \in Messages : Expects(m) => Led(Hand(m))
Routed == \A m \in Messages : (Expects(m) /\ ~Raced("crossed", m)) => OnItsWay(Hand(m), m)
Ordered == \A p \in Procs : Sane(p) =>
    /\ Bracketed(proc[p])
    /\ Due(proc[p]) => proc[p].turn # "none" \/ First(p)

Talk ==
    /\ Speech /\ Adopted /\ Routed /\ Ordered /\ Outrun /\ Untold /\ Registered
    /\ ResultIsOwn

\* The inductive invariant.
Flow == IInv /\ Talk
-----------------------------------------------------------------------------
(* What the agent, the pump and the pool do to the record of a process. *)

\* Of a step from o to r: it keeps order in the output and in the events, and
\* the turn that is next; the process does not come to life.
Carries(o, r) ==
    /\ r.heard = o.heard /\ r.turn = o.turn
    /\ r.alive => o.alive
    /\ r.state \in {"running", "idle"} => o.state \in {"running", "idle"}
    /\ Spoken(o) => Spoken(r)
    /\ Led(o) => Led(r)
    /\ (o.events # <<>> /\ o.events[1] = "start") => (r.events # <<>> /\ r.events[1] = "start")
    /\ (r.alive /\ r.state \in {"running", "idle"} /\ Spoken(o) /\ Bracketed(o))
         => Bracketed(r) /\ (Due(r) => Due(o))

LEMMA Marks ==
    /\ "start" \notin Turns /\ "end" \notin Turns /\ "start" # "end" /\ "none" \notin Turns
    /\ Messages \subseteq Turns /\ "own" \in Turns
    /\ \A m \in Messages : m # "start" /\ m # "end" /\ m # "none" /\ m # "own"
BY Names DEF Turns

\* A queue, one longer and one shorter.
LEMMA Longer ==
    ASSUME NEW S, NEW s \in Seq(S), NEW x \in S, NEW t, t = Append(s, x)
    PROVE  /\ Len(t) = Len(s) + 1 /\ Len(s) \in Nat /\ t # <<>>
           /\ \A i \in 1..Len(s) : t[i] = s[i]
           /\ t[Len(s) + 1] = x
           /\ s = <<>> <=> Len(s) = 0
OBVIOUS

LEMMA Shorter ==
    ASSUME NEW S, NEW s \in Seq(S), s # <<>>
    PROVE  /\ Len(Tail(s)) = Len(s) - 1 /\ Len(s) \in Nat /\ Len(s) > 0
           /\ \A i \in 1..Len(Tail(s)) : Tail(s)[i] = s[i + 1]
           /\ Tail(s) = <<>> <=> Len(s) = 1
           /\ Head(s) = s[1] /\ s[1] \in S
<1>1. /\ Len(s) \in Nat /\ Len(s) > 0 /\ Head(s) = s[1] /\ s[1] \in S
      /\ Len(Tail(s)) = Len(s) - 1 /\ Tail(s) \in Seq(S)
  OBVIOUS
<1>2. \A i \in 1..Len(Tail(s)) : Tail(s)[i] = s[i + 1]
  OBVIOUS
<1>3. \A u \in Seq(S) : u = <<>> <=> Len(u) = 0
  OBVIOUS
<1>4. Tail(s) = <<>> <=> Len(Tail(s)) = 0
  BY <1>1, <1>3
<1> QED
  BY <1>1, <1>2, <1>4

LEMMA SameOutput ==
    ASSUME NEW o, NEW r, r.heard = o.heard, r.turn = o.turn, r.alive => o.alive,
           r.state = o.state \/ r.state \notin {"running", "idle"},
           r.events = o.events, r.wire = o.wire, r.doing = o.doing
    PROVE  Carries(o, r)
BY DEF Carries, Spoken, Led, Bracketed, Due

LEMMA BeginCarries ==
    ASSUME NEW o \in ProcRecord, o.alive, o.doing = "none", o.inbox # <<>>, NEW r,
           r = [o EXCEPT !.doing = Head(o.inbox), !.inbox = Tail(@), !.wire = Append(@, "start")]
    PROVE  /\ Carries(o, r)
           /\ \A m \in Messages : OnItsWay(o, m) => OnItsWay(r, m)
<1>1. /\ r.wire = Append(o.wire, "start") /\ r.doing = Head(o.inbox) /\ r.heard = o.heard
      /\ r.turn = o.turn /\ r.alive = o.alive /\ r.state = o.state /\ r.events = o.events
  BY DEF ProcRecord
<1>2. /\ o.wire \in Seq(Turns \cup {"start"}) /\ o.inbox \in Seq(Messages)
      /\ o.inbox[1] = Head(o.inbox) /\ Head(o.inbox) \in Messages
  BY DEF ProcRecord
<1>3. Head(o.inbox) # "none"
  BY <1>2, Marks
<1>4. /\ Len(r.wire) = Len(o.wire) + 1 /\ Len(o.wire) \in Nat
      /\ \A i \in 1..Len(o.wire) : r.wire[i] = o.wire[i]
      /\ r.wire[Len(o.wire) + 1] = "start" /\ r.wire # <<>>
      /\ o.wire = <<>> <=> Len(o.wire) = 0
  BY <1>1, <1>2, Longer
<1>5. Spoken(o) => Spoken(r)
  BY <1>1, <1>3, <1>4 DEF Spoken
<1>6. Carries(o, r)
  BY <1>1, <1>5 DEF Carries, Led, Bracketed, Due
<1>7. ASSUME NEW m \in Messages, OnItsWay(o, m)
      PROVE  OnItsWay(r, m)
  <2>1. CASE o.events # <<>>
    BY <1>1, <1>7, <2>1 DEF OnItsWay
  <2>2. CASE o.events = <<>> /\ (o.wire \in {<<>>, <<"start">>} /\ o.doing = m)
    BY <2>2, Marks
  <2>3. CASE o.events = <<>> /\ o.wire = <<>> /\ o.inbox[1] = m
    BY <1>1, <1>2, <2>3 DEF OnItsWay
  <2>4. CASE o.events = <<>> /\ Len(o.wire) > 0 /\ o.wire[1] = m
    BY <1>1, <1>4, <2>4 DEF OnItsWay
  <2>5. CASE o.events = <<>> /\ Len(o.wire) > 1 /\ o.wire[1] = "start" /\ o.wire[2] = m
    BY <1>1, <1>4, <2>5 DEF OnItsWay
  <2> QED
    BY <1>7, <2>1, <2>2, <2>3, <2>4, <2>5 DEF OnItsWay
<1> QED
  BY <1>6, <1>7

LEMMA BeginOwnCarries ==
    ASSUME NEW o \in ProcRecord, o.alive, o.doing = "none", NEW r,
           r = [o EXCEPT !.doing = "own", !.wire = Append(@, "start")]
    PROVE  /\ Carries(o, r)
           /\ \A m \in Messages : OnItsWay(o, m) => OnItsWay(r, m) \/ m \in Elements(o.inbox)
<1>1. /\ r.wire = Append(o.wire, "start") /\ r.doing = "own" /\ r.heard = o.heard
      /\ r.turn = o.turn /\ r.alive = o.alive /\ r.state = o.state /\ r.events = o.events
  BY DEF ProcRecord
<1>2. /\ o.wire \in Seq(Turns \cup {"start"}) /\ o.inbox \in Seq(Messages)
  BY DEF ProcRecord
<1>3. /\ Len(r.wire) = Len(o.wire) + 1 /\ Len(o.wire) \in Nat
      /\ \A i \in 1..Len(o.wire) : r.wire[i] = o.wire[i]
      /\ r.wire[Len(o.wire) + 1] = "start" /\ r.wire # <<>>
      /\ o.wire = <<>> <=> Len(o.wire) = 0
  BY <1>1, <1>2, Longer
<1>4. Spoken(o) => Spoken(r)
  BY <1>1, <1>3 DEF Spoken
<1>5. Carries(o, r)
  BY <1>1, <1>4 DEF Carries, Led, Bracketed, Due
<1>6. ASSUME NEW m \in Messages, OnItsWay(o, m)
      PROVE  OnItsWay(r, m) \/ m \in Elements(o.inbox)
  <2>1. CASE o.events # <<>>
    BY <1>1, <1>6, <2>1 DEF OnItsWay
  <2>2. CASE o.events = <<>> /\ (o.wire \in {<<>>, <<"start">>} /\ o.doing = m)
    BY <2>2, Marks
  <2>3. CASE o.inbox # <<>> /\ o.inbox[1] = m
    BY <1>2, <2>3 DEF Elements
  <2>4. CASE o.events = <<>> /\ Len(o.wire) > 0 /\ o.wire[1] = m
    BY <1>1, <1>3, <2>4 DEF OnItsWay
  <2>5. CASE o.events = <<>> /\ Len(o.wire) > 1 /\ o.wire[1] = "start" /\ o.wire[2] = m
    BY <1>1, <1>3, <2>5 DEF OnItsWay
  <2> QED
    BY <1>6, <2>1, <2>2, <2>3, <2>4, <2>5 DEF OnItsWay
<1> QED
  BY <1>5, <1>6

LEMMA FinishCarries ==
    ASSUME NEW o \in ProcRecord, Over(o), o.doing # "none", NEW r,
           r = [o EXCEPT !.doing = "none", !.fresh = FALSE, !.wire = Append(@, o.doing)]
    PROVE  /\ Carries(o, r)
           /\ \A m \in Messages : OnItsWay(o, m) => OnItsWay(r, m)
<1>1. /\ r.wire = Append(o.wire, o.doing) /\ r.doing = "none" /\ r.heard = o.heard
      /\ r.turn = o.turn /\ r.alive = o.alive /\ r.state = o.state /\ r.events = o.events
  BY DEF ProcRecord
<1>2. o.wire \in Seq(Turns \cup {"start"}) /\ o.doing \in Turns /\ o.doing # "start" /\ o.alive
  BY Marks DEF ProcRecord, Over
<1>3. /\ Len(r.wire) = Len(o.wire) + 1 /\ Len(o.wire) \in Nat
      /\ \A i \in 1..Len(o.wire) : r.wire[i] = o.wire[i]
      /\ r.wire[Len(o.wire) + 1] = o.doing /\ r.wire # <<>>
      /\ o.wire = <<>> <=> Len(o.wire) = 0
  <2>1. o.doing \in Turns \cup {"start"}
    BY <1>2
  <2> QED
    BY <1>1, <1>2, <2>1, Longer
<1>4. Spoken(o) => Spoken(r)
  BY <1>1, <1>2, <1>3 DEF Spoken
<1>5. Carries(o, r)
  BY <1>1, <1>4 DEF Carries, Led, Bracketed, Due
<1>6. ASSUME NEW m \in Messages, OnItsWay(o, m)
      PROVE  OnItsWay(r, m)
  <2>1. CASE o.events # <<>>
    BY <1>1, <1>6, <2>1 DEF OnItsWay
  <2>2. CASE o.events = <<>> /\ o.wire \in {<<>>, <<"start">>} /\ o.doing = m
    BY <1>1, <1>3, <2>2 DEF OnItsWay
  <2>3. CASE o.events = <<>> /\ Len(o.wire) > 0 /\ o.wire[1] = m
    BY <1>1, <1>3, <2>3 DEF OnItsWay
  <2>4. CASE o.events = <<>> /\ Len(o.wire) > 1 /\ o.wire[1] = "start" /\ o.wire[2] = m
    BY <1>1, <1>3, <2>4 DEF OnItsWay
  <2> QED
    BY <1>2, <1>6, <2>1, <2>2, <2>3, <2>4 DEF OnItsWay
<1> QED
  BY <1>5, <1>6

LEMMA DieCarries ==
    ASSUME NEW o \in ProcRecord, NEW r,
           r = [o EXCEPT !.alive = FALSE, !.doing = "none", !.inbox = <<>>, !.fresh = FALSE]
    PROVE  /\ Carries(o, r)
           /\ \A m \in Messages : OnItsWay(o, m) => OnItsWay(r, m)
<1>1. /\ r.wire = o.wire /\ r.doing = "none" /\ r.heard = o.heard
      /\ r.turn = o.turn /\ ~r.alive /\ r.state = o.state /\ r.events = o.events
  BY DEF ProcRecord
<1> QED
  BY <1>1 DEF Carries, Spoken, Led, OnItsWay

LEMMA PumpStartCarries ==
    ASSUME NEW o \in ProcRecord, Over(o), Spoken(o), o.wire # <<>>, Head(o.wire) = "start", NEW r,
           r = IF o.state = "idle"
               THEN [o EXCEPT !.wire = Tail(@), !.state = "running", !.events = Append(@, "start")]
               ELSE [o EXCEPT !.wire = Tail(@)]
    PROVE  /\ Carries(o, r)
           /\ \A m \in Messages : Led(o) /\ OnItsWay(o, m) => OnItsWay(r, m)
<1>1. /\ r.wire = Tail(o.wire) /\ r.doing = o.doing /\ r.heard = o.heard
      /\ r.turn = o.turn /\ r.alive = o.alive /\ r.inbox = o.inbox
  BY DEF ProcRecord
<1>2. \/ o.state = "idle" /\ r.state = "running" /\ r.events = Append(o.events, "start")
      \/ o.state # "idle" /\ r.state = o.state /\ r.events = o.events
  BY DEF ProcRecord
<1>3. /\ o.wire \in Seq(Turns \cup {"start"}) /\ o.events \in Seq(Turns \cup {"start", "end"})
      /\ o.wire[1] = "start"
  BY DEF ProcRecord
<1>4. /\ Len(r.wire) = Len(o.wire) - 1 /\ Len(o.wire) \in Nat /\ Len(o.wire) > 0
      /\ \A i \in 1..Len(r.wire) : r.wire[i] = o.wire[i + 1]
      /\ r.wire = <<>> <=> Len(o.wire) = 1
  BY <1>1, <1>3, Shorter
<1>5. Spoken(r)
  <2>1. \A i \in 1..(Len(r.wire) - 1) : (r.wire[i] = "start") # (r.wire[i + 1] = "start")
    BY <1>4 DEF Spoken
  <2>2. (r.alive /\ r.wire # <<>>) => ((r.wire[Len(r.wire)] = "start") <=> (r.doing # "none"))
    BY <1>1, <1>3, <1>4 DEF Spoken
  <2>3. r.state # "idle"
    BY <1>2
  <2> QED
    BY <2>1, <2>2, <2>3 DEF Spoken
<1>6. /\ Len(Append(o.events, "start")) = Len(o.events) + 1 /\ Len(o.events) \in Nat
      /\ \A i \in 1..Len(o.events) : Append(o.events, "start")[i] = o.events[i]
      /\ Append(o.events, "start")[Len(o.events) + 1] = "start"
      /\ Append(o.events, "start") # <<>>
      /\ o.events = <<>> <=> Len(o.events) = 0
  BY <1>3
<1>7. Led(o) => Led(r)
  BY <1>2, <1>6 DEF Led
<1>8. (r.alive /\ Bracketed(o)) => Bracketed(r) /\ (Due(r) => Due(o))
  BY <1>2, <1>6, Marks DEF Bracketed, Due
<1>9. Carries(o, r)
  BY <1>1, <1>2, <1>5, <1>6, <1>7, <1>8 DEF Carries
<1>10. ASSUME NEW m \in Messages, Led(o), OnItsWay(o, m)
       PROVE  OnItsWay(r, m)
  <2>1. CASE o.events # <<>>
    BY <1>2, <1>6, <1>10, <2>1 DEF OnItsWay
  <2>2. CASE o.events = <<>>
    <3>1. r.events = <<>> /\ m # "start"
      BY <1>2, <1>10, <2>2, Marks DEF Led
    <3>2. CASE Len(o.wire) > 1 /\ o.wire[2] = m
      BY <1>4, <3>1, <3>2 DEF OnItsWay
    <3>3. CASE o.wire = <<"start">> /\ (o.doing = m \/ ~o.alive)
      BY <1>1, <1>4, <3>1, <3>3 DEF OnItsWay
    <3> QED
      BY <1>3, <1>10, <2>2, <3>1, <3>2, <3>3 DEF OnItsWay
  <2> QED
    BY <2>1, <2>2
<1> QED
  BY <1>9, <1>10

LEMMA PumpResultCarries ==
    ASSUME NEW o \in ProcRecord, Over(o), Spoken(o), o.wire # <<>>, Head(o.wire) # "start", NEW r,
           r = [o EXCEPT !.wire = Tail(@), !.events = Append(@, Head(o.wire)),
                         !.state = IF @ = "running" THEN "idle" ELSE @]
    PROVE  /\ Carries(o, r)
           /\ \A m \in Messages : OnItsWay(o, m) => OnItsWay(r, m)
<1>1. /\ r.wire = Tail(o.wire) /\ r.doing = o.doing /\ r.heard = o.heard
      /\ r.turn = o.turn /\ r.alive = o.alive /\ r.inbox = o.inbox
      /\ r.events = Append(o.events, Head(o.wire))
  BY DEF ProcRecord
<1>2. \/ o.state = "running" /\ r.state = "idle"
      \/ o.state # "running" /\ r.state = o.state
  BY DEF ProcRecord
<1>3. /\ o.wire \in Seq(Turns \cup {"start"}) /\ o.events \in Seq(Turns \cup {"start", "end"})
      /\ o.wire[1] = Head(o.wire) /\ Head(o.wire) \in Turns /\ o.wire[1] # "start"
  BY DEF ProcRecord
<1>4. o.state # "idle"
  BY <1>3 DEF Spoken
<1>5. /\ Len(r.wire) = Len(o.wire) - 1 /\ Len(o.wire) \in Nat /\ Len(o.wire) > 0
      /\ \A i \in 1..Len(r.wire) : r.wire[i] = o.wire[i + 1]
      /\ r.wire = <<>> <=> Len(o.wire) = 1
  BY <1>1, <1>3, Shorter
<1>6. Spoken(r)
  <2>1. \A i \in 1..(Len(r.wire) - 1) : (r.wire[i] = "start") # (r.wire[i + 1] = "start")
    BY <1>5 DEF Spoken
  <2>2. (r.alive /\ r.wire # <<>>) => ((r.wire[Len(r.wire)] = "start") <=> (r.doing # "none"))
    BY <1>1, <1>3, <1>5 DEF Spoken
  <2>3. r.wire = <<>> => r.doing = "none"
    BY <1>1, <1>3, <1>5 DEF Spoken, Over
  <2>4. r.wire # <<>> => r.wire[1] = "start"
    <3>1. CASE Len(o.wire) = 1
      BY <1>5, <3>1
    <3>2. CASE Len(o.wire) > 1
      <4>1. 1 \in 1..(Len(o.wire) - 1) /\ 1 \in 1..Len(r.wire)
        BY <1>5, <3>2
      <4>2. (o.wire[1] = "start") # (o.wire[1 + 1] = "start")
        BY <4>1 DEF Spoken
      <4> QED
        BY <1>3, <1>5, <4>1, <4>2
    <3> QED
      BY <1>5, <3>1, <3>2
  <2> QED
    BY <2>1, <2>2, <2>3, <2>4 DEF Spoken
<1>7. /\ Len(r.events) = Len(o.events) + 1 /\ Len(o.events) \in Nat
      /\ \A i \in 1..Len(o.events) : r.events[i] = o.events[i]
      /\ r.events[Len(o.events) + 1] = Head(o.wire)
      /\ r.events # <<>>
      /\ o.events = <<>> <=> Len(o.events) = 0
  <2>1. Head(o.wire) \in Turns \cup {"start", "end"}
    BY <1>3
  <2> QED
    BY <1>1, <1>3, <2>1, Longer
<1>8. Led(o) => Led(r)
  BY <1>3, <1>7 DEF Led
<1>9. (r.state \in {"running", "idle"} /\ Bracketed(o)) => Bracketed(r) /\ (Due(r) => Due(o))
  BY <1>2, <1>3, <1>4, <1>7, Marks DEF Bracketed, Due
<1>10. Carries(o, r)
  BY <1>1, <1>2, <1>6, <1>7, <1>8, <1>9 DEF Carries
<1>11. ASSUME NEW m \in Messages, OnItsWay(o, m)
       PROVE  OnItsWay(r, m)
  BY <1>3, <1>5, <1>7, <1>11 DEF OnItsWay
<1> QED
  BY <1>10, <1>11

LEMMA TerminateCarries ==
    ASSUME NEW o \in ProcRecord, o.wire = <<>>, ~o.alive, Over(o), NEW r,
           r = [o EXCEPT !.state = "terminated", !.swept = FALSE, !.events = Append(@, "end")]
    PROVE  /\ Carries(o, r)
           /\ \A m \in Messages : OnItsWay(o, m) => OnItsWay(r, m)
<1>1. /\ r.wire = o.wire /\ r.doing = o.doing /\ r.heard = o.heard
      /\ r.turn = o.turn /\ r.alive = o.alive /\ r.state = "terminated"
      /\ r.events = Append(o.events, "end")
  BY DEF ProcRecord
<1>2. o.events \in Seq(Turns \cup {"start", "end"})
  BY DEF ProcRecord
<1>3. /\ Len(r.events) = Len(o.events) + 1 /\ Len(o.events) \in Nat
      /\ \A i \in 1..Len(o.events) : r.events[i] = o.events[i]
      /\ r.events[Len(o.events) + 1] = "end" /\ r.events # <<>>
      /\ o.events = <<>> <=> Len(o.events) = 0
  BY <1>1, <1>2, Longer
<1> QED
  BY <1>1, <1>3 DEF Carries, Spoken, Led, OnItsWay

-----------------------------------------------------------------------------
(* What a step of the agent, the pump or the pool keeps. *)

LEMMA Hands ==
    ASSUME IInv
    PROVE  /\ \A m \in Messages : call[m].pc \in Asking \cup Using \cup Parted => call[m].hand \in Procs
           /\ \A m \in Messages : call[m].pc \in Opening \cup Waiting => call[m].hand \in Procs
           /\ \A m \in Messages : IsFirst(m) \/ Expects(m) \/ Overtaker(m) => call[m].hand \in Procs
<1>1. \A m \in Messages : call[m].pc \in Driving => call[m].hand \in Procs
  BY DEF IInv, Control, Driven
<1>2. Asking \cup Using \cup Parted \subseteq Driving /\ Opening \cup Waiting \subseteq Driving
  BY DEF Asking, Using, Opening, Waiting, Parted, Driving
<1>3. \A m \in Messages : IsFirst(m) \/ Expects(m) \/ Overtaker(m) => call[m].pc \in Driving
  BY <1>2 DEF IsFirst, Expects, Overtaker
<1> QED
  BY <1>1, <1>2, <1>3

\* m is where it was, as far as its process is concerned.
Stays(m) ==
    /\ call'[m].pc \in Opening <=> call[m].pc \in Opening
    /\ call'[m].pc \in Waiting <=> call[m].pc \in Waiting
    /\ call'[m].pc \in Parted <=> call[m].pc \in Parted
    /\ call[m].pc \in Opening \cup Waiting \cup Parted =>
           call'[m].hand = call[m].hand /\ call'[m].outcome = call[m].outcome
    /\ call'[m].outcome \in {call[m].outcome, "none"}

LEMMA TalkKept ==
    ASSUME IInv, Talk, \A p \in Procs : Carries(proc[p], proc'[p]), \A m \in Messages : Stays(m),
           \A p \in Procs : \A m \in Messages :
               Led(proc[p]) /\ OnItsWay(proc[p], m) => OnItsWay(proc'[p], m) \/ <<"crossed", m>> \in raced',
           \A m \in Messages : <<"crossed", m>> \in raced => <<"crossed", m>> \in raced',
           \A m \in Messages : \A x \in {"early", "overtaken"} :
               <<x, m>> \in raced' <=> <<x, m>> \in raced
    PROVE  Talk'
<1>1. \A m \in Messages : /\ Raced("early", m)' <=> Raced("early", m)
                          /\ Raced("overtaken", m)' <=> Raced("overtaken", m)
                          /\ Raced("crossed", m) => Raced("crossed", m)'
  BY DEF Raced
<1>2. ASSUME NEW m \in Messages, call[m].pc \in Opening \cup Waiting \cup Parted
      PROVE  /\ call[m].hand \in Procs /\ call'[m].hand = call[m].hand
             /\ Hand(m) = proc[call[m].hand] /\ Hand(m)' = proc'[call[m].hand]
             /\ Hand(m)'.heard = Hand(m).heard /\ Hand(m)'.turn = Hand(m).turn
             /\ Carries(Hand(m), Hand(m)')
  <2>1. call[m].hand \in Procs /\ call'[m].hand = call[m].hand
    BY <1>2, Hands DEF Stays
  <2>2. Hand(m) = proc[call[m].hand] /\ Hand(m)' = proc'[call[m].hand]
    BY <2>1 DEF Hand
  <2> QED
    BY <2>1, <2>2 DEF Carries
<1>3. \A m \in Messages : /\ IsFirst(m)' <=> IsFirst(m)
                          /\ Expects(m)' <=> Expects(m)
                          /\ Overtaker(m)' <=> Overtaker(m)
  BY <1>1, <1>2 DEF IsFirst, Expects, Overtaker, Stays
<1>4. \A m \in Messages : IsFirst(m) \/ Expects(m) \/ Overtaker(m)
                            => call[m].pc \in Opening \cup Waiting \cup Parted
  BY DEF IsFirst, Expects, Overtaker
<1>5. Speech'
  BY DEF Talk, Speech, Carries
<1>6. Adopted'
  <2> SUFFICES ASSUME NEW m \in Messages, Expects(m) PROVE Led(Hand(m)')
    BY <1>3 DEF Adopted, Led
  <2> QED
    BY <1>2, <1>4 DEF Talk, Adopted, Carries
<1>7. Routed'
  <2> SUFFICES ASSUME NEW m \in Messages, Expects(m), ~Raced("crossed", m)'
               PROVE  OnItsWay(Hand(m)', m)
    BY <1>3 DEF Routed, OnItsWay
  <2>1. Led(Hand(m)) /\ OnItsWay(Hand(m), m)
    BY <1>1 DEF Talk, Adopted, Routed
  <2> QED
    BY <1>2, <1>4, <2>1 DEF Raced
<1>8. Ordered'
  <2> SUFFICES ASSUME NEW p \in Procs, Sane(p)'
               PROVE  /\ Bracketed(proc'[p])
                      /\ Due(proc'[p]) => proc'[p].turn # "none" \/ First(p)'
    BY DEF Ordered, Bracketed, Due
  <2>1. (First(p)' <=> First(p)) /\ (Overtaken(p)' <=> Overtaken(p))
    BY <1>2, <1>3, <1>4 DEF First, Overtaken
  <2>2. Sane(p)
    BY <2>1 DEF Sane, Works, Carries
  <2>3. Bracketed(proc[p]) /\ (Due(proc[p]) => proc[p].turn # "none" \/ First(p)) /\ Spoken(proc[p])
    BY <2>2 DEF Talk, Ordered, Speech
  <2>4. proc'[p].alive /\ proc'[p].state \in {"running", "idle"}
    BY DEF Sane, Works
  <2> QED
    BY <2>1, <2>3, <2>4 DEF Carries
<1>9. Outrun'
  <2> SUFFICES ASSUME NEW m \in Messages, Raced("overtaken", m)
               PROVE  /\ call'[m].pc \in Waiting \cup Parted
                      /\ call'[m].pc \in Parted => ~Works(Hand(m)')
                      /\ Overtaker(m) =>
                            /\ call'[m].outcome = "none"
                            /\ Hand(m)'.turn = m => Hand(m)'.events # <<>> /\ Hand(m)'.events[1] = "start"
    <3>1. \A m \in Messages : Overtaker(m) => Raced("overtaken", m)
      BY DEF Overtaker
    <3> QED
      BY <1>1, <1>3, <3>1 DEF Outrun, Works
  <2>1. /\ call[m].pc \in Waiting \cup Parted
        /\ call[m].pc \in Parted => ~Works(Hand(m))
        /\ Overtaker(m) =>
              /\ call[m].outcome = "none"
              /\ Hand(m).turn = m => Hand(m).events # <<>> /\ Hand(m).events[1] = "start"
    BY DEF Talk, Outrun
  <2>2. Stays(m)
    OBVIOUS
  <2> QED
    BY <1>2, <2>1, <2>2 DEF Carries, Stays, Works
<1>10. Untold'
  BY DEF Talk, Untold, Stays
<1>11. Registered'
  <2> SUFFICES ASSUME NEW m \in Messages, call'[m].pc \in Waiting
               PROVE  \/ Hand(m)'.turn = m \/ call'[m].outcome # "none"
                      \/ Raced("early", m) \/ Raced("overtaken", m)
    BY <1>1 DEF Registered
  <2>1. call[m].pc \in Waiting /\ call'[m].outcome = call[m].outcome
    BY DEF Stays
  <2> QED
    BY <1>2, <2>1 DEF Talk, Registered
<1>12. ResultIsOwn'
  BY <1>1 DEF Talk, ResultIsOwn, Stays
<1> QED
  BY <1>5, <1>6, <1>7, <1>8, <1>9, <1>10, <1>11, <1>12 DEF Talk

LEMMA CarriesItself == \A o : Carries(o, o)
BY SameOutput

LEMMA ProcTalk ==
    ASSUME IInv, Talk, NEW p \in Procs, NEW r, Become(p, r), \A m \in Messages : Stays(m),
           Carries(proc[p], r),
           \A m \in Messages : Led(proc[p]) /\ OnItsWay(proc[p], m)
                                 => OnItsWay(r, m) \/ <<"crossed", m>> \in raced',
           raced \subseteq raced',
           \A m \in Messages : \A x \in {"early", "overtaken"} :
               <<x, m>> \in raced' => <<x, m>> \in raced
    PROVE  Talk'
<1>1. \A q \in Procs : proc'[q] = IF q = p THEN r ELSE proc[q]
  BY DEF Become, TypeOK, IInv
<1>2. \A q \in Procs : Carries(proc[q], proc'[q])
  BY <1>1, CarriesItself
<1>3. \A q \in Procs : \A m \in Messages :
        Led(proc[q]) /\ OnItsWay(proc[q], m) => OnItsWay(proc'[q], m) \/ <<"crossed", m>> \in raced'
  BY <1>1
<1>4. /\ \A m \in Messages : <<"crossed", m>> \in raced => <<"crossed", m>> \in raced'
      /\ \A m \in Messages : \A x \in {"early", "overtaken"} :
            <<x, m>> \in raced' <=> <<x, m>> \in raced
  OBVIOUS
<1> QED
  BY <1>2, <1>3, <1>4, TalkKept

LEMMA StaysPut ==
    ASSUME NEW m \in Messages, call'[m] = call[m]
    PROVE  Stays(m)
BY DEF Stays

LEMMA Records ==
    ASSUME IInv, NEW p \in Procs
    PROVE  /\ proc[p] \in ProcRecord /\ Over(proc[p]) /\ EndIsLast(proc[p])
           /\ call \in [Callers -> CallRecord]
BY DEF IInv, TypeOK, Ended, EndIsLast

\* A step of the agent or the pump.
LEMMA ProcFlow ==
    ASSUME Flow, IInv', NEW p \in Procs, NEW r, Become(p, r), UNCHANGED call,
           Carries(proc[p], r),
           \A m \in Messages : Led(proc[p]) /\ OnItsWay(proc[p], m)
                                 => OnItsWay(r, m) \/ <<"crossed", m>> \in raced',
           \/ raced' = raced
           \/ \E S \in SUBSET Messages : raced' = raced \cup ({"crossed"} \X S)
    PROVE  Flow'
<1>1. /\ raced \subseteq raced'
      /\ \A m \in Messages : \A x \in {"early", "overtaken"} :
            <<x, m>> \in raced' => <<x, m>> \in raced
      /\ \A m \in Messages : Stays(m)
  BY StaysPut
<1>2. Talk'
  BY <1>1, ProcTalk DEF Flow
<1> QED
  BY <1>2 DEF Flow

LEMMA ReadFlow ==
    ASSUME Flow, NEW p \in Procs, Read(p)
    PROVE  Flow'
<1> DEFINE r == [proc[p] EXCEPT !.writing = FALSE]
<1>1. proc[p] \in ProcRecord /\ IInv'
  BY Records, ReadStep DEF Flow
<1>2. /\ r.heard = proc[p].heard /\ r.turn = proc[p].turn /\ r.alive = proc[p].alive
      /\ r.events = proc[p].events /\ r.wire = proc[p].wire /\ r.doing = proc[p].doing
      /\ r.inbox = proc[p].inbox /\ r.state = proc[p].state
  BY <1>1 DEF ProcRecord
<1>3. Become(p, r) /\ UNCHANGED <<call, raced>>
  BY DEF Read
<1> HIDE DEF r
<1>4. /\ Carries(proc[p], r)
      /\ \A m \in Messages : OnItsWay(proc[p], m) => OnItsWay(r, m)
  BY <1>2, SameOutput DEF OnItsWay
<1> QED
  BY <1>1, <1>3, <1>4, ProcFlow

LEMMA BeginFlow ==
    ASSUME Flow, NEW p \in Procs, Begin(p)
    PROVE  Flow'
<1> DEFINE r == [proc[p] EXCEPT !.doing = Head(proc[p].inbox), !.inbox = Tail(@),
                                !.wire = Append(@, "start")]
<1>1. proc[p] \in ProcRecord /\ IInv'
  BY Records, BeginStep DEF Flow
<1>2. /\ Carries(proc[p], r)
      /\ \A m \in Messages : OnItsWay(proc[p], m) => OnItsWay(r, m)
  BY <1>1, BeginCarries DEF Begin
<1>3. Become(p, r) /\ UNCHANGED <<call, raced>>
  BY DEF Begin
<1> HIDE DEF r
<1> QED
  BY <1>1, <1>2, <1>3, ProcFlow

LEMMA BeginOwnFlow ==
    ASSUME Flow, NEW p \in Procs, BeginOwn(p)
    PROVE  Flow'
<1> DEFINE r == [proc[p] EXCEPT !.doing = "own", !.wire = Append(@, "start")]
<1>1. proc[p] \in ProcRecord /\ IInv'
  BY Records, BeginOwnStep DEF Flow
<1>2. /\ Carries(proc[p], r)
      /\ \A m \in Messages : OnItsWay(proc[p], m) => OnItsWay(r, m) \/ m \in Elements(proc[p].inbox)
  BY <1>1, BeginOwnCarries DEF BeginOwn
<1>3. /\ Become(p, r) /\ UNCHANGED call
      /\ raced' = raced \cup ({"crossed"} \X Elements(proc[p].inbox))
  BY DEF BeginOwn
<1>4. Elements(proc[p].inbox) \subseteq Messages
  BY <1>1 DEF Elements, ProcRecord
<1> HIDE DEF r
<1>5. \A m \in Messages : OnItsWay(proc[p], m) => OnItsWay(r, m) \/ <<"crossed", m>> \in raced'
  BY <1>2, <1>3
<1> QED
  BY <1>1, <1>2, <1>3, <1>4, <1>5, ProcFlow

LEMMA FinishFlow ==
    ASSUME Flow, NEW p \in Procs, Finish(p)
    PROVE  Flow'
<1> DEFINE r == [proc[p] EXCEPT !.doing = "none", !.fresh = FALSE,
                                !.wire = Append(@, proc[p].doing)]
<1>1. proc[p] \in ProcRecord /\ Over(proc[p]) /\ IInv'
  BY Records, FinishStep DEF Flow
<1>2. /\ Carries(proc[p], r)
      /\ \A m \in Messages : OnItsWay(proc[p], m) => OnItsWay(r, m)
  BY <1>1, FinishCarries DEF Finish
<1>3. Become(p, r) /\ UNCHANGED <<call, raced>>
  BY DEF Finish
<1> HIDE DEF r
<1> QED
  BY <1>1, <1>2, <1>3, ProcFlow

LEMMA DieFlow ==
    ASSUME Flow, NEW p \in Procs, Die(p)
    PROVE  Flow'
<1> DEFINE r == [proc[p] EXCEPT !.alive = FALSE, !.doing = "none", !.inbox = <<>>,
                                !.fresh = FALSE]
<1>1. proc[p] \in ProcRecord /\ IInv'
  BY Records, DieStep DEF Flow
<1>2. /\ Carries(proc[p], r)
      /\ \A m \in Messages : OnItsWay(proc[p], m) => OnItsWay(r, m)
  BY <1>1, DieCarries
<1>3. Become(p, r) /\ UNCHANGED <<call, raced>>
  BY DEF Die
<1> HIDE DEF r
<1> QED
  BY <1>1, <1>2, <1>3, ProcFlow

LEMMA PumpStartFlow ==
    ASSUME Flow, NEW p \in Procs, PumpStart(p)
    PROVE  Flow'
<1> DEFINE r == IF proc[p].state = "idle"
                THEN [proc[p] EXCEPT !.wire = Tail(@), !.state = "running",
                                     !.events = Append(@, "start")]
                ELSE [proc[p] EXCEPT !.wire = Tail(@)]
<1>1. proc[p] \in ProcRecord /\ Over(proc[p]) /\ Spoken(proc[p]) /\ IInv'
  BY Records, PumpStartStep DEF Flow, Talk, Speech
<1>2. /\ Carries(proc[p], r)
      /\ \A m \in Messages : Led(proc[p]) /\ OnItsWay(proc[p], m) => OnItsWay(r, m)
  BY <1>1, PumpStartCarries DEF PumpStart
<1>3. Become(p, r) /\ UNCHANGED <<call, raced>>
  BY DEF PumpStart, Unsolicited
<1> HIDE DEF r
<1> QED
  BY <1>1, <1>2, <1>3, ProcFlow

LEMMA PumpResultFlow ==
    ASSUME Flow, NEW p \in Procs, PumpResult(p)
    PROVE  Flow'
<1> DEFINE r == [proc[p] EXCEPT !.wire = Tail(@), !.events = Append(@, Head(proc[p].wire)),
                                !.state = IF @ = "running" THEN "idle" ELSE @]
<1>1. proc[p] \in ProcRecord /\ Over(proc[p]) /\ Spoken(proc[p]) /\ IInv'
  BY Records, PumpResultStep DEF Flow, Talk, Speech
<1>2. /\ Carries(proc[p], r)
      /\ \A m \in Messages : OnItsWay(proc[p], m) => OnItsWay(r, m)
  BY <1>1, PumpResultCarries DEF PumpResult
<1>3. Become(p, r) /\ UNCHANGED <<call, raced>>
  BY DEF PumpResult
<1> HIDE DEF r
<1> QED
  BY <1>1, <1>2, <1>3, ProcFlow

LEMMA TerminateFlow ==
    ASSUME Flow, NEW p \in Procs, Terminate(p)
    PROVE  Flow'
<1> DEFINE r == [proc[p] EXCEPT !.state = "terminated", !.swept = FALSE,
                                !.events = Append(@, "end")]
<1>1. proc[p] \in ProcRecord /\ Over(proc[p]) /\ IInv'
  BY Records, TerminateStep DEF Flow
<1>2. /\ Carries(proc[p], r)
      /\ \A m \in Messages : OnItsWay(proc[p], m) => OnItsWay(r, m)
  BY <1>1, TerminateCarries DEF Terminate
<1>3. Become(p, r) /\ UNCHANGED <<call, raced>>
  BY DEF Terminate
<1> HIDE DEF r
<1> QED
  BY <1>1, <1>2, <1>3, ProcFlow

\* A step of the pool: it has closed, or will have closed, a process.
LEMMA PoolFlow ==
    ASSUME Flow, IInv', NEW p \in Procs, NEW r, Become(p, r), UNCHANGED <<call, raced>>,
           r.state = proc[p].state \/ r.state \notin {"running", "idle"},
           r.heard = proc[p].heard, r.turn = proc[p].turn, r.alive = proc[p].alive,
           r.events = proc[p].events, r.wire = proc[p].wire, r.doing = proc[p].doing,
           r.inbox = proc[p].inbox
    PROVE  Flow'
<1>1. Carries(proc[p], r)
  BY SameOutput
<1>2. \A m \in Messages : OnItsWay(proc[p], m) => OnItsWay(r, m)
  BY DEF OnItsWay
<1> QED
  BY <1>1, <1>2, ProcFlow

LEMMA CloseFlow ==
    ASSUME Flow, NEW p \in Procs, Close(p)
    PROVE  Flow'
<1> DEFINE r == Closed(proc[p])
<1>1. proc[p] \in ProcRecord /\ IInv'
  BY Records, CloseStep DEF Flow
<1>2. Become(p, r) /\ UNCHANGED <<call, raced>>
  BY DEF Close
<1>3. /\ r.heard = proc[p].heard /\ r.turn = proc[p].turn /\ r.alive = proc[p].alive
      /\ r.events = proc[p].events /\ r.wire = proc[p].wire /\ r.doing = proc[p].doing
      /\ r.inbox = proc[p].inbox
      /\ r.state = IF proc[p].state = "terminated" THEN "terminated" ELSE "closing"
  BY <1>1 DEF Closed, ProcRecord
<1> HIDE DEF r
<1> QED
  BY <1>1, <1>2, <1>3, PoolFlow

LEMMA ReclaimFlow ==
    ASSUME Flow, NEW p \in Procs, Reclaim(p)
    PROVE  Flow'
<1> DEFINE r == [proc[p] EXCEPT !.swept = TRUE]
<1>1. proc[p] \in ProcRecord /\ IInv'
  BY Records, ReclaimStep DEF Flow
<1>2. Become(p, r) /\ UNCHANGED <<call, raced>>
  BY DEF Reclaim
<1>3. /\ r.heard = proc[p].heard /\ r.turn = proc[p].turn /\ r.alive = proc[p].alive
      /\ r.events = proc[p].events /\ r.wire = proc[p].wire /\ r.doing = proc[p].doing
      /\ r.inbox = proc[p].inbox /\ r.state = proc[p].state
  BY <1>1 DEF ProcRecord
<1> HIDE DEF r
<1> QED
  BY <1>1, <1>2, <1>3, PoolFlow
-----------------------------------------------------------------------------
(* The Conductor. *)

\* Of the events that are left when the first one has been read.
LEMMA EventsLeft ==
    ASSUME NEW o \in ProcRecord, o.events # <<>>, Bracketed(o), NEW r,
           r.events = Tail(o.events), r.state = o.state
    PROVE  /\ Bracketed(r)
           /\ (o.events[1] # "start" /\ o.state \in {"running", "idle"}) => ~Due(r)
<1>1. /\ Len(r.events) = Len(o.events) - 1 /\ Len(o.events) \in Nat /\ Len(o.events) > 0
      /\ \A i \in 1..Len(r.events) : r.events[i] = o.events[i + 1]
      /\ r.events = <<>> <=> Len(o.events) = 1
  BY Shorter DEF ProcRecord
<1>2. Bracketed(r)
  <2>1. ASSUME NEW i \in 2..Len(r.events), r.events[i] \in Turns
        PROVE  r.events[i - 1] = "start"
    <3>1. i + 1 \in 2..Len(o.events) /\ i - 1 \in 1..Len(r.events) /\ i \in 1..Len(r.events)
      BY <1>1
    <3>2. o.events[i + 1] = r.events[i] /\ o.events[i] = r.events[i - 1]
      BY <1>1, <3>1
    <3>3. o.events[(i + 1) - 1] = "start"
      BY <2>1, <3>1, <3>2 DEF Bracketed
    <3> QED
      BY <3>2, <3>3
  <2>2. r.events # <<>> => (r.state = "running" <=> r.events[Len(r.events)] = "start")
    BY <1>1 DEF Bracketed
  <2> QED
    BY <2>1, <2>2 DEF Bracketed
<1>3. ASSUME o.events[1] # "start", o.state \in {"running", "idle"}
      PROVE  ~Due(r)
  <2>1. CASE r.events = <<>>
    BY <1>1, <1>3, <2>1 DEF Bracketed, Due
  <2>2. CASE r.events # <<>>
    <3>1. 2 \in 2..Len(o.events) /\ 1 \in 1..Len(r.events)
      BY <1>1, <2>2
    <3>2. o.events[2] \in Turns => o.events[2 - 1] = "start"
      BY <3>1 DEF Bracketed
    <3> QED
      BY <1>1, <1>3, <2>2, <3>1, <3>2 DEF Due
  <2> QED
    BY <2>1, <2>2
<1> QED
  BY <1>2, <1>3

LEMMA SpokenSame ==
    ASSUME NEW o, NEW r, Spoken(o), r.wire = o.wire, r.doing = o.doing, r.alive = o.alive,
           r.state = o.state
    PROVE  Spoken(r)
BY DEF Spoken

LEMMA ReadStartFlow ==
    ASSUME Flow, NEW p \in Procs, ReadStart(p)
    PROVE  Flow'
<1> DEFINE o == proc[p]
           r == [o EXCEPT !.events = Tail(@), !.turn = "own"]
<1>1. o \in ProcRecord /\ EndIsLast(o) /\ IInv' /\ IInv /\ Talk
  BY Records, ReadStartStep DEF Flow
<1>2. /\ Become(p, r) /\ o.events # <<>> /\ o.events[1] = "start"
      /\ UNCHANGED <<entry, doomed, call, late, raced>>
  BY <1>1 DEF ReadStart, Reads, ProcRecord
<1>3. /\ r.heard = o.heard /\ r.turn = "own" /\ r.alive = o.alive /\ r.events = Tail(o.events)
      /\ r.wire = o.wire /\ r.doing = o.doing /\ r.swept = o.swept /\ r.state = o.state
  BY <1>1 DEF ProcRecord
<1> HIDE DEF r
<1>4. \A q \in Procs : proc'[q] = IF q = p THEN r ELSE proc[q]
  BY <1>1, <1>2 DEF Become, TypeOK, IInv
<1>5. \A m \in Messages : Expects(m) => call[m].hand # p
  BY <1>1, <1>2 DEF Talk, Adopted, Led, Hand
<1>6. ASSUME NEW m \in Messages, call[m].hand \in Procs
      PROVE  Hand(m)' = IF call[m].hand = p THEN r ELSE Hand(m)
  BY <1>2, <1>4, <1>6 DEF Hand
<1>7. \A m \in Messages : IsFirst(m)' <=> IsFirst(m)
  <2> SUFFICES ASSUME NEW m \in Messages PROVE IsFirst(m)' <=> IsFirst(m)
    OBVIOUS
  <2>1. call[m].pc \in Opening => call[m].hand \in Procs
    BY <1>1, Hands
  <2> QED
    BY <1>2, <1>3, <1>6, <2>1 DEF IsFirst, Hand
<1>8. \A m \in Messages : Expects(m)' => Expects(m) /\ Hand(m)' = Hand(m)
  <2> SUFFICES ASSUME NEW m \in Messages, Expects(m)' PROVE Expects(m) /\ Hand(m)' = Hand(m)
    OBVIOUS
  <2>1. call[m].hand \in Procs
    BY <1>1, <1>2, Hands DEF Expects, IsFirst
  <2>2. Expects(m)
    <3>1. CASE IsFirst(m)
      BY <3>1 DEF Expects
    <3>2. CASE ~IsFirst(m)
      <4>1. call[m].pc \in Waiting /\ Hand(m)'.turn = m /\ ~Raced("early", m) /\ ~Raced("overtaken", m)
        BY <1>2, <1>7, <3>2 DEF Expects, Raced
      <4>2. m # "own"
        BY Marks
      <4>3. Hand(m)' = Hand(m)
        BY <1>3, <1>6, <2>1, <4>1, <4>2
      <4> QED
        BY <4>1, <4>3 DEF Expects
    <3> QED
      BY <3>1, <3>2
  <2> QED
    BY <1>5, <1>6, <2>1, <2>2
<1>9. Speech'
  <2>1. Spoken(r)
    BY <1>1, <1>3, SpokenSame DEF Talk, Speech
  <2> QED
    BY <1>1, <1>4, <2>1 DEF Talk, Speech
<1>10. Adopted' /\ Routed'
  BY <1>1, <1>2, <1>8 DEF Talk, Adopted, Routed, Raced
<1>11. Ordered'
  <2> SUFFICES ASSUME NEW q \in Procs, Sane(q)'
               PROVE  /\ Bracketed(proc'[q])
                      /\ Due(proc'[q]) => proc'[q].turn # "none" \/ First(q)'
    BY DEF Ordered, Bracketed, Due
  <2>1. First(q)' <=> First(q)
    BY <1>2, <1>7 DEF First
  <2>2. Overtaken(q)' <=> Overtaken(q)
    BY <1>2 DEF Overtaken, Overtaker, Raced
  <2>3. Sane(q)
    BY <1>3, <1>4, <2>2 DEF Sane, Works
  <2>4. Bracketed(proc[q]) /\ (Due(proc[q]) => proc[q].turn # "none" \/ First(q))
    BY <1>1, <2>3 DEF Talk, Ordered
  <2>5. CASE q = p
    <3>1. Bracketed(r)
      BY <1>1, <1>2, <1>3, <2>4, <2>5, EventsLeft
    <3> QED
      BY <1>3, <1>4, <2>5, <3>1
  <2>6. CASE q # p
    BY <1>4, <2>1, <2>4, <2>6
  <2> QED
    BY <2>5, <2>6
<1>12. Outrun'
  <2> SUFFICES ASSUME NEW m \in Messages, Raced("overtaken", m)
               PROVE  /\ call[m].pc \in Waiting \cup Parted
                      /\ call[m].pc \in Parted => ~Works(Hand(m)')
                      /\ Overtaker(m) =>
                            /\ call[m].outcome = "none"
                            /\ Hand(m)'.turn = m => Hand(m)'.events # <<>> /\ Hand(m)'.events[1] = "start"
    BY <1>2 DEF Outrun, Hand, Overtaker, Raced, Works
  <2>1. /\ call[m].pc \in Waiting \cup Parted
        /\ call[m].pc \in Parted => ~Works(Hand(m))
        /\ Overtaker(m) =>
              /\ call[m].outcome = "none"
              /\ Hand(m).turn = m => Hand(m).events # <<>> /\ Hand(m).events[1] = "start"
    BY <1>1 DEF Talk, Outrun
  <2>2. call[m].hand \in Procs /\ m # "own"
    BY <1>1, <2>1, Hands, Marks
  <2>3. Hand(m)' = Hand(m) \/ (Hand(m) = o /\ Hand(m)' = r)
    BY <1>6, <2>2 DEF Hand
  <2> QED
    BY <1>3, <2>1, <2>2, <2>3 DEF Works
<1>13. Untold' /\ ResultIsOwn'
  BY <1>1, <1>2 DEF Talk, Untold, ResultIsOwn, Raced
<1>14. Registered'
  <2> SUFFICES ASSUME NEW m \in Messages, call[m].pc \in Waiting
               PROVE  \/ Hand(m)'.turn = m \/ call[m].outcome # "none"
                      \/ Raced("early", m) \/ Raced("overtaken", m)
    BY <1>2 DEF Registered, Raced
  <2>1. call[m].hand \in Procs
    BY <1>1, Hands
  <2>2. \/ Hand(m).turn = m \/ call[m].outcome # "none"
        \/ Raced("early", m) \/ Raced("overtaken", m)
    BY <1>1 DEF Talk, Registered
  <2>3. CASE Expects(m)
    BY <1>5, <1>6, <2>1, <2>2, <2>3
  <2>4. CASE ~Expects(m)
    BY <2>2, <2>4 DEF Expects
  <2> QED
    BY <2>3, <2>4
<1>15. Talk'
  BY <1>9, <1>10, <1>11, <1>12, <1>13, <1>14 DEF Talk
<1> QED
  BY <1>1, <1>15 DEF Flow

\* The message whose turn was registered is told how it ended, and no other.
LEMMA FinishedOutcomes ==
    ASSUME TypeOK, NEW p \in Procs, NEW x \in Turns \cup {"error"}, Finished(p, x),
           NEW m \in Messages, ~(call[m].pc = "send" /\ call[m].hand = p)
    PROVE  call'[m].outcome = IF proc[p].turn = m /\ call[m].pc \in Waiting /\ call[m].hand = p
                              THEN x ELSE call[m].outcome
<1> DEFINE t == proc[p].turn
<1>1. call \in [Callers -> CallRecord] /\ \A c \in Callers : call[c] \in CallRecord
  BY DEF TypeOK
<1>2. m \in Callers /\ m # "own" /\ m # "archive"
  BY Names
<1>3. CASE t = "own" /\ runs = "own"
  <2>1. call' = Woken(call)
    BY <1>3, Names DEF Finished
  <2> QED
    BY <1>1, <1>2, <1>3, <2>1, Names DEF Woken
<1>4. CASE t \in Messages /\ call[t].pc \in {"wait", "interrupt", "grace"} /\ call[t].hand = p
  <2>1. call' = [call EXCEPT ![t].outcome = x]
    BY <1>4, Names DEF Finished
  <2> QED
    BY <1>1, <1>2, <1>4, <2>1 DEF Waiting, CallRecord
<1>5. CASE /\ ~(t = "own" /\ runs = "own")
           /\ ~(t \in Messages /\ call[t].pc \in {"wait", "interrupt", "grace"} /\ call[t].hand = p)
  <2>1. call' = call
    BY <1>5 DEF Finished
  <2> QED
    BY <1>5, <2>1 DEF Waiting
<1> QED
  BY <1>3, <1>4, <1>5

LEMMA FinishedFlow ==
    ASSUME Flow, IInv', NEW p \in Procs, NEW x \in Turns \cup {"error"}, Finished(p, x),
           proc[p].events # <<>>, \A m \in Messages : call[m].pc = "send" => call[m].hand # p,
           x = proc[p].events[1] \/ (x = "error" /\ proc[p].events[1] = "end"),
           UNCHANGED raced
    PROVE  Flow'
<1> DEFINE o == proc[p]
           r == [o EXCEPT !.events = Tail(@), !.turn = "none", !.heard = TRUE]
<1>1. o \in ProcRecord /\ EndIsLast(o) /\ IInv' /\ IInv /\ Talk /\ TypeOK
  BY Records DEF Flow, IInv
<1>2. Become(p, r) /\ UNCHANGED raced
  BY DEF Finished
<1>3. /\ r.heard /\ r.turn = "none" /\ r.alive = o.alive /\ r.events = Tail(o.events)
      /\ r.wire = o.wire /\ r.doing = o.doing /\ r.swept = o.swept /\ r.state = o.state
  BY <1>1 DEF ProcRecord
<1> HIDE DEF r
<1>4. \A m \in Messages : call'[m].pc = call[m].pc /\ call'[m].hand = call[m].hand
  BY <1>1, FinishedCalls
<1>5. \A m \in Messages :
         call'[m].outcome = IF o.turn = m /\ call[m].pc \in Waiting /\ call[m].hand = p
                            THEN x ELSE call[m].outcome
  BY <1>1, FinishedOutcomes
<1>6. o.events[1] # "start" /\ x # "none" /\ x # "start"
  BY Marks
<1>7. \A q \in Procs : proc'[q] = IF q = p THEN r ELSE proc[q]
  BY <1>1, <1>2 DEF Become, TypeOK, IInv
<1>8. ASSUME NEW m \in Messages, call[m].hand \in Procs
      PROVE  Hand(m)' = IF call[m].hand = p THEN r ELSE Hand(m)
  BY <1>4, <1>7, <1>8 DEF Hand
<1>9. \A m \in Messages : call[m].hand # p => (IsFirst(m)' <=> IsFirst(m))
  <2> SUFFICES ASSUME NEW m \in Messages, call[m].hand # p PROVE IsFirst(m)' <=> IsFirst(m)
    OBVIOUS
  <2>1. call[m].pc \in Opening => call[m].hand \in Procs
    BY <1>1, Hands
  <2> QED
    BY <1>4, <1>8, <2>1 DEF IsFirst
<1>10. \A m \in Messages : Expects(m)' => Expects(m) /\ Hand(m)' = Hand(m)
  <2> SUFFICES ASSUME NEW m \in Messages, Expects(m)' PROVE Expects(m) /\ Hand(m)' = Hand(m)
    OBVIOUS
  <2>1. call[m].hand \in Procs
    BY <1>1, <1>4, Hands DEF Expects, IsFirst
  <2>2. call[m].hand # p
    BY <1>3, <1>8, <2>1, Marks DEF Expects, IsFirst
  <2>3. Hand(m)' = Hand(m)
    BY <1>8, <2>1, <2>2
  <2> QED
    BY <1>2, <1>4, <1>9, <2>2, <2>3 DEF Expects, Raced
<1>11. Speech'
  <2>1. Spoken(r)
    BY <1>1, <1>3, SpokenSame DEF Talk, Speech
  <2> QED
    BY <1>1, <1>7, <2>1 DEF Talk, Speech
<1>12. Adopted' /\ Routed'
  BY <1>1, <1>2, <1>10 DEF Talk, Adopted, Routed, Raced
<1>13. Ordered'
  <2> SUFFICES ASSUME NEW q \in Procs, Sane(q)'
               PROVE  /\ Bracketed(proc'[q])
                      /\ Due(proc'[q]) => proc'[q].turn # "none" \/ First(q)'
    BY DEF Ordered, Bracketed, Due
  <2>1. q # p => (First(q)' <=> First(q))
    BY <1>4, <1>9 DEF First
  <2>2. Overtaken(q)' <=> Overtaken(q)
    BY <1>2, <1>4 DEF Overtaken, Overtaker, Raced
  <2>3. Sane(q)
    BY <1>3, <1>7, <2>2 DEF Sane, Works
  <2>4. Bracketed(proc[q]) /\ (Due(proc[q]) => proc[q].turn # "none" \/ First(q))
    BY <1>1, <2>3 DEF Talk, Ordered
  <2>5. CASE q = p
    <3>1. o.state \in {"running", "idle"}
      BY <2>3, <2>5 DEF Sane, Works
    <3>2. Bracketed(r) /\ ~Due(r)
      BY <1>1, <1>3, <1>6, <2>4, <2>5, <3>1, EventsLeft
    <3> QED
      BY <1>7, <2>5, <3>2
  <2>6. CASE q # p
    BY <1>7, <2>1, <2>4, <2>6
  <2> QED
    BY <2>5, <2>6
<1>14. Outrun'
  <2> SUFFICES ASSUME NEW m \in Messages, Raced("overtaken", m)
               PROVE  /\ call[m].pc \in Waiting \cup Parted
                      /\ call[m].pc \in Parted => ~Works(Hand(m)')
                      /\ Overtaker(m) =>
                            /\ call'[m].outcome = "none"
                            /\ Hand(m)'.turn = m => Hand(m)'.events # <<>> /\ Hand(m)'.events[1] = "start"
    BY <1>2, <1>4 DEF Outrun, Hand, Overtaker, Raced, Works
  <2>1. /\ call[m].pc \in Waiting \cup Parted
        /\ call[m].pc \in Parted => ~Works(Hand(m))
        /\ Overtaker(m) =>
              /\ call[m].outcome = "none"
              /\ Hand(m).turn = m => Hand(m).events # <<>> /\ Hand(m).events[1] = "start"
    BY <1>1 DEF Talk, Outrun
  <2>2. call[m].hand \in Procs /\ m # "none"
    BY <1>1, <2>1, Hands, Marks
  <2>3. Hand(m)' = Hand(m) \/ (call[m].hand = p /\ Hand(m) = o /\ Hand(m)' = r)
    BY <1>8, <2>2 DEF Hand
  <2>4. Overtaker(m) => ~(o.turn = m /\ call[m].hand = p)
    BY <1>6, <2>1 DEF Hand
  <2> QED
    BY <1>3, <1>5, <2>1, <2>2, <2>3, <2>4 DEF Works
<1>15. Untold'
  BY <1>1, <1>4, <1>5 DEF Talk, Untold
<1>16. Registered'
  <2> SUFFICES ASSUME NEW m \in Messages, call[m].pc \in Waiting
               PROVE  \/ Hand(m)'.turn = m \/ call'[m].outcome # "none"
                      \/ Raced("early", m) \/ Raced("overtaken", m)
    BY <1>2, <1>4 DEF Registered, Raced
  <2>1. call[m].hand \in Procs /\ call[m].pc \in Waiting
    BY <1>1, Hands
  <2>2. \/ Hand(m).turn = m \/ call[m].outcome # "none"
        \/ Raced("early", m) \/ Raced("overtaken", m)
    BY <1>1 DEF Talk, Registered
  <2>3. CASE Hand(m).turn = m /\ call[m].hand = p
    BY <1>5, <1>6, <2>1, <2>3 DEF Hand
  <2>4. CASE Hand(m).turn = m /\ call[m].hand # p
    BY <1>8, <2>1, <2>4
  <2>5. CASE call[m].outcome # "none"
    BY <1>5, <1>6, <2>5
  <2> QED
    BY <2>2, <2>3, <2>4, <2>5
<1>17. ResultIsOwn'
  <2> SUFFICES ASSUME NEW m \in Messages, ~Raced("crossed", m), ~Raced("early", m)
               PROVE  call'[m].outcome \in {"none", "error", m}
    BY <1>2 DEF ResultIsOwn, Raced
  <2>1. call[m].outcome \in {"none", "error", m}
    BY <1>1 DEF Talk, ResultIsOwn
  <2>2. CASE o.turn = m /\ call[m].pc \in Waiting /\ call[m].hand = p
    <3>1. ~Raced("overtaken", m)
      BY <1>1, <1>6, <2>2 DEF Talk, Outrun, Overtaker, Hand
    <3>2. Expects(m)
      BY <2>2, <3>1 DEF Expects, Hand
    <3>3. OnItsWay(o, m)
      BY <1>1, <2>2, <3>2 DEF Talk, Routed, Hand
    <3>4. o.events[1] \in {m, "end"}
      BY <3>3 DEF OnItsWay
    <3>5. "end" \notin Turns \cup {"error"}
      BY Marks
    <3> QED
      BY <1>5, <2>2, <3>4, <3>5
  <2>3. CASE ~(o.turn = m /\ call[m].pc \in Waiting /\ call[m].hand = p)
    BY <1>5, <2>1, <2>3
  <2> QED
    BY <2>2, <2>3
<1>18. Talk'
  BY <1>11, <1>12, <1>13, <1>14, <1>15, <1>16, <1>17 DEF Talk
<1> QED
  BY <1>1, <1>18 DEF Flow

LEMMA ReadResultFlow ==
    ASSUME Flow, NEW p \in Procs, ReadResult(p)
    PROVE  Flow'
<1>1. PICK x \in Turns : Reads(p, x) /\ Finished(p, x)
  BY DEF ReadResult
<1>2. IInv' /\ proc[p] \in ProcRecord /\ UNCHANGED raced
  BY Records, ReadResultStep DEF Flow, ReadResult
<1>3. /\ x = proc[p].events[1] /\ proc[p].events # <<>>
      /\ \A m \in Messages : call[m].pc = "send" => call[m].hand # p
  BY <1>1, <1>2 DEF Reads, ProcRecord
<1> QED
  BY <1>1, <1>2, <1>3, FinishedFlow

LEMMA ReadEndFlow ==
    ASSUME Flow, NEW p \in Procs, ReadEnd(p)
    PROVE  Flow'
<1>1. Reads(p, "end") /\ Finished(p, "error")
  BY DEF ReadEnd
<1>2. IInv' /\ proc[p] \in ProcRecord /\ UNCHANGED raced
  BY Records, ReadEndStep DEF Flow, ReadEnd
<1>3. /\ proc[p].events[1] = "end" /\ proc[p].events # <<>>
      /\ \A m \in Messages : call[m].pc = "send" => call[m].hand # p
  BY <1>1, <1>2 DEF Reads, ProcRecord
<1> QED
  BY <1>1, <1>2, <1>3, FinishedFlow

-----------------------------------------------------------------------------
(* The messages. *)

\* One message at a time holds the session.
LEMMA OneHolder ==
    ASSUME IInv, NEW m \in Messages, runs = m \/ runs = "none", NEW n \in Messages \ {m}
    PROVE  call[n].pc \notin Holding
BY Names DEF IInv, Control, Claimed

LEMMA Places ==
    /\ Opening \subseteq Asking /\ Waiting \subseteq Asking /\ Asking \subseteq Using
    /\ Using \cup Parted \subseteq Driving /\ Using \cup Parted \subseteq Holding
    /\ Opening \cap (Waiting \cup {"run"}) = {} /\ Parted \cap Using = {}
    /\ "run" \notin Asking /\ "run" \in Using
    /\ {"conduct", "await"} = Opening /\ {"send", "wait", "interrupt", "grace"} = Waiting
    /\ {"close", "settle"} = Parted
    /\ {"acquire", "evicted", "open", "oneshot", "gone", "idle", "checked", "none"}
          \cap (Using \cup Parted) = {}
BY DEF Opening, Waiting, Parted, Asking, Using, Driving, Starting, Holding

\* The only message that holds the session stops asking its process, without a
\* turn that it has registered and not seen end; or has it closed.
LEMMA Rests ==
    ASSUME IInv, Talk, NEW m \in Messages,
           \A p \in Procs : /\ Spoken(proc[p]) => Spoken(proc'[p])
                            /\ Works(proc'[p]) => Carries(proc[p], proc'[p]),
           \A n \in Messages \ {m} : call'[n] = call[n] /\ call[n].pc \notin Holding,
           call'[m].pc \notin Asking,
           call[m].pc \in Opening => Hand(m).turn # "none",
           call[m].pc \in Waiting =>
               \/ call[m].outcome # "none"
               \/ call'[m].hand = call[m].hand /\ ~Works(Hand(m)'),
           <<"overtaken", m>> \in raced' =>
               call'[m].pc \in Parted /\ ~Works(Hand(m)'),
           \A n \in Messages \ {m} : <<"overtaken", n>> \in raced' => <<"overtaken", n>> \in raced,
           call'[m].outcome \in {"none", "error"} \/ (call'[m].outcome = call[m].outcome /\ raced' = raced),
           call'[m].pc \notin Parted => call'[m].outcome = "none"
    PROVE  Talk'
<1>1. \A n \in Messages : n # m => call[n].pc \notin Using \cup Parted
  BY Places
<1>2. \A n \in Messages : ~IsFirst(n)' /\ ~Expects(n)' /\ ~Overtaker(n)'
  BY <1>1, Places DEF IsFirst, Expects, Overtaker
<1>3. \A n \in Messages : n # m => ~Raced("overtaken", n)'
  BY <1>1, Places DEF Talk, Outrun, Raced
<1>4. Speech'
  BY DEF Talk, Speech
<1>5. Adopted' /\ Routed'
  BY <1>2 DEF Adopted, Routed
<1>6. Ordered'
  <2> SUFFICES ASSUME NEW p \in Procs, Sane(p)'
               PROVE  /\ Bracketed(proc'[p])
                      /\ Due(proc'[p]) => proc'[p].turn # "none" \/ First(p)'
    BY DEF Ordered, Bracketed, Due
  <2>1. Works(proc'[p]) /\ Works(proc[p]) /\ Carries(proc[p], proc'[p])
    BY DEF Sane, Works, Carries
  <2>2. ~Overtaken(p)
    <3> SUFFICES ASSUME NEW n \in Messages, call[n].hand = p, Overtaker(n) PROVE FALSE
      BY DEF Overtaken
    <3>1. n = m /\ call[m].pc \in Waiting
      BY <1>1, Places DEF Overtaker
    <3>2. call[m].outcome = "none"
      BY <3>1 DEF Talk, Outrun, Overtaker
    <3>3. Hand(m)' = proc'[p]
      BY <3>1, <3>2 DEF Hand
    <3> QED
      BY <2>1, <3>1, <3>2, <3>3
  <2>3. Bracketed(proc[p]) /\ (Due(proc[p]) => proc[p].turn # "none" \/ First(p)) /\ Spoken(proc[p])
    BY <2>1, <2>2 DEF Talk, Ordered, Speech, Sane
  <2>4. First(p) => proc[p].turn # "none"
    BY <1>1, Places DEF First, IsFirst, Hand
  <2> QED
    BY <2>1, <2>3, <2>4 DEF Carries, Works
<1>7. Outrun'
  <2> SUFFICES ASSUME NEW n \in Messages, Raced("overtaken", n)'
               PROVE  call'[n].pc \in Parted /\ ~Works(Hand(n)')
    BY <1>2, Places DEF Outrun, Overtaker, Works
  <2>1. n = m
    BY <1>3
  <2> QED
    BY <2>1 DEF Raced
<1>8. Untold' /\ ResultIsOwn'
  BY <1>1, Places DEF Talk, Untold, ResultIsOwn, Raced
<1>9. Registered'
  BY <1>1, Places DEF Registered
<1> QED
  BY <1>4, <1>5, <1>6, <1>7, <1>8, <1>9 DEF Talk

\* The only message that holds the session asks process p for a turn.
LEMMA Asks ==
    ASSUME IInv, Talk, NEW m \in Messages, NEW p \in Procs, NEW r, Become(p, r),
           \A n \in Messages \ {m} : call'[n] = call[n] /\ call[n].pc \notin Holding,
           call[m].pc \notin Waiting \cup Parted, call[m].pc \in Opening => call[m].hand = p,
           call'[m].pc \in Asking, call'[m].hand = p, call'[m].outcome = "none",
           Spoken(r), Expects(m)' => Led(r) /\ (<<"crossed", m>> \in raced' \/ OnItsWay(r, m)),
           Sane(p)' => Bracketed(r) /\ (Due(r) => r.turn # "none" \/ First(p)'),
           <<"overtaken", m>> \in raced' =>
               call'[m].pc \in Waiting /\ r.events # <<>> /\ r.events[1] = "start",
           \A n \in Messages \ {m} : <<"overtaken", n>> \in raced' => <<"overtaken", n>> \in raced,
           call'[m].pc \in Waiting => r.turn = m
    PROVE  Talk'
<1>1. \A q \in Procs : proc'[q] = IF q = p THEN r ELSE proc[q]
  BY DEF Become, TypeOK, IInv
<1>2. Hand(m)' = r
  BY <1>1 DEF Hand
<1>3. \A n \in Messages : n # m => call[n].pc \notin Using \cup Parted
  BY Places
<1>4. \A n \in Messages : n # m => ~IsFirst(n)' /\ ~Expects(n)' /\ ~Overtaker(n)'
  BY <1>3, Places DEF IsFirst, Expects, Overtaker
<1>5. \A n \in Messages : n # m => ~Raced("overtaken", n)'
  BY <1>3, Places DEF Talk, Outrun, Raced
<1>6. Speech'
  BY <1>1 DEF Talk, Speech
<1>7. Adopted' /\ Routed'
  <2>1. ASSUME NEW n \in Messages, Expects(n)'
        PROVE  Led(Hand(n)') /\ (~Raced("crossed", n)' => OnItsWay(Hand(n)', n))
    <3>1. n = m
      BY <1>4, <2>1
    <3> QED
      BY <1>2, <2>1, <3>1 DEF Raced
  <2> QED
    BY <2>1 DEF Adopted, Routed, Led, OnItsWay
<1>8. Ordered'
  <2> SUFFICES ASSUME NEW q \in Procs, Sane(q)'
               PROVE  /\ Bracketed(proc'[q])
                      /\ Due(proc'[q]) => proc'[q].turn # "none" \/ First(q)'
    BY DEF Ordered, Bracketed, Due
  <2>1. CASE q = p
    BY <1>1, <2>1
  <2>2. CASE q # p
    <3>1. ~Overtaken(q) /\ ~First(q)
      BY <1>3, <2>2, Places DEF Overtaken, Overtaker, First, IsFirst
    <3>2. Sane(q)
      BY <1>1, <2>2, <3>1 DEF Sane, Works
    <3> QED
      BY <1>1, <2>2, <3>1, <3>2 DEF Talk, Ordered
  <2> QED
    BY <2>1, <2>2
<1>9. Outrun'
  <2> SUFFICES ASSUME NEW n \in Messages, Raced("overtaken", n)'
               PROVE  /\ call'[n].pc \in Waiting /\ call'[n].outcome = "none"
                      /\ Hand(n)'.events # <<>> /\ Hand(n)'.events[1] = "start"
    BY Places DEF Outrun, Overtaker
  <2>1. n = m
    BY <1>5
  <2> QED
    BY <1>2, <2>1 DEF Raced
<1>10. Untold' /\ ResultIsOwn'
  BY <1>3, Places DEF Talk, Untold, ResultIsOwn
<1>11. Registered'
  BY <1>2, <1>3, Places DEF Registered
<1> QED
  BY <1>6, <1>7, <1>8, <1>9, <1>10, <1>11 DEF Talk

\* The message moves on where no process is in its hand.
LEMMA Elsewhere ==
    ASSUME Flow, NEW m \in Messages, runs = m \/ runs = "none", proc' = proc,
           call[m].pc \in Starting \cup {"idle", "checked", "run"},
           \A n \in Messages \ {m} : call'[n] = call[n],
           call'[m].pc \in Starting \cup {"run", "oneshot"},
           call'[m].outcome = call[m].outcome,
           raced' = raced \/ raced' = raced \cup {<<"refused", m>>}
    PROVE  Talk'
<1>1. IInv /\ Talk
  BY DEF Flow
<1>2. call[m].pc \notin Asking \cup Parted /\ call'[m].pc \notin Asking \cup Parted
  BY DEF Starting, Asking, Opening, Waiting, Parted
<1>3. call[m].pc \notin Opening /\ call[m].pc \notin Waiting
  BY <1>2, Places
<1>4. call[m].outcome = "none" /\ <<"overtaken", m>> \notin raced
  BY <1>1, <1>2, <1>3 DEF Talk, Untold, Outrun, Raced
<1>5. \A n \in Messages \ {m} : call[n].pc \notin Holding
  BY <1>1, OneHolder
<1>6. \A p \in Procs : Carries(proc[p], proc'[p]) /\ proc'[p] = proc[p]
  BY CarriesItself
<1>7. /\ <<"overtaken", m>> \notin raced'
      /\ \A n \in Messages \ {m} : <<"overtaken", n>> \in raced' => <<"overtaken", n>> \in raced
  BY <1>4
<1> QED
  BY <1>1, <1>2, <1>3, <1>4, <1>5, <1>6, <1>7, Rests

\* The message lets the session go.
LEMMA GoneTalk ==
    ASSUME Flow, NEW m \in Messages, runs = m, Release(m), proc' = proc,
           call[m].pc \notin Opening, call[m].pc \in Waiting => call[m].outcome # "none"
    PROVE  Talk'
<1>1. IInv /\ Talk /\ TypeOK
  BY DEF Flow, IInv
<1>2. /\ call'[m] = Fresh("gone") /\ \A n \in Messages \ {m} : call'[n] = call[n]
      /\ raced' \subseteq raced /\ <<"overtaken", m>> \notin raced'
  <2>1. <<"overtaken", m>> \notin raced'
    BY DEF Release
  <2> QED
    BY <1>1, <2>1, ReleaseEffect, Names
<1>3. call'[m].pc = "gone" /\ call'[m].outcome = "none" /\ "gone" \notin Asking \cup Parted
  BY <1>2, FreshTyped, Places DEF Pcs
<1>4. \A n \in Messages \ {m} : call[n].pc \notin Holding
  BY <1>1, OneHolder
<1>5. \A p \in Procs : Carries(proc[p], proc'[p]) /\ proc'[p] = proc[p]
  BY CarriesItself
<1> QED
  BY <1>1, <1>2, <1>3, <1>4, <1>5, Rests

LEMMA GoneFlow ==
    ASSUME Flow, IInv', NEW m \in Messages, runs = m, Release(m), proc' = proc,
           call[m].pc \notin Opening, call[m].pc \in Waiting => call[m].outcome # "none"
    PROVE  Flow'
BY GoneTalk DEF Flow

LEMMA StartTurnFlow ==
    ASSUME Flow, NEW m \in Messages, StartTurn(m)
    PROVE  Flow'
<1>1. /\ runs = "none" /\ call[m].pc \in {"idle", "checked"} /\ Goto(m, "acquire")
      /\ UNCHANGED <<proc, raced>>
  BY DEF StartTurn
<1>2. IInv' /\ TypeOK
  BY StartTurnStep DEF Flow, IInv
<1>3. /\ call'[m].pc = "acquire" /\ call'[m].outcome = call[m].outcome
      /\ \A n \in Messages \ {m} : call'[n] = call[n]
  BY <1>1, <1>2, GotoEffect, Names, Stations
<1>4. Talk'
  BY <1>1, <1>3, Stations, Elsewhere
<1> QED
  BY <1>2, <1>4 DEF Flow

LEMMA AcquireFlow ==
    ASSUME Flow, NEW m \in Messages, Acquire(m)
    PROVE  Flow'
<1>1. /\ call[m].pc = "acquire" /\ runs = m /\ m \in Callers /\ UNCHANGED <<proc, raced>>
  BY Names, Stations DEF Acquire, Flow, IInv, Control, Claimed
<1>2. IInv' /\ TypeOK /\ entry \in Procs \cup {0}
  BY AcquireStep DEF Flow, IInv, TypeOK
<1>3. PICK pc \in {"open", "run", "evicted"} :
        \/ Goto(m, pc)
        \/ ~Vacant /\ call' = [call EXCEPT ![m].pc = pc, ![m].hand = entry]
  BY DEF Acquire
<1>4. /\ call'[m].pc = pc /\ call'[m].outcome = call[m].outcome
      /\ \A n \in Messages \ {m} : call'[n] = call[n]
  BY <1>1, <1>2, <1>3, GotoEffect, HandEffect, Names, Stations
<1>5. Talk'
  BY <1>1, <1>3, <1>4, Stations, Elsewhere
<1> QED
  BY <1>2, <1>5 DEF Flow

LEMMA MessageEvictedFlow ==
    ASSUME Flow, NEW m \in Messages, Evicted(m)
    PROVE  Flow'
<1>1. /\ call[m].pc = "evicted" /\ runs = m /\ UNCHANGED <<proc, raced>> /\ Goto(m, "open")
  BY Names, Stations DEF Evicted, Flow, IInv, Control, Claimed
<1>2. IInv' /\ TypeOK
  BY MessageEvictedStep DEF Flow, IInv
<1>3. /\ call'[m].pc = "open" /\ call'[m].outcome = call[m].outcome
      /\ \A n \in Messages \ {m} : call'[n] = call[n]
  BY <1>1, <1>2, GotoEffect, Names, Stations
<1>4. Talk'
  BY <1>1, <1>3, Stations, Elsewhere
<1> QED
  BY <1>2, <1>4 DEF Flow

LEMMA OpenFlow ==
    ASSUME Flow, NEW m \in Messages, Open(m)
    PROVE  Flow'
<1>1. call[m].pc = "open" /\ runs = m /\ m \in Callers /\ call[m].given = 0
  BY Names, Stations DEF Open, Flow, IInv, Control, Claimed, Given
<1>2. IInv /\ IInv' /\ Talk /\ TypeOK
  BY OpenStep DEF Flow, IInv
<1>3. \A n \in Messages \ {m} : call[n].pc \notin Using /\ call[n].pc \notin Holding
  BY <1>1, <1>2, OneHolder, Places
<1>4. ASSUME NEW p \in Procs, Opened(m, p)
      PROVE  Flow'
  <2> DEFINE r == [NoProcess EXCEPT !.state = "running", !.alive = TRUE, !.inbox = <<m>>,
                                    !.writing = TRUE]
  <2>1. /\ Become(p, r) /\ raced' = raced
        /\ call' = [call EXCEPT ![m].pc = "conduct", ![m].hand = p, ![m].given = @ + 1]
    BY <1>4 DEF Opened
  <2>2. /\ r.state = "running" /\ r.alive /\ r.doing = "none" /\ r.wire = <<>> /\ r.events = <<>>
        /\ r.inbox = <<m>>
    BY DEF NoProcess
  <2> HIDE DEF r
  <2>3. /\ call'[m].pc = "conduct" /\ call'[m].hand = p /\ call'[m].outcome = call[m].outcome
        /\ \A n \in Messages \ {m} : call'[n] = call[n]
    BY <1>1, <1>2, <2>1, Names DEF TypeOK, CallRecord
  <2>4. \A q \in Procs : proc'[q] = IF q = p THEN r ELSE proc[q]
    BY <1>2, <2>1 DEF Become, TypeOK
  <2>5. call[m].outcome = "none" /\ <<"overtaken", m>> \notin raced
    BY <1>1, <1>2, Places DEF Talk, Untold, Outrun, Raced
  <2>6. Spoken(r) /\ Led(r) /\ OnItsWay(r, m) /\ Bracketed(r)
    BY <2>2 DEF Spoken, Led, OnItsWay, Bracketed
  <2>7. First(p)'
    <3>1. Hand(m)' = r /\ ~r.heard
      BY <2>3, <2>4 DEF Hand, r, NoProcess
    <3> QED
      BY <2>3, <3>1, Places DEF First, IsFirst
  <2>8. Talk'
    <3>1. /\ call[m].pc \notin Waiting \cup Parted /\ call[m].pc \notin Opening
          /\ call'[m].pc \in Asking /\ call'[m].pc \notin Waiting
      BY <1>1, <2>3, Places
    <3> QED
      BY <1>2, <1>3, <2>1, <2>3, <2>5, <2>6, <2>7, <3>1, Asks
  <2> QED
    BY <1>2, <2>8 DEF Flow
<1>5. CASE NotOpened(m)
  <2>1. PICK k \in 1..2 : OneShot(m, k)
    BY <1>5 DEF NotOpened
  <2>2. /\ call'[m].pc = "oneshot" /\ call'[m].outcome = call[m].outcome
        /\ \A n \in Messages \ {m} : call'[n] = call[n]
    BY <1>1, <1>2, <2>1, OneShotEffect, Names
  <2>3. proc' = proc /\ (raced' = raced \/ raced' = raced \cup {<<"refused", m>>})
    BY <1>5 DEF NotOpened
  <2>4. Talk'
    BY <1>1, <2>2, <2>3, Stations, Elsewhere
  <2> QED
    BY <1>2, <2>4 DEF Flow
<1> QED
  BY <1>4, <1>5 DEF Open

LEMMA ConductFlow ==
    ASSUME Flow, NEW m \in Messages, Conduct(m)
    PROVE  Flow'
<1> DEFINE p == call[m].hand
           r == [proc[p] EXCEPT !.conducted = TRUE]
<1>1. /\ call[m].pc = "conduct" /\ m \in Callers /\ Become(p, r) /\ Goto(m, "await")
      /\ UNCHANGED raced
  BY Names DEF Conduct
<1>2. IInv /\ IInv' /\ Talk /\ TypeOK
  BY ConductStep DEF Flow, IInv
<1>3. p \in Procs
  BY <1>1, <1>2, Hands, Places
<1>4. proc[p] \in ProcRecord
  BY <1>2, <1>3, Records
<1>5. /\ r.heard = proc[p].heard /\ r.turn = proc[p].turn /\ r.alive = proc[p].alive
      /\ r.events = proc[p].events /\ r.wire = proc[p].wire /\ r.doing = proc[p].doing
      /\ r.inbox = proc[p].inbox /\ r.swept = proc[p].swept /\ r.state = proc[p].state
  BY <1>4 DEF ProcRecord
<1> HIDE DEF r
<1>6. /\ call'[m].pc = "await" /\ call'[m].hand = p /\ call'[m].outcome = call[m].outcome
      /\ \A n \in Messages \ {m} : call'[n] = call[n]
  BY <1>1, <1>2, GotoEffect, Stations, Names
<1>7. \A n \in Messages : Stays(n)
  <2>1. Stays(m)
    BY <1>1, <1>6, Places DEF Stays
  <2> QED
    BY <1>6, <2>1, StaysPut
<1> HIDE DEF p
<1>8. Carries(proc[p], r) /\ \A n \in Messages : OnItsWay(proc[p], n) => OnItsWay(r, n)
  BY <1>5, SameOutput DEF OnItsWay
<1>9. Talk'
  BY <1>1, <1>2, <1>3, <1>7, <1>8, ProcTalk
<1> QED
  BY <1>2, <1>9 DEF Flow

LEMMA AwaitFlow ==
    ASSUME Flow, NEW m \in Messages, Await(m)
    PROVE  Flow'
<1>1. /\ call[m].pc = "await" /\ runs = m /\ m \in Callers
  BY Names, Stations DEF Await, Flow, IInv, Control, Claimed
<1>2. IInv /\ IInv' /\ Talk /\ TypeOK
  BY AwaitStep DEF Flow, IInv
<1>3. PICK p \in Procs : p = call[m].hand
  BY <1>1, <1>2, Hands, Places
<1> DEFINE o == proc[p]
           r == [o EXCEPT !.turn = m]
<1>4. \A n \in Messages \ {m} : call[n].pc \notin Holding
  BY <1>1, <1>2, OneHolder
<1>5. call[m].outcome = "none" /\ <<"overtaken", m>> \notin raced
  BY <1>1, <1>2, Places DEF Talk, Untold, Outrun, Raced
<1>6. CASE /\ Become(p, r) /\ Goto(m, "wait")
           /\ raced' = IF o.heard THEN raced \cup {<<"early", m>>} ELSE raced
  <2>1. o \in ProcRecord /\ Spoken(o)
    BY <1>2, <1>3, Records DEF Talk, Speech
  <2>2. /\ r.heard = o.heard /\ r.turn = m /\ r.alive = o.alive /\ r.events = o.events
        /\ r.wire = o.wire /\ r.doing = o.doing /\ r.inbox = o.inbox /\ r.swept = o.swept
        /\ r.state = o.state
    BY <2>1 DEF ProcRecord
  <2> HIDE DEF r
  <2>3. /\ call'[m].pc = "wait" /\ call'[m].hand = p /\ call'[m].outcome = call[m].outcome
        /\ \A n \in Messages \ {m} : call'[n] = call[n]
    BY <1>1, <1>2, <1>3, <1>6, GotoEffect, Stations, Names
  <2>4. Expects(m)' => Led(r) /\ (<<"crossed", m>> \in raced' \/ OnItsWay(r, m))
    <3> SUFFICES ASSUME Expects(m)' PROVE Led(r) /\ (<<"crossed", m>> \in raced' \/ OnItsWay(r, m))
      OBVIOUS
    <3>1. <<"early", m>> \notin raced'
      BY <2>3, Places DEF Expects, IsFirst, Raced
    <3>2. ~o.heard /\ raced' = raced
      BY <1>6, <3>1
    <3>3. Expects(m) /\ Hand(m) = o
      BY <1>1, <1>3, <3>2, Places DEF Expects, IsFirst, Hand
    <3>4. Led(o) /\ (<<"crossed", m>> \in raced' \/ OnItsWay(o, m))
      BY <1>2, <3>2, <3>3 DEF Talk, Adopted, Routed, Raced
    <3> QED
      BY <2>2, <3>4 DEF Led, OnItsWay
  <2>5. Sane(p)' => Bracketed(r) /\ (Due(r) => r.turn # "none" \/ First(p)')
    <3> SUFFICES ASSUME Sane(p)' PROVE Bracketed(r) /\ r.turn # "none"
      OBVIOUS
    <3>1. proc'[p] = r
      BY <1>2, <1>3, <1>6 DEF Become, TypeOK
    <3>2. ~Overtaken(p)
      BY <1>1, <1>4, Places DEF Overtaken, Overtaker
    <3>3. Sane(p)
      <4>1. proc'[p].alive /\ proc'[p].state \in {"running", "idle"}
        BY DEF Sane, Works
      <4>2. o.alive /\ o.state \in {"running", "idle"}
        BY <2>2, <3>1, <4>1
      <4> QED
        BY <3>2, <4>2 DEF Sane, Works
    <3>4. Bracketed(o)
      BY <1>2, <1>3, <3>3 DEF Talk, Ordered
    <3> QED
      BY <2>2, <3>4, Marks DEF Bracketed
  <2>6. Spoken(r)
    BY <2>1, <2>2, SpokenSame
  <2>7. call[m].hand = p
    BY <1>3
  <2>8. Talk'
    <3>1. /\ call[m].pc \notin Waiting \cup Parted /\ call'[m].pc \in Asking
      BY <1>1, <2>3, Places
    <3>2. <<"overtaken", m>> \notin raced'
      BY <1>5, <1>6
    <3>3. \A n \in Messages \ {m} : <<"overtaken", n>> \in raced' => <<"overtaken", n>> \in raced
      BY <1>6
    <3>4. /\ \A n \in Messages \ {m} : call'[n] = call[n] /\ call[n].pc \notin Holding
          /\ call[m].pc \in Opening => call[m].hand = p
          /\ call'[m].hand = p /\ call'[m].outcome = "none"
          /\ call'[m].pc \in Waiting => r.turn = m
      BY <1>4, <1>5, <2>2, <2>3, <2>7
    <3>5. Become(p, r)
      BY <1>6
    <3> QED
      BY <1>2, <1>3, <2>4, <2>5, <2>6, <3>1, <3>2, <3>3, <3>4, <3>5, Asks
  <2> QED
    BY <1>2, <2>8 DEF Flow
<1>7. CASE o.turn # "none" /\ Failed(m) /\ UNCHANGED <<proc, raced>>
  <2>1. /\ call'[m].pc = "settle" /\ call'[m].outcome = "error"
        /\ \A n \in Messages \ {m} : call'[n] = call[n]
    BY <1>1, <1>2, <1>7, FailedEffect, Names
  <2>2. Talk'
    <3>1. Hand(m).turn # "none"
      BY <1>3, <1>7 DEF Hand
    <3>2. \A q \in Procs : /\ Spoken(proc[q]) => Spoken(proc'[q])
                           /\ Works(proc'[q]) => Carries(proc[q], proc'[q])
      BY <1>7, CarriesItself
    <3>3. call[m].pc \notin Waiting /\ call'[m].pc \notin Asking /\ call'[m].pc \in Parted
      BY <1>1, <2>1, Places
    <3>4. raced' = raced /\ <<"overtaken", m>> \notin raced'
      BY <1>5, <1>7
    <3> QED
      BY <1>2, <1>4, <2>1, <3>1, <3>2, <3>3, <3>4, Rests
  <2> QED
    BY <1>2, <2>2 DEF Flow
<1> QED
  BY <1>3, <1>6, <1>7 DEF Await

\* A turn is sent to an idle process that has none: either there is no event to
\* be read, or the next one is the start of a turn of the agent's own.
LEMMA SendsTurn ==
    ASSUME NEW o \in ProcRecord, o.state = "idle", EndIsLast(o), Spoken(o), ~Due(o),
           NEW m \in Messages, NEW r, r.state = "running", r.alive = o.alive, r.events = o.events,
           r.wire = o.wire, r.doing = o.doing, o.inbox = <<>> => r.inbox # <<>> /\ r.inbox[1] = m
    PROVE  /\ Spoken(r)
           /\ r.events # <<>> => r.events[1] = "start" /\ "start" \in Elements(o.events)
           /\ r.events = <<>> => Led(r) /\ Bracketed(r)
           /\ (r.events = <<>> /\ o.inbox = <<>> /\ o.doing = "none" /\ o.wire = <<>>) => OnItsWay(r, m)
<1>1. Spoken(r)
  BY DEF Spoken
<1>2. o.events # <<>> => o.events[1] = "start" /\ "start" \in Elements(o.events)
  <2> SUFFICES ASSUME o.events # <<>>
               PROVE  o.events[1] = "start" /\ "start" \in Elements(o.events)
    OBVIOUS
  <2>1. o.events \in Seq(Turns \cup {"start", "end"})
    BY DEF ProcRecord
  <2>2. 1 \in DOMAIN o.events /\ o.events[1] \in Turns \cup {"start", "end"}
    BY <2>1, Shorter
  <2>3. o.events[1] \notin Turns /\ o.events[1] # "end"
    BY <2>2 DEF Due, EndIsLast
  <2> QED
    BY <2>2, <2>3 DEF Elements
<1>3. r.events = <<>> => Led(r) /\ Bracketed(r)
  BY DEF Led, Bracketed
<1>4. (r.events = <<>> /\ o.inbox = <<>> /\ o.doing = "none" /\ o.wire = <<>>) => OnItsWay(r, m)
  BY DEF OnItsWay
<1> QED
  BY <1>1, <1>2, <1>3, <1>4

LEMMA TurnRecord ==
    ASSUME NEW o \in ProcRecord, NEW m \in Messages
    PROVE  LET r == [o EXCEPT !.state = "running", !.turn = m, !.inbox = Append(@, m),
                               !.writing = TRUE]
           IN  /\ r.state = "running" /\ r.turn = m /\ r.alive = o.alive /\ r.events = o.events
               /\ r.wire = o.wire /\ r.doing = o.doing
               /\ o.inbox = <<>> => r.inbox # <<>> /\ r.inbox[1] = m
<1> DEFINE s == Append(o.inbox, m)
           r == [o EXCEPT !.state = "running", !.turn = m, !.inbox = s, !.writing = TRUE]
<1>1. o.inbox = <<>> => s # <<>> /\ s[1] = m
  OBVIOUS
<1> HIDE DEF s
<1>2. /\ r.state = "running" /\ r.turn = m /\ r.alive = o.alive /\ r.events = o.events
      /\ r.wire = o.wire /\ r.doing = o.doing /\ r.inbox = s
  BY DEF ProcRecord
<1> QED
  BY <1>1, <1>2 DEF s

LEMMA SendFlow ==
    ASSUME Flow, IInv', NEW m \in Messages, NEW p \in Procs, call[m].pc = "run", call[m].hand = p,
           runs = m, proc[p].turn = "none", proc[p].state = "idle", proc[p].alive,
           NEW r, Become(p, r), r.state = "running", r.turn = m, r.alive = proc[p].alive,
           r.events = proc[p].events, r.wire = proc[p].wire,
           r.doing = proc[p].doing, proc[p].inbox = <<>> => r.inbox # <<>> /\ r.inbox[1] = m,
           call'[m].pc = "send", call'[m].hand = p, call'[m].outcome = call[m].outcome,
           \A n \in Messages \ {m} : call'[n] = call[n],
           raced' = raced \cup SendRaces(m, p)
    PROVE  Flow'
<1>1. IInv /\ Talk /\ TypeOK /\ m \in Callers
  BY Names DEF Flow, IInv
<1>2. proc[p] \in ProcRecord /\ EndIsLast(proc[p]) /\ Spoken(proc[p])
  BY <1>1, Records DEF Talk, Speech
<1>3. \A n \in Messages \ {m} : call[n].pc \notin Holding /\ call[n].pc \notin Using
  BY <1>1, OneHolder, Places
<1>4. \A n \in Messages \ {m} : call'[n].pc \notin Using
  BY <1>3
<1>5. call[m].outcome = "none" /\ <<"overtaken", m>> \notin raced
  BY <1>1, Places DEF Talk, Untold, Outrun, Raced
<1>6. ~Due(proc[p])
  <2>1. ~First(p) /\ ~Overtaken(p)
    BY <1>3, Places DEF First, IsFirst, Overtaken, Overtaker
  <2>2. Sane(p)
    BY <2>1 DEF Sane, Works
  <2> QED
    BY <1>1, <2>1, <2>2 DEF Talk, Ordered
<1>7. /\ Spoken(r)
      /\ r.events # <<>> => r.events[1] = "start" /\ "start" \in Elements(proc[p].events)
      /\ r.events = <<>> => Led(r) /\ Bracketed(r)
      /\ (r.events = <<>> /\ AtRest(p)) => OnItsWay(r, m)
  <2> DEFINE o == proc[p]
  <2>1. /\ o \in ProcRecord /\ o.state = "idle" /\ EndIsLast(o) /\ Spoken(o) /\ ~Due(o)
        /\ r.state = "running" /\ r.alive = o.alive /\ r.events = o.events
        /\ r.wire = o.wire /\ r.doing = o.doing
        /\ o.inbox = <<>> => r.inbox # <<>> /\ r.inbox[1] = m
    BY <1>2, <1>6
  <2> HIDE DEF o
  <2>2. /\ Spoken(r)
        /\ r.events # <<>> => r.events[1] = "start" /\ "start" \in Elements(o.events)
        /\ r.events = <<>> => Led(r) /\ Bracketed(r)
        /\ (r.events = <<>> /\ o.inbox = <<>> /\ o.doing = "none" /\ o.wire = <<>>) => OnItsWay(r, m)
    BY <2>1, SendsTurn
  <2> QED
    BY <2>2 DEF o, AtRest
<1>8. /\ <<"overtaken", m>> \in raced' <=> "start" \in Elements(proc[p].events)
      /\ <<"crossed", m>> \notin raced' => AtRest(p)
      /\ \A n \in Messages \ {m} : <<"overtaken", n>> \in raced' => <<"overtaken", n>> \in raced
  BY <1>5 DEF SendRaces
<1>9. "start" \in Elements(proc[p].events) => r.events # <<>>
  BY <1>7 DEF Elements
<1>10. Talk'
  <2>1. Expects(m)' => Led(r) /\ (<<"crossed", m>> \in raced' \/ OnItsWay(r, m))
    <3>1. Expects(m)' => <<"overtaken", m>> \notin raced'
      BY <1>4, Places DEF Expects, IsFirst, Raced
    <3> QED
      BY <1>7, <1>8, <3>1
  <2>2. Sane(p)' => Bracketed(r) /\ (Due(r) => r.turn # "none" \/ First(p)')
    <3>1. Sane(p)' => <<"overtaken", m>> \notin raced'
      <4>1. <<"overtaken", m>> \in raced' => Overtaker(m)'
        BY <1>4, Places DEF Overtaker, Raced
      <4>2. Overtaker(m)' => Overtaken(p)'
        BY <1>4 DEF Overtaken
      <4> QED
        BY <4>1, <4>2 DEF Sane
    <3> QED
      BY <1>7, <1>8, <3>1, Marks
  <2>3. <<"overtaken", m>> \in raced' =>
          call'[m].pc \in Waiting /\ r.events # <<>> /\ r.events[1] = "start"
    BY <1>4, <1>7, <1>8, <1>9, Places
  <2>4. /\ \A n \in Messages \ {m} : call'[n] = call[n] /\ call[n].pc \notin Holding
        /\ call[m].pc \notin Waiting \cup Parted /\ call[m].pc \notin Opening
        /\ call'[m].pc \in Asking /\ call'[m].outcome = "none"
    BY <1>3, <1>4, <1>5, Places
  <2> QED
    BY <1>1, <1>4, <1>7, <1>8, <2>1, <2>2, <2>3, <2>4, Asks
<1> QED
  BY <1>10 DEF Flow

\* The only message that holds the session parts with its process, which is
\* closed or dead if it had asked it for a turn.
LEMMA PartsFlow ==
    ASSUME Flow, IInv', NEW m \in Messages, NEW p \in Procs, call[m].pc \in Driving,
           call[m].hand = p, call[m].pc \notin Opening, NEW r, Become(p, r),
           Spoken(proc[p]) => Spoken(r), Works(r) => Carries(proc[p], r),
           call[m].pc \in Waiting => ~Works(r),
           \/ Failed(m)
           \/ Goto(m, "close") /\ call[m].pc \in Waiting,
           UNCHANGED raced
    PROVE  Flow'
<1>1. IInv /\ Talk /\ TypeOK /\ runs = m /\ m \in Callers
  BY Names, Stations DEF Flow, IInv, Control, Claimed
<1>2. \A n \in Messages \ {m} : call[n].pc \notin Holding
  BY <1>1, OneHolder
<1>3. /\ call'[m].pc \in Parted /\ call'[m].hand = p
      /\ call'[m].outcome \in {call[m].outcome, "error"}
      /\ \A n \in Messages \ {m} : call'[n] = call[n]
  BY <1>1, FailedEffect, GotoEffect, Names, Places, Stations
<1>4. \A q \in Procs : proc'[q] = IF q = p THEN r ELSE proc[q]
  BY <1>1 DEF Become, TypeOK
<1>5. Hand(m)' = r
  BY <1>3, <1>4 DEF Hand
<1>6. \A q \in Procs : /\ Spoken(proc[q]) => Spoken(proc'[q])
                       /\ Works(proc'[q]) => Carries(proc[q], proc'[q])
  BY <1>4, CarriesItself
<1>7. <<"overtaken", m>> \in raced' => ~Works(Hand(m)')
  <2>1. CASE call[m].pc \in Waiting
    BY <1>5, <2>1
  <2>2. CASE call[m].pc \in Parted
    <3>1. Raced("overtaken", m) => ~Works(Hand(m))
      BY <1>1, <2>2 DEF Talk, Outrun
    <3> QED
      BY <1>5, <3>1 DEF Carries, Hand, Raced, Works
  <2>3. CASE call[m].pc \notin Waiting \cup Parted
    BY <1>1, <2>3 DEF Talk, Outrun, Raced
  <2> QED
    BY <2>1, <2>2, <2>3
<1>8. Talk'
  <2>1. call'[m].pc \notin Asking /\ call'[m].hand = call[m].hand
    BY <1>3, Places
  <2>2. call[m].pc \in Waiting => ~Works(Hand(m)')
    BY <1>5
  <2>3. call'[m].outcome \in {"none", "error"} \/ (call'[m].outcome = call[m].outcome /\ raced' = raced)
    BY <1>3
  <2>4. \A n \in Messages \ {m} : <<"overtaken", n>> \in raced' => <<"overtaken", n>> \in raced
    OBVIOUS
  <2> QED
    BY <1>1, <1>2, <1>3, <1>6, <1>7, <2>1, <2>2, <2>3, <2>4, Rests
<1> QED
  BY <1>8 DEF Flow

LEMMA RunTurnFlow ==
    ASSUME Flow, NEW m \in Messages, RunTurn(m)
    PROVE  Flow'
<1>1. /\ call[m].pc = "run" /\ runs = m /\ m \in Callers /\ call[m].given = 0
  BY Names, Stations DEF RunTurn, Flow, IInv, Control, Claimed, Given
<1>2. IInv /\ IInv' /\ Talk /\ TypeOK
  BY RunTurnStep DEF Flow, IInv
<1>3. PICK p \in Procs : p = call[m].hand
  BY <1>1, <1>2, Hands, Places
<1>4. proc[p] \in ProcRecord
  BY <1>2, Records
<1>5. CASE /\ MayRun(p) /\ proc[p].state = "idle" /\ proc[p].alive
           /\ Become(p, [proc[p] EXCEPT !.state = "running", !.turn = m, !.inbox = Append(@, m),
                                !.writing = TRUE])
           /\ call' = [call EXCEPT ![m].pc = "send", ![m].given = @ + 1]
           /\ raced' = raced \cup SendRaces(m, p)
  <2> DEFINE r == [proc[p] EXCEPT !.state = "running", !.turn = m, !.inbox = Append(@, m),
                                !.writing = TRUE]
  <2>1. /\ r.state = "running" /\ r.turn = m /\ r.alive = proc[p].alive /\ r.events = proc[p].events
        /\ r.wire = proc[p].wire /\ r.doing = proc[p].doing
        /\ proc[p].inbox = <<>> => r.inbox # <<>> /\ r.inbox[1] = m
    BY <1>4, TurnRecord
  <2>2. Become(p, r)
    BY <1>5
  <2>3. /\ call'[m].pc = "send" /\ call'[m].hand = p /\ call'[m].outcome = call[m].outcome
        /\ \A n \in Messages \ {m} : call'[n] = call[n]
    BY <1>1, <1>2, <1>3, <1>5, Names DEF TypeOK, CallRecord
  <2> HIDE DEF r
  <2> QED
    BY <1>1, <1>2, <1>3, <1>5, <2>1, <2>2, <2>3, SendFlow DEF MayRun
<1>6. CASE proc[p].state = "idle" /\ SendFails(m, p) /\ UNCHANGED raced
  <2> DEFINE r == [proc[p] EXCEPT !.state = "running"]
  <2>1. ~proc[p].alive /\ Become(p, r) /\ Failed(m)
    BY <1>6 DEF SendFails
  <2>2. Carries(proc[p], r) /\ r.state = "running"
    BY <1>4, <1>6, <2>1 DEF Carries, Spoken, Led, ProcRecord
  <2> HIDE DEF r
  <2>3. call[m].pc \notin Opening /\ call[m].pc \notin Waiting /\ call[m].pc \in Driving
    BY <1>1, Places
  <2>4. Spoken(proc[p]) => Spoken(r)
    BY <2>2 DEF Carries
  <2> QED
    BY <1>1, <1>2, <1>3, <1>6, <2>1, <2>2, <2>3, <2>4, PartsFlow
<1>7. CASE Release(m) /\ proc' = proc
  BY <1>1, <1>2, <1>7, Places, GoneFlow
<1>8. CASE OneShot(m, 1) /\ UNCHANGED <<proc, raced>>
  <2>1. /\ call'[m].pc = "oneshot" /\ call'[m].outcome = call[m].outcome
        /\ \A n \in Messages \ {m} : call'[n] = call[n]
    BY <1>1, <1>2, <1>8, OneShotEffect, Names
  <2>2. Talk'
    BY <1>1, <1>8, <2>1, Elsewhere
  <2> QED
    BY <1>2, <2>2 DEF Flow
<1> QED
  BY <1>3, <1>5, <1>6, <1>7, <1>8 DEF RunTurn

\* The message waits on, for something else.
LEMMA OnwardFlow ==
    ASSUME Flow, NEW m \in Messages, call[m].pc \in {"send", "wait", "interrupt"},
           NEW pc \in {"wait", "interrupt", "grace"}, Goto(m, pc),
           UNCHANGED <<proc, entry, resident, runs, doomed, own, raced, late>>
    PROVE  Flow'
<1>1. IInv /\ IInv' /\ Talk /\ TypeOK
  BY OnwardStep DEF Flow, IInv
<1>2. /\ call'[m].pc = pc /\ call'[m].hand = call[m].hand /\ call'[m].outcome = call[m].outcome
      /\ \A n \in Messages \ {m} : call'[n] = call[n]
  BY <1>1, GotoEffect, Names, Stations
<1>3. \A n \in Messages : Stays(n)
  <2>1. Stays(m)
    BY <1>2, Places DEF Stays
  <2> QED
    BY <1>2, <2>1, StaysPut
<1>4. \A q \in Procs : Carries(proc[q], proc'[q])
  BY CarriesItself
<1>5. Talk'
  BY <1>1, <1>3, <1>4, TalkKept
<1> QED
  BY <1>1, <1>5 DEF Flow

LEMMA GiveUpFlow ==
    ASSUME Flow, NEW m \in Messages, call[m].pc \in {"wait", "interrupt", "grace"}, GiveUp(m)
    PROVE  Flow'
<1>1. call[m].pc \in Waiting /\ call[m].pc \in Driving /\ call[m].pc \notin Opening
  BY Places, Stations
<1>2. IInv /\ IInv'
  BY GiveUpStep DEF Flow
<1>3. PICK p \in Procs : p = call[m].hand
  BY <1>1, <1>2, Hands, Places
<1> DEFINE r == Closed(proc[p])
<1>4. Become(p, r) /\ Goto(m, "close") /\ UNCHANGED raced
  BY <1>3 DEF GiveUp
<1>5. /\ r.heard = proc[p].heard /\ r.turn = proc[p].turn /\ r.alive = proc[p].alive
      /\ r.events = proc[p].events /\ r.wire = proc[p].wire /\ r.doing = proc[p].doing
      /\ r.state \in {"terminated", "closing"}
  BY <1>2, Records DEF Closed, ProcRecord
<1> HIDE DEF r
<1>6. Carries(proc[p], r) /\ ~Works(r)
  BY <1>5, SameOutput DEF Works
<1>7. Spoken(proc[p]) => Spoken(r)
  BY <1>6 DEF Carries
<1> QED
  BY <1>1, <1>2, <1>3, <1>4, <1>6, <1>7, PartsFlow

LEMMA ContextDoneFlow ==
    ASSUME Flow, NEW m \in Messages, ContextDone(m)
    PROVE  Flow'
BY OnwardFlow, GiveUpFlow DEF ContextDone

\* The prompt does not come to the process, which has died or is closed.
LEMMA SendBreaksFlow ==
    ASSUME Flow, NEW m \in Messages, SendBreaks(m)
    PROVE  Flow'
<1>1. /\ call[m].pc = "send" /\ call[m].pc \in Driving /\ call[m].pc \notin Opening
      /\ IInv /\ IInv'
  BY Places, Stations, SendBreaksStep DEF SendBreaks, Flow
<1>2. PICK p \in Procs : p = call[m].hand
  BY <1>1, Hands, Places
<1> DEFINE r == Unsent(proc[p])
<1>3. /\ Become(p, r) /\ Failed(m) /\ UNCHANGED raced
      /\ ~proc[p].alive \/ proc[p].state = "closing"
  BY <1>2 DEF SendBreaks
<1>4. /\ r.alive = proc[p].alive /\ r.state = proc[p].state
      /\ r.wire = proc[p].wire /\ r.doing = proc[p].doing
  BY <1>1, Records DEF Unsent, ProcRecord
<1> HIDE DEF r
<1>5. ~Works(r) /\ (Spoken(proc[p]) => Spoken(r))
  BY <1>3, <1>4, SpokenSame DEF Works
<1> QED
  BY <1>1, <1>2, <1>3, <1>5, PartsFlow

LEMMA CloseOverFlow ==
    ASSUME Flow, NEW m \in Messages, CloseOver(m)
    PROVE  Flow'
<1>1. /\ call[m].pc = "close" /\ call[m].pc \in Driving
      /\ call[m].pc \notin Opening /\ call[m].pc \notin Waiting
      /\ IInv /\ IInv' /\ TypeOK
  BY Places, Stations, CloseOverStep DEF CloseOver, Flow, IInv
<1>2. PICK p \in Procs : p = call[m].hand
  BY <1>1, Hands, Places
<1>3. Become(p, proc[p]) /\ Failed(m) /\ UNCHANGED raced
  BY <1>1 DEF CloseOver, Become, TypeOK
<1>4. Carries(proc[p], proc[p])
  BY CarriesItself
<1> QED
  BY <1>1, <1>2, <1>3, <1>4, PartsFlow

LEMMA SettleFlow ==
    ASSUME Flow, NEW m \in Messages, Settle(m)
    PROVE  Flow'
<1>1. /\ call[m].pc \in Waiting \cup Parted /\ (call[m].pc \in Waiting => call[m].outcome # "none")
      /\ Release(m) /\ proc' = proc
  BY Places DEF Settle
<1>2. runs = m /\ call[m].pc \notin Opening
  BY <1>1, Places DEF Flow, IInv, Control, Claimed
<1>3. IInv'
  BY SettleStep DEF Flow
<1> QED
  BY <1>1, <1>2, <1>3, GoneFlow

LEMMA OneShotEndsFlow ==
    ASSUME Flow, NEW m \in Messages, OneShotEnds(m)
    PROVE  Flow'
<1>1. /\ call[m].pc = "oneshot" /\ Release(m) /\ proc' = proc
  BY DEF OneShotEnds
<1>2. runs = m /\ call[m].pc \notin Opening /\ call[m].pc \notin Waiting
  BY <1>1, Places, Stations DEF Flow, IInv, Control, Claimed
<1>3. IInv'
  BY OneShotEndsStep DEF Flow
<1> QED
  BY <1>1, <1>2, <1>3, GoneFlow
-----------------------------------------------------------------------------
(* Handoff and Archive. *)

\* A step that changes no message but lets through some that have not come.
LEMMA OtherFlow ==
    ASSUME Flow, IInv', proc' = proc,
           \A m \in Messages : \/ call'[m] = call[m]
                               \/ call[m].pc = "idle" /\ call'[m] = Fresh("checked"),
           \A m \in Messages : \A x \in {"crossed", "early", "overtaken"} :
               <<x, m>> \in raced' <=> <<x, m>> \in raced
    PROVE  Flow'
<1>1. IInv /\ Talk
  BY DEF Flow
<1>2. Fresh("checked").pc = "checked" /\ Fresh("checked").outcome = "none"
  BY DEF Fresh
<1>3. "idle" \notin Using \cup Parted /\ "checked" \notin Using \cup Parted
  BY Places
<1>4. \A m \in Messages : Stays(m)
  <2> SUFFICES ASSUME NEW m \in Messages PROVE Stays(m)
    OBVIOUS
  <2>1. CASE call'[m] = call[m]
    BY <2>1, StaysPut
  <2>2. CASE call[m].pc = "idle" /\ call'[m] = Fresh("checked")
    BY <1>2, <1>3, <2>2, Places DEF Stays
  <2> QED
    BY <2>1, <2>2
<1>5. Talk'
  <2>1. \A p \in Procs : Carries(proc[p], proc'[p])
    BY CarriesItself
  <2>2. /\ \A m \in Messages : <<"crossed", m>> \in raced => <<"crossed", m>> \in raced'
        /\ \A m \in Messages : \A x \in {"early", "overtaken"} :
              <<x, m>> \in raced' <=> <<x, m>> \in raced
    OBVIOUS
  <2> QED
    BY <1>1, <1>4, <2>1, <2>2, TalkKept
<1> QED
  BY <1>5 DEF Flow

LEMMA HandoffFlow ==
    ASSUME Flow, Handoff
    PROVE  Flow'
<1>1. IInv' /\ TypeOK
  BY HandoffStep DEF Flow, IInv
<1>2. UNCHANGED <<proc, raced>> /\ Goto("handoff", "evict") /\ "evict" \in Pcs
  BY DEF Handoff, Pcs
<1>3. \A m \in Messages : call'[m] = call[m]
  BY <1>1, <1>2, GotoEffect, Names
<1> QED
  BY <1>1, <1>2, <1>3, OtherFlow

LEMMA ArchiveFlow ==
    ASSUME Flow, Archive \/ OutOfPatience
    PROVE  Flow'
<1>1. IInv' /\ TypeOK
  BY ArchiveStep, OutOfPatienceStep DEF Flow, IInv
<1>2. PICK pc \in {"evict", "wait"} : Goto("archive", pc)
  BY DEF Archive, OutOfPatience
<1>3. UNCHANGED <<proc, raced>> /\ {"evict", "wait"} \subseteq Pcs
  BY DEF Archive, OutOfPatience, Pcs
<1>4. \A m \in Messages : call'[m] = call[m]
  BY <1>1, <1>2, <1>3, GotoEffect, Names
<1> QED
  BY <1>1, <1>3, <1>4, OtherFlow

LEMMA EvictPersistentFlow ==
    ASSUME Flow, NEW c \in {"handoff", "archive"}, EvictPersistent(c)
    PROVE  Flow'
<1>1. IInv' /\ TypeOK /\ entry \in Procs \cup {0}
  BY EvictPersistentStep DEF Flow, IInv, TypeOK
<1>2. /\ call[c].pc = "evict" /\ UNCHANGED <<proc, raced>>
      /\ call' = [call EXCEPT ![c].pc = "evicted", ![c].hand = entry]
  BY DEF EvictPersistent
<1>3. \A m \in Messages : call'[m] = call[m]
  <2>1. c \in Callers /\ "evicted" \in Pcs
    BY Names DEF Pcs
  <2> QED
    BY <1>1, <1>2, <2>1, HandEffect, Names
<1> QED
  BY <1>1, <1>2, <1>3, OtherFlow

LEMMA HandoffEvictedFlow ==
    ASSUME Flow, Evicted("handoff")
    PROVE  Flow'
<1>1. IInv' /\ TypeOK
  BY HandoffEvictedStep DEF Flow, IInv
<1>2. Release("handoff") /\ proc' = proc
  BY DEF Evicted
<1>3. \A m \in Messages : call'[m] = call[m]
  BY <1>1, <1>2, ReleaseEffect, Names
<1>4. \A m \in Messages : \A x \in {"crossed", "early", "overtaken"} :
        <<x, m>> \in raced' <=> <<x, m>> \in raced
  BY <1>2, Names DEF Release
<1> QED
  BY <1>1, <1>2, <1>3, <1>4, OtherFlow

LEMMA ArchiveEvictedFlow ==
    ASSUME Flow, Evicted("archive")
    PROVE  Flow'
<1>1. IInv'
  BY ArchiveEvictedStep DEF Flow
<1>2. ArchiveEnds /\ UNCHANGED <<proc, raced>>
  BY DEF Evicted
<1>3. PICK checked \in SUBSET {m \in Messages : call[m].pc = "idle"} :
        call' = [c \in Callers |-> CASE c \in checked -> Fresh("checked")
                                     [] c = "archive" -> Fresh("gone")
                                     [] OTHER -> call[c]]
  BY <1>2 DEF ArchiveEnds
<1>4. \A m \in Messages : \/ call'[m] = call[m]
                          \/ call[m].pc = "idle" /\ call'[m] = Fresh("checked")
  BY <1>3, Names
<1> QED
  BY <1>1, <1>2, <1>4, OtherFlow
-----------------------------------------------------------------------------
(* The invariant and what follows from it. *)

LEMMA InitFlow == Init => Flow
<1> SUFFICES ASSUME Init PROVE Flow
  OBVIOUS
<1>1. /\ \A p \in Procs : proc[p] = NoProcess
      /\ \A m \in Messages : call[m] = Fresh("idle")
      /\ raced = {}
  BY Names DEF Init
<1>2. Fresh("idle").pc = "idle" /\ Fresh("idle").outcome = "none"
  BY DEF Fresh
<1>3. "idle" \notin Using \cup Parted
  BY Places
<1>4. \A m \in Messages : ~Expects(m) /\ ~Overtaker(m)
  BY <1>1, <1>2, <1>3, Places DEF Expects, IsFirst, Overtaker
<1>5. Speech /\ Ordered
  BY <1>1 DEF Speech, Ordered, Spoken, Sane, Works, NoProcess
<1>6. Adopted /\ Routed
  BY <1>4 DEF Adopted, Routed
<1>7. Outrun /\ Untold /\ Registered /\ ResultIsOwn
  BY <1>1, <1>2, <1>3, Places DEF Outrun, Untold, Registered, ResultIsOwn, Overtaker, Raced
<1> QED
  BY <1>5, <1>6, <1>7, InitInv DEF Flow, Talk

LEMMA NextFlow == Flow /\ [Next]_vars => Flow'
<1> SUFFICES ASSUME Flow, [Next]_vars PROVE Flow'
  OBVIOUS
<1>1. ASSUME NEW p \in Procs, Agent(p)
      PROVE  Flow'
  BY <1>1, ReadFlow, BeginFlow, BeginOwnFlow, FinishFlow, DieFlow DEF Agent
<1>2. ASSUME NEW p \in Procs, Session(p)
      PROVE  Flow'
  BY <1>2, PumpStartFlow, PumpResultFlow, TerminateFlow DEF Session
<1>3. ASSUME NEW p \in Procs, Conductor(p)
      PROVE  Flow'
  BY <1>3, ReadStartFlow, ReadResultFlow, ReadEndFlow DEF Conductor
<1>4. ASSUME NEW p \in Procs, Close(p) \/ Reclaim(p)
      PROVE  Flow'
  BY <1>4, CloseFlow, ReclaimFlow
<1>5. ASSUME NEW m \in Messages, StartTurn(m)
      PROVE  Flow'
  BY <1>5, StartTurnFlow
<1>6. ASSUME NEW m \in Messages, Turn(m) \/ Interrupted(m)
      PROVE  Flow'
  <2>1. ASSUME PromptSent(m) \/ Interrupted(m)
        PROVE  Flow'
    BY <2>1, OnwardFlow DEF PromptSent, Interrupted
  <2>2. ASSUME InterruptFails(m) \/ GraceOver(m)
        PROVE  Flow'
    BY <2>2, GiveUpFlow DEF InterruptFails, GraceOver
  <2> QED
    BY <1>6, <2>1, <2>2, AcquireFlow, MessageEvictedFlow, OpenFlow, ConductFlow, AwaitFlow,
       RunTurnFlow, SendBreaksFlow, ContextDoneFlow, CloseOverFlow, SettleFlow,
       OneShotEndsFlow DEF Turn
<1>7. CASE Archive \/ Archiving
  BY <1>7, ArchiveFlow, EvictPersistentFlow, ArchiveEvictedFlow DEF Archiving
<1>8. CASE Handoff \/ HandingOff
  BY <1>8, HandoffFlow, EvictPersistentFlow, HandoffEvictedFlow DEF HandingOff
<1>9. CASE UNCHANGED vars
  <2>1. UNCHANGED <<proc, call, raced>> /\ IInv'
    BY <1>9, NextInv DEF vars, Flow
  <2> QED
    BY <2>1, OtherFlow
<1> QED
  BY <1>1, <1>2, <1>3, <1>4, <1>5, <1>6, <1>7, <1>8, <1>9 DEF Next

LEMMA FlowInvariance == Spec => []Flow
BY InitFlow, NextFlow, PTL DEF Spec

\* A message that waits is the turn its Conductor has registered, or has its
\* outcome, unless it lost one of two known races (Conductor.Await, RunTurn,
\* wait and read).
THEOREM WaitersAttended == Spec => []Attended
<1>1. Flow => Attended
  <2> SUFFICES ASSUME Flow, NEW m \in Messages, call[m].pc \in {"wait", "interrupt", "grace"}
               PROVE  \/ Hand(m).turn = m \/ call[m].outcome # "none"
                      \/ Raced("early", m) \/ Raced("overtaken", m)
    BY DEF Attended, Hand
  <2> QED
    BY Places DEF Flow, Talk, Registered
<1> QED
  BY <1>1, FlowInvariance, PTL

\* Over stdin, stdout, the events and the registered turn, what a message is
\* told is the result of its own turn, or an error, unless the agent started a
\* turn of its own meanwhile or the Conductor read before the message asked
\* (PersistentSession.pump, Conductor.read, Conductor.Await).
THEOREM OwnResult == Spec => []ResultIsOwn
<1>1. Flow => ResultIsOwn
  BY DEF Flow, Talk
<1> QED
  BY <1>1, FlowInvariance, PTL

-----------------------------------------------------------------------------
(* Desk implements AgentSession. *)

\* The steps of AgentSession, written over Desk.
LEMMA StopKept ==
    ASSUME runs' = runs, Writers' \subseteq Writers, Answers' = Answers,
           Confused' = Confused, Sealed' = Sealed
    PROVE  [Promise!Next]_(Promise!vars)
BY DEF Promise!Next, Promise!vars, Promise!Stop

LEMMA ConfuseKept ==
    ASSUME runs' = runs, Writers' = Writers, Answers' = Answers,
           Confused \subseteq Confused', Sealed' = Sealed
    PROVE  [Promise!Next]_(Promise!vars)
<1>1. Confused' \subseteq Messages
  BY DEF Confused
<1> QED
  BY <1>1 DEF Promise!Next, Promise!vars, Promise!Confuse

LEMMA ClaimKept ==
    ASSUME NEW m \in Messages, runs = "none", runs' = m, Writers' \subseteq Writers,
           Answers' = Answers, Confused' = Confused, Sealed' = FALSE
    PROVE  [Promise!Next]_(Promise!vars)
BY DEF Promise!Next, Promise!Claim

LEMMA OccupyKept ==
    ASSUME runs = "none", runs' \in {"own", "handoff"}, Writers' \subseteq Writers,
           Answers' = Answers, Confused' = Confused, Sealed' = Sealed
    PROVE  [Promise!Next]_(Promise!vars)
BY DEF Promise!Next, Promise!Occupy

LEMMA StartKept ==
    ASSUME NEW w \in Procs \cup Messages, runs \in Messages, runs' = runs,
           Writers = {}, Writers' = {w},
           Answers' = Answers, Confused' = Confused, Sealed' = Sealed
    PROVE  [Promise!Next]_(Promise!vars)
BY DEF Promise!Next, Promise!Start

LEMMA AnswerKept ==
    ASSUME NEW m \in Messages, NEW x \in Turns \cup {"error"}, runs = m, runs' = m,
           x \in {m, "error"} \/ m \in Confused, Writers' \subseteq Writers,
           Answers' = [Answers EXCEPT ![m] = x], Confused' = Confused, Sealed' = Sealed
    PROVE  [Promise!Next]_(Promise!vars)
<1>1. Promise!Answer(m, x)
  BY DEF Promise!Answer
<1>2. x \in Messages \cup {"own", "handoff"} \cup {"error"}
  BY DEF Turns
<1> QED
  BY <1>1, <1>2 DEF Promise!Next

LEMMA ReleaseKept ==
    ASSUME runs # "none", runs' = "none", Writers' \subseteq Writers,
           Answers' = [m \in Messages |-> IF m = runs THEN "none" ELSE Answers[m]],
           Confused' = Confused \ {runs}, Sealed' = Sealed
    PROVE  [Promise!Next]_(Promise!vars)
BY DEF Promise!Next, Promise!Release

LEMMA SealKept ==
    ASSUME runs \notin Messages, runs' = runs, Writers = {}, Writers' = {},
           Answers' = Answers, Confused' = Confused, Sealed' = TRUE
    PROVE  [Promise!Next]_(Promise!vars)
BY DEF Promise!Next, Promise!Seal

\* How a step of Desk changes what AgentSession speaks of.
LEMMA WorkersFewer ==
    ASSUME \A p \in Procs : Lives(p)' => Lives(p),
           \A m \in Messages : call'[m].pc = "oneshot" => call[m].pc = "oneshot"
    PROVE  Writers' \subseteq Writers
BY DEF Writers, Lives

LEMMA WorkersSame ==
    ASSUME \A p \in Procs : Lives(p)' <=> Lives(p),
           \A m \in Messages : call'[m].pc = "oneshot" <=> call[m].pc = "oneshot"
    PROVE  Writers' = Writers
BY DEF Writers, Lives

\* No process comes to life, and who has been cast off remains so.
LEMMA LivesFewer ==
    ASSUME late => late', call'["archive"].hand = call["archive"].hand,
           \A p \in Procs : proc'[p].alive => proc[p].alive /\ (proc[p].swept => proc'[p].swept)
    PROVE  \A p \in Procs : Lives(p)' => Lives(p)
BY DEF Lives, Cast

\* A step that changes one process, which does not come to life ...
LEMMA OneFewer ==
    ASSUME TypeOK, late => late', call'["archive"].hand = call["archive"].hand,
           NEW p \in Procs, NEW r, Become(p, r),
           r.alive => proc[p].alive /\ (proc[p].swept => r.swept)
    PROVE  \A q \in Procs : Lives(q)' => Lives(q)
<1>1. \A q \in Procs : proc'[q] = IF q = p THEN r ELSE proc[q]
  BY DEF Become, TypeOK
<1> QED
  BY <1>1, LivesFewer

\* ... or lives on as it did.
LEMMA OneSame ==
    ASSUME TypeOK, late' = late, call'["archive"].hand = call["archive"].hand,
           NEW p \in Procs, NEW r, Become(p, r),
           r.alive = proc[p].alive, r.swept = proc[p].swept
    PROVE  \A q \in Procs : Lives(q)' <=> Lives(q)
<1>1. \A q \in Procs : proc'[q] = IF q = p THEN r ELSE proc[q]
  BY DEF Become, TypeOK
<1> QED
  BY <1>1 DEF Lives, Cast

LEMMA AnswersSame ==
    ASSUME \A m \in Messages : call'[m].outcome = call[m].outcome
    PROVE  Answers' = Answers
BY DEF Answers

LEMMA ConfusedSame ==
    ASSUME raced' = raced
    PROVE  Confused' = Confused
BY DEF Confused, Raced

LEMMA SealedSame ==
    ASSUME late' = late, call'["archive"].pc = "gone" <=> call["archive"].pc = "gone"
    PROVE  Sealed' = Sealed
BY DEF Sealed

\* A step that changes one process, which does not come to life, and nothing of
\* the claim and of the calls.
LEMMA ProcPromise ==
    ASSUME TypeOK, NEW p \in Procs, NEW r, Become(p, r),
           r.alive => proc[p].alive /\ (proc[p].swept => r.swept),
           UNCHANGED <<runs, call, raced, late>>
    PROVE  [Promise!Next]_(Promise!vars)
<1>1. \A q \in Procs : Lives(q)' => Lives(q)
  BY OneFewer
<1> QED
  BY <1>1, WorkersFewer, AnswersSame, ConfusedSame, SealedSame, StopKept

LEMMA AgentPromise ==
    ASSUME Flow, NEW p \in Procs, Agent(p)
    PROVE  [Promise!Next]_(Promise!vars)
<1>1. proc[p] \in ProcRecord /\ TypeOK
  BY DEF Flow, IInv, TypeOK
<1>2. CASE Read(p)
  <2> DEFINE r == [proc[p] EXCEPT !.writing = FALSE]
  <2>1. Become(p, r) /\ UNCHANGED <<runs, call, raced, late>>
    BY <1>2 DEF Read
  <2>2. r.alive = proc[p].alive /\ r.swept = proc[p].swept
    BY <1>1 DEF ProcRecord
  <2> QED
    BY <1>1, <2>1, <2>2, ProcPromise
<1>3. CASE Begin(p)
  <2> DEFINE r == [proc[p] EXCEPT !.doing = Head(proc[p].inbox), !.inbox = Tail(@),
                                  !.wire = Append(@, "start")]
  <2>1. Become(p, r) /\ UNCHANGED <<runs, call, raced, late>>
    BY <1>3 DEF Begin
  <2>2. r.alive = proc[p].alive /\ r.swept = proc[p].swept
    BY <1>1 DEF ProcRecord
  <2> QED
    BY <1>1, <2>1, <2>2, ProcPromise
<1>4. CASE BeginOwn(p)
  <2> DEFINE r == [proc[p] EXCEPT !.doing = "own", !.wire = Append(@, "start")]
  <2>1. /\ Become(p, r) /\ UNCHANGED <<runs, call, late>>
        /\ raced \subseteq raced'
    BY <1>4 DEF BeginOwn
  <2>2. r.alive = proc[p].alive /\ r.swept = proc[p].swept
    BY <1>1 DEF ProcRecord
  <2> HIDE DEF r
  <2>3. Writers' = Writers
    BY <1>1, <2>1, <2>2, OneSame, WorkersSame
  <2>4. Confused \subseteq Confused'
    BY <2>1 DEF Confused, Raced
  <2> QED
    BY <2>1, <2>3, <2>4, AnswersSame, SealedSame, ConfuseKept
<1>5. CASE Finish(p)
  <2> DEFINE r == [proc[p] EXCEPT !.doing = "none", !.fresh = FALSE,
                                  !.wire = Append(@, proc[p].doing)]
  <2>1. Become(p, r) /\ UNCHANGED <<runs, call, raced, late>>
    BY <1>5 DEF Finish
  <2>2. r.alive = proc[p].alive /\ r.swept = proc[p].swept
    BY <1>1 DEF ProcRecord
  <2> QED
    BY <1>1, <2>1, <2>2, ProcPromise
<1>6. CASE Die(p)
  <2> DEFINE r == [proc[p] EXCEPT !.alive = FALSE, !.doing = "none", !.inbox = <<>>,
                                  !.fresh = FALSE]
  <2>1. Become(p, r) /\ UNCHANGED <<runs, call, raced, late>>
    BY <1>6 DEF Die
  <2>2. ~r.alive
    BY <1>1 DEF ProcRecord
  <2> QED
    BY <1>1, <2>1, <2>2, ProcPromise
<1> QED
  BY <1>3, <1>4, <1>5, <1>6, <1>2 DEF Agent

LEMMA SessionPromise ==
    ASSUME Flow, NEW p \in Procs, Session(p)
    PROVE  [Promise!Next]_(Promise!vars)
<1>1. proc[p] \in ProcRecord /\ TypeOK
  BY DEF Flow, IInv, TypeOK
<1>2. UNCHANGED <<runs, call, raced, late>>
  BY DEF Session, PumpStart, PumpResult, Terminate
<1>3. CASE PumpStart(p)
  <2> DEFINE r == [proc[p] EXCEPT !.wire = Tail(@), !.state = "running",
                                  !.events = Append(@, "start")]
             s == [proc[p] EXCEPT !.wire = Tail(@)]
  <2>1. Become(p, r) \/ Become(p, s)
    BY <1>3 DEF PumpStart, Unsolicited
  <2>2. /\ r.alive = proc[p].alive /\ r.swept = proc[p].swept
        /\ s.alive = proc[p].alive /\ s.swept = proc[p].swept
    BY <1>1 DEF ProcRecord
  <2> HIDE DEF r, s
  <2> QED
    BY <1>1, <1>2, <2>1, <2>2, ProcPromise
<1>4. CASE PumpResult(p)
  <2> DEFINE r == [proc[p] EXCEPT !.wire = Tail(@), !.events = Append(@, Head(proc[p].wire)),
                                  !.state = IF @ = "running" THEN "idle" ELSE @]
  <2>1. Become(p, r)
    BY <1>4 DEF PumpResult
  <2>2. r.alive = proc[p].alive /\ r.swept = proc[p].swept
    BY <1>1 DEF ProcRecord
  <2> HIDE DEF r
  <2> QED
    BY <1>1, <1>2, <2>1, <2>2, ProcPromise
<1>5. CASE Terminate(p)
  <2> DEFINE r == [proc[p] EXCEPT !.state = "terminated", !.swept = FALSE,
                                  !.events = Append(@, "end")]
  <2>1. Become(p, r)
    BY <1>5 DEF Terminate
  <2>2. ~r.alive
    BY <1>1, <1>5 DEF ProcRecord, Terminate
  <2> HIDE DEF r
  <2> QED
    BY <1>1, <1>2, <2>1, <2>2, ProcPromise
<1> QED
  BY <1>3, <1>4, <1>5 DEF Session

LEMMA PoolPromise ==
    ASSUME Flow, NEW p \in Procs, Close(p) \/ Reclaim(p)
    PROVE  [Promise!Next]_(Promise!vars)
<1>1. proc[p] \in ProcRecord /\ TypeOK
  BY DEF Flow, IInv, TypeOK
<1>2. CASE Close(p)
  <2>1. /\ Become(p, Closed(proc[p]))
        /\ Closed(proc[p]).alive = proc[p].alive /\ Closed(proc[p]).swept = proc[p].swept
    BY <1>1, <1>2 DEF Close, Closed, ProcRecord
  <2> QED
    BY <1>1, <1>2, <2>1, ProcPromise DEF Close
<1>3. CASE Reclaim(p)
  <2> DEFINE r == [proc[p] EXCEPT !.swept = TRUE]
  <2>1. Become(p, r)
    BY <1>3 DEF Reclaim
  <2>2. r.alive = proc[p].alive /\ r.swept
    BY <1>1 DEF ProcRecord
  <2> HIDE DEF r
  <2> QED
    BY <1>1, <1>3, <2>1, <2>2, ProcPromise DEF Reclaim
<1> QED
  BY <1>2, <1>3

LEMMA ReadStartPromise ==
    ASSUME Flow, NEW p \in Procs, ReadStart(p)
    PROVE  [Promise!Next]_(Promise!vars)
<1> DEFINE r == [proc[p] EXCEPT !.events = Tail(@), !.turn = "own"]
<1>1. proc[p] \in ProcRecord /\ TypeOK
  BY DEF Flow, IInv, TypeOK
<1>2. /\ Become(p, r) /\ UNCHANGED <<call, raced, late>>
      /\ runs' = IF runs = "none" THEN "own" ELSE runs
  BY DEF ReadStart
<1>3. r.alive = proc[p].alive /\ r.swept = proc[p].swept
  BY <1>1 DEF ProcRecord
<1> HIDE DEF r
<1>4. Writers' = Writers
  BY <1>1, <1>2, <1>3, OneSame, WorkersSame
<1>5. Answers' = Answers /\ Confused' = Confused /\ Sealed' = Sealed
  BY <1>2, AnswersSame, ConfusedSame, SealedSame
<1>6. CASE runs = "none"
  BY <1>2, <1>4, <1>5, <1>6, OccupyKept
<1>7. CASE runs # "none"
  BY <1>2, <1>4, <1>5, <1>7, StopKept
<1> QED
  BY <1>6, <1>7

\* The outcome of a turn is for the message that holds the session, or ends the
\* agent's own hold of it, or is for nobody.
LEMMA FinishedPromise ==
    ASSUME Flow, Flow', NEW p \in Procs, NEW x \in Turns \cup {"error"}, Finished(p, x),
           UNCHANGED <<raced, late>>
    PROVE  [Promise!Next]_(Promise!vars)
<1> DEFINE r == [proc[p] EXCEPT !.events = Tail(@), !.turn = "none", !.heard = TRUE]
           t == proc[p].turn
<1>1. proc[p] \in ProcRecord /\ TypeOK /\ call \in [Callers -> CallRecord]
  BY DEF Flow, IInv, TypeOK
<1>2. Become(p, r)
  BY DEF Finished
<1>3. r.alive = proc[p].alive /\ r.swept = proc[p].swept
  BY <1>1 DEF ProcRecord
<1> HIDE DEF r
<1>4. /\ \A m \in Messages : call'[m].pc = call[m].pc
      /\ call'["archive"].pc = "gone" <=> call["archive"].pc = "gone"
      /\ call'["archive"].hand = call["archive"].hand
  BY <1>1, FinishedCalls
<1>5. Writers' = Writers
  BY <1>1, <1>2, <1>3, <1>4, OneSame, WorkersSame
<1>6. Confused' = Confused /\ Sealed' = Sealed
  BY <1>4, ConfusedSame, SealedSame
<1>7. CASE t = "own" /\ runs = "own"
  <2>1. runs' = "none" /\ call' = Woken(call)
    BY <1>7, Names DEF Finished
  <2>2. \A m \in Messages : call'[m] = call[m]
    BY <1>1, <2>1, Names DEF Woken
  <2>3. Answers' = [m \in Messages |-> IF m = runs THEN "none" ELSE Answers[m]]
    BY <1>7, <2>2, Names DEF Answers
  <2>4. Confused' = Confused \ {runs}
    BY <1>6, <1>7, Names DEF Confused
  <2> QED
    BY <1>5, <1>6, <1>7, <2>1, <2>3, <2>4, ReleaseKept
<1>8. CASE t \in Messages /\ call[t].pc \in {"wait", "interrupt", "grace"} /\ call[t].hand = p
  <2>1. /\ call' = [call EXCEPT ![t].outcome = x] /\ runs' = runs
    BY <1>8, Names DEF Finished
  <2>2. PICK m \in Messages : m = t
    BY <1>8
  <2>3. runs = m
    BY <1>8, <2>2, Stations DEF Flow, IInv, Control, Claimed
  <2>4. /\ call'[m].outcome = x
        /\ \A n \in Messages \ {m} : call'[n] = call[n]
    BY <1>1, <2>1, <2>2, Names DEF CallRecord
  <2>5. Answers' = [Answers EXCEPT ![m] = x]
    BY <2>4 DEF Answers
  <2>6. x \in {m, "error"} \/ m \in Confused
    <3>1. ResultIsOwn'
      BY DEF Flow, Talk
    <3>2. x # "none"
      BY Names DEF Turns
    <3> QED
      BY <2>4, <3>1, <3>2 DEF ResultIsOwn, Confused, Raced
  <2> QED
    BY <1>5, <1>6, <2>1, <2>3, <2>5, <2>6, AnswerKept
<1>9. CASE /\ ~(t = "own" /\ runs = "own")
           /\ ~(t \in Messages /\ call[t].pc \in {"wait", "interrupt", "grace"} /\ call[t].hand = p)
  <2>1. call' = call /\ runs' = runs
    BY <1>9 DEF Finished
  <2> QED
    BY <1>5, <1>6, <2>1, AnswersSame, StopKept
<1> QED
  BY <1>7, <1>8, <1>9

LEMMA ConductorPromise ==
    ASSUME Flow, Flow', NEW p \in Procs, Conductor(p)
    PROVE  [Promise!Next]_(Promise!vars)
<1>1. CASE ReadResult(p)
  <2>1. PICK x \in Turns : Finished(p, x)
    BY <1>1 DEF ReadResult
  <2> QED
    BY <1>1, <2>1, FinishedPromise DEF ReadResult
<1>2. CASE ReadEnd(p)
  BY <1>2, FinishedPromise DEF ReadEnd
<1> QED
  BY <1>1, <1>2, ReadStartPromise DEF Conductor
-----------------------------------------------------------------------------
(* The messages. *)

\* Who holds the session, by what a message is doing.
LEMMA HeldBy ==
    ASSUME IInv, NEW m \in Messages, call[m].pc \in Holding
    PROVE  /\ runs = m
           /\ \A n \in Messages \ {m} : call[n].pc \notin Holding /\ call[n].pc # "oneshot"
BY Stations DEF IInv, Control, Claimed

\* A step of the message that holds the session and goes on; it may evict or
\* forget the process of the pool.
LEMMA GoesOn ==
    ASSUME Flow, NEW m \in Messages, runs' = runs, late' = late, raced' = raced,
           call'[m].outcome = call[m].outcome, call'[m].pc # "oneshot",
           \A c \in Callers \ {m} : call'[c] = call[c],
           \A p \in Procs : proc'[p].alive => proc[p].alive /\ (proc[p].swept => proc'[p].swept)
    PROVE  [Promise!Next]_(Promise!vars)
<1>1. Answers' = Answers /\ Confused' = Confused /\ Sealed' = Sealed
  BY Names, AnswersSame, ConfusedSame, SealedSame
<1>2. Writers' \subseteq Writers
  BY Names, LivesFewer, WorkersFewer
<1> QED
  BY <1>1, <1>2, StopKept

\* The message is told that its turn failed.
LEMMA FailedPromise ==
    ASSUME Flow, NEW m \in Messages, call[m].pc \in Holding, Failed(m),
           runs' = runs, late' = late, raced' = raced,
           \A p \in Procs : proc'[p].alive => proc[p].alive /\ (proc[p].swept => proc'[p].swept)
    PROVE  [Promise!Next]_(Promise!vars)
<1>1. /\ call'[m].pc = "settle" /\ call'[m].outcome = "error"
      /\ \A d \in Callers \ {m} : call'[d] = call[d]
  BY FailedEffect DEF Flow, IInv
<1>2. Answers' = [Answers EXCEPT ![m] = "error"]
  BY <1>1, Names DEF Answers
<1>3. Confused' = Confused /\ Sealed' = Sealed
  BY <1>1, Names, ConfusedSame, SealedSame
<1>4. Writers' \subseteq Writers
  BY <1>1, Names, LivesFewer, WorkersFewer
<1> QED
  BY <1>2, <1>3, <1>4, HeldBy, AnswerKept DEF Flow

\* The turn is run by a process of its own; that of the pool does not work.
LEMMA OneShotPromise ==
    ASSUME Flow, NEW m \in Messages, call[m].pc \in Holding, call[m].pc # "oneshot",
           call[m].given = 0, NEW n \in 1..2, OneShot(m, n),
           \A p \in Procs : ~Lives(p), UNCHANGED <<proc, runs, late>>,
           \A k \in Messages : \A x \in {"crossed", "early"} :
               <<x, k>> \in raced' <=> <<x, k>> \in raced
    PROVE  [Promise!Next]_(Promise!vars)
<1>1. /\ call'[m].pc = "oneshot" /\ call'[m].outcome = call[m].outcome
      /\ \A d \in Callers \ {m} : call'[d] = call[d]
  BY OneShotEffect DEF Flow, IInv
<1>2. Answers' = Answers /\ Sealed' = Sealed /\ Confused' = Confused
  BY <1>1, Names, AnswersSame, SealedSame DEF Confused, Raced
<1>3. runs = m /\ \A k \in Messages \ {m} : call[k].pc # "oneshot"
  BY HeldBy DEF Flow
<1>4. Writers = {}
  BY <1>3 DEF Writers, Lives
<1>5. \A p \in Procs : ~Lives(p)'
  BY <1>1, Names, LivesFewer
<1>6. Writers' = {m}
  BY <1>1, <1>3, <1>5, Names DEF Writers, Lives
<1> QED
  BY <1>2, <1>3, <1>4, <1>6, StartKept

\* A message or a Handoff lets the session go.
LEMMA ReleasePromise ==
    ASSUME Flow, NEW c \in Messages \cup {"handoff"}, runs = c, Release(c),
           UNCHANGED <<proc, late>>
    PROVE  [Promise!Next]_(Promise!vars)
<1>1. TypeOK /\ c # "archive" /\ c # "none"
  BY Names DEF Flow, IInv
<1>2. /\ call'[c] = Fresh("gone") /\ runs' = "none"
      /\ \A d \in Callers \ {c, "archive"} : call'[d] = call[d]
      /\ call'["archive"].pc = "gone" <=> call["archive"].pc = "gone"
      /\ call'["archive"].hand = call["archive"].hand
  BY <1>1, ReleaseEffect
<1>3. Fresh("gone").outcome = "none" /\ Fresh("gone").pc = "gone"
  BY DEF Fresh
<1>4. Answers' = [m \in Messages |-> IF m = runs THEN "none" ELSE Answers[m]]
  BY <1>2, <1>3, Names DEF Answers
<1>5. Confused' = Confused \ {runs}
  BY DEF Release, Confused, Raced
<1>6. Sealed' = Sealed
  BY <1>2, SealedSame
<1>7. Writers' \subseteq Writers
  <2>1. \A p \in Procs : Lives(p)' => Lives(p)
    BY <1>2, LivesFewer
  <2>2. \A m \in Messages : call'[m].pc = "oneshot" => call[m].pc = "oneshot"
    BY <1>2, <1>3, Names
  <2> QED
    BY <2>1, <2>2, WorkersFewer
<1> QED
  BY <1>1, <1>2, <1>4, <1>5, <1>6, <1>7, ReleaseKept

LEMMA StartTurnPromise ==
    ASSUME Flow, NEW m \in Messages, StartTurn(m)
    PROVE  [Promise!Next]_(Promise!vars)
<1>1. /\ runs = "none" /\ runs' = m /\ Goto(m, "acquire") /\ call[m].pc \in {"idle", "checked"}
      /\ late' = (late \/ call["archive"].pc \in {"evict", "evicted", "gone"})
      /\ UNCHANGED <<proc, raced>>
  BY DEF StartTurn
<1>2. /\ call'[m].pc = "acquire" /\ call'[m].outcome = call[m].outcome
      /\ \A d \in Callers \ {m} : call'[d] = call[d]
  BY <1>1, GotoEffect, Names, Stations DEF Flow, IInv
<1>3. Answers' = Answers /\ Confused' = Confused
  BY <1>1, <1>2, Names, AnswersSame, ConfusedSame
<1>4. Writers' \subseteq Writers
  BY <1>1, <1>2, Names, Stations, LivesFewer, WorkersFewer
<1>5. Sealed' = FALSE
  BY <1>1, <1>2, Names DEF Sealed
<1> QED
  BY <1>1, <1>3, <1>4, <1>5, ClaimKept

LEMMA AcquirePromise ==
    ASSUME Flow, NEW m \in Messages, Acquire(m)
    PROVE  [Promise!Next]_(Promise!vars)
<1>1. TypeOK /\ m \in Callers /\ entry \in Procs \cup {0}
  BY Names DEF Flow, IInv, TypeOK
<1>2. UNCHANGED <<proc, runs, raced, late>>
  BY DEF Acquire
<1>3. \E pc \in Pcs \ {"oneshot"} :
        \/ Goto(m, pc)
        \/ call' = [call EXCEPT ![m].pc = pc, ![m].hand = entry]
  BY DEF Acquire, Pcs
<1>4. /\ call'[m].outcome = call[m].outcome /\ call'[m].pc # "oneshot"
      /\ \A c \in Callers \ {m} : call'[c] = call[c]
  BY <1>1, <1>3, GotoEffect, HandEffect
<1> QED
  BY <1>2, <1>4, GoesOn

LEMMA MessageEvictedPromise ==
    ASSUME Flow, NEW m \in Messages, Evicted(m)
    PROVE  [Promise!Next]_(Promise!vars)
<1>1. Goto(m, "open") /\ UNCHANGED <<proc, runs, raced, late>>
  BY Names DEF Evicted
<1>2. /\ call'[m].outcome = call[m].outcome /\ call'[m].pc # "oneshot"
      /\ \A c \in Callers \ {m} : call'[c] = call[c]
  BY <1>1, GotoEffect, Names, Stations DEF Flow, IInv
<1> QED
  BY <1>1, <1>2, GoesOn

LEMMA OpenPromise ==
    ASSUME Flow, NEW m \in Messages, Open(m)
    PROVE  [Promise!Next]_(Promise!vars)
<1>1. /\ IInv /\ TypeOK /\ call[m].pc = "open" /\ UNCHANGED <<runs, late>>
      /\ call[m].pc \in Holding /\ entry = 0 /\ call[m].given = 0
  BY Stations DEF Open, Flow, IInv, Control, Emptied, Given
<1>2. \A p \in Procs : ~Lives(p)
  BY <1>1, HeldBy, NoneLives
<1>3. ASSUME NEW p \in Procs, Opened(m, p)
      PROVE  [Promise!Next]_(Promise!vars)
  <2> DEFINE r == [NoProcess EXCEPT !.state = "running", !.alive = TRUE, !.inbox = <<m>>,
                                !.writing = TRUE]
  <2>1. /\ proc[p].state = "none" /\ Become(p, r) /\ UNCHANGED raced
        /\ call' = [call EXCEPT ![m].pc = "conduct", ![m].hand = p, ![m].given = @ + 1]
    BY <1>3 DEF Opened
  <2>2. r.alive /\ ~r.swept
    BY DEF NoProcess
  <2> HIDE DEF r
  <2>3. \A q \in Procs : proc'[q] = IF q = p THEN r ELSE proc[q]
    BY <1>1, <2>1 DEF Become, TypeOK
  <2>4. /\ call'[m].pc = "conduct" /\ call'[m].outcome = call[m].outcome
        /\ \A d \in Callers \ {m} : call'[d] = call[d]
    BY <1>1, <2>1, Names DEF TypeOK, CallRecord
  <2>5. runs = m /\ \A n \in Messages : call[n].pc # "oneshot"
    BY <1>1, HeldBy
  <2>6. \A q \in Procs \ {p} : ~Lives(q)'
    BY <1>1, <1>2, <2>3, <2>4, Names DEF Lives, Cast
  <2>7. Writers = {}
    BY <1>2, <2>5 DEF Writers, Lives
  <2>8. Answers' = Answers /\ Confused' = Confused /\ Sealed' = Sealed
    BY <1>1, <2>1, <2>4, Names, AnswersSame, ConfusedSame, SealedSame
  <2>9. CASE Lives(p)'
    <3>1. Writers' = {p}
      BY <2>6, <2>4, <2>5, <2>9, Names DEF Writers, Lives
    <3> QED
      BY <1>1, <2>5, <2>7, <2>8, <3>1, StartKept
  <2>10. CASE ~Lives(p)'
    <3>1. Writers' = {}
      BY <2>6, <2>4, <2>5, <2>10, Names DEF Writers, Lives
    <3> QED
      BY <1>1, <2>7, <2>8, <3>1, StopKept
  <2> QED
    BY <2>9, <2>10
<1>4. CASE NotOpened(m)
  <2>1. /\ UNCHANGED proc /\ \E n \in 1..2 : OneShot(m, n)
        /\ \A k \in Messages : \A x \in {"crossed", "early"} :
              <<x, k>> \in raced' <=> <<x, k>> \in raced
    BY <1>4 DEF NotOpened
  <2> QED
    BY <1>1, <1>2, <2>1, OneShotPromise
<1> QED
  BY <1>3, <1>4 DEF Open

LEMMA ConductPromise ==
    ASSUME Flow, NEW m \in Messages, Conduct(m)
    PROVE  [Promise!Next]_(Promise!vars)
<1> DEFINE p == call[m].hand
           r == [proc[p] EXCEPT !.conducted = TRUE]
<1>1. TypeOK /\ p \in Procs /\ proc[p] \in ProcRecord
  BY Stations DEF Conduct, Flow, IInv, TypeOK, Control, Driven
<1>2. /\ Become(p, r) /\ Goto(m, "await") /\ UNCHANGED <<runs, doomed, raced, late>>
  BY DEF Conduct
<1>3. r.alive = proc[p].alive /\ r.swept = proc[p].swept
  BY <1>1 DEF ProcRecord
<1> HIDE DEF r
<1>4. \A q \in Procs : proc'[q] = IF q = p THEN r ELSE proc[q]
  BY <1>1, <1>2 DEF Become, TypeOK
<1>5. /\ call'[m].outcome = call[m].outcome /\ call'[m].pc # "oneshot"
      /\ \A c \in Callers \ {m} : call'[c] = call[c]
  BY <1>1, <1>2, GotoEffect, Names, Stations
<1> QED
  BY <1>2, <1>3, <1>4, <1>5, GoesOn

\* A step that asks a process for the message's turn, or registers it.
LEMMA AsksPromise ==
    ASSUME Flow, NEW m \in Messages, UNCHANGED <<runs, late>>, raced \subseteq raced',
           call[m].pc # "oneshot", call'[m].pc # "oneshot", call'[m].outcome = call[m].outcome,
           \A c \in Callers \ {m} : call'[c] = call[c],
           \A p \in Procs : Lives(p)' <=> Lives(p)
    PROVE  [Promise!Next]_(Promise!vars)
<1>1. Answers' = Answers /\ Sealed' = Sealed /\ Confused \subseteq Confused'
  BY Names, AnswersSame, SealedSame DEF Confused, Raced
<1>2. Writers' = Writers
  BY Names, WorkersSame
<1> QED
  BY <1>1, <1>2, ConfuseKept

LEMMA AwaitPromise ==
    ASSUME Flow, NEW m \in Messages, Await(m)
    PROVE  [Promise!Next]_(Promise!vars)
<1> DEFINE p == call[m].hand
           r == [proc[p] EXCEPT !.turn = m]
<1>1. /\ TypeOK /\ p \in Procs /\ proc[p] \in ProcRecord /\ call[m].pc = "await"
      /\ UNCHANGED <<runs, late>> /\ call[m].pc \in Holding
  BY Stations DEF Await, Flow, IInv, TypeOK, Control, Driven
<1>2. CASE Become(p, r) /\ Goto(m, "wait") /\ raced \subseteq raced'
  <2>1. r.alive = proc[p].alive /\ r.swept = proc[p].swept
    BY <1>1 DEF ProcRecord
  <2> HIDE DEF r
  <2>2. /\ call'[m].outcome = call[m].outcome /\ call'[m].pc # "oneshot"
        /\ \A c \in Callers \ {m} : call'[c] = call[c]
    BY <1>1, <1>2, GotoEffect, Names, Stations
  <2>3. \A q \in Procs : Lives(q)' <=> Lives(q)
    BY <1>1, <1>2, <2>1, <2>2, Names, OneSame
  <2> QED
    BY <1>1, <1>2, <2>2, <2>3, AsksPromise
<1>3. CASE Failed(m) /\ UNCHANGED <<proc, raced>>
  BY <1>1, <1>3, FailedPromise
<1> QED
  BY <1>2, <1>3 DEF Await

LEMMA RunTurnPromise ==
    ASSUME Flow, NEW m \in Messages, RunTurn(m)
    PROVE  [Promise!Next]_(Promise!vars)
<1> DEFINE p == call[m].hand
           r == [proc[p] EXCEPT !.state = "running", !.turn = m, !.inbox = Append(@, m),
                                !.writing = TRUE]
           s == [proc[p] EXCEPT !.state = "running"]
<1>1. /\ IInv /\ TypeOK /\ p \in Procs /\ proc[p] \in ProcRecord /\ call[m].pc = "run"
      /\ UNCHANGED late /\ call[m].pc \in Holding /\ call[m].given = 0
      /\ entry \in {0, p}
  BY Stations DEF RunTurn, Flow, IInv, TypeOK, Control, Driven, Given
<1>2. runs = m
  BY <1>1, HeldBy
<1>3. CASE /\ Become(p, r)
           /\ call' = [call EXCEPT ![m].pc = "send", ![m].given = @ + 1]
           /\ raced \subseteq raced' /\ UNCHANGED runs
  <2>1. r.alive = proc[p].alive /\ r.swept = proc[p].swept
    BY <1>1 DEF ProcRecord
  <2> HIDE DEF r
  <2>2. /\ call'[m].outcome = call[m].outcome /\ call'[m].pc # "oneshot"
        /\ \A c \in Callers \ {m} : call'[c] = call[c]
    BY <1>1, <1>3, Names DEF TypeOK, CallRecord
  <2>3. \A q \in Procs : Lives(q)' <=> Lives(q)
    BY <1>1, <1>3, <2>1, <2>2, Names, OneSame
  <2> QED
    BY <1>1, <1>3, <2>2, <2>3, AsksPromise
<1>4. CASE Become(p, s) /\ Failed(m) /\ UNCHANGED <<runs, raced>>
  <2>1. s.alive = proc[p].alive /\ s.swept = proc[p].swept
    BY <1>1 DEF ProcRecord
  <2> HIDE DEF s
  <2>2. \A q \in Procs : proc'[q] = IF q = p THEN s ELSE proc[q]
    BY <1>1, <1>4 DEF Become, TypeOK
  <2> QED
    BY <1>1, <1>4, <2>1, <2>2, FailedPromise
<1>5. CASE Release(m) /\ UNCHANGED proc
  BY <1>1, <1>2, <1>5, ReleasePromise
<1>6. CASE /\ proc[p].state \in {"closing", "terminated"} /\ OneShot(m, 1)
           /\ UNCHANGED <<proc, runs, raced>>
  <2>1. \A q \in Procs : ~Lives(q)
    BY <1>1, <1>2, <1>6, ForgetKnown
  <2> QED
    BY <1>1, <1>6, <2>1, OneShotPromise
<1> QED
  BY <1>3, <1>4, <1>5, <1>6 DEF RunTurn, SendFails

\* The message waits for the next of the ends of its turn.
LEMMA OnwardPromise ==
    ASSUME Flow, NEW m \in Messages, NEW pc \in {"wait", "interrupt", "grace"}, Goto(m, pc),
           UNCHANGED <<proc, runs, raced, late>>
    PROVE  [Promise!Next]_(Promise!vars)
<1>1. /\ call'[m].outcome = call[m].outcome /\ call'[m].pc # "oneshot"
      /\ \A c \in Callers \ {m} : call'[c] = call[c]
  BY GotoEffect, Names, Stations DEF Flow, IInv
<1> QED
  BY <1>1, GoesOn

LEMMA GiveUpPromise ==
    ASSUME Flow, NEW m \in Messages, call[m].pc \in Driving, GiveUp(m)
    PROVE  [Promise!Next]_(Promise!vars)
<1> DEFINE p == call[m].hand
<1>1. TypeOK /\ p \in Procs /\ proc[p] \in ProcRecord
  BY DEF Flow, IInv, TypeOK, Control, Driven
<1>2. /\ Become(p, Closed(proc[p])) /\ Goto(m, "close") /\ UNCHANGED <<runs, raced, late>>
  BY DEF GiveUp
<1>3. Closed(proc[p]).alive = proc[p].alive /\ Closed(proc[p]).swept = proc[p].swept
  BY <1>1 DEF Closed, ProcRecord
<1>4. \A q \in Procs : proc'[q] = IF q = p THEN Closed(proc[p]) ELSE proc[q]
  BY <1>1, <1>2 DEF Become, TypeOK
<1>5. /\ call'[m].outcome = call[m].outcome /\ call'[m].pc # "oneshot"
      /\ \A c \in Callers \ {m} : call'[c] = call[c]
  BY <1>1, <1>2, GotoEffect, Names, Stations
<1> QED
  BY <1>2, <1>3, <1>4, <1>5, GoesOn

LEMMA WaitPromise ==
    ASSUME Flow, NEW m \in Messages,
           \/ PromptSent(m) \/ ContextDone(m) \/ Interrupted(m) \/ InterruptFails(m) \/ GraceOver(m)
    PROVE  [Promise!Next]_(Promise!vars)
<1>1. call[m].pc \in Driving
  BY Stations DEF PromptSent, ContextDone, Interrupted, InterruptFails, GraceOver
<1>2. \/ GiveUp(m)
      \/ \E pc \in {"wait", "interrupt", "grace"} : Goto(m, pc) /\ UNCHANGED <<proc, runs, raced, late>>
  BY DEF PromptSent, ContextDone, Interrupted, InterruptFails, GraceOver
<1> QED
  BY <1>1, <1>2, GiveUpPromise, OnwardPromise

LEMMA BreaksPromise ==
    ASSUME Flow, NEW m \in Messages, SendBreaks(m) \/ CloseOver(m)
    PROVE  [Promise!Next]_(Promise!vars)
<1> DEFINE p == call[m].hand
<1>1. /\ TypeOK /\ p \in Procs /\ proc[p] \in ProcRecord /\ call[m].pc \in Holding
      /\ Failed(m) /\ UNCHANGED <<runs, raced, late>>
  BY Stations DEF SendBreaks, CloseOver, Flow, IInv, TypeOK, Control, Driven
<1>2. CASE SendBreaks(m)
  <2>1. Become(p, Unsent(proc[p]))
    BY <1>2 DEF SendBreaks
  <2>2. Unsent(proc[p]).alive = proc[p].alive /\ Unsent(proc[p]).swept = proc[p].swept
    BY <1>1 DEF Unsent, ProcRecord
  <2>3. \A q \in Procs : proc'[q] = IF q = p THEN Unsent(proc[p]) ELSE proc[q]
    BY <1>1, <2>1 DEF Become, TypeOK
  <2> QED
    BY <1>1, <2>2, <2>3, FailedPromise
<1>3. CASE CloseOver(m)
  BY <1>1, <1>3, FailedPromise DEF CloseOver
<1> QED
  BY <1>2, <1>3

LEMMA LeavesPromise ==
    ASSUME Flow, NEW m \in Messages, Settle(m) \/ OneShotEnds(m)
    PROVE  [Promise!Next]_(Promise!vars)
<1>1. call[m].pc \in Holding /\ Release(m) /\ UNCHANGED <<proc, late>>
  BY Stations DEF Settle, OneShotEnds
<1> QED
  BY <1>1, HeldBy, ReleasePromise DEF Flow
-----------------------------------------------------------------------------
(* Handoff and Archive. *)

LEMMA HandoffPromise ==
    ASSUME Flow, Handoff
    PROVE  [Promise!Next]_(Promise!vars)
<1>1. /\ Goto("handoff", "evict") /\ runs = "none" /\ runs' = "handoff"
      /\ UNCHANGED <<proc, raced>> /\ "evict" \in Pcs /\ TypeOK
      /\ late' = (late \/ call["archive"].pc \in {"evict", "evicted"})
  BY DEF Handoff, Pcs, Flow, IInv
<1>2. \A d \in Callers \ {"handoff"} : call'[d] = call[d]
  BY <1>1, GotoEffect, Names
<1>3. Answers' = Answers /\ Confused' = Confused
  BY <1>1, <1>2, Names, AnswersSame, ConfusedSame
<1>4. Sealed' = Sealed
  BY <1>1, <1>2, Names DEF Sealed
<1>5. Writers' \subseteq Writers
  BY <1>1, <1>2, Names, LivesFewer, WorkersFewer
<1> QED
  BY <1>1, <1>3, <1>4, <1>5, OccupyKept

\* A step of Archive or Handoff that seals nothing: it may evict the process.
LEMMA CallerGoesOn ==
    ASSUME Flow, NEW c \in {"archive", "handoff"}, runs' = runs, raced' = raced,
           Sealed' = Sealed, \A d \in Callers \ {c} : call'[d] = call[d],
           \A p \in Procs : Lives(p)' => Lives(p)
    PROVE  [Promise!Next]_(Promise!vars)
<1>1. \A m \in Messages : call'[m] = call[m]
  BY Names
<1>2. Answers' = Answers /\ Confused' = Confused
  BY <1>1, AnswersSame, ConfusedSame
<1>3. Writers' \subseteq Writers
  BY <1>1, WorkersFewer
<1> QED
  BY <1>2, <1>3, StopKept

LEMMA ArchivePromise ==
    ASSUME Flow, Archive \/ OutOfPatience
    PROVE  [Promise!Next]_(Promise!vars)
<1>1. /\ TypeOK /\ call["archive"].pc \in {"idle", "wait"}
      /\ UNCHANGED <<proc, runs, raced>> /\ (late => late')
      /\ \E pc \in {"evict", "wait"} : Goto("archive", pc)
  BY DEF Archive, OutOfPatience, Flow, IInv
<1>2. /\ call'["archive"].pc # "gone" /\ call'["archive"].hand = call["archive"].hand
      /\ \A d \in Callers \ {"archive"} : call'[d] = call[d]
  <2>1. {"evict", "wait"} \subseteq Pcs
    BY DEF Pcs
  <2> QED
    BY <1>1, <2>1, GotoEffect, Names
<1>3. Sealed' = Sealed
  BY <1>1, <1>2 DEF Sealed
<1>4. \A p \in Procs : Lives(p)' => Lives(p)
  BY <1>1, <1>2, LivesFewer
<1> QED
  BY <1>1, <1>2, <1>3, <1>4, CallerGoesOn

LEMMA EvictPersistentPromise ==
    ASSUME Flow, NEW c \in {"archive", "handoff"}, EvictPersistent(c)
    PROVE  [Promise!Next]_(Promise!vars)
<1>1. /\ TypeOK /\ entry \in Procs \cup {0} /\ c \in Callers /\ "evicted" \in Pcs
      /\ call[c].pc = "evict" /\ UNCHANGED <<proc, runs, raced, late>>
      /\ call' = [call EXCEPT ![c].pc = "evicted", ![c].hand = entry]
  BY Names DEF EvictPersistent, Flow, IInv, TypeOK, Pcs
<1>2. call'[c].pc = "evicted" /\ \A d \in Callers \ {c} : call'[d] = call[d]
  BY <1>1, HandEffect
<1>3. Sealed' = Sealed
  BY <1>1, <1>2, Names DEF Sealed
<1>4. call["archive"].hand \in {0, call'["archive"].hand}
  BY <1>1, <1>2, Names DEF Flow, IInv, Control, Placed
<1>5. \A p \in Procs : Lives(p)' => Lives(p)
  BY <1>1, <1>4, Numbers DEF Lives, Cast
<1> QED
  BY <1>1, <1>2, <1>3, <1>5, CallerGoesOn

LEMMA HandoffEvictedPromise ==
    ASSUME Flow, Evicted("handoff")
    PROVE  [Promise!Next]_(Promise!vars)
<1>1. call["handoff"].pc = "evicted" /\ Release("handoff") /\ UNCHANGED <<proc, late>>
  BY DEF Evicted
<1>2. runs = "handoff"
  BY <1>1 DEF Flow, IInv, Control, Claimed
<1> QED
  BY <1>1, <1>2, ReleasePromise

\* The session is put away, unless somebody was late for it.
LEMMA ArchiveEvictedPromise ==
    ASSUME Flow, Flow', Evicted("archive")
    PROVE  [Promise!Next]_(Promise!vars)
<1>1. /\ IInv /\ call["archive"].pc = "evicted" /\ ArchiveEnds
      /\ UNCHANGED <<proc, runs, raced, late>>
  BY DEF Evicted, Flow
<1>2. PICK checked \in SUBSET {m \in Messages : call[m].pc = "idle"} :
        call' = [c \in Callers |-> CASE c \in checked -> Fresh("checked")
                                     [] c = "archive" -> Fresh("gone")
                                     [] OTHER -> call[c]]
  BY <1>1 DEF ArchiveEnds
<1>3. /\ Fresh("checked").pc = "checked" /\ Fresh("checked").outcome = "none"
      /\ Fresh("gone").pc = "gone"
  BY DEF Fresh
<1>4. \A m \in Messages : \/ call'[m] = call[m]
                          \/ call[m].pc = "idle" /\ call'[m] = Fresh("checked")
  BY <1>2, Names
<1>5. call'["archive"].pc = "gone"
  BY <1>2, <1>3, Names
<1>6. call'["archive"].hand = 0
  BY <1>2, Names DEF Fresh
<1>7. Closes("archive")
  BY DEF Evicted
<1>8. Answers' = Answers
  <2>1. \A m \in Messages : call[m].pc = "idle" => call[m].outcome = "none"
    BY Places DEF Flow, Talk, Untold
  <2> QED
    BY <1>3, <1>4, <2>1, AnswersSame
<1>9. Confused' = Confused
  BY <1>1, ConfusedSame
<1>10. Writers' = Writers
  <2>1. \A p \in Procs : Lives(p)' <=> Lives(p)
    BY <1>1, <1>6, <1>7, Numbers DEF Lives, Cast, Closes
  <2> QED
    BY <1>3, <1>4, <2>1, WorkersSame
<1>11. CASE late
  <2>1. Sealed' = Sealed
    BY <1>1, <1>11 DEF Sealed
  <2> QED
    BY <1>1, <1>8, <1>9, <1>10, <2>1, StopKept
<1>12. CASE ~late
  <2>1. runs \notin Messages
    BY <1>1, <1>12, Stations DEF IInv, Control, Alone
  <2>2. Sealed' = TRUE
    BY <1>1, <1>5, <1>12 DEF Sealed
  <2>3. \A p \in Procs : ~Lives(p)'
    BY <2>2 DEF Flow, IInv, Known
  <2>4. \A m \in Messages : call'[m].pc # "oneshot"
    BY <1>1, <1>3, <1>4, <2>1, HeldBy, Stations
  <2>5. Writers' = {}
    BY <2>3, <2>4 DEF Writers, Lives
  <2> QED
    BY <1>1, <1>8, <1>9, <1>10, <2>1, <2>2, <2>5, SealKept
<1> QED
  BY <1>11, <1>12

\* Desk implements AgentSession: the claim of Service.runs, the pool, the
\* Conductor and its queues amount to one holder, for whom alone work begins
\* and who alone is answered, of its own request unless the Conductor took it
\* for another; and once the session is archived no process lives, but one that
\* the pool reclaimed or an overlapped Archive is closing.
THEOREM ImplementsSession == Spec => KeepsSession
<1>1. Init => Promise!Init
  <2> SUFFICES ASSUME Init PROVE Promise!Init
    OBVIOUS
  <2>1. /\ \A c \in Callers : call[c].pc = "idle" /\ call[c].outcome = "none"
        /\ \A p \in Procs : ~Lives(p)
    BY DEF Init, Fresh, NoProcess, Lives
  <2>2. Writers = {} /\ Answers = [m \in Messages |-> "none"]
    BY <2>1, Names DEF Writers, Lives, Answers
  <2>3. Confused = {} /\ Sealed = FALSE /\ runs = "none"
    BY <2>1, Names DEF Confused, Raced, Sealed, Init
  <2> QED
    BY <2>2, <2>3 DEF Promise!Init
<1>2. Flow /\ Flow' /\ [Next]_vars => [Promise!Next]_(Promise!vars)
  <2> SUFFICES ASSUME Flow, Flow', [Next]_vars PROVE [Promise!Next]_(Promise!vars)
    OBVIOUS
  <2>1. ASSUME NEW p \in Procs, Agent(p) \/ Session(p) \/ Conductor(p) \/ Close(p) \/ Reclaim(p)
        PROVE  [Promise!Next]_(Promise!vars)
    BY <2>1, AgentPromise, SessionPromise, ConductorPromise, PoolPromise
  <2>2. ASSUME NEW m \in Messages, StartTurn(m) \/ Turn(m) \/ Interrupted(m)
        PROVE  [Promise!Next]_(Promise!vars)
    BY <2>2, StartTurnPromise, AcquirePromise, MessageEvictedPromise, OpenPromise,
       ConductPromise, AwaitPromise, RunTurnPromise, WaitPromise, BreaksPromise, LeavesPromise DEF Turn
  <2>3. CASE Archive \/ Archiving
    BY <2>3, ArchivePromise, EvictPersistentPromise, ArchiveEvictedPromise DEF Archiving
  <2>4. CASE Handoff \/ HandingOff
    BY <2>4, HandoffPromise, EvictPersistentPromise, HandoffEvictedPromise DEF HandingOff
  <2>5. CASE UNCHANGED vars
    <3>1. UNCHANGED <<proc, runs, call, raced, late>>
      BY <2>5 DEF vars
    <3> QED
      BY <3>1, LivesFewer, WorkersFewer, AnswersSame, ConfusedSame, SealedSame, StopKept
  <2> QED
    BY <2>1, <2>2, <2>3, <2>4, <2>5 DEF Next
<1> QED
  BY <1>1, <1>2, FlowInvariance, PTL DEF Spec, KeepsSession, Promise!Spec
=============================================================================
