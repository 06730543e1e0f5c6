--------------------------- MODULE InstanceProofs ---------------------------
(***************************************************************************)
(* Proofs about Instance, for any number of processes, ports and polls.    *)
(***************************************************************************)
EXTENDS Instance, TLAPS

\* The steps at which a process has the lock file open, holds its lock, and has
\* written its PID; and those it can be at once its PID may be read.
WithFile == ServerSteps \cup {"probe", "unprobe", "trylock"}
Holders == ServerSteps \cup {"unprobe"}
Wrote == ServerSteps \ {"clean", "pid"}
Past == Wrote \cup {"unlink", "tidy", "gone"}

\* A stop that has a process to wait for.
Chases(r) == \/ r.pc \in {"term", "kill", "sweep", "stopped"}
             \/ r.why = "poll" /\ r.pc \in {"open", "probe", "unprobe"}
Probing(r) == r.why = "poll" /\ r.pc \in {"probe", "unprobe"}
Released(q) == ~Owner(q) \/ q \in lost
Done(q) == Released(q) \/ q \in killed

Opened == \A p \in Procs : IF proc[p].pc \in WithFile THEN proc[p].ino \in Inodes
                           ELSE proc[p].ino = 0
Held == \A p \in Procs : proc[p].pc \in Holders => flock[proc[p].ino] = p

\* Who has the file open and did not lose it has the file that the path names.
Named == \A p \in Procs : (proc[p].ino # 0 /\ p \notin lost) => name = proc[p].ino

Written == \A p \in Procs : proc[p].pc \in Wrote => pid[proc[p].ino] = p

\* A process that can be found in a file was once a server, and will not be
\* one a second time.
Known == /\ \A i \in Inodes : pid[i] # 0 => proc[pid[i]].pc \in Past
         /\ portFile # 0 => proc[portFile].pc \in Past
         /\ \A p \in Procs : proc[p].target # 0 => proc[proc[p].target].pc \in Past

\* A poll asks for the lock of the very file that the server it waits for has.
Chase == \A p \in Procs :
            /\ Chases(proc[p]) => proc[p].target # 0
            /\ Probing(proc[p]) =>
                  Released(proc[p].target) \/ proc[p].ino = proc[proc[p].target].ino
            /\ proc[p].pc \in {"sweep", "stopped"} => Done(proc[p].target)

\* The inductive invariant.
IInv == TypeOK /\ Opened /\ Held /\ Named /\ Written /\ Known /\ Chase /\ PortIsOwn

LEMMA ZeroIsNone == 0 \notin Inodes /\ 0 \notin Procs
BY DEF Inodes, Procs

LEMMA SomePortIsPort == SomePort \in Ports
BY InstanceAssumption DEF SomePort

LEMMA FreshIsRecord ==
    ASSUME NEW pc \in Steps, NEW cmd \in Commands, NEW port \in Ports
    PROVE  Fresh(pc, cmd, port) \in ProcRecord
<1>1. 0 \in 0..MaxPolls
  BY InstanceAssumption
<1> QED
  BY <1>1 DEF Fresh, ProcRecord

LEMMA GoneIsRecord == Gone \in ProcRecord /\ Gone.pc = "gone" /\ Gone.ino = 0 /\ Gone.target = 0
<1>1. "gone" \in Steps /\ "start" \in Commands
  BY DEF Steps, Commands
<1>2. Gone \in ProcRecord
  BY <1>1, FreshIsRecord, SomePortIsPort DEF Gone
<1> QED
  BY <1>2 DEF Gone, Fresh

LEMMA InitInv == Init => IInv
<1> SUFFICES ASSUME Init PROVE IInv
  OBVIOUS
<1>1. /\ "idle" \in Steps /\ "start" \in Commands
      /\ Fresh("idle", "start", SomePort) \in ProcRecord
  BY FreshIsRecord, SomePortIsPort DEF Steps, Commands
<1>2. \A p \in Procs : /\ proc[p].pc = "idle" /\ proc[p].ino = 0
                       /\ proc[p].target = 0 /\ proc[p].why = "start"
  BY DEF Init, Fresh
<1>3. TypeOK
  BY <1>1 DEF Init, TypeOK
<1>4. Opened /\ Held /\ Named /\ Written
  BY <1>2 DEF Opened, Held, Named, Written, WithFile, Holders, Wrote, ServerSteps
<1>5. Known /\ Chase /\ PortIsOwn
  BY <1>2 DEF Init, Known, Chase, Chases, Probing, PortIsOwn, Owner, ServerSteps
<1> QED
  BY <1>3, <1>4, <1>5 DEF IInv
-----------------------------------------------------------------------------
(* What any step keeps. *)

\* The processes that files and stops refer to stay ones that were servers.
LEMMA KnownKept ==
    ASSUME IInv, TypeOK',
           \A q \in Procs : proc[q].pc \in Past => proc'[q].pc \in Past,
           \A q \in Procs : proc'[q].target # 0 =>
               proc'[q].target = proc[q].target \/ proc[proc'[q].target].pc \in Past,
           \A i \in Inodes : pid'[i] # 0 => pid'[i] = pid[i] \/ proc'[pid'[i]].pc \in Past,
           portFile' # 0 => portFile' = portFile \/ proc'[portFile'].pc \in Past
    PROVE  Known'
<1>1. /\ pid \in [Inodes -> Procs \cup {0}] /\ portFile \in Procs \cup {0}
      /\ \A q \in Procs : proc'[q].target \in Procs \cup {0}
  BY DEF IInv, TypeOK, ProcRecord
<1>2. \A i \in Inodes : pid'[i] # 0 => proc'[pid'[i]].pc \in Past
  BY <1>1 DEF IInv, Known
<1>3. portFile' # 0 => proc'[portFile'].pc \in Past
  BY <1>1 DEF IInv, Known
<1>4. \A q \in Procs : proc'[q].target # 0 => proc'[proc'[q].target].pc \in Past
  BY <1>1 DEF IInv, Known
<1> QED
  BY <1>2, <1>3, <1>4 DEF Known

\* A stop that a step leaves alone waits as before, if the step takes neither
\* a released server back nor the file from one that holds it.
LEMMA ChaseKept ==
    ASSUME IInv, TypeOK',
           \A t \in Procs : (proc[t].pc \in Past /\ Released(t)) => Released(t)',
           \A t \in Procs : proc[t].pc \in Past => Released(t)' \/ proc'[t].ino = proc[t].ino,
           \A t \in killed : t \in killed' \/ Released(t)',
           \A q \in Procs : proc'[q] # proc[q] =>
              /\ Chases(proc'[q]) => proc'[q].target # 0
              /\ \A t \in Procs : t = proc'[q].target =>
                    /\ Probing(proc'[q]) => Released(t)' \/ proc'[q].ino = proc'[t].ino
                    /\ proc'[q].pc \in {"sweep", "stopped"} => Done(t)'
    PROVE  Chase'
<1> SUFFICES ASSUME NEW q \in Procs
             PROVE  LET t == proc'[q].target IN
                    /\ Chases(proc'[q]) => t # 0
                    /\ Probing(proc'[q]) => \/ proc'[t].pc \notin ServerSteps \/ t \in lost'
                                            \/ proc'[q].ino = proc'[t].ino
                    /\ proc'[q].pc \in {"sweep", "stopped"}
                       => \/ proc'[t].pc \notin ServerSteps \/ t \in lost'
                          \/ t \in killed'
  BY DEF Chase, Done, Released, Owner
<1>1. /\ proc'[q].target \in Procs \cup {0} /\ proc[q].target \in Procs \cup {0}
      /\ Probing(proc'[q]) => Chases(proc'[q])
      /\ proc'[q].pc \in {"sweep", "stopped"} => Chases(proc'[q])
  BY DEF IInv, TypeOK, ProcRecord, Probing, Chases
<1>2. CASE proc'[q] # proc[q]
  BY <1>1, <1>2 DEF Done, Released, Owner
<1>3. CASE proc'[q] = proc[q]
  <2>1. Chases(proc'[q]) => proc'[q].target # 0
    BY <1>3 DEF IInv, Chase
  <2>2. ASSUME NEW t \in Procs, t = proc[q].target
        PROVE  /\ Probing(proc[q]) => Released(t)' \/ proc[q].ino = proc'[t].ino
               /\ proc[q].pc \in {"sweep", "stopped"} => Done(t)'
    <3>1. proc[t].pc \in Past
      BY <2>2, ZeroIsNone DEF IInv, Known
    <3>2. CASE Released(t)
      BY <3>1, <3>2 DEF Done
    <3>3. CASE ~Released(t)
      BY <2>2, <3>1, <3>3 DEF IInv, Chase, Done
    <3> QED
      BY <3>2, <3>3
  <2> QED
    BY <1>1, <1>3, <2>1, <2>2 DEF Done, Released, Owner
<1> QED
  BY <1>2, <1>3
-----------------------------------------------------------------------------
(* Steps that change no file, or only remove the runtime files. *)

\* What a step of p to the record r keeps, when it opens and locks nothing.
Fits(p, r) ==
    /\ IF r.pc \in WithFile THEN proc[p].pc \in WithFile /\ r.ino = proc[p].ino ELSE r.ino = 0
    /\ r.pc \in Holders => proc[p].pc \in Holders
    /\ r.pc \in Wrote => proc[p].pc \in Wrote
    /\ r.pc \in ServerSteps => proc[p].pc \in ServerSteps
    /\ proc[p].pc \in Past => r.pc \in Past
    /\ r.target # 0 => proc[r.target].pc \in Past
    /\ Chases(r) => r.target # 0
    /\ ~Probing(r)
    /\ \A t \in Procs : t = r.target /\ r.pc \in {"sweep", "stopped"} =>
          Released(t) \/ t \in killed'

LEMMA StepTo ==
    ASSUME TypeOK, NEW p \in Procs, NEW r \in ProcRecord, Goto(p, r)
    PROVE  /\ proc' \in [Procs -> ProcRecord] /\ proc'[p] = r
           /\ \A q \in Procs : q # p => proc'[q] = proc[q]
BY DEF TypeOK, Goto

LEMMA ControlInv ==
    ASSUME IInv, NEW p \in Procs, NEW r \in ProcRecord, Goto(p, r), Fits(p, r),
           UNCHANGED <<name, flock, pid, lost>>, killed \subseteq killed', killed' \subseteq Procs,
           portFile' = 0 \/ (portFile' = portFile /\ proc[p].pc # "clean")
    PROVE  IInv'
<1>1. /\ proc' \in [Procs -> ProcRecord] /\ proc'[p] = r
      /\ \A q \in Procs : q # p => proc'[q] = proc[q]
  BY StepTo DEF IInv
<1>2. portFile' \in {0, portFile} /\ portFile' \in Procs \cup {0}
  BY DEF IInv, TypeOK
<1>3. TypeOK'
  BY <1>1, <1>2 DEF IInv, TypeOK
<1>4. Opened'
  BY <1>1 DEF IInv, Opened, Fits
<1>5. Held' /\ Written'
  <2>1. r.pc \in Holders \cup Wrote => r.ino = proc[p].ino
    BY DEF Fits, WithFile, Holders, Wrote
  <2> QED
    BY <1>1, <1>2, <2>1 DEF IInv, Held, Written, Fits
<1>6. Named'
  BY <1>1, <1>2 DEF IInv, Named, Fits
<1>7. Known'
  <2>1. \A q \in Procs : proc[q].pc \in Past => proc'[q].pc \in Past
    BY <1>1 DEF Fits
  <2>2. \A q \in Procs : proc'[q].target # 0 =>
            proc'[q].target = proc[q].target \/ proc[proc'[q].target].pc \in Past
    BY <1>1 DEF Fits
  <2> QED
    BY <1>2, <1>3, <2>1, <2>2, KnownKept
<1>8. Chase'
  <2>1. \A t \in Procs : Released(t) => Released(t)'
    BY <1>1, <1>2 DEF Fits, Released, Owner
  <2>2. \A t \in Procs : Released(t)' \/ proc'[t].ino = proc[t].ino
    BY <1>1 DEF Fits, Released, Owner, WithFile
  <2>3. ASSUME NEW q \in Procs, proc'[q] # proc[q]
        PROVE  /\ Chases(proc'[q]) => proc'[q].target # 0
               /\ ~Probing(proc'[q])
               /\ \A t \in Procs : t = proc'[q].target /\ proc'[q].pc \in {"sweep", "stopped"}
                                   => Done(t)'
    BY <1>1, <2>1, <2>3 DEF Fits, Done
  <2> QED
    BY <1>3, <2>1, <2>2, <2>3, ChaseKept
<1>9. PortIsOwn'
  BY <1>1, <1>2 DEF IInv, PortIsOwn, Fits, Owner
<1> QED
  BY <1>3, <1>4, <1>5, <1>6, <1>7, <1>8, <1>9 DEF IInv
-----------------------------------------------------------------------------
(* Steps that open the lock file, take the lock, or release it. *)

LEMMA OpenInv ==
    ASSUME IInv, NEW p \in Procs, ProbeOpen(p) \/ TryOpen(p) PROVE IInv'
<1>1. PICK next \in {"probe", "trylock"} :
         /\ OpenFile(p, next) /\ proc[p].pc \in {"open", "tryopen"}
         /\ next = "probe" => proc[p].pc = "open"
  BY DEF ProbeOpen, TryOpen
<1>2. PICK i \in Inodes :
         /\ \/ name = i /\ UNCHANGED pid
            \/ name = 0 /\ Unused(i) /\ pid' = [pid EXCEPT ![i] = 0]
         /\ name' = i /\ lost' = lost \ {p} /\ UNCHANGED <<flock, portFile, killed>>
         /\ Goto(p, [proc[p] EXCEPT !.pc = next, !.ino = i])
  BY <1>1 DEF OpenFile
<1> DEFINE r == [proc[p] EXCEPT !.pc = next, !.ino = i]
<1>3. /\ r \in ProcRecord /\ r.pc = next /\ r.ino = i
      /\ r.target = proc[p].target /\ r.why = proc[p].why
  <2>1. proc[p] \in ProcRecord
    BY DEF IInv, TypeOK
  <2>2. next \in Steps /\ i \in Inodes \cup {0}
    BY DEF Steps
  <2> QED
    BY <2>1, <2>2 DEF ProcRecord
<1> HIDE DEF r
<1>4. /\ proc' \in [Procs -> ProcRecord] /\ proc'[p] = r
      /\ \A q \in Procs : q # p => proc'[q] = proc[q]
  BY <1>2, <1>3, StepTo DEF IInv, r
<1>5. TypeOK'
  BY <1>2, <1>4 DEF IInv, TypeOK
<1>6. /\ proc[p].pc \notin Past /\ proc[p].pc \notin Holders
      /\ r.pc \notin Past /\ r.pc \notin Holders /\ r.pc \in WithFile
  BY <1>1, <1>3 DEF Past, Wrote, Holders, ServerSteps, WithFile
<1>7. Opened' /\ Held'
  BY <1>2, <1>3, <1>4, <1>6 DEF IInv, Opened, Held
<1>8. Named'
  BY <1>2, <1>3, <1>4, ZeroIsNone DEF IInv, Named
<1>9. Written'
  <2> SUFFICES ASSUME NEW q \in Procs, q # p, proc[q].pc \in Wrote
               PROVE  pid'[proc[q].ino] = q
    BY <1>4, <1>6 DEF Written, Past
  <2>1. proc[q].ino \in Inodes /\ pid[proc[q].ino] = q
    BY DEF IInv, Opened, Written, Wrote, WithFile
  <2>2. CASE UNCHANGED pid
    BY <2>1, <2>2
  <2>3. CASE Unused(i) /\ pid' = [pid EXCEPT ![i] = 0]
    BY <2>1, <2>3 DEF Unused, IInv, TypeOK
  <2> QED
    BY <1>2, <2>2, <2>3
<1>10. Known'
  <2>1. \A j \in Inodes : pid'[j] # 0 => pid'[j] = pid[j]
    BY <1>2 DEF IInv, TypeOK
  <2>2. /\ \A q \in Procs : proc[q].pc \in Past => proc'[q].pc \in Past
        /\ \A q \in Procs : proc'[q].target = proc[q].target
    BY <1>3, <1>4, <1>6
  <2> QED
    BY <1>2, <1>5, <2>1, <2>2, KnownKept
<1>11. Chase'
  <2>1. \A t \in Procs : proc[t].pc \in Past =>
           t # p /\ (Released(t) => Released(t)') /\ proc'[t].ino = proc[t].ino
    BY <1>2, <1>4, <1>6 DEF Released, Owner
  <2>2. ASSUME Chases(r)
        PROVE  /\ r.target # 0 /\ r.pc = "probe" /\ r.why = "poll"
               /\ \A t \in Procs : t = r.target => Released(t)' \/ r.ino = proc'[t].ino
    <3>1. r.pc = "probe" /\ r.why = "poll"
      BY <1>1, <1>3, <2>2 DEF Chases
    <3>2. r.target # 0
      BY <1>1, <1>3, <3>1 DEF IInv, Chase, Chases
    <3>3. ASSUME NEW t \in Procs, t = r.target, ~Released(t)'
          PROVE  r.ino = proc'[t].ino
      <4>1. proc[t].pc \in Past
        BY <1>3, <3>2, <3>3 DEF IInv, Known
      <4>2. t # p /\ t \notin lost /\ proc'[t] = proc[t] /\ proc[t].pc \in ServerSteps
        BY <1>2, <1>4, <2>1, <3>3, <4>1 DEF Released, Owner
      <4>3. proc[t].ino \in Inodes
        BY <4>2 DEF IInv, Opened, WithFile
      <4>4. name = proc[t].ino
        BY <4>2, <4>3, ZeroIsNone DEF IInv, Named
      <4> QED
        BY <1>2, <1>3, <4>2, <4>3, <4>4, ZeroIsNone
    <3> QED
      BY <3>1, <3>2, <3>3
  <2>3. ASSUME NEW q \in Procs, proc'[q] # proc[q]
        PROVE  /\ Chases(proc'[q]) => proc'[q].target # 0
               /\ \A t \in Procs : t = proc'[q].target =>
                     /\ Probing(proc'[q]) => Released(t)' \/ proc'[q].ino = proc'[t].ino
                     /\ proc'[q].pc \in {"sweep", "stopped"} => Done(t)'
    BY <1>4, <2>2, <2>3 DEF Chases, Probing
  <2> QED
    BY <1>2, <1>5, <2>1, <2>3, ChaseKept
<1>12. PortIsOwn'
  <2>1. portFile # p
    BY <1>6, ZeroIsNone DEF IInv, Known
  <2> QED
    BY <1>2, <1>4, <1>6, <2>1 DEF IInv, PortIsOwn, Owner, Holders
<1> QED
  BY <1>5, <1>7, <1>8, <1>9, <1>10, <1>11, <1>12 DEF IInv

LEMMA FlockInv ==
    ASSUME IInv, NEW p \in Procs, NEW next \in {"unprobe", "clean"}, Flock(p, next),
           proc[p].pc = IF next = "unprobe" THEN "probe" ELSE "trylock"
    PROVE  IInv'
<1> DEFINE r == [proc[p] EXCEPT !.pc = next]
<1>1. /\ r \in ProcRecord /\ r.pc = next /\ r.ino = proc[p].ino
      /\ r.target = proc[p].target /\ r.why = proc[p].why
  BY DEF IInv, TypeOK, ProcRecord, Steps, ServerSteps
<1>2. Goto(p, r) /\ UNCHANGED <<name, pid, portFile, killed, lost>>
      /\ proc[p].ino \in Inodes /\ flock[proc[p].ino] = 0
      /\ flock' = [flock EXCEPT ![proc[p].ino] = p]
  BY DEF Flock, IInv, Opened, WithFile
<1> HIDE DEF r
<1>3. /\ proc' \in [Procs -> ProcRecord] /\ proc'[p] = r
      /\ \A q \in Procs : q # p => proc'[q] = proc[q]
  BY <1>1, <1>2, StepTo DEF IInv
<1>4. /\ proc[p].pc \notin Past /\ ~Owner(p) /\ r.pc \notin Past /\ r.pc \in WithFile
      /\ r.pc \notin {"sweep", "stopped"} /\ r.pc \notin Wrote
      /\ r.pc \in ServerSteps => r.pc = "clean"
  BY <1>1 DEF Past, Wrote, Owner, ServerSteps, WithFile
<1>5. TypeOK'
  BY <1>2, <1>3 DEF IInv, TypeOK
<1>6. Opened' /\ Named' /\ Written'
  BY <1>1, <1>2, <1>3, <1>4 DEF IInv, Opened, Named, Written
<1>7. Held'
  <2> SUFFICES ASSUME NEW q \in Procs, proc'[q].pc \in Holders
               PROVE  flock'[proc'[q].ino] = q
    BY DEF Held
  <2>1. CASE q = p
    BY <1>1, <1>2, <1>3, <2>1 DEF IInv, TypeOK
  <2>2. CASE q # p
    <3>1. proc[q].ino \in Inodes /\ flock[proc[q].ino] = q /\ proc'[q] = proc[q]
      BY <1>3, <2>2 DEF IInv, Held, Opened, Holders, WithFile
    <3>2. proc[q].ino # proc[p].ino
      BY <1>2, <3>1, ZeroIsNone
    <3> QED
      BY <1>2, <3>1, <3>2 DEF IInv, TypeOK
  <2> QED
    BY <2>1, <2>2
<1>8. Known'
  <2>1. /\ \A q \in Procs : proc[q].pc \in Past => proc'[q].pc \in Past
        /\ \A q \in Procs : proc'[q].target = proc[q].target
    BY <1>1, <1>3, <1>4
  <2> QED
    BY <1>2, <1>5, <2>1, KnownKept
<1>9. Chase'
  <2>1. \A t \in Procs : proc[t].pc \in Past =>
           (Released(t) => Released(t)') /\ proc'[t].ino = proc[t].ino
    BY <1>2, <1>3, <1>4 DEF Released, Owner
  <2>2. ASSUME Chases(r)
        PROVE  /\ r.target # 0 /\ Chases(proc[p]) /\ Probing(proc[p])
               /\ \A t \in Procs : t = r.target => Released(t)' \/ r.ino = proc'[t].ino
    <3>1. Probing(proc[p]) /\ Chases(proc[p])
      BY <1>1, <1>4, <2>2 DEF Chases, Probing
    <3>2. r.target # 0 /\ r.target \in Procs
      BY <1>1, <3>1 DEF IInv, Chase, ProcRecord
    <3>3. proc[r.target].pc \in Past
      BY <1>1, <3>2 DEF IInv, Known
    <3>4. Released(r.target) \/ r.ino = proc[r.target].ino
      BY <1>1, <3>1 DEF IInv, Chase
    <3> QED
      BY <2>1, <3>1, <3>2, <3>3, <3>4
  <2>3. ASSUME NEW q \in Procs, proc'[q] # proc[q]
        PROVE  /\ Chases(proc'[q]) => proc'[q].target # 0
               /\ \A t \in Procs : t = proc'[q].target =>
                     /\ Probing(proc'[q]) => Released(t)' \/ proc'[q].ino = proc'[t].ino
                     /\ proc'[q].pc \in {"sweep", "stopped"} => Done(t)'
    BY <1>3, <1>4, <2>2, <2>3 DEF Chases, Probing
  <2> QED
    BY <1>2, <1>5, <2>1, <2>3, ChaseKept
<1>10. PortIsOwn'
  BY <1>1, <1>2, <1>3, <1>4 DEF IInv, PortIsOwn, Owner
<1> QED
  BY <1>5, <1>6, <1>7, <1>8, <1>9, <1>10 DEF IInv

LEMMA ReleaseInv ==
    ASSUME IInv, NEW p \in Procs, ProbeRelease(p) \/ Unlock(p) PROVE IInv'
<1>1. PICK r \in ProcRecord :
         /\ Release(p, r) /\ r.ino \in Inodes \cup {0}
         /\ \/ proc[p].pc = "unprobe" /\ r = NotLocked(proc[p])
            \/ proc[p].pc = "unlock" /\ r = [proc[p] EXCEPT !.pc = "unlink"]
  <2>1. CASE ProbeRelease(p)
    <3>1. proc[p] \in ProcRecord
      BY DEF IInv, TypeOK
    <3>2. NotLocked(proc[p]) \in ProcRecord
      BY <3>1, GoneIsRecord DEF NotLocked, ProcRecord, Steps
    <3> QED
      BY <2>1, <3>2 DEF ProbeRelease, ProcRecord
  <2>2. CASE Unlock(p)
    <3>1. [proc[p] EXCEPT !.pc = "unlink"] \in ProcRecord
      BY DEF IInv, TypeOK, ProcRecord, Steps
    <3> QED
      BY <2>2, <3>1 DEF Unlock, ProcRecord
  <2> QED
    BY <2>1, <2>2
<1> DEFINE s == [r EXCEPT !.ino = 0]
<1>2. /\ s \in ProcRecord /\ s.pc = r.pc /\ s.ino = 0 /\ s.target = r.target /\ s.why = r.why
  BY <1>1 DEF ProcRecord
<1>3. Goto(p, s) /\ UNCHANGED <<name, pid, portFile, killed, lost>>
      /\ flock' = [i \in Inodes |-> IF flock[i] = p THEN 0 ELSE flock[i]]
  BY <1>1 DEF Release
<1> HIDE DEF s
<1>4. /\ proc' \in [Procs -> ProcRecord] /\ proc'[p] = s
      /\ \A q \in Procs : q # p => proc'[q] = proc[q]
  BY <1>2, <1>3, StepTo DEF IInv
<1>5. /\ r.pc \in {"portwait", "open", "gone", "sweep", "unlink"}
      /\ r.target # 0 => r.target = proc[p].target
      /\ Chases(r) => r.pc = "sweep"
      /\ r.pc = "sweep" => proc[p].pc = "unprobe" /\ proc[p].why = "poll" /\ r.target = proc[p].target
      /\ proc[p].pc \in Past => r.pc \in Past
  <2>1. CASE proc[p].pc = "unprobe" /\ r = NotLocked(proc[p])
    <3>1. proc[p] \in ProcRecord
      BY DEF IInv, TypeOK
    <3> QED
      BY <2>1, <3>1, GoneIsRecord DEF NotLocked, ProcRecord, Chases, Past, Wrote, ServerSteps,
                                      Gone, Fresh
  <2>2. CASE proc[p].pc = "unlock" /\ r = [proc[p] EXCEPT !.pc = "unlink"]
    <3>1. /\ r.pc = "unlink" /\ r.target = proc[p].target /\ r.why = proc[p].why
      BY <2>2 DEF IInv, TypeOK, ProcRecord
    <3> QED
      BY <3>1 DEF Chases, Past
  <2> QED
    BY <1>1, <2>1, <2>2
<1>6. TypeOK'
  BY <1>3, <1>4 DEF IInv, TypeOK
<1>7. s.pc \notin WithFile /\ s.pc \notin Holders /\ s.pc \notin Wrote /\ s.pc \notin ServerSteps
  BY <1>2, <1>5 DEF WithFile, Holders, Wrote, ServerSteps
<1>8. Opened' /\ Named' /\ Written'
  BY <1>2, <1>3, <1>4, <1>7 DEF IInv, Opened, Named, Written
<1>9. Held'
  <2> SUFFICES ASSUME NEW q \in Procs, q # p, proc[q].pc \in Holders
               PROVE  flock'[proc[q].ino] = q
    BY <1>4, <1>7 DEF Held
  <2>1. proc[q].ino \in Inodes /\ flock[proc[q].ino] = q
    BY DEF IInv, Opened, Held, Holders, WithFile
  <2> QED
    BY <1>3, <2>1
<1>10. Known'
  <2>1. /\ \A q \in Procs : proc[q].pc \in Past => proc'[q].pc \in Past
        /\ \A q \in Procs : proc'[q].target # 0 => proc'[q].target = proc[q].target
    BY <1>2, <1>4, <1>5
  <2> QED
    BY <1>3, <1>6, <2>1, KnownKept
<1>11. Chase'
  <2>1. \A t \in Procs : (Released(t) => Released(t)')
                         /\ (Released(t)' \/ proc'[t].ino = proc[t].ino)
    BY <1>3, <1>4, <1>7 DEF Released, Owner
  <2>2. ASSUME s.pc = "sweep"
        PROVE  s.target # 0 /\ \A t \in Procs : t = s.target => Released(t)'
    <3>1. Probing(proc[p]) /\ Chases(proc[p]) /\ s.target = proc[p].target
      BY <1>2, <1>5, <2>2 DEF Probing, Chases
    <3>2. ASSUME NEW t \in Procs, t = s.target, ~Released(t) PROVE FALSE
      <4>1. proc[p].ino = proc[t].ino
        BY <3>1, <3>2 DEF IInv, Chase
      <4>2. flock[proc[t].ino] = t /\ flock[proc[p].ino] = p
        BY <1>2, <1>5, <2>2, <3>2 DEF IInv, Held, Released, Owner, Holders
      <4> QED
        BY <1>2, <1>5, <2>2, <3>2, <4>1, <4>2 DEF Released, Owner, ServerSteps
    <3>3. s.target # 0
      BY <3>1 DEF IInv, Chase
    <3> QED
      BY <2>1, <3>2, <3>3
  <2>3. ASSUME NEW q \in Procs, proc'[q] # proc[q]
        PROVE  /\ Chases(proc'[q]) => proc'[q].target # 0
               /\ \A t \in Procs : t = proc'[q].target =>
                     /\ Probing(proc'[q]) => Released(t)' \/ proc'[q].ino = proc'[t].ino
                     /\ proc'[q].pc \in {"sweep", "stopped"} => Done(t)'
    <3>1. q = p /\ proc'[q] = s
      BY <1>4, <2>3
    <3>2. (Chases(s) => s.pc = "sweep") /\ ~Probing(s) /\ s.pc # "stopped"
      BY <1>2, <1>5 DEF Chases, Probing
    <3> QED
      BY <2>2, <3>1, <3>2 DEF Done
  <2> QED
    BY <1>3, <1>6, <2>1, <2>3, ChaseKept
<1>12. PortIsOwn'
  BY <1>3, <1>4, <1>7 DEF IInv, PortIsOwn, Owner
<1> QED
  BY <1>6, <1>8, <1>9, <1>10, <1>11, <1>12 DEF IInv

\* A process ends, of itself or by a signal.
LEMMA DiesInv == ASSUME IInv, NEW p \in Procs, Dies(p) PROVE IInv'
<1>1. /\ Goto(p, Gone) /\ killed' = killed \ {p} /\ UNCHANGED <<name, pid, portFile, lost>>
      /\ flock' = [i \in Inodes |-> IF flock[i] = p THEN 0 ELSE flock[i]]
  BY DEF Dies
<1>2. /\ proc' \in [Procs -> ProcRecord] /\ proc'[p] = Gone
      /\ \A x \in Procs : x # p => proc'[x] = proc[x]
  BY <1>1, StepTo, GoneIsRecord DEF IInv
<1>3. TypeOK'
  BY <1>1, <1>2 DEF IInv, TypeOK
<1>4. /\ Gone.pc \notin WithFile \cup Holders \cup Wrote \cup ServerSteps /\ Gone.pc \in Past
      /\ Gone.ino = 0 /\ Gone.target = 0 /\ ~Chases(Gone) /\ ~Probing(Gone)
      /\ Gone.pc \notin {"sweep", "stopped"}
  BY GoneIsRecord DEF WithFile, Holders, Wrote, ServerSteps, Past, Chases, Probing
<1>5. Opened' /\ Named' /\ Written'
  BY <1>1, <1>2, <1>4 DEF IInv, Opened, Named, Written
<1>6. Held'
  <2> SUFFICES ASSUME NEW x \in Procs, x # p, proc[x].pc \in Holders
               PROVE  flock'[proc[x].ino] = x
    BY <1>2, <1>4 DEF Held
  <2>1. proc[x].ino \in Inodes /\ flock[proc[x].ino] = x
    BY DEF IInv, Opened, Held, Holders, WithFile
  <2> QED
    BY <1>1, <2>1
<1>7. Known'
  <2>1. /\ \A x \in Procs : proc[x].pc \in Past => proc'[x].pc \in Past
        /\ \A x \in Procs : proc'[x].target # 0 => proc'[x].target = proc[x].target
    BY <1>2, <1>4
  <2> QED
    BY <1>1, <1>3, <2>1, KnownKept
<1>8. Chase'
  <2>1. \A t \in Procs : (Released(t) => Released(t)')
                         /\ (Released(t)' \/ proc'[t].ino = proc[t].ino)
    BY <1>1, <1>2, <1>4 DEF Released, Owner
  <2>2. Released(p)'
    BY <1>2, <1>4 DEF Released, Owner
  <2>3. \A x \in Procs : proc'[x] # proc[x] =>
            ~Chases(proc'[x]) /\ ~Probing(proc'[x]) /\ proc'[x].pc \notin {"sweep", "stopped"}
    BY <1>2, <1>4
  <2> QED
    BY <1>1, <1>3, <2>1, <2>2, <2>3, ChaseKept
<1>9. PortIsOwn'
  BY <1>1, <1>2, <1>4 DEF IInv, PortIsOwn, Owner
<1> QED
  BY <1>3, <1>5, <1>6, <1>7, <1>8, <1>9 DEF IInv
-----------------------------------------------------------------------------
(* A server writes its PID and its port, and removes the file. *)

\* Two processes that hold the lock, and did not lose the file, are one.
LEMMA OneHolder ==
    ASSUME IInv, NEW p \in Procs, NEW q \in Procs, proc[p].pc \in Holders,
           proc[q].pc \in Holders, p # q
    PROVE  /\ proc[p].ino \in Inodes /\ proc[q].ino \in Inodes /\ proc[p].ino # proc[q].ino
           /\ p \in lost \/ q \in lost
<1>1. /\ proc[p].ino \in Inodes /\ proc[q].ino \in Inodes
      /\ flock[proc[p].ino] = p /\ flock[proc[q].ino] = q
  BY DEF IInv, Opened, Held, Holders, WithFile
<1> QED
  BY <1>1, ZeroIsNone DEF IInv, Named

LEMMA WriteInv == ASSUME IInv, NEW p \in Procs, WritePID(p) \/ Publish(p) PROVE IInv'
<1> DEFINE next == IF WritePID(p) THEN "publish" ELSE "notify"
           r == [proc[p] EXCEPT !.pc = next]
<1>1. /\ proc[p].pc \in {"pid", "publish"} /\ Goto(p, r) /\ UNCHANGED <<name, flock, killed, lost>>
      /\ next \in Wrote /\ next \in ServerSteps
  BY DEF WritePID, Publish, Wrote, ServerSteps
<1>2. /\ r \in ProcRecord /\ r.pc = next /\ r.ino = proc[p].ino
      /\ r.target = proc[p].target /\ r.why = proc[p].why
  BY <1>1 DEF IInv, TypeOK, ProcRecord, Steps
<1>3. \/ proc[p].pc = "pid" /\ pid' = [pid EXCEPT ![proc[p].ino] = p] /\ UNCHANGED portFile
      \/ proc[p].pc = "publish" /\ portFile' = p /\ UNCHANGED pid
  BY DEF WritePID, Publish
<1> HIDE DEF r, next
<1>4. /\ proc' \in [Procs -> ProcRecord] /\ proc'[p] = r
      /\ \A q \in Procs : q # p => proc'[q] = proc[q]
  BY <1>1, <1>2, StepTo DEF IInv
<1>5. TypeOK'
  BY <1>1, <1>3, <1>4 DEF IInv, TypeOK
<1>6. /\ proc[p].pc \in Holders /\ r.pc \in Holders /\ r.pc \in WithFile /\ proc[p].pc \in WithFile
      /\ Owner(p) /\ r.pc \in Past /\ ~Chases(r) /\ ~Probing(r) /\ proc[p].pc # "clean"
      /\ proc[p].ino \in Inodes /\ r.pc \notin {"sweep", "stopped"}
  <2>1. /\ r.pc \in Wrote /\ proc[p].pc \in {"pid", "publish"}
    BY <1>1, <1>2
  <2>2. proc[p].pc \in WithFile
    BY <2>1 DEF WithFile, ServerSteps
  <2> QED
    BY <2>1, <2>2 DEF Holders, WithFile, Past, Owner, ServerSteps, Wrote, Chases, Probing,
                      IInv, Opened
<1>7. Opened' /\ Held' /\ Named'
  BY <1>1, <1>2, <1>4, <1>6 DEF IInv, Opened, Held, Named
<1>8. Written'
  <2> SUFFICES ASSUME NEW q \in Procs, proc'[q].pc \in Wrote PROVE pid'[proc'[q].ino] = q
    BY DEF Written
  <2>1. CASE q = p /\ proc[p].pc = "pid"
    BY <1>2, <1>3, <1>4, <1>6, <2>1 DEF IInv, TypeOK
  <2>2. CASE q = p /\ proc[p].pc = "publish"
    BY <1>2, <1>3, <1>4, <2>2 DEF IInv, Written, Wrote, ServerSteps
  <2>3. CASE q # p
    <3>1. proc'[q] = proc[q] /\ proc[q].pc \in Holders /\ pid[proc[q].ino] = q
      BY <1>4, <2>3 DEF IInv, Written, Wrote, Holders
    <3>2. proc[q].ino # proc[p].ino /\ proc[q].ino \in Inodes
      BY <1>6, <2>3, <3>1, OneHolder
    <3> QED
      BY <1>3, <3>1, <3>2 DEF IInv, TypeOK
  <2> QED
    BY <1>3, <2>1, <2>2, <2>3
<1>9. Known'
  <2>1. \A i \in Inodes : pid'[i] # 0 => pid'[i] = pid[i] \/ proc'[pid'[i]].pc \in Past
    BY <1>3, <1>4, <1>6 DEF IInv, TypeOK
  <2>2. portFile' # 0 => portFile' = portFile \/ proc'[portFile'].pc \in Past
    BY <1>3, <1>4, <1>6
  <2>3. /\ \A q \in Procs : proc[q].pc \in Past => proc'[q].pc \in Past
        /\ \A q \in Procs : proc'[q].target = proc[q].target
    BY <1>2, <1>4, <1>6
  <2> QED
    BY <1>5, <2>1, <2>2, <2>3, KnownKept
<1>10. Chase'
  <2>1. \A t \in Procs : (Released(t) => Released(t)') /\ proc'[t].ino = proc[t].ino
    BY <1>1, <1>2, <1>4, <1>6 DEF Released, Owner
  <2>2. \A q \in Procs : proc'[q] # proc[q] =>
            ~Chases(proc'[q]) /\ ~Probing(proc'[q]) /\ proc'[q].pc \notin {"sweep", "stopped"}
    BY <1>4, <1>6
  <2> QED
    BY <1>1, <1>5, <2>1, <2>2, ChaseKept
<1>11. PortIsOwn'
  <2> SUFFICES ASSUME NEW q \in Procs, proc'[q].pc \in ServerSteps, proc'[q].pc # "clean",
                      q \notin lost
               PROVE  portFile' \in {0, q} \cup lost
    BY <1>1 DEF PortIsOwn, Owner
  <2>1. CASE UNCHANGED portFile
    BY <1>1, <1>4, <1>6, <2>1 DEF IInv, PortIsOwn, Owner
  <2>2. CASE portFile' = p /\ q # p
    <3>1. proc[q].pc \in Holders
      BY <1>4, <2>2 DEF Holders
    <3> QED
      BY <1>6, <2>2, <3>1, OneHolder
  <2> QED
    BY <1>3, <2>1, <2>2
<1> QED
  BY <1>5, <1>7, <1>8, <1>9, <1>10, <1>11 DEF IInv

LEMMA UnlinkInv == ASSUME IInv, NEW p \in Procs, Unlink(p) PROVE IInv'
<1> DEFINE r == [proc[p] EXCEPT !.pc = "tidy"]
<1>1. /\ proc[p].pc = "unlink" /\ Goto(p, r) /\ UNCHANGED <<flock, pid, portFile, killed>>
      /\ name' = 0 /\ lost' = lost \cup {q \in Procs : proc[q].ino # 0 /\ proc[q].ino = name}
  BY DEF Unlink
<1>2. /\ r \in ProcRecord /\ r.pc = "tidy" /\ r.ino = proc[p].ino
      /\ r.target = proc[p].target /\ r.why = proc[p].why
  BY DEF IInv, TypeOK, ProcRecord, Steps
<1> HIDE DEF r
<1>3. /\ proc' \in [Procs -> ProcRecord] /\ proc'[p] = r
      /\ \A q \in Procs : q # p => proc'[q] = proc[q]
  BY <1>1, <1>2, StepTo DEF IInv
<1>4. {"tidy", "unlink"} \cap (WithFile \cup Holders \cup Wrote \cup ServerSteps) = {}
      /\ "tidy" \in Past /\ ~Chases(r) /\ ~Probing(r)
  BY <1>2 DEF WithFile, Holders, Wrote, ServerSteps, Past, Chases, Probing
<1>5. TypeOK'
  BY <1>1, <1>3 DEF IInv, TypeOK
<1>6. Opened' /\ Held' /\ Written'
  BY <1>1, <1>2, <1>3, <1>4 DEF IInv, Opened, Held, Written
<1>7. Named'
  BY <1>1, <1>2, <1>3 DEF IInv, Named
<1>8. Known'
  <2>1. /\ \A q \in Procs : proc[q].pc \in Past => proc'[q].pc \in Past
        /\ \A q \in Procs : proc'[q].target = proc[q].target
    BY <1>2, <1>3, <1>4
  <2> QED
    BY <1>1, <1>5, <2>1, KnownKept
<1>9. Chase'
  <2>1. \A t \in Procs : (Released(t) => Released(t)') /\ proc'[t].ino = proc[t].ino
    BY <1>1, <1>2, <1>3, <1>4 DEF Released, Owner
  <2>2. \A q \in Procs : proc'[q] # proc[q] =>
            ~Chases(proc'[q]) /\ ~Probing(proc'[q]) /\ proc'[q].pc \notin {"sweep", "stopped"}
    BY <1>2, <1>3, <1>4
  <2> QED
    BY <1>1, <1>5, <2>1, <2>2, ChaseKept
<1>10. PortIsOwn'
  BY <1>1, <1>2, <1>3, <1>4 DEF IInv, PortIsOwn, Owner
<1> QED
  BY <1>5, <1>6, <1>7, <1>8, <1>9, <1>10 DEF IInv

LEMMA ForkInv == ASSUME IInv, NEW p \in Procs, Fork(p) PROVE IInv'
<1>1. PICK q \in Procs :
         /\ proc[p].pc = "fork" /\ proc[q].pc = "idle"
         /\ proc' = [proc EXCEPT ![p].pc = "leave", ![q] = Fresh("open", Undaemoned(proc[p].cmd), proc[p].port)]
         /\ UNCHANGED <<name, flock, pid, portFile, killed, lost>>
  BY DEF Fork, rest
<1> DEFINE r == [proc[p] EXCEPT !.pc = "leave"]
           c == Fresh("open", Undaemoned(proc[p].cmd), proc[p].port)
<1>2. /\ r \in ProcRecord /\ r.pc = "leave" /\ r.ino = proc[p].ino /\ r.target = proc[p].target
      /\ c \in ProcRecord /\ c.pc = "open" /\ c.ino = 0 /\ c.target = 0 /\ c.why # "poll"
  <2>1. proc[p] \in ProcRecord
    BY DEF IInv, TypeOK
  <2>2. proc[p].port \in Ports /\ "open" \in Steps /\ Undaemoned(proc[p].cmd) \in Commands
    BY <2>1 DEF ProcRecord, Steps, Commands, Restarts, Daemons, Undaemoned
  <2>3. c \in ProcRecord
    BY <2>2, FreshIsRecord
  <2>4. r \in ProcRecord
    BY <2>1 DEF ProcRecord, Steps, ServerSteps
  <2> QED
    BY <2>1, <2>3, <2>4 DEF Fresh, ProcRecord
<1>3. proc \in [Procs -> ProcRecord] /\ p # q
  BY <1>1 DEF IInv, TypeOK
<1>4. proc' = [[proc EXCEPT ![p] = r] EXCEPT ![q] = c]
  BY <1>1, <1>3
<1> HIDE DEF r, c
<1>5. /\ proc' \in [Procs -> ProcRecord]
      /\ \A x \in Procs : \/ x = p /\ proc'[x] = r
                          \/ x = q /\ proc'[x] = c
                          \/ x \notin {p, q} /\ proc'[x] = proc[x]
  BY <1>2, <1>3, <1>4
<1>6. TypeOK'
  BY <1>1, <1>5 DEF IInv, TypeOK
<1>7. /\ {"leave", "fork"} \subseteq WithFile \cap Holders \cap Wrote \cap ServerSteps \cap Past
      /\ {"open", "idle"} \cap (WithFile \cup Holders \cup Wrote \cup ServerSteps \cup Past) = {}
  BY DEF WithFile, Holders, Wrote, ServerSteps, Past
<1>8. Opened' /\ Held' /\ Written'
  BY <1>1, <1>2, <1>5, <1>7 DEF IInv, Opened, Held, Written
<1>9. Named'
  BY <1>1, <1>2, <1>5 DEF IInv, Named
<1>10. Known'
  <2>1. /\ \A x \in Procs : proc[x].pc \in Past => proc'[x].pc \in Past
        /\ \A x \in Procs : proc'[x].target # 0 => proc'[x].target = proc[x].target
    BY <1>1, <1>2, <1>5, <1>7
  <2> QED
    BY <1>1, <1>6, <2>1, KnownKept
<1>11. Chase'
  <2>1. \A t \in Procs : (Released(t) => Released(t)')
                         /\ (Released(t)' \/ proc'[t].ino = proc[t].ino)
    BY <1>1, <1>2, <1>5, <1>7 DEF Released, Owner
  <2>2. \A x \in Procs : proc'[x] # proc[x] =>
            ~Chases(proc'[x]) /\ ~Probing(proc'[x]) /\ proc'[x].pc \notin {"sweep", "stopped"}
    BY <1>2, <1>5 DEF Chases, Probing
  <2> QED
    BY <1>1, <1>6, <2>1, <2>2, ChaseKept
<1>12. PortIsOwn'
  BY <1>1, <1>2, <1>5, <1>7 DEF IInv, PortIsOwn, Owner
<1> QED
  BY <1>6, <1>8, <1>9, <1>10, <1>11, <1>12 DEF IInv
-----------------------------------------------------------------------------
(* The other steps. *)

\* A command that ends, of itself or refused.
LEMMA GoneFits == ASSUME NEW p \in Procs PROVE Fits(p, Gone)
BY GoneIsRecord, ZeroIsNone
   DEF Fits, WithFile, Holders, Wrote, Past, ServerSteps, Chases, Probing

Moves == {<<"sweep", "stopped">>, <<"clean", "pid">>, <<"notify", "fork">>, <<"notify", "bind">>,
          <<"bind", "serving">>, <<"bind", "unlock">>, <<"serving", "unlock">>,
          <<"tidy", "gone">>, <<"portwait", "tryopen">>}

LEMMA MoveInv ==
    ASSUME IInv, NEW p \in Procs, NEW next, <<proc[p].pc, next>> \in Moves,
           Goto(p, [proc[p] EXCEPT !.pc = next]), UNCHANGED <<name, flock, pid, killed, lost>>,
           portFile' = 0 \/ (portFile' = portFile /\ proc[p].pc # "clean")
    PROVE  IInv'
<1> DEFINE r == [proc[p] EXCEPT !.pc = next]
<1>1. next \in Steps
  BY DEF Moves, Steps, ServerSteps
<1>2. /\ r \in ProcRecord /\ r.pc = next /\ r.ino = proc[p].ino
      /\ r.target = proc[p].target /\ r.why = proc[p].why
  BY <1>1 DEF IInv, TypeOK, ProcRecord
<1> HIDE DEF r
<1>3. /\ next \in WithFile <=> proc[p].pc \in WithFile
      /\ next \in Holders => proc[p].pc \in Holders
      /\ next \in Wrote => proc[p].pc \in Wrote
      /\ next \in ServerSteps => proc[p].pc \in ServerSteps
      /\ proc[p].pc \in Past => next \in Past
      /\ next \in {"sweep", "stopped"} => proc[p].pc = "sweep"
      /\ next \notin {"term", "kill", "open", "probe", "unprobe", "sweep"}
  BY DEF Moves, WithFile, Holders, Wrote, ServerSteps, Past
<1>4. Fits(p, r)
  <2>1. IF r.pc \in WithFile THEN proc[p].pc \in WithFile /\ r.ino = proc[p].ino ELSE r.ino = 0
    BY <1>2, <1>3 DEF IInv, Opened
  <2>2. r.target # 0 => proc[r.target].pc \in Past
    BY <1>2 DEF IInv, Known
  <2>3. (Chases(r) => r.pc = "stopped") /\ ~Probing(r)
    BY <1>2, <1>3 DEF Chases, Probing
  <2>4. r.pc \in {"sweep", "stopped"} => r.target # 0 /\ Done(r.target)
    BY <1>2, <1>3 DEF IInv, Chase, Chases
  <2> QED
    BY <1>2, <1>3, <2>1, <2>2, <2>3, <2>4 DEF Fits, Done
<1> QED
  BY <1>2, <1>4, ControlInv DEF r, IInv, TypeOK

LEMMA ServerInv ==
    ASSUME IInv, NEW p \in Procs,
           PortWait(p) \/ Clean(p) \/ Notify(p) \/ Bind(p) \/ Shutdown(p) \/ Sweep(p) \/ Tidy(p)
    PROVE  IInv'
<1>1. CASE PortWait(p)
  <2>1. proc[p].pc = "portwait" /\ UNCHANGED <<name, flock, pid, killed, lost, portFile>>
    BY <1>1 DEF PortWait, rest
  <2>2. CASE PortTaken(proc[p].port)
    BY <1>1, <2>1, <2>2, GoneIsRecord, GoneFits, ControlInv DEF PortWait, IInv, TypeOK
  <2>3. CASE ~PortTaken(proc[p].port)
    BY <1>1, <2>1, <2>3, MoveInv DEF PortWait, Moves
  <2> QED
    BY <2>2, <2>3
<1>2. CASE Clean(p) \/ Sweep(p) \/ Tidy(p)
  <2>1. PICK next \in {"pid", "stopped", "gone"} :
           <<proc[p].pc, next>> \in Moves /\ RemoveRuntimeFiles(p, next)
    BY <1>2 DEF Clean, Sweep, Tidy, Moves
  <2> QED
    BY <2>1, MoveInv DEF RemoveRuntimeFiles
<1>3. CASE Notify(p) \/ Bind(p) \/ Shutdown(p)
  <2>1. PICK next \in {"fork", "bind", "serving", "unlock"} :
           /\ <<proc[p].pc, next>> \in Moves /\ proc[p].pc # "clean"
           /\ Goto(p, [proc[p] EXCEPT !.pc = next])
           /\ UNCHANGED <<name, flock, pid, killed, lost, portFile>>
    BY <1>3 DEF Notify, Bind, Shutdown, Moves, rest
  <2> QED
    BY <2>1, MoveInv
<1> QED
  BY <1>1, <1>2, <1>3

\* Launch, and the steps of a stop and a restart that end no other process.
LEMMA CommandInv ==
    ASSUME IInv, NEW p \in Procs, Launch(p) \/ GetPID(p) \/ Again(p) PROVE IInv'
<1>1. UNCHANGED <<name, flock, pid, killed, lost, portFile>> /\ proc[p].pc \in {"idle", "getpid", "stopped"}
  BY DEF Launch, GetPID, Again, rest
<1>2. /\ {"idle", "getpid", "stopped", "open", "term"} \cap (WithFile \cup Holders \cup Wrote \cup Past) = {}
      /\ proc[p].ino = 0 /\ proc[p] \in ProcRecord
  BY <1>1 DEF WithFile, Holders, Wrote, Past, ServerSteps, IInv, TypeOK, Opened
<1>3. PICK r \in ProcRecord :
         /\ Goto(p, r) /\ Fits(p, r)
  <2>1. CASE Launch(p)
    <3>1. PICK cmd \in Commands, port \in Ports : Goto(p, Fresh("open", cmd, port))
      BY <2>1 DEF Launch
    <3> DEFINE r == Fresh("open", cmd, port)
    <3>2. r \in ProcRecord
      BY FreshIsRecord DEF Steps
    <3>3. /\ r.pc = "open" /\ r.ino = 0 /\ r.target = 0 /\ r.why # "poll"
      BY DEF Fresh
    <3> HIDE DEF r
    <3>4. Fits(p, r)
      BY <1>1, <1>2, <3>3 DEF Fits, Chases, Probing, ServerSteps
    <3> QED
      BY <3>1, <3>2, <3>4 DEF r
  <2>2. CASE GetPID(p) /\ (name = 0 \/ pid[name] = 0)
    BY <2>2, GoneIsRecord, GoneFits DEF GetPID
  <2>3. CASE GetPID(p) /\ ~(name = 0 \/ pid[name] = 0)
    <3> DEFINE r == [proc[p] EXCEPT !.pc = "term", !.target = pid[name]]
    <3>1. name \in Inodes /\ pid[name] \in Procs
      BY <2>3 DEF IInv, TypeOK
    <3>2. /\ r \in ProcRecord /\ r.pc = "term" /\ r.ino = 0 /\ r.target = pid[name]
      BY <1>2, <3>1 DEF ProcRecord, Steps
    <3> HIDE DEF r
    <3>3. proc[r.target].pc \in Past /\ r.target # 0
      BY <2>3, <3>1, <3>2 DEF IInv, Known
    <3>4. Fits(p, r)
      BY <1>1, <1>2, <3>2, <3>3 DEF Fits, Chases, Probing, ServerSteps
    <3> QED
      BY <2>3, <3>2, <3>4 DEF GetPID, r
  <2>4. CASE Again(p)
    <3> DEFINE r == [proc[p] EXCEPT !.pc = "open", !.why = "start", !.target = 0, !.polls = 0]
    <3>1. 0 \in 0..MaxPolls
      BY InstanceAssumption
    <3>2. /\ r \in ProcRecord /\ r.pc = "open" /\ r.ino = 0 /\ r.target = 0 /\ r.why = "start"
      BY <1>2, <3>1 DEF ProcRecord, Steps
    <3> HIDE DEF r
    <3>3. Fits(p, r)
      BY <1>1, <1>2, <3>2 DEF Fits, Chases, Probing, ServerSteps
    <3> QED
      BY <2>4, <3>2, <3>3 DEF Again, r
  <2> QED
    BY <2>1, <2>2, <2>3, <2>4
<1> QED
  BY <1>1, <1>3, ControlInv DEF IInv, TypeOK

LEMMA TerminateInv == ASSUME IInv, NEW p \in Procs, Terminate(p) \/ Kill(p) PROVE IInv'
<1> DEFINE q == proc[p].target
           waiting == [proc[p] EXCEPT !.pc = "open", !.why = "poll", !.polls = 0]
           sweeping == [proc[p] EXCEPT !.pc = "sweep"]
<1>1. proc[p].pc \in {"term", "kill"} /\ proc[p] \in ProcRecord
  BY DEF Terminate, Kill, IInv, TypeOK
<1>2. q \in Procs /\ proc[q].pc \in Past
  BY <1>1 DEF IInv, Chase, Chases, Known, ProcRecord
<1>3. /\ {"term", "kill", "open", "sweep"} \cap (WithFile \cup Holders \cup Wrote \cup Past \cup ServerSteps) = {}
      /\ proc[p].ino = 0
  BY <1>1 DEF WithFile, Holders, Wrote, Past, ServerSteps, IInv, Opened
<1>4. 0 \in 0..MaxPolls
  BY InstanceAssumption
<1>5. /\ waiting \in ProcRecord /\ waiting.pc = "open" /\ waiting.ino = 0 /\ waiting.target = q
      /\ sweeping \in ProcRecord /\ sweeping.pc = "sweep" /\ sweeping.ino = 0 /\ sweeping.target = q
  BY <1>1, <1>3, <1>4 DEF ProcRecord, Steps
<1> HIDE DEF waiting, sweeping
<1>6. CASE Goto(p, Gone) /\ UNCHANGED rest
  BY <1>1, <1>6, GoneIsRecord, GoneFits, ControlInv DEF rest, IInv, TypeOK
<1>7. CASE Goto(p, waiting) /\ UNCHANGED rest
  <2>1. Fits(p, waiting)
    BY <1>2, <1>3, <1>1, <1>5, ZeroIsNone DEF Fits, Chases, Probing
  <2> QED
    BY <1>1, <1>5, <1>7, <2>1, ControlInv DEF rest, IInv, TypeOK
<1>8. CASE Goto(p, waiting) /\ Signal(q)
  <2>1. Fits(p, waiting)
    BY <1>2, <1>3, <1>1, <1>5, ZeroIsNone DEF Fits, Chases, Probing
  <2>2. killed \subseteq killed' /\ killed' \subseteq Procs
    BY <1>2, <1>8 DEF Signal, IInv, TypeOK
  <2> QED
    BY <1>1, <1>5, <1>8, <2>1, <2>2, ControlInv DEF Signal
<1>9. CASE Goto(p, sweeping) /\ Signal(q)
  <2>1. q \in killed' /\ killed \subseteq killed' /\ killed' \subseteq Procs
    BY <1>2, <1>9 DEF Signal, IInv, TypeOK
  <2>2. Fits(p, sweeping)
    BY <1>2, <1>3, <1>1, <1>5, <2>1, ZeroIsNone DEF Fits, Chases, Probing
  <2> QED
    BY <1>1, <1>5, <1>9, <2>1, <2>2, ControlInv DEF Signal
<1> QED
  BY <1>6, <1>7, <1>8, <1>9 DEF Terminate, Kill, waiting, sweeping

LEMMA LockInv == ASSUME IInv, NEW p \in Procs, ProbeLock(p) \/ TryLock(p) PROVE IInv'
<1>1. CASE ProbeLock(p) /\ Flock(p, "unprobe")
  BY <1>1, FlockInv DEF ProbeLock
<1>2. CASE TryLock(p) /\ Flock(p, "clean")
  BY <1>2, FlockInv DEF TryLock
<1>3. CASE TryLock(p) /\ Refused(p, Gone)
  <2>1. [Gone EXCEPT !.ino = 0] = Gone
    BY GoneIsRecord DEF ProcRecord
  <2> QED
    BY <1>3, <2>1, GoneIsRecord, GoneFits, ControlInv DEF TryLock, Refused, rest, IInv, TypeOK
<1>4. CASE ProbeLock(p) /\ Refused(p, Locked(proc[p]))
  <2>1. proc[p].pc = "probe" /\ proc[p] \in ProcRecord
    BY <1>4 DEF ProbeLock, IInv, TypeOK
  <2> DEFINE m == Locked(proc[p])
  <2>2. /\ m \in ProcRecord /\ m.pc \in {"gone", "getpid", "open", "kill"}
        /\ m.target # 0 => m.target = proc[p].target
        /\ Chases(m) => Chases(proc[p]) /\ m.target = proc[p].target
    <3>1. CASE proc[p].why = "start"
      <4>1. m = Gone
        BY <3>1 DEF Locked
      <4>2. Gone.why # "poll"
        BY DEF Gone, Fresh
      <4> QED
        BY <4>1, <4>2, GoneIsRecord DEF Chases
    <3>2. CASE proc[p].why = "stop"
      <4>1. m = [proc[p] EXCEPT !.pc = "getpid"]
        BY <3>2 DEF Locked
      <4>2. m \in ProcRecord /\ m.pc = "getpid" /\ m.target = proc[p].target
        BY <2>1, <4>1 DEF ProcRecord, Steps
      <4> QED
        BY <4>2 DEF Chases
    <3>3. CASE proc[p].why = "poll" /\ proc[p].polls < MaxPolls
      <4>1. proc[p].polls + 1 \in 0..MaxPolls
        BY <2>1, <3>3, InstanceAssumption DEF ProcRecord
      <4>2. m = [proc[p] EXCEPT !.pc = "open", !.polls = proc[p].polls + 1]
        BY <3>3 DEF Locked
      <4>3. m \in ProcRecord /\ m.pc = "open" /\ m.target = proc[p].target
        BY <2>1, <4>1, <4>2 DEF ProcRecord, Steps
      <4> QED
        BY <2>1, <3>3, <4>3 DEF Chases
    <3>4. CASE proc[p].why = "poll" /\ ~(proc[p].polls < MaxPolls)
      <4>1. m = [proc[p] EXCEPT !.pc = "kill"]
        BY <3>4 DEF Locked
      <4>2. m \in ProcRecord /\ m.pc = "kill" /\ m.target = proc[p].target
        BY <2>1, <4>1 DEF ProcRecord, Steps
      <4> QED
        BY <2>1, <3>4, <4>2 DEF Chases
    <3> QED
      BY <2>1, <3>1, <3>2, <3>3, <3>4 DEF ProcRecord
  <2> DEFINE r == [m EXCEPT !.ino = 0]
  <2>3. r \in ProcRecord /\ r.pc = m.pc /\ r.ino = 0 /\ r.target = m.target /\ r.why = m.why
    BY <2>2 DEF ProcRecord
  <2>4. Goto(p, r) /\ UNCHANGED rest
    BY <1>4 DEF Refused
  <2> HIDE DEF r, m
  <2>5. /\ {"gone", "getpid", "open", "kill"} \cap (WithFile \cup Holders \cup Wrote \cup ServerSteps) = {}
        /\ "probe" \notin Past
    BY DEF WithFile, Holders, Wrote, ServerSteps, Past
  <2>6. Fits(p, r)
    <3>1. Chases(r) => r.target # 0
      BY <2>2, <2>3 DEF Chases, IInv, Chase
    <3>2. r.target # 0 => proc[r.target].pc \in Past
      BY <2>2, <2>3 DEF IInv, Known
    <3>3. ~Probing(r) /\ r.pc \notin {"sweep", "stopped"}
      BY <2>2, <2>3 DEF Probing
    <3> QED
      BY <2>1, <2>2, <2>3, <2>5, <3>1, <3>2, <3>3 DEF Fits
  <2> QED
    BY <2>1, <2>3, <2>4, <2>6, ControlInv DEF rest, IInv, TypeOK
<1> QED
  BY <1>1, <1>2, <1>3, <1>4 DEF ProbeLock, TryLock

LEMMA NextInv == IInv /\ [Next]_vars => IInv'
<1> SUFFICES ASSUME IInv, [Next]_vars PROVE IInv'
  OBVIOUS
<1>1. ASSUME NEW p \in Procs, Probe(p) PROVE IInv'
  BY <1>1, OpenInv, LockInv, ReleaseInv DEF Probe
<1>2. ASSUME NEW p \in Procs, Stopper(p) PROVE IInv'
  BY <1>2, CommandInv, TerminateInv, ServerInv DEF Stopper
<1>3. ASSUME NEW p \in Procs, Leave(p) \/ Crash(p) PROVE IInv'
  BY <1>3, DiesInv DEF Leave, Crash
<1>4. ASSUME NEW p \in Procs, Starter(p) PROVE IInv'
  BY <1>3, <1>4, ServerInv, OpenInv, LockInv, WriteInv, ForkInv DEF Starter
<1>5. ASSUME NEW p \in Procs, Ender(p) PROVE IInv'
  BY <1>5, ServerInv, ReleaseInv, UnlinkInv DEF Ender
<1>6. ASSUME NEW p \in Procs, Launch(p) PROVE IInv'
  BY <1>6, CommandInv
<1>7. CASE UNCHANGED vars
  <2>1. UNCHANGED <<name, flock, pid, portFile, proc, killed, lost>>
    BY <1>7 DEF vars
  <2> QED
    BY <2>1 DEF IInv, TypeOK, Opened, Held, Named, Written, Known, Chase, PortIsOwn, Done, Released, Owner
<1> QED
  BY <1>1, <1>2, <1>3, <1>4, <1>5, <1>6, <1>7 DEF Next, Works
-----------------------------------------------------------------------------
\* Every reachable state satisfies the inductive invariant.
THEOREM Inductive == Spec => []IInv
BY InitInv, NextInv, PTL DEF Spec

\* The variables of Instance keep their types.
THEOREM TypeCorrect == Spec => []TypeOK
<1>1. IInv => TypeOK
  BY DEF IInv
<1> QED
  BY <1>1, Inductive, PTL

\* TryLock lets one process in at a time, but for the Unlock that removes the
\* file another process has opened meanwhile.
THEOREM LockExcludes == Spec => []OneServer
<1>1. IInv => OneServer
  BY OneHolder DEF OneServer, Owner, Holders
<1> QED
  BY <1>1, Inductive, PTL

\* IsLocked and GetPID name the server that listens.
THEOREM ServersAreFound == Spec => []StopFindsServer
<1>1. IInv => StopFindsServer
  <2> SUFFICES ASSUME IInv, NEW p \in Procs, Listening(p), p \notin lost
               PROVE  name # 0 /\ flock[name] = p /\ pid[name] = p
    BY DEF StopFindsServer
  <2>1. proc[p].pc \in WithFile /\ proc[p].pc \in Holders /\ proc[p].pc \in Wrote
    BY DEF Listening, WithFile, Holders, Wrote, ServerSteps
  <2>2. proc[p].ino # 0
    BY <2>1, ZeroIsNone DEF IInv, Opened
  <2> QED
    BY <2>1, <2>2 DEF IInv, Held, Named, Written
<1> QED
  BY <1>1, Inductive, PTL

\* When a stop reports success, or a restart goes on to start, the server it
\* signalled has closed its listener and released the lock, or will do nothing
\* but end, of SIGKILL or of a SIGTERM that it does not catch yet.
StopIsHonest ==
    \A p \in Procs : proc[p].pc = "stopped" =>
        LET q == proc[p].target IN ~Owner(q) \/ q \in lost \/ q \in killed

\* A stop that succeeds has stopped the server it signalled, or left it to the
\* kernel to end.
THEOREM StopsAreHonest == Spec => []StopIsHonest
<1>1. IInv => StopIsHonest
  BY DEF IInv, Chase, Done, Released, StopIsHonest
<1> QED
  BY <1>1, Inductive, PTL

\* A server does not advertise the port of another.
THEOREM PortsAreOwn == Spec => []PortIsOwn
<1>1. IInv => PortIsOwn
  BY DEF IInv
<1> QED
  BY <1>1, Inductive, PTL
-----------------------------------------------------------------------------
(* Instance implements SingleServer. *)

KeepsPromise == [Promise!Next]_(Promise!vars)

\* A process that is a server no more, and will not be one.
Ended == {"unlink", "tidy", "gone"}

\* What SingleServer knows of the process x is as before, but for its file.
Alike(x) ==
    /\ proc'[x].pc \in ServerSteps <=> proc[x].pc \in ServerSteps
    /\ proc'[x].pc \in Ended <=> proc[x].pc \in Ended
    /\ proc'[x].pc = "stopped" <=> proc[x].pc = "stopped"
    /\ proc[x].pc = "stopped" => proc'[x].target = proc[x].target

LEMMA EndedAreNot == Ended \cap ServerSteps = {} /\ "stopped" \notin Ended \cup ServerSteps
BY DEF Ended, ServerSteps

LEMMA Classes ==
    /\ Server = {x \in Procs : proc[x].pc \in ServerSteps /\ x \notin lost}
    /\ Strays = {x \in Procs : proc[x].pc \in ServerSteps /\ x \in lost}
    /\ Others = {x \in Procs : proc[x].pc \notin ServerSteps /\ proc[x].pc \notin Ended}
BY DEF Server, Strays, Others, Owner, Ended

LEMMA ClassesNext ==
    /\ Server' = {x \in Procs : proc'[x].pc \in ServerSteps /\ x \notin lost'}
    /\ Strays' = {x \in Procs : proc'[x].pc \in ServerSteps /\ x \in lost'}
    /\ Others' = {x \in Procs : proc'[x].pc \notin ServerSteps /\ proc'[x].pc \notin Ended}
BY DEF Server, Strays, Others, Owner, Ended

LEMMA StoppedKept ==
    ASSUME \A x \in Procs : Alike(x)
    PROVE  Stopped' = Stopped
BY DEF Alike, Stopped

\* Of a stop that is none any more only its own entry goes.
LEMMA StoppedDropped ==
    ASSUME NEW p \in Procs, proc'[p].pc # "stopped", \A x \in Procs : x # p => Alike(x)
    PROVE  Stopped' = {d \in Stopped : d[1] # p}
<1>1. ASSUME NEW d \in Stopped' PROVE d \in Stopped /\ d[1] # p
  <2>1. PICK x \in Procs : d = <<x, proc'[x].target>> /\ proc'[x].pc = "stopped"
    BY <1>1 DEF Stopped
  <2>2. x # p /\ proc[x].pc = "stopped" /\ proc'[x].target = proc[x].target
    BY <2>1 DEF Alike
  <2> QED
    BY <2>1, <2>2 DEF Stopped
<1>2. ASSUME NEW d \in Stopped, d[1] # p PROVE d \in Stopped'
  <2>1. PICK x \in Procs : d = <<x, proc[x].target>> /\ proc[x].pc = "stopped"
    BY DEF Stopped
  <2>2. x # p /\ proc'[x].pc = "stopped" /\ proc'[x].target = proc[x].target
    BY <1>2, <2>1 DEF Alike
  <2> QED
    BY <2>1, <2>2 DEF Stopped
<1> QED
  BY <1>1, <1>2

\* A step that no process is seen to take.
LEMMA UnseenKept ==
    ASSUME \A x \in Procs : Alike(x), killed' = killed,
           \A x \in Procs : proc[x].pc \in ServerSteps => (x \in lost' <=> x \in lost)
    PROVE  KeepsPromise
<1>1. Server' = Server /\ Strays' = Strays /\ Others' = Others
  BY Classes, ClassesNext DEF Alike
<1> QED
  BY <1>1, StoppedKept DEF KeepsPromise, Promise!vars

LEMMA LeaveKept ==
    ASSUME NEW p \in Procs, proc'[p].pc \in Ended, lost' = lost, killed' = killed \ {p},
           \A x \in Procs : x # p => Alike(x)
    PROVE  KeepsPromise
<1>1. /\ Server' = Server \ {p} /\ Strays' = Strays \ {p} /\ Others' = Others \ {p}
  BY Classes, ClassesNext, EndedAreNot DEF Alike
<1>2. Stopped' = {d \in Stopped : d[1] # p}
  BY EndedAreNot, StoppedDropped
<1> QED
  BY <1>1, <1>2 DEF KeepsPromise, Promise!Next, Promise!Leave

\* A step of p alone that loses no file is unseen, or p ends.
LEMMA StepKept ==
    ASSUME IInv, NEW p \in Procs, p \notin killed, NEW r, Goto(p, r), lost' = lost,
           killed' = killed,
           \/ r.pc \in Ended
           \/ /\ r.pc \notin ServerSteps \cup {"stopped"}
              /\ proc[p].pc \notin ServerSteps \cup Ended \cup {"stopped"}
           \/ r.pc \in ServerSteps /\ proc[p].pc \in ServerSteps
    PROVE  KeepsPromise
<1>1. proc'[p] = r /\ \A x \in Procs : x # p => proc'[x] = proc[x]
  BY DEF IInv, TypeOK, Goto
<1>2. \A x \in Procs : x # p => Alike(x)
  BY <1>1 DEF Alike
<1>3. CASE r.pc \in Ended
  BY <1>1, <1>2, <1>3, LeaveKept
<1>4. CASE r.pc \notin Ended
  <2>1. Alike(p)
    BY <1>1, <1>4, EndedAreNot DEF Alike
  <2> QED
    BY <1>2, <2>1, UnseenKept
<1> QED
  BY <1>3, <1>4

LEMMA DiesKept == ASSUME IInv, NEW p \in Procs, Dies(p) PROVE KeepsPromise
<1>1. /\ proc'[p] = Gone /\ lost' = lost /\ killed' = killed \ {p}
      /\ \A x \in Procs : x # p => proc'[x] = proc[x]
  BY DEF Dies, Goto, IInv, TypeOK
<1>2. \A x \in Procs : x # p => Alike(x)
  BY <1>1 DEF Alike
<1> QED
  BY <1>1, <1>2, GoneIsRecord, LeaveKept DEF Ended

\* The one who gets the lock is the server, or one that nobody can see.
LEMMA TakeKept ==
    ASSUME IInv, NEW p \in Procs, p \notin killed, TryLock(p), Flock(p, "clean") PROVE KeepsPromise
<1>1. /\ proc[p].pc = "trylock" /\ lost' = lost /\ killed' = killed /\ name' = name
      /\ proc[p].ino \in Inodes /\ flock[proc[p].ino] = 0
  BY DEF TryLock, Flock, IInv, Opened, WithFile
<1>2. /\ proc'[p].pc = "clean" /\ \A x \in Procs : x # p => proc'[x] = proc[x]
  BY DEF Flock, Goto, IInv, TypeOK
<1>3. /\ {"trylock", "clean"} \cap (Ended \cup {"stopped"}) = {}
      /\ "trylock" \notin ServerSteps /\ "clean" \in ServerSteps
  BY DEF Ended, ServerSteps
<1>4. Stopped' = Stopped
  <2>1. Stopped' = {d \in Stopped : d[1] # p}
    BY <1>2, StoppedDropped DEF Alike
  <2>2. \A d \in Stopped : d[1] # p
    BY <1>1 DEF Stopped
  <2> QED
    BY <2>1, <2>2
<1>5. Others' = Others \ {p} /\ p \in Others
  BY <1>1, <1>2, <1>3, Classes, ClassesNext
<1>6. CASE p \in lost
  <2>1. Server' = Server /\ Strays' = Strays \cup {p}
    BY <1>1, <1>2, <1>3, <1>6, Classes, ClassesNext
  <2> QED
    BY <1>1, <1>4, <1>5, <2>1 DEF KeepsPromise, Promise!Next, Promise!TakeUnseen
<1>7. CASE p \notin lost
  <2>1. Server = {}
    <3> SUFFICES ASSUME NEW x \in Server PROVE FALSE
      OBVIOUS
    <3>1. x \in Procs /\ proc[x].pc \in ServerSteps /\ x \notin lost
      BY Classes
    <3>2. proc[x].ino \in Inodes /\ flock[proc[x].ino] = x
      BY <3>1 DEF IInv, Opened, Held, WithFile, Holders
    <3>3. proc[x].ino = proc[p].ino
      BY <1>1, <1>7, <3>1, <3>2, ZeroIsNone DEF IInv, Named
    <3> QED
      BY <1>1, <3>1, <3>2, <3>3, ZeroIsNone
  <2>2. Server' = {p} /\ Strays' = Strays
    BY <1>1, <1>2, <1>3, <1>7, <2>1, Classes, ClassesNext
  <2> QED
    BY <1>1, <1>4, <1>5, <2>1, <2>2 DEF KeepsPromise, Promise!Next, Promise!Take
<1> QED
  BY <1>6, <1>7

LEMMA LockKept == ASSUME IInv, NEW p \in Procs, p \notin killed, ProbeLock(p) \/ TryLock(p) PROVE KeepsPromise
<1>1. CASE TryLock(p) /\ Flock(p, "clean")
  BY <1>1, TakeKept
<1>2. CASE TryLock(p) /\ Refused(p, Gone)
  <2>1. [Gone EXCEPT !.ino = 0].pc = "gone"
    BY GoneIsRecord DEF ProcRecord
  <2> QED
    BY <1>2, <2>1, StepKept DEF Refused, rest, Ended
<1>3. CASE ProbeLock(p) /\ Flock(p, "unprobe")
  <2> DEFINE r == [proc[p] EXCEPT !.pc = "unprobe"]
  <2>1. r.pc = "unprobe" /\ proc[p].pc = "probe"
    BY <1>3 DEF ProbeLock, IInv, TypeOK, ProcRecord
  <2>2. Goto(p, r) /\ lost' = lost /\ killed' = killed
    BY <1>3 DEF Flock
  <2> HIDE DEF r
  <2> QED
    BY <2>1, <2>2, StepKept DEF ServerSteps, Ended
<1>4. CASE ProbeLock(p) /\ Refused(p, Locked(proc[p]))
  <2> DEFINE r == [Locked(proc[p]) EXCEPT !.ino = 0]
  <2>1. proc[p].pc = "probe" /\ proc[p] \in ProcRecord
    BY <1>4 DEF ProbeLock, IInv, TypeOK
  <2>2. r.pc \in {"gone", "getpid", "open", "kill"}
    <3>1. CASE proc[p].why = "start"
      <4>1. Locked(proc[p]) = Gone
        BY <3>1 DEF Locked
      <4> QED
        BY <4>1, GoneIsRecord DEF ProcRecord
    <3>2. CASE proc[p].why \in {"stop", "poll"}
      BY <2>1, <3>2 DEF Locked, ProcRecord
    <3> QED
      BY <2>1, <3>1, <3>2 DEF ProcRecord
  <2>3. Goto(p, r) /\ lost' = lost /\ killed' = killed
    BY <1>4 DEF Refused, rest
  <2> HIDE DEF r
  <2> QED
    BY <2>1, <2>2, <2>3, StepKept DEF ServerSteps, Ended
<1> QED
  BY <1>1, <1>2, <1>3, <1>4 DEF ProbeLock, TryLock

LEMMA ReleaseKept == ASSUME IInv, NEW p \in Procs, p \notin killed, ProbeRelease(p) \/ Unlock(p) PROVE KeepsPromise
<1>1. proc[p] \in ProcRecord
  BY DEF IInv, TypeOK
<1>2. CASE Unlock(p)
  <2> DEFINE r == [[proc[p] EXCEPT !.pc = "unlink"] EXCEPT !.ino = 0]
  <2>1. r.pc \in Ended
    BY <1>1 DEF ProcRecord, Ended
  <2>2. Goto(p, r) /\ lost' = lost /\ killed' = killed
    BY <1>2 DEF Unlock, Release
  <2> HIDE DEF r
  <2> QED
    BY <2>1, <2>2, StepKept
<1>3. CASE ProbeRelease(p)
  <2> DEFINE r == [NotLocked(proc[p]) EXCEPT !.ino = 0]
  <2>1. r.pc \in {"portwait", "gone", "open", "sweep"}
    <3>1. CASE NotLocked(proc[p]) = Gone
      BY <3>1, GoneIsRecord DEF ProcRecord
    <3>2. CASE NotLocked(proc[p]) # Gone
      BY <1>1, <3>2 DEF NotLocked, ProcRecord
    <3> QED
      BY <3>1, <3>2
  <2>2. Goto(p, r) /\ lost' = lost /\ killed' = killed /\ proc[p].pc = "unprobe"
    BY <1>3 DEF ProbeRelease, Release
  <2> HIDE DEF r
  <2> QED
    BY <2>1, <2>2, StepKept DEF ServerSteps, Ended
<1> QED
  BY <1>2, <1>3

\* A file that is opened is not that of a server yet.
LEMMA OpenKept == ASSUME IInv, NEW p \in Procs, p \notin killed, ProbeOpen(p) \/ TryOpen(p) PROVE KeepsPromise
<1>1. PICK next \in {"probe", "trylock"} :
         OpenFile(p, next) /\ proc[p].pc \in {"open", "tryopen"}
  BY DEF ProbeOpen, TryOpen
<1>2. PICK i \in Inodes :
         lost' = lost \ {p} /\ killed' = killed /\ Goto(p, [proc[p] EXCEPT !.pc = next, !.ino = i])
  BY <1>1 DEF OpenFile
<1>3. proc'[p].pc = next /\ \A x \in Procs : x # p => proc'[x] = proc[x]
  BY <1>2 DEF Goto, IInv, TypeOK, ProcRecord
<1>4. {"open", "tryopen", "probe", "trylock"} \cap (ServerSteps \cup Ended \cup {"stopped"}) = {}
  BY DEF ServerSteps, Ended
<1>5. \A x \in Procs : Alike(x)
  BY <1>1, <1>3, <1>4 DEF Alike
<1> QED
  BY <1>1, <1>2, <1>4, <1>5, UnseenKept

\* Whoever holds the lock under its name holds that of the file that goes.
LEMMA UnlinkKept == ASSUME IInv, NEW p \in Procs, p \notin killed, Unlink(p) PROVE KeepsPromise
<1>1. /\ proc[p].pc = "unlink" /\ killed' = killed
      /\ lost' = lost \cup {q \in Procs : proc[q].ino # 0 /\ proc[q].ino = name}
      /\ Goto(p, [proc[p] EXCEPT !.pc = "tidy"])
  BY DEF Unlink
<1>2. proc'[p].pc = "tidy" /\ \A x \in Procs : x # p => proc'[x] = proc[x]
  BY <1>1 DEF Goto, IInv, TypeOK, ProcRecord
<1>3. \A x \in Procs : Alike(x)
  BY <1>1, <1>2 DEF Alike, Ended, ServerSteps
<1>4. \A x \in Procs : proc[x].pc \in ServerSteps => x \in lost'
  <2> SUFFICES ASSUME NEW x \in Procs, proc[x].pc \in ServerSteps, x \notin lost
               PROVE  proc[x].ino # 0 /\ proc[x].ino = name
    BY <1>1
  <2>1. proc[x].ino # 0
    BY ZeroIsNone DEF IInv, Opened, WithFile
  <2> QED
    BY <2>1 DEF IInv, Named
<1>5. Server' = {} /\ Strays' = Strays \cup Server /\ Others' = Others
  BY <1>3, <1>4, Classes, ClassesNext DEF Alike
<1> QED
  BY <1>1, <1>3, <1>5, StoppedKept DEF KeepsPromise, Promise!Next, Promise!GoAstray

\* When a stop reports success its server has let go of the lock.
LEMMA SweepKept == ASSUME IInv, NEW p \in Procs, p \notin killed, Sweep(p) PROVE KeepsPromise
<1> DEFINE t == proc[p].target
<1>1. proc[p].pc = "sweep" /\ lost' = lost /\ killed' = killed /\ Goto(p, [proc[p] EXCEPT !.pc = "stopped"])
  BY DEF Sweep, RemoveRuntimeFiles
<1>2. /\ proc'[p].pc = "stopped" /\ proc'[p].target = t
      /\ \A x \in Procs : x # p => proc'[x] = proc[x]
  BY <1>1 DEF Goto, IInv, TypeOK, ProcRecord
<1>3. t \in Procs /\ Done(t) /\ proc[t].pc \in Past
  BY <1>1 DEF IInv, TypeOK, ProcRecord, Chase, Chases, Known
<1>4. t \notin Others /\ (t \in Server => t \in killed)
  BY <1>3, Classes DEF Done, Released, Owner, Past, Wrote, Ended
<1>5. {"sweep", "stopped"} \cap (ServerSteps \cup Ended) = {}
  BY DEF ServerSteps, Ended
<1>6. Server' = Server /\ Strays' = Strays /\ Others' = Others
  BY <1>1, <1>2, <1>5, Classes, ClassesNext
<1>7. Stopped' = Stopped \cup {<<p, t>>}
  <2>1. Stopped' \subseteq Stopped \cup {<<p, t>>}
    BY <1>2 DEF Stopped
  <2>2. Stopped \subseteq Stopped'
    BY <1>1, <1>2 DEF Stopped
  <2>3. <<p, t>> \in Stopped'
    BY <1>2 DEF Stopped
  <2> QED
    BY <2>1, <2>2, <2>3
<1> QED
  BY <1>1, <1>3, <1>4, <1>6, <1>7 DEF KeepsPromise, Promise!Next, Promise!Succeed

LEMMA AgainKept == ASSUME IInv, NEW p \in Procs, p \notin killed, Again(p) PROVE KeepsPromise
<1>1. /\ proc[p].pc = "stopped" /\ lost' = lost /\ killed' = killed
      /\ proc'[p].pc = "open" /\ \A x \in Procs : x # p => proc'[x] = proc[x]
  BY DEF Again, Goto, rest, IInv, TypeOK, ProcRecord
<1>2. {"open", "stopped"} \cap (ServerSteps \cup Ended) = {}
  BY DEF ServerSteps, Ended
<1>3. Server' = Server /\ Strays' = Strays /\ Others' = Others
  BY <1>1, <1>2, Classes, ClassesNext
<1>4. Stopped' = {d \in Stopped : d[1] # p}
  BY <1>1, StoppedDropped DEF Alike
<1> QED
  BY <1>1, <1>3, <1>4 DEF KeepsPromise, Promise!Next, Promise!GoOn

LEMMA TerminateKept == ASSUME IInv, NEW p \in Procs, p \notin killed, Terminate(p) \/ Kill(p) PROVE KeepsPromise
<1> DEFINE q == proc[p].target
           waiting == [proc[p] EXCEPT !.pc = "open", !.why = "poll", !.polls = 0]
           sweeping == [proc[p] EXCEPT !.pc = "sweep"]
<1>1. /\ proc[p].pc \in {"term", "kill"} /\ proc[p] \in ProcRecord
      /\ waiting.pc = "open" /\ sweeping.pc = "sweep"
  BY DEF Terminate, Kill, IInv, TypeOK, ProcRecord
<1>2. q \in Procs /\ proc[q].pc \in ServerSteps \cup Ended
  BY <1>1 DEF IInv, Chase, Chases, Known, ProcRecord, Past, Wrote, Ended
<1>3. {"term", "kill", "open", "sweep"} \cap (ServerSteps \cup Ended \cup {"stopped"}) = {}
  BY DEF ServerSteps, Ended
<1>4. \/ Goto(p, Gone) /\ lost' = lost /\ killed' = killed
      \/ Goto(p, waiting) /\ lost' = lost /\ killed' = killed
      \/ (Goto(p, waiting) \/ Goto(p, sweeping)) /\ Signal(q)
  BY DEF Terminate, Kill, rest
<1> HIDE DEF waiting, sweeping
<1>5. CASE Goto(p, Gone) /\ lost' = lost /\ killed' = killed
  BY <1>5, GoneIsRecord, StepKept DEF Ended
<1>6. CASE Goto(p, waiting) /\ lost' = lost /\ killed' = killed
  BY <1>1, <1>3, <1>6, StepKept
<1>7. CASE (Goto(p, waiting) \/ Goto(p, sweeping)) /\ Signal(q)
  <2>1. /\ proc'[p].pc \in {"open", "sweep"} /\ lost' = lost /\ killed' = killed \cup {q}
        /\ \A x \in Procs : x # p => proc'[x] = proc[x]
    BY <1>1, <1>7 DEF Goto, Signal, IInv, TypeOK
  <2>2. \A x \in Procs : Alike(x)
    BY <1>1, <1>3, <2>1 DEF Alike
  <2>3. Server' = Server /\ Strays' = Strays /\ Others' = Others /\ Stopped' = Stopped
    BY <2>1, <2>2, Classes, ClassesNext, StoppedKept DEF Alike
  <2>4. q \notin Others
    BY <1>2, Classes
  <2> QED
    BY <1>2, <2>1, <2>3, <2>4 DEF KeepsPromise, Promise!Next, Promise!Condemn
<1> QED
  BY <1>4, <1>5, <1>6, <1>7

\* The steps that begin a command, and those of a server to its next step.
LEMMA CommandKept ==
    ASSUME IInv, NEW p \in Procs, p \notin killed, Launch(p) \/ GetPID(p) \/ PortWait(p) PROVE KeepsPromise
<1>1. PICK r : /\ Goto(p, r) /\ lost' = lost /\ killed' = killed /\ r.pc \in {"open", "gone", "term", "tryopen"}
               /\ proc[p].pc \in {"idle", "getpid", "portwait"}
  <2>1. proc[p] \in ProcRecord
    BY DEF IInv, TypeOK
  <2>2. CASE Launch(p)
    BY <2>2 DEF Launch, rest, Fresh
  <2>3. CASE GetPID(p)
    BY <2>1, <2>3, GoneIsRecord DEF GetPID, rest, ProcRecord
  <2>4. CASE PortWait(p)
    BY <2>1, <2>4, GoneIsRecord DEF PortWait, rest, ProcRecord
  <2> QED
    BY <2>2, <2>3, <2>4
<1> QED
  BY <1>1, StepKept DEF ServerSteps, Ended

LEMMA ServerKept ==
    ASSUME IInv, NEW p \in Procs, p \notin killed,
           \/ Clean(p) \/ WritePID(p) \/ Publish(p) \/ Notify(p) \/ Bind(p) \/ Shutdown(p) \/ Tidy(p)
    PROVE  KeepsPromise
<1>1. PICK next : /\ Goto(p, [proc[p] EXCEPT !.pc = next]) /\ lost' = lost /\ killed' = killed
                  /\ \/ next = "gone"
                     \/ next \in ServerSteps /\ proc[p].pc \in ServerSteps
  BY DEF Clean, WritePID, Publish, Notify, Bind, Shutdown, Tidy, RemoveRuntimeFiles, rest, ServerSteps
<1> DEFINE r == [proc[p] EXCEPT !.pc = next]
<1>2. r.pc = next
  BY DEF IInv, TypeOK, ProcRecord
<1> HIDE DEF r
<1> QED
  BY <1>1, <1>2, StepKept DEF Ended, r

LEMMA ForkKept == ASSUME IInv, NEW p \in Procs, p \notin killed, Fork(p) PROVE KeepsPromise
<1>1. PICK q \in Procs :
         /\ proc[q].pc = "idle" /\ proc[p].pc = "fork" /\ lost' = lost /\ killed' = killed
         /\ proc' = [proc EXCEPT ![p].pc = "leave",
                                 ![q] = Fresh("open", Undaemoned(proc[p].cmd), proc[p].port)]
  BY DEF Fork, rest
<1>2. /\ proc'[p].pc = "leave" /\ proc'[q].pc = "open" /\ p # q
      /\ \A x \in Procs : x \notin {p, q} => proc'[x] = proc[x]
  BY <1>1 DEF IInv, TypeOK, ProcRecord, Fresh
<1>3. \A x \in Procs : Alike(x)
  BY <1>1, <1>2 DEF Alike, ServerSteps, Ended
<1> QED
  BY <1>1, <1>3, UnseenKept

LEMMA NextKept == ASSUME IInv, [Next]_vars PROVE KeepsPromise
<1>1. ASSUME NEW p \in Procs, p \notin killed, Works(p) PROVE KeepsPromise
  <2>1. CASE Launch(p)
    BY <1>1, <2>1, CommandKept
  <2>2. CASE Probe(p)
    BY <1>1, <2>2, OpenKept, LockKept, ReleaseKept DEF Probe
  <2>3. CASE Stopper(p)
    BY <1>1, <2>3, CommandKept, TerminateKept, SweepKept, AgainKept DEF Stopper
  <2>4. CASE Starter(p)
    BY <1>1, <2>4, CommandKept, OpenKept, LockKept, ServerKept, ForkKept, DiesKept DEF Starter, Leave
  <2>5. CASE Ender(p)
    BY <1>1, <2>5, ServerKept, ReleaseKept, UnlinkKept DEF Ender
  <2> QED
    BY <1>1, <2>1, <2>2, <2>3, <2>4, <2>5 DEF Works
<1>2. ASSUME NEW p \in Procs, Crash(p) PROVE KeepsPromise
  BY <1>2, DiesKept DEF Crash
<1>3. CASE UNCHANGED vars
  BY <1>3, UnseenKept DEF vars, Alike
<1> QED
  BY <1>1, <1>2, <1>3 DEF Next

LEMMA StartsPromised == Init => Promise!Init
<1> SUFFICES ASSUME Init PROVE Promise!Init
  OBVIOUS
<1>1. \A p \in Procs : proc[p].pc = "idle"
  BY DEF Init, Fresh
<1>2. Server = {} /\ Strays = {} /\ Others = Procs
  BY <1>1, Classes DEF ServerSteps, Ended
<1>3. Stopped = {}
  BY <1>1 DEF Stopped
<1> QED
  BY <1>2, <1>3 DEF Init, Promise!Init

\* One server at a time, until an Unlock removes the file under it; none twice;
\* and a stop that succeeds has seen its server let go, or has killed it, and
\* then it does nothing but end: step by step, whatever starts, stops and dies,
\* the lock keeps what SingleServer promises.
THEOREM ImplementsSingle == Spec => KeepsSingle
<1>1. IInv /\ [Next]_vars => KeepsPromise
  BY NextKept
<1> QED
  BY <1>1, StartsPromised, Inductive, PTL DEF Spec, KeepsPromise, KeepsSingle, Promise!Spec
=============================================================================
