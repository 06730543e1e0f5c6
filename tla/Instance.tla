------------------------------ MODULE Instance ------------------------------
(***************************************************************************)
(* The single-instance lock of src/internal/lock and the commands start,   *)
(* stop and restart that use it (src/internal/command), on Unix.           *)
(*                                                                         *)
(* An instance is a process that holds flock() on the file tingly-server.  *)
(* lock of a configuration directory.  The file also names its PID; a port *)
(* and a version file beside it, published and removed together, tell      *)
(* other commands how to reach it, and are one variable here.  Whoever     *)
(* asks IsLocked takes the lock for a moment, and who releases it removes  *)
(* the file afterwards, so that a name and the file a process has open may *)
(* part: the file is an inode here.  Any process may die at any step, and   *)
(* one that was sent a signal that ends it dies some time later.           *)
(*                                                                         *)
(* PIDs are not reused, and file operations do not fail.                   *)
(***************************************************************************)
EXTENDS Naturals

CONSTANTS
    NProcs,    \* bound: processes launched
    Ports,     \* the ports a server may be told to listen on
    MaxPolls   \* bound: polls before the waitCeiling of a stop has passed

Procs == 1..NProcs
Inodes == 1..(NProcs + 1)

ASSUME InstanceAssumption == NProcs \in Nat /\ MaxPolls \in Nat /\ Ports # {}

VARIABLES
    name,      \* the inode that the path of the lock file names, or 0
    flock,     \* the process that holds the flock of an inode, or 0
    pid,       \* the PID an inode contains, or 0
    portFile,  \* the process whose port and version are published, or 0
    proc,      \* the processes
    killed,    \* processes that a signal is about to end: they do nothing else
    lost       \* history: processes whose open lock file lost its name

vars == <<name, flock, pid, portFile, proc, killed, lost>>
rest == <<name, flock, pid, portFile, killed, lost>>

\* A server holds the lock from the flock of TryLock to that of Unlock.
ServerSteps == {"clean", "pid", "publish", "notify", "fork", "leave", "bind", "serving", "unlock"}
Steps == ServerSteps \cup
    {"idle", "open", "probe", "unprobe", "getpid", "term", "kill", "sweep", "stopped",
     "portwait", "tryopen", "trylock", "unlink", "tidy", "gone"}
Restarts == {"restart", "redaemon"}  \* redaemon: restart --daemon
Daemons == {"daemon", "redaemon"}
Commands == {"start", "stop"} \cup Restarts \cup Daemons

ProcRecord ==
    [pc : Steps, cmd : Commands, why : {"start", "stop", "poll"}, ino : Inodes \cup {0},
     port : Ports, target : Procs \cup {0}, polls : 0..MaxPolls]

Owner(p) == proc[p].pc \in ServerSteps
Listening(p) == proc[p].pc = "serving"

TypeOK ==
    /\ name \in Inodes \cup {0}
    /\ flock \in [Inodes -> Procs \cup {0}] /\ pid \in [Inodes -> Procs \cup {0}]
    /\ portFile \in Procs \cup {0}
    /\ proc \in [Procs -> ProcRecord]
    /\ killed \subseteq Procs /\ lost \subseteq Procs

Fresh(pc, cmd, port) ==
    [pc |-> pc, cmd |-> cmd, ino |-> 0, port |-> port, target |-> 0, polls |-> 0,
     why |-> IF cmd \in {"start", "daemon"} THEN "start" ELSE "stop"]

SomePort == CHOOSE port \in Ports : TRUE
Gone == Fresh("gone", "start", SomePort)

Init ==
    /\ name = 0 /\ portFile = 0 /\ killed = {} /\ lost = {}
    /\ flock = [i \in Inodes |-> 0] /\ pid = [i \in Inodes |-> 0]
    /\ proc = [p \in Procs |-> Fresh("idle", "start", SomePort)]

Goto(p, r) == proc' = [proc EXCEPT ![p] = r]

\* A command is typed.  A restart keeps the port of the server it finds: any.
Launch(p) ==
    /\ proc[p].pc = "idle"
    /\ \E cmd \in Commands, port \in Ports : Goto(p, Fresh("open", cmd, port))
    /\ UNCHANGED rest
-----------------------------------------------------------------------------
(* The lock file. *)

Unused(i) == \A q \in Procs : proc[q].ino # i

\* os.OpenFile with O_CREATE: the file the path names, or a new one.
OpenFile(p, next) ==
    \E i \in Inodes :
        /\ \/ name = i /\ UNCHANGED pid
           \/ /\ name = 0 /\ Unused(i) /\ \A j \in Inodes : j < i => ~Unused(j)
              /\ pid' = [pid EXCEPT ![i] = 0]
        /\ name' = i
        /\ Goto(p, [proc[p] EXCEPT !.pc = next, !.ino = i])
        /\ lost' = lost \ {p}
        /\ UNCHANGED <<flock, portFile, killed>>

\* Faulty variant of Flock: a shared lock is asked for.
FlockShared(p, next) ==
    /\ flock' = [flock EXCEPT ![proc[p].ino] = p]
    /\ Goto(p, [proc[p] EXCEPT !.pc = next])
    /\ UNCHANGED <<name, pid, portFile, killed, lost>>

\* LOCK_EX | LOCK_NB succeeds.
Flock(p, next) ==
    /\ flock[proc[p].ino] = 0
    /\ flock' = [flock EXCEPT ![proc[p].ino] = p]
    /\ Goto(p, [proc[p] EXCEPT !.pc = next])
    /\ UNCHANGED <<name, pid, portFile, killed, lost>>

\* It fails, and the file is closed.
Refused(p, r) ==
    /\ flock[proc[p].ino] # 0
    /\ Goto(p, [r EXCEPT !.ino = 0])
    /\ UNCHANGED rest

\* The lock is released and the file closed.
Release(p, r) ==
    /\ flock' = [i \in Inodes |-> IF flock[i] = p THEN 0 ELSE flock[i]]
    /\ Goto(p, [r EXCEPT !.ino = 0])
    /\ UNCHANGED <<name, pid, portFile, killed, lost>>

\* A process ends, and with it its hold of a lock.
Dies(p) ==
    /\ Goto(p, Gone)
    /\ flock' = [i \in Inodes |-> IF flock[i] = p THEN 0 ELSE flock[i]]
    /\ killed' = killed \ {p}
    /\ UNCHANGED <<name, pid, portFile, lost>>

\* By itself, or of a signal.
Crash(p) == proc[p].pc \notin {"idle", "gone"} /\ Dies(p)
-----------------------------------------------------------------------------
(* IsLocked, and what each caller makes of its answer. *)

\* Faulty variant of Locked: the polls are counted and not limited.
LockedUnlimited(r) ==
    CASE r.why = "start" -> Gone
      [] r.why = "stop" -> [r EXCEPT !.pc = "getpid"]
      [] r.why = "poll" -> [r EXCEPT !.pc = "open", !.polls = @ + 1]

\* Faulty variant of Locked: the deadline is set anew at every poll.
LockedForever(r) ==
    CASE r.why = "start" -> Gone
      [] r.why = "stop" -> [r EXCEPT !.pc = "getpid"]
      [] r.why = "poll" -> [r EXCEPT !.pc = "open"]

\* "locked".  A start reports the running server; a stop goes on to signal it,
\* or polls until the time is up.
Locked(r) ==
    CASE r.why = "start" -> Gone
      [] r.why = "stop" -> [r EXCEPT !.pc = "getpid"]
      [] r.why = "poll" -> IF r.polls < MaxPolls
                           THEN [r EXCEPT !.pc = "open", !.polls = @ + 1]
                           ELSE [r EXCEPT !.pc = "kill"]

\* "not locked".
NotLocked(r) ==
    CASE r.why = "start" -> [r EXCEPT !.pc = "portwait"]
      [] r.why = "stop" -> IF r.cmd = "stop" THEN Gone
                           ELSE [r EXCEPT !.pc = "open", !.why = "start"]
      [] r.why = "poll" -> [r EXCEPT !.pc = "sweep"]

ProbeOpen(p) == proc[p].pc = "open" /\ OpenFile(p, "probe")

ProbeLock(p) ==
    /\ proc[p].pc = "probe"
    /\ Flock(p, "unprobe") \/ Refused(p, Locked(proc[p]))

ProbeRelease(p) == proc[p].pc = "unprobe" /\ Release(p, NotLocked(proc[p]))
-----------------------------------------------------------------------------
(* stopServerWithFileLock. *)

GetPID(p) ==
    /\ proc[p].pc = "getpid"
    /\ Goto(p, IF name = 0 \/ pid[name] = 0 THEN Gone
               ELSE [proc[p] EXCEPT !.pc = "term", !.target = pid[name]])
    /\ UNCHANGED rest

\* From signal.Notify on, a server outlives SIGTERM: it will shut down.
Notified == {"fork", "leave", "bind", "serving", "unlock", "unlink", "tidy"}

\* A signal that ends the process q, at once or later.
Signal(q) == killed' = killed \cup {q} /\ UNCHANGED <<name, flock, pid, portFile, lost>>

Terminate(p) ==
    /\ proc[p].pc = "term"
    /\ LET q == proc[p].target
           waiting == [proc[p] EXCEPT !.pc = "open", !.why = "poll", !.polls = 0] IN
       \/ /\ proc[q].pc = "gone"
          /\ Goto(p, Gone) /\ UNCHANGED rest
       \/ /\ proc[q].pc \in Notified
          /\ Goto(p, waiting) /\ UNCHANGED rest
       \/ /\ proc[q].pc \notin Notified \cup {"gone"}
          /\ Goto(p, waiting) /\ Signal(q)

\* Faulty variant of Kill: the force kill is left out.
KillNobody(p) ==
    /\ proc[p].pc = "kill"
    /\ Goto(p, [proc[p] EXCEPT !.pc = "sweep"]) /\ UNCHANGED rest

\* The time is up: SIGKILL, which fails for a process that is gone, and whose
\* effect is not waited for.
Kill(p) ==
    /\ proc[p].pc = "kill"
    /\ LET q == proc[p].target IN
       \/ /\ proc[q].pc = "gone"
          /\ Goto(p, Gone) /\ UNCHANGED rest
       \/ /\ proc[q].pc # "gone"
          /\ Goto(p, [proc[p] EXCEPT !.pc = "sweep"]) /\ Signal(q)

RemoveRuntimeFiles(p, next) ==
    /\ portFile' = 0
    /\ Goto(p, [proc[p] EXCEPT !.pc = next])
    /\ UNCHANGED <<name, flock, pid, killed, lost>>

Sweep(p) == proc[p].pc = "sweep" /\ RemoveRuntimeFiles(p, "stopped")

\* The stop of a restart has succeeded: it starts a server itself.
Again(p) ==
    /\ proc[p].pc = "stopped" /\ proc[p].cmd \in Restarts
    /\ Goto(p, [proc[p] EXCEPT !.pc = "open", !.why = "start", !.target = 0, !.polls = 0])
    /\ UNCHANGED rest
-----------------------------------------------------------------------------
(* startServerWithHook. *)

PortTaken(port) == \E q \in Procs : Listening(q) /\ proc[q].port = port

\* WaitForPortAvailable gives up after three seconds.
PortWait(p) ==
    /\ proc[p].pc = "portwait"
    /\ Goto(p, IF PortTaken(proc[p].port) THEN Gone
               ELSE [proc[p] EXCEPT !.pc = "tryopen"])
    /\ UNCHANGED rest

TryOpen(p) == proc[p].pc = "tryopen" /\ OpenFile(p, "trylock")

TryLock(p) ==
    /\ proc[p].pc = "trylock"
    /\ Flock(p, "clean") \/ Refused(p, Gone)

\* Faulty variant of Clean: what a crashed server left stays.
CleanNothing(p) ==
    /\ proc[p].pc = "clean"
    /\ Goto(p, [proc[p] EXCEPT !.pc = "pid"]) /\ UNCHANGED rest

Clean(p) == proc[p].pc = "clean" /\ RemoveRuntimeFiles(p, "pid")

\* Faulty variant of WritePID: a PID that is there is kept.
WritePIDOnce(p) ==
    /\ proc[p].pc = "pid"
    /\ pid' = [pid EXCEPT ![proc[p].ino] = IF @ = 0 THEN p ELSE @]
    /\ Goto(p, [proc[p] EXCEPT !.pc = "publish"])
    /\ UNCHANGED <<name, flock, portFile, killed, lost>>

WritePID(p) ==
    /\ proc[p].pc = "pid"
    /\ pid' = [pid EXCEPT ![proc[p].ino] = p]
    /\ Goto(p, [proc[p] EXCEPT !.pc = "publish"])
    /\ UNCHANGED <<name, flock, portFile, killed, lost>>

\* WritePort and WriteVersion.
Publish(p) ==
    /\ proc[p].pc = "publish"
    /\ portFile' = p
    /\ Goto(p, [proc[p] EXCEPT !.pc = "notify"])
    /\ UNCHANGED <<name, flock, pid, killed, lost>>

Notify(p) ==
    /\ proc[p].pc = "notify"
    /\ Goto(p, [proc[p] EXCEPT !.pc = IF proc[p].cmd \in Daemons THEN "fork" ELSE "bind"])
    /\ UNCHANGED rest

\* The child that Daemonize starts runs the same command, and does not fork.
Undaemoned(cmd) == IF cmd \in Restarts THEN "restart" ELSE "start"

\* Daemonize starts the child, and exits without Unlock: the system releases
\* the lock, and the files stay.
Fork(p) ==
    /\ proc[p].pc = "fork"
    /\ \E q \in Procs :
          /\ proc[q].pc = "idle"
          /\ proc' = [proc EXCEPT ![p].pc = "leave",
                                  ![q] = Fresh("open", Undaemoned(proc[p].cmd), proc[p].port)]
    /\ UNCHANGED rest

Leave(p) == proc[p].pc = "leave" /\ Dies(p)

\* The server's goroutine listens, or its error ends the server.
Bind(p) ==
    /\ proc[p].pc = "bind"
    /\ Goto(p, [proc[p] EXCEPT !.pc = IF PortTaken(proc[p].port) THEN "unlock" ELSE "serving"])
    /\ UNCHANGED rest

\* A signal or the web UI: stopAndUnlock closes the listener first.
Shutdown(p) ==
    /\ proc[p].pc \in {"bind", "serving"}
    /\ Goto(p, [proc[p] EXCEPT !.pc = "unlock"])
    /\ UNCHANGED rest

Unlock(p) == proc[p].pc = "unlock" /\ Release(p, [proc[p] EXCEPT !.pc = "unlink"])

\* os.Remove: whatever file the path names by now.
Unlink(p) ==
    /\ proc[p].pc = "unlink"
    /\ name' = 0
    /\ lost' = lost \cup {q \in Procs : proc[q].ino # 0 /\ proc[q].ino = name}
    /\ Goto(p, [proc[p] EXCEPT !.pc = "tidy"])
    /\ UNCHANGED <<flock, pid, portFile, killed>>

Tidy(p) == proc[p].pc = "tidy" /\ RemoveRuntimeFiles(p, "gone")
-----------------------------------------------------------------------------
Probe(p) == ProbeOpen(p) \/ ProbeLock(p) \/ ProbeRelease(p)

Stopper(p) == GetPID(p) \/ Terminate(p) \/ Kill(p) \/ Sweep(p) \/ Again(p)

Starter(p) ==
    \/ PortWait(p) \/ TryOpen(p) \/ TryLock(p) \/ Clean(p) \/ WritePID(p) \/ Publish(p)
    \/ Notify(p) \/ Fork(p) \/ Leave(p) \/ Bind(p)

Ender(p) == Shutdown(p) \/ Unlock(p) \/ Unlink(p) \/ Tidy(p)

Works(p) == Launch(p) \/ Probe(p) \/ Stopper(p) \/ Starter(p) \/ Ender(p)

Next == \E p \in Procs : Crash(p) \/ (p \notin killed /\ Works(p))

\* A command that was launched goes on, and a signal that ends its process
\* arrives; a server need not shut down in time.
Fairness == \A p \in Procs :
    /\ WF_vars(p \notin killed /\ (Probe(p) \/ Stopper(p)))
    /\ WF_vars(p \in killed /\ Crash(p))

Spec == Init /\ [][Next]_vars /\ Fairness
-----------------------------------------------------------------------------
(* What the lock is for. *)

\* Two processes hold the instance only if an Unlock that had released the
\* lock before removed the file one of them had opened meanwhile.
OneServer ==
    \A p, q \in Procs : (Owner(p) /\ Owner(q) /\ p # q) => (p \in lost \/ q \in lost)

\* While a server listens, IsLocked says so, and GetPID names it: a stop finds
\* it, whatever started, stopped or died before.
StopFindsServer ==
    \A p \in Procs : (Listening(p) /\ p \notin lost) =>
        name # 0 /\ flock[name] = p /\ pid[name] = p

\* Once a server has dropped what its predecessors left, the port and version
\* published are its own or none, but for those of a server whose file was
\* removed under it.
PortIsOwn ==
    \A p \in Procs : (Owner(p) /\ proc[p].pc # "clean" /\ p \notin lost) =>
        portFile \in {0, p} \cup lost

\* What the directory promises, SingleServer, of which this is an
\* implementation: a server whose file was removed under it is astray.
Server == {p \in Procs : Owner(p) /\ p \notin lost}
Strays == {p \in Procs : Owner(p) /\ p \in lost}
Others == {p \in Procs : ~Owner(p) /\ proc[p].pc \notin {"unlink", "tidy", "gone"}}
Stopped == {<<p, proc[p].target>> : p \in {q \in Procs : proc[q].pc = "stopped"}}

Promise == INSTANCE SingleServer WITH
    server <- Server, strays <- Strays, others <- Others, dying <- killed, stopped <- Stopped

\* Whichever commands run and die, and wherever: one server at a time, until it
\* goes astray, no process is one twice, and when a stop reports success, or a
\* restart goes on to start, the server it signalled has let go of the lock for
\* good, or is astray, or does nothing any more but end: after a force kill
\* nobody waits for that.
KeepsSingle == Promise!Spec

\* A server that some stop signalled still holds the lock, under its name.
Awaited == \E p \in Procs :
    /\ proc[p].why = "poll" /\ proc[p].pc # "gone"
    /\ Owner(proc[p].target) /\ proc[p].target \notin lost

\* No stop waits for ever: the server it signalled ends even if it never
\* reacts, unless the stop itself dies.  There are as many stops as processes.
SignalledEnds == Awaited ~> ~Awaited
=============================================================================
