-------------------------------- MODULE Jobs --------------------------------
(***************************************************************************)
(* What the task manager promises whoever submits tasks, with nothing of   *)
(* the scheduler, the queues, locks and goroutines: a task waits, is       *)
(* worked on beside no other of its key, at most MaxAttempts times, and    *)
(* ends; what has ended stays as it is.  A cancellation alone may overtake *)
(* others: it may be late, and then be late for its part overwritten.      *)
(***************************************************************************)
EXTENDS Naturals

CONSTANTS Tasks, KeyOf, NoKey, MaxAttempts

VARIABLES
    stage,      \* per task: absent, waiting, running or how it ended
    working,    \* the tasks that are worked on
    entered,    \* how often work on a task was begun
    calling,    \* the tasks somebody is about to cancel
    doubted     \* tasks cancelled when they were in somebody's hands

vars == <<stage, working, entered, calling, doubted>>

Init ==
    /\ stage = [t \in Tasks |-> "absent"]
    /\ entered = [t \in Tasks |-> 0]
    /\ working = {} /\ calling = {} /\ doubted = {}

Submit(t) ==
    /\ stage[t] = "absent"
    /\ stage' = [stage EXCEPT ![t] = "waiting"]
    /\ UNCHANGED <<working, entered, calling, doubted>>

\* The task may be taken up: it waits, or its cancellation is overwritten.
Open(t, expected) == stage[t] = expected \/ (stage[t] = "cancelled" /\ t \in doubted)

Begin(t) ==
    /\ Open(t, "waiting") /\ entered[t] < MaxAttempts[t]
    /\ t \notin working
    /\ \A u \in working : KeyOf[u] = KeyOf[t] => KeyOf[t] = NoKey
    /\ stage' = [stage EXCEPT ![t] = "running"]
    /\ working' = working \cup {t}
    /\ entered' = [entered EXCEPT ![t] = @ + 1]
    /\ UNCHANGED <<calling, doubted>>

\* A task whose attempts are not used up may have another one.
End(t) ==
    /\ t \in working /\ Open(t, "running")
    /\ \E s \in {"succeeded", "failed", "cancelled", "waiting"} :
         /\ s = "waiting" => entered[t] < MaxAttempts[t]
         /\ stage' = [stage EXCEPT ![t] = s]
    /\ working' = working \ {t}
    /\ UNCHANGED <<entered, calling, doubted>>

CallOff(t) ==
    /\ stage[t] = "waiting"
    /\ calling' = calling \cup {t}
    /\ UNCHANGED <<stage, working, entered, doubted>>

Cancel(t) ==
    /\ t \in calling
    /\ stage' = [stage EXCEPT ![t] = "cancelled"]
    /\ calling' = calling \ {t}
    /\ doubted' \in {doubted, doubted \cup {t}}
    /\ UNCHANGED <<working, entered>>

\* A dispatch that had begun before the task was cancelled puts it back.
PutBack(t) ==
    /\ stage[t] = "cancelled" /\ t \in doubted
    /\ stage' = [stage EXCEPT ![t] = "waiting"]
    /\ UNCHANGED <<working, entered, calling, doubted>>

Crash ==
    /\ working' = {} /\ calling' = {} /\ doubted' = {}
    /\ UNCHANGED <<stage, entered>>

\* After a crash: what was running will not be taken up again.
Repair ==
    /\ working = {}
    /\ stage' = [t \in Tasks |-> IF stage[t] = "running" THEN "interrupted" ELSE stage[t]]
    /\ UNCHANGED <<working, entered, calling, doubted>>

Next ==
    \/ \E t \in Tasks : Submit(t) \/ Begin(t) \/ End(t) \/ CallOff(t) \/ Cancel(t) \/ PutBack(t)
    \/ Crash \/ Repair

Spec == Init /\ [][Next]_vars
=============================================================================
