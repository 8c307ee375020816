------------------------------ MODULE JobQueue ------------------------------
(***************************************************************************)
(* What the analysis queue of app/services/queue.py promises its callers:  *)
(* a bounded first-in first-out line, one job in service at a time, one    *)
(* outcome for every job, and a log that tells its story to every stream.  *)
(* Coordinator.tla, which models the store, the drain loop and the asyncio *)
(* tasks behind the promise, implements it; Console.tla relies on it.      *)
(***************************************************************************)
EXTENDS Naturals, Sequences, FiniteSets

CONSTANTS
    Jobs,           \* the jobs that may ever be submitted
    NoJob,          \* "nothing is in service"
    QueueCapacity   \* how many jobs may wait behind the one in service

VARIABLES
    line,           \* the waiting jobs, oldest first
    active,         \* the job in service, or NoJob
    outcome,        \* per job: "absent", "pending", or how it ended
    log             \* per job: the events that a stream of it replays

queueVars == <<line, active, outcome, log>>

Outcomes == {"complete", "failed", "cancelled"}

Load == Len(line) + (IF active = NoJob THEN 0 ELSE 1)

Init ==
    /\ line = <<>>
    /\ active = NoJob
    /\ outcome = [j \in Jobs |-> "absent"]
    /\ log = [j \in Jobs |-> <<>>]

\* Whatever happens to a job is reported to its streams.
Report(j, event) == log' = [log EXCEPT ![j] = Append(@, event)]

\* A new job joins the end of the line, if there is room for it.
Enqueue(j) ==
    /\ outcome[j] = "absent"
    /\ Load < 1 + QueueCapacity
    /\ line' = Append(line, j)
    /\ outcome' = [outcome EXCEPT ![j] = "pending"]
    /\ Report(j, "queued")
    /\ UNCHANGED active

\* The oldest waiting job is taken into service when nothing else is.
Start ==
    /\ active = NoJob
    /\ line # <<>>
    /\ active' = Head(line)
    /\ line' = Tail(line)
    /\ Report(Head(line), "running")
    /\ UNCHANGED outcome

\* The job in service ends: it completed, it failed, or its caller cancelled it.
Finish(o) ==
    /\ active # NoJob
    /\ outcome' = [outcome EXCEPT ![active] = o]
    /\ active' = NoJob
    /\ Report(active, o)
    /\ UNCHANGED line

\* A caller cancels a job that is still waiting.
Withdraw(j) ==
    /\ \E i \in DOMAIN line :
          /\ line[i] = j
          /\ line' = SubSeq(line, 1, i - 1) \o SubSeq(line, i + 1, Len(line))
    /\ outcome' = [outcome EXCEPT ![j] = "cancelled"]
    /\ Report(j, "cancelled")
    /\ UNCHANGED active

\* The one weakness of the promise: a job reported as cancelled while it was in
\* service may be reported as failed afterwards (the exception of its workflow).
Relabel(j) ==
    /\ outcome[j] = "cancelled"
    /\ \E i \in DOMAIN log[j] : log[j][i] = "running"
    /\ outcome' = [outcome EXCEPT ![j] = "failed"]
    /\ Report(j, "failed")
    /\ UNCHANGED <<line, active>>

Next ==
    \/ \E j \in Jobs : Enqueue(j) \/ Withdraw(j) \/ Relabel(j)
    \/ Start
    \/ \E o \in Outcomes : Finish(o)

Spec == Init /\ [][Next]_queueVars
=============================================================================
