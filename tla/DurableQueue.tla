---------------------------- MODULE DurableQueue ----------------------------
(***************************************************************************)
(* The durable analysis queue: PostgresJobStore of app/services/queue.py   *)
(* over the job methods of app/database/repository.py, under the same      *)
(* AnalysisCoordinator that Coordinator.tla models in detail.              *)
(*                                                                         *)
(* Every repository method runs in a worker thread (asyncio.to_thread) and *)
(* all of them share ONE psycopg connection: the connection serialises     *)
(* statements, not transactions, so a commit, a rollback or a failed       *)
(* statement of one thread takes the statements of every other thread with *)
(* it.  An action is one statement of one thread, or one step of the event *)
(* loop.  "working" is what statements see, "committed" what survives.     *)
(*                                                                         *)
(* The process may crash; what it knew is gone, the open transaction is    *)
(* rolled back, and it starts again.  The server itself does not fail.     *)
(***************************************************************************)
EXTENDS Naturals, Sequences, FiniteSets

CONSTANTS
    Jobs,           \* one id per POST that clients may ever send
    Retries,        \* the POSTs among them that carry one and the same client_request_id
    Deletable,      \* the jobs whose clients may send DELETE
    Readable,       \* the jobs whose clients may send GET
    Clients,        \* the clients that may send DELETE and GET, one request each per job
    NoJob,          \* stands for "no job"
    QueueCapacity,  \* Settings.queue_capacity
    MaxAttempts,    \* how often claim_job hands out a job (3 in the code)
    MaxCrashes      \* bound: how often the process dies

ASSUME DurableCapacityAssumption == QueueCapacity \in Nat
ASSUME DurableBoundsAssumption == MaxAttempts \in Nat \ {0} /\ MaxCrashes \in Nat
ASSUME DurableJobsAssumption ==
    /\ IsFiniteSet(Jobs) /\ NoJob \notin Jobs
    /\ Retries \subseteq Jobs /\ Deletable \subseteq Jobs /\ Readable \subseteq Jobs
    /\ Clients \cap {"body", "handler"} = {}

VARIABLES
    committed,  \* analysis_jobs as the last commit left it
    working,    \* analysis_jobs as the connection's open transaction sees it
    broken,     \* the transaction is in the failed state: statements raise
    created,    \* the jobs in created_at order
    submit,     \* create_job and its handler, per POST
    found,      \* the job that create_job found under the POST's id, as it selected it
    drain,      \* _drain and the claim_job it awaits
    taken,      \* the job that claim_job returned, or NoJob
    process,    \* _process, per job
    refresher,  \* _refresh_lease of that _process
    save,       \* the complete_job or fail_job thread, per job
    erase,      \* the cancel_job threads, per job and caller
    read,       \* the get_job snapshot that a GET handler holds, per job and client
    reported,   \* JobRecord.status in the process's cache, or "unknown"
    asked,      \* JobRecord.cancel_requested in that cache
    silent,     \* the records in that cache that have no event yet
    crashes

table == <<committed, working, broken>>
posts == <<submit, found>>
cache == <<reported, asked, silent>>
vars == <<table, created, posts, drain, taken, process, refresher, save, erase, read,
          cache, crashes>>

TERMINAL == {"complete", "failed", "cancelled"}
Statuses == {"absent", "queued", "running"} \cup TERMINAL

\* lapsed: lease_expires_at < now().
Rows == [status: Statuses, cancel: BOOLEAN, attempts: Nat, lapsed: BOOLEAN]
NoRow == [status |-> "absent", cancel |-> FALSE, attempts |-> 0, lapsed |-> FALSE]
Snapshots == [status: Statuses, cancel: BOOLEAN]
NoSnapshot == [status |-> "none", cancel |-> FALSE]
Founds == [job: Jobs \cup {NoJob}, seen: {NoSnapshot} \cup Snapshots]

\* The statement a thread executes next, "done" or "raised" when it has ended.
SubmitStates == {"idle", "count", "insert", "commit", "inserted", "accepted",
                 "commit known", "found", "known", "refused", "error", "lost"}
SaveStates == {"idle", "complete", "failed", "commit", "done", "raised"}
EraseStates == {"idle", "first", "second", "commit", "done", "raised"}

\* Who calls store.cancel: clients, and _process in its body or in its except clause.
Slots == {"body", "handler"}
Callers == Clients \cup Slots
Erases == [at: EraseStates, saw: Statuses]

DrainStates == {"none", "recover", "take", "commit", "claimed", "awaiting", "dead"}
Started == {"working", "completing", "failing", "withdrawing", "cancelling"}
Alive == {"scheduled"} \cup Started
RefresherStates == {"asleep", "ended", "raised"}

TableTyped ==
    /\ committed \in [Jobs -> Rows]
    /\ working \in [Jobs -> Rows]
    /\ broken \in BOOLEAN

LoopTyped ==
    /\ created \in Seq(Jobs)
    /\ submit \in [Jobs -> SubmitStates]
    /\ drain \in DrainStates
    /\ taken \in Jobs \cup {NoJob}
    /\ drain = "awaiting" => taken # NoJob
    /\ process \in [Jobs -> {"none", "ended", "dead"} \cup Alive]
    /\ crashes \in 0 .. MaxCrashes

ThreadsTyped ==
    /\ refresher \in [Jobs -> RefresherStates]
    /\ save \in [Jobs -> SaveStates]
    /\ erase \in [Jobs -> [Callers -> Erases]]

CacheTyped ==
    /\ found \in [Jobs -> Founds]
    /\ \A j \in Jobs :
          /\ submit[j] \in {"commit known", "found"} => found[j].seen # NoSnapshot
          /\ found[j].seen # NoSnapshot => found[j].job # NoJob
    /\ read \in [Jobs -> [Clients -> {NoSnapshot} \cup Snapshots]]
    /\ reported \in [Jobs -> Statuses \cup {"unknown"}]
    /\ asked \in [Jobs -> BOOLEAN]
    /\ silent \subseteq Jobs

TypeOK == TableTyped /\ LoopTyped /\ ThreadsTyped /\ CacheTyped

Unread == [j \in Jobs |-> [c \in Clients |-> NoSnapshot]]
NoErase == [at |-> "idle", saw |-> "absent"]
EraseIdle == [j \in Jobs |-> [c \in Callers |-> NoErase]]

Init ==
    /\ committed = [j \in Jobs |-> NoRow]
    /\ working = committed
    /\ broken = FALSE
    /\ created = <<>>
    /\ submit = [j \in Jobs |-> "idle"]
    /\ found = [j \in Jobs |-> [job |-> NoJob, seen |-> NoSnapshot]]
    /\ drain = "none"
    /\ taken = NoJob
    /\ process = [j \in Jobs |-> "none"]
    /\ refresher = [j \in Jobs |-> "ended"]
    /\ save = [j \in Jobs |-> "idle"]
    /\ erase = EraseIdle
    /\ read = Unread
    /\ reported = [j \in Jobs |-> "unknown"]
    /\ asked = [j \in Jobs |-> FALSE]
    /\ silent = {}
    /\ crashes = 0

(***************************************************************************)
(* The connection.                                                         *)
(***************************************************************************)
Commit ==
    /\ committed' = IF broken THEN committed ELSE working
    /\ working' = committed'
    /\ broken' = FALSE

Rollback ==
    /\ working' = committed
    /\ broken' = FALSE
    /\ UNCHANGED committed

Execute(rows) ==
    /\ ~ broken
    /\ working' = rows
    /\ UNCHANGED <<committed, broken>>

Load(rows) == Cardinality({j \in Jobs : rows[j].status \in {"queued", "running"}})
RowExists(r) == r.status # "absent"
Snapshot(j) == [status |-> working[j].status, cancel |-> working[j].cancel]

(***************************************************************************)
(* create_job.                                                             *)
(***************************************************************************)
Submitting(j, from, to) ==
    /\ submit[j] = from
    /\ submit' = [submit EXCEPT ![j] = to]
    /\ UNCHANGED <<drain, taken, process, refresher, save, erase, read, crashes>>

\* The rows that create_job finds under the client_request_id of this POST.
Duplicates(j) == {k \in Retries : j \in Retries /\ RowExists(working[k])}

\* A statement on a failed transaction raises: the handler answers 500.
SubmitSelects(j) ==
    /\ \/ /\ broken
          /\ Submitting(j, "idle", "error")
          /\ UNCHANGED found
       \/ /\ ~ broken /\ Duplicates(j) = {}
          /\ Submitting(j, "idle", "count")
          /\ UNCHANGED found
       \/ /\ ~ broken
          /\ Submitting(j, "idle", "commit known")
          /\ \E k \in Duplicates(j) :
                found' = [found EXCEPT ![j] = [job |-> k, seen |-> Snapshot(k)]]
    /\ UNCHANGED <<table, created, cache>>

\* A refusal rolls the transaction back.  created_at is read from the clock after
\* the count.
SubmitCounts(j) ==
    LET full == Load(working) >= 1 + QueueCapacity IN
    /\ Submitting(j, "count", IF broken THEN "error" ELSE IF full THEN "refused" ELSE "insert")
    /\ IF full /\ ~ broken THEN Rollback ELSE UNCHANGED table
    /\ created' = IF full \/ broken THEN created ELSE Append(created, j)
    /\ UNCHANGED <<found, cache>>

\* The unique index on client_request_id refuses a duplicate, and nobody rolls
\* the failed transaction back.
SubmitInserts(j) ==
    LET duplicate == Duplicates(j) # {} IN
    /\ Submitting(j, "insert", IF broken \/ duplicate THEN "error" ELSE "commit")
    /\ broken' = (broken \/ duplicate)
    /\ working' = IF broken' THEN working ELSE [working EXCEPT ![j].status = "queued"]
    /\ UNCHANGED <<committed, created, found, cache>>

SubmitCommits(j) ==
    /\ Submitting(j, "commit", "inserted")
    /\ Commit
    /\ UNCHANGED <<created, found, cache>>

SubmitFinds(j) ==
    /\ Submitting(j, "commit known", "found")
    /\ Commit
    /\ UNCHANGED <<created, found, cache>>

\* A repeated request id, back in the event loop: the process caches the row as it
\* was selected if it does not know the job, and reports it if it never did.
SubmitKnows(j) ==
    LET k == found[j].job
        s == found[j].seen
    IN
    /\ Submitting(j, "found", "known")
    /\ found' = [found EXCEPT ![j].seen = NoSnapshot]
    /\ reported' = [reported EXCEPT ![k] = IF @ = "unknown" \/ k \in silent THEN s.status ELSE @]
    /\ asked' = [asked EXCEPT ![k] = IF reported[k] = "unknown" THEN s.cancel ELSE @]
    /\ silent' = silent \ {k}
    /\ UNCHANGED <<table, created>>

DrainDone == drain \in {"none", "dead"}

\* Back in the event loop: PostgresJobStore.create caches and reports the job
\* and submit() ensures the drain.
SubmitReturns(j) ==
    /\ submit[j] = "inserted"
    /\ submit' = [submit EXCEPT ![j] = "accepted"]
    /\ reported' = [reported EXCEPT ![j] = "queued"]
    /\ silent' = silent \ {j}
    /\ drain' = IF DrainDone THEN "recover" ELSE drain
    /\ UNCHANGED <<table, created, found, asked, taken, process, refresher, save, erase, read,
                   crashes>>

(***************************************************************************)
(* claim_job and _drain.                                                   *)
(***************************************************************************)
DrainUnchanged == UNCHANGED <<created, posts, refresher, save, erase, read, asked, crashes>>

\* Faulty variant: attempt_count is not compared.
RecoveredAlways(r) ==
    IF r.status # "running" \/ ~ r.lapsed THEN r
    ELSE [r EXCEPT !.status = "queued", !.lapsed = FALSE]

\* The first two updates: jobs whose lease has lapsed are queued again, or failed
\* after their last attempt.  They touch different rows, so they are one step.
Recovered(r) ==
    IF r.status # "running" \/ ~ r.lapsed THEN r
    ELSE [r EXCEPT !.status = IF r.attempts < MaxAttempts THEN "queued" ELSE "failed",
                   !.lapsed = FALSE]

ClaimRecovers ==
    /\ drain = "recover"
    /\ Execute([j \in Jobs |-> Recovered(working[j])])
    /\ drain' = "take"
    /\ UNCHANGED <<taken, process, reported, silent>>
    /\ DrainUnchanged

\* j is the oldest row that is open.
FirstOpen(j, open(_)) ==
    /\ open(j)
    /\ \A m, n \in DOMAIN created : created[n] = j /\ m < n => ~ open(created[m])

Queued(j) == working[j].status = "queued"
Unwanted(j) == working[j].cancel
NoneRunning == \A j \in Jobs : working[j].status # "running"

\* Faulty variants: running rows, and cancel_requested, are not looked at.
OldestAnyway(j) == FirstOpen(j, LAMBDA k : Queued(k) /\ ~ Unwanted(k))
OldestCancelledToo(j) == NoneRunning /\ FirstOpen(j, Queued)

\* The oldest queued row that nobody asked to cancel, if no row is running.
Oldest(j) == NoneRunning /\ FirstOpen(j, LAMBDA k : Queued(k) /\ ~ Unwanted(k))

ClaimTakes ==
    /\ drain = "take"
    /\ \/ \E j \in Jobs :
             /\ Oldest(j)
             /\ Execute([working EXCEPT ![j].status = "running", ![j].lapsed = FALSE,
                                        ![j].attempts = @ + 1])
             /\ taken' = j
       \/ /\ ~ \E j \in Jobs : Oldest(j)
          /\ Execute(working)
          /\ taken' = NoJob
    /\ drain' = "commit"
    /\ UNCHANGED <<process, reported, silent>>
    /\ DrainUnchanged

ClaimCommits ==
    /\ drain = "commit"
    /\ Commit
    /\ drain' = "claimed"
    /\ UNCHANGED <<taken, process, reported, silent>>
    /\ DrainUnchanged

\* claim_next raises: nothing in _drain catches it.
ClaimRaises ==
    /\ broken
    /\ drain \in {"recover", "take"}
    /\ drain' = "dead"
    /\ taken' = NoJob
    /\ UNCHANGED <<table, process, reported, silent>>
    /\ DrainUnchanged

\* Faulty variant: the result of claim_next is not compared with None.
DrainStartsAnyway ==
    /\ drain = "claimed"
    /\ drain' = "awaiting"
    /\ process' = [j \in Jobs |-> IF j = taken THEN "scheduled" ELSE process[j]]
    /\ reported' = [j \in Jobs |-> IF j = taken THEN "running" ELSE reported[j]]
    /\ silent' = silent \ {taken}
    /\ UNCHANGED <<table, taken>>
    /\ DrainUnchanged

\* Back in the event loop: _drain starts the job, or returns without one.
DrainStarts ==
    /\ drain = "claimed"
    /\ \/ /\ taken # NoJob
          /\ drain' = "awaiting"
          /\ process' = [process EXCEPT ![taken] = "scheduled"]
          /\ reported' = [reported EXCEPT ![taken] = "running"]
          /\ silent' = silent \ {taken}
       \/ /\ taken = NoJob
          /\ drain' = "none"
          /\ UNCHANGED <<process, reported, silent>>
    /\ UNCHANGED <<table, taken>>
    /\ DrainUnchanged

\* The awaited task has returned, or has raised or was cancelled.
DrainContinues ==
    /\ drain = "awaiting"
    /\ \/ process[taken] = "ended" /\ drain' = "recover"
       \/ process[taken] = "dead" /\ drain' = "dead"
    /\ taken' = NoJob
    /\ UNCHANGED <<table, process, reported, silent>>
    /\ DrainUnchanged

(***************************************************************************)
(* The threads that store an outcome: complete_job, fail_job, cancel_job.  *)
(***************************************************************************)
LoopUnchanged == UNCHANGED <<created, posts, drain, taken, process, read, cache, crashes>>
ThreadUnchanged == LoopUnchanged /\ UNCHANGED refresher

\* Faulty variant: the update lacks "and status = 'running'".
SaveAnyRow(j) ==
    /\ \E o \in {"complete", "failed"} :
          /\ save[j] = o
          /\ Execute([working EXCEPT ![j].status = o, ![j].lapsed = FALSE])
    /\ save' = [save EXCEPT ![j] = "commit"]
    /\ UNCHANGED erase
    /\ ThreadUnchanged

\* complete_job and fail_job update the row if it is running.
SaveExecutes(j) ==
    /\ \E o \in {"complete", "failed"} :
          /\ save[j] = o
          /\ Execute(IF working[j].status = "running"
                     THEN [working EXCEPT ![j].status = o, ![j].lapsed = FALSE]
                     ELSE working)
    /\ save' = [save EXCEPT ![j] = "commit"]
    /\ UNCHANGED erase
    /\ ThreadUnchanged

SaveCommits(j) ==
    /\ save[j] = "commit"
    /\ Commit
    /\ save' = [save EXCEPT ![j] = "done"]
    /\ UNCHANGED erase
    /\ ThreadUnchanged

SaveRaises(j) ==
    /\ broken
    /\ save[j] \in {"complete", "failed"}
    /\ save' = [save EXCEPT ![j] = "raised"]
    /\ UNCHANGED <<table, erase>>
    /\ ThreadUnchanged

\* A queued row is cancelled.
EraseFirst(j, c) ==
    /\ erase[j][c].at = "first"
    /\ Execute(IF working[j].status = "queued"
               THEN [working EXCEPT ![j].status = "cancelled", ![j].cancel = TRUE,
                                    ![j].lapsed = FALSE]
               ELSE working)
    /\ erase' = [erase EXCEPT ![j][c].at = "second"]
    /\ UNCHANGED save
    /\ ThreadUnchanged

\* A running row is only marked.  The select that follows is part of this step:
\* its reader asks no more than whether the row is there and cancelled.
EraseSecond(j, c) ==
    /\ erase[j][c].at = "second"
    /\ Execute(IF working[j].status = "running"
               THEN [working EXCEPT ![j].cancel = TRUE] ELSE working)
    /\ erase' = [erase EXCEPT ![j][c] = [at |-> "commit", saw |-> working[j].status]]
    /\ UNCHANGED save
    /\ ThreadUnchanged

EraseCommits(j, c) ==
    /\ erase[j][c].at = "commit"
    /\ Commit
    /\ erase' = [erase EXCEPT ![j][c].at = "done"]
    /\ UNCHANGED save
    /\ ThreadUnchanged

EraseRaises(j, c) ==
    /\ broken
    /\ erase[j][c].at \in {"first", "second"}
    /\ erase' = [erase EXCEPT ![j][c].at = "raised"]
    /\ UNCHANGED <<table, save>>
    /\ ThreadUnchanged

(***************************************************************************)
(* _process, in the event loop.                                            *)
(***************************************************************************)
ProcessUnchanged == UNCHANGED <<table, created, posts, drain, taken, read, crashes>>

\* Faulty variant: every cancelled job is reported as cancelled at once.
CacheAlwaysCancels(j, saw) ==
    /\ asked' = [asked EXCEPT ![j] = TRUE]
    /\ reported' = [reported EXCEPT ![j] = "cancelled"]
    /\ silent' = silent \ {j}

\* How a store.cancel() that found the job leaves the cache: only a job that is
\* cancelled gets an event.
CacheCancels(j, saw) ==
    /\ asked' = [asked EXCEPT ![j] = TRUE]
    /\ reported' = [reported EXCEPT ![j] = IF saw = "cancelled" \/ @ = "unknown" THEN saw ELSE @]
    /\ silent' = IF saw = "cancelled" THEN silent \ {j}
                 ELSE IF reported[j] = "unknown" THEN silent \cup {j} ELSE silent

ProcessBecomes(j, to) == process' = [process EXCEPT ![j] = to]
StartSave(j, o) == save' = [save EXCEPT ![j] = o]
EraseEnds(j, c) == erase' = [erase EXCEPT ![j][c] = NoErase]
StartErase(j, c) == erase' = [erase EXCEPT ![j][c] = [at |-> "first", saw |-> "absent"]]

\* _process returns or raises.  Its finally clause cancels the refresher and awaits it,
\* which lets an exception of the refresher out.
ProcessLeaves(j, to) ==
    /\ ProcessBecomes(j, IF refresher[j] = "raised" THEN "dead" ELSE to)
    /\ refresher' = [refresher EXCEPT ![j] = "ended"]

ProcessStarts(j) ==
    /\ process[j] = "scheduled"
    /\ ProcessBecomes(j, "working")
    /\ refresher' = [refresher EXCEPT ![j] = "asleep"]
    /\ UNCHANGED <<save, erase, cache>>
    /\ ProcessUnchanged

\* The workflow returns, raises or times out.
WorkflowEnds(j) ==
    /\ process[j] = "working"
    /\ \/ ~ asked[j] /\ ProcessBecomes(j, "completing") /\ StartSave(j, "complete") /\ UNCHANGED erase
       \/ asked[j] /\ ProcessBecomes(j, "withdrawing") /\ StartErase(j, "body") /\ UNCHANGED save
       \/ ProcessBecomes(j, "failing") /\ StartSave(j, "failed") /\ UNCHANGED erase
    /\ UNCHANGED <<refresher, cache>>
    /\ ProcessUnchanged

\* Faulty variant: a set_failed that raises is tried again.
ProcessSavedRetries(j) ==
    /\ \/ /\ process[j] \in {"completing", "failing"} /\ save[j] = "done"
          /\ ProcessLeaves(j, "ended")
          /\ reported' = [reported EXCEPT ![j] = IF process[j] = "failing" THEN "failed"
                                                 ELSE "complete"]
          /\ StartSave(j, "idle")
       \/ /\ process[j] \in {"completing", "failing"} /\ save[j] = "raised"
          /\ ProcessBecomes(j, "failing")
          /\ StartSave(j, "failed")
          /\ UNCHANGED <<refresher, reported>>
    /\ UNCHANGED <<erase, asked, silent>>
    /\ ProcessUnchanged

\* set_complete and set_failed report whether or not the update found its row.
\* An exception of set_complete is handled by set_failed; one of set_failed is not.
ProcessSaved(j) ==
    /\ \/ /\ process[j] = "completing" /\ save[j] = "done"
          /\ ProcessLeaves(j, "ended")
          /\ reported' = [reported EXCEPT ![j] = "complete"]
          /\ StartSave(j, "idle")
       \/ /\ process[j] = "completing" /\ save[j] = "raised"
          /\ ProcessBecomes(j, "failing")
          /\ StartSave(j, "failed")
          /\ UNCHANGED <<refresher, reported>>
       \/ /\ process[j] = "failing" /\ save[j] = "done"
          /\ ProcessLeaves(j, "ended")
          /\ reported' = [reported EXCEPT ![j] = "failed"]
          /\ StartSave(j, "idle")
       \/ /\ process[j] = "failing" /\ save[j] = "raised"
          /\ ProcessLeaves(j, "dead")
          /\ StartSave(j, "idle")
          /\ UNCHANGED reported
    /\ UNCHANGED <<erase, asked, silent>>
    /\ ProcessUnchanged

\* cancel_job found the row.
Erased(t) == t.at = "done" /\ t.saw # "absent"
\* It raised, or JobNotFoundError did.
EraseFailed(t) == t.at = "raised" \/ (t.at = "done" /\ t.saw = "absent")

ErasedFor(j, c) ==
    /\ process[j] = IF c = "body" THEN "withdrawing" ELSE "cancelling"
    /\ \/ /\ Erased(erase[j][c])
          /\ ProcessLeaves(j, "ended")
          /\ CacheCancels(j, erase[j][c].saw)
          /\ UNCHANGED save
       \/ /\ EraseFailed(erase[j][c]) /\ c = "body"
          /\ ProcessBecomes(j, "failing")
          /\ StartSave(j, "failed")
          /\ UNCHANGED <<refresher, cache>>
       \/ /\ EraseFailed(erase[j][c]) /\ c = "handler"
          /\ ProcessLeaves(j, "dead")
          /\ UNCHANGED <<save, cache>>
    /\ EraseEnds(j, c)
    /\ ProcessUnchanged

ProcessErased(j) == \E c \in Slots : ErasedFor(j, c)

\* The workflow's own writes (save_incident, save_audit, save_result) commit on the
\* same connection; one that raises ends the workflow, or is caught by it.
WorkflowCommits(j) ==
    /\ process[j] = "working"
    /\ ~ broken
    /\ Commit
    /\ UNCHANGED <<refresher, save, erase>>
    /\ LoopUnchanged

(***************************************************************************)
(* refresh_job and _refresh_lease.                                         *)
(***************************************************************************)
Refreshes(j, to) ==
    /\ process[j] \in Started
    /\ refresher[j] = "asleep"
    /\ refresher' = [refresher EXCEPT ![j] = to]
    /\ UNCHANGED <<save, erase>>
    /\ LoopUnchanged

\* The update and its commit are one step: a commit of what other threads execute
\* between them is the next refresh.  A refresher that finds no running row returns.
RefreshCommits(j) ==
    LET runs == working[j].status = "running" IN
    /\ Refreshes(j, IF runs THEN "asleep" ELSE "ended")
    /\ ~ broken
    /\ working' = IF runs THEN [working EXCEPT ![j].lapsed = FALSE] ELSE working
    /\ committed' = working'
    /\ UNCHANGED broken

RefreshRaises(j) ==
    /\ Refreshes(j, "raised")
    /\ broken
    /\ UNCHANGED table

(***************************************************************************)
(* DELETE and GET.                                                         *)
(***************************************************************************)
\* Some client knows the job's id: from its own POST, or from repeating another's.
Known(j) ==
    \/ submit[j] = "accepted"
    \/ \E k \in Jobs : submit[k] = "known" /\ found[k].job = j

DeleteArrives(j, c) ==
    /\ j \in Deletable /\ Known(j)
    /\ erase[j][c].at = "idle"
    /\ StartErase(j, c)
    /\ UNCHANGED <<process, refresher, save, cache>>
    /\ ProcessUnchanged

\* Where a CancelledError takes _process: into its except clause, which calls
\* store.cancel(), or, raised inside a clause or before the first step, out of it.
\* The thread it was waiting for goes on.  A workflow that ended meanwhile, or that
\* swallows the cancellation, goes on as well.
Interrupted(j, c) ==
    \/ /\ process[j] \in {"working", "completing", "withdrawing"}
       /\ ProcessBecomes(j, "cancelling")
       /\ UNCHANGED refresher
       /\ erase' = [erase EXCEPT ![j][c] = NoErase,
                                 ![j]["handler"] = [at |-> "first", saw |-> "absent"]]
    \/ /\ process[j] \in {"scheduled", "failing", "cancelling"}
       /\ ProcessLeaves(j, "dead")
       /\ EraseEnds(j, c)
    \/ /\ process[j] = "working"
       /\ EraseEnds(j, c)
       /\ UNCHANGED <<process, refresher>>

DeleteReturns(j, c) ==
    /\ \/ /\ Erased(erase[j][c])
          /\ CacheCancels(j, erase[j][c].saw)
          /\ IF process[j] \in Alive THEN Interrupted(j, c)
             ELSE EraseEnds(j, c) /\ UNCHANGED <<process, refresher>>
       \/ /\ EraseFailed(erase[j][c])
          /\ EraseEnds(j, c)
          /\ UNCHANGED <<process, refresher, cache>>
    /\ UNCHANGED save
    /\ ProcessUnchanged

GetUnchanged == UNCHANGED <<table, created, posts, drain, taken, process, refresher, save, erase, crashes>>

GetReads(j, c) ==
    /\ j \in Readable /\ Known(j)
    /\ read[j][c] = NoSnapshot
    /\ ~ broken
    /\ RowExists(working[j])
    /\ read' = [read EXCEPT ![j][c] = Snapshot(j)]
    /\ UNCHANGED cache
    /\ GetUnchanged

\* The handler overwrites the cache with its snapshot, however old that is.
GetReturns(j, c) ==
    /\ read[j][c] # NoSnapshot
    /\ reported' = [reported EXCEPT ![j] = read[j][c].status]
    /\ asked' = [asked EXCEPT ![j] = read[j][c].cancel]
    /\ silent' = silent \ {j}
    /\ read' = [read EXCEPT ![j][c] = NoSnapshot]
    /\ GetUnchanged

(***************************************************************************)
(* Time and crashes.                                                       *)
(***************************************************************************)
\* A lease of 180 seconds outlives a process that refreshes it every 60 and is
\* stopped after 120: it lapses only when nobody works on the job any more.
Idle(t) == t \in {"idle", "done", "raised"}
LeaseLapses(j) ==
    /\ committed[j].status = "running" \/ working[j].status = "running"
    /\ process[j] \notin Alive
    /\ Idle(save[j]) /\ \A c \in Slots : Idle(erase[j][c].at)
    /\ ~ (drain \in {"commit", "claimed"} /\ taken = j)
    /\ committed' = [committed EXCEPT ![j].lapsed = committed[j].status = "running"]
    /\ working' = [working EXCEPT ![j].lapsed = working[j].status = "running"]
    /\ UNCHANGED <<broken, refresher, save, erase>>
    /\ LoopUnchanged

\* The process dies and starts again: the server rolls the transaction back.
Crash ==
    /\ crashes < MaxCrashes
    /\ crashes' = crashes + 1
    /\ Rollback
    /\ submit' = [j \in Jobs |-> IF submit[j] \in {"count", "insert", "commit", "inserted",
                                                   "commit known", "found"}
                                 THEN "lost" ELSE submit[j]]
    /\ found' = [j \in Jobs |-> [found[j] EXCEPT !.seen = NoSnapshot]]
    /\ drain' = "none"
    /\ taken' = NoJob
    /\ process' = [j \in Jobs |-> "none"]
    /\ refresher' = [j \in Jobs |-> "ended"]
    /\ save' = [j \in Jobs |-> "idle"]
    /\ erase' = EraseIdle
    /\ read' = Unread
    /\ reported' = [j \in Jobs |-> "unknown"]
    /\ asked' = [j \in Jobs |-> FALSE]
    /\ silent' = {}
    /\ UNCHANGED created

(***************************************************************************)
(* The specification.                                                      *)
(***************************************************************************)
SubmitStep(j) ==
    \/ SubmitCounts(j)
    \/ SubmitInserts(j)
    \/ SubmitCommits(j)
    \/ SubmitFinds(j)
    \/ SubmitKnows(j)
    \/ SubmitReturns(j)

DrainStep ==
    \/ ClaimRecovers
    \/ ClaimTakes
    \/ ClaimCommits
    \/ ClaimRaises
    \/ DrainStarts
    \/ DrainContinues

SaveStep(j) == SaveExecutes(j) \/ SaveCommits(j) \/ SaveRaises(j)

EraseStep(j, c) ==
    \/ EraseFirst(j, c)
    \/ EraseSecond(j, c)
    \/ EraseCommits(j, c)
    \/ EraseRaises(j, c)

ProcessStep(j) ==
    \/ ProcessStarts(j)
    \/ WorkflowEnds(j)
    \/ ProcessSaved(j)
    \/ ProcessErased(j)

RefreshStep(j) == RefreshCommits(j) \/ RefreshRaises(j)

ClientStep(j, c) ==
    \/ DeleteArrives(j, c)
    \/ DeleteReturns(j, c)
    \/ GetReads(j, c)
    \/ GetReturns(j, c)

Next ==
    \/ DrainStep
    \/ \E j \in Jobs :
          \/ SubmitSelects(j)
          \/ SubmitStep(j)
          \/ SaveStep(j)
          \/ \E c \in Callers : EraseStep(j, c)
          \/ ProcessStep(j)
          \/ WorkflowCommits(j)
          \/ RefreshStep(j)
          \/ \E c \in Clients : ClientStep(j, c)
          \/ LeaseLapses(j)
    \/ Crash

Spec == Init /\ [][Next]_vars

\* The drain, the job it awaits and that job's threads go on; the timer ends the
\* workflow.  Nothing is asked of POSTs, clients and leases.
Fairness ==
    /\ WF_vars(DrainStep)
    /\ \A j \in Jobs :
          /\ WF_vars(SaveStep(j))
          /\ \A c \in Slots : WF_vars(EraseStep(j, c))
          /\ WF_vars(ProcessStep(j))

FairSpec == Spec /\ Fairness

(***************************************************************************)
(* Safety.                                                                 *)
(***************************************************************************)
\* The table never holds two running jobs, neither in an open transaction nor
\* after a commit: the index analysis_jobs_one_running_idx is never put to the test.
OneRunningRow ==
    \A rows \in {committed, working} :
       \A i, j \in Jobs : rows[i].status = "running" /\ rows[j].status = "running" => i = j

\* However the process dies, a job is executed at most MaxAttempts times
\* (repository.py:394-395, the check on attempt_count in schema.sql).
AttemptsBounded ==
    \A j \in Jobs : committed[j].attempts <= MaxAttempts /\ working[j].attempts <= MaxAttempts

\* As long as no POST was refused or failed - those throw away what other threads
\* have not committed yet - an outcome that the API reports is the one in the
\* table, in spite of old snapshots, detached threads and repeated DELETEs.
ReportedIsStored ==
    (\A k \in Jobs : submit[k] \notin {"refused", "error"}) =>
       \A j \in Jobs : reported[j] \in TERMINAL => working[j].status = reported[j]

\* An outcome that has been committed is final, whatever an older process, a
\* detached thread or another claim still does to the job.
CommittedIsFinal ==
    [][\A j \in Jobs : committed[j].status \in TERMINAL
                          => committed'[j].status = committed[j].status]_vars

\* A job whose cancellation has been committed is not handed out again, not even
\* when its process died while it was running and its lapsed row is requeued by the
\* very transaction that looks for a job (repository.py:394-398): no claim takes it,
\* and no claim of it, counted in attempt_count, is ever committed.
CancelledNeverClaimed ==
    [][\A j \in Jobs : committed[j].cancel =>
          /\ taken' = j => taken = j
          /\ committed'[j].attempts = committed[j].attempts]_vars

(***************************************************************************)
(* Liveness, under FairSpec.                                               *)
(***************************************************************************)
\* The drain is never held up by a job: whatever its threads meet on the shared
\* connection, and however it is cancelled, the task that _drain awaits ends.
AwaitedEnds == drain = "awaiting" ~> drain # "awaiting"

(***************************************************************************)
(* What the documentation says and the code does not do.                   *)
(***************************************************************************)
\* queue.py:173: the queue is durable, so a job that was accepted is stored.
AcceptedIsStored == \A j \in Jobs : submit[j] = "accepted" => RowExists(committed[j])
=============================================================================
