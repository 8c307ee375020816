---------------------------- MODULE Coordinator ----------------------------
(***************************************************************************)
(* The in-memory analysis queue of app/services/queue.py: InMemoryJobStore *)
(* and AnalysisCoordinator, with the asyncio tasks that run a job and the  *)
(* HTTP handlers of app/main.py that submit, cancel, await and stream it.  *)
(*                                                                         *)
(* An action is one step of one asyncio task or callback: what it executes *)
(* between two suspensions.  The store's methods hold an asyncio.Lock but  *)
(* never suspend inside it, so each of them is part of its caller's step.  *)
(*                                                                         *)
(* _process awaits the workflow through asyncio.wait_for, which (Python    *)
(* 3.11, the version the Dockerfile pins) runs it in a task of its own:    *)
(* task[j] is where _process is, workflow[j] is where that inner task is.  *)
(***************************************************************************)
EXTENDS Naturals, Sequences, FiniteSets

CONSTANTS
    Jobs,           \* the job ids that uuid4() may hand out
    Requests,       \* the client_request_id values that clients send
    NoJob,          \* stands for "no job"
    NoRequest,      \* client_request_id is None
    Watched,        \* the jobs whose clients may open an event stream
    QueueCapacity   \* Settings.queue_capacity: waiting jobs behind the running one

ASSUME QueueCapacityAssumption == QueueCapacity \in Nat
ASSUME JobsAssumption == IsFiniteSet(Jobs) /\ NoJob \notin Jobs
ASSUME RequestsAssumption == NoRequest \notin Requests

VARIABLES
    \* InMemoryJobStore and its JobRecords
    jobs,            \* the keys of _jobs, in insertion (created_at) order
    order,           \* _order, the deque the drain pops
    status,          \* JobRecord.status, or "absent" before create
    request,         \* JobRecord.client_request_id
    cancelRequested, \* JobRecord.cancel_requested
    events,          \* JobRecord.events: the status each event reports
    changed,         \* JobRecord.changed: the asyncio.Event is set
    \* AnalysisCoordinator's tasks
    drain,           \* where _drain_task is
    awaited,         \* the job whose task _drain awaits, or NoJob
    task,            \* where the _process task of the job is
    workflow,        \* where the inner task of wait_for is
    \* handlers
    waiter,          \* the /analyze handler inside wait(), or what it answered
    stream,          \* where the events() generator of the job is
    sent             \* its index: how many events it has yielded

storeVars == <<jobs, order, status, request, cancelRequested, events, changed>>
taskVars == <<drain, awaited, task, workflow>>
handlerVars == <<waiter, stream, sent>>
vars == <<jobs, order, status, request, cancelRequested, events, changed,
          drain, awaited, task, workflow, waiter, stream, sent>>

(***************************************************************************)
(* States.                                                                 *)
(***************************************************************************)
TERMINAL_STATUSES == {"complete", "failed", "cancelled"}
Statuses == {"absent", "queued", "running"} \cup TERMINAL_STATUSES

\* "ready": the task exists and its next step calls claim_next.
DrainStates == {"none", "ready", "awaiting", "returned", "cancelled"}

\* scheduled    create_task(_process) ran, the first step has not
\* doomed       cancelled before its first step: it will never run
\* waiting      in wait_for, nothing has happened to it
\* interrupted  in wait_for, its CancelledError is on the way
\* timed_out    in wait_for, the timer fired
\* stopping     wait_for cancelled the workflow for a CancelledError and awaits it
\* expiring     wait_for cancelled the workflow for the timeout and awaits it
\* abandoning   a CancelledError is on the way while stopping or expiring
\* finished, dead   returned, or ended as a cancelled task
InWaitFor == {"waiting", "interrupted", "timed_out"}
Unfinished == {"scheduled", "doomed", "stopping", "expiring", "abandoning"} \cup InWaitFor
TaskStates == {"none", "finished", "dead"} \cup Unfinished

Ended == {"returned", "raised", "cancelled"}
WorkflowStates == {"none", "active", "unwinding"} \cup Ended

StreamStates == {"closed", "sending", "listening", "closing"}

Terminal(j) == status[j] \in TERMINAL_STATUSES
Submitted == {j \in Jobs : status[j] # "absent"}
Loaded == {j \in Jobs : status[j] \in {"queued", "running"}}

TypeOK ==
    /\ jobs \in Seq(Jobs)
    /\ order \in Seq(Jobs)
    /\ status \in [Jobs -> Statuses]
    /\ request \in [Jobs -> Requests \cup {NoRequest}]
    /\ cancelRequested \in [Jobs -> BOOLEAN]
    /\ events \in [Jobs -> Seq(Statuses)]
    /\ changed \in [Jobs -> BOOLEAN]
    /\ drain \in DrainStates
    /\ awaited \in Jobs \cup {NoJob}
    /\ task \in [Jobs -> TaskStates]
    /\ workflow \in [Jobs -> WorkflowStates]
    /\ waiter \in [Jobs -> {"none", "parked"} \cup TERMINAL_STATUSES]
    /\ stream \in [Jobs -> StreamStates]
    /\ sent \in [Jobs -> Nat]

Init ==
    /\ jobs = <<>>
    /\ order = <<>>
    /\ status = [j \in Jobs |-> "absent"]
    /\ request = [j \in Jobs |-> NoRequest]
    /\ cancelRequested = [j \in Jobs |-> FALSE]
    /\ events = [j \in Jobs |-> <<>>]
    /\ changed = [j \in Jobs |-> FALSE]
    /\ drain = "none"
    /\ awaited = NoJob
    /\ task = [j \in Jobs |-> "none"]
    /\ workflow = [j \in Jobs |-> "none"]
    /\ waiter = [j \in Jobs |-> "none"]
    /\ stream = [j \in Jobs |-> "closed"]
    /\ sent = [j \in Jobs |-> 0]

(***************************************************************************)
(* InMemoryJobStore.                                                       *)
(***************************************************************************)
\* _emit_locked: the status, the event and the wake-up always go together.
Emit(j, s) ==
    /\ status' = [status EXCEPT ![j] = s]
    /\ events' = [events EXCEPT ![j] = Append(@, s)]
    /\ changed' = [changed EXCEPT ![j] = TRUE]

\* Faulty variant (ended jobs forgotten), for mutation checks.
AdmitsEndedRequest(r) ==
    /\ r = NoRequest \/ \A k \in Loaded : request[k] # r
    /\ Cardinality(Loaded) < 1 + QueueCapacity

\* create() finds no job with this client_request_id and room for one more.
\* (For a known request id it returns the existing record: no state changes.)
Admits(r) ==
    /\ r = NoRequest \/ \A k \in Submitted : request[k] # r
    /\ Cardinality(Loaded) < 1 + QueueCapacity

\* Faulty variant: appendleft instead of append.
CreateAtFront(j, r) ==
    /\ status[j] = "absent"
    /\ Admits(r)
    /\ jobs' = Append(jobs, j)
    /\ order' = <<j>> \o order
    /\ request' = [request EXCEPT ![j] = r]

Create(j, r) ==
    /\ status[j] = "absent"
    /\ Admits(r)
    /\ jobs' = Append(jobs, j)
    /\ order' = Append(order, j)
    /\ request' = [request EXCEPT ![j] = r]

\* Faulty variant: the status of the popped job is not looked at.
ClaimableAnyStatus(i) ==
    /\ \A k \in Jobs : status[k] # "running"
    /\ i = 1

\* claim_next pops _order up to and including the first job still queued.
Claimable(i) ==
    /\ \A k \in Jobs : status[k] # "running"
    /\ status[order[i]] = "queued"
    /\ \A k \in 1 .. i - 1 : status[order[k]] # "queued"

\* set_complete and set_failed write whatever the status is.
StoreSet(j, s) ==
    /\ Emit(j, s)
    /\ UNCHANGED cancelRequested

StoreCancel(j) ==
    \/ /\ status[j] \in {"queued", "running"}
       /\ cancelRequested' = [cancelRequested EXCEPT ![j] = @ \/ status[j] = "running"]
       /\ Emit(j, "cancelled")
    \/ /\ status[j] \notin {"queued", "running"}
       /\ UNCHANGED <<status, events, changed, cancelRequested>>

\* position: how many queued jobs were created no later than this one.
CreatedAt(j) == CHOOSE i \in DOMAIN jobs : jobs[i] = j
Position(j) ==
    Cardinality({k \in Submitted : status[k] = "queued" /\ CreatedAt(k) <= CreatedAt(j)})

(***************************************************************************)
(* Submitting and cancelling: the HTTP handlers.                           *)
(***************************************************************************)
DrainDone == drain \in {"none", "returned", "cancelled"}

\* Faulty variants: a new drain next to a live one; no new drain after the first.
EnsureAnotherDrain ==
    /\ drain' = "ready"
    /\ UNCHANGED <<awaited, task, workflow>>
EnsureFirstDrain ==
    /\ drain' = IF drain = "none" THEN "ready" ELSE drain
    /\ UNCHANGED <<awaited, task, workflow>>

\* _ensure_drain, called only when create() made a new job.
EnsureDrain ==
    /\ drain' = IF DrainDone THEN "ready" ELSE drain
    /\ UNCHANGED <<awaited, task, workflow>>

\* POST .../jobs, detect, inject, approve: submit and answer with the job id.
Submit(j, r) ==
    /\ Create(j, r)
    /\ Emit(j, "queued")
    /\ EnsureDrain
    /\ UNCHANGED <<cancelRequested, handlerVars>>

\* POST /analyze: submit, then wait().  The event that create() set does not
\* suspend wait(), which clears it and parks, all in the handler's first step.
Analyze(j) ==
    /\ Create(j, NoRequest)
    /\ status' = [status EXCEPT ![j] = "queued"]
    /\ events' = [events EXCEPT ![j] = Append(@, "queued")]
    /\ changed' = [changed EXCEPT ![j] = FALSE]
    /\ EnsureDrain
    /\ waiter' = [waiter EXCEPT ![j] = "parked"]
    /\ UNCHANGED <<cancelRequested, stream, sent>>

\* The handler of /analyze keeps the job id to itself.
Known(j) == j \in Submitted /\ waiter[j] = "none"

\* What Task.cancel() makes of a _process task.
Interrupt(t) ==
    IF t \in {"scheduled", "doomed"} THEN "doomed"
    ELSE IF t \in InWaitFor THEN "interrupted"
    ELSE "abandoning"

\* _running_tasks holds the task that _drain awaits; cancel() cancels it unless done.
Cancel(j) ==
    /\ Known(j)
    /\ StoreCancel(j)
    /\ task' = IF drain = "awaiting" /\ awaited = j /\ task[j] \in Unfinished
               THEN [task EXCEPT ![j] = Interrupt(@)] ELSE task
    /\ UNCHANGED <<jobs, order, request, drain, awaited, workflow, handlerVars>>

(***************************************************************************)
(* _drain: one step from one await of a _process task to the next.         *)
(***************************************************************************)
\* The loop is at claim_next: a new task, or the awaited task has returned.
AtClaim == \/ drain = "ready"
           \/ drain = "awaiting" /\ task[awaited] = "finished"

DrainClaims ==
    /\ AtClaim
    /\ \E i \in DOMAIN order :
          /\ Claimable(i)
          /\ order' = SubSeq(order, i + 1, Len(order))
          /\ Emit(order[i], "running")
          /\ task' = [task EXCEPT ![order[i]] = "scheduled"]
          /\ awaited' = order[i]
    /\ drain' = "awaiting"
    /\ UNCHANGED <<jobs, request, cancelRequested, workflow, handlerVars>>

\* claim_next returns None: it has emptied _order, unless a job is running.
DrainReturns ==
    /\ AtClaim
    /\ ~ \E i \in DOMAIN order : Claimable(i)
    /\ order' = IF \E k \in Jobs : status[k] = "running" THEN order ELSE <<>>
    /\ drain' = "returned"
    /\ awaited' = NoJob
    /\ UNCHANGED <<jobs, status, request, cancelRequested, events, changed,
                   task, workflow, handlerVars>>

\* Awaiting a task that ended cancelled raises CancelledError in _drain, which
\* only has a finally clause: the drain ends, whatever is still queued.
DrainDies ==
    /\ drain = "awaiting" /\ task[awaited] = "dead"
    /\ drain' = "cancelled"
    /\ awaited' = NoJob
    /\ UNCHANGED <<storeVars, task, workflow, handlerVars>>

(***************************************************************************)
(* _process and wait_for.                                                  *)
(***************************************************************************)
ProcessUnchanged == UNCHANGED <<jobs, order, request, drain, awaited, handlerVars>>

\* The first step enters wait_for, which starts the workflow.
ProcessStarts(j) ==
    /\ task[j] = "scheduled"
    /\ task' = [task EXCEPT ![j] = "waiting"]
    /\ workflow' = [workflow EXCEPT ![j] = "active"]
    /\ UNCHANGED <<status, events, changed, cancelRequested>>
    /\ ProcessUnchanged

\* Cancelled before the first step, the coroutine never reaches its try block.
ProcessNeverStarts(j) ==
    /\ task[j] = "doomed"
    /\ task' = [task EXCEPT ![j] = "dead"]
    /\ UNCHANGED <<workflow, status, events, changed, cancelRequested>>
    /\ ProcessUnchanged

\* workflow.analyze ends; _process learns of it only in a later step.
WorkflowEnds(j) ==
    /\ workflow[j] = "active"
    /\ \E e \in {"returned", "raised"} : workflow' = [workflow EXCEPT ![j] = e]
    /\ UNCHANGED <<storeVars, drain, awaited, task, handlerVars>>

\* A cancelled workflow ends cancelled, unless a wait_for of its own (the LLM
\* provider's) swallows the cancellation: then it returns or raises.
WorkflowUnwinds(j) ==
    /\ workflow[j] = "unwinding"
    /\ \E e \in Ended : workflow' = [workflow EXCEPT ![j] = e]
    /\ UNCHANGED <<storeVars, drain, awaited, task, handlerVars>>

\* Faulty variant: no timeout is passed to wait_for.
TimerNeverFires(j) == workflow[j] = "absent" /\ UNCHANGED vars

\* The timer of wait_for, set to timeout_seconds.
TimerFires(j) ==
    /\ task[j] = "waiting"
    /\ workflow[j] = "active"
    /\ task' = [task EXCEPT ![j] = "timed_out"]
    /\ UNCHANGED <<storeVars, drain, awaited, workflow, handlerVars>>

\* wait_for resumes for the timer or a CancelledError before the workflow ended:
\* it cancels the workflow and awaits its end.
ProcessStopsWorkflow(j) ==
    /\ workflow[j] = "active"
    /\ \/ task[j] = "interrupted" /\ task' = [task EXCEPT ![j] = "stopping"]
       \/ task[j] = "timed_out" /\ task' = [task EXCEPT ![j] = "expiring"]
    /\ workflow' = [workflow EXCEPT ![j] = "unwinding"]
    /\ UNCHANGED <<status, events, changed, cancelRequested>>
    /\ ProcessUnchanged

\* Faulty variant: cancel_requested is not looked at.
RecordsAnyResult(j, e) ==
    IF e = "returned" THEN StoreSet(j, "complete") ELSE StoreSet(j, "failed")

\* wait_for hands on what the workflow did, although it was interrupted or timed
\* out meanwhile: a result, an exception, or its own cancellation as TimeoutError.
Records(j, e) ==
    IF e # "returned" THEN StoreSet(j, "failed")
    ELSE IF cancelRequested[j] THEN StoreCancel(j)
    ELSE StoreSet(j, "complete")

ProcessRecords(j) ==
    /\ task[j] \in InWaitFor \cup {"expiring"}
    /\ workflow[j] \in Ended
    /\ Records(j, workflow[j])
    /\ task' = [task EXCEPT ![j] = "finished"]
    /\ UNCHANGED workflow
    /\ ProcessUnchanged

\* CancelledError leaves wait_for: the workflow has been awaited, or (a second
\* cancellation) is left behind while it still unwinds.
ProcessCancelled(j) ==
    /\ \/ task[j] = "stopping" /\ workflow[j] \in Ended
       \/ task[j] = "abandoning"
    /\ StoreCancel(j)
    /\ task' = [task EXCEPT ![j] = "finished"]
    /\ UNCHANGED workflow
    /\ ProcessUnchanged

(***************************************************************************)
(* wait() and events().                                                    *)
(***************************************************************************)
\* Faulty variant: wait() answers at the first wake-up (if instead of while).
WaiterAnswersAtOnce(j) ==
    /\ waiter[j] = "parked"
    /\ changed[j]
    /\ changed' = [changed EXCEPT ![j] = FALSE]
    /\ waiter' = [waiter EXCEPT ![j] = status[j]]
    /\ UNCHANGED <<jobs, order, status, request, cancelRequested, events,
                   taskVars, stream, sent>>

\* The handler wakes, clears the event and looks at the status again.
WaiterWakes(j) ==
    /\ waiter[j] = "parked"
    /\ changed[j]
    /\ changed' = [changed EXCEPT ![j] = FALSE]
    /\ waiter' = [waiter EXCEPT ![j] = IF Terminal(j) THEN status[j] ELSE @]
    /\ UNCHANGED <<jobs, order, status, request, cancelRequested, events,
                   taskVars, stream, sent>>

StreamUnchanged == UNCHANGED <<jobs, order, status, request, cancelRequested,
                               events, taskVars, waiter>>

\* The stream takes the record if no other stream owns it (a second one is
\* refused) and yields the first event.
StreamOpens(j) ==
    /\ j \in Watched
    /\ Known(j)
    /\ stream[j] = "closed"
    /\ stream' = [stream EXCEPT ![j] = "sending"]
    /\ sent' = [sent EXCEPT ![j] = 1]
    /\ UNCHANGED changed
    /\ StreamUnchanged

\* Faulty variants: the event is cleared without another look at the list; the
\* final status is not looked at.
StreamClearsBlindly(j) ==
    /\ stream[j] = "sending"
    /\ ~ Terminal(j)
    /\ stream' = [stream EXCEPT ![j] = "listening"]
    /\ changed' = [changed EXCEPT ![j] = FALSE]
    /\ UNCHANGED sent
    /\ StreamUnchanged
StreamListensOn(j) ==
    /\ \/ stream[j] = "sending"
       \/ stream[j] = "listening" /\ changed[j]
    /\ \/ /\ sent[j] < Len(events[j])
          /\ sent' = [sent EXCEPT ![j] = @ + 1]
          /\ stream' = [stream EXCEPT ![j] = "sending"]
          /\ UNCHANGED changed
       \/ /\ sent[j] >= Len(events[j])
          /\ stream' = [stream EXCEPT ![j] = "listening"]
          /\ changed' = [changed EXCEPT ![j] = FALSE]
          /\ UNCHANGED sent
    /\ StreamUnchanged

\* The client took the event, or the record changed: yield the next event, else
\* end after a terminal status, else clear the asyncio.Event and listen.
StreamContinues(j) ==
    /\ \/ stream[j] = "sending"
       \/ stream[j] = "listening" /\ changed[j]
    /\ \/ /\ sent[j] < Len(events[j])
          /\ sent' = [sent EXCEPT ![j] = @ + 1]
          /\ stream' = [stream EXCEPT ![j] = "sending"]
          /\ UNCHANGED changed
       \/ /\ sent[j] >= Len(events[j])
          /\ Terminal(j)
          /\ stream' = [stream EXCEPT ![j] = "closed"]
          /\ sent' = [sent EXCEPT ![j] = 0]
          /\ UNCHANGED changed
       \/ /\ sent[j] >= Len(events[j])
          /\ ~ Terminal(j)
          /\ stream' = [stream EXCEPT ![j] = "listening"]
          /\ changed' = [changed EXCEPT ![j] = FALSE]
          /\ UNCHANGED sent
    /\ StreamUnchanged

\* 30 seconds without a change: a heartbeat with the current status.
StreamBeats(j) ==
    /\ stream[j] = "listening"
    /\ stream' = [stream EXCEPT ![j] = "sending"]
    /\ UNCHANGED <<sent, changed>>
    /\ StreamUnchanged

\* The client goes away.  Ownership is released only when the abandoned
\* generator is closed, in a later step.
StreamDrops(j) ==
    /\ stream[j] \in {"sending", "listening"}
    /\ stream' = [stream EXCEPT ![j] = "closing"]
    /\ sent' = [sent EXCEPT ![j] = 0]
    /\ UNCHANGED changed
    /\ StreamUnchanged

StreamReleases(j) ==
    /\ stream[j] = "closing"
    /\ stream' = [stream EXCEPT ![j] = "closed"]
    /\ UNCHANGED <<sent, changed>>
    /\ StreamUnchanged

(***************************************************************************)
(* The specification.                                                      *)
(***************************************************************************)
ClientStep(j) ==
    \/ \E r \in Requests \cup {NoRequest} : Submit(j, r)
    \/ Analyze(j)
    \/ Cancel(j)

DrainStep == DrainClaims \/ DrainReturns \/ DrainDies

ProcessStep(j) ==
    \/ ProcessStarts(j)
    \/ ProcessNeverStarts(j)
    \/ ProcessStopsWorkflow(j)
    \/ ProcessRecords(j)
    \/ ProcessCancelled(j)

StreamStep(j) ==
    \/ StreamOpens(j)
    \/ StreamContinues(j)
    \/ StreamBeats(j)
    \/ StreamDrops(j)
    \/ StreamReleases(j)

Next ==
    \/ DrainStep
    \/ \E j \in Jobs :
          \/ ClientStep(j)
          \/ ProcessStep(j)
          \/ WorkflowEnds(j)
          \/ WorkflowUnwinds(j)
          \/ TimerFires(j)
          \/ WaiterWakes(j)
          \/ StreamStep(j)

Spec == Init /\ [][Next]_vars

\* The event loop runs every ready task and timer; a cancelled workflow unwinds;
\* a connected client reads.  Nobody has to submit, cancel or connect.
Fairness ==
    /\ WF_vars(DrainStep)
    /\ \A j \in Jobs :
          /\ WF_vars(ProcessStep(j))
          /\ WF_vars(WorkflowUnwinds(j))
          /\ WF_vars(TimerFires(j))
          /\ WF_vars(WaiterWakes(j))
          /\ WF_vars(StreamContinues(j))
          /\ WF_vars(StreamReleases(j))

FairSpec == Spec /\ Fairness

(***************************************************************************)
(* Safety.                                                                 *)
(***************************************************************************)
\* At most one investigation executes at any time, one that is being stopped
\* and is still awaited included (queue.py:3-4, _drain awaits each task).
Executing(j) ==
    \/ workflow[j] = "active"
    \/ workflow[j] = "unwinding" /\ task[j] \in {"stopping", "expiring"}
OneWorkflow == \A i, j \in Jobs : Executing(i) /\ Executing(j) => i = j

\* Jobs waiting and in service never exceed one plus the configured capacity,
\* however submissions, cancellations and the drain interleave (queue.py:62-64).
BoundedLoad == Cardinality(Loaded) <= 1 + QueueCapacity

\* A retried POST with the same client_request_id never makes a second job,
\* not even after the first one ended (queue.py:58-61).
RequestIsUnique ==
    \A i, j \in Submitted : request[i] = request[j] /\ request[i] # NoRequest => i = j

\* A drain that finished normally left nothing behind: every queued job still
\* has a drain that will claim it, unless the drain was killed by a cancellation.
QueuedHasDrain ==
    (\E j \in Jobs : status[j] = "queued") => drain \in {"ready", "awaiting", "cancelled"}

\* No wake-up is lost: a handler parked in wait() or events() without a pending
\* wake-up has seen everything there is to see (queue.py:301-304, 340-355).
NoLostWakeup ==
    \A j \in Jobs :
       /\ waiter[j] = "parked" /\ ~ changed[j] => ~ Terminal(j)
       /\ stream[j] = "listening" /\ ~ changed[j] =>
             ~ Terminal(j) /\ sent[j] = Len(events[j])

\* What /analyze answered is how the job ended (queue.py:305-309).
AnswerIsOutcome ==
    \A j \in Jobs : waiter[j] \in TERMINAL_STATUSES => waiter[j] = status[j]

\* The events of a job tell one of seven stories, and end with its status: a
\* stream that replays them from the start, at any time and however often, sees
\* a job that waits, may run, and ends once - but for the exception of a
\* workflow that was cancelled while it ran (queue.py:87-100, 339-355).
Stories ==
    {<<"queued">>, <<"queued", "running">>, <<"queued", "cancelled">>}
        \cup {<<"queued", "running", s>> : s \in TERMINAL_STATUSES}
        \cup {<<"queued", "running", "cancelled", "failed">>}
EventsTellStory ==
    \A j \in Submitted : /\ events[j] \in Stories
                         /\ events[j][Len(events[j])] = status[j]

\* A job that its caller cancelled is never reported complete, whatever its
\* workflow was doing when the cancellation arrived (queue.py:384-389).
CancelledNeverCompletes ==
    [][\A j \in Jobs : status[j] = "cancelled" => status'[j] # "complete"]_vars

\* Service follows the public position: the job that starts is the one whose
\* status endpoint said 1, so no older job is overtaken (queue.py:82-87, 118-121).
StartsInOrder ==
    [][\A j \in Jobs : status[j] = "queued" /\ status'[j] = "running"
                          => Position(j) = 1]_vars

(***************************************************************************)
(* Why it is safe: the inductive strengthening (CoordinatorProofs.tla).    *)
(***************************************************************************)
\* The drain awaits a task from create_task on; every unfinished task is awaited.
DrainAwaitsTask ==
    /\ drain = "awaiting" <=> awaited # NoJob
    /\ drain = "awaiting" => task[awaited] # "none"
    /\ \A j \in Jobs : task[j] \in Unfinished => drain = "awaiting" /\ awaited = j

\* A task that no cancellation has reached serves a running job; a task that one
\* has reached belongs to a job already reported as cancelled.
TaskServesJob ==
    \A j \in Jobs :
       /\ task[j] \in {"scheduled", "waiting", "timed_out", "expiring"} =>
             status[j] = "running" /\ ~ cancelRequested[j]
       /\ task[j] \in {"doomed", "interrupted", "stopping", "abandoning"} =>
             status[j] = "cancelled" /\ cancelRequested[j]
       /\ status[j] = "running" => task[j] \in Unfinished
       /\ status[j] \in {"absent", "queued"} => task[j] = "none"
       /\ cancelRequested[j] => status[j] \in {"cancelled", "failed"}

WorkflowServesTask ==
    \A j \in Jobs : workflow[j] = "active" => task[j] \in InWaitFor

\* The deque may hold jobs that are no longer queued, but misses none that is.
QueuedInOrder ==
    \A j \in Jobs : status[j] = "queued" => \E i \in DOMAIN order : order[i] = j

\* _jobs holds every submitted job once, and _order follows its insertion order.
OrderFollowsJobs ==
    /\ \A m, n \in DOMAIN jobs : jobs[m] = jobs[n] => m = n
    /\ \A j \in Jobs : status[j] # "absent" <=> \E n \in DOMAIN jobs : jobs[n] = j
    /\ \A a \in DOMAIN order : status[order[a]] # "absent"
    /\ \A a, b \in DOMAIN order : a < b =>
          \E m, n \in DOMAIN jobs : m < n /\ jobs[m] = order[a] /\ jobs[n] = order[b]

\* A record has one kind of reader, which never reads past its events.
OneReader ==
    \A j \in Jobs :
       /\ waiter[j] # "none" => stream[j] = "closed" /\ status[j] # "cancelled"
       /\ status[j] = "absent" => stream[j] = "closed" /\ waiter[j] = "none"
       /\ status[j] # "absent" => events[j] # <<>>
       /\ sent[j] <= Len(events[j])

IndInv ==
    /\ TypeOK
    /\ DrainAwaitsTask
    /\ TaskServesJob
    /\ WorkflowServesTask
    /\ QueuedInOrder
    /\ OrderFollowsJobs
    /\ QueuedHasDrain
    /\ BoundedLoad
    /\ RequestIsUnique
    /\ OneReader
    /\ NoLostWakeup
    /\ AnswerIsOutcome

(***************************************************************************)
(* Coordinator implements JobQueue.                                        *)
(***************************************************************************)
\* The line as its clients see it: at place i is the job whose position is i.
QueuedJobs == {j \in Jobs : status[j] = "queued"}
Waiting == [i \in 1 .. Cardinality(QueuedJobs) |-> CHOOSE j \in QueuedJobs : Position(j) = i]
Running == {j \in Jobs : status[j] = "running"}
InService == IF Running = {} THEN NoJob ELSE CHOOSE j \in Running : TRUE
Outcome == [j \in Jobs |-> IF status[j] \in {"queued", "running"} THEN "pending" ELSE status[j]]

Queue == INSTANCE JobQueue WITH line <- Waiting, active <- InService, outcome <- Outcome,
                                log <- events

\* Callers see a bounded first-in first-out line with one job in service and a
\* log that tells all that happened to a job and nothing else, in spite of the
\* lazily emptied deque, the drain task and cancelled tasks (queue.py:50-130).
ImplementsJobQueue == Queue!Spec

(***************************************************************************)
(* Liveness, and what the documentation says and the code does not do.     *)
(***************************************************************************)
\* A running job always ends: the timer of wait_for bounds every workflow, and
\* no cancellation can leave the record running (queue.py:380-393).
RunningEnds == \A j \in Jobs : status[j] = "running" ~> Terminal(j)

\* Every caller of /analyze is answered and every queued job leaves the queue,
\* unless a cancellation kills the drain (queue.py:301-309, 365-375).
QueuedIsServed ==
    \A j \in Jobs : /\ status[j] = "queued" ~> (status[j] # "queued" \/ drain = "cancelled")
                    /\ waiter[j] = "parked" ~> (waiter[j] # "parked" \/ drain = "cancelled")

\* A client that stays connected is brought to the end of the event list: a
\* stream of an ended job ends or is dropped (queue.py:339-359).
StreamEnds ==
    \A j \in Jobs : stream[j] = "sending" /\ Terminal(j) ~> stream[j] = "closed"

\* queue.py:286: the coordinator serializes workflow execution; a job accepted
\* into the queue is therefore served, as tests/test_core.py:284-285 expects.
QueuedIsAlwaysServed == \A j \in Jobs : status[j] = "queued" ~> status[j] # "queued"
=============================================================================
