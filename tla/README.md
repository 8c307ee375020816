# A TLA+ verification of AtlasAI

AtlasAI is an incident-analysis service: a FastAPI application that accepts
incident descriptions, queues them, runs one multi-agent investigation at a time
and, where a Kubernetes cluster is connected and the operator allows it, executes
and verifies a safe remediation. This directory holds TLA+ modules that model its
control, the TLC configurations that check them, and machine-checked proofs.

## 1. Inventory of the system

| Part | Source | State it keeps | Operations | Hard behaviour |
|---|---|---|---|---|
| In-memory job store | `app/services/queue.py` 33-135 | `_jobs`, `_order`, a `JobRecord` per job | create, get, claim_next, set_complete, set_failed, cancel, position | bound, FIFO with a lazily emptied deque, idempotent request ids |
| Analysis coordinator | `app/services/queue.py` 285-404 | the drain task, the awaited `_process` task, one event-stream owner per record | submit, wait, cancel, events, `_drain`, `_process` | asyncio interleavings, cancellation races, timeouts, wake-ups |
| HTTP routes | `app/main.py` 173-322 | none of their own | create_job, analyze, cancel_job, job_events, detect, inject, approve | clients that retry, leave and come back |
| Durable job store | `app/services/queue.py` 172-282, `app/database/repository.py` 350-451, `schema.sql` | rows of `analysis_jobs`, one shared connection, a cache of records | the same, as SQL statements in worker threads, plus lease refresh | statements interleave in one transaction, leases, attempts, restarts |
| Investigation workflow | `app/graph/workflow.py` | the graph state of one run | triage, knowledge, resolution, guardrail, remediation, retry edge, fallback engine | rediagnosis on a stale observation, degraded paths |
| Remediation | `app/remediation/` | none between runs; audit rows | preview, policy, execute, verify, audit | an action without an audit, approval repeated |
| MCP tool server | `app/mcp/` | none | search, execute_safe_action, verify_health | threads that outlive a cancellation |
| Kubernetes service | `app/kubernetes/` | annotations and replica sets of the workload | observe, inject_failure, execute, rollback, clear, verify_health | partial failure between two API calls, saved annotations |
| Retrieval | `app/rag/service.py` | ingested chunks | ingest, retrieve | chunk boundaries, rank fusion |
| Guardrails, agents, classifier, providers, settings | `app/guardrails`, `app/agents`, `app/ml`, `app/providers`, `app/config` | none that changes | pure checks, one provider call each | fallbacks |
| Console: jobs | `frontend/src/main.jsx` 61-87, 352, 374-406 | phase, job, result, error; refs to the current execution, its controller, timer and cancellation | submit, retry, inject, approve, cancel, reset; stream, poll, back off, time out | executions that overlap and share the refs, lost streams and answers, late timers |
| Console: cluster view | `frontend/src/main.jsx` 330-373, 294-304, 124-134; `app/main.py` 143-230 | runtime, cluster, observation, incidentProof | the reads at mount, inspect, inject, results | answers out of order, pages put together from several reads |
| Console: event ranking | `frontend/src/main.jsx` 159-227; `app/kubernetes/service.py` 411-440 | none | priority, score, rank, filter, mark | two sets of patterns, sums of bonuses and a threshold |
| Bundle, training, manifests | `static/`, `training/`, `cloudrun/`, `k8s/` | - | - | no behaviour of their own |

How they interact: a route calls the coordinator; the coordinator calls its store
and starts the drain; the drain starts `_process`, which runs the workflow inside
`asyncio.wait_for`; the workflow calls agents, MCP tools and the remediation
service, which calls the Kubernetes service in worker threads. The console posts a job,
follows its event stream, polls its status when the stream fails, deletes it to
cancel it, and reads the cluster through routes of its own. Streams and waiting
handlers share `JobRecord` with the drain through one `asyncio.Event`.

What makes each part correct is listed with the code line in PROJECT.json
("hazards"). In short: the queue serves in order, one at a time, within its bound,
gives every job one outcome and wakes every reader; the durable queue does so
across restarts; an investigation acts only when policy allows it, at most twice,
and audits what it did; the cluster can be put back to what it was before an
injection; the console claims no success, no change and no health that the server has
not reported, and does not stay busy with nothing behind it.

## 2. Plan

Done:

1. `JobQueue`, `Coordinator`, `CoordinatorProofs` - the in-memory queue and its
   tasks (the deployed profile: `cloudrun/service.yaml` runs one instance with the
   memory repository).
2. `DurableQueue`, `DurableQueueProofs` - the Postgres store with statements of
   several threads in the transaction of one connection, leases, attempts, crash and
   restart.
3. `Cluster`, `ClusterProofs` - injection, rollback, restart and clearing of a
   temporary condition over the deployment's template and annotations, with a
   failure at any API call.
4. `Investigation`, `InvestigationProofs` - the workflow with its way back to
   diagnosis, the remediation and the audit, composed with `Cluster`.

5. `Console`, `ConsoleProofs` - the browser console as a client of what `JobQueue`
   promises, over a network that loses things.
6. `ClusterView`, `ClusterViewProofs` - what the console says of the cluster.
7. `Signals`, `SignalsProofs` - which events it shows.
8. `QueueRefinement` - `Coordinator` implements `JobQueue`, step by step, and the console
   relies on nothing else.

Left, in this order:

9. `Retrieval` - chunking and reciprocal rank fusion as functions, against
   reference definitions over bounded inputs.
10. The loss of the database connection in `DurableQueue`.
11. The progress of the durable drain (`AwaitedEnds`), of streams and of the header, as
    bounds on the steps that are left.

## 3. The modules

### JobQueue (what the queue promises)

Four variables: the waiting `line`, the `active` job, an `outcome` per job, and the `log`
of the events that its streams replay. `Enqueue`, `Start`, `Finish`, `Withdraw` are the
promise; `Relabel` is the one weakness of the implementation (a job that was cancelled
while it was in service may be reported as failed, see Divergences), stated where a reader
of the promise sees it. `Console` is built on this module: it uses the promise,
`Coordinator` keeps it.

### Coordinator (how it is kept)

One action is one step of one asyncio task: what it executes between two
suspensions. The store's methods take an `asyncio.Lock` but do not suspend while
they hold it, and nothing else contends for it between two steps, so each of them
is part of its caller's step.

| Model | Code |
|---|---|
| `jobs`, `order` | `InMemoryJobStore._jobs` (insertion order = `created_at` order), `_order` |
| `status`, `request`, `cancelRequested`, `events`, `changed` | fields of `JobRecord`; an event is reduced to the status it reports |
| `drain`, `awaited` | `_drain_task` and the key of `_running_tasks` (there is never more than one) |
| `task[j]` | the `_process` task of `j`: not yet started, in `wait_for` (and what has hit it there), stopping the workflow, ended |
| `workflow[j]` | the inner task that Python 3.11's `wait_for` makes of the coroutine |
| `waiter[j]` | the `/analyze` handler in `wait()` and what it answered |
| `stream[j]`, `sent[j]` | the `events()` generator and its `index` |

`Submit` stands for create_job, detect, inject and approve, which differ only in
the incident they enqueue and in whether they send a request id (detect and inject
send the fresh id of their incident). `Cancel` is DELETE. `Known` says that the job
id of `/analyze` is never given to a client. Submitting with a request id that is
already known changes nothing and is not an action.

`WorkflowEnds` and `WorkflowUnwinds` abstract the investigation: it returns or
raises at any time; once cancelled it ends cancelled, or, because the LLM provider
has a `wait_for` of its own that hands on a result which beat the cancellation,
returns or raises all the same.

### CoordinatorProofs

Theorems about `Coordinator` for every set of jobs, requests and every capacity.

### QueueRefinement (that it is kept)

The mapping of `Coordinator` to `JobQueue` is part of `Coordinator` (`Waiting`, `InService`,
`Outcome`, `events`): the line is the queued jobs by the public position that the status
endpoint answers, so it follows from `_jobs` alone and not from the deque. This module
proves that every step maps to a step of `JobQueue` or to a stutter.

### DurableQueue (the Postgres store)

`PostgresRepository` has one psycopg connection, and each of its methods runs in a
worker thread (`asyncio.to_thread`). psycopg serialises statements, not
transactions, so all threads share one transaction: one thread's `commit` commits
what the others have executed, and one thread's `rollback` discards it. One action
is one statement, or a step of the event loop.

| Model | Code |
|---|---|
| `committed` | the rows of `analysis_jobs` as the last commit left them; `lapsed` is `lease_expires_at < now()` |
| `working`, `broken` | the rows as the open transaction sees them; whether a statement has failed in it, so that all others fail until somebody ends it |
| `created` | the jobs in `created_at` order |
| `reported`, `asked`, `silent` | `status` and `cancel_requested` of the cached `JobRecord`, which streams and waiters look at, and whether it has no event yet |
| `submit[j]`, `save[j]` | the threads of create_job, and of complete_job or fail_job: the next statement, or how they ended |
| `found[j]` | the row that create_job has selected under a repeated request id, and its handler still holds |
| `erase[j][c]` | the cancel_job threads of a job: one for each client, and one each for the body and the except clause of `_process` |
| `read[j][c]` | the row that a get_job thread has read and the GET handler of client `c` still holds |
| `drain`, `taken`, `process[j]` | `_drain` with its claim_job thread, the job it returned, and the `_process` tasks |
| `refresher[j]` | the `_refresh_lease` task of that `_process`: asleep or writing, ended, or ended by an exception that nobody has seen yet |
| `crashes` | how often the process has died (bounded) |

Merged steps. `claim_job`'s first two updates are one (nothing but their order
matters to the rest), and so are the second update of `cancel_job` and its select, and
the update of `refresh_job` and its commit: what it writes is that the lease has not lapsed,
which is so already. What matters of it is the commit, which takes the other threads'
statements along, and the exception that it raises on a failed transaction.
`_process` awaits the refresher in its finally clause, so that exception leaves `_process`
there and kills the drain (`ProcessLeaves`). A refresher that is cancelled while its thread
is under way is taken for one whose thread has ended: the thread's late commit or
exception would have no reader.

Timing. A lease is 180 seconds and is refreshed every 60, and an investigation takes at
most 120, so `LeaseLapses` is enabled only for a row whose process is gone. (Ticks are not
counted: the refresher may write at any time between the start and the end of
`_process`.) A crash aborts the transaction and empties the caches. The loss of the
connection under a live process is left out.

Who asks. A client sends DELETE and GET for a job whose id it knows, from its own POST or
because it repeated another one's request id (`Known`), one request of each kind at a time
per job and client; different clients' requests overlap. A second DELETE that hits
`_process` while it waits for its own cancel_job thread leaves that thread running, in a slot
of its own. A job has one slot for the thread that saves its outcome: a thread that
outlives its `_process` and a second execution of that job do not meet in it, because the
job keeps its lease until the thread has ended, unless the claim itself was rolled back by
another thread; then the second execution takes the slot, and the late thread is left out.

### Cluster (what happens to the workload)

| Model | Code |
|---|---|
| `template` | the image, command and readinessProbe of the deployment's container, each original or injected |
| `recorded` | the annotations `opspilot.io/healthy-*` |
| `health` | what `_assess` makes of an observation |
| `injection[i]`, `thread[t]` | the worker threads of `_inject_sync` and `_execute_sync`: the next API call |
| `copy` | what such a thread has read and is about to write |

Every call that changes something has three outcomes: served, served with the answer
lost, or failed. Several injections, and an injection and an action, overlap
freely. The controllers of the cluster may `Settle` the pods to what the template
says, or `Degrade` them without cause, at any time. Nobody but AtlasAI changes the
deployment: a release from elsewhere would make the record stale, since setdefault
never renews it, and that is the assumption under which the code's record means
anything. Original absence (no command, as in `k8s/demo-workload.yaml`) is recorded
as JSON null and patched back as null, which removes the field: `Original` stands
for it. The pods of a demo workload are deleted in one step.

### Investigation (the workflow over the cluster)

`Investigation` extends `Cluster`: an investigation's `Acts` is an `ActionStarts` of
its thread, and the threads, the injections and the controllers go on by themselves.

| Model | Code |
|---|---|
| `settings` | REMEDIATION_MODE, KUBERNETES_MODE, AUTO_REMEDIATION, and whether langgraph is installed |
| `pc[j]` | the await at which the task of the investigation is, or "tool" for a call of POST /internal/v1/mcp |
| `behind` | the workflows that go on although `_process` no longer awaits them |
| `incident[j]` | `observation` (connected or none) and `remediation_requested` |
| `attempts[j]`, `status[j]` | `remediation_attempts` and `remediation.status` of the graph state; after the end, the status in the result |
| `polls[j]` | the loop variable of `verify_health` |
| `audited[j]` | `save_audit` has been called (an exception becomes a limitation of the result) |
| `acted[j]` | history: actions given to a thread |

Triage, knowledge and resolution read nothing that another step writes (the second
diagnosis gets the first one's observation again), so they are one step with the
guardrails, which ends in a rejection, in an accepted draft of any category and with
any named action, or in an exception. There is no await between the selection of an
action and the start of its thread. `Starts` lets one investigation run at a time beside
those that were left behind, which is `OneWorkflow` of `Coordinator`. `Interrupt` is a
DELETE or the timer: the task ends, its thread goes on. A cancellation that the provider's
own `wait_for` swallows (llm.py:24-28) is no step: the workflow goes on, may still act,
and nobody takes its result if a further DELETE has made `_process` leave it behind
(`IsLeftBehind`). `Approve`, `Detect` and the injection route submit as often as there are
free jobs. `ToolIsCalled` is a call of execute_safe_action by POST /internal/v1/mcp
(main.py:298-304, mcp/server.py:207-208): it starts the same kind of thread and belongs
to no investigation, so no approval and no audit is asked of it. `ActsAtMostTwice`,
`ActsWithApproval` and `ActionIsAudited` are about investigations; `NoStrayAction` names the
calls of tools. A tool server in another process (MCP_SERVER_URL) is not modelled.

An observation (`Detect`, `Verifies`) is read in one step, although the service makes
several calls for it (kubernetes/service.py:149-161). Health is one fact here, degraded or
healthy; an observation that is put together from parts says "degraded" if one of them
does, so what the step leaves out is a "healthy" whose parts were each healthy at a moment
of their own, but never all at once. No property says that a workload that was verified was
healthy at one instant.

### Console (a client of the queue)

`Server` is `JobQueue`, instantiated with the console's own variables: the console is
checked against what the queue promises, and the queue keeps the promise
(`ImplementsJobQueue`). An action is what the page does between two awaits, or one
step of the server or the operator.

| Model | Code |
|---|---|
| `line`, `active`, `outcome`, `log` | the server's queue, and the events of each `JobRecord` |
| `owned` | `stream_owner` of each `JobRecord` |
| `phase`, `job`, `result`, `error` | the state of App of these names; a job or result is the request that created it, an error is retryable or the cancellation |
| `activeRef` | `activeRef`, `controllerRef` and `timeoutRef`, which are set and cleared together |
| `cancelledRef` | the ref of this name |
| `pc[r]`, `attempts[r]`, `sent[r]` | the await at which the handler of request `r` is, the loop variable of `consumeJob`, and the lines that `readNdjson` has consumed |
| `aborted` | the requests whose `AbortController` was aborted, by the timer or by `cancel` |
| `of[r]` | the job that `approve` posts an approval of |
| `deleting`, `asked` | outstanding and sent DELETEs |
| `raced` | history: a control was used while a request was open |

What is abstracted: submit, retry and inject share `Run` (they differ in the URL and
the body); repeated clicks on "Cancel" are one DELETE; any result may offer an
approval; React renders between two steps, so a handler sees the last one's state;
closing the page is the end of the behaviour. The network may refuse a stream, cut it
at any event, lose a POST, a status or a DELETE before or after it was served.
A superseded execution keeps its own timer, because only the ref is overwritten.

### ClusterView (what the page says of the cluster)

| Model | Code |
|---|---|
| `profile` | KUBERNETES_MODE, whether the client's configuration loads, and whether the API is ready (without its database it has no Kubernetes service, and /api/ready answers 503 with a body that the page reads all the same) |
| `health`, `reachable`, `now` | the workload, the network to the cluster, and a count of changes that dates an observation |
| `stage[i]`, `got[i]` | per read (the one at mount and each inspection): the answer it awaits, and that answer on its way |
| `header`, `mode` | `runtime.cluster`, `runtime.mode` |
| `cluster`, `observation`, `incidentProof` | the state of App of these names |
| `confirming` | `confirmScenario` |
| `request` | the page's request: the injection at the server with its baseline, or a job until its result |
| `latest` | history: the last inspection, while nothing has disturbed it |

An observation is reduced to what it says of the workload's health and when it was
made. It is read as one snapshot; the server's calls to the cluster for one
observation are not interleaved with changes. A job is only the time until its
result, since `Console` follows it; for the same reason there is one request at a time, and
an approval is the moment at which its POST is answered (the page is not busy before). What
other requests do while an approval's answer is awaited is in `Console`. Counts, resource
names, `inspectionMeta` and `runtime.api` are left out.

### Signals (which events the operator sees)

`events` is the observation's list, built one by one so that every list up to the
bound is reached; `mode` is the place of the page, `health` the observation's
verdict. A text is the set of the patterns that are found in it: "unhealthy" stands
for "not ready" as well, because each contains the word of a recovery; "crashloop" is for
the server a critical pattern and for the page one only if "backoff" follows; and the
patterns that only repeat one of these are left out. The age of an event is in three
classes, by the two limits of the code. The involved object of an event that the
server sends is the workload or named after it, so the 25 points for it are a constant.

## 4. The runs

| Run | Instance | Shows |
|---|---|---|
| `queue_safety` | 4 jobs, capacity 2, no streams, symmetric jobs; 408,668 states | `OneWorkflow`, `QueuedHasDrain`, `CancelledNeverCompletes`, `StartsInOrder`, and `ImplementsJobQueue`: the refinement of `JobQueue` with its line, service, outcomes and events |
| `queue_streams` | 2 jobs, one request id, capacity 1, a stream on one job, fair event loop; 35,077 states | `RequestIsUnique`, `NoLostWakeup`; and that running jobs end, waiters are answered (unless a cancellation killed the drain) and streams end |
| `queue_stranded` | 2 jobs, capacity 1, fair event loop | violation: `QueuedIsAlwaysServed` |
| `durable_safety` | 2 jobs that may share a request id, capacity 0, one client with DELETE and GET, no crash, fair drain; 869,219 states | `ReportedIsStored`, `CommittedIsFinal`: what is known of an ended job is what the table says, and stays so; `AwaitedEnds`: no job holds up the drain |
| `durable_restarts` | 3 jobs, capacity 2, 2 crashes, 2 attempts, DELETE of one job, no GET, one POST at a time; 2,537,664 states | `AttemptsBounded`, `OneRunningRow`, and `CancelledNeverClaimed`: a job with a committed cancellation is not handed out again when its lapsed row is queued again |
| `durable_lost` | 2 jobs, capacity 0 | violation: `AcceptedIsStored` |
| `recovery` | 2 investigations, 1 injector, 2 polls, 2 scenarios, executing and simulating settings, fair tasks and threads; 478,840 states | the properties of `Cluster` and `Investigation`, and that an investigation ends without the timer |
| `claims_recovery` | 1 investigation, 1 injector, 1 poll, protected demo and simulation | violation: `VerifiedByKubernetes` |
| `console` | 2 requests, capacity 1, fair browser; 379,446 states | `BusyHasCause`, `ActiveIsTracked`, `NoInferredSuccess`, `OneStory`; and that every execution ends and the page does not stay busy |
| `console_spinner` | 1 request | violation: `SpinnerIsTracked` |
| `cluster_view` | the read at mount, 2 inspections, 2 changes, three profiles, fair fetches; 1,356,574 states | `UndisturbedIsTrue`, `ChangeIsReal`, and that CHECKING ends |
| `signals` | 2 events of 276 kinds (texts with up to 2 of the 9 patterns), 1 shown; 458,718 states | `PrimaryStandsOut`, `RecoveryIsShown` |

Bounds. In the in-memory queue the number of jobs is the only bound: `Jobs` is the set of ids that
`uuid4()` may hand out. Four jobs with capacity 2 give a full queue, a refused
submission, a place freed by a cancellation and its re-use, cancelled jobs left in
front of and between queued ones in the deque, and a drain that ends and is
started again. Two jobs suffice for the readers: a record's readers share nothing
with other records, and the second job is there so that the drain has something
else to do. The settings allow a capacity of 0 to 3.

In `DurableQueue` the hazards need two threads in one transaction, and a third for a
crash's left-over row beside a new one; `MaxCrashes` bounds the crashes and
`MaxAttempts`, 3 in the code, is 2 so that two crashes reach it. In `durable_restarts`
distinct POSTs and a free place let a later creation start the drain that finds the
cancelled row lapsed; the configuration's constraint `OnePost` leaves the interleaving of
two creations to `durable_safety`, and crashes to this run. In `Investigation`
two jobs give a thread left behind by a stopped investigation, or a call of a tool, beside
an investigation that acts, and an approval of the other's incident; the injector injects
again and again, into two of the three fields (`Scenarios`; `claims_recovery` has all three). `MaxPolls` is 15 in the code: with 2, a recovery happens before,
between and after the observations. The settings of the run are the protected demo and a
simulation; the sequential engine, AUTO_REMEDIATION and the other modes are in
the model and in the theorems, but not in the run. `acted` has no bound in the
model: that it stays at 2 is what the run shows.

In `Console` two requests give an execution that is superseded by an approval and one
that supersedes it, a retry after every kind of failure, and a job that waits behind
another. `MaxAttempts` is that of the code. In `ClusterView` two inspections overlap
each other, the read at mount and an injection, and two changes allow a fault beside
a recovery or a lost connection; the three profiles are the protected demo,
an observing deployment whose configuration does not load, and one without its database; the others are in the model and
in the theorems, but not in the run. In `Signals` the properties relate two events, and with
one place for key evidence two compete for it; `Shown` is 4 in the code, and the
theorems hold for every number of events, texts and places.

Deadlock is not checked: when every job has ended the server is idle.

Fairness. The event loop runs every ready task and fires every timer; a cancelled
workflow unwinds; a client that stays connected reads. No fairness is put on
submissions, cancellations, connections, heartbeats, or on a workflow ending by itself:
`RunningEnds` follows from the timer alone. In `Investigation` tasks and threads go
on, because every provider and every Kubernetes request has a timeout; nothing is
assumed of the cluster (it may never recover), of clients, or of the timer. In
`Console` the browser answers every POST in the end (with an error, if need be), fires
timers, lets an abort take effect and ends a back-off; the server and the operator owe
nothing, so a stream may stay silent until the timer aborts it. In `DurableQueue`
the drain, the job it awaits and that job's threads go on, and the workflow ends at
the latest by its timer; nothing is asked of POSTs, clients and leases.

### Findings

* `QueuedIsAlwaysServed` (queue.py:373): a DELETE between `create_task(_process)`
  and that task's first step kills the drain; jobs already queued wait for the next
  submission. The properties that hold exclude exactly this: `QueuedHasDrain` and
  `QueuedIsServed` name `drain = "cancelled"`. It was reproduced against the real
  `queue.py` on Python 3.11.
* `AcceptedIsStored` (repository.py:368): the rollback of a refused creation discards
  the row of an accepted one, whose client holds the id of a job that is nowhere.
* `SpinnerIsTracked` (main.jsx:389): if the news of a cancellation comes by the status
  and not by the stream, the page stays busy: all controls are disabled, and the
  cancel button does nothing. `BusyHasCause` and `BusyEnds` exclude exactly this.
* `VerifiedByKubernetes` (remediation/service.py:33): a simulated remediation is reported
  as verified by Kubernetes.

### Divergences without a run

The models have these behaviours, and the properties that hold are stated so that they
allow them; no run is spent on them.

* A job whose workflow raises at the time it is cancelled is reported `cancelled` and
  then `failed` (queue.py:393); `JobQueue!Relabel` makes it part of the promise.
* A repeated DELETE makes `wait_for` give up on a workflow that is still unwinding, and
  the next job starts beside it (queue.py:315), although queue.py:3-4 promises one active
  workflow. `OneWorkflow` holds for every workflow that has not been left behind so.
* Two creations count the same free place of the durable queue (repository.py:366).
* Cancelling a running durable job leaves its row running, or queued once its lease has
  lapsed, for ever: no statement turns it into `cancelled` (repository.py:437).
* A transaction that a duplicate insert has broken makes the next lease refresh raise; the
  exception leaves `_process` through its finally clause and kills the drain, although the
  job's own outcome may have been stored (queue.py:395-398). `AwaitedEnds` says that the
  awaited task ends, and allows it to end so.
* POST /internal/v1/mcp executes a safe action on the connected workload without an
  investigation, an approval or an audit (main.py:298-304). The properties of
  `Investigation` are stated for investigations.
* After an executed but unverified action, a rejected second draft makes the result say
  that remediation is not enabled, and no audit is written (workflow.py:118).
  `ActionIsAudited` excludes exactly this.
* After an inspection that failed, HealthHero keeps "Kubernetes environment healthy"
  while the header says OFFLINE (main.jsx:362, 298); and with an observation whose body
  was cut off and a summary, it says so of a workload that was never observed.
* A result replaces a newer observation by that of its incident, from before the action,
  or, for a text, by none (main.jsx:389); inspections that overlap are applied in
  the order of their answers. `UndisturbedIsTrue` is about the last one if nothing
  else was under way.
* `inject` does not look at the cluster again after the confirmation (main.jsx:402); the
  server does.
* If the answer to a POST is lost, the retry has a fresh `client_request_id`
  (main.jsx:399), so the job is created twice; and `retry` repeats the last description
  that was executed, or does nothing if none was (main.jsx:405).
* In a proof of recovery an event that is critical for the recovery is marked as a primary
  signal ("!"), since it scores at least 110; the mark for a recovery is never shown
  (main.jsx:213-216).
* An event that is critical to the server only ("crashloop" without "backoff",
  kubernetes/service.py:423, main.jsx:166) is not marked if the words of a routine event
  and of a recovery count against it: it scores 95. `PrimaryStandsOut` excludes exactly this.

The first two were reproduced against the real `queue.py` on Python 3.11. The others
are derived from the code; they were not run in a browser, or against a database or
a cluster.

## 5. The proofs

`CoordinatorProofs` proves, for every `Jobs` (finite), `Requests` and
`QueueCapacity \in Nat`, from the three named assumptions of `Coordinator`:
type correctness, every safety invariant and both action properties of the passing
runs, and the inductive invariant `IndInv` itself. The invariant is established in layers, each inductive
given the ones before it:

1. `TypeOK`.
2. *Service* (`DrainAwaitsTask`, `TaskServesJob`, `WorkflowServesTask`): every
   unfinished task is the one that the drain awaits and serves the running job, or a
   job already reported as cancelled. None of the properties is inductive alone:
   `OneWorkflow` needs to know that the drain claims only when its task has finished,
   `CancelledNeverCompletes` that only an uncancelled task reaches `set_complete`.
3. `BoundedLoad`: only `Create` adds to the load, and it counts first;
   `RequestIsUnique`.
4. *Reading* (`OneReader`, `NoLostWakeup`, `AnswerIsOutcome`): a record has one
   kind of reader, so clearing the event steals nobody's wake-up.
5. *Queueing* (`QueuedInOrder`, `QueuedHasDrain`): no queued job is missing from the
   deque, and claim_next comes back empty-handed only when none is queued.
6. *Ordering* (`OrderFollowsJobs`): the deque follows insertion order, hence the
   claimed job is the one at public position 1 (`StartsInOrder`).
7. *Telling* (`Telling`): the last event of a record is its status, and what came before
   is one of few tales, so every story that a stream replays is one of seven
   (`EventsTellStoryAlways`): a job waits, may run, and ends once, but for the failure of a
   cancelled workflow.

`QueueRefinement` proves `CoordinatorImplementsJobQueue`: every behaviour of the tasks,
handlers and streams is one of `JobQueue`. The public position of a queued job is its rank
by creation among the queued jobs. The first half of the module is about ranks in any
finite set with distinct dates: they are `1..n`, each taken once (`RankOnto`), hence the
line is well defined; a member with the latest date joins at its end (`ListingAppend`), and
taking one out closes the gap and moves nobody past another (`ListingRemove`). The second
half takes each step: creation enqueues at the end with the same bound, a claim takes the
job at rank 1 (which is where `Ordering` is needed: the deque, emptied lazily, agrees with the
dates), a cancellation of a queued job withdraws it from any place, `_process` and the
cancellation of a running job finish it, an exception after a cancellation relabels it, and
all other steps leave the line, the job in service, the outcomes and the events alone.
That a relabelled job has been in service follows from *Telling*.

`ConsoleUsesJobQueue` in `ConsoleProofs` is the other side: whatever the page does and the
network loses, the server it meets behaves as `JobQueue`. The two theorems compose the
console with the queue over their common specification.

What liveness rests on. Fairness is out of the prover's reach, but that progress cannot
be undone or go on for ever is safety, and is proved for every value of the constants:

* `RunningIsBounded`: a running job is at most five steps of `_process` and its
  workflow from its end, its next step waits for no other job and no client, and nothing
  sets it back. With fairness for those steps, this is `RunningEnds`.
* `PositionsAdvanceAlways` (in `QueueRefinement`, from the refinement): the position that a
  waiting client is shown never grows, whoever submits, cancels or is served, and every start
  brings every waiting job one place forward. A drain that goes on therefore serves each:
  `QueuedIsServed`.
* `WorkIsBounded`: an investigation takes at most 2 `MaxPolls` + 5 steps of its own, over
  both diagnoses and all polls, and no thread, client or controller gives it more.
* `RetriesAreBounded`: an execution of the console passes at most 15 awaits (all the
  events of a stream count as one), in whatever order streams, statuses and rechecks fail.

`DurableQueueProofs` proves all the safety properties of the durable queue, for every set
of jobs, capacity, number of attempts and number of crashes. Any thread's commit turns
what is open into what is committed, and any thread's rollback does the reverse, so its
invariant has to bind the two tables. `Follows` does: the open table takes back neither an
outcome nor a cancellation, and has started nothing that was cancelled. It is transitive
and every statement's result follows what it found, so whatever is committed follows
what was: `CommittedIsFinal` and `CancelledNeverClaimed`. The latter is about the claim
itself, which it counts by `attempts`, and not about the status that was committed before:
a lapsed row is queued again and could be taken in one and the same transaction, so that the
committed status would not show it. `AttemptsBounded` bounds `attempt_count`, and hence the
claims that were committed. `AttemptsLeft` (a queued row has an
attempt left) and `OneRunning` hold of either table and survive every statement. The second part, `QuietInv`, is the argument for
`ReportedIsStored` while nobody is refused: a job keeps its lease from its claim until its
outcome is stored, also when it was interrupted and the thread that stores it works for
nobody, so that thread finds the row running; and an outcome that any snapshot,
cancellation or cache holds is one the table can no longer change.

`ClusterProofs` proves the three properties of the cluster for any number of threads
and injectors. `FaultIsReversible` alone is not inductive: an injector writes what it
read some time ago. `RecordInv` adds that a record, once there, is the original; that
a copy about to be written is the original, because with setdefault an injector either
keeps the record or reads a template that, without a record, is still original; and that
a thread about to restore holds the record.

`InvestigationProofs` shows that every step of `Investigation` is a step of `Cluster` or
leaves its variables alone (`ImplementsCluster`), so these theorems hold under the
workflow, and then proves `IndInv`: per job, how the attempts so far follow from where
it is and bound its actions, that an action implies an approval, that an outcome
of the last attempt decides the audit, that one investigation at a time runs that was not
left behind, and that an unfinished thread belongs to an investigation that awaits it or
was stopped, or to a call of a tool. They hold for every set of settings and
every `MaxPolls`.

`ConsoleProofs` proves the safety properties of the console for any number of requests
and any capacity. None of them is inductive alone: that a result is that of a completed
job needs to know that the log of a job ends with its outcome, and that a stream has
delivered a prefix of the log; that the refs belong to a live execution needs that the
finally clause of any other one leaves them alone; and `OneStory` follows the one open
request, if controls were not used while it was open, through every await.

`ClusterViewProofs` follows an injection from its baseline to the page: at each stage,
what has been observed and when (`ChangeInv`). For the undisturbed inspection
(`Undisturbed`) it shows that no other read or request is open, that an answer
under way is still true, and that between its two answers the observation is the
workload as it is.

`SignalsProofs` bounds the scores: outside of a proof of recovery an event that is
critical and not outdated has at least 95 and any other has less, so the ranking
decides between them whatever the bonuses. The places of the key evidence follow from finite
cardinalities: what precedes a primary event precedes every lesser one.

Only model-checked: liveness (`RunningEnds`, `QueuedIsServed`, `StreamEnds`,
`AwaitedEnds`, `InvestigationEnds`, `TrackingEnds`, `BusyEnds`, `CheckingEnds`), because
fairness is out of the prover's reach. Every other property of a passing run is the
statement of a theorem, for every value of the constants.

## 6. What is not modelled

See "components" in PROJECT.json. Left out of `Coordinator` on purpose: payloads
and error codes (nothing in the queue branches on them), readiness and rate limits
(they refuse a request before it reaches the queue), process crashes (the store is in
memory: a restart is `Init`), and the lease refresher, which runs only with the
durable store (`DurableQueue` has it). Of the investigation, the texts (previews, reasons, limitations) and
the contents of observations. Of the console: the rendering of results, the
progress timeline, navigation, copying, and the wording of errors. Retrieval is planned;
the classifier, the providers' I/O, the built bundle (a product of `main.jsx`) and training
are outside of what these models are about.
