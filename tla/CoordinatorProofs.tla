------------------------- MODULE CoordinatorProofs -------------------------
(***************************************************************************)
(* Theorems about Coordinator.tla, for every set of jobs and requests and  *)
(* every queue capacity.  The argument is the inductive invariant IndInv:  *)
(* one lemma per conjunct shows that every step preserves it.              *)
(***************************************************************************)
EXTENDS Coordinator, FiniteSetTheorems, SequenceTheorems, NaturalsInduction,
        WellFoundedInduction, TLAPS

USE JobsAssumption, QueueCapacityAssumption, RequestsAssumption

-----------------------------------------------------------------------------
(***************************************************************************)
(* Steps by what they leave alone.                                         *)
(***************************************************************************)
coreVars == <<jobs, order, status, request, cancelRequested, events,
              drain, awaited, task, workflow>>

\* Whoever reads a record, wait() or events(), changes neither store nor tasks.
LEMMA ReadersChangeNothing ==
  ASSUME NEW j \in Jobs, WaiterWakes(j) \/ StreamStep(j)
  PROVE  UNCHANGED coreVars
  BY DEF WaiterWakes, StreamStep, StreamOpens, StreamContinues, StreamBeats,
         StreamDrops, StreamReleases, StreamUnchanged, taskVars, coreVars

-----------------------------------------------------------------------------
(***************************************************************************)
(* Type correctness.                                                       *)
(***************************************************************************)
LEMMA TypeInit == Init => TypeOK
  BY DEF Init, TypeOK, Statuses, DrainStates, TaskStates, WorkflowStates, StreamStates

LEMMA EmitType ==
  ASSUME TypeOK, NEW j \in Jobs, NEW s \in Statuses, Emit(j, s)
  PROVE  /\ status' \in [Jobs -> Statuses]
         /\ events' \in [Jobs -> Seq(Statuses)]
         /\ changed' \in [Jobs -> BOOLEAN]
  BY DEF TypeOK, Emit

LEMMA StoreCancelType ==
  ASSUME TypeOK, NEW j \in Jobs, StoreCancel(j)
  PROVE  /\ status' \in [Jobs -> Statuses]
         /\ events' \in [Jobs -> Seq(Statuses)]
         /\ changed' \in [Jobs -> BOOLEAN]
         /\ cancelRequested' \in [Jobs -> BOOLEAN]
<1>1. CASE status[j] \in {"queued", "running"}
  <2>1. Emit(j, "cancelled")
    BY <1>1 DEF StoreCancel
  <2>2. cancelRequested' \in [Jobs -> BOOLEAN]
    BY <1>1 DEF StoreCancel, TypeOK
  <2> QED BY <2>1, <2>2, EmitType DEF Statuses, TERMINAL_STATUSES
<1>2. CASE status[j] \notin {"queued", "running"}
  BY <1>2 DEF StoreCancel, TypeOK
<1> QED BY <1>1, <1>2

\* What the steps of _process and of cancel() may do to a record.
LEMMA RecordsType ==
  ASSUME TypeOK, NEW j \in Jobs, NEW e \in Ended, Records(j, e)
  PROVE  /\ status' \in [Jobs -> Statuses]
         /\ events' \in [Jobs -> Seq(Statuses)]
         /\ changed' \in [Jobs -> BOOLEAN]
         /\ cancelRequested' \in [Jobs -> BOOLEAN]
<1>1. CASE StoreCancel(j)
  BY <1>1, StoreCancelType
<1>2. ASSUME NEW s \in Statuses, StoreSet(j, s)
      PROVE  /\ status' \in [Jobs -> Statuses]
             /\ events' \in [Jobs -> Seq(Statuses)]
             /\ changed' \in [Jobs -> BOOLEAN]
             /\ cancelRequested' \in [Jobs -> BOOLEAN]
  <2>1. Emit(j, s) /\ UNCHANGED cancelRequested
    BY <1>2 DEF StoreSet
  <2> QED BY <2>1, EmitType DEF TypeOK
<1>3. {"failed", "complete"} \subseteq Statuses
  BY DEF Statuses, TERMINAL_STATUSES
<1> QED BY <1>1, <1>2, <1>3 DEF Records

LEMMA TypeStep ==
  ASSUME TypeOK, [Next]_vars
  PROVE  TypeOK'
<1> USE DEF TypeOK
<1>1. ASSUME NEW j \in Jobs, NEW r \in Requests \cup {NoRequest}, Submit(j, r)
      PROVE  TypeOK'
  <2>1. Emit(j, "queued") /\ "queued" \in Statuses
    BY <1>1 DEF Submit, Statuses
  <2>2. /\ status' \in [Jobs -> Statuses]
        /\ events' \in [Jobs -> Seq(Statuses)]
        /\ changed' \in [Jobs -> BOOLEAN]
    BY <2>1, EmitType
  <2>3. jobs' \in Seq(Jobs) /\ order' \in Seq(Jobs)
    BY <1>1 DEF Submit, Create
  <2>4. request' \in [Jobs -> Requests \cup {NoRequest}]
    BY <1>1 DEF Submit, Create
  <2> QED BY <1>1, <2>2, <2>3, <2>4 DEF Submit, EnsureDrain, DrainStates, handlerVars
<1>2. ASSUME NEW j \in Jobs, Analyze(j)
      PROVE  TypeOK'
  <2>1. status' \in [Jobs -> Statuses] /\ events' \in [Jobs -> Seq(Statuses)]
    BY <1>2 DEF Analyze, Statuses
  <2> QED BY <1>2, <2>1 DEF Analyze, Create, EnsureDrain, DrainStates
<1>3. ASSUME NEW j \in Jobs, Cancel(j)
      PROVE  TypeOK'
  <2>1. /\ status' \in [Jobs -> Statuses]
        /\ events' \in [Jobs -> Seq(Statuses)]
        /\ changed' \in [Jobs -> BOOLEAN]
        /\ cancelRequested' \in [Jobs -> BOOLEAN]
    BY <1>3, StoreCancelType DEF Cancel
  <2>2. task' \in [Jobs -> TaskStates]
    BY <1>3 DEF Cancel, Interrupt, TaskStates, Unfinished, InWaitFor
  <2> QED BY <1>3, <2>1, <2>2 DEF Cancel, handlerVars
<1>4. CASE DrainClaims
  <2>1. PICK i \in DOMAIN order :
           /\ order' = SubSeq(order, i + 1, Len(order))
           /\ Emit(order[i], "running")
           /\ task' = [task EXCEPT ![order[i]] = "scheduled"]
           /\ awaited' = order[i]
    BY <1>4 DEF DrainClaims
  <2>2. order[i] \in Jobs /\ "running" \in Statuses
    BY DEF Statuses
  <2>3. /\ status' \in [Jobs -> Statuses]
        /\ events' \in [Jobs -> Seq(Statuses)]
        /\ changed' \in [Jobs -> BOOLEAN]
    BY <2>1, <2>2, EmitType
  <2>4. order' \in Seq(Jobs)
    BY <2>1
  <2>5. task' \in [Jobs -> TaskStates]
    BY <2>1, <2>2 DEF TaskStates, Unfinished
  <2> QED BY <1>4, <2>1, <2>2, <2>3, <2>4, <2>5 DEF DrainClaims, DrainStates, handlerVars
<1>5. CASE DrainReturns
  BY <1>5 DEF DrainReturns, DrainStates, handlerVars
<1>6. CASE DrainDies
  BY <1>6 DEF DrainDies, DrainStates, storeVars, handlerVars
<1>7. ASSUME NEW j \in Jobs,
             ProcessStarts(j) \/ ProcessNeverStarts(j) \/ ProcessStopsWorkflow(j)
      PROVE  TypeOK'
  BY <1>7 DEF ProcessStarts, ProcessNeverStarts, ProcessStopsWorkflow, ProcessUnchanged,
              TaskStates, Unfinished, InWaitFor, WorkflowStates, handlerVars
<1>8. ASSUME NEW j \in Jobs, ProcessRecords(j)
      PROVE  TypeOK'
  <2>1. /\ status' \in [Jobs -> Statuses]
        /\ events' \in [Jobs -> Seq(Statuses)]
        /\ changed' \in [Jobs -> BOOLEAN]
        /\ cancelRequested' \in [Jobs -> BOOLEAN]
    BY <1>8, RecordsType DEF ProcessRecords
  <2> QED BY <1>8, <2>1 DEF ProcessRecords, ProcessUnchanged, TaskStates, handlerVars
<1>9. ASSUME NEW j \in Jobs, ProcessCancelled(j)
      PROVE  TypeOK'
  <2>1. /\ status' \in [Jobs -> Statuses]
        /\ events' \in [Jobs -> Seq(Statuses)]
        /\ changed' \in [Jobs -> BOOLEAN]
        /\ cancelRequested' \in [Jobs -> BOOLEAN]
    BY <1>9, StoreCancelType DEF ProcessCancelled
  <2> QED BY <1>9, <2>1 DEF ProcessCancelled, ProcessUnchanged, TaskStates, handlerVars
<1>10. ASSUME NEW j \in Jobs, WorkflowEnds(j) \/ WorkflowUnwinds(j) \/ TimerFires(j)
       PROVE  TypeOK'
  BY <1>10 DEF WorkflowEnds, WorkflowUnwinds, TimerFires, Ended, WorkflowStates,
               TaskStates, Unfinished, InWaitFor, storeVars, handlerVars
<1>11. ASSUME NEW j \in Jobs, WaiterWakes(j)
       PROVE  TypeOK'
  BY <1>11 DEF WaiterWakes, Terminal, taskVars
<1>12. ASSUME NEW j \in Jobs, StreamStep(j)
       PROVE  TypeOK'
  <2>1. stream' \in [Jobs -> StreamStates]
    BY <1>12 DEF StreamStep, StreamOpens, StreamContinues, StreamBeats, StreamDrops,
                 StreamReleases, StreamStates
  <2>2. changed' \in [Jobs -> BOOLEAN]
    <3>1. UNCHANGED changed \/ changed' = [changed EXCEPT ![j] = FALSE]
      BY <1>12 DEF StreamStep, StreamOpens, StreamContinues, StreamBeats, StreamDrops,
                   StreamReleases
    <3> QED BY <3>1
  <2>4. sent' \in [Jobs -> Nat]
    <3>1. sent[j] \in Nat
      OBVIOUS
    <3>2. \/ UNCHANGED sent
          \/ sent' = [sent EXCEPT ![j] = sent[j] + 1]
          \/ sent' = [sent EXCEPT ![j] = 0]
          \/ sent' = [sent EXCEPT ![j] = 1]
      BY <1>12 DEF StreamStep, StreamOpens, StreamContinues, StreamBeats, StreamDrops,
                   StreamReleases
    <3> QED BY <3>1, <3>2
  <2>3. StreamUnchanged
    BY <1>12 DEF StreamStep, StreamOpens, StreamContinues, StreamBeats, StreamDrops,
                 StreamReleases
  <2> QED BY <2>1, <2>2, <2>3, <2>4 DEF StreamUnchanged, taskVars
<1>13. CASE UNCHANGED vars
  BY <1>13 DEF vars
<1> QED BY <1>1, <1>2, <1>3, <1>4, <1>5, <1>6, <1>7, <1>8, <1>9, <1>10, <1>11, <1>12, <1>13
        DEF Next, DrainStep, ClientStep, ProcessStep

\* Every variable keeps its type, whatever the clients and the event loop do.
THEOREM TypeCorrect == Spec => []TypeOK
<1>1. TypeOK /\ [Next]_vars => TypeOK'
  BY TypeStep
<1> QED BY TypeInit, <1>1, PTL DEF Spec

-----------------------------------------------------------------------------
(***************************************************************************)
(* The drain, the _process tasks and the records they serve.               *)
(***************************************************************************)
Service == DrainAwaitsTask /\ TaskServesJob /\ WorkflowServesTask

\* A job not submitted yet has neither task nor workflow; creating it starts none.
LEMMA ServiceCreate ==
  ASSUME TypeOK, Service, NEW j \in Jobs, status[j] = "absent",
         status' = [status EXCEPT ![j] = "queued"], EnsureDrain,
         UNCHANGED cancelRequested
  PROVE  Service'
<1>1. DrainAwaitsTask'
  BY DEF Service, DrainAwaitsTask, EnsureDrain, DrainDone, TypeOK
<1>2. TaskServesJob'
  BY DEF Service, TaskServesJob, EnsureDrain, TypeOK
<1>3. WorkflowServesTask'
  BY DEF Service, WorkflowServesTask, EnsureDrain
<1> QED BY <1>1, <1>2, <1>3 DEF Service

\* DELETE: the record becomes cancelled and its task, if unfinished, is interrupted.
LEMMA ServiceCancel ==
  ASSUME TypeOK, Service, NEW j \in Jobs, Cancel(j)
  PROVE  Service'
<1> USE DEF Service
<1>1. UNCHANGED <<drain, awaited, workflow>>
  BY DEF Cancel
<1>2. /\ \A k \in Jobs \ {j} : status'[k] = status[k] /\ cancelRequested'[k] = cancelRequested[k]
      /\ \A k \in Jobs \ {j} : task'[k] = task[k]
  BY DEF Cancel, StoreCancel, Emit, TypeOK
<1>3. \/ /\ status[j] \in {"queued", "running"}
         /\ status'[j] = "cancelled"
         /\ cancelRequested'[j] = (cancelRequested[j] \/ status[j] = "running")
      \/ /\ status[j] \notin {"queued", "running"}
         /\ status'[j] = status[j]
         /\ cancelRequested'[j] = cancelRequested[j]
  BY DEF Cancel, StoreCancel, Emit, TypeOK
<1>4. \/ /\ task[j] \in Unfinished
         /\ task'[j] = Interrupt(task[j])
      \/ /\ task[j] \notin Unfinished
         /\ task'[j] = task[j]
  BY DEF Cancel, TypeOK, DrainAwaitsTask
<1>5. /\ task[j] \in Unfinished => task'[j] \in {"doomed", "interrupted", "abandoning"}
      /\ task[j] \in InWaitFor => task'[j] \in InWaitFor
      /\ task'[j] \in Unfinished <=> task[j] \in Unfinished
      /\ task'[j] = "none" <=> task[j] = "none"
  BY <1>4 DEF Interrupt, Unfinished, InWaitFor
<1>6. DrainAwaitsTask'
  BY <1>1, <1>2, <1>5 DEF DrainAwaitsTask, TypeOK
<1>7. TaskServesJob'
  <2>1. ASSUME NEW k \in Jobs, k # j
        PROVE  status'[k] = status[k] /\ cancelRequested'[k] = cancelRequested[k] /\ task'[k] = task[k]
    BY <2>1, <1>2
  <2>2. /\ task'[j] \in {"scheduled", "waiting", "timed_out", "expiring"} =>
              status'[j] = "running" /\ ~ cancelRequested'[j]
        /\ task'[j] \in {"doomed", "interrupted", "stopping", "abandoning"} =>
              status'[j] = "cancelled" /\ cancelRequested'[j]
        /\ status'[j] = "running" => task'[j] \in Unfinished
        /\ status'[j] \in {"absent", "queued"} => task'[j] = "none"
        /\ cancelRequested'[j] => status'[j] \in {"cancelled", "failed"}
    BY <1>3, <1>4, <1>5 DEF TaskServesJob, Unfinished, InWaitFor
  <2> QED BY <2>1, <2>2 DEF TaskServesJob
<1>8. WorkflowServesTask'
  BY <1>1, <1>2, <1>5 DEF WorkflowServesTask
<1> QED BY <1>6, <1>7, <1>8

\* When the drain is at claim_next, no task is unfinished and no job is running.
LEMMA NothingRunsAtClaim ==
  ASSUME TypeOK, Service, AtClaim
  PROVE  \A j \in Jobs : task[j] \notin Unfinished /\ status[j] # "running"
  BY DEF Service, AtClaim, DrainAwaitsTask, TaskServesJob, Unfinished, InWaitFor

LEMMA ServiceDrain ==
  ASSUME TypeOK, Service, DrainStep
  PROVE  Service'
<1> USE DEF Service
<1>1. CASE DrainClaims
  <2>1. PICK i \in DOMAIN order :
           /\ Claimable(i)
           /\ Emit(order[i], "running")
           /\ task' = [task EXCEPT ![order[i]] = "scheduled"]
           /\ awaited' = order[i]
    BY <1>1 DEF DrainClaims
  <2> DEFINE j == order[i]
  <2>2. j \in Jobs /\ j # NoJob /\ status[j] = "queued"
    BY <2>1 DEF TypeOK, Claimable
  <2>3. /\ status' = [status EXCEPT ![j] = "running"]
        /\ drain' = "awaiting"
        /\ UNCHANGED <<cancelRequested, workflow>>
    BY <1>1, <2>1 DEF DrainClaims, Emit
  <2>4. \A k \in Jobs : task[k] \notin Unfinished
    BY <1>1, NothingRunsAtClaim DEF DrainClaims
  <2>5. task[j] = "none" /\ ~ cancelRequested[j]
    BY <2>2 DEF TaskServesJob
  <2> HIDE DEF j
  <2>6. DrainAwaitsTask'
    BY <2>1, <2>2, <2>3, <2>4 DEF DrainAwaitsTask, TypeOK, Unfinished, InWaitFor, j
  <2>7. TaskServesJob'
    BY <2>1, <2>2, <2>3, <2>4, <2>5 DEF TaskServesJob, TypeOK, Unfinished, j
  <2>8. WorkflowServesTask'
    BY <2>1, <2>2, <2>3, <2>5 DEF WorkflowServesTask, TypeOK, InWaitFor, j
  <2> QED BY <2>6, <2>7, <2>8
<1>2. CASE DrainReturns
  <2>1. \A k \in Jobs : task[k] \notin Unfinished
    BY <1>2, NothingRunsAtClaim DEF DrainReturns
  <2>2. drain' = "returned" /\ awaited' = NoJob /\ UNCHANGED <<status, cancelRequested, task, workflow>>
    BY <1>2 DEF DrainReturns
  <2> QED BY <2>1, <2>2 DEF DrainAwaitsTask, TaskServesJob, WorkflowServesTask
<1>3. CASE DrainDies
  <2>1. drain' = "cancelled" /\ awaited' = NoJob /\ UNCHANGED <<status, cancelRequested, task, workflow>>
    BY <1>3 DEF DrainDies, storeVars
  <2>2. \A k \in Jobs : task[k] \notin Unfinished
    BY <1>3 DEF DrainDies, DrainAwaitsTask, Unfinished, InWaitFor
  <2> QED BY <2>1, <2>2 DEF DrainAwaitsTask, TaskServesJob, WorkflowServesTask
<1> QED BY <1>1, <1>2, <1>3 DEF DrainStep

\* A _process step is about its own job only.
LEMMA ProcessStepIsLocal ==
  ASSUME TypeOK, NEW j \in Jobs, ProcessStep(j)
  PROVE  /\ UNCHANGED <<drain, awaited>>
         /\ task[j] \in Unfinished
         /\ task'[j] \in Unfinished \cup {"finished", "dead"}
         /\ \A k \in Jobs \ {j} : /\ status'[k] = status[k]
                                  /\ cancelRequested'[k] = cancelRequested[k]
                                  /\ task'[k] = task[k]
                                  /\ workflow'[k] = workflow[k]
<1> USE DEF ProcessUnchanged, Unfinished, InWaitFor, TypeOK
<1>1. CASE ProcessStarts(j) \/ ProcessNeverStarts(j) \/ ProcessStopsWorkflow(j)
  BY <1>1 DEF ProcessStarts, ProcessNeverStarts, ProcessStopsWorkflow
<1>2. CASE ProcessRecords(j)
  BY <1>2 DEF ProcessRecords, Records, StoreSet, StoreCancel, Emit
<1>3. CASE ProcessCancelled(j)
  BY <1>3 DEF ProcessCancelled, StoreCancel, Emit
<1> QED BY <1>1, <1>2, <1>3 DEF ProcessStep

LEMMA ServiceProcess ==
  ASSUME TypeOK, Service, NEW j \in Jobs, ProcessStep(j)
  PROVE  Service'
<1> USE DEF Service
<1>1. DrainAwaitsTask'
  BY ProcessStepIsLocal DEF DrainAwaitsTask, TypeOK, Unfinished, InWaitFor
<1>2. TaskServesJob' /\ WorkflowServesTask'
  <2> DEFINE Served(k) ==
               /\ task'[k] \in {"scheduled", "waiting", "timed_out", "expiring"} =>
                     status'[k] = "running" /\ ~ cancelRequested'[k]
               /\ task'[k] \in {"doomed", "interrupted", "stopping", "abandoning"} =>
                     status'[k] = "cancelled" /\ cancelRequested'[k]
               /\ status'[k] = "running" => task'[k] \in Unfinished
               /\ status'[k] \in {"absent", "queued"} => task'[k] = "none"
               /\ cancelRequested'[k] => status'[k] \in {"cancelled", "failed"}
               /\ workflow'[k] = "active" => task'[k] \in InWaitFor
  <2>1. \A k \in Jobs \ {j} : Served(k)
    BY ProcessStepIsLocal DEF TaskServesJob, WorkflowServesTask
  <2>2. Served(j)
    <3> USE DEF TaskServesJob, WorkflowServesTask, TypeOK, Unfinished, InWaitFor
    <3>1. CASE ProcessStarts(j) \/ ProcessNeverStarts(j) \/ ProcessStopsWorkflow(j)
      BY <3>1 DEF ProcessStarts, ProcessNeverStarts, ProcessStopsWorkflow
    <3>2. CASE ProcessRecords(j)
      BY <3>2 DEF ProcessRecords, Records, StoreSet, StoreCancel, Emit, Ended
    <3>3. CASE ProcessCancelled(j)
      BY <3>3 DEF ProcessCancelled, StoreCancel, Emit, Ended
    <3> QED BY <3>1, <3>2, <3>3 DEF ProcessStep
  <2> QED BY <2>1, <2>2 DEF TaskServesJob, WorkflowServesTask
<1> QED BY <1>1, <1>2

LEMMA ServiceWorkflow ==
  ASSUME TypeOK, Service, NEW j \in Jobs,
         WorkflowEnds(j) \/ WorkflowUnwinds(j) \/ TimerFires(j)
  PROVE  Service'
<1> USE DEF Service, TypeOK, WorkflowEnds, WorkflowUnwinds, TimerFires, storeVars, Ended
<1>1. DrainAwaitsTask'
  BY DEF DrainAwaitsTask, Unfinished, InWaitFor
<1>2. TaskServesJob'
  BY DEF TaskServesJob, Unfinished, InWaitFor
<1>3. WorkflowServesTask'
  BY DEF WorkflowServesTask, InWaitFor
<1> QED BY <1>1, <1>2, <1>3

LEMMA ServiceUnchanged ==
  ASSUME Service, UNCHANGED coreVars
  PROVE  Service'
  BY DEF Service, DrainAwaitsTask, TaskServesJob, WorkflowServesTask, coreVars

LEMMA ServiceStep ==
  ASSUME TypeOK, Service, [Next]_vars
  PROVE  Service'
<1>1. ASSUME NEW j \in Jobs, NEW r \in Requests \cup {NoRequest}, Submit(j, r)
      PROVE  Service'
  BY <1>1, ServiceCreate DEF Submit, Create, Emit
<1>2. ASSUME NEW j \in Jobs, Analyze(j)
      PROVE  Service'
  BY <1>2, ServiceCreate DEF Analyze, Create
<1>3. CASE UNCHANGED vars
  BY <1>3, ServiceUnchanged DEF vars, coreVars
<1> QED BY <1>1, <1>2, <1>3, ServiceCancel, ServiceDrain, ServiceProcess, ServiceWorkflow,
           ServiceUnchanged, ReadersChangeNothing
        DEF Next, ClientStep

LEMMA ServiceInit == Init => Service
  BY DEF Init, Service, DrainAwaitsTask, TaskServesJob, WorkflowServesTask, Unfinished, InWaitFor

LEMMA ServiceInvariant == Spec => [](TypeOK /\ Service)
<1>1. Init => TypeOK /\ Service
  BY TypeInit, ServiceInit
<1>2. (TypeOK /\ Service) /\ [Next]_vars => (TypeOK /\ Service)'
  BY TypeStep, ServiceStep
<1> QED BY <1>1, <1>2, PTL DEF Spec

\* At most one investigation executes at any time.  Whatever executes belongs to
\* an unfinished _process task, and the one drain awaits every such task.
THEOREM OneWorkflowAlways == Spec => []OneWorkflow
<1>1. TypeOK /\ Service => OneWorkflow
  BY DEF Service, OneWorkflow, Executing, DrainAwaitsTask, WorkflowServesTask, Unfinished, InWaitFor
<1> QED BY <1>1, ServiceInvariant, PTL

\* A cancelled job never becomes complete: a task still at work on it carries
\* cancel_requested, and _process looks at that before it stores the result.
THEOREM CancelledNeverCompletesAlways == Spec => CancelledNeverCompletes
<1>1. ASSUME TypeOK, Service, [Next]_vars, NEW j \in Jobs, status[j] = "cancelled"
      PROVE  status'[j] # "complete"
  <2> SUFFICES ASSUME status'[j] = "complete" PROVE FALSE
    OBVIOUS
  <2>1. ASSUME NEW k \in Jobs, ProcessRecords(k)
        PROVE  FALSE
    <3>1. k = j
      BY <1>1, <2>1, ProcessStepIsLocal DEF ProcessStep
    <3>2. task[j] \in InWaitFor \cup {"expiring"} /\ cancelRequested[j]
      BY <1>1, <2>1, <3>1 DEF ProcessRecords, Service, TaskServesJob, InWaitFor
    <3>3. StoreSet(j, "failed") \/ StoreCancel(j)
      BY <2>1, <3>1, <3>2 DEF ProcessRecords, Records
    <3> QED BY <1>1, <3>3 DEF StoreSet, StoreCancel, Emit, TypeOK
  <2>2. ASSUME NEW k \in Jobs, ClientStep(k)
        PROVE  FALSE
    BY <1>1, <2>2 DEF ClientStep, Submit, Analyze, Cancel, Create, StoreCancel, Emit, TypeOK
  <2>3. ASSUME DrainStep PROVE FALSE
    BY <1>1, <2>3 DEF DrainStep, DrainClaims, DrainReturns, DrainDies, storeVars, Emit, TypeOK
  <2>4. ASSUME NEW k \in Jobs, ProcessStarts(k) \/ ProcessNeverStarts(k)
                               \/ ProcessStopsWorkflow(k) \/ ProcessCancelled(k)
        PROVE  FALSE
    BY <1>1, <2>4 DEF ProcessStarts, ProcessNeverStarts, ProcessStopsWorkflow,
                     ProcessCancelled, StoreCancel, Emit, TypeOK
  <2>5. ASSUME NEW k \in Jobs, WorkflowEnds(k) \/ WorkflowUnwinds(k) \/ TimerFires(k)
        PROVE  FALSE
    BY <1>1, <2>5 DEF WorkflowEnds, WorkflowUnwinds, TimerFires, storeVars
  <2>6. CASE UNCHANGED coreVars
    BY <1>1, <2>6 DEF coreVars
  <2> QED BY <1>1, <2>1, <2>2, <2>3, <2>4, <2>5, <2>6, ReadersChangeNothing
          DEF Next, ProcessStep, vars, coreVars
<1>2. TypeOK /\ Service /\ [Next]_vars
        => [\A j \in Jobs : status[j] = "cancelled" => status'[j] # "complete"]_vars
  BY <1>1
<1> QED BY <1>2, ServiceInvariant, PTL DEF Spec, CancelledNeverCompletes

-----------------------------------------------------------------------------
(***************************************************************************)
(* The bound on the load and the uniqueness of request ids.                *)
(***************************************************************************)
Creates(j) ==
    /\ \E r \in Requests \cup {NoRequest} : Create(j, r)
    /\ status' = [status EXCEPT ![j] = "queued"]

\* Only a submission adds to the load or to the submitted jobs.
LEMMA LoadedOnlyByCreate ==
  ASSUME TypeOK, Service, [Next]_vars
  PROVE  \/ \E j \in Jobs : Creates(j)
         \/ Loaded' \subseteq Loaded /\ Submitted' = Submitted /\ UNCHANGED request
<1> DEFINE Shrinks == Loaded' \subseteq Loaded /\ Submitted' = Submitted /\ UNCHANGED request
<1>1. ASSUME NEW j \in Jobs, NEW r \in Requests \cup {NoRequest}, Submit(j, r) \/ Analyze(j)
      PROVE  Creates(j)
  BY <1>1 DEF Submit, Analyze, Emit, Creates
<1>2. ASSUME NEW j \in Jobs, Cancel(j)
      PROVE  Shrinks
  BY <1>2 DEF Cancel, StoreCancel, Emit, Loaded, Submitted, TypeOK
<1>3. ASSUME DrainStep
      PROVE  Shrinks
  <2>1. CASE DrainClaims
    <3>1. PICK i \in DOMAIN order : Claimable(i) /\ Emit(order[i], "running")
      BY <2>1 DEF DrainClaims
    <3>2. order[i] \in Jobs /\ status[order[i]] = "queued"
      BY <3>1 DEF Claimable, TypeOK
    <3>3. UNCHANGED request
      BY <2>1 DEF DrainClaims
    <3> QED BY <3>1, <3>2, <3>3 DEF Emit, Loaded, Submitted, TypeOK
  <2>2. CASE DrainReturns \/ DrainDies
    BY <2>2 DEF DrainReturns, DrainDies, storeVars, Loaded, Submitted
  <2> QED BY <1>3, <2>1, <2>2 DEF DrainStep
<1>4. ASSUME NEW j \in Jobs, ProcessStep(j)
      PROVE  Shrinks
  <2>1. status[j] \in {"running", "cancelled"}
    BY <1>4, ProcessStepIsLocal DEF Service, TaskServesJob, Unfinished, InWaitFor
  <2>2. status' = status \/ \E s \in TERMINAL_STATUSES : status' = [status EXCEPT ![j] = s]
    BY <1>4 DEF ProcessStep, ProcessStarts, ProcessNeverStarts, ProcessStopsWorkflow, ProcessRecords,
                Records, StoreSet, ProcessCancelled, StoreCancel, Emit, TERMINAL_STATUSES
  <2>3. UNCHANGED request
    BY <1>4 DEF ProcessStep, ProcessStarts, ProcessNeverStarts, ProcessStopsWorkflow, ProcessRecords,
                ProcessCancelled, ProcessUnchanged
  <2> QED BY <2>1, <2>2, <2>3 DEF Loaded, Submitted, TypeOK, TERMINAL_STATUSES
<1>5. ASSUME NEW j \in Jobs, WorkflowEnds(j) \/ WorkflowUnwinds(j) \/ TimerFires(j)
      PROVE  Shrinks
  BY <1>5 DEF WorkflowEnds, WorkflowUnwinds, TimerFires, storeVars, Loaded, Submitted
<1>6. CASE UNCHANGED coreVars
  BY <1>6 DEF coreVars, Loaded, Submitted
<1> QED BY <1>1, <1>2, <1>3, <1>4, <1>5, <1>6, ReadersChangeNothing
        DEF Next, ClientStep, vars, coreVars

LEMMA BoundedLoadStep ==
  ASSUME TypeOK, Service, BoundedLoad, [Next]_vars
  PROVE  BoundedLoad'
<1>0. IsFiniteSet(Loaded) /\ Cardinality(Loaded) \in Nat
  BY FS_Subset, FS_CardinalityType DEF Loaded
<1>1. ASSUME NEW j \in Jobs, Creates(j)
      PROVE  BoundedLoad'
  <2>1. Loaded' = Loaded \cup {j} /\ j \notin Loaded
    BY <1>1 DEF Creates, Create, Loaded, TypeOK
  <2>2. Cardinality(Loaded) < 1 + QueueCapacity
    BY <1>1 DEF Creates, Create, Admits
  <2>3. Cardinality(Loaded') = Cardinality(Loaded) + 1
    BY <1>0, <2>1, FS_AddElement
  <2> QED BY <1>0, <2>2, <2>3 DEF BoundedLoad
<1>2. CASE Loaded' \subseteq Loaded
  <2>1. Cardinality(Loaded') <= Cardinality(Loaded) /\ Cardinality(Loaded') \in Nat
    BY <1>0, <1>2, FS_Subset, FS_CardinalityType
  <2> QED BY <1>0, <2>1 DEF BoundedLoad
<1> QED BY <1>1, <1>2, LoadedOnlyByCreate

\* Jobs waiting and in service never exceed one plus the configured capacity.
THEOREM BoundedLoadAlways == Spec => []BoundedLoad
<1>1. Init => BoundedLoad
  <2>1. Init => Loaded = {}
    BY DEF Init, Loaded
  <2> QED BY <2>1, FS_EmptySet DEF BoundedLoad
<1>2. BoundedLoad /\ (TypeOK /\ Service) /\ [Next]_vars => BoundedLoad'
  BY BoundedLoadStep
<1> QED BY <1>1, <1>2, ServiceInvariant, PTL DEF Spec

\* A client_request_id never names two jobs, however often a client retries.
THEOREM RequestIsUniqueAlways == Spec => []RequestIsUnique
<1>1. Init => RequestIsUnique
  BY DEF Init, RequestIsUnique, Submitted
<1>2. RequestIsUnique /\ (TypeOK /\ Service) /\ [Next]_vars => RequestIsUnique'
  <2> SUFFICES ASSUME RequestIsUnique, TypeOK, Service, [Next]_vars
               PROVE  RequestIsUnique'
    OBVIOUS
  <2>1. ASSUME NEW j \in Jobs, Creates(j)
        PROVE  RequestIsUnique'
    <3>1. PICK r \in Requests \cup {NoRequest} : Create(j, r)
      BY <2>1 DEF Creates
    <3>2. Submitted' = Submitted \cup {j}
      BY <2>1 DEF Creates, Submitted, TypeOK
    <3>3. request' = [request EXCEPT ![j] = r] /\ request \in [Jobs -> Requests \cup {NoRequest}]
      BY <3>1 DEF Create, TypeOK
    <3>4. r = NoRequest \/ \A k \in Submitted : request[k] # r
      BY <3>1 DEF Create, Admits
    <3>5. Submitted \subseteq Jobs
      BY DEF Submitted
    <3> QED BY <3>2, <3>3, <3>4, <3>5 DEF RequestIsUnique
  <2>2. CASE Submitted' = Submitted /\ UNCHANGED request
    BY <2>2 DEF RequestIsUnique
  <2> QED BY <2>1, <2>2, LoadedOnlyByCreate
<1> QED BY <1>1, <1>2, ServiceInvariant, PTL DEF Spec

-----------------------------------------------------------------------------
(***************************************************************************)
(* The readers of a record.                                                *)
(***************************************************************************)
Reading == OneReader /\ NoLostWakeup /\ AnswerIsOutcome

recordVars == <<status, events, changed, waiter, stream, sent>>

\* An event wakes whoever reads the record; a waiting handler is never told "cancelled".
LEMMA EmitKeepsReading ==
  ASSUME TypeOK, Reading, NEW j \in Jobs, NEW s \in Statuses \ {"absent"},
         Emit(j, s), UNCHANGED handlerVars,
         waiter[j] = "none" \/ (waiter[j] = "parked" /\ s # "cancelled")
  PROVE  Reading'
<1> USE DEF Reading, Emit, handlerVars
<1>1. events[j] \in Seq(Statuses) /\ events'[j] = Append(events[j], s)
  BY DEF TypeOK
<1>2. events'[j] # <<>> /\ Len(events'[j]) = Len(events[j]) + 1
  BY <1>1
<1>3. \A k \in Jobs \ {j} : status'[k] = status[k] /\ events'[k] = events[k] /\ changed'[k] = changed[k]
  BY DEF TypeOK
<1>4. status'[j] = s /\ changed'[j]
  BY DEF TypeOK
<1>5. OneReader'
  <2>1. sent[j] <= Len(events'[j])
    BY <1>1, <1>2 DEF OneReader, TypeOK
  <2> QED BY <1>2, <1>3, <1>4, <2>1 DEF OneReader
<1>6. NoLostWakeup'
  BY <1>3, <1>4 DEF NoLostWakeup, Terminal
<1>7. AnswerIsOutcome'
  BY <1>3, <1>4 DEF AnswerIsOutcome, TERMINAL_STATUSES
<1> QED BY <1>5, <1>6, <1>7

LEMMA SameRecordKeepsReading ==
  ASSUME Reading, UNCHANGED recordVars
  PROVE  Reading'
  BY DEF Reading, OneReader, NoLostWakeup, AnswerIsOutcome, Terminal, recordVars

\* /analyze creates the record and parks in one step.
LEMMA AnalyzeKeepsReading ==
  ASSUME TypeOK, Reading, NEW j \in Jobs, Analyze(j)
  PROVE  Reading'
<1> USE DEF Reading
<1>1. /\ status[j] = "absent" /\ status'[j] = "queued"
      /\ waiter'[j] = "parked" /\ events'[j] = Append(events[j], "queued")
  BY DEF Analyze, Create, TypeOK
<1>2. \A k \in Jobs \ {j} : /\ status'[k] = status[k] /\ events'[k] = events[k]
                          /\ changed'[k] = changed[k] /\ waiter'[k] = waiter[k]
  BY DEF Analyze, TypeOK
<1>3. UNCHANGED <<stream, sent>>
  BY DEF Analyze
<1>4. events[j] \in Seq(Statuses) /\ sent[j] \in Nat
  BY DEF TypeOK
<1>5. events'[j] # <<>> /\ sent[j] <= Len(events'[j])
  BY <1>1, <1>4 DEF OneReader
<1>6. OneReader'
  BY <1>1, <1>2, <1>3, <1>5 DEF OneReader
<1>7. NoLostWakeup'
  BY <1>1, <1>2, <1>3 DEF NoLostWakeup, OneReader, Terminal, TERMINAL_STATUSES
<1>8. AnswerIsOutcome'
  BY <1>1, <1>2 DEF AnswerIsOutcome, TERMINAL_STATUSES
<1> QED BY <1>6, <1>7, <1>8

\* The handler that wakes clears an asyncio.Event nobody else listens to.
LEMMA WaiterKeepsReading ==
  ASSUME TypeOK, Reading, NEW j \in Jobs, WaiterWakes(j)
  PROVE  Reading'
<1> USE DEF Reading
<1>1. /\ waiter[j] = "parked" /\ UNCHANGED <<status, events, stream, sent>>
      /\ waiter'[j] = IF Terminal(j) THEN status[j] ELSE "parked"
  BY DEF WaiterWakes, TypeOK
<1>2. \A k \in Jobs \ {j} : changed'[k] = changed[k] /\ waiter'[k] = waiter[k]
  BY DEF WaiterWakes, TypeOK
<1>3. OneReader'
  BY <1>1, <1>2 DEF OneReader
<1>4. NoLostWakeup'
  BY <1>1, <1>2 DEF NoLostWakeup, OneReader, Terminal, TERMINAL_STATUSES
<1>5. AnswerIsOutcome'
  BY <1>1, <1>2 DEF AnswerIsOutcome, Terminal, TERMINAL_STATUSES
<1> QED BY <1>3, <1>4, <1>5

LEMMA StreamKeepsReading ==
  ASSUME TypeOK, Reading, NEW j \in Jobs, StreamStep(j)
  PROVE  Reading'
<1> USE DEF Reading
<1>1. UNCHANGED <<status, events, waiter>>
  BY DEF StreamStep, StreamOpens, StreamContinues, StreamBeats, StreamDrops, StreamReleases,
         StreamUnchanged
<1>2. \A k \in Jobs \ {j} : changed'[k] = changed[k] /\ stream'[k] = stream[k] /\ sent'[k] = sent[k]
  BY DEF StreamStep, StreamOpens, StreamContinues, StreamBeats, StreamDrops, StreamReleases, TypeOK
<1>3. events[j] \in Seq(Statuses) /\ Len(events[j]) \in Nat /\ sent[j] \in Nat /\ sent[j] <= Len(events[j])
  BY DEF TypeOK, OneReader
<1>4. CASE StreamOpens(j)
  <2>1. waiter[j] = "none" /\ status[j] # "absent" /\ stream'[j] = "sending" /\ sent'[j] = 1
    BY <1>4 DEF StreamOpens, Known, Submitted, TypeOK
  <2>2. Len(events[j]) >= 1
    BY <1>3, <2>1 DEF OneReader
  <2>3. UNCHANGED changed
    BY <1>4 DEF StreamOpens
  <2>4. OneReader'
    BY <1>1, <1>2, <2>1, <2>2 DEF OneReader
  <2>5. NoLostWakeup'
    BY <1>1, <1>2, <2>1, <2>3 DEF NoLostWakeup, Terminal
  <2> QED BY <1>1, <2>4, <2>5 DEF AnswerIsOutcome
<1>5. CASE StreamContinues(j)
  <2>1. stream[j] # "closed"
    BY <1>5 DEF StreamContinues
  <2>2. waiter[j] = "none" /\ status[j] # "absent"
    BY <2>1 DEF OneReader
  <2>3. \/ sent[j] < Len(events[j]) /\ sent'[j] = sent[j] + 1 /\ stream'[j] = "sending" /\ UNCHANGED changed
        \/ sent'[j] = 0 /\ stream'[j] = "closed" /\ UNCHANGED changed
        \/ sent[j] >= Len(events[j]) /\ ~ Terminal(j) /\ stream'[j] = "listening" /\ sent' = sent
    BY <1>5 DEF StreamContinues, TypeOK
  <2>4. sent'[j] <= Len(events[j])
    BY <1>3, <2>3
  <2>5. OneReader'
    BY <1>1, <1>2, <2>2, <2>4 DEF OneReader
  <2>6. stream'[j] = "listening" => ~ Terminal(j) /\ sent'[j] = Len(events[j])
    BY <1>3, <2>3
  <2>7. NoLostWakeup'
    BY <1>1, <1>2, <2>2, <2>6 DEF NoLostWakeup, Terminal
  <2> QED BY <1>1, <2>5, <2>7 DEF AnswerIsOutcome
<1>6. CASE StreamBeats(j) \/ StreamDrops(j) \/ StreamReleases(j)
  <2>1. /\ stream[j] # "closed" /\ stream'[j] # "listening" /\ UNCHANGED changed
        /\ sent'[j] = sent[j] \/ sent'[j] = 0
    BY <1>6 DEF StreamBeats, StreamDrops, StreamReleases, TypeOK
  <2>2. sent'[j] <= Len(events[j])
    BY <1>3, <2>1
  <2>3. OneReader'
    BY <1>1, <1>2, <2>1, <2>2 DEF OneReader
  <2>4. NoLostWakeup'
    BY <1>1, <1>2, <2>1 DEF NoLostWakeup, Terminal
  <2> QED BY <1>1, <2>3, <2>4 DEF AnswerIsOutcome
<1> QED BY <1>4, <1>5, <1>6 DEF StreamStep

\* What a _process step does to its record, if anything, wakes its readers.
LEMMA ProcessKeepsReading ==
  ASSUME TypeOK, Service, Reading, NEW j \in Jobs, ProcessStep(j)
  PROVE  Reading'
<1>1. UNCHANGED handlerVars
  BY DEF ProcessStep, ProcessStarts, ProcessNeverStarts, ProcessStopsWorkflow, ProcessRecords,
         ProcessCancelled, ProcessUnchanged
<1>2. \/ UNCHANGED <<status, events, changed>>
      \/ /\ status[j] = "running"
         /\ \E s \in {"complete", "failed"} : Emit(j, s)
      \/ /\ status[j] = "cancelled"
         /\ Emit(j, "failed")
  <2>1. CASE ProcessStarts(j) \/ ProcessNeverStarts(j) \/ ProcessStopsWorkflow(j)
    BY <2>1 DEF ProcessStarts, ProcessNeverStarts, ProcessStopsWorkflow
  <2>2. CASE ProcessRecords(j)
    BY <2>2 DEF ProcessRecords, Records, StoreSet, StoreCancel, Service, TaskServesJob, InWaitFor
  <2>3. CASE ProcessCancelled(j)
    BY <2>3 DEF ProcessCancelled, StoreCancel, Service, TaskServesJob
  <2> QED BY <2>1, <2>2, <2>3 DEF ProcessStep
<1>3. CASE UNCHANGED <<status, events, changed>>
  BY <1>1, <1>3, SameRecordKeepsReading DEF handlerVars, recordVars
<1>4. ASSUME status[j] \in {"running", "cancelled"}, NEW s \in {"complete", "failed"}, Emit(j, s)
      PROVE  Reading'
  <2>1. waiter[j] \in {"none", "parked"}
    BY <1>4 DEF Reading, OneReader, AnswerIsOutcome, TypeOK, TERMINAL_STATUSES
  <2>2. s \in Statuses \ {"absent"} /\ s # "cancelled"
    BY <1>4 DEF Statuses, TERMINAL_STATUSES
  <2> QED BY <1>1, <1>4, <2>1, <2>2, EmitKeepsReading
<1> QED BY <1>2, <1>3, <1>4

LEMMA ReadingStep ==
  ASSUME TypeOK, Service, Reading, [Next]_vars
  PROVE  Reading'
<1>0. "queued" \in Statuses \ {"absent"} /\ "running" \in Statuses \ {"absent"}
      /\ "cancelled" \in Statuses \ {"absent"}
  BY DEF Statuses, TERMINAL_STATUSES
<1>1. ASSUME NEW j \in Jobs, NEW r \in Requests \cup {NoRequest}, Submit(j, r)
      PROVE  Reading'
  <2>1. waiter[j] = "none"
    BY <1>1 DEF Submit, Create, Reading, OneReader
  <2> QED BY <1>0, <1>1, <2>1, EmitKeepsReading DEF Submit
<1>2. ASSUME NEW j \in Jobs, Cancel(j)
      PROVE  Reading'
  <2>1. waiter[j] = "none" /\ UNCHANGED handlerVars
    BY <1>2 DEF Cancel, Known
  <2>2. Emit(j, "cancelled") \/ UNCHANGED <<status, events, changed>>
    BY <1>2 DEF Cancel, StoreCancel
  <2>3. CASE Emit(j, "cancelled")
    BY <1>0, <2>1, <2>3, EmitKeepsReading
  <2>4. CASE UNCHANGED <<status, events, changed>>
    BY <2>1, <2>4, SameRecordKeepsReading DEF handlerVars, recordVars
  <2> QED BY <2>2, <2>3, <2>4
<1>3. CASE DrainClaims
  <2>1. PICK i \in DOMAIN order : Claimable(i) /\ Emit(order[i], "running")
    BY <1>3 DEF DrainClaims
  <2>2. order[i] \in Jobs /\ status[order[i]] = "queued"
    BY <2>1 DEF Claimable, TypeOK
  <2>3. waiter[order[i]] \in {"none", "parked"}
    BY <2>2 DEF Reading, AnswerIsOutcome, TypeOK, TERMINAL_STATUSES
  <2> QED BY <1>0, <1>3, <2>1, <2>2, <2>3, EmitKeepsReading DEF DrainClaims
<1>4. CASE DrainReturns \/ DrainDies
  BY <1>4, SameRecordKeepsReading DEF DrainReturns, DrainDies, storeVars, handlerVars, recordVars
<1>5. ASSUME NEW j \in Jobs, WorkflowEnds(j) \/ WorkflowUnwinds(j) \/ TimerFires(j)
      PROVE  Reading'
  BY <1>5, SameRecordKeepsReading
     DEF WorkflowEnds, WorkflowUnwinds, TimerFires, storeVars, handlerVars, recordVars
<1>6. CASE UNCHANGED vars
  BY <1>6, SameRecordKeepsReading DEF vars, recordVars
<1> QED BY <1>1, <1>2, <1>3, <1>4, <1>5, <1>6, AnalyzeKeepsReading, ProcessKeepsReading,
           WaiterKeepsReading, StreamKeepsReading
        DEF Next, ClientStep, DrainStep

LEMMA ReadingInvariant == Spec => []Reading
<1>1. Init => Reading
  BY DEF Init, Reading, OneReader, NoLostWakeup, AnswerIsOutcome, Terminal, TERMINAL_STATUSES
<1>2. Reading /\ (TypeOK /\ Service) /\ [Next]_vars => Reading'
  BY ReadingStep
<1> QED BY <1>1, <1>2, ServiceInvariant, PTL DEF Spec

\* No wake-up is lost: whoever is parked without a pending wake-up has seen
\* every event of a job that has not ended.
THEOREM NoLostWakeupAlways == Spec => []NoLostWakeup
<1>1. Reading => NoLostWakeup
  BY DEF Reading
<1> QED BY <1>1, ReadingInvariant, PTL

\* What /analyze answered is, and stays, how the job ended.
THEOREM AnswerIsOutcomeAlways == Spec => []AnswerIsOutcome
<1>1. Reading => AnswerIsOutcome
  BY DEF Reading
<1> QED BY <1>1, ReadingInvariant, PTL

-----------------------------------------------------------------------------
(***************************************************************************)
(* The deque and the drain.                                                *)
(***************************************************************************)
LEMMA LeastNumber ==
  ASSUME NEW T \in SUBSET Nat, T # {}
  PROVE  \E m \in T : \A n \in T : m <= n
<1>1. IsWellFoundedOn(OpToRel(<, Nat), Nat)
  BY NatLessThanWellFounded
<1>2. PICK m \in T : \A n \in T : ~ (<<n, m>> \in OpToRel(<, Nat))
  BY <1>1, WFMin
<1>3. \A n \in T : ~ (n < m)
  BY <1>2 DEF OpToRel
<1> QED BY <1>3

\* If a job is queued and none is running, claim_next finds one to claim.
LEMMA SomeClaimable ==
  ASSUME TypeOK, QueuedInOrder, NEW j \in Jobs, status[j] = "queued",
         \A k \in Jobs : status[k] # "running"
  PROVE  \E i \in DOMAIN order : Claimable(i)
<1> DEFINE T == {i \in DOMAIN order : status[order[i]] = "queued"}
<1>1. order \in Seq(Jobs) /\ DOMAIN order = 1 .. Len(order) /\ Len(order) \in Nat
  BY DEF TypeOK
<1>2. T \in SUBSET Nat /\ T # {}
  BY <1>1 DEF QueuedInOrder
<1>3. PICK i \in T : \A n \in T : i <= n
  BY <1>2, LeastNumber
<1>4. \A k \in 1 .. i - 1 : status[order[k]] # "queued"
  BY <1>1, <1>3
<1> QED BY <1>3, <1>4 DEF Claimable

LEMMA QueueStep ==
  ASSUME TypeOK, Service, QueuedInOrder, QueuedHasDrain, [Next]_vars
  PROVE  QueuedInOrder' /\ QueuedHasDrain'
<1> DEFINE Queued == {j \in Jobs : status[j] = "queued"}
<1>0. order \in Seq(Jobs) /\ DOMAIN order = 1 .. Len(order) /\ Len(order) \in Nat
  BY DEF TypeOK
<1>1. ASSUME Queued' \subseteq Queued, UNCHANGED <<order, drain>>
      PROVE  QueuedInOrder' /\ QueuedHasDrain'
  BY <1>1 DEF QueuedInOrder, QueuedHasDrain
<1>2. ASSUME NEW j \in Jobs, Creates(j), EnsureDrain
      PROVE  QueuedInOrder' /\ QueuedHasDrain'
  <2>1. order' = Append(order, j) /\ Queued' = Queued \cup {j}
    BY <1>2 DEF Creates, Create, TypeOK
  <2>2. /\ DOMAIN order' = 1 .. Len(order) + 1
        /\ order'[Len(order) + 1] = j
        /\ \A i \in DOMAIN order : order'[i] = order[i]
    BY <1>0, <2>1
  <2>3. QueuedInOrder'
    BY <1>0, <2>1, <2>2 DEF QueuedInOrder
  <2>4. drain' \in {"ready", "awaiting"}
    BY <1>2 DEF EnsureDrain, DrainDone, TypeOK, DrainStates
  <2> QED BY <2>3, <2>4 DEF QueuedHasDrain
<1>3. CASE DrainClaims
  <2>1. PICK i \in DOMAIN order :
           /\ Claimable(i)
           /\ order' = SubSeq(order, i + 1, Len(order))
           /\ Emit(order[i], "running")
    BY <1>3 DEF DrainClaims
  <2>2. Queued' = Queued \ {order[i]}
    BY <2>1 DEF Emit, TypeOK
  <2>3. ASSUME NEW j \in Jobs, status'[j] = "queued"
        PROVE  \E m \in DOMAIN order' : order'[m] = j
    <3>1. status[j] = "queued" /\ j # order[i]
      BY <2>2, <2>3
    <3>2. PICK n \in DOMAIN order : order[n] = j
      BY <3>1 DEF QueuedInOrder
    <3>3. n > i
      BY <1>0, <2>1, <3>1, <3>2 DEF Claimable
    <3>4. n - i \in 1 .. Len(order) - i
      BY <1>0, <3>3
    <3>5. /\ DOMAIN order' = 1 .. Len(order) - i
          /\ \A m \in 1 .. Len(order) - i : order'[m] = order[m + i]
      BY <1>0, <2>1
    <3>6. order'[n - i] = j
      BY <1>0, <3>2, <3>4, <3>5
    <3> QED BY <3>4, <3>5, <3>6
  <2>4. drain' = "awaiting"
    BY <1>3 DEF DrainClaims
  <2> QED BY <2>3, <2>4 DEF QueuedInOrder, QueuedHasDrain
<1>4. CASE DrainReturns
  <2>1. Queued = {}
    BY <1>4, NothingRunsAtClaim, SomeClaimable DEF DrainReturns
  <2>2. UNCHANGED status
    BY <1>4 DEF DrainReturns
  <2> QED BY <2>1, <2>2 DEF QueuedInOrder, QueuedHasDrain
<1>5. CASE DrainDies
  BY <1>5 DEF DrainDies, storeVars, QueuedInOrder, QueuedHasDrain
<1>6. ASSUME NEW j \in Jobs, Cancel(j)
      PROVE  QueuedInOrder' /\ QueuedHasDrain'
  BY <1>1, <1>6 DEF Cancel, StoreCancel, Emit, TypeOK
<1>7. ASSUME NEW j \in Jobs, ProcessStep(j)
      PROVE  QueuedInOrder' /\ QueuedHasDrain'
  <2>1. UNCHANGED <<order, drain>>
    BY <1>7 DEF ProcessStep, ProcessStarts, ProcessNeverStarts, ProcessStopsWorkflow,
                ProcessRecords, ProcessCancelled, ProcessUnchanged
  <2>2. status' = status \/ \E s \in TERMINAL_STATUSES : status' = [status EXCEPT ![j] = s]
    BY <1>7 DEF ProcessStep, ProcessStarts, ProcessNeverStarts, ProcessStopsWorkflow, ProcessRecords,
                Records, StoreSet, ProcessCancelled, StoreCancel, Emit, TERMINAL_STATUSES
  <2> QED BY <1>1, <2>1, <2>2 DEF TypeOK, TERMINAL_STATUSES
<1>8. ASSUME NEW j \in Jobs, WorkflowEnds(j) \/ WorkflowUnwinds(j) \/ TimerFires(j)
      PROVE  QueuedInOrder' /\ QueuedHasDrain'
  BY <1>1, <1>8 DEF WorkflowEnds, WorkflowUnwinds, TimerFires, storeVars
<1>9. CASE UNCHANGED coreVars
  BY <1>1, <1>9 DEF coreVars
<1>10. ASSUME NEW j \in Jobs, NEW r \in Requests \cup {NoRequest}, Submit(j, r) \/ Analyze(j)
       PROVE  Creates(j) /\ EnsureDrain
  BY <1>10 DEF Submit, Analyze, Emit, Creates
<1> QED BY <1>2, <1>3, <1>4, <1>5, <1>6, <1>7, <1>8, <1>9, <1>10, ReadersChangeNothing
        DEF Next, ClientStep, DrainStep, vars, coreVars

Queueing == QueuedInOrder /\ QueuedHasDrain

LEMMA QueueInvariant == Spec => []Queueing
<1>1. Init => Queueing
  BY DEF Init, Queueing, QueuedInOrder, QueuedHasDrain
<1>2. Queueing /\ (TypeOK /\ Service) /\ [Next]_vars => Queueing'
  BY QueueStep DEF Queueing
<1> QED BY <1>1, <1>2, ServiceInvariant, PTL DEF Spec

\* A queued job always has a drain that will come to it, or one that a
\* cancellation killed: the drain never returns while a job is queued.
THEOREM QueuedHasDrainAlways == Spec => []QueuedHasDrain
<1>1. Queueing => QueuedHasDrain
  BY DEF Queueing
<1> QED BY <1>1, QueueInvariant, PTL

-----------------------------------------------------------------------------
(***************************************************************************)
(* First come, first served.                                               *)
(***************************************************************************)
\* A step that is no submission leaves _jobs alone and at most shortens _order.
LEMMA OrderOnlyByCreate ==
  ASSUME TypeOK, Service, [Next]_vars
  PROVE  \/ \E j \in Jobs : Creates(j)
         \/ /\ UNCHANGED jobs /\ Submitted' = Submitted
            /\ \E d \in 0 .. Len(order) : order' = SubSeq(order, d + 1, Len(order))
<1>1. CASE UNCHANGED order
  <2>1. order \in Seq(Jobs) /\ Len(order) \in Nat
    BY DEF TypeOK
  <2>2. order' = SubSeq(order, 0 + 1, Len(order))
    BY <1>1, <2>1
  <2>3. UNCHANGED jobs \/ \E j \in Jobs : Creates(j)
    BY <1>1 DEF Next, DrainStep, DrainClaims, DrainReturns, DrainDies, ClientStep, Submit, Analyze, Cancel,
                Emit, Creates, ProcessStep, ProcessStarts, ProcessNeverStarts, ProcessStopsWorkflow,
                ProcessRecords, ProcessCancelled, ProcessUnchanged, WorkflowEnds, WorkflowUnwinds,
                TimerFires, WaiterWakes, StreamStep, StreamOpens, StreamContinues, StreamBeats,
                StreamDrops, StreamReleases, StreamUnchanged, storeVars, vars
  <2>4. 0 \in 0 .. Len(order)
    BY <2>1
  <2> QED BY <2>2, <2>3, <2>4, LoadedOnlyByCreate
<1>2. CASE DrainClaims
  <2>1. PICK i \in DOMAIN order : order' = SubSeq(order, i + 1, Len(order))
    BY <1>2 DEF DrainClaims
  <2>2. i \in 0 .. Len(order)
    BY DEF TypeOK
  <2>3. UNCHANGED jobs
    BY <1>2 DEF DrainClaims
  <2> QED BY <2>1, <2>2, <2>3, LoadedOnlyByCreate
<1>3. CASE DrainReturns /\ order' = <<>>
  <2>1. order' = SubSeq(order, Len(order) + 1, Len(order)) /\ Len(order) \in 0 .. Len(order)
    BY <1>3 DEF TypeOK
  <2>2. UNCHANGED jobs
    BY <1>3 DEF DrainReturns
  <2> QED BY <2>1, <2>2, LoadedOnlyByCreate
<1>4. UNCHANGED order \/ DrainClaims \/ (DrainReturns /\ order' = <<>>) \/ \E j \in Jobs : Creates(j)
  BY DEF Next, DrainStep, DrainReturns, DrainDies, ClientStep, Submit, Analyze, Cancel, Emit, Creates,
         ProcessStep, ProcessStarts, ProcessNeverStarts, ProcessStopsWorkflow, ProcessRecords,
         ProcessCancelled, ProcessUnchanged, WorkflowEnds, WorkflowUnwinds, TimerFires, WaiterWakes,
         StreamStep, StreamOpens, StreamContinues, StreamBeats, StreamDrops, StreamReleases,
         StreamUnchanged, storeVars, vars
<1> QED BY <1>1, <1>2, <1>3, <1>4

LEMMA OrderStep ==
  ASSUME TypeOK, Service, OrderFollowsJobs, [Next]_vars
  PROVE  OrderFollowsJobs'
<1>0. /\ order \in Seq(Jobs) /\ Len(order) \in Nat /\ DOMAIN order = 1 .. Len(order)
      /\ jobs \in Seq(Jobs) /\ Len(jobs) \in Nat /\ DOMAIN jobs = 1 .. Len(jobs)
  BY DEF TypeOK
<1>1. ASSUME NEW j \in Jobs, Creates(j)
      PROVE  OrderFollowsJobs'
  <2>1. /\ jobs' = Append(jobs, j) /\ order' = Append(order, j)
        /\ status[j] = "absent" /\ status' = [status EXCEPT ![j] = "queued"]
    BY <1>1 DEF Creates, Create
  <2>2. /\ DOMAIN jobs' = 1 .. Len(jobs) + 1 /\ jobs'[Len(jobs) + 1] = j
        /\ \A n \in DOMAIN jobs : jobs'[n] = jobs[n]
    BY <1>0, <2>1
  <2>3. /\ DOMAIN order' = 1 .. Len(order) + 1 /\ order'[Len(order) + 1] = j
        /\ \A n \in DOMAIN order : order'[n] = order[n]
    BY <1>0, <2>1
  <2>4. \A n \in DOMAIN jobs : jobs[n] # j /\ jobs[n] \in Jobs
    BY <1>0, <2>1 DEF OrderFollowsJobs
  <2>5. \A m, n \in DOMAIN jobs' : jobs'[m] = jobs'[n] => m = n
    BY <1>0, <2>2, <2>4 DEF OrderFollowsJobs
  <2>6. ASSUME NEW k \in Jobs
        PROVE  status'[k] # "absent" <=> \E n \in DOMAIN jobs' : jobs'[n] = k
    <3>1. CASE k = j
      <4>1. status'[k] # "absent"
        BY <2>1, <3>1 DEF TypeOK
      <4>2. Len(jobs) + 1 \in DOMAIN jobs' /\ jobs'[Len(jobs) + 1] = k
        BY <1>0, <2>2, <3>1
      <4> QED BY <4>1, <4>2
    <3>2. CASE k # j
      <4>1. status'[k] = status[k]
        BY <2>1, <3>2 DEF TypeOK
      <4>2. (\E n \in DOMAIN jobs' : jobs'[n] = k) <=> (\E n \in DOMAIN jobs : jobs[n] = k)
        BY <1>0, <2>2, <3>2
      <4> QED BY <4>1, <4>2 DEF OrderFollowsJobs
    <3> QED BY <3>1, <3>2
  <2>7. \A a \in DOMAIN order' : status'[order'[a]] # "absent"
    BY <1>0, <2>1, <2>3 DEF OrderFollowsJobs, TypeOK
  <2>8. ASSUME NEW a \in DOMAIN order', NEW b \in DOMAIN order', a < b
        PROVE  \E m, n \in DOMAIN jobs' : m < n /\ jobs'[m] = order'[a] /\ jobs'[n] = order'[b]
    <3>1. a \in DOMAIN order /\ order'[a] = order[a]
      BY <1>0, <2>3, <2>8
    <3>2. PICK m \in DOMAIN jobs : jobs[m] = order[a]
      BY <1>0, <3>1 DEF OrderFollowsJobs
    <3>3. CASE b = Len(order) + 1
      <4>1. m < Len(jobs) + 1 /\ m \in DOMAIN jobs' /\ Len(jobs) + 1 \in DOMAIN jobs'
        BY <1>0, <2>2
      <4>2. jobs'[m] = order'[a] /\ jobs'[Len(jobs) + 1] = order'[b]
        BY <2>2, <2>3, <3>1, <3>2, <3>3
      <4> QED BY <4>1, <4>2
    <3>4. CASE b \in DOMAIN order
      <4>1. PICK p, q \in DOMAIN jobs : p < q /\ jobs[p] = order[a] /\ jobs[q] = order[b]
        BY <2>8, <3>1, <3>4 DEF OrderFollowsJobs
      <4>2. p \in DOMAIN jobs' /\ q \in DOMAIN jobs' /\ jobs'[p] = jobs[p] /\ jobs'[q] = jobs[q]
        BY <1>0, <2>2
      <4>3. order'[b] = order[b]
        BY <2>3, <3>4
      <4> QED BY <3>1, <4>1, <4>2, <4>3
    <3>5. b = Len(order) + 1 \/ b \in DOMAIN order
      BY <1>0, <2>3
    <3> QED BY <3>3, <3>4, <3>5
  <2> QED BY <2>5, <2>6, <2>7, <2>8 DEF OrderFollowsJobs
<1>2. ASSUME UNCHANGED jobs, Submitted' = Submitted,
             NEW d \in 0 .. Len(order), order' = SubSeq(order, d + 1, Len(order))
      PROVE  OrderFollowsJobs'
  <2>1. \A k \in Jobs : status'[k] # "absent" <=> status[k] # "absent"
    BY <1>2 DEF Submitted
  <2>2. /\ DOMAIN order' = 1 .. Len(order) - d
        /\ \A a \in 1 .. Len(order) - d : order'[a] = order[a + d]
    BY <1>0, <1>2
  <2>3. \A a \in DOMAIN order' : a + d \in DOMAIN order /\ order'[a] = order[a + d] /\ order[a + d] \in Jobs
    BY <1>0, <2>2
  <2>4. \A a \in DOMAIN order' : status'[order'[a]] # "absent"
    BY <2>1, <2>3 DEF OrderFollowsJobs
  <2>5. ASSUME NEW a \in DOMAIN order', NEW b \in DOMAIN order', a < b
        PROVE  \E m, n \in DOMAIN jobs' : m < n /\ jobs'[m] = order'[a] /\ jobs'[n] = order'[b]
    <3>1. a + d < b + d
      BY <1>0, <2>2, <2>5
    <3> QED BY <1>2, <2>3, <3>1 DEF OrderFollowsJobs
  <2>6. \A m, n \in DOMAIN jobs' : jobs'[m] = jobs'[n] => m = n
    BY <1>2 DEF OrderFollowsJobs
  <2>7. \A j \in Jobs : status'[j] # "absent" <=> \E n \in DOMAIN jobs' : jobs'[n] = j
    BY <1>2, <2>1 DEF OrderFollowsJobs
  <2> QED BY <2>4, <2>5, <2>6, <2>7 DEF OrderFollowsJobs
<1> QED BY <1>1, <1>2, OrderOnlyByCreate

\* The job that claim_next takes is the one at public position 1.
LEMMA ClaimTakesFirst ==
  ASSUME TypeOK, QueuedInOrder, OrderFollowsJobs, NEW i \in DOMAIN order, Claimable(i)
  PROVE  Position(order[i]) = 1
<1> DEFINE j == order[i]
<1> DEFINE Ahead == {k \in Submitted : status[k] = "queued" /\ CreatedAt(k) <= CreatedAt(j)}
<1>0. /\ order \in Seq(Jobs) /\ Len(order) \in Nat /\ DOMAIN order = 1 .. Len(order)
      /\ jobs \in Seq(Jobs) /\ Len(jobs) \in Nat /\ DOMAIN jobs = 1 .. Len(jobs)
  BY DEF TypeOK
<1>1. j \in Jobs /\ status[j] = "queued"
  BY <1>0 DEF Claimable
<1>2. ASSUME NEW n \in DOMAIN jobs
      PROVE  CreatedAt(jobs[n]) = n
  BY <1>2 DEF OrderFollowsJobs, CreatedAt
<1>3. j \in Ahead
  <2>1. PICK n \in DOMAIN jobs : jobs[n] = j
    BY <1>1 DEF OrderFollowsJobs
  <2>2. CreatedAt(j) = n /\ n \in Nat
    BY <1>0, <1>2, <2>1
  <2> QED BY <1>1, <2>2 DEF Submitted
<1>4. ASSUME NEW k \in Ahead
      PROVE  k = j
  <2>1. k \in Jobs /\ status[k] = "queued" /\ CreatedAt(k) <= CreatedAt(j)
    BY <1>4 DEF Submitted
  <2>2. PICK m \in DOMAIN order : order[m] = k
    BY <2>1 DEF QueuedInOrder
  <2>3. ~ (m < i)
    BY <1>0, <2>1, <2>2 DEF Claimable
  <2>4. ~ (i < m)
    <3> SUFFICES ASSUME i < m PROVE FALSE
      OBVIOUS
    <3>1. PICK p, q \in DOMAIN jobs : p < q /\ jobs[p] = j /\ jobs[q] = k
      BY <2>2 DEF OrderFollowsJobs
    <3>2. CreatedAt(j) = p /\ CreatedAt(k) = q
      BY <1>2, <3>1
    <3> QED BY <1>0, <2>1, <3>1, <3>2
  <2> QED BY <1>0, <2>2, <2>3, <2>4
<1>5. Ahead = {j}
  BY <1>3, <1>4
<1>6. Cardinality({j}) = 1
  BY FS_Singleton
<1> QED BY <1>5, <1>6 DEF Position

\* Only claim_next makes a job run.
LEMMA OnlyClaimStarts ==
  ASSUME TypeOK, Service, [Next]_vars, NEW j \in Jobs, status[j] = "queued", status'[j] = "running"
  PROVE  \E i \in DOMAIN order : Claimable(i) /\ order[i] = j
<1>1. CASE DrainClaims
  BY <1>1 DEF DrainClaims, Emit, TypeOK
<1>2. ASSUME NEW k \in Jobs, ClientStep(k)
      PROVE  FALSE
  BY <1>2 DEF ClientStep, Submit, Analyze, Cancel, Create, StoreCancel, Emit, TypeOK
<1>3. ASSUME NEW k \in Jobs, ProcessStep(k)
      PROVE  FALSE
  BY <1>3 DEF ProcessStep, ProcessStarts, ProcessNeverStarts, ProcessStopsWorkflow, ProcessRecords,
              Records, StoreSet, ProcessCancelled, StoreCancel, Emit, TypeOK
<1>4. CASE UNCHANGED status
  BY <1>4
<1> QED BY <1>1, <1>2, <1>3, <1>4, ReadersChangeNothing
        DEF Next, DrainStep, DrainReturns, DrainDies, WorkflowEnds, WorkflowUnwinds, TimerFires,
            storeVars, vars, coreVars

Ordering == QueuedInOrder /\ OrderFollowsJobs

LEMMA OrderInvariant == Spec => []Ordering
<1>1. Init => OrderFollowsJobs
  BY DEF Init, OrderFollowsJobs
<1>2. OrderFollowsJobs /\ (TypeOK /\ Service) /\ [Next]_vars => OrderFollowsJobs'
  BY OrderStep
<1>3. Queueing /\ OrderFollowsJobs => Ordering
  BY DEF Queueing, Ordering
<1> QED BY <1>1, <1>2, <1>3, ServiceInvariant, QueueInvariant, PTL DEF Spec

\* Jobs start in the order of their public positions: first come, first served.
THEOREM StartsInOrderAlways == Spec => StartsInOrder
<1>1. (TypeOK /\ Service) /\ Ordering /\ [Next]_vars
        => [\A j \in Jobs : status[j] = "queued" /\ status'[j] = "running" => Position(j) = 1]_vars
  BY OnlyClaimStarts, ClaimTakesFirst DEF Ordering
<1> QED BY <1>1, ServiceInvariant, OrderInvariant, PTL DEF Spec, StartsInOrder
-----------------------------------------------------------------------------
(***************************************************************************)
(* The event log of a job.                                                 *)
(***************************************************************************)
\* What the log e of a job tells, given its status s and cancel_requested c: only
\* that flag says whether a cancelled job had been running.
Tale(e, s, c) ==
    \/ s = "absent" /\ e = <<>> /\ ~ c
    \/ s = "queued" /\ e = <<"queued">> /\ ~ c
    \/ s = "running" /\ e = <<"queued", "running">> /\ ~ c
    \/ s = "cancelled" /\ e = <<"queued", "cancelled">> /\ ~ c
    \/ s = "cancelled" /\ e = <<"queued", "running", "cancelled">> /\ c
    \/ s \in {"complete", "failed"} /\ e = <<"queued", "running", s>> /\ ~ c
    \/ s = "failed" /\ e = <<"queued", "running", "cancelled", "failed">> /\ c
Telling == \A j \in Jobs : Tale(events[j], status[j], cancelRequested[j])

\* Words appended one by one.
LEMMA SecondWord ==
  ASSUME NEW a, NEW x
  PROVE  Append(<<a>>, x) = <<a, x>>
<1> DEFINE S == {a, x}
<1>1. /\ <<a>> \in Seq(S) /\ Len(<<a>>) = 1
      /\ <<a, x>> \in Seq(S) /\ Len(<<a, x>>) = 2
  OBVIOUS
<1>2. Append(<<a>>, x) \in Seq(S) /\ Len(Append(<<a>>, x)) = 2
  BY <1>1, AppendProperties
<1>3. \A i \in 1 .. 2 : Append(<<a>>, x)[i] = <<a, x>>[i]
  BY <1>1
<1> QED BY <1>1, <1>2, <1>3, SeqEqual

LEMMA ThirdWord ==
  ASSUME NEW a, NEW b, NEW x
  PROVE  Append(<<a, b>>, x) = <<a, b, x>>
<1> DEFINE S == {a, b, x}
<1>1. /\ <<a, b>> \in Seq(S) /\ Len(<<a, b>>) = 2
      /\ <<a, b, x>> \in Seq(S) /\ Len(<<a, b, x>>) = 3
  OBVIOUS
<1>2. Append(<<a, b>>, x) \in Seq(S) /\ Len(Append(<<a, b>>, x)) = 3
  BY <1>1, AppendProperties
<1>3. \A i \in 1 .. 3 : Append(<<a, b>>, x)[i] = <<a, b, x>>[i]
  BY <1>1
<1> QED BY <1>1, <1>2, <1>3, SeqEqual

LEMMA FourthWord ==
  ASSUME NEW a, NEW b, NEW c, NEW x
  PROVE  Append(<<a, b, c>>, x) = <<a, b, c, x>>
<1> DEFINE S == {a, b, c, x}
<1>1. /\ <<a, b, c>> \in Seq(S) /\ Len(<<a, b, c>>) = 3
      /\ <<a, b, c, x>> \in Seq(S) /\ Len(<<a, b, c, x>>) = 4
  OBVIOUS
<1>2. Append(<<a, b, c>>, x) \in Seq(S) /\ Len(Append(<<a, b, c>>, x)) = 4
  BY <1>1, AppendProperties
<1>3. \A i \in 1 .. 4 : Append(<<a, b, c>>, x)[i] = <<a, b, c, x>>[i]
  BY <1>1
<1> QED BY <1>1, <1>2, <1>3, SeqEqual

\* The ways in which a log goes on.
LEMMA TaleGoesOn ==
  ASSUME NEW e, NEW s, NEW c \in BOOLEAN, Tale(e, s, c)
  PROVE  /\ s = "absent" => Tale(Append(e, "queued"), "queued", c)
         /\ s = "queued" => Tale(Append(e, "running"), "running", c)
         /\ s = "queued" => Tale(Append(e, "cancelled"), "cancelled", c)
         /\ s = "running" => Tale(Append(e, "cancelled"), "cancelled", TRUE)
         /\ s = "running" => \A t \in {"complete", "failed"} : Tale(Append(e, t), t, c)
         /\ s = "cancelled" /\ c => Tale(Append(e, "failed"), "failed", c)
<1>1. Append(<<>>, "queued") = <<"queued">>
  OBVIOUS
<1>2. CASE s = "absent"
  BY <1>1, <1>2 DEF Tale
<1>3. CASE s = "queued"
  BY <1>3, SecondWord DEF Tale
<1>4. CASE s = "running"
  BY <1>4, ThirdWord DEF Tale
<1>5. CASE s = "cancelled" /\ c
  BY <1>5, FourthWord DEF Tale
<1> QED BY <1>2, <1>3, <1>4, <1>5

\* Only one job's log goes on in a step.
LEMMA EmitTells ==
  ASSUME TypeOK, Telling, NEW j \in Jobs, NEW s,
         status' = [status EXCEPT ![j] = s], events' = [events EXCEPT ![j] = Append(@, s)],
         cancelRequested' \in [Jobs -> BOOLEAN],
         \A k \in Jobs \ {j} : cancelRequested'[k] = cancelRequested[k],
         Tale(Append(events[j], s), s, cancelRequested'[j])
  PROVE  Telling'
<1>1. ASSUME NEW k \in Jobs
      PROVE  Tale(events'[k], status'[k], cancelRequested'[k])
  <2>1. CASE k = j
    <3>1. events'[k] = Append(events[j], s) /\ status'[k] = s
      BY <2>1 DEF TypeOK
    <3> QED BY <2>1, <3>1
  <2>2. CASE k # j
    <3>1. events'[k] = events[k] /\ status'[k] = status[k] /\ cancelRequested'[k] = cancelRequested[k]
      BY <2>2 DEF TypeOK
    <3> QED BY <3>1 DEF Telling
  <2> QED BY <2>1, <2>2
<1> QED BY <1>1 DEF Telling

LEMMA StoreCancelTells ==
  ASSUME TypeOK, Telling, NEW j \in Jobs, StoreCancel(j)
  PROVE  Telling'
<1>1. Tale(events[j], status[j], cancelRequested[j]) /\ cancelRequested[j] \in BOOLEAN
  BY DEF TypeOK, Telling
<1>2. CASE status[j] \in {"queued", "running"}
  <2>1. /\ cancelRequested' = [cancelRequested EXCEPT ![j] = @ \/ status[j] = "running"]
        /\ Emit(j, "cancelled")
    BY <1>2 DEF StoreCancel
  <2>2. /\ cancelRequested' \in [Jobs -> BOOLEAN]
        /\ \A k \in Jobs \ {j} : cancelRequested'[k] = cancelRequested[k]
        /\ cancelRequested'[j] = (cancelRequested[j] \/ status[j] = "running")
    BY <2>1 DEF TypeOK
  <2>3. Tale(Append(events[j], "cancelled"), "cancelled", cancelRequested'[j])
    <3>1. CASE status[j] = "queued"
      <4>1. cancelRequested'[j] = cancelRequested[j]
        BY <2>2, <3>1, <1>1
      <4> QED BY <1>1, <3>1, <4>1, TaleGoesOn
    <3>2. CASE status[j] = "running"
      <4>1. cancelRequested'[j] = TRUE
        BY <2>2, <3>2
      <4> QED BY <1>1, <3>2, <4>1, TaleGoesOn
    <3> QED BY <1>2, <3>1, <3>2
  <2> QED BY <2>1, <2>2, <2>3, EmitTells DEF Emit
<1>3. CASE status[j] \notin {"queued", "running"}
  BY <1>3 DEF StoreCancel, Telling
<1> QED BY <1>2, <1>3

LEMMA ProcessTells ==
  ASSUME TypeOK, Service, Telling, NEW j \in Jobs, ProcessStep(j)
  PROVE  Telling'
<1>1. CASE ProcessStarts(j) \/ ProcessNeverStarts(j) \/ ProcessStopsWorkflow(j)
  BY <1>1 DEF ProcessStarts, ProcessNeverStarts, ProcessStopsWorkflow, Telling
<1>2. CASE ProcessCancelled(j)
  BY <1>2, StoreCancelTells DEF ProcessCancelled
<1>3. CASE ProcessRecords(j)
  <2>1. Records(j, workflow[j]) /\ task[j] \in InWaitFor \cup {"expiring"}
    BY <1>3 DEF ProcessRecords
  <2>2. CASE StoreCancel(j)
    BY <2>2, StoreCancelTells
  <2>3. ASSUME NEW s \in {"complete", "failed"}, StoreSet(j, s),
               status[j] = "running" \/ (s = "failed" /\ status[j] = "cancelled" /\ cancelRequested[j])
        PROVE  Telling'
    <3>1. Tale(events[j], status[j], cancelRequested[j]) /\ cancelRequested[j] \in BOOLEAN
      BY DEF TypeOK, Telling
    <3>2. Tale(Append(events[j], s), s, cancelRequested[j])
      BY <2>3, <3>1, TaleGoesOn
    <3> QED BY <2>3, <3>2, EmitTells DEF StoreSet, Emit, TypeOK
  <2>4. \/ status[j] = "running"
        \/ status[j] = "cancelled" /\ cancelRequested[j]
    BY <2>1 DEF Service, TaskServesJob, InWaitFor
  <2>5. \/ StoreSet(j, "failed")
        \/ StoreCancel(j)
        \/ StoreSet(j, "complete") /\ ~ cancelRequested[j]
    BY <2>1 DEF Records
  <2> QED BY <2>2, <2>3, <2>4, <2>5
<1> QED BY <1>1, <1>2, <1>3 DEF ProcessStep

LEMMA TellingStep ==
  ASSUME TypeOK, Service, Telling, [Next]_vars
  PROVE  Telling'
<1>1. ASSUME NEW j \in Jobs, status[j] = "absent", status' = [status EXCEPT ![j] = "queued"],
             events' = [events EXCEPT ![j] = Append(@, "queued")], UNCHANGED cancelRequested
      PROVE  Telling'
  <2>1. Tale(Append(events[j], "queued"), "queued", cancelRequested[j])
    <3>1. Tale(events[j], status[j], cancelRequested[j]) /\ cancelRequested[j] \in BOOLEAN
      BY <1>1 DEF TypeOK, Telling
    <3> QED BY <1>1, <3>1, TaleGoesOn
  <2>2. cancelRequested' = cancelRequested /\ cancelRequested \in [Jobs -> BOOLEAN]
    BY <1>1 DEF TypeOK
  <2> DEFINE s == "queued"
  <2>3. /\ status' = [status EXCEPT ![j] = s] /\ events' = [events EXCEPT ![j] = Append(events[j], s)]
        /\ Tale(Append(events[j], s), s, cancelRequested[j])
    BY <1>1, <2>1
  <2> HIDE DEF s
  <2> QED BY <2>2, <2>3, EmitTells
<1>2. ASSUME NEW j \in Jobs, ClientStep(j)
      PROVE  Telling'
  BY <1>1, <1>2, StoreCancelTells DEF ClientStep, Submit, Analyze, Create, Emit, Cancel
<1>3. CASE DrainClaims
  <2>1. PICK i \in DOMAIN order : Claimable(i) /\ Emit(order[i], "running")
    BY <1>3 DEF DrainClaims
  <2> DEFINE j == order[i]
  <2>2. j \in Jobs /\ status[j] = "queued" /\ Emit(j, "running") /\ UNCHANGED cancelRequested
    BY <1>3, <2>1 DEF DrainClaims, Claimable, TypeOK
  <2> HIDE DEF j
  <2>3. Tale(Append(events[j], "running"), "running", cancelRequested[j])
    <3>1. Tale(events[j], status[j], cancelRequested[j]) /\ cancelRequested[j] \in BOOLEAN
      BY <2>2 DEF TypeOK, Telling
    <3> QED BY <2>2, <3>1, TaleGoesOn
  <2>4. cancelRequested' = cancelRequested /\ cancelRequested \in [Jobs -> BOOLEAN]
    BY <2>2 DEF TypeOK
  <2> DEFINE s == "running"
  <2>5. /\ status' = [status EXCEPT ![j] = s] /\ events' = [events EXCEPT ![j] = Append(events[j], s)]
        /\ Tale(Append(events[j], s), s, cancelRequested[j])
    BY <2>2, <2>3 DEF Emit
  <2> HIDE DEF s
  <2> QED BY <2>2, <2>4, <2>5, EmitTells
<1>4. CASE DrainReturns \/ DrainDies
  BY <1>4 DEF DrainReturns, DrainDies, storeVars, Telling
<1>5. ASSUME NEW j \in Jobs, WorkflowEnds(j) \/ WorkflowUnwinds(j) \/ TimerFires(j)
      PROVE  Telling'
  BY <1>5 DEF WorkflowEnds, WorkflowUnwinds, TimerFires, storeVars, Telling
<1>6. CASE UNCHANGED coreVars
  BY <1>6 DEF coreVars, Telling
<1>7. UNCHANGED vars => UNCHANGED coreVars
  BY DEF vars, coreVars
<1> QED BY <1>2, <1>3, <1>4, <1>5, <1>6, <1>7, ProcessTells, ReadersChangeNothing
        DEF Next, DrainStep

LEMMA TellingInvariant == Spec => [](TypeOK /\ Service /\ Telling)
<1>1. Init => Telling
  BY DEF Init, Telling, Tale
<1>2. (TypeOK /\ Service) /\ Telling /\ [Next]_vars => Telling'
  BY TellingStep
<1> QED BY <1>1, <1>2, ServiceInvariant, PTL DEF Spec

\* Every event log is one of the seven stories and ends with the job's status,
\* for any number of jobs and any order of submissions, cancellations and timeouts.
THEOREM EventsTellStoryAlways == Spec => []EventsTellStory
<1>1. ASSUME NEW e, NEW s, NEW c, Tale(e, s, c), s # "absent"
      PROVE  e \in Stories /\ e[Len(e)] = s
  <2>1. CASE e = <<"queued">> /\ s = "queued"
    BY <2>1 DEF Stories
  <2>2. CASE e = <<"queued", s>> /\ s \in {"running", "cancelled"}
    BY <2>2 DEF Stories
  <2>3. CASE e = <<"queued", "running", s>> /\ s \in TERMINAL_STATUSES
    BY <2>3 DEF Stories
  <2>4. CASE e = <<"queued", "running", "cancelled", "failed">> /\ s = "failed"
    BY <2>4 DEF Stories
  <2> QED BY <1>1, <2>1, <2>2, <2>3, <2>4 DEF Tale, TERMINAL_STATUSES
<1>2. Telling => EventsTellStory
  BY <1>1 DEF Telling, EventsTellStory, Submitted
<1> QED BY <1>2, TellingInvariant, PTL

-----------------------------------------------------------------------------
(***************************************************************************)
(* The work of a running job is bounded: what RunningEnds rests on,        *)
(* without fairness.                                                       *)
(***************************************************************************)
\* How far wait_for has got with the workflow.
WaitForOrder ==
    \A j \in Jobs :
       /\ task[j] \in {"none", "scheduled", "doomed", "dead"} => workflow[j] = "none"
       /\ task[j] \in InWaitFor => workflow[j] \in {"active"} \cup Ended
       /\ task[j] \in {"stopping", "expiring", "abandoning", "finished"} =>
             workflow[j] \in {"unwinding"} \cup Ended

\* The steps left to the task and the workflow of a running job.
TaskWork(t) == CASE t = "scheduled" -> 5 [] t = "waiting" -> 3 [] t = "timed_out" -> 2 [] OTHER -> 1
Work(j) == TaskWork(task[j]) + (IF workflow[j] \in {"active", "unwinding"} THEN 1 ELSE 0)

\* Its next step is not up to anybody else: _process starts, the timer fires or has
\* fired, the workflow unwinds, or its end is there to be recorded.
GoesOn(j) ==
    \/ task[j] = "scheduled"
    \/ task[j] \in {"waiting", "timed_out"} /\ workflow[j] = "active"
    \/ task[j] = "expiring" /\ workflow[j] = "unwinding"
    \/ task[j] \in InWaitFor \cup {"expiring"} /\ workflow[j] \in Ended

\* Whatever happens while a job is running leaves its task where it is, or leaves it
\* less to do.
RunningRunsOut ==
    [][\A j \in Jobs : status[j] = "running" /\ status'[j] = "running" =>
          Work(j)' < Work(j) \/ UNCHANGED <<task[j], workflow[j]>>]_vars

\* How the task and the workflow of a job move.
Moves(j) ==
    LET From(t, w) == task[j] \in t /\ workflow[j] \in w
        To(t, w) == task'[j] \in t /\ workflow'[j] \in w
    IN  \/ UNCHANGED <<task[j], workflow[j]>>
        \/ From({"none"}, {"none"}) /\ To({"scheduled"}, {"none"})
        \/ From({"scheduled"}, {"none"}) /\ To({"waiting"}, {"active"})
        \/ From({"doomed"}, {"none"}) /\ To({"dead"}, {"none"})
        \/ workflow[j] = "active" /\ workflow'[j] \in Ended /\ task'[j] = task[j]
        \/ workflow[j] = "unwinding" /\ workflow'[j] \in Ended /\ task'[j] = task[j]
        \/ From({"waiting"}, {"active"}) /\ To({"timed_out"}, {"active"})
        \/ From({"interrupted"}, {"active"}) /\ To({"stopping"}, {"unwinding"})
        \/ From({"timed_out"}, {"active"}) /\ To({"expiring"}, {"unwinding"})
        \/ workflow'[j] = workflow[j] /\ task[j] \in Unfinished /\ task'[j] = Interrupt(task[j])
              /\ status'[j] # "running"
        \/ workflow'[j] = workflow[j] /\ task'[j] = "finished" /\ status'[j] # "running"
              /\ (workflow[j] \in Ended \/ task[j] = "abandoning")

LEMMA StepMoves ==
  ASSUME TypeOK, Service, WaitForOrder, [Next]_vars, NEW j \in Jobs
  PROVE  Moves(j)
<1>1. ASSUME NEW k \in Jobs, ProcessStep(k)
      PROVE  Moves(j)
  <2>1. CASE k # j
    BY <1>1, <2>1, ProcessStepIsLocal DEF Moves
  <2>2. CASE ProcessStarts(j) \/ ProcessNeverStarts(j) \/ ProcessStopsWorkflow(j)
    BY <2>2 DEF ProcessStarts, ProcessNeverStarts, ProcessStopsWorkflow, Moves, WaitForOrder, TypeOK
  <2>3. CASE ProcessRecords(j)
    BY <2>3 DEF ProcessRecords, Records, StoreSet, StoreCancel, Emit, Moves, TypeOK
  <2>4. CASE ProcessCancelled(j)
    BY <2>4 DEF ProcessCancelled, StoreCancel, Emit, Moves, TypeOK
  <2> QED BY <1>1, <2>1, <2>2, <2>3, <2>4 DEF ProcessStep
<1>2. ASSUME NEW k \in Jobs, Submit(k, NoRequest) \/ Analyze(k) \/ \E r \in Requests : Submit(k, r)
      PROVE  Moves(j)
  BY <1>2 DEF Submit, Analyze, EnsureDrain, Moves
<1>3. ASSUME NEW k \in Jobs, Cancel(k)
      PROVE  Moves(j)
  <2>1. workflow' = workflow /\ StoreCancel(k)
    BY <1>3 DEF Cancel
  <2>2. task'[j] = task[j] \/ (k = j /\ task[j] \in Unfinished /\ task'[j] = Interrupt(task[j]))
    BY <1>3 DEF Cancel, TypeOK
  <2>3. k = j => status'[j] # "running"
    BY <2>1 DEF StoreCancel, Emit, TypeOK
  <2> QED BY <2>1, <2>2, <2>3 DEF Moves
<1>4. CASE DrainClaims
  <2>1. PICK i \in DOMAIN order : Claimable(i) /\ task' = [task EXCEPT ![order[i]] = "scheduled"]
    BY <1>4 DEF DrainClaims
  <2>2. order[i] \in Jobs /\ task[order[i]] = "none" /\ workflow' = workflow
    BY <1>4, <2>1 DEF DrainClaims, Claimable, Service, TaskServesJob, TypeOK
  <2>3. workflow[order[i]] = "none"
    BY <2>2 DEF WaitForOrder
  <2> QED BY <2>1, <2>2, <2>3 DEF Moves, TypeOK
<1>5. CASE DrainReturns \/ DrainDies
  <2>1. UNCHANGED <<task, workflow>>
    BY <1>5 DEF DrainReturns, DrainDies
  <2> QED BY <2>1 DEF Moves
<1>6. ASSUME NEW k \in Jobs, WorkflowEnds(k) \/ WorkflowUnwinds(k) \/ TimerFires(k)
      PROVE  Moves(j)
  <2>1. CASE k # j
    BY <1>6, <2>1 DEF WorkflowEnds, WorkflowUnwinds, TimerFires, Moves, TypeOK
  <2>2. CASE WorkflowEnds(j) \/ WorkflowUnwinds(j)
    BY <2>2 DEF WorkflowEnds, WorkflowUnwinds, Moves, TypeOK, Ended
  <2>3. CASE TimerFires(j)
    BY <2>3 DEF TimerFires, Moves, TypeOK
  <2> QED BY <1>6, <2>1, <2>2, <2>3
<1>7. CASE UNCHANGED coreVars
  BY <1>7 DEF coreVars, Moves
<1>8. UNCHANGED vars => UNCHANGED coreVars
  BY DEF vars, coreVars
<1> QED BY <1>1, <1>2, <1>3, <1>4, <1>5, <1>6, <1>7, <1>8, ReadersChangeNothing
        DEF Next, ClientStep, DrainStep

LEMMA WaitForStep ==
  ASSUME TypeOK, Service, WaitForOrder, [Next]_vars
  PROVE  WaitForOrder'
<1>1. ASSUME NEW j \in Jobs
      PROVE  /\ task'[j] \in {"none", "scheduled", "doomed", "dead"} => workflow'[j] = "none"
             /\ task'[j] \in InWaitFor => workflow'[j] \in {"active"} \cup Ended
             /\ task'[j] \in {"stopping", "expiring", "abandoning", "finished"} =>
                   workflow'[j] \in {"unwinding"} \cup Ended
  <2>1. Moves(j)
    BY StepMoves
  <2> QED BY <2>1 DEF Moves, WaitForOrder, InWaitFor, Unfinished, Ended, Interrupt, TypeOK,
                      TaskStates
<1> QED BY <1>1 DEF WaitForOrder

\* A running job is at most five steps from its end, its next step waits for no
\* other job and no client, and nothing sets it back (_process, queue.py:377-398).
THEOREM RunningIsBounded ==
    Spec => /\ [](\A j \in Jobs : status[j] = "running" => Work(j) \in 1 .. 5 /\ GoesOn(j))
            /\ RunningRunsOut
<1>1. Init => WaitForOrder
  BY DEF Init, WaitForOrder, InWaitFor
<1>2. (TypeOK /\ Service) /\ WaitForOrder /\ [Next]_vars => WaitForOrder'
  BY WaitForStep
<1>3. (TypeOK /\ Service) /\ WaitForOrder =>
        \A j \in Jobs : status[j] = "running" => Work(j) \in 1 .. 5 /\ GoesOn(j)
  <2> SUFFICES ASSUME TypeOK, Service, WaitForOrder, NEW j \in Jobs, status[j] = "running"
               PROVE  Work(j) \in 1 .. 5 /\ GoesOn(j)
    OBVIOUS
  <2>1. task[j] \in {"scheduled", "waiting", "timed_out", "expiring"}
    BY DEF Service, TaskServesJob, Unfinished, InWaitFor
  <2> QED BY <2>1 DEF WaitForOrder, Work, TaskWork, GoesOn, InWaitFor, Ended
<1>4. (TypeOK /\ Service) /\ WaitForOrder /\ [Next]_vars =>
        [\A j \in Jobs : status[j] = "running" /\ status'[j] = "running" =>
            Work(j)' < Work(j) \/ UNCHANGED <<task[j], workflow[j]>>]_vars
  <2> SUFFICES ASSUME TypeOK, Service, WaitForOrder, [Next]_vars,
                      NEW j \in Jobs, status[j] = "running", status'[j] = "running"
               PROVE  Work(j)' < Work(j) \/ UNCHANGED <<task[j], workflow[j]>>
    OBVIOUS
  <2>1. task[j] \in {"scheduled", "waiting", "timed_out", "expiring"}
    BY DEF Service, TaskServesJob, Unfinished, InWaitFor
  <2>2. Moves(j)
    BY StepMoves
  <2> QED BY <2>1, <2>2 DEF Moves, Work, TaskWork, WaitForOrder, Ended, InWaitFor
<1> QED BY <1>1, <1>2, <1>3, <1>4, ServiceInvariant, PTL DEF Spec, RunningRunsOut


\* The conjunction of the named parts is inductive, hence invariant.
THEOREM IndInvAlways == Spec => []IndInv
<1>1. (TypeOK /\ Service) /\ Reading /\ Queueing /\ Ordering /\ BoundedLoad /\ RequestIsUnique => IndInv
  BY DEF Service, Reading, Queueing, Ordering, IndInv
<1> QED BY <1>1, ServiceInvariant, ReadingInvariant, QueueInvariant, OrderInvariant,
           BoundedLoadAlways, RequestIsUniqueAlways, PTL
=============================================================================
