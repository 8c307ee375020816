------------------------ MODULE InvestigationProofs ------------------------
(***************************************************************************)
(* Theorems about Investigation for every number of jobs and injectors,    *)
(* every set of configurations and every number of observations.           *)
(***************************************************************************)
EXTENDS Investigation, ClusterProofs

(***************************************************************************)
(* Investigations drive the cluster through the operations of Cluster, so  *)
(* that the theorems about Cluster are theorems about Investigation.       *)
(***************************************************************************)
THEOREM StepIsClusterStep == [Next]_vars => [ClusterNext]_clusterVars
<1> SUFFICES ASSUME Next PROVE [ClusterNext]_clusterVars
  BY DEF vars, clusterVars
<1> USE DEF clusterVars
<1>1. ASSUME NEW j \in Jobs, JobStep(j) PROVE [ClusterNext]_clusterVars
  <2>1. ASSUME Acts(j) PROVE ClusterNext
    <3>1. PICK c \in DOMAIN CategoryAction, hint \in SafeActions \cup {NoAction} :
               ActionStarts(j, SelectAction(c, hint))
      BY <2>1 DEF Acts
    <3>2. SelectAction(c, hint) \in SafeActions
      BY DEF SelectAction, CategoryAction, SafeActions, Restoring
    <3> QED
      BY <3>1, <3>2 DEF ClusterNext, Jobs
  <2> QED
    BY <1>1, <2>1 DEF JobStep, Starts, Rejects, Abstains, ActionReturns, Verifies, Concludes,
       RemedyUnchanged, Ends
<1>2. ASSUME NEW j \in Jobs, WorkflowRaises(j) \/ Interrupt(j) \/ IsLeftBehind(j)
      PROVE  UNCHANGED clusterVars
  BY <1>2 DEF WorkflowRaises, Interrupt, IsLeftBehind, Ends
<1>3. ASSUME NEW j \in Jobs, Report(j) \/ Detect(j) \/ \E k \in Jobs : Approve(j, k)
      PROVE  UNCHANGED clusterVars
  BY <1>3 DEF Report, Detect, Approve
<1>4. ASSUME NEW i \in Injectors, InjectStarts(i) \/ InjectionStep(i) \/ InjectGivesUp(i)
                                    \/ \E j \in Jobs : InjectSubmits(i, j)
      PROVE  ClusterNext
  BY <1>4, ScenariosAssumption DEF InjectStarts, InjectSubmits, InjectGivesUp, ClusterNext
<1>5. ASSUME NEW j \in Jobs, ThreadStep(j) PROVE ClusterNext
  BY <1>5 DEF ClusterNext, Jobs
<1>6. ASSUME NEW j \in Jobs, ToolIsCalled(j) PROVE ClusterNext
  BY <1>6 DEF ToolIsCalled, ClusterNext, Jobs
<1> QED
  BY <1>1, <1>2, <1>3, <1>4, <1>5, <1>6 DEF Next, ClusterNext

\* Investigation refines Cluster: the demo cluster is used as Cluster says.
THEOREM ImplementsCluster == Spec => ClusterSpec
<1>1. Init => ClusterInit
  BY DEF Init
<1> QED
  BY <1>1, StepIsClusterStep, PTL DEF Spec, ClusterSpec

\* A controlled incident can be undone at any time of any investigation.
THEOREM ReversibleThroughout == Spec => []FaultIsReversible
BY ImplementsCluster, Reversible

(***************************************************************************)
(* The job variables.                                                      *)
(***************************************************************************)
JobTypeOK ==
    /\ settings \in Settings
    /\ pc \in [Jobs -> {"none", "queued", "tool"} \cup Running \cup Over]
    /\ behind \subseteq Jobs
    /\ incident \in [Jobs -> [connected : BOOLEAN, requested : BOOLEAN]]
    /\ attempts \in [Jobs -> 0 .. 2]
    /\ polls \in [Jobs -> 0 .. MaxPolls - 1]
    /\ status \in [Jobs -> {"none", "disabled", "awaiting_approval", "failed", "verified"}]
    /\ audited \in [Jobs -> BOOLEAN]
    /\ acted \in [Jobs -> Nat]

\* An action needs an attempt, and a third attempt is never begun.
AttemptsInv ==
    \A j \in Jobs :
       /\ acted[j] <= 2
       /\ pc[j] \in {"none", "queued", "tool"} => acted[j] = 0 /\ attempts[j] = 0
       /\ pc[j] \in Running => acted[j] <= attempts[j]
       /\ pc[j] = "diagnose" => attempts[j] <= 1

\* Whoever has acted was allowed to, and still is: settings and incident stay.
MayAct(j) == Enabled(j) /\ RealExecutor /\ incident[j].connected
ApprovalInv == \A j \in Jobs : acted[j] > 0 => MayAct(j)

\* Hence the remediation of a workflow that has acted is one that is audited, or the
\* rejection of its second diagnosis.
AuditInv ==
    \A j \in Jobs : acted[j] > 0 =>
       /\ pc[j] = "conclude" => status[j] \in {"failed", "verified", "disabled"}
       /\ pc[j] = "complete" => audited[j] \/ status[j] = "disabled"

\* _process awaits one workflow, and that waits for the thread it has started.
ThreadInv ==
    /\ \A j, k \in Jobs \ behind : pc[j] \in Running /\ pc[k] \in Running => j = k
    /\ \A j \in Jobs : Busy(j) => pc[j] \in {"acting", "stopped", "tool"}

IndInv == JobTypeOK /\ AttemptsInv /\ ApprovalInv /\ AuditInv /\ ThreadInv

THEOREM InitInd == Init => IndInv
BY PollsAssumption
   DEF Init, ClusterInit, IndInv, JobTypeOK, AttemptsInv, ApprovalInv, AuditInv, ThreadInv, Running,
       Busy, Ended, Jobs

\* A step of the cluster or of a thread: the jobs stay, and no thread becomes busy.
LEMMA ClusterStepInd ==
    ASSUME IndInv, UNCHANGED jobVars, \A j \in Jobs : Busy(j)' => Busy(j)
    PROVE  IndInv'
BY DEF IndInv, JobTypeOK, AttemptsInv, ApprovalInv, MayAct, Enabled, RealExecutor, AuditInv,
   ThreadInv, jobVars

\* A step of a thread that is under way, or one of an injector.
LEMMA ThreadsCalmDown ==
    ASSUME NEW j \in Jobs, ClusterTypeOK, ThreadStep(j)
    PROVE  \A k \in Jobs : Busy(k)' => Busy(k)
BY DEF ThreadStep, ActionReads, ActionRestores, ActionDisrupts, ThreadGoes, Busy, Ended, Jobs,
   ClusterTypeOK, SafeActions, Restoring

LEMMA InjectorsActOnNoThread ==
    ASSUME NEW i \in Injectors, InjectionStep(i) \/ InjectionOver(i)
             \/ \E s \in DOMAIN Sabotages : InjectReads(i, s)
    PROVE  UNCHANGED thread
BY DEF InjectionStep, InjectPatches, InjectDeletes, InjectionOver, InjectReads, InjectionKeeps

\* A new incident.
LEMMA SubmitInd ==
    ASSUME IndInv, NEW j \in Jobs, NEW what \in [connected : BOOLEAN, requested : BOOLEAN],
           Submit(j, what), UNCHANGED thread
    PROVE  IndInv'
<1> USE DEF Submit, Goes, IndInv
<1>1. JobTypeOK'
  BY DEF JobTypeOK
<1>2. AttemptsInv' /\ AuditInv'
  BY DEF AttemptsInv, AuditInv, JobTypeOK, Running
<1>3. ApprovalInv'
  BY DEF ApprovalInv, AttemptsInv, MayAct, Enabled, RealExecutor, JobTypeOK
<1>4. ThreadInv'
  BY DEF ThreadInv, JobTypeOK, Running, Busy
<1> QED
  BY <1>1, <1>2, <1>3, <1>4

\* The steps of a workflow, one by one.
LEMMA StartsInd == ASSUME IndInv, NEW j \in Jobs, Starts(j) PROVE IndInv'
<1> USE DEF Starts, Goes, IndInv
<1>1. JobTypeOK'
  BY DEF JobTypeOK, Running, Over
<1>2. AttemptsInv' /\ AuditInv'
  BY DEF AttemptsInv, AuditInv, JobTypeOK, Running
<1>3. ApprovalInv'
  BY DEF ApprovalInv, MayAct, Enabled, RealExecutor
<1>4. ThreadInv'
  BY DEF ThreadInv, JobTypeOK, Running, Busy, clusterVars
<1> QED
  BY <1>1, <1>2, <1>3, <1>4

LEMMA RejectsInd == ASSUME IndInv, NEW j \in Jobs, Rejects(j) PROVE IndInv'
<1> USE DEF Rejects, Remediates, Goes, IndInv, DiagnosisUnchanged
<1>1. JobTypeOK'
  BY DEF JobTypeOK, AttemptsInv, Running
<1>2. AttemptsInv' /\ AuditInv'
  BY DEF AttemptsInv, AuditInv, JobTypeOK, Running
<1>3. ApprovalInv'
  BY DEF ApprovalInv, MayAct, Enabled, RealExecutor
<1>4. ThreadInv'
  BY DEF ThreadInv, JobTypeOK, Running, Busy, clusterVars
<1> QED
  BY <1>1, <1>2, <1>3, <1>4

LEMMA AbstainsInd == ASSUME IndInv, NEW j \in Jobs, Abstains(j) PROVE IndInv'
<1> USE DEF Abstains, Goes, IndInv, DiagnosisUnchanged
<1>1. acted[j] = 0
  BY DEF ApprovalInv, MayAct, JobTypeOK
<1>2. JobTypeOK'
  BY DEF JobTypeOK, AttemptsInv, Running, Remediates
<1>3. AttemptsInv'
  BY DEF AttemptsInv, JobTypeOK, Running, Remediates, Rediagnoses
<1>4. AuditInv'
  BY <1>1 DEF AuditInv, JobTypeOK, Remediates
<1>5. ApprovalInv'
  BY DEF ApprovalInv, MayAct, Enabled, RealExecutor
<1>6. ThreadInv'
  BY DEF ThreadInv, JobTypeOK, Running, Busy, clusterVars, Remediates
<1> QED
  BY <1>2, <1>3, <1>4, <1>5, <1>6

LEMMA ActsInd == ASSUME IndInv, ClusterTypeOK, NEW j \in Jobs, Acts(j) PROVE IndInv'
<1> USE DEF Acts, Goes, IndInv, DiagnosisUnchanged
<1>1. JobTypeOK'
  BY DEF JobTypeOK, AttemptsInv, Running
<1>2. AttemptsInv' /\ AuditInv'
  BY DEF AttemptsInv, AuditInv, JobTypeOK, Running
<1>3. ApprovalInv'
  BY DEF ApprovalInv, MayAct, Enabled, RealExecutor, JobTypeOK
<1>4. \A k \in Jobs : k # j => Busy(k)' = Busy(k)
  BY DEF ActionStarts, ThreadGoes, Busy, Jobs, ClusterTypeOK
<1>5. ThreadInv'
  BY <1>4 DEF ThreadInv, JobTypeOK, Running
<1> QED
  BY <1>1, <1>2, <1>3, <1>5

LEMMA ActionReturnsInd == ASSUME IndInv, NEW j \in Jobs, ActionReturns(j) PROVE IndInv'
<1> USE DEF ActionReturns, Goes, IndInv, RemedyUnchanged
<1>1. JobTypeOK'
  BY DEF JobTypeOK, Running, Remediates
<1>2. AttemptsInv'
  BY DEF AttemptsInv, JobTypeOK, Running, Remediates, Rediagnoses
<1>3. AuditInv'
  BY DEF AuditInv, JobTypeOK, Remediates
<1>4. ApprovalInv'
  BY DEF ApprovalInv, MayAct, Enabled, RealExecutor
<1>5. ThreadInv'
  <2>1. ~ Busy(j) /\ \A k \in Jobs : Busy(k)' = Busy(k)
    BY DEF Busy, Ended, clusterVars
  <2>2. pc[j] \in Running /\ \A k \in Jobs : k # j => pc'[k] = pc[k]
    BY DEF JobTypeOK, Running, Remediates
  <2> QED
    BY <2>1, <2>2 DEF ThreadInv
<1> QED
  BY <1>1, <1>2, <1>3, <1>4, <1>5

LEMMA VerifiesInd == ASSUME IndInv, NEW j \in Jobs, Verifies(j) PROVE IndInv'
<1> USE DEF Verifies, Goes, IndInv, RemedyUnchanged
<1>1. JobTypeOK'
  <2>1. polls' \in [Jobs -> 0 .. MaxPolls - 1]
    <3>1. polls[j] \in 0 .. MaxPolls - 1 /\ 0 \in 0 .. MaxPolls - 1
      BY PollsAssumption DEF JobTypeOK
    <3>2. \E n \in 0 .. MaxPolls - 1 : polls' = [polls EXCEPT ![j] = n]
      BY <3>1, PollsAssumption
    <3> QED
      BY <3>2 DEF JobTypeOK
  <2> QED
    BY <2>1 DEF JobTypeOK, Running, Remediates
<1>2. AttemptsInv'
  BY DEF AttemptsInv, JobTypeOK, Running, Remediates, Rediagnoses
<1>3. AuditInv'
  BY DEF AuditInv, JobTypeOK, Remediates
<1>4. ApprovalInv'
  BY DEF ApprovalInv, MayAct, Enabled, RealExecutor
<1>5. ThreadInv'
  <2>1. \A k \in Jobs : Busy(k)' = Busy(k)
    BY DEF Busy, clusterVars
  <2>2. pc[j] = "verify" /\ pc[j] \in Running /\ \A k \in Jobs : k # j => pc'[k] = pc[k]
    BY DEF JobTypeOK, Running, Remediates
  <2> QED
    BY <2>1, <2>2 DEF ThreadInv
<1> QED
  BY <1>1, <1>2, <1>3, <1>4, <1>5

\* Any end of a workflow that leaves the audit to be shown.
LEMMA EndsInd ==
    ASSUME IndInv, NEW j \in Jobs, NEW to \in Over, Ends(j, to), audited' \in [Jobs -> BOOLEAN],
           pc[j] \in {"queued"} \cup Running, AuditInv', pc[j] = "acting" => to = "stopped"
    PROVE  IndInv'
<1> USE DEF Ends, Goes, IndInv
<1>1. JobTypeOK'
  <2>1. 0 \in 0 .. 2 /\ 0 \in 0 .. MaxPolls - 1
    BY PollsAssumption
  <2>2. attempts' \in [Jobs -> 0 .. 2] /\ polls' \in [Jobs -> 0 .. MaxPolls - 1]
    BY <2>1 DEF JobTypeOK
  <2>3. status' \in [Jobs -> {"none", "disabled", "awaiting_approval", "failed", "verified"}]
    BY DEF JobTypeOK
  <2> QED
    BY <2>2, <2>3 DEF JobTypeOK
<1>2. AttemptsInv'
  BY DEF AttemptsInv, JobTypeOK, Running, Over
<1>3. ApprovalInv'
  BY DEF ApprovalInv, MayAct, Enabled, RealExecutor
<1>4. ThreadInv'
  BY DEF ThreadInv, JobTypeOK, Running, Over, Busy, clusterVars
<1> QED
  BY <1>1, <1>2, <1>3, <1>4

LEMMA ConcludesInd == ASSUME IndInv, NEW j \in Jobs, Concludes(j) PROVE IndInv'
<1> USE DEF Concludes
<1>1. PICK to \in {"complete", "failed", "stopped"} : Ends(j, to)
  OBVIOUS
<1>2. audited' \in [Jobs -> BOOLEAN]
  BY DEF IndInv, JobTypeOK
<1>3. AuditInv'
  BY <1>1 DEF IndInv, AuditInv, JobTypeOK, Ends, Goes
<1> QED
  BY <1>1, <1>2, <1>3, EndsInd DEF Over, Running

LEMMA StopsInd ==
    ASSUME IndInv, NEW j \in Jobs, WorkflowRaises(j) \/ Interrupt(j)
    PROVE  IndInv'
<1> USE DEF WorkflowRaises, Interrupt
<1>1. PICK to \in {"failed", "stopped"} : Ends(j, to) /\ (pc[j] = "acting" => to = "stopped")
  OBVIOUS
<1>2. audited' \in [Jobs -> BOOLEAN]
  BY DEF IndInv, JobTypeOK
<1>3. AuditInv'
  BY <1>1 DEF IndInv, AuditInv, JobTypeOK, Ends, Goes
<1> QED
  BY <1>1, <1>2, <1>3, EndsInd DEF Over, Running

\* A workflow that is left behind.
LEMMA LeftBehindInd == ASSUME IndInv, NEW j \in Jobs, IsLeftBehind(j) PROVE IndInv'
<1> USE DEF IsLeftBehind, IndInv
<1>1. JobTypeOK' /\ AttemptsInv' /\ AuditInv'
  BY DEF JobTypeOK, AttemptsInv, AuditInv
<1>2. ApprovalInv'
  BY DEF ApprovalInv, MayAct, Enabled, RealExecutor
<1>3. ThreadInv'
  BY DEF ThreadInv, Busy, clusterVars
<1> QED
  BY <1>1, <1>2, <1>3

\* A call of the tool route.
LEMMA ToolInd == ASSUME IndInv, ClusterTypeOK, NEW j \in Jobs, ToolIsCalled(j) PROVE IndInv'
<1> USE DEF ToolIsCalled, Goes, IndInv
<1>1. JobTypeOK' /\ AttemptsInv' /\ AuditInv'
  BY DEF JobTypeOK, AttemptsInv, AuditInv, Running
<1>2. ApprovalInv'
  BY DEF ApprovalInv, MayAct, Enabled, RealExecutor
<1>3. \A k \in Jobs : k # j => Busy(k)' = Busy(k)
  BY DEF ActionStarts, ThreadGoes, Busy, Jobs, ClusterTypeOK
<1>4. ThreadInv'
  BY <1>3 DEF ThreadInv, JobTypeOK, Running
<1> QED
  BY <1>1, <1>2, <1>4

(***************************************************************************)
(* The invariant, and what follows from it.                                *)
(***************************************************************************)
THEOREM NextInd == IndInv /\ ClusterTypeOK /\ [Next]_vars => IndInv'
<1> SUFFICES ASSUME IndInv, ClusterTypeOK, [Next]_vars PROVE IndInv'
  OBVIOUS
<1>1. CASE UNCHANGED vars
  BY <1>1, ClusterStepInd DEF vars, clusterVars, Busy
<1>2. ASSUME NEW j \in Jobs, JobStep(j) PROVE IndInv'
  BY <1>2, StartsInd, RejectsInd, AbstainsInd, ActsInd, ActionReturnsInd, VerifiesInd, ConcludesInd
     DEF JobStep
<1>3. ASSUME NEW j \in Jobs, WorkflowRaises(j) \/ Interrupt(j) PROVE IndInv'
  BY <1>3, StopsInd
<1>4. ASSUME NEW j \in Jobs, Report(j) \/ Detect(j) PROVE IndInv'
  BY <1>4, SubmitInd DEF Report, Detect, clusterVars
<1>5. ASSUME NEW j \in Jobs, NEW k \in Jobs, Approve(j, k) PROVE IndInv'
  <2>1. [incident[j] EXCEPT !.requested = TRUE] \in [connected : BOOLEAN, requested : BOOLEAN]
    BY DEF IndInv, JobTypeOK
  <2> QED
    BY <1>5, <2>1, SubmitInd DEF Approve, clusterVars
<1>6. ASSUME NEW i \in Injectors, NEW j \in Jobs, InjectSubmits(i, j) PROVE IndInv'
  <2>1. PICK auto \in BOOLEAN : Submit(j, [connected |-> TRUE, requested |-> auto])
    BY <1>6 DEF InjectSubmits
  <2>2. UNCHANGED thread
    BY <1>6, InjectorsActOnNoThread DEF InjectSubmits
  <2> QED
    BY <2>1, <2>2, SubmitInd
<1>7. ASSUME NEW i \in Injectors,
             InjectStarts(i) \/ (InjectionStep(i) /\ UNCHANGED jobVars) \/ InjectGivesUp(i)
      PROVE  IndInv'
  <2>1. UNCHANGED thread /\ UNCHANGED jobVars
    BY <1>7, InjectorsActOnNoThread, ScenariosAssumption DEF InjectStarts, InjectGivesUp
  <2> QED
    BY <2>1, ClusterStepInd DEF Busy
<1>8. ASSUME NEW j \in Jobs, ThreadStep(j), UNCHANGED jobVars PROVE IndInv'
  BY <1>8, ThreadsCalmDown, ClusterStepInd
<1>9. CASE (Settle \/ Degrade) /\ UNCHANGED jobVars
  BY <1>9, ClusterStepInd DEF Settle, Degrade, Busy
<1>10. ASSUME NEW j \in Jobs, IsLeftBehind(j) \/ ToolIsCalled(j) PROVE IndInv'
  BY <1>10, LeftBehindInd, ToolInd
<1> QED
  BY <1>1, <1>2, <1>3, <1>4, <1>5, <1>6, <1>7, <1>8, <1>9, <1>10 DEF Next

\* Every variable keeps its type.
THEOREM InvestigationInvariant == Spec => [](IndInv /\ TypeOK)
<1>1. RecordInv => ClusterTypeOK
  BY DEF RecordInv
<1>2. Spec => []RecordInv
  BY ImplementsCluster, RecordInvariant, PTL
<1>3. IndInv /\ ClusterTypeOK => TypeOK
  BY DEF IndInv, JobTypeOK, TypeOK
<1> QED
  BY <1>1, <1>2, <1>3, InitInd, NextInd, PTL DEF Spec

\* The retry edge is taken at most once (workflow.py:138-143).
THEOREM AtMostTwice == Spec => []ActsAtMostTwice
<1>1. IndInv => ActsAtMostTwice
  BY DEF IndInv, AttemptsInv, ActsAtMostTwice
<1> QED
  BY <1>1, InvestigationInvariant, PTL

\* The approval gate (workflow.py:167-169).
THEOREM Approved == Spec => []ActsWithApproval
<1>1. IndInv => ActsWithApproval
  BY DEF IndInv, ApprovalInv, MayAct, Enabled, RealExecutor, ActsWithApproval
<1> QED
  BY <1>1, InvestigationInvariant, PTL

\* Two actions overlap only if one was abandoned, or asked for through the tool route
\* (service.py:261, main.py:298-304).
THEOREM NoneAstray == Spec => []NoStrayAction
<1>1. IndInv => NoStrayAction
  BY DEF IndInv, ThreadInv, NoStrayAction, Stray, Running
<1> QED
  BY <1>1, InvestigationInvariant, PTL

\* What was done is audited, or a limitation says that it is not (workflow.py:216-233).
THEOREM Audited == Spec => []ActionIsAudited
<1>1. IndInv => ActionIsAudited
  BY DEF IndInv, AuditInv, ActionIsAudited
<1> QED
  BY <1>1, InvestigationInvariant, PTL

(***************************************************************************)
(* The work of an investigation is bounded: what InvestigationEnds rests   *)
(* on, without fairness.                                                   *)
(***************************************************************************)
\* At most this many steps of its own are left to a running investigation: a round
\* is a diagnosis that ends in an action, its return and MaxPolls observations.
Round == MaxPolls + 2
RoundsLeft(a) == IF a = 0 THEN 2 * Round ELSE IF a = 1 THEN Round ELSE 0
StepsLeft(j) ==
    CASE pc[j] = "diagnose" -> RoundsLeft(attempts[j]) + 1
      [] pc[j] = "acting" -> RoundsLeft(attempts[j]) + MaxPolls + 2
      [] pc[j] = "verify" -> RoundsLeft(attempts[j]) + MaxPolls - polls[j] + 1
      [] OTHER -> 1

\* Every step of a running investigation leaves less to do, and no step of anything
\* else (another job, a thread, an injector, the cluster) gives it more to do.
WorkRunsOut ==
    [][\A j \in Jobs : pc[j] \in Running /\ pc'[j] \in Running =>
          \/ StepsLeft(j)' < StepsLeft(j)
          \/ UNCHANGED <<pc[j], attempts[j], polls[j]>>]_vars

\* Only verify_health counts observations, and an action belongs to an attempt.
CountInv ==
    \A j \in Jobs :
       /\ pc[j] # "verify" => polls[j] = 0
       /\ pc[j] \in {"acting", "verify"} => attempts[j] # 0

\* What a step does to a job: nothing, or a step of its own, or it ends or begins.
LEMMA StepKinds ==
    ASSUME JobTypeOK, [Next]_vars, NEW j \in Jobs
    PROVE  \/ UNCHANGED <<pc[j], attempts[j], polls[j]>>
           \/ JobStep(j)
           \/ pc'[j] \in Over /\ polls'[j] = 0
           \/ pc[j] = "none" /\ pc'[j] \in {"queued", "tool"} /\ polls'[j] = polls[j]
<1> DEFINE Stays(k) == UNCHANGED <<pc[k], attempts[k], polls[k]>>
<1>1. ASSUME NEW k \in Jobs, k # j, JobStep(k) PROVE Stays(j)
  BY <1>1 DEF JobTypeOK, JobStep, Starts, Rejects, Abstains, Acts, ActionReturns, Verifies, Concludes,
              Goes, Ends, Remediates, RemedyUnchanged, DiagnosisUnchanged
<1>2. ASSUME NEW k \in Jobs, WorkflowRaises(k) \/ Interrupt(k)
      PROVE  Stays(j) \/ (pc'[j] \in Over /\ polls'[j] = 0)
  BY <1>2 DEF JobTypeOK, WorkflowRaises, Interrupt, Ends, Goes, Over
<1>3. ASSUME NEW k \in Jobs, NEW what, Submit(k, what)
      PROVE  Stays(j) \/ (pc[j] = "none" /\ pc'[j] = "queued" /\ polls'[j] = polls[j])
  BY <1>3 DEF JobTypeOK, Submit, Goes
<1>9. ASSUME NEW k \in Jobs, IsLeftBehind(k) \/ ToolIsCalled(k)
      PROVE  Stays(j) \/ (pc[j] = "none" /\ pc'[j] = "tool" /\ polls'[j] = polls[j])
  BY <1>9 DEF JobTypeOK, IsLeftBehind, ToolIsCalled, Goes
<1>4. CASE UNCHANGED jobVars
  BY <1>4 DEF jobVars
<1>5. UNCHANGED vars => UNCHANGED jobVars
  BY DEF vars
<1>6. CASE \E k \in Jobs : Report(k) \/ Detect(k) \/ \E m \in Jobs : Approve(k, m)
  BY <1>3, <1>6 DEF Report, Detect, Approve
<1>7. CASE \E i \in Injectors, k \in Jobs : InjectSubmits(i, k)
  BY <1>3, <1>7 DEF InjectSubmits
<1>8. CASE \E i \in Injectors : InjectStarts(i) \/ InjectGivesUp(i)
  BY <1>4, <1>8 DEF InjectStarts, InjectGivesUp
<1> QED
  BY <1>1, <1>2, <1>4, <1>5, <1>6, <1>7, <1>8, <1>9 DEF Next

LEMMA CountStep ==
    ASSUME JobTypeOK, CountInv, [Next]_vars
    PROVE  CountInv'
<1>1. ASSUME NEW j \in Jobs, JobStep(j)
      PROVE  /\ pc'[j] # "verify" => polls'[j] = 0
             /\ pc'[j] \in {"acting", "verify"} => attempts'[j] # 0
  BY <1>1 DEF JobTypeOK, CountInv, JobStep, Starts, Rejects, Abstains, Acts, ActionReturns, Verifies,
              Concludes, Goes, Ends, Remediates, RemedyUnchanged, DiagnosisUnchanged
<1> QED
  BY <1>1, StepKinds DEF CountInv, Over

LEMMA StepsAreWork ==
    ASSUME IndInv, CountInv, NEW j \in Jobs, JobStep(j), pc[j] \in Running, pc'[j] \in Running
    PROVE  StepsLeft(j)' < StepsLeft(j)
<1> USE PollsAssumption DEF IndInv, JobTypeOK, Running, Goes, StepsLeft, RoundsLeft, Round
<1>1. ASSUME Rejects(j) \/ Abstains(j) \/ Acts(j) PROVE StepsLeft(j)' < StepsLeft(j)
  <2>1. /\ attempts[j] \in {0, 1} /\ attempts'[j] = attempts[j] + 1 /\ polls'[j] = polls[j]
        /\ pc[j] = "diagnose" /\ polls[j] = 0
    BY <1>1 DEF Rejects, Abstains, Acts, DiagnosisUnchanged, AttemptsInv, CountInv
  <2>2. pc'[j] \in {"diagnose", "acting", "conclude"}
    BY <1>1 DEF Rejects, Abstains, Acts, Remediates
  <2> QED
    BY <2>1, <2>2
<1>2. ASSUME ActionReturns(j) \/ Verifies(j) PROVE StepsLeft(j)' < StepsLeft(j)
  <2>1. /\ attempts[j] \in {0, 1, 2} /\ attempts'[j] = attempts[j]
        /\ polls[j] \in 0 .. MaxPolls - 1 /\ polls'[j] \in 0 .. MaxPolls
    BY <1>2 DEF ActionReturns, Verifies, RemedyUnchanged
  <2>2. \/ /\ pc[j] = "acting" /\ pc'[j] \in {"verify", "diagnose", "conclude"} /\ polls'[j] = 0
        \/ /\ pc[j] = "verify" /\ pc'[j] \in {"diagnose", "conclude"}
        \/ /\ pc[j] = "verify" /\ pc'[j] = "verify" /\ polls'[j] = polls[j] + 1
    BY <1>2 DEF ActionReturns, Verifies, Remediates, CountInv
  <2> QED
    BY <2>1, <2>2
<1>3. ~ Starts(j) /\ ~ Concludes(j)
  BY DEF Starts, Concludes, Ends
<1> QED
  BY <1>1, <1>2, <1>3 DEF JobStep

\* An investigation takes at most 2 * MaxPolls + 5 steps of its own from its first
\* diagnosis on, whatever the guardrails, the cluster and the actions answer
\* (remediation_route and verify_health, workflow.py:138-143, mcp/server.py:90-130).
THEOREM WorkIsBounded ==
    Spec => /\ [](\A j \in Jobs : StepsLeft(j) \in 1 .. 2 * MaxPolls + 5)
            /\ WorkRunsOut
<1>1. Init => CountInv
  BY DEF Init, CountInv
<1>2. IndInv /\ TypeOK /\ CountInv /\ [Next]_vars => CountInv'
  BY CountStep DEF IndInv
<1>3. ASSUME IndInv, CountInv PROVE \A j \in Jobs : StepsLeft(j) \in 1 .. 2 * MaxPolls + 5
  <2> SUFFICES ASSUME NEW j \in Jobs PROVE StepsLeft(j) \in 1 .. 2 * MaxPolls + 5
    OBVIOUS
  <2>1. /\ attempts[j] \in {0, 1, 2} /\ polls[j] \in 0 .. MaxPolls - 1
        /\ MaxPolls \in Nat /\ MaxPolls # 0
        /\ pc[j] \in {"acting", "verify"} => attempts[j] # 0
    BY <1>3, PollsAssumption DEF IndInv, JobTypeOK, CountInv
  <2> QED
    BY <2>1 DEF StepsLeft, RoundsLeft, Round
<1>4. IndInv /\ TypeOK /\ CountInv /\ [Next]_vars =>
        [\A j \in Jobs : pc[j] \in Running /\ pc'[j] \in Running =>
            \/ StepsLeft(j)' < StepsLeft(j)
            \/ UNCHANGED <<pc[j], attempts[j], polls[j]>>]_vars
  BY StepKinds, StepsAreWork DEF IndInv, Running, Over
<1> QED
  BY <1>1, <1>2, <1>3, <1>4, InvestigationInvariant, PTL DEF Spec, WorkRunsOut
=============================================================================
