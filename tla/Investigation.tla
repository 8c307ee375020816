--------------------------- MODULE Investigation ---------------------------
(***************************************************************************)
(* One investigation after the other, as the queue hands them out: the     *)
(* workflow graph of app/graph/workflow.py with its way back to diagnosis, *)
(* the RemediationAgent, the MCP tools it calls, the audit, and the routes *)
(* of app/main.py that submit incidents - over the workload of module      *)
(* Cluster.  An action is what a task does between two awaits that let     *)
(* something relevant happen; the agents in front of the remediation read  *)
(* nothing that another step writes, so all of them are one step.          *)
(***************************************************************************)
EXTENDS Cluster, Naturals

CONSTANTS
    Settings,   \* the configurations to look at
    Scenarios,  \* the incident scenarios to look at
    NoAction,   \* no safe action
    MaxPolls    \* how often verify_health looks at the cluster (15 in the code)

\* A job has at most one thread at a time: its own.  A call of the tool route has no
\* job; it takes the place of one.
Jobs == Threads

AllSettings ==
    [remediation : {"disabled", "simulate", "execute"},
     kubernetes : {"disabled", "observe", "execute"},
     auto : BOOLEAN,    \* auto_remediation
     graph : BOOLEAN]   \* langgraph is installed

ASSUME SettingsAssumption == Settings \subseteq AllSettings
ASSUME ScenariosAssumption == Scenarios \subseteq DOMAIN Sabotages
ASSUME PollsAssumption == MaxPolls \in Nat \ {0}
ASSUME NoActionAssumption == NoAction \notin SafeActions

VARIABLES
    settings,
    pc,         \* per job: what its investigation does next, or how it ended
    behind,     \* the workflows that go on although _process no longer awaits them
    incident,   \* has it an observation of the connected workload; was it requested
    attempts,   \* state['remediation_attempts'], 0 outside of the workflow
    polls,      \* observations made by verify_health so far
    status,     \* the status of state['remediation'], and then of the job's result
    audited,    \* a record was saved, or a limitation says that it was not
    acted       \* history: the actions given to a thread

jobVars == <<settings, pc, behind, incident, attempts, polls, status, audited, acted>>
vars == <<clusterVars, jobVars>>

Running == {"diagnose", "acting", "verify", "conclude"}
Over == {"complete", "failed", "stopped"}

TypeOK ==
    /\ ClusterTypeOK
    /\ settings \in Settings
    /\ pc \in [Jobs -> {"none", "queued", "tool"} \cup Running \cup Over]
    /\ behind \subseteq Jobs
    /\ incident \in [Jobs -> [connected : BOOLEAN, requested : BOOLEAN]]
    /\ attempts \in [Jobs -> 0 .. 2]
    /\ polls \in [Jobs -> 0 .. MaxPolls - 1]
    /\ status \in [Jobs -> {"none", "disabled", "awaiting_approval", "failed", "verified"}]
    /\ audited \in [Jobs -> BOOLEAN]
    /\ acted \in [Jobs -> Nat]

Init ==
    /\ ClusterInit
    /\ settings \in Settings
    /\ pc = [j \in Jobs |-> "none"]
    /\ behind = {}
    /\ incident = [j \in Jobs |-> [connected |-> FALSE, requested |-> FALSE]]
    /\ attempts = [j \in Jobs |-> 0]
    /\ polls = [j \in Jobs |-> 0]
    /\ status = [j \in Jobs |-> "none"]
    /\ audited = [j \in Jobs |-> FALSE]
    /\ acted = [j \in Jobs |-> 0]

Goes(j, to) == pc' = [pc EXCEPT ![j] = to]

\* The workflow ends, and its state is gone, or becomes the result.
Ends(j, to) ==
    /\ Goes(j, to)
    /\ attempts' = [attempts EXCEPT ![j] = 0]
    /\ polls' = [polls EXCEPT ![j] = 0]
    /\ status' = [status EXCEPT ![j] = IF to = "complete" THEN @ ELSE "none"]
    /\ behind' = behind \ {j}
    /\ UNCHANGED <<clusterVars, settings, incident, acted>>

(***************************************************************************)
(* Incidents.                                                              *)
(***************************************************************************)
Submit(j, what) ==
    /\ pc[j] = "none"
    /\ Goes(j, "queued")
    /\ incident' = [incident EXCEPT ![j] = what]
    /\ UNCHANGED <<settings, behind, attempts, polls, status, audited, acted>>

\* create_job, analyze: a description, and no observation.
Report(j) ==
    /\ Submit(j, [connected |-> FALSE, requested |-> FALSE])
    /\ UNCHANGED clusterVars

\* detect_cluster_incident.  An observation is several calls; as long as health is one
\* fact, what they find together is what was the case at some moment between them.
Detect(j) ==
    /\ settings.kubernetes # "disabled"
    /\ health = "degraded"
    /\ Submit(j, [connected |-> TRUE, requested |-> FALSE])
    /\ UNCHANGED clusterVars

\* approve_remediation queues the incident of a completed job once more.
Approve(j, k) ==
    /\ pc[j] = "complete" /\ incident[j].connected
    /\ Submit(k, [incident[j] EXCEPT !.requested = TRUE])
    /\ UNCHANGED clusterVars

\* inject_cluster_incident.
InjectStarts(i) ==
    /\ settings.kubernetes = "execute"
    /\ \E s \in Scenarios : InjectReads(i, s)
    /\ UNCHANGED jobVars

\* It submits what it observes of the injected fault.
InjectSubmits(i, j) ==
    /\ health = "degraded"
    /\ InjectionOver(i)
    /\ \E auto \in BOOLEAN : Submit(j, [connected |-> TRUE, requested |-> auto])

\* The fault was not observed in time, or the queue is full.
InjectGivesUp(i) == InjectionOver(i) /\ UNCHANGED jobVars

(***************************************************************************)
(* Diagnosis.                                                              *)
(***************************************************************************)
CategoryAction ==
    [deployment_failure |-> "rollback_deployment",
     availability_issue |-> "restart_pod",
     performance_issue |-> "scale_deployment",
     database_failure |-> "clear_temporary_condition"]
       \* network_failure and authentication_failure are like database_failure

\* hint is the action that the best-ranked recommendation with a keyword names.
SelectAction(category, hint) ==
    IF category = "deployment_failure" \/ hint = NoAction THEN CategoryAction[category] ELSE hint

\* Faulty variant: the operator's approval is only looked at in the cluster's absence.
EnabledAnyway(j) == settings.remediation # "disabled"

\* state['remediation_enabled'].
Enabled(j) ==
    /\ settings.remediation # "disabled"
    /\ ~ incident[j].connected \/ incident[j].requested \/ settings.auto

\* The workflow leaves the queue when _process awaits no other one, and saves the
\* incident.
Starts(j) ==
    /\ pc[j] = "queued"
    /\ \A k \in Jobs \ behind : pc[k] \notin Running
    /\ \E to \in {"diagnose", "failed"} : Goes(j, to)
    /\ UNCHANGED <<clusterVars, settings, behind, incident, attempts, polls, status, audited, acted>>

\* The executor is the Kubernetes service, or else a simulation.
RealExecutor == settings.kubernetes = "execute" /\ settings.remediation = "execute"

\* Faulty variant: the attempts are not counted.
AlwaysRediagnoses(attempt) == settings.graph

\* remediation_route; the sequential engine has no way back.
Rediagnoses(attempt) == settings.graph /\ attempt < 2

\* remediate() returns: a failure recommends another diagnosis.
Remediates(j, s, attempt) ==
    /\ status' = [status EXCEPT ![j] = s]
    /\ Goes(j, IF s = "failed" /\ Rediagnoses(attempt) THEN "diagnose" ELSE "conclude")

DiagnosisUnchanged == UNCHANGED <<settings, behind, incident, polls, audited>>

\* Triage, knowledge and resolution have run, and the guardrails reject the draft.
Rejects(j) ==
    /\ pc[j] = "diagnose"
    /\ attempts' = [attempts EXCEPT ![j] = @ + 1]
    /\ Remediates(j, "disabled", attempts'[j])
    /\ UNCHANGED <<clusterVars, acted>>
    /\ DiagnosisUnchanged

\* The draft is accepted, and nothing is done to the cluster: it is not allowed;
\* the target is a service name, which the policy of the real executor, and
\* verify_health in execute mode, refuse; or the executor is a simulation, which
\* leaves a connected workload alone.
Abstains(j) ==
    /\ pc[j] = "diagnose"
    /\ ~ (Enabled(j) /\ RealExecutor /\ incident[j].connected)
    /\ attempts' = [attempts EXCEPT ![j] = @ + 1]
    /\ Remediates(j, IF ~ Enabled(j) \/ incident[j].connected THEN "awaiting_approval"
                     ELSE IF settings.kubernetes = "execute" THEN "failed" ELSE "verified",
                  attempts'[j])
    /\ UNCHANGED <<clusterVars, acted>>
    /\ DiagnosisUnchanged

\* The draft is accepted, and the selected action is given to a thread.
Acts(j) ==
    /\ pc[j] = "diagnose"
    /\ Enabled(j) /\ RealExecutor /\ incident[j].connected
    /\ attempts' = [attempts EXCEPT ![j] = @ + 1]
    /\ \E c \in DOMAIN CategoryAction, hint \in SafeActions \cup {NoAction} :
          ActionStarts(j, SelectAction(c, hint))
    /\ Goes(j, "acting")
    /\ acted' = [acted EXCEPT ![j] = @ + 1]
    /\ UNCHANGED status
    /\ DiagnosisUnchanged

(***************************************************************************)
(* Remediation.                                                            *)
(***************************************************************************)
RemedyUnchanged == UNCHANGED <<clusterVars, settings, behind, incident, attempts, audited, acted>>

\* Faulty variant: the thread is not awaited.
ActionReturnsEarly(j) ==
    /\ pc[j] = "acting"
    /\ Goes(j, "verify")
    /\ UNCHANGED <<polls, status>>
    /\ RemedyUnchanged

\* The awaited thread has executed the action, or raised.
ActionReturns(j) ==
    /\ pc[j] = "acting"
    /\ \/ thread[j] = "done" /\ Goes(j, "verify") /\ UNCHANGED status
       \/ thread[j] = "raised" /\ Remediates(j, "failed", attempts[j])
    /\ UNCHANGED polls
    /\ RemedyUnchanged

\* Faulty variant: nothing counts the observations.
VerifiesForever(j) ==
    /\ pc[j] = "verify"
    /\ \/ /\ health = "degraded"
          /\ polls' = [polls EXCEPT ![j] = (@ + 1) % MaxPolls]
          /\ UNCHANGED <<pc, status>>
       \/ /\ health = "healthy" /\ Remediates(j, "verified", attempts[j])
          /\ polls' = [polls EXCEPT ![j] = 0]
    /\ RemedyUnchanged

\* verify_health observes until the workload is healthy, the observations are used
\* up, or the cluster does not answer (which may happen at any of them).
Verifies(j) ==
    /\ pc[j] = "verify"
    /\ \/ /\ health = "degraded" /\ polls[j] < MaxPolls - 1
          /\ polls' = [polls EXCEPT ![j] = @ + 1]
          /\ UNCHANGED <<pc, status>>
       \/ /\ \/ health = "healthy" /\ Remediates(j, "verified", attempts[j])
             \/ Remediates(j, "failed", attempts[j])
          /\ polls' = [polls EXCEPT ![j] = 0]
    /\ RemedyUnchanged

(***************************************************************************)
(* The end of analyze().                                                   *)
(***************************************************************************)
\* Faulty variant: only successes are audited.
ConcludesSuccess(j) ==
    /\ pc[j] = "conclude"
    /\ audited' = [audited EXCEPT ![j] = status[j] = "verified"]
    /\ \E to \in {"complete", "failed"} : Ends(j, to)

\* save_audit, for the last remediation if it has acted or tried to, and save_result,
\* which may raise.  Nobody takes the result of a workflow that was cancelled.
Concludes(j) ==
    /\ pc[j] = "conclude"
    /\ audited' = [audited EXCEPT ![j] = status[j] \in {"verified", "failed"}]
    /\ \E to \in {"failed", "stopped"} \cup IF j \in behind THEN {} ELSE {"complete"} : Ends(j, to)

\* An agent raises.
WorkflowRaises(j) ==
    /\ pc[j] = "diagnose"
    /\ Ends(j, "failed")
    /\ UNCHANGED audited

\* A DELETE or the timer ends the task at its await; the thread it awaited goes on.
\* A cancellation that the provider's wait_for swallows is no step of the workflow.
Interrupt(j) ==
    /\ pc[j] \in {"queued"} \cup Running
    /\ Ends(j, "stopped")
    /\ UNCHANGED audited

\* A second DELETE makes _process leave a workflow behind that has swallowed the first
\* one, or is still unwinding: it goes on beside the next (Coordinator!WorkflowUnwinds).
IsLeftBehind(j) ==
    /\ pc[j] \in Running
    /\ behind' = behind \cup {j}
    /\ UNCHANGED <<clusterVars, settings, pc, incident, attempts, polls, status, audited, acted>>

(***************************************************************************)
(* The tool route.                                                         *)
(***************************************************************************)
\* POST /internal/v1/mcp executes a safe action: it asks for no incident and no
\* approval, and leaves no audit.
ToolIsCalled(j) ==
    /\ pc[j] = "none"
    /\ RealExecutor
    /\ Goes(j, "tool")
    /\ \E a \in SafeActions : ActionStarts(j, a)
    /\ UNCHANGED <<settings, behind, incident, attempts, polls, status, audited, acted>>

JobStep(j) ==
    \/ Starts(j)
    \/ Rejects(j)
    \/ Abstains(j)
    \/ Acts(j)
    \/ ActionReturns(j)
    \/ Verifies(j)
    \/ Concludes(j)

Next ==
    \/ \E j \in Jobs :
          \/ Report(j)
          \/ Detect(j)
          \/ \E k \in Jobs : Approve(j, k)
          \/ JobStep(j)
          \/ WorkflowRaises(j)
          \/ Interrupt(j)
          \/ IsLeftBehind(j)
          \/ ToolIsCalled(j)
          \/ ThreadStep(j) /\ UNCHANGED jobVars
    \/ \E i \in Injectors :
          \/ InjectStarts(i)
          \/ InjectionStep(i) /\ UNCHANGED jobVars
          \/ \E j \in Jobs : InjectSubmits(i, j)
          \/ InjectGivesUp(i)
    \/ (Settle \/ Degrade) /\ UNCHANGED jobVars

Spec == Init /\ [][Next]_vars

\* Tasks and threads go on.  Nothing is assumed of the cluster, of clients or of the
\* timer.
Fairness == \A j \in Jobs : WF_vars(JobStep(j)) /\ WF_vars(ThreadStep(j) /\ UNCHANGED jobVars)

FairSpec == Spec /\ Fairness

(***************************************************************************)
(* Properties.                                                             *)
(***************************************************************************)
\* An investigation acts on the workload at most twice, whatever its actions, their
\* answers and the observations after them were (the retry edge, workflow.py:138-143).
ActsAtMostTwice == \A j \in Jobs : acted[j] <= 2

\* No investigation does anything to the connected workload for an incident that
\* nobody approved, unless the configuration says so - not in its second attempt, and
\* not when its job was cancelled.
ActsWithApproval ==
    \A j \in Jobs : acted[j] > 0 =>
       /\ settings.remediation = "execute"
       /\ incident[j].requested \/ settings.auto

Busy(j) == thread[j] \notin Ended

\* Outside of the reach of the investigation that is awaited: its action has been
\* abandoned, or nobody has ever decided on it.
Stray(j) == pc[j] \in {"stopped", "tool"} \/ j \in behind

\* An action is under way only while its investigation waits for it, and two are only
\* if one of them belongs to an investigation that was stopped or left behind, or to
\* nobody but a caller of the tool route.
NoStrayAction ==
    \A j, k \in Jobs :
       /\ Busy(j) => pc[j] \in {"acting", "stopped", "tool"}
       /\ Busy(j) /\ Busy(k) /\ j # k => Stray(j) \/ Stray(k)

\* An investigation that completes after acting has an audit record, or says that it
\* has none, unless its second diagnosis was rejected: then its status is "disabled".
ActionIsAudited ==
    \A j \in Jobs : pc[j] = "complete" /\ acted[j] > 0 =>
       audited[j] \/ status[j] = "disabled"

\* An investigation that starts comes to an end by itself, without the timer, even if
\* the cluster never recovers.
InvestigationEnds == \A j \in Jobs : pc[j] \in Running ~> pc[j] \in Over

(***************************************************************************)
(* What the program says and does not do.                                  *)
(***************************************************************************)
\* RemediationCard: "INCIDENT RESOLVED", "Recovery verified by Kubernetes".
ClaimsRecovery(j) == pc[j] = "complete" /\ status[j] = "verified"

\* "Health verification passed from the cluster observation." (main.jsx:252) is said of
\* an incident of the connected workload on which an action was executed.
VerifiedByKubernetes ==
    \A j \in Jobs : ClaimsRecovery(j) => incident[j].connected /\ acted[j] > 0
=============================================================================
