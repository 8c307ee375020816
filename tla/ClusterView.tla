----------------------------- MODULE ClusterView -----------------------------
(***************************************************************************)
(* What the console says of the cluster (frontend/src/main.jsx): App reads *)
(* /api/ready when it is mounted, then a summary; every click on "Inspect" *)
(* reads an observation and a summary of its own, whether or not another   *)
(* read is under way; and injections and results bring observations along. *)
(* The workload changes meanwhile, the cluster comes and goes, answers are *)
(* lost, and they arrive in any order.                                     *)
(*                                                                         *)
(* An action is what the page does between two awaits, or what the server  *)
(* does between two looks at the cluster.  Console follows the jobs; here  *)
(* a job is only the time until its result comes, or does not.             *)
(***************************************************************************)
EXTENDS Naturals

CONSTANTS
    MaxReads,   \* bound: the inspections that the operator makes
    MaxChanges, \* bound: the changes of the cluster
    Profiles    \* the configurations to look at

ASSUME ClusterViewAssumption ==
    /\ MaxReads \in Nat /\ MaxChanges \in Nat
    /\ Profiles \subseteq [mode : {"disabled", "observe", "execute"},
                       loads : BOOLEAN, ready : BOOLEAN]

\* The read at mount, and the inspections in the order in which they are asked for.
Mount == 0
Inspections == 1..MaxReads
Reads == {Mount} \cup Inspections

\* What an answer says of the cluster: nothing yet or at all, a refusal, a body that
\* was cut off (the page reads {}), that it is offline, that it is connected, or the
\* workload as it was.  (The counts of a summary are left out.)
Payloads == [kind : {"none", "lost", "refused", "empty", "offline", "connected"},
             health : {"unknown", "healthy", "degraded"},
             at : 0..MaxChanges]
Says(kind) == [kind |-> kind, health |-> "unknown", at |-> 0]
Nothing == Says("none")

NoRequest(stg) == [stage |-> stg, before |-> Nothing, seen |-> Nothing]

VARIABLES
    profile,    \* kubernetes_mode; whether its configuration loads and the API is ready
    health, reachable,
    now,        \* how often the cluster has changed
    stage,      \* per read: which answer it awaits
    got,        \* per read: that answer, until it arrives
    header,     \* runtime.cluster
    mode,       \* runtime.mode
    cluster, observation, incidentProof,
    confirming, \* the confirmation of an injection is open
    request,    \* the request of the page: how far it is, and the job's observations
    latest      \* history: the last inspection, if nothing has disturbed it

worldVars == <<profile, health, reachable, now>>
readVars == <<stage, got>>
pageVars == <<header, mode, cluster, observation, incidentProof, confirming>>
vars == <<worldVars, readVars, pageVars, request, latest>>

Served == {"posted", "captured", "injected", "accepted", "refused"}
Busy == request.stage \in Served \cup {"following"}

TypeOK ==
    /\ profile \in Profiles
    /\ health \in {"healthy", "degraded"} /\ reachable \in BOOLEAN
    /\ now \in 0..MaxChanges
    /\ stage \in [Reads -> {"new", "ready", "observation", "summary", "done"}]
    /\ got \in [Reads -> Payloads]
    /\ header \in {"checking", "connected", "offline"}
    /\ mode \in {"disabled", "observe", "execute"}
    /\ cluster \in Payloads /\ cluster.kind \in {"none", "empty", "offline", "connected"}
    /\ observation \in Payloads /\ observation.kind \in {"none", "empty", "connected"}
    /\ incidentProof \in [before : Payloads, after : Payloads]
    /\ confirming \in BOOLEAN
    /\ request \in [stage : Served \cup {"idle", "following", "shown"},
                    before : Payloads, seen : Payloads]
    /\ request.seen.kind \in {"none", "empty", "connected"}
    /\ latest \in Reads

Init ==
    /\ profile \in Profiles
    /\ health \in {"healthy", "degraded"} /\ reachable \in BOOLEAN
    /\ now = 0
    /\ stage = [i \in Reads |-> IF i = Mount THEN "ready" ELSE "new"]
    /\ got = [i \in Reads |-> Nothing]
    /\ header = "checking" /\ mode = "disabled"
    /\ cluster = Nothing /\ observation = Nothing
    /\ incidentProof = [before |-> Nothing, after |-> Nothing]
    /\ confirming = FALSE
    /\ request = NoRequest("idle")
    /\ latest = Mount

----------------------------------------------------------------------------
(***************************************************************************)
(* What the page shows.                                                    *)
(***************************************************************************)
Connected == observation.kind = "connected" \/ cluster.kind = "connected"

HealthShown ==
    IF observation.kind = "connected" THEN observation.health
    ELSE IF cluster.kind = "none" THEN "unknown" ELSE "observed"

\* The title of HealthHero: "Kubernetes verification pending" or "environment
\* unreachable", "Application workload unhealthy", "Kubernetes environment healthy".
HealthHero ==
    IF ~ Connected THEN IF header = "connected" THEN "pending" ELSE "unreachable"
    ELSE IF HealthShown = "degraded" THEN "unhealthy" ELSE "healthy"

\* Whether the page lets the operator inject an incident.
SimulationEnabled == header = "connected" /\ mode = "execute" /\ Connected

\* ChangeProof shows nothing without both observations.
ChangeShown == incidentProof.before.kind # "none" /\ incidentProof.after.kind # "none"

----------------------------------------------------------------------------
(***************************************************************************)
(* The cluster.                                                            *)
(***************************************************************************)
\* Without its database the API has no KubernetesService.
Configured == profile.ready /\ profile.mode # "disabled"
Answering == profile.loads /\ reachable
Workload == [kind |-> "connected", health |-> health, at |-> now]

Changes ==
    /\ now < MaxChanges
    /\ now' = now + 1
    /\ latest' = Mount

\* Pods fail or recover by themselves or by an action.
WorkloadChanges ==
    /\ Changes
    /\ health' \in {"healthy", "degraded"} \ {health}
    /\ UNCHANGED <<profile, reachable, readVars, pageVars, request>>

ConnectionChanges ==
    /\ Changes
    /\ reachable' = ~ reachable
    /\ UNCHANGED <<profile, health, readVars, pageVars, request>>

----------------------------------------------------------------------------
(***************************************************************************)
(* Reads.                                                                  *)
(***************************************************************************)
\* /api/ready says in its body, whatever its status, whether the client's configuration
\* was loaded; a summary, whether the cluster answers; an observation, by its status.
AnswerTo(question) ==
    CASE question = "ready" ->
            Says(IF Configured /\ profile.loads THEN "connected" ELSE "offline")
      [] question = "observation" ->
            IF Configured /\ Answering THEN Workload ELSE Says("refused")
      [] question = "summary" ->
            IF ~ Configured THEN Says("refused")
            ELSE Says(IF Answering THEN "connected" ELSE "offline")

\* An answer is given, and its body or all of it may be lost on the way.
Answers(i) ==
    /\ stage[i] \in {"ready", "observation", "summary"} /\ got[i] = Nothing
    /\ \E answer \in {AnswerTo(stage[i]), Says("lost"), Says("empty")} :
          /\ answer.kind = "empty" => AnswerTo(stage[i]).kind # "refused"
          /\ got' = [got EXCEPT ![i] = answer]
          /\ latest' = IF answer = AnswerTo(stage[i]) THEN latest ELSE Mount
    /\ UNCHANGED <<worldVars, stage, pageVars, request>>

\* The page goes on with the answer, and awaits the next one.
Arrives(i, to) ==
    /\ got[i] # Nothing
    /\ got' = [got EXCEPT ![i] = Nothing]
    /\ stage' = [stage EXCEPT ![i] = to]
    /\ UNCHANGED <<worldVars, incidentProof, confirming, request, latest>>

HeaderSays(answer) == header' = IF answer.kind = "connected" THEN "connected" ELSE "offline"

\* Faulty variant: nobody catches the failure of the fetch.
ReadyArrivesUncaught ==
    /\ stage[Mount] = "ready"
    /\ Arrives(Mount, IF got[Mount].kind = "connected" THEN "summary" ELSE "done")
    /\ IF got[Mount].kind = "lost" THEN UNCHANGED header ELSE HeaderSays(got[Mount])
    /\ mode' = profile.mode
    /\ UNCHANGED <<cluster, observation>>

\* The effect of App: its answer to the mount.
ReadyArrives ==
    /\ stage[Mount] = "ready"
    /\ Arrives(Mount, IF got[Mount].kind = "connected" THEN "summary" ELSE "done")
    /\ HeaderSays(got[Mount])
    /\ mode' = CASE got[Mount].kind = "lost" -> mode
                 [] got[Mount].kind = "empty" -> "disabled"
                 [] OTHER -> profile.mode
    /\ UNCHANGED <<cluster, observation>>

\* inspectCluster begins: no read is waited for.
Inspect(i) ==
    /\ stage[i] = "new"
    /\ \A k \in Inspections : k < i => stage[k] # "new"
    /\ stage' = [stage EXCEPT ![i] = "observation"]
    /\ latest' = IF ~ Busy /\ \A k \in Reads : stage[k] \in {"new", "done"} THEN i ELSE Mount
    /\ UNCHANGED <<worldVars, got, pageVars, request>>

\* Faulty variant: a failed inspection leaves the header alone.
ObservationArrivesQuietly(i) ==
    /\ stage[i] = "observation"
    /\ Arrives(i, IF got[i].kind \in {"lost", "refused"} THEN "done" ELSE "summary")
    /\ observation' = IF got[i].kind \in {"lost", "refused"} THEN observation ELSE got[i]
    /\ header' = IF got[i].kind = "connected" THEN "connected" ELSE header
    /\ UNCHANGED <<mode, cluster>>

\* Faulty variant: the status of the answer is looked at after its body is shown.
ObservationArrivesUnchecked(i) ==
    /\ stage[i] = "observation"
    /\ Arrives(i, IF got[i].kind \in {"lost", "refused"} THEN "done" ELSE "summary")
    /\ observation' = IF got[i].kind = "lost" THEN observation ELSE got[i]
    /\ HeaderSays(got[i])
    /\ UNCHANGED <<mode, cluster>>

\* A failure keeps the observation that is shown.
ObservationArrives(i) ==
    /\ stage[i] = "observation"
    /\ Arrives(i, IF got[i].kind \in {"lost", "refused"} THEN "done" ELSE "summary")
    /\ observation' = IF got[i].kind \in {"lost", "refused"} THEN observation ELSE got[i]
    /\ HeaderSays(got[i])
    /\ UNCHANGED <<mode, cluster>>

\* loadCluster ends, and with it the inspection.
SummaryArrives(i) ==
    /\ stage[i] = "summary"
    /\ Arrives(i, "done")
    /\ cluster' = IF got[i].kind \in {"lost", "refused"} THEN Nothing ELSE got[i]
    /\ HeaderSays(got[i])
    /\ UNCHANGED <<mode, observation>>

----------------------------------------------------------------------------
(***************************************************************************)
(* Injections.                                                             *)
(***************************************************************************)
PageStays == UNCHANGED <<header, mode, cluster>>

\* beginInjection and the two buttons of ConfirmationModal.
BeginInjection ==
    /\ SimulationEnabled /\ ~ Busy
    /\ confirming' = TRUE
    /\ UNCHANGED <<worldVars, readVars, observation, incidentProof, request, latest>>
    /\ PageStays

CancelInjection ==
    /\ confirming /\ confirming' = FALSE
    /\ UNCHANGED <<worldVars, readVars, observation, incidentProof, request, latest>>
    /\ PageStays

\* inject, which does not look at the cluster again; runRequest returns when busy.
Inject ==
    /\ confirming /\ confirming' = FALSE
    /\ \/ /\ ~ Busy
          /\ request' = NoRequest("posted")
       \/ /\ Busy
          /\ UNCHANGED request
    /\ latest' = Mount
    /\ UNCHANGED <<worldVars, readVars, observation, incidentProof>>
    /\ PageStays

RequestGoes(to) == request' = [request EXCEPT !.stage = to]
RequestOnly == UNCHANGED <<profile, reachable, readVars, pageVars, latest>>

\* inject_cluster_incident observes the baseline.
Captures ==
    /\ request.stage = "posted"
    /\ Configured /\ profile.mode = "execute" /\ Answering
    /\ request' = [request EXCEPT !.stage = "captured", !.before = Workload]
    /\ UNCHANGED <<health, now>>
    /\ RequestOnly

\* inject_failure sabotages the workload; it may raise all the same.
Injects ==
    /\ request.stage = "captured"
    /\ Answering
    /\ now < MaxChanges
    /\ now' = now + 1 /\ health' = "degraded"
    /\ \/ RequestGoes("injected")
       \/ request' = NoRequest("refused")
    /\ RequestOnly

\* It observes until the workload is degraded, and submits what it has observed.
Submits ==
    /\ request.stage = "injected"
    /\ Answering /\ health = "degraded"
    /\ request' = [request EXCEPT !.stage = "accepted", !.seen = Workload]
    /\ UNCHANGED <<health, now>>
    /\ RequestOnly

\* 403, 409, 429, 503; or the request or its answer is lost.
Refuses ==
    /\ request.stage \in Served \ {"refused"}
    /\ request' = NoRequest("refused")
    /\ UNCHANGED <<health, now>>
    /\ RequestOnly

\* Faulty variant: what the page shows is taken for the baseline.
AcceptedArrivesLate ==
    /\ request.stage = "accepted"
    /\ request' = [request EXCEPT !.stage = "following", !.before = Nothing]
    /\ observation' = request.seen
    /\ incidentProof' = [before |-> observation, after |-> request.seen]
    /\ UNCHANGED <<worldVars, readVars, confirming, latest>>
    /\ PageStays

\* runRequest goes on with the answer, and then executes the job.
AcceptedArrives ==
    /\ request.stage = "accepted"
    /\ request' = [request EXCEPT !.stage = "following", !.before = Nothing]
    /\ observation' = request.seen
    /\ incidentProof' = [before |-> request.before, after |-> request.seen]
    /\ UNCHANGED <<worldVars, readVars, confirming, latest>>
    /\ PageStays

RefusalArrives ==
    /\ request.stage = "refused"
    /\ request' = NoRequest("idle")
    /\ UNCHANGED <<health, now>>
    /\ RequestOnly

\* submit: an incident without an observation, whose result carries {}.
Report ==
    /\ ~ Busy
    /\ request' = [NoRequest("following") EXCEPT !.seen = Says("empty")]
    /\ latest' = Mount
    /\ UNCHANGED <<worldVars, readVars, pageVars>>

\* approve is answered: the incident of the shown result once more.  The page is not
\* busy before that, and keeps the result if the answer is a failure.
Approve ==
    /\ request.stage = "shown" /\ request.seen.kind = "connected"
    /\ RequestGoes("following")
    /\ latest' = Mount
    /\ UNCHANGED <<worldVars, readVars, pageVars>>

\* executeJob ends: a result replaces the observation by that of its incident.
ResultArrives ==
    /\ request.stage = "following"
    /\ RequestGoes("shown")
    /\ observation' = request.seen
    /\ latest' = Mount
    /\ UNCHANGED <<worldVars, readVars, incidentProof, confirming>>
    /\ PageStays

JobFails ==
    /\ request.stage = "following"
    /\ request' = NoRequest("idle")
    /\ UNCHANGED <<health, now>>
    /\ RequestOnly

Reset ==
    /\ ~ Busy
    /\ request' = NoRequest("idle")
    /\ incidentProof' = [before |-> Nothing, after |-> Nothing]
    /\ UNCHANGED <<worldVars, readVars, observation, confirming, latest>>
    /\ PageStays

----------------------------------------------------------------------------
ReadStep(i) == Answers(i) \/ ObservationArrives(i) \/ SummaryArrives(i)

Next ==
    \/ WorkloadChanges \/ ConnectionChanges
    \/ ReadyArrives
    \/ \E i \in Inspections : Inspect(i)
    \/ \E i \in Reads : ReadStep(i)
    \/ BeginInjection \/ CancelInjection \/ Inject
    \/ Captures \/ Injects \/ Submits \/ Refuses
    \/ AcceptedArrives \/ RefusalArrives
    \/ Report \/ Approve \/ ResultArrives \/ JobFails \/ Reset

Spec == Init /\ [][Next]_vars

\* Every fetch is answered or fails.
FairSpec == Spec /\ WF_vars(ReadyArrives) /\ WF_vars(Answers(Mount))

----------------------------------------------------------------------------
(***************************************************************************)
(* Properties.                                                             *)
(***************************************************************************)
\* An inspection that nothing disturbed, and none of whose answers was lost, leaves a
\* page that agrees with itself and with the cluster: the header says whether the
\* cluster answers; if it does, HealthHero shows the workload as it is; and incidents
\* can be injected only then.  (After an inspection that failed, HealthHero goes on
\* showing the observation before it.)
UndisturbedIsTrue ==
    latest # Mount /\ stage[latest] = "done" =>
       /\ header = IF Configured /\ Answering THEN "connected" ELSE "offline"
       /\ Configured /\ Answering =>
             /\ observation = Workload
             /\ HealthHero = IF health = "healthy" THEN "healthy" ELSE "unhealthy"
       /\ SimulationEnabled <=> Configured /\ Answering /\ mode = "execute"

\* "What changed?" shows a change: its two observations are of the connected
\* workload, the first from before the fault and the second, which is degraded, from
\* after it, whatever else was read or changed in between.
ChangeIsReal ==
    ChangeShown =>
       /\ incidentProof.before.kind = "connected" /\ incidentProof.after.kind = "connected"
       /\ incidentProof.before.at < incidentProof.after.at
       /\ incidentProof.after.health = "degraded"

\* The header does not say CHECKING for ever.
CheckingEnds == header = "checking" ~> header # "checking"
=============================================================================
