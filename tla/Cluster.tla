------------------------------ MODULE Cluster ------------------------------
(***************************************************************************)
(* What AtlasAI does to the workload it looks after                        *)
(* (app/kubernetes/service.py): controlled incidents that sabotage one     *)
(* field of the pod template, and the safe actions that repair it.  Each   *)
(* injection and each action runs in a worker thread of its own, and an    *)
(* action here is one call of the Kubernetes API.  Any call may fail, and  *)
(* one that changes something may have been served although its answer was *)
(* lost.                                                                   *)
(*                                                                         *)
(* Nobody else changes the deployment; its pods may fail by themselves.    *)
(***************************************************************************)
CONSTANTS
    Threads,    \* the threads that execute safe actions
    Injectors,  \* the threads that inject controlled incidents
    NoRecord    \* the deployment carries none of the healthy-* annotations

VARIABLES
    template,   \* the container fields that AtlasAI patches
    recorded,   \* the annotations opspilot.io/healthy-*, written together
    health,     \* what an observation of the workload reports
    thread,     \* per action thread: what it does next, or how it ended
    injection,  \* per injector: what it does next, or how it ended
    copy        \* the annotations that a thread has read and is about to write

clusterVars == <<template, recorded, health, thread, injection, copy>>

Fields == {"image", "command", "readinessProbe"}
Templates == [Fields -> {"original", "injected"}]

\* "original" may be absence: it is recorded as JSON null, and patching null
\* removes the field again.
Original == [f \in Fields |-> "original"]
Records == Templates \cup {NoRecord}

ASSUME ClusterAssumption == Threads \cap Injectors = {} /\ NoRecord \notin Templates

Restoring == {"rollback_deployment", "clear_temporary_condition"}
SafeActions == Restoring \cup {"restart_pod", "scale_deployment"}

\* The field that each incident scenario sabotages.
Sabotages == [deployment_failure |-> "image", pod_crash |-> "command",
              rollout_failure |-> "readinessProbe"]

\* "none": no injection is under way, or the last one is over.
Ended == {"none", "done", "raised"}

ClusterTypeOK ==
    /\ template \in Templates
    /\ recorded \in Records
    /\ health \in {"healthy", "degraded"}
    /\ thread \in [Threads -> Ended \cup SafeActions \cup {"restore"}]
    /\ injection \in [Injectors -> {"none", "delete", "injected"} \cup DOMAIN Sabotages]
    /\ copy \in [Threads \cup Injectors -> Records]

ClusterInit ==
    /\ template = Original
    /\ recorded = NoRecord
    /\ health = "healthy"
    /\ thread = [t \in Threads |-> "none"]
    /\ injection = [i \in Injectors |-> "none"]
    /\ copy = [x \in Threads \cup Injectors |-> NoRecord]

(***************************************************************************)
(* _inject_sync.                                                           *)
(***************************************************************************)
InjectionGoes(i, to) == injection' = [injection EXCEPT ![i] = to]
InjectionKeeps == UNCHANGED thread

\* Faulty variant: an assignment instead of setdefault.
InjectReadsAfresh(i, scenario) ==
    /\ injection[i] = "none"
    /\ \/ /\ InjectionGoes(i, scenario)
          /\ copy' = [copy EXCEPT ![i] = template]
       \/ /\ InjectionGoes(i, "none")
          /\ UNCHANGED copy
    /\ UNCHANGED <<template, recorded, health>>
    /\ InjectionKeeps

\* Read the deployment and its pods.  The template is recorded by setdefault: a
\* record that is there already is kept.
InjectReads(i, scenario) ==
    /\ injection[i] = "none"
    /\ \/ /\ InjectionGoes(i, scenario)
          /\ copy' = [copy EXCEPT ![i] = IF recorded = NoRecord THEN template ELSE recorded]
       \/ /\ InjectionGoes(i, "none")
          /\ UNCHANGED copy
    /\ UNCHANGED <<template, recorded, health>>
    /\ InjectionKeeps

\* Faulty variant: the annotations are written after the pods were deleted.
InjectPatchesFirst(i) ==
    /\ injection[i] \in DOMAIN Sabotages
    /\ template' = [template EXCEPT ![Sabotages[injection[i]]] = "injected"]
    /\ \E to \in {"delete", "none"} : InjectionGoes(i, to)
    /\ copy' = [copy EXCEPT ![i] = NoRecord]
    /\ UNCHANGED <<recorded, health>>
    /\ InjectionKeeps

\* One patch writes the fault and the annotations.
InjectPatches(i) ==
    /\ injection[i] \in DOMAIN Sabotages
    /\ \/ /\ template' = [template EXCEPT ![Sabotages[injection[i]]] = "injected"]
          /\ recorded' = copy[i]
          /\ \E to \in {"delete", "none"} : InjectionGoes(i, to)
       \/ /\ InjectionGoes(i, "none")
          /\ UNCHANGED <<template, recorded>>
    /\ copy' = [copy EXCEPT ![i] = NoRecord]
    /\ UNCHANGED health
    /\ InjectionKeeps

\* Delete the pods that were there before.
InjectDeletes(i) ==
    /\ injection[i] = "delete"
    /\ \/ /\ health' = "degraded"
          /\ \E to \in {"injected", "none"} : InjectionGoes(i, to)
       \/ /\ InjectionGoes(i, "none")
          /\ UNCHANGED health
    /\ UNCHANGED <<template, recorded, copy>>
    /\ InjectionKeeps

(***************************************************************************)
(* _execute_sync.                                                          *)
(***************************************************************************)
ThreadGoes(t, to) == thread' = [thread EXCEPT ![t] = to]
ThreadKeeps == UNCHANGED <<recorded, injection>>

\* A thread is given an action to execute.
ActionStarts(t, a) ==
    /\ thread[t] \in Ended
    /\ ThreadGoes(t, a)
    /\ UNCHANGED <<template, recorded, health, injection, copy>>

\* _rollback and _clear_temporary_condition read the annotations, and raise if
\* there are none.
ActionReads(t) ==
    /\ thread[t] \in Restoring
    /\ \/ /\ recorded # NoRecord
          /\ ThreadGoes(t, "restore")
          /\ copy' = [copy EXCEPT ![t] = recorded]
       \/ /\ ThreadGoes(t, "raised")
          /\ UNCHANGED copy
    /\ UNCHANGED <<template, health>>
    /\ ThreadKeeps

\* Faulty variant: a recorded null is left out of the patch, so that the injected
\* command stays.
ActionRestoresSome(t) ==
    /\ thread[t] = "restore"
    /\ template' = [copy[t] EXCEPT !["command"] = template["command"]]
    /\ ThreadGoes(t, "done")
    /\ copy' = [copy EXCEPT ![t] = NoRecord]
    /\ UNCHANGED health
    /\ ThreadKeeps

\* They patch every field that was recorded.
ActionRestores(t) ==
    /\ thread[t] = "restore"
    /\ \/ /\ template' = copy[t]
          /\ \E to \in {"done", "raised"} : ThreadGoes(t, to)
       \/ /\ ThreadGoes(t, "raised")
          /\ UNCHANGED template
    /\ copy' = [copy EXCEPT ![t] = NoRecord]
    /\ UNCHANGED health
    /\ ThreadKeeps

\* _restart deletes one pod, scaling patches the number of replicas: neither
\* touches the template.
ActionDisrupts(t) ==
    /\ thread[t] \in SafeActions \ Restoring
    /\ \E to \in {"done", "raised"} : ThreadGoes(t, to)
    /\ \/ thread[t] = "restart_pod" /\ health' = "degraded"
       \/ UNCHANGED health
    /\ UNCHANGED <<template, copy>>
    /\ ThreadKeeps

(***************************************************************************)
(* The controllers of the cluster.                                         *)
(***************************************************************************)
\* Pods come to be what the template says.
Settle ==
    /\ health' = IF template = Original THEN "healthy" ELSE "degraded"
    /\ health' # health
    /\ UNCHANGED <<template, recorded, thread, injection, copy>>

\* Something else is wrong with the pods.
Degrade ==
    /\ health = "healthy"
    /\ health' = "degraded"
    /\ UNCHANGED <<template, recorded, thread, injection, copy>>

InjectionStep(i) == InjectPatches(i) \/ InjectDeletes(i)
ThreadStep(t) == ActionReads(t) \/ ActionRestores(t) \/ ActionDisrupts(t)

\* The HTTP handler is done with the injection (module Investigation).
InjectionOver(i) ==
    /\ injection[i] = "injected"
    /\ InjectionGoes(i, "none")
    /\ UNCHANGED <<template, recorded, health, copy>>
    /\ InjectionKeeps

ClusterNext ==
    \/ \E i \in Injectors :
          \/ \E s \in DOMAIN Sabotages : InjectReads(i, s)
          \/ InjectionStep(i)
          \/ InjectionOver(i)
    \/ \E t \in Threads :
          \/ \E a \in SafeActions : ActionStarts(t, a)
          \/ ThreadStep(t)
    \/ Settle
    \/ Degrade

ClusterSpec == ClusterInit /\ [][ClusterNext]_clusterVars

(***************************************************************************)
(* Properties.                                                             *)
(***************************************************************************)
\* A controlled incident can always be undone: once the template differs from the
\* original, the annotations hold the whole original, whichever calls failed on the
\* way and however many injections and actions overlapped.
FaultIsReversible == template # Original => recorded = Original

\* The record of the healthy template is never replaced or lost, not even by an
\* injection that finds the workload already sabotaged.
RecordIsKept == [][recorded # NoRecord => recorded' = recorded]_clusterVars

\* A repair is complete: no step takes away one fault and leaves another one, also
\* after several injections into different fields.
RepairIsComplete ==
    [][(\E f \in Fields : template[f] = "injected" /\ template'[f] = "original")
          => template' = Original]_clusterVars
=============================================================================
