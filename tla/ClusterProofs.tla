--------------------------- MODULE ClusterProofs ---------------------------
(***************************************************************************)
(* Theorems about Cluster for every number of injecting and acting         *)
(* threads; the runs of Investigation have one injector.                   *)
(***************************************************************************)
EXTENDS Cluster, TLAPS

\* The layered invariant: no thread holds, or has written, anything but the original;
\* and before anything was recorded, nothing was sabotaged.
RecordInv ==
    /\ ClusterTypeOK
    /\ recorded \in {NoRecord, Original}
    /\ recorded = NoRecord => template = Original
    /\ \A i \in Injectors : injection[i] \in DOMAIN Sabotages => copy[i] = Original
    /\ \A t \in Threads : thread[t] = "restore" => copy[t] = Original

\* The domain and the range of the scenarios.
LEMMA SabotagesIsField ==
    /\ DOMAIN Sabotages = {"deployment_failure", "pod_crash", "rollout_failure"}
    /\ \A s \in DOMAIN Sabotages : Sabotages[s] \in Fields
BY DEF Sabotages, Fields

LEMMA OriginalIsTemplate == Original \in Templates /\ Original # NoRecord
BY ClusterAssumption DEF Original, Templates

\* Sabotaging a field of a template gives a template.
LEMMA SabotageIsTemplate ==
    ASSUME NEW s \in DOMAIN Sabotages, template \in Templates
    PROVE  [template EXCEPT ![Sabotages[s]] = "injected"] \in Templates
BY SabotagesIsField DEF Templates

THEOREM InitRecord == ClusterInit => RecordInv
BY SabotagesIsField, OriginalIsTemplate
   DEF ClusterInit, RecordInv, ClusterTypeOK, Records, Ended

\* Each step keeps the invariant: one case per operation.
THEOREM NextRecord == RecordInv /\ [ClusterNext]_clusterVars => RecordInv'
<1> SUFFICES ASSUME RecordInv, [ClusterNext]_clusterVars PROVE RecordInv'
  OBVIOUS
<1> USE SabotagesIsField, OriginalIsTemplate, ClusterAssumption DEF RecordInv, ClusterTypeOK, Records
<1>1. CASE UNCHANGED clusterVars
  BY <1>1 DEF clusterVars
<1>2. ASSUME NEW i \in Injectors, NEW s \in DOMAIN Sabotages, InjectReads(i, s) PROVE RecordInv'
  BY <1>2 DEF InjectReads, InjectionGoes, InjectionKeeps
<1>3. ASSUME NEW i \in Injectors, InjectPatches(i) PROVE RecordInv'
  <2> USE <1>3 DEF InjectPatches, InjectionKeeps
  <2>1. copy[i] = Original /\ injection[i] \in DOMAIN Sabotages
    OBVIOUS
  <2>2. template' \in Templates /\ recorded' \in {NoRecord, Original}
    BY <2>1, SabotageIsTemplate
  <2>3. recorded' = NoRecord => template' = Original
    BY <2>1
  <2>4. injection' \in [Injectors -> {"none", "delete", "injected"} \cup DOMAIN Sabotages]
    BY DEF InjectionGoes
  <2>5. \A k \in Injectors : injection'[k] \in DOMAIN Sabotages => copy'[k] = Original
    BY DEF InjectionGoes
  <2>6. \A t \in Threads : thread'[t] = "restore" => copy'[t] = Original
    OBVIOUS
  <2>7. copy' \in [Threads \cup Injectors -> Records]
    OBVIOUS
  <2> QED
    BY <2>2, <2>3, <2>4, <2>5, <2>6, <2>7
<1>4. ASSUME NEW i \in Injectors, InjectDeletes(i) PROVE RecordInv'
  BY <1>4 DEF InjectDeletes, InjectionGoes, InjectionKeeps
<1>5. ASSUME NEW i \in Injectors, InjectionOver(i) PROVE RecordInv'
  BY <1>5 DEF InjectionOver, InjectionGoes, InjectionKeeps
<1>6. ASSUME NEW t \in Threads, NEW a \in SafeActions, ActionStarts(t, a) PROVE RecordInv'
  BY <1>6 DEF ActionStarts, ThreadGoes, SafeActions, Restoring
<1>7. ASSUME NEW t \in Threads, ActionReads(t) PROVE RecordInv'
  BY <1>7 DEF ActionReads, ThreadGoes, ThreadKeeps, Restoring, Ended
<1>8. ASSUME NEW t \in Threads, ActionRestores(t) PROVE RecordInv'
  BY <1>8 DEF ActionRestores, ThreadGoes, ThreadKeeps, Ended
<1>9. ASSUME NEW t \in Threads, ActionDisrupts(t) PROVE RecordInv'
  BY <1>9 DEF ActionDisrupts, ThreadGoes, ThreadKeeps, Ended
<1>10. CASE Settle \/ Degrade
  BY <1>10 DEF Settle, Degrade
<1> QED
  BY <1>1, <1>2, <1>3, <1>4, <1>5, <1>6, <1>7, <1>8, <1>9, <1>10
     DEF ClusterNext, InjectionStep, ThreadStep

THEOREM RecordInvariant == ClusterSpec => []RecordInv
BY InitRecord, NextRecord, PTL DEF ClusterSpec

\* A controlled incident can always be undone (service.py:227-241).
THEOREM Reversible == ClusterSpec => []FaultIsReversible
<1>1. RecordInv => FaultIsReversible
  BY DEF RecordInv, FaultIsReversible
<1> QED
  BY <1>1, RecordInvariant, PTL

\* The record of the healthy template is written once (setdefault, service.py:228-231).
THEOREM RecordKept == ClusterSpec => RecordIsKept
<1>1. RecordInv /\ [ClusterNext]_clusterVars => [recorded # NoRecord => recorded' = recorded]_clusterVars
  <2> SUFFICES ASSUME RecordInv, ClusterNext, recorded # NoRecord PROVE recorded' = recorded
    BY DEF clusterVars
  <2>1. ASSUME NEW i \in Injectors, InjectPatches(i) PROVE recorded' = recorded
    BY <2>1 DEF InjectPatches, RecordInv
  <2> QED
    BY <2>1 DEF ClusterNext, InjectionStep, ThreadStep, InjectReads, InjectDeletes, InjectionOver,
         ActionStarts, ActionReads, ActionRestores, ActionDisrupts, ThreadKeeps, Settle, Degrade
<1> QED
  BY <1>1, RecordInvariant, PTL DEF ClusterSpec, RecordIsKept

\* A repair leaves no fault behind (service.py:298-359).
THEOREM RepairComplete == ClusterSpec => RepairIsComplete
<1> DEFINE Repairs == \E f \in Fields : template[f] = "injected" /\ template'[f] = "original"
<1>1. RecordInv /\ [ClusterNext]_clusterVars => [Repairs => template' = Original]_clusterVars
  <2> SUFFICES ASSUME RecordInv, ClusterNext, Repairs PROVE template' = Original
    BY DEF clusterVars
  <2>1. template' # template
    OBVIOUS
  <2>2. ASSUME NEW i \in Injectors, InjectPatches(i) PROVE FALSE
    BY <2>1, <2>2, SabotagesIsField DEF InjectPatches, RecordInv, ClusterTypeOK, Templates
  <2>3. ASSUME NEW t \in Threads, ActionRestores(t) PROVE template' = Original
    BY <2>1, <2>3 DEF ActionRestores, RecordInv
  <2> QED
    BY <2>1, <2>2, <2>3 DEF ClusterNext, InjectionStep, ThreadStep, InjectReads, InjectDeletes,
         InjectionOver, ActionStarts, ActionReads, ActionDisrupts, Settle, Degrade
<1> QED
  BY <1>1, RecordInvariant, PTL DEF ClusterSpec, RepairIsComplete
=============================================================================
