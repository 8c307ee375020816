-------------------------- MODULE ClusterViewProofs --------------------------
(***************************************************************************)
(* Theorems about ClusterView for every number of inspections, changes of  *)
(* the cluster and configurations.                                         *)
(***************************************************************************)
EXTENDS ClusterView, TLAPS

\* An inspection that has not been made has no answer, and no answer to one says that
\* the cluster is offline.
ReadsInv ==
    \A i \in Reads :
       /\ stage[i] = "new" => got[i] = Nothing
       /\ stage[i] = "observation" => got[i].kind # "offline"

\* How far the injection is, and what it has seen.
ChangeInv ==
    /\ request.stage \in {"captured", "injected", "accepted"} =>
          request.before.kind = "connected" /\ request.before.at <= now
    /\ request.stage = "injected" => request.before.at < now
    /\ request.stage = "accepted" =>
          /\ request.seen.kind = "connected" /\ request.seen.health = "degraded"
          /\ request.before.at < request.seen.at
    /\ ChangeIsReal

\* The undisturbed inspection is alone, and has an answer that is still true.
Undisturbed ==
    /\ stage[latest] \in {"observation", "summary", "done"}
    /\ \A i \in Reads \ {latest} : stage[i] \in {"new", "done"}
    /\ ~ Busy
    /\ got[latest] # Nothing => got[latest] = AnswerTo(stage[latest])
    /\ stage[latest] = "summary" => Configured /\ Answering /\ observation = Workload
    /\ UndisturbedIsTrue

UndisturbedInv == latest # Mount => Undisturbed

Inv == TypeOK /\ ReadsInv /\ ChangeInv /\ UndisturbedInv

----------------------------------------------------------------------------
(***************************************************************************)
(* Values.                                                                 *)
(***************************************************************************)
\* Whatever is said of the cluster is a payload.
LEMMA SaysType ==
    ASSUME NEW kind \in {"none", "lost", "refused", "empty", "offline", "connected"}
    PROVE  Says(kind) \in Payloads /\ Says(kind).kind = kind
BY ClusterViewAssumption DEF Says, Payloads

\* So is the workload.
LEMMA WorkloadType ==
    ASSUME TypeOK
    PROVE  /\ Workload \in Payloads /\ Workload.kind = "connected"
           /\ Workload.at = now /\ Workload.health = health
BY DEF Workload, Payloads, TypeOK

\* Nothing is nothing.
LEMMA NothingType == Nothing \in Payloads /\ Nothing.kind = "none"
BY SaysType DEF Nothing

\* The answers to a read.
LEMMA AnswerType ==
    ASSUME TypeOK, NEW question \in {"ready", "observation", "summary"}
    PROVE  /\ AnswerTo(question) \in Payloads
           /\ question = "observation" => AnswerTo(question).kind \in {"refused", "connected"}
<1>1. CASE question = "ready"
  BY <1>1, SaysType DEF AnswerTo
<1>2. CASE question = "observation"
  BY <1>2, SaysType, WorkloadType DEF AnswerTo
<1>3. CASE question = "summary"
  BY <1>3, SaysType DEF AnswerTo
<1> QED
  BY <1>1, <1>2, <1>3

----------------------------------------------------------------------------
(***************************************************************************)
(* Types.                                                                  *)
(***************************************************************************)
\* The first state.
LEMMA InitInv == Init => Inv
<1> SUFFICES ASSUME Init PROVE Inv
  OBVIOUS
<1>1. TypeOK
  <2>1. now \in 0..MaxChanges /\ latest \in Reads
    BY ClusterViewAssumption DEF Init, Reads
  <2>2. stage \in [Reads -> {"new", "ready", "observation", "summary", "done"}]
        /\ got \in [Reads -> Payloads]
    BY NothingType DEF Init
  <2>3. /\ request \in [stage : Served \cup {"idle", "following", "shown"},
                        before : Payloads, seen : Payloads]
        /\ request.seen.kind \in {"none", "empty", "connected"}
    BY NothingType DEF Init, NoRequest
  <2>4. incidentProof \in [before : Payloads, after : Payloads]
    BY NothingType DEF Init
  <2> QED
    BY <2>1, <2>2, <2>3, <2>4, NothingType DEF Init, TypeOK
<1>2. ReadsInv
  BY NothingType DEF Init, ReadsInv
<1>3. ChangeInv /\ UndisturbedInv
  BY NothingType DEF Init, ChangeInv, UndisturbedInv, ChangeIsReal, ChangeShown, NoRequest
<1> QED
  BY <1>1, <1>2, <1>3 DEF Inv

\* The reads keep the types: no observation says that the cluster is offline.
LEMMA ReadTypes ==
    ASSUME TypeOK, ReadsInv, NEW i \in Reads,
           Answers(i) \/ ReadyArrives \/ Inspect(i) \/ ObservationArrives(i) \/ SummaryArrives(i)
    PROVE  TypeOK'
<1> USE DEF TypeOK, worldVars, readVars, pageVars
<1>1. ASSUME Answers(i) PROVE TypeOK'
  <2>1. PICK answer \in {AnswerTo(stage[i]), Says("lost"), Says("empty")} :
             /\ got' = [got EXCEPT ![i] = answer]
             /\ latest' = IF answer = AnswerTo(stage[i]) THEN latest ELSE Mount
    BY <1>1 DEF Answers
  <2>2. answer \in Payloads
    BY <1>1, <2>1, AnswerType, SaysType DEF Answers
  <2> QED
    BY <1>1, <2>1, <2>2 DEF Answers, Reads
<1>2. ASSUME ReadyArrives PROVE TypeOK'
  BY <1>2, NothingType, ClusterViewAssumption DEF ReadyArrives, Arrives, HeaderSays, Reads
<1>3. ASSUME Inspect(i) PROVE TypeOK'
  BY <1>3 DEF Inspect, Reads
<1>4. ASSUME ObservationArrives(i) PROVE TypeOK'
  <2>1. got[i] \in Payloads /\ got[i].kind # "offline"
    BY <1>4 DEF ObservationArrives, ReadsInv
  <2> QED
    BY <1>4, <2>1, NothingType DEF ObservationArrives, Arrives, HeaderSays, Payloads
<1>5. ASSUME SummaryArrives(i) PROVE TypeOK'
  BY <1>5, NothingType DEF SummaryArrives, Arrives, HeaderSays, Payloads
<1> QED
  BY <1>1, <1>2, <1>3, <1>4, <1>5

\* What the page does with an injection and its other requests.
PageAction ==
    \/ BeginInjection \/ CancelInjection \/ Inject
    \/ AcceptedArrives \/ RefusalArrives
    \/ Report \/ Approve \/ ResultArrives \/ JobFails \/ Reset

\* What happens to the cluster.
WorldChange == WorkloadChanges \/ ConnectionChanges

\* What the server does with an injection.
ServerAction == Captures \/ Injects \/ Submits \/ Refuses

Requests == [stage : Served \cup {"idle", "following", "shown"}, before : Payloads, seen : Payloads]

\* So do the injections and the other requests.
LEMMA RequestTypes ==
    ASSUME TypeOK, PageAction \/ ServerAction
    PROVE  TypeOK'
<1> USE DEF worldVars, readVars, pageVars, PageStays, RequestOnly
<1>0. /\ request \in Requests /\ request.seen.kind \in {"none", "empty", "connected"}
      /\ \A stg \in Served \cup {"idle", "following", "shown"} :
            NoRequest(stg) \in Requests /\ NoRequest(stg).seen.kind = "none"
      /\ Mount \in Reads
  BY NothingType DEF TypeOK, Requests, NoRequest, Reads
<1>1. ASSUME BeginInjection \/ CancelInjection PROVE TypeOK'
  BY <1>1 DEF BeginInjection, CancelInjection, TypeOK
<1>2. ASSUME Inject PROVE TypeOK'
  <2>1. request' \in Requests /\ request'.seen.kind \in {"none", "empty", "connected"}
    BY <1>0, <1>2 DEF Inject, Served
  <2> QED
    BY <1>0, <1>2, <2>1 DEF Inject, TypeOK, Requests
<1>3. ASSUME AcceptedArrives PROVE TypeOK'
  <2>1. request' \in Requests /\ request'.seen = request.seen
    BY <1>0, <1>3, NothingType DEF AcceptedArrives, Requests
  <2>2. incidentProof' \in [before : Payloads, after : Payloads]
    BY <1>0, <1>3 DEF AcceptedArrives, Requests
  <2> QED
    BY <1>0, <1>3, <2>1, <2>2 DEF AcceptedArrives, TypeOK, Requests
<1>4. ASSUME ResultArrives PROVE TypeOK'
  <2>1. request' \in Requests /\ request'.seen = request.seen
    BY <1>0, <1>4 DEF ResultArrives, RequestGoes, Requests
  <2> QED
    BY <1>0, <1>4, <2>1 DEF ResultArrives, TypeOK, Requests
<1>5. ASSUME RefusalArrives \/ JobFails PROVE TypeOK'
  BY <1>0, <1>5 DEF RefusalArrives, JobFails, TypeOK, Requests
<1>6. ASSUME Reset PROVE TypeOK'
  BY <1>0, <1>6, NothingType DEF Reset, TypeOK, Requests
<1>7. ASSUME Report PROVE TypeOK'
  <2>1. request' \in Requests /\ request'.seen.kind = "empty"
    BY <1>7, NothingType, SaysType DEF Report, Requests, NoRequest
  <2> QED
    BY <1>0, <1>7, <2>1 DEF Report, TypeOK, Requests
<1>8. ASSUME Approve PROVE TypeOK'
  <2>1. request' \in Requests /\ request'.seen = request.seen
    BY <1>0, <1>8 DEF Approve, RequestGoes, Requests
  <2> QED
    BY <1>0, <1>8, <2>1 DEF Approve, TypeOK, Requests
<1>9. ASSUME Captures PROVE TypeOK'
  <2>1. request' \in Requests /\ request'.seen = request.seen
    BY <1>0, <1>9, WorkloadType DEF Captures, Requests, Served
  <2> QED
    BY <1>0, <1>9, <2>1 DEF Captures, TypeOK, Requests
<1>10. ASSUME Injects PROVE TypeOK'
  <2>1. request' \in Requests /\ request'.seen.kind \in {"none", "empty", "connected"}
    BY <1>0, <1>10 DEF Injects, RequestGoes, Requests, Served
  <2>2. now' \in 0..MaxChanges
    BY <1>10, ClusterViewAssumption DEF Injects, TypeOK
  <2> QED
    BY <1>10, <2>1, <2>2 DEF Injects, TypeOK, Requests
<1>11. ASSUME Submits PROVE TypeOK'
  <2>1. request' \in Requests /\ request'.seen = Workload
    BY <1>0, <1>11, WorkloadType DEF Submits, Requests, Served
  <2> QED
    BY <1>11, <2>1, WorkloadType DEF Submits, TypeOK, Requests
<1>12. ASSUME Refuses PROVE TypeOK'
  BY <1>0, <1>12 DEF Refuses, TypeOK, Requests, Served
<1> QED
  BY <1>1, <1>2, <1>3, <1>4, <1>5, <1>6, <1>7, <1>8, <1>9, <1>10, <1>11, <1>12
     DEF PageAction, ServerAction

\* So does every step.
LEMMA TypeStep ==
    ASSUME TypeOK, ReadsInv, [Next]_vars
    PROVE  TypeOK'
<1>1. ASSUME WorldChange PROVE TypeOK'
  <2>1. now' \in 0..MaxChanges /\ latest' \in Reads
    BY <1>1, ClusterViewAssumption
       DEF WorldChange, WorkloadChanges, ConnectionChanges, Changes, TypeOK, Reads
  <2>2. health' \in {"healthy", "degraded"} /\ reachable' \in BOOLEAN
    BY <1>1 DEF WorldChange, WorkloadChanges, ConnectionChanges, TypeOK
  <2>3. UNCHANGED <<profile, stage, got, header, mode, cluster, observation, incidentProof,
                    confirming, request>>
    BY <1>1 DEF WorldChange, WorkloadChanges, ConnectionChanges, readVars, pageVars
  <2> QED
    BY <2>1, <2>2, <2>3 DEF TypeOK
<1>2. ASSUME UNCHANGED vars PROVE TypeOK'
  BY <1>2 DEF TypeOK, vars, worldVars, readVars, pageVars
<1>3. ASSUME ReadyArrives PROVE TypeOK'
  BY <1>3, ReadTypes DEF Reads
<1>4. ASSUME NEW i \in Reads, ReadStep(i) \/ (i \in Inspections /\ Inspect(i)) PROVE TypeOK'
  BY <1>4, ReadTypes DEF ReadStep
<1> QED
  BY <1>1, <1>2, <1>3, <1>4, RequestTypes DEF Next, WorldChange, PageAction, ServerAction, Reads

----------------------------------------------------------------------------
(***************************************************************************)
(* Reads.                                                                  *)
(***************************************************************************)
\* Every step keeps what an inspection has been told.
LEMMA ReadsStep ==
    ASSUME TypeOK, ReadsInv, [Next]_vars
    PROVE  ReadsInv'
<1> USE DEF ReadsInv, worldVars, readVars, pageVars
<1>1. ASSUME NEW i \in Reads, Answers(i) PROVE ReadsInv'
  <2>1. PICK answer \in {AnswerTo(stage[i]), Says("lost"), Says("empty")} :
             got' = [got EXCEPT ![i] = answer]
    BY <1>1 DEF Answers
  <2>2. stage[i] = "observation" => answer.kind # "offline"
    BY <2>1, AnswerType, SaysType
  <2> QED
    BY <1>1, <2>1, <2>2 DEF Answers, TypeOK
<1>2. ASSUME NEW i \in Reads, NEW to \in {"summary", "done"}, Arrives(i, to) PROVE ReadsInv'
  BY <1>2, NothingType DEF Arrives, TypeOK
<1>3. ASSUME NEW i \in Inspections, Inspect(i) PROVE ReadsInv'
  BY <1>3, NothingType DEF Inspect, TypeOK, Reads
<1>4. ASSUME WorkloadChanges \/ ConnectionChanges \/ UNCHANGED vars PROVE ReadsInv'
  BY <1>4 DEF WorkloadChanges, ConnectionChanges, vars
<1>5. ASSUME PageAction \/ ServerAction PROVE ReadsInv'
  BY <1>5 DEF PageAction, ServerAction, BeginInjection, CancelInjection, Inject, AcceptedArrives,
     RefusalArrives, Report, Approve, ResultArrives, JobFails, Reset, Captures, Injects, Submits,
     Refuses, RequestOnly
<1> QED
  BY <1>1, <1>2, <1>3, <1>4, <1>5
     DEF Next, ReadStep, ReadyArrives, ObservationArrives, SummaryArrives, PageAction,
         ServerAction, Reads

----------------------------------------------------------------------------
(***************************************************************************)
(* Injections.                                                             *)
(***************************************************************************)
\* Every step keeps how far the injection is: the baseline comes before the fault.
LEMMA ChangeStep ==
    ASSUME TypeOK, ChangeInv, [Next]_vars
    PROVE  ChangeInv'
<1> USE DEF ChangeInv, ChangeIsReal, ChangeShown, worldVars, pageVars, PageStays, NoRequest,
            RequestGoes, RequestOnly
<1>1. ASSUME NEW i \in Reads, Answers(i) \/ Inspect(i) \/ (\E to \in {"summary", "done"} : Arrives(i, to))
      PROVE ChangeInv'
  BY <1>1 DEF Answers, Inspect, Arrives
<1>2. ASSUME WorkloadChanges \/ ConnectionChanges \/ UNCHANGED vars PROVE ChangeInv'
  <2>1. now \in Nat /\ now <= now' /\ request' = request /\ incidentProof' = incidentProof
    BY <1>2, ClusterViewAssumption DEF WorkloadChanges, ConnectionChanges, Changes, vars, TypeOK
  <2>2. request.before.at \in Nat /\ now' \in Nat
    BY <1>2, <2>1, ClusterViewAssumption
       DEF TypeOK, Payloads, WorkloadChanges, ConnectionChanges, Changes, vars
  <2> QED
    BY <2>1, <2>2
<1>3. ASSUME BeginInjection \/ CancelInjection PROVE ChangeInv'
  BY <1>3 DEF BeginInjection, CancelInjection
<1>4. ASSUME Inject PROVE ChangeInv'
  BY <1>4 DEF Inject
<1>5. ASSUME Report \/ RefusalArrives \/ JobFails \/ Refuses PROVE ChangeInv'
  BY <1>5 DEF Report, RefusalArrives, JobFails, Refuses
<1>6. ASSUME Approve \/ ResultArrives PROVE ChangeInv'
  BY <1>6 DEF Approve, ResultArrives, TypeOK
<1>7. ASSUME Reset PROVE ChangeInv'
  BY <1>7, NothingType DEF Reset
<1>8. ASSUME AcceptedArrives PROVE ChangeInv'
  BY <1>8 DEF AcceptedArrives, TypeOK
<1>9. ASSUME Captures PROVE ChangeInv'
  BY <1>9, WorkloadType, ClusterViewAssumption DEF Captures, TypeOK
<1>10. ASSUME Injects PROVE ChangeInv'
  BY <1>10, ClusterViewAssumption DEF Injects, TypeOK, Payloads
<1>11. ASSUME Submits PROVE ChangeInv'
  BY <1>11, WorkloadType DEF Submits, TypeOK
<1> QED
  BY <1>1, <1>2, <1>3, <1>4, <1>5, <1>6, <1>7, <1>8, <1>9, <1>10, <1>11
     DEF Next, ReadStep, ReadyArrives, ObservationArrives, SummaryArrives, Reads, Mount

----------------------------------------------------------------------------
(***************************************************************************)
(* The undisturbed inspection.                                             *)
(***************************************************************************)
\* Its answers arrive before anything else can change what the page shows.
LEMMA UndisturbedRead ==
    ASSUME Inv, NEW i \in Reads, ReadStep(i)
    PROVE  UndisturbedInv'
<1> USE DEF Inv, UndisturbedInv, Undisturbed, worldVars, readVars, pageVars, Busy, Configured, Answering
<1>1. ASSUME Answers(i) PROVE UndisturbedInv'
  <2>1. PICK answer \in {AnswerTo(stage[i]), Says("lost"), Says("empty")} :
             /\ got' = [got EXCEPT ![i] = answer]
             /\ latest' = IF answer = AnswerTo(stage[i]) THEN latest ELSE Mount
    BY <1>1 DEF Answers
  <2> SUFFICES ASSUME latest' # Mount
               PROVE  Undisturbed'
    OBVIOUS
  <2>2. latest' = latest /\ latest # Mount /\ i = latest /\ got'[latest] = AnswerTo(stage[latest])
    BY <1>1, <2>1 DEF Answers, TypeOK
  <2>3. AnswerTo(stage[latest])' = AnswerTo(stage[latest])
    BY <1>1 DEF Answers, AnswerTo, Workload
  <2>4. UndisturbedIsTrue'
    BY <1>1, <2>2 DEF Answers, UndisturbedIsTrue
  <2> QED
    BY <1>1, <2>2, <2>3, <2>4 DEF Answers, Workload
<1>2. ASSUME ObservationArrives(i) PROVE UndisturbedInv'
  <2> SUFFICES ASSUME latest' # Mount
               PROVE  Undisturbed'
    OBVIOUS
  <2>1. latest' = latest /\ i = latest /\ got[i] = AnswerTo("observation")
    BY <1>2 DEF ObservationArrives, Arrives, TypeOK
  <2>2. /\ Configured /\ Answering => got[i] = Workload /\ got[i].kind = "connected"
        /\ ~ (Configured /\ Answering) => got[i].kind = "refused"
    BY <2>1, WorkloadType, SaysType DEF AnswerTo
  <2>3. /\ got' = [got EXCEPT ![i] = Nothing] /\ UNCHANGED <<worldVars, request>>
        /\ HeaderSays(got[i])
    BY <1>2 DEF ObservationArrives, Arrives
  <2>4. CASE Configured /\ Answering
    <3>1. stage' = [stage EXCEPT ![i] = "summary"] /\ observation' = got[i]
      BY <1>2, <2>2, <2>4 DEF ObservationArrives, Arrives
    <3> QED
      BY <2>1, <2>2, <2>3, <2>4, <3>1 DEF UndisturbedIsTrue, Workload, TypeOK
  <2>5. CASE ~ (Configured /\ Answering)
    <3>1. stage' = [stage EXCEPT ![i] = "done"] /\ header' = "offline"
      BY <1>2, <2>2, <2>3, <2>5 DEF ObservationArrives, Arrives, HeaderSays
    <3> QED
      BY <2>1, <2>3, <2>5, <3>1 DEF UndisturbedIsTrue, SimulationEnabled, TypeOK
  <2> QED
    BY <2>4, <2>5
<1>3. ASSUME SummaryArrives(i) PROVE UndisturbedInv'
  <2> SUFFICES ASSUME latest' # Mount
               PROVE  Undisturbed'
    OBVIOUS
  <2>1. latest' = latest /\ i = latest /\ got[i] = AnswerTo("summary")
    BY <1>3 DEF SummaryArrives, Arrives, TypeOK
  <2>2. Configured /\ Answering /\ observation = Workload /\ got[i].kind = "connected"
    BY <1>3, <2>1, SaysType DEF SummaryArrives, AnswerTo
  <2>3. /\ got' = [got EXCEPT ![i] = Nothing] /\ stage' = [stage EXCEPT ![i] = "done"]
        /\ UNCHANGED <<worldVars, request, observation>> /\ header' = "connected"
    BY <1>3, <2>2 DEF SummaryArrives, Arrives, HeaderSays
  <2>4. Workload' = Workload /\ Workload.kind = "connected" /\ Workload.health = health
    BY <2>3, WorkloadType DEF Workload
  <2>5. Connected' /\ HealthShown' = health' /\ health' \in {"healthy", "degraded"}
    BY <2>2, <2>3, <2>4 DEF Connected, HealthShown, TypeOK
  <2>6. HealthHero' = IF health' = "healthy" THEN "healthy" ELSE "unhealthy"
    BY <2>5 DEF HealthHero
  <2>7. UndisturbedIsTrue'
    BY <2>2, <2>3, <2>4, <2>5, <2>6 DEF UndisturbedIsTrue, SimulationEnabled
  <2> QED
    BY <2>1, <2>2, <2>3, <2>4, <2>7 DEF TypeOK
<1> QED
  BY <1>1, <1>2, <1>3 DEF ReadStep

\* Every step keeps the undisturbed inspection, or disturbs it.
LEMMA UndisturbedStep ==
    ASSUME Inv, [Next]_vars
    PROVE  UndisturbedInv'
<1> USE DEF Inv, UndisturbedInv, Undisturbed, worldVars, readVars, pageVars, PageStays
<1>1. ASSUME NEW i \in Inspections, Inspect(i) PROVE UndisturbedInv'
  BY <1>1 DEF Inspect, ReadsInv, TypeOK, UndisturbedIsTrue, Reads, Inspections, Mount, Busy
<1>2. ASSUME ReadyArrives PROVE UndisturbedInv'
  BY <1>2 DEF ReadyArrives, Arrives, Reads, TypeOK
<1>3. ASSUME WorldChange \/ Inject \/ Report \/ Approve \/ ResultArrives PROVE UndisturbedInv'
  BY <1>3 DEF WorldChange, WorkloadChanges, ConnectionChanges, Changes, Inject, Report, Approve,
     ResultArrives
<1>4. ASSUME AcceptedArrives \/ RefusalArrives \/ JobFails \/ ServerAction PROVE UndisturbedInv'
  <2>1. Busy /\ latest' = latest
    BY <1>4 DEF AcceptedArrives, RefusalArrives, JobFails, ServerAction, Captures, Injects,
       Submits, Refuses, RequestOnly, Busy, Served
  <2> QED
    BY <2>1
<1>5. ASSUME \/ BeginInjection \/ CancelInjection \/ Reset \/ UNCHANGED vars
      PROVE UndisturbedInv'
  <2>1. /\ UNCHANGED <<worldVars, readVars, header, mode, cluster, observation, latest>>
        /\ request' = request \/ request' = NoRequest("idle")
    BY <1>5 DEF BeginInjection, CancelInjection, Reset, vars
  <2>2. ~ Busy => ~ Busy'
    BY <2>1 DEF Busy, Served, NoRequest
  <2>3. UndisturbedIsTrue => UndisturbedIsTrue'
    BY <2>1 DEF UndisturbedIsTrue, Configured, Answering, Workload, HealthHero, HealthShown,
       Connected, SimulationEnabled
  <2> QED
    BY <2>1, <2>2, <2>3 DEF Configured, Answering, Workload, AnswerTo
<1> QED
  BY <1>1, <1>2, <1>3, <1>4, <1>5, UndisturbedRead
     DEF Next, WorldChange, ServerAction

----------------------------------------------------------------------------
(***************************************************************************)
(* Theorems.                                                               *)
(***************************************************************************)
\* The inductive invariant.
LEMMA Invariance == Spec => []Inv
<1>1. Inv /\ [Next]_vars => Inv'
  BY TypeStep, ReadsStep, ChangeStep, UndisturbedStep DEF Inv
<1> QED
  BY InitInv, <1>1, PTL DEF Spec

\* The page, the answers under way and the request always have their types.
THEOREM TypeCorrect == Spec => []TypeOK
<1>1. Inv => TypeOK
  BY DEF Inv
<1> QED
  BY Invariance, <1>1, PTL

\* However many inspections overlap the injection, and however often the workload
\* changes meanwhile, "What changed?" shows the workload before and after the fault.
THEOREM ChangeCorrect == Spec => []ChangeIsReal
<1>1. Inv => ChangeIsReal
  BY DEF Inv, ChangeInv
<1> QED
  BY Invariance, <1>1, PTL

\* An inspection that nothing disturbed leaves a page that is true of the cluster.
THEOREM UndisturbedCorrect == Spec => []UndisturbedIsTrue
<1>1. Inv => UndisturbedIsTrue
  BY DEF Inv, UndisturbedInv, Undisturbed, UndisturbedIsTrue
<1> QED
  BY Invariance, <1>1, PTL

=============================================================================
