------------------------------- MODULE Signals -------------------------------
(***************************************************************************)
(* Which Kubernetes events the console puts before the operator.  The      *)
(* server gives each event of the workload a priority                      *)
(* (app/kubernetes/service.py, _event); the page scores it once more, by   *)
(* patterns of its own and by the place where the observation is shown,    *)
(* ranks the events, leaves some out and marks the primary signals         *)
(* (frontend/src/main.jsx, eventRelevance, rankKubernetesEvents,           *)
(* EventCards).                                                            *)
(*                                                                         *)
(* The text of an event is the set of the patterns that occur in it.       *)
(***************************************************************************)
EXTENDS Integers, Sequences, FiniteSets

CONSTANTS
    MaxEvents,  \* bound: the events of an observation (the server sends the last 20)
    Shown,      \* the events that are shown as key evidence (4 in the code)
    Texts       \* bound: the texts of events

\* "crashloop" is without "backoff", which is a "failed" to both sides.
\* "unhealthy" stands for "not ready" as well: each contains the word of a recovery.
\* "scaled up" is in the message of every ScalingReplicaSet that adds pods.
Patterns == {"failed", "unhealthy", "crashloop", "error", "started", "scaled up",
             "scalingreplicaset", "successfulcreate", "killing"}

ASSUME SignalsAssumption ==
    /\ MaxEvents \in Nat /\ Shown \in Nat \ {0}
    /\ Texts \subseteq SUBSET Patterns

\* type is Normal or Warning in Kubernetes.  age is that of the event when it was
\* observed: less than 5 minutes, more than 15, or something else.  An event that the
\* server sends involves the workload or something called after it.
Events == [type : {"normal", "warning"}, text : Texts, age : {"recent", "old", "stale"}]

\* The mode of EventCards, by the title of the Observation: "Fault observed", "After
\* operation", and "Latest observation" or "Kubernetes API".
Modes == {"incident", "recovery", "current"}

VARIABLES
    mode, health,   \* where the observation is shown, and what it says of the workload
    events          \* its events, in the server's order

vars == <<mode, health, events>>

TypeOK ==
    /\ mode \in Modes
    /\ health \in {"healthy", "degraded"}
    /\ events \in Seq(Events) /\ Len(events) <= MaxEvents

Init ==
    /\ mode \in Modes
    /\ health \in {"healthy", "degraded"}
    /\ events = <<>>

\* The observation has one more event.
Observe(e) ==
    /\ Len(events) < MaxEvents
    /\ events' = Append(events, e)
    /\ UNCHANGED <<mode, health>>

----------------------------------------------------------------------------
(***************************************************************************)
(* The server's priority.                                                  *)
(***************************************************************************)
Has(e, patterns) == e.text \cap patterns # {}

IncidentCritical(e) == e.type = "warning" \/ Has(e, {"failed", "unhealthy", "crashloop"})
RecoveryCritical(e) == ~ IncidentCritical(e) /\ Has(e, {"started"})

RoutineEvents == {"scalingreplicaset", "successfulcreate", "killing"}
Routine(e) == ~ IncidentCritical(e) /\ ~ RecoveryCritical(e) /\ Has(e, RoutineEvents)

----------------------------------------------------------------------------
(***************************************************************************)
(* The page's score.                                                       *)
(***************************************************************************)
LooksCritical(e) == e.type = "warning" \/ Has(e, {"failed", "unhealthy", "error"})
LooksRecovered(e) == Has(e, {"unhealthy", "started", "successfulcreate", "scaled up"})

\* An incident of the past: the workload is healthy now.
Outdated(e) ==
    mode = "current" /\ health = "healthy" /\ e.age = "stale" /\ LooksCritical(e)

Points(condition, n) == IF condition THEN n ELSE 0

Base(e) ==
    IF IncidentCritical(e) \/ LooksCritical(e) THEN 100
    ELSE IF RecoveryCritical(e) \/ LooksRecovered(e) THEN 35
    ELSE IF Routine(e) THEN -10 ELSE 10

\* Faulty variant: a recovery counts for more wherever it is shown.
BoostedRelevance(e) ==
    IF Outdated(e) THEN -5
    ELSE Base(e)
         - Points(Has(e, RoutineEvents) /\ ~ LooksCritical(e), 20)
         + Points(e.type = "warning", 35)
         + 25
         + (IF LooksRecovered(e) THEN 70 ELSE Points(mode = "recovery" /\ LooksCritical(e), 25))
         + Points(e.age = "recent", 10)

\* 25 points are for the workload, see Events.
EventRelevance(e) ==
    IF Outdated(e) THEN -5
    ELSE Base(e)
         - Points(Has(e, RoutineEvents) /\ ~ LooksCritical(e), 20)
         + Points(e.type = "warning", 35)
         + 25
         + (IF mode = "recovery"
            THEN IF LooksRecovered(e) THEN 70 ELSE Points(LooksCritical(e), 25)
            ELSE - Points(LooksRecovered(e), 10))
         + Points(e.age = "recent", 10)

----------------------------------------------------------------------------
(***************************************************************************)
(* What EventCards shows.                                                  *)
(***************************************************************************)
Score(i) == EventRelevance(events[i])

\* The order of rankKubernetesEvents: of two equal scores, the later event comes first.
RanksBefore(i, k) == Score(i) > Score(k) \/ (Score(i) = Score(k) /\ i > k)

RecoveryProjection == mode = "recovery" /\ health = "healthy"

\* Faulty variant: the priority of a recent event does not matter.
RelevantRecent ==
    {i \in DOMAIN events :
       /\ Score(i) > 30
       /\ RecoveryProjection => RecoveryCritical(events[i]) \/ events[i].age = "recent"}

\* The filter of keyEvents.
Relevant ==
    {i \in DOMAIN events :
       /\ Score(i) > 30
       /\ RecoveryProjection =>
             \/ RecoveryCritical(events[i])
             \/ events[i].age = "recent" /\ ~ IncidentCritical(events[i])}

Preceding(i) == {k \in Relevant : RanksBefore(k, i)}

\* The first ones of the relevant events.
KeyEvents == {i \in Relevant : Cardinality(Preceding(i)) < Shown}

\* The row of an event has a "!", and calls it a primary signal.
Marked(i) == Score(i) >= 100 \/ events[i].type = "warning"

----------------------------------------------------------------------------
Next == \E e \in Events : Observe(e)

Spec == Init /\ [][Next]_vars

(***************************************************************************)
(* Properties.                                                             *)
(***************************************************************************)
Primary(i) ==
    /\ IncidentCritical(events[i]) \/ LooksCritical(events[i])
    /\ ~ Outdated(events[i])

\* Before a recovery is claimed, what the server calls critical for the incident, or the
\* page does, stands out: unless the workload has recovered since, it is among the key
\* evidence if any lesser event is, and no lesser event is marked, whatever bonus for its
\* age or its words that event has.  It is marked itself, unless it is critical to the
\* server only and has the words of a routine event and of a recovery against it.
PrimaryStandsOut ==
    mode # "recovery" =>
       \A i, k \in DOMAIN events :
          /\ Primary(i) =>
                \/ Marked(i)
                \/ /\ ~ LooksCritical(events[i])
                   /\ LooksRecovered(events[i]) /\ Has(events[i], RoutineEvents)
          /\ Primary(i) /\ ~ Primary(k) => /\ k \in KeyEvents => i \in KeyEvents
                                           /\ Marked(k) => events[k].type = "warning"

\* The proof of a recovery shows nothing that the server calls critical for the
\* incident, and it leaves out an event that the server calls critical for the
\* recovery only if there are more of the relevant ones than fit.
RecoveryIsShown ==
    RecoveryProjection =>
       \A i \in DOMAIN events :
          /\ i \in KeyEvents => ~ IncidentCritical(events[i])
          /\ RecoveryCritical(events[i]) =>
                i \in KeyEvents \/ Cardinality(Relevant) > Shown
=============================================================================
