---------------------------- MODULE SignalsProofs ----------------------------
(***************************************************************************)
(* Theorems about Signals for every observation: any number of events with *)
(* any texts, and any number of them shown.                                *)
(***************************************************************************)
EXTENDS Signals, FiniteSetTheorems, TLAPS

\* An observation is a health, a mode and a sequence of events.
THEOREM TypeCorrect == Spec => []TypeOK
<1>1. Init => TypeOK
  BY SignalsAssumption DEF Init, TypeOK
<1>2. TypeOK /\ [Next]_vars => TypeOK'
  <2> SUFFICES ASSUME TypeOK, [Next]_vars PROVE TypeOK'
    OBVIOUS
  <2>1. ASSUME NEW e \in Events, Observe(e) PROVE TypeOK'
    BY <2>1, SignalsAssumption DEF Observe, TypeOK
  <2> QED
    BY <2>1 DEF Next, TypeOK, vars
<1> QED
  BY <1>1, <1>2, PTL DEF Spec

----------------------------------------------------------------------------
(***************************************************************************)
(* Scores.                                                                 *)
(***************************************************************************)
\* A score is a number.
LEMMA ScoreIsInt == ASSUME NEW i \in DOMAIN events PROVE Score(i) \in Int
BY DEF Score, EventRelevance, Points, Base

\* Before a recovery is claimed, a primary signal scores at least 100: no lack of a
\* bonus for its age takes it below, and only two kinds of words together do, down to 95.
LEMMA PrimaryScores ==
    ASSUME NEW i \in DOMAIN events, mode # "recovery", Primary(i)
    PROVE  /\ Score(i) >= 95
           /\ \/ Score(i) >= 100
              \/ /\ ~ LooksCritical(events[i])
                 /\ LooksRecovered(events[i]) /\ Has(events[i], RoutineEvents)
<1> DEFINE e == events[i]
<1>1. ~ Outdated(e) /\ Base(e) = 100
  BY DEF Primary, Base
<1>2. Score(i) = 100 - Points(Has(e, RoutineEvents) /\ ~ LooksCritical(e), 20)
                     + Points(e.type = "warning", 35) + 25
                     - Points(LooksRecovered(e), 10) + Points(e.age = "recent", 10)
  BY <1>1 DEF Score, EventRelevance, Points
<1>3. LooksRecovered(e) /\ LooksCritical(e) => Score(i) >= 100
  BY <1>2 DEF Points
<1> QED
  BY <1>2, <1>3 DEF Points

\* Nothing else comes near.
LEMMA LesserScores ==
    ASSUME NEW i \in DOMAIN events, mode # "recovery", ~ Primary(i)
    PROVE  Score(i) < 95
<1>1. CASE Outdated(events[i])
  BY <1>1 DEF Score, EventRelevance
<1>2. CASE ~ Outdated(events[i])
  <2> DEFINE e == events[i]
  <2>1. ~ LooksCritical(e) /\ ~ IncidentCritical(e)
    BY <1>2 DEF Primary
  <2>2. e.type # "warning"
    BY <2>1 DEF LooksCritical
  <2>3. Base(e) \in Int /\ Base(e) <= 35
    BY <2>1, <2>2 DEF Base
  <2> QED
    BY <1>2, <2>1, <2>2, <2>3 DEF Score, EventRelevance, Points
<1> QED
  BY <1>1, <1>2

----------------------------------------------------------------------------
(***************************************************************************)
(* Ranks.                                                                  *)
(***************************************************************************)
\* Counting the key events makes sense.
LEMMA RelevantIsFinite ==
    ASSUME TypeOK
    PROVE  IsFiniteSet(Relevant) /\ Relevant \subseteq DOMAIN events
<1>1. DOMAIN events = 1..Len(events) /\ Len(events) \in Nat
  BY DEF TypeOK
<1>2. IsFiniteSet(1..Len(events))
  BY <1>1, FS_Interval
<1> QED
  BY <1>1, <1>2, FS_Subset DEF Relevant

\* So does counting those that rank before another one.
LEMMA PrecedingIsFinite ==
    ASSUME TypeOK, NEW i \in DOMAIN events
    PROVE  IsFiniteSet(Preceding(i)) /\ Cardinality(Preceding(i)) \in Nat
BY RelevantIsFinite, FS_Subset, FS_CardinalityType DEF Preceding

\* A relevant event that ranks before a key event is one.
LEMMA KeyEventsAreFirst ==
    ASSUME TypeOK, NEW i \in Relevant, NEW k \in KeyEvents, RanksBefore(i, k)
    PROVE  i \in KeyEvents
<1>1. Relevant \subseteq DOMAIN events /\ DOMAIN events \subseteq Nat /\ k \in Relevant
  BY RelevantIsFinite DEF TypeOK, KeyEvents
<1>2. \A n \in Relevant : Score(n) \in Int
  BY <1>1, ScoreIsInt
<1>3. Preceding(i) \subseteq Preceding(k)
  BY <1>1, <1>2 DEF Preceding, RanksBefore
<1>4. Cardinality(Preceding(i)) <= Cardinality(Preceding(k))
  BY <1>1, <1>3, PrecedingIsFinite, FS_Subset
<1>5. Cardinality(Preceding(k)) < Shown
  BY DEF KeyEvents
<1> QED
  BY <1>1, <1>4, <1>5, PrecedingIsFinite, SignalsAssumption DEF KeyEvents

----------------------------------------------------------------------------
(***************************************************************************)
(* What stands out.                                                        *)
(***************************************************************************)
\* Before a recovery is claimed, the primary signals are marked and come first.
THEOREM PrimaryCorrect == Spec => []PrimaryStandsOut
<1>1. TypeOK => PrimaryStandsOut
  <2> SUFFICES ASSUME TypeOK, mode # "recovery", NEW i \in DOMAIN events, NEW k \in DOMAIN events
               PROVE /\ Primary(i) =>
                           \/ Marked(i)
                           \/ /\ ~ LooksCritical(events[i])
                              /\ LooksRecovered(events[i]) /\ Has(events[i], RoutineEvents)
                     /\ Primary(i) /\ ~ Primary(k) =>
                           /\ k \in KeyEvents => i \in KeyEvents
                           /\ Marked(k) => events[k].type = "warning"
    BY DEF PrimaryStandsOut
  <2>1. ASSUME Primary(i), Score(i) >= 100 PROVE Marked(i)
    BY <2>1 DEF Marked
  <2>2. ASSUME Primary(i), ~ Primary(k), k \in KeyEvents PROVE i \in KeyEvents
    <3>1. Score(i) \in Int /\ Score(k) \in Int /\ Score(i) >= 95 /\ Score(k) < 95
      BY <2>2, ScoreIsInt, PrimaryScores, LesserScores
    <3>2. i \in Relevant
      BY <3>1 DEF Relevant, RecoveryProjection
    <3>3. RanksBefore(i, k)
      BY <3>1 DEF RanksBefore
    <3> QED
      BY <2>2, <3>2, <3>3, KeyEventsAreFirst
  <2>3. ASSUME ~ Primary(k), Marked(k) PROVE events[k].type = "warning"
    BY <2>3, ScoreIsInt, LesserScores DEF Marked
  <2> QED
    BY <2>1, <2>2, <2>3, PrimaryScores
<1> QED
  BY <1>1, TypeCorrect, PTL

\* The proof of a recovery hides what is critical for the incident, and shows what is
\* critical for the recovery as far as it fits.
THEOREM RecoveryCorrect == Spec => []RecoveryIsShown
<1>1. TypeOK => RecoveryIsShown
  <2> SUFFICES ASSUME TypeOK, RecoveryProjection, NEW i \in DOMAIN events
               PROVE /\ i \in KeyEvents => ~ IncidentCritical(events[i])
                     /\ RecoveryCritical(events[i]) =>
                           i \in KeyEvents \/ Cardinality(Relevant) > Shown
    BY DEF RecoveryIsShown
  <2>1. ASSUME i \in KeyEvents PROVE ~ IncidentCritical(events[i])
    BY <2>1 DEF KeyEvents, Relevant, RecoveryCritical
  <2>2. ASSUME RecoveryCritical(events[i]), i \notin KeyEvents PROVE Cardinality(Relevant) > Shown
    <3>1. Score(i) > 30
      <4>1. LooksRecovered(events[i]) /\ mode = "recovery"
        BY <2>2 DEF RecoveryCritical, LooksRecovered, Has, RecoveryProjection
      <4>2. ~ Outdated(events[i])
        BY <4>1 DEF Outdated
      <4>3. Base(events[i]) \in Int /\ Base(events[i]) >= 35
        BY <2>2 DEF Base
      <4> QED
        BY <4>1, <4>2, <4>3 DEF Score, EventRelevance, Points
    <3>2. i \in Relevant
      BY <2>2, <3>1 DEF Relevant
    <3>3. i \notin Preceding(i)
      BY ScoreIsInt DEF Preceding, RanksBefore, TypeOK
    <3>4. Cardinality(Preceding(i)) >= Shown
      BY <2>2, <3>2, PrecedingIsFinite, SignalsAssumption DEF KeyEvents
    <3>5. Cardinality(Preceding(i) \cup {i}) = Cardinality(Preceding(i)) + 1
      BY <3>3, PrecedingIsFinite, FS_AddElement
    <3>6. Preceding(i) \cup {i} \subseteq Relevant
      BY <3>2 DEF Preceding
    <3>7. Cardinality(Preceding(i) \cup {i}) <= Cardinality(Relevant)
      BY <3>6, RelevantIsFinite, FS_Subset
    <3>8. Cardinality(Relevant) \in Nat
      BY RelevantIsFinite, FS_CardinalityType
    <3> QED
      BY <3>4, <3>5, <3>7, <3>8, PrecedingIsFinite, SignalsAssumption
  <2> QED
    BY <2>1, <2>2
<1> QED
  BY <1>1, TypeCorrect, PTL
=============================================================================
