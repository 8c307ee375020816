--------------------------- MODULE ConsoleProofs ---------------------------
(***************************************************************************)
(* Proofs about Console: for any number of requests and any queue.         *)
(***************************************************************************)
EXTENDS Console, SequenceTheorems, TLAPS

LEMMA NoneIsNoRequest == None \notin Requests
  BY DEF None, Requests

----------------------------------------------------------------------------
(***************************************************************************)
(* The types, action by action.                                            *)
(***************************************************************************)
\* Leaving one element out of a sequence.
LEMMA Removal ==
    ASSUME NEW S, NEW s \in Seq(S), NEW i \in 1..Len(s)
    PROVE  /\ SubSeq(s, 1, i - 1) \o SubSeq(s, i + 1, Len(s)) \in Seq(S)
           /\ Len(SubSeq(s, 1, i - 1) \o SubSeq(s, i + 1, Len(s))) = Len(s) - 1
           /\ \A k \in 1..(Len(s) - 1) :
                (SubSeq(s, 1, i - 1) \o SubSeq(s, i + 1, Len(s)))[k] = IF k < i THEN s[k] ELSE s[k + 1]
<1>1. /\ Len(s) \in Nat /\ i \in Int /\ 1 \in Int /\ i - 1 \in Int /\ i + 1 \in Int /\ Len(s) \in Int
      /\ \A k \in 1..Len(s) : s[k] \in S
  OBVIOUS
<1>2. /\ \A k \in 1..(i - 1) : s[k] \in S
      /\ \A k \in (i + 1)..Len(s) : s[k] \in S
  BY <1>1
<1>3. /\ SubSeq(s, 1, i - 1) \in Seq(S)
      /\ Len(SubSeq(s, 1, i - 1)) = i - 1
      /\ \A k \in 1..(i - 1) : SubSeq(s, 1, i - 1)[k] = s[k]
  BY <1>1, <1>2, SubSeqProperties
<1>4. /\ SubSeq(s, i + 1, Len(s)) \in Seq(S)
      /\ Len(SubSeq(s, i + 1, Len(s))) = IF i + 1 <= Len(s) THEN Len(s) - (i + 1) + 1 ELSE 0
      /\ \A k \in 1..(Len(s) - (i + 1) + 1) : SubSeq(s, i + 1, Len(s))[k] = s[i + 1 + k - 1]
  BY <1>1, <1>2, SubSeqProperties
<1>5. /\ Len(SubSeq(s, i + 1, Len(s))) = Len(s) - i
      /\ \A k \in 1..(Len(s) - i) : SubSeq(s, i + 1, Len(s))[k] = s[i + k]
  BY <1>1, <1>4
<1>6. PICK before \in Seq(S), after \in Seq(S) :
            before = SubSeq(s, 1, i - 1) /\ after = SubSeq(s, i + 1, Len(s))
  BY <1>3, <1>4, Zenon
<1>7. /\ Len(before) = i - 1
      /\ \A k \in 1..(i - 1) : before[k] = s[k]
      /\ Len(after) = Len(s) - i
      /\ \A k \in 1..(Len(s) - i) : after[k] = s[i + k]
  BY <1>3, <1>5, <1>6, Zenon
<1>8. /\ before \o after \in Seq(S)
      /\ Len(before \o after) = Len(before) + Len(after)
      /\ \A k \in 1..(Len(before) + Len(after)) :
            (before \o after)[k] = IF k <= Len(before) THEN before[k] ELSE after[k - Len(before)]
  BY <1>6, ConcatProperties
<1>9. Len(before) + Len(after) = Len(s) - 1
  BY <1>1, <1>7
<1>10. \A k \in 1..(Len(s) - 1) :
            (before \o after)[k] = IF k <= i - 1 THEN before[k] ELSE after[k - (i - 1)]
  BY <1>7, <1>8, <1>9
<1>11. ASSUME NEW k \in 1..(Len(s) - 1)
       PROVE  (IF k <= i - 1 THEN before[k] ELSE after[k - (i - 1)]) = IF k < i THEN s[k] ELSE s[k + 1]
  <2>1. CASE k < i
    <3>1. k \in 1..(i - 1) /\ k <= i - 1
      BY <1>1, <2>1
    <3> QED  BY <1>7, <2>1, <3>1
  <2>2. CASE ~(k < i)
    <3>1. k - (i - 1) \in 1..(Len(s) - i) /\ ~(k <= i - 1) /\ i + (k - (i - 1)) = k + 1
      BY <1>1, <2>2
    <3> QED  BY <1>7, <2>2, <3>1
  <2> QED  BY <2>1, <2>2
<1>12. \A k \in 1..(Len(s) - 1) : (before \o after)[k] = IF k < i THEN s[k] ELSE s[k + 1]
  BY <1>10, <1>11, Zenon
<1>13. Len(before \o after) = Len(s) - 1
  BY <1>8, <1>9, Zenon
<1> QED  BY <1>6, <1>8, <1>12, <1>13, Zenon

\* What the queue does keeps its types.
LEMMA QueueTypes ==
    ASSUME TypeOK, Server!Next
    PROVE  /\ line' \in Seq(Requests) /\ active' \in Requests \cup {None}
           /\ outcome' \in [Requests -> Terminal \cup {"absent", "pending"}]
<1>1. ASSUME NEW j \in Requests, Server!Enqueue(j)
      PROVE  /\ line' \in Seq(Requests) /\ active' \in Requests \cup {None}
             /\ outcome' \in [Requests -> Terminal \cup {"absent", "pending"}]
  BY <1>1 DEF TypeOK, Server!Enqueue
<1>2. ASSUME NEW j \in Requests, Server!Withdraw(j)
      PROVE  /\ line' \in Seq(Requests) /\ active' \in Requests \cup {None}
             /\ outcome' \in [Requests -> Terminal \cup {"absent", "pending"}]
  <2>1. PICK i \in DOMAIN line : line' = SubSeq(line, 1, i - 1) \o SubSeq(line, i + 1, Len(line))
    BY <1>2 DEF Server!Withdraw
  <2>2. line \in Seq(Requests)
    BY DEF TypeOK
  <2>4. i \in 1..Len(line)
    BY <2>1, <2>2
  <2>3. line' \in Seq(Requests)
    BY <2>1, <2>2, <2>4, Removal
  <2> QED  BY <1>2, <2>3 DEF TypeOK, Server!Withdraw, Terminal
<1>3. ASSUME NEW j \in Requests, Server!Relabel(j)
      PROVE  /\ line' \in Seq(Requests) /\ active' \in Requests \cup {None}
             /\ outcome' \in [Requests -> Terminal \cup {"absent", "pending"}]
  BY <1>3 DEF TypeOK, Server!Relabel, Terminal
<1>4. CASE Server!Start
  BY <1>4 DEF TypeOK, Server!Start
<1>5. ASSUME NEW o \in Server!Outcomes, Server!Finish(o)
      PROVE  /\ line' \in Seq(Requests) /\ active' \in Requests \cup {None}
             /\ outcome' \in [Requests -> Terminal \cup {"absent", "pending"}]
  BY <1>5 DEF TypeOK, Server!Finish, Server!Outcomes, Terminal
<1>. QED  BY <1>1, <1>2, <1>3, <1>4, <1>5 DEF Server!Next

LEMMA TypeInit == Init => TypeOK
<1> SUFFICES ASSUME Init
             PROVE  TypeOK
  OBVIOUS
<1>1. <<>> \in Seq(Requests) /\ <<>> \in Seq(Statuses) /\ Len(<<>>) = 0 /\ 0 \in 0..MaxAttempts
  BY DEF MaxAttempts
<1>2. /\ line \in Seq(Requests) /\ active \in Requests \cup {None}
      /\ outcome \in [Requests -> Terminal \cup {"absent", "pending"}]
      /\ log \in [Requests -> Seq(Statuses)]
      /\ \A r \in Requests : sent[r] <= Len(log[r])
  BY <1>1 DEF Init, Server!Init
<1>3. attempts \in [Requests -> 0..MaxAttempts]
  BY <1>1 DEF Init
<1> QED  BY <1>2, <1>3 DEF Init, TypeOK, BusyPhases, Live

LEMMA ReportTypes ==
    ASSUME TypeOK, NEW x, NEW status \in Statuses, Server!Report(x, status)
    PROVE  /\ log' \in [Requests -> Seq(Statuses)]
           /\ \A r \in Requests : Len(log[r]) \in Nat /\ Len(log'[r]) \in Nat /\ Len(log[r]) <= Len(log'[r])
<1>1. log \in [Requests -> Seq(Statuses)]
  BY DEF TypeOK
<1>2. \A r \in Requests : /\ log'[r] = IF r = x THEN Append(log[r], status) ELSE log[r]
                          /\ log[r] \in Seq(Statuses)
  BY <1>1 DEF Server!Report
<1>3. \A r \in Requests : /\ Append(log[r], status) \in Seq(Statuses)
                          /\ Len(Append(log[r], status)) = Len(log[r]) + 1
                          /\ Len(log[r]) \in Nat
  BY <1>2
<1>4. DOMAIN log' = Requests /\ log' = [r \in DOMAIN log' |-> log'[r]]
  BY <1>1 DEF Server!Report
<1>5. \A r \in Requests : log'[r] \in Seq(Statuses)
  BY <1>2, <1>3, Zenon
<1>6. ASSUME NEW r \in Requests
      PROVE  Len(log[r]) \in Nat /\ Len(log'[r]) \in Nat /\ Len(log[r]) <= Len(log'[r])
  <2>1. CASE r = x
    <3>1. log'[r] = Append(log[r], status)
      BY <1>2, <2>1, Zenon
    <3>2. Len(log'[r]) = Len(log[r]) + 1
      BY <1>3, <3>1, Zenon
    <3> QED  BY <1>3, <3>2
  <2>2. CASE r # x
    <3>1. log'[r] = log[r]
      BY <1>2, <2>2, Zenon
    <3> QED  BY <1>3, <3>1
  <2> QED  BY <2>1, <2>2
<1> QED  BY <1>4, <1>5, <1>6, Zenon

LEMMA ServerStepTypes == TypeOK /\ ServerStep => TypeOK'
<1> SUFFICES ASSUME TypeOK, ServerStep
             PROVE  TypeOK'
  OBVIOUS
<1> DEFINE Rest == /\ log' \in [Requests -> Seq(Statuses)]
                   /\ \A r \in Requests : Len(log[r]) \in Nat /\ Len(log'[r]) \in Nat /\ Len(log[r]) <= Len(log'[r])
                   /\ Server!Next /\ ServerOnly
<1> HIDE DEF Rest
<1>0. ASSUME Rest
      PROVE  TypeOK'
  <2>1. /\ line' \in Seq(Requests) /\ active' \in Requests \cup {None}
        /\ outcome' \in [Requests -> Terminal \cup {"absent", "pending"}]
    BY <1>0, QueueTypes DEF Rest
  <2>2. \A r \in Requests : sent'[r] <= Len(log'[r])
    <3> SUFFICES ASSUME NEW r \in Requests
                 PROVE  sent'[r] <= Len(log'[r])
      OBVIOUS
    <3>1. sent'[r] = sent[r] /\ sent[r] \in Nat /\ sent[r] <= Len(log[r])
      BY <1>0 DEF Rest, TypeOK, ServerOnly, trackVars
    <3>2. Len(log[r]) <= Len(log'[r]) /\ Len(log[r]) \in Nat /\ Len(log'[r]) \in Nat
      BY <1>0, Zenon DEF Rest
    <3> QED  BY <3>1, <3>2
  <2> QED  BY <1>0, <2>1, <2>2 DEF Rest, TypeOK, ServerOnly, shownVars, refVars, trackVars, askVars
<1>1. CASE ServerStarts
  <2>1. "running" \in Statuses
    BY DEF Statuses
  <2>2. Rest
    BY <1>1, <2>1, ReportTypes DEF Rest, ServerStarts, Server!Next, Server!Start
  <2> QED  BY <1>0, <2>2
<1>2. ASSUME NEW status \in Terminal, ServerFinishes(status)
      PROVE  TypeOK'
  <2>1. status \in Statuses /\ status \in Server!Outcomes
    BY DEF Statuses, Terminal, Server!Outcomes
  <2>2. Rest
    BY <1>2, <2>1, ReportTypes DEF Rest, ServerFinishes, Server!Next, Server!Finish
  <2> QED  BY <1>0, <2>2
<1>3. ASSUME NEW r \in Requests, ServerWithdraws(r) \/ ServerRelabels(r)
      PROVE  TypeOK'
  <2>1. "cancelled" \in Statuses /\ "failed" \in Statuses
    BY DEF Statuses, Terminal
  <2>2. Rest
    BY <1>3, <2>1, ReportTypes
       DEF Rest, ServerWithdraws, ServerRelabels, Server!Next, Server!Withdraw, Server!Relabel
  <2> QED  BY <1>0, <2>2
<1>4. ASSUME NEW r \in Requests, ServerReleases(r)
      PROVE  TypeOK'
  BY <1>4 DEF TypeOK, ServerReleases, shownVars, refVars, trackVars, askVars
<1> QED  BY <1>1, <1>2, <1>3, <1>4 DEF ServerStep

LEMMA OperatorStepTypes == TypeOK /\ OperatorStep => TypeOK'
<1> SUFFICES ASSUME TypeOK, OperatorStep
             PROVE  TypeOK'
  OBVIOUS
<1>1. ASSUME NEW r \in Requests, Run(r)
      PROVE  TypeOK'
  BY <1>1 DEF TypeOK, Run, Goes, Races, serverVars, refVars, BusyPhases
<1>2. ASSUME NEW r \in Requests, Approve(r)
      PROVE  TypeOK'
  BY <1>2 DEF TypeOK, Approve, Goes, Races, serverVars, shownVars, refVars
<1>3. CASE Cancel
  BY <1>3 DEF TypeOK, Cancel, serverVars, shownVars, trackVars
<1>4. CASE Reset
  BY <1>4 DEF TypeOK, Reset, Races, serverVars, refVars, trackVars
<1> QED  BY <1>1, <1>2, <1>3, <1>4 DEF OperatorStep

LEMMA PostStepTypes ==
    ASSUME TypeOK, NEW r \in Requests, PostStep(r) \/ DeleteReturns(r)
    PROVE  TypeOK'
<1>1. CASE PostIsServed(r)
  <2>1. "queued" \in Statuses
    BY DEF Statuses
  <2>2. /\ log' \in [Requests -> Seq(Statuses)]
        /\ \A q \in Requests : Len(log[q]) \in Nat /\ Len(log'[q]) \in Nat /\ Len(log[q]) <= Len(log'[q])
        /\ Server!Next
    BY <1>1, <2>1, ReportTypes DEF PostIsServed, Server!Next, Server!Enqueue
  <2>3. /\ line' \in Seq(Requests) /\ active' \in Requests \cup {None}
        /\ outcome' \in [Requests -> Terminal \cup {"absent", "pending"}]
    BY <2>2, QueueTypes
  <2>4. \A q \in Requests : sent'[q] <= Len(log'[q])
    <3> SUFFICES ASSUME NEW q \in Requests
                 PROVE  sent'[q] <= Len(log'[q])
      OBVIOUS
    <3>1. sent'[q] = sent[q] /\ sent[q] \in Nat /\ sent[q] <= Len(log[q])
      BY <1>1 DEF TypeOK, PostIsServed
    <3>2. Len(log[q]) <= Len(log'[q]) /\ Len(log[q]) \in Nat /\ Len(log'[q]) \in Nat
      BY <2>2, Zenon
    <3> QED  BY <3>1, <3>2
  <2> QED  BY <1>1, <2>2, <2>3, <2>4 DEF TypeOK, PostIsServed, Goes, shownVars, refVars, askVars
<1>2. CASE PostFails(r)
  BY <1>2 DEF TypeOK, PostFails, Goes, serverVars, refVars
<1>3. CASE Execute(r)
  BY <1>3 DEF TypeOK, Execute, Goes, serverVars, BusyPhases, Live
<1>4. CASE DeleteReturns(r)
  BY <1>4 DEF TypeOK, DeleteReturns, serverVars, shownVars, refVars
<1> QED  BY <1>1, <1>2, <1>3, <1>4 DEF PostStep

\* The steps that only follow a job keep what the server and the POSTs have.
Apart == UNCHANGED <<line, active, outcome, log, askVars>>

LEMMA ApartTypes ==
    ASSUME TypeOK, Apart, owned' \subseteq Requests,
           phase' \in BusyPhases \cup {"idle", "success", "error"},
           job' \in Requests \cup {None}, result' \in Requests \cup {None},
           error' \in {"none", "retryable", "cancelled"},
           activeRef' \in Requests \cup {None}, cancelledRef' \in BOOLEAN,
           pc' \in [Requests -> Live \cup {"new", "posted", "accepted", "done"}],
           attempts' \in [Requests -> 0..MaxAttempts],
           sent' \in [Requests -> Nat],
           \A q \in Requests : sent'[q] <= Len(log[q]),
           aborted' \subseteq Requests
    PROVE  TypeOK'
  BY DEF TypeOK, Apart, askVars

LEMMA EndsTypes ==
    ASSUME TypeOK, NEW r \in Requests, Ends(r)
    PROVE  /\ job' \in Requests \cup {None}
           /\ activeRef' \in Requests \cup {None} /\ cancelledRef' \in BOOLEAN
           /\ pc' \in [Requests -> Live \cup {"new", "posted", "accepted", "done"}]
           /\ attempts' \in [Requests -> 0..MaxAttempts]
           /\ sent' \in [Requests -> Nat]
           /\ \A q \in Requests : sent'[q] <= Len(log[q])
           /\ aborted' \subseteq Requests
<1>1. /\ \A q \in Requests : sent'[q] = (IF q = r THEN 0 ELSE sent[q]) /\ sent[q] <= Len(log[q])
      /\ \A q \in Requests : Len(log[q]) \in Nat
  BY DEF TypeOK, Ends
<1>2. \A q \in Requests : sent'[q] <= Len(log[q])
  BY <1>1
<1> QED  BY <1>2 DEF TypeOK, Ends, Goes, MaxAttempts

LEMMA FollowsTypes ==
    ASSUME TypeOK, NEW r \in Requests, NEW to \in Live, Follows(r, to)
    PROVE  /\ phase' \in BusyPhases \cup {"idle", "success", "error"}
           /\ job' \in Requests \cup {None} /\ result' \in Requests \cup {None}
           /\ error' \in {"none", "retryable", "cancelled"}
           /\ activeRef' \in Requests \cup {None} /\ cancelledRef' \in BOOLEAN
           /\ pc' \in [Requests -> Live \cup {"new", "posted", "accepted", "done"}]
           /\ sent' \in [Requests -> Nat]
           /\ \A q \in Requests : sent'[q] <= Len(log[q])
           /\ aborted' \subseteq Requests
<1>1. /\ \A q \in Requests : sent'[q] = (IF q = r THEN 0 ELSE sent[q]) /\ sent[q] <= Len(log[q])
      /\ \A q \in Requests : Len(log[q]) \in Nat
  BY DEF TypeOK, Follows
<1>2. \A q \in Requests : sent'[q] <= Len(log[q])
  BY <1>1
<1> QED  BY <1>2 DEF TypeOK, Follows, Goes, shownVars, refVars

LEMMA FailsTypes ==
    ASSUME TypeOK, NEW r \in Requests, NEW b, Fails(r, b), Apart, owned' \subseteq Requests
    PROVE  TypeOK'
<1>1. /\ phase' \in BusyPhases \cup {"idle", "success", "error"}
      /\ error' \in {"none", "retryable", "cancelled"}
      /\ result' \in Requests \cup {None}
  BY DEF TypeOK, Fails
<1>2. Ends(r)
  BY DEF Fails
<1> QED  BY <1>1, <1>2, EndsTypes, ApartTypes

LEMMA SucceedsTypes ==
    ASSUME TypeOK, NEW r \in Requests, Succeeds(r), Apart, owned' \subseteq Requests
    PROVE  TypeOK'
<1>1. /\ phase' \in BusyPhases \cup {"idle", "success", "error"}
      /\ error' \in {"none", "retryable", "cancelled"}
      /\ result' \in Requests \cup {None}
  BY DEF TypeOK, Succeeds
<1>2. Ends(r)
  BY DEF Succeeds
<1> QED  BY <1>1, <1>2, EndsTypes, ApartTypes

LEMMA EndsEmptyTypes ==
    ASSUME TypeOK, NEW r \in Requests, EndsEmpty(r), Apart, owned' \subseteq Requests
    PROVE  TypeOK'
<1>1. CASE Fails(r, FALSE)
  BY <1>1, FailsTypes
<1>2. CASE Ends(r) /\ UNCHANGED <<phase, result, error>>
  <2>1. /\ phase' \in BusyPhases \cup {"idle", "success", "error"}
        /\ error' \in {"none", "retryable", "cancelled"}
        /\ result' \in Requests \cup {None}
    BY <1>2 DEF TypeOK
  <2> QED  BY <1>2, <2>1, EndsTypes, ApartTypes
<1> QED  BY <1>1, <1>2 DEF EndsEmpty

LEMMA ThrowsTypes ==
    ASSUME TypeOK, NEW r \in Requests, Throws(r), Apart, owned' \subseteq Requests
    PROVE  TypeOK'
<1>1. CASE Fails(r, FALSE)
  BY <1>1, FailsTypes
<1>2. CASE ~GivesUp(r) /\ attempts' = [attempts EXCEPT ![r] = @ + 1] /\ Follows(r, "recheck")
  <2>1. attempts' \in [Requests -> 0..MaxAttempts]
    <3>1. attempts \in [Requests -> 0..MaxAttempts]
      BY DEF TypeOK
    <3>2. ~(attempts[r] >= MaxAttempts) /\ attempts' = [attempts EXCEPT ![r] = @ + 1]
      BY <1>2 DEF GivesUp
    <3>3. attempts[r] + 1 \in 0..MaxAttempts
      BY <3>1, <3>2 DEF MaxAttempts
    <3> QED  BY <3>1, <3>2, <3>3
  <2>2. "recheck" \in Live
    BY DEF Live
  <2> QED  BY <1>2, <2>1, <2>2, FollowsTypes, ApartTypes
<1> QED  BY <1>1, <1>2 DEF Throws

\* Going on to another await, with the failures counted as before.
LEMMA GoesOnTypes ==
    ASSUME TypeOK, NEW r \in Requests, NEW to \in Live, Follows(r, to),
           UNCHANGED attempts, Apart, owned' \subseteq Requests
    PROVE  TypeOK'
<1>1. attempts' \in [Requests -> 0..MaxAttempts]
  BY DEF TypeOK
<1> QED  BY <1>1, FollowsTypes, ApartTypes

LEMMA EventTypes ==
    ASSUME TypeOK, NEW r \in Requests, NEW i \in 1..Len(log[r]), ShowsEvent(r, log[r][i])
    PROVE  phase' \in BusyPhases \cup {"idle", "success", "error"}
<1>1. log[r] \in Seq(Statuses)
  BY DEF TypeOK
<1>2. log[r][i] \in Statuses
  BY <1>1
<1> QED  BY <1>2 DEF TypeOK, ShowsEvent, Statuses, Terminal, BusyPhases

LEMMA FollowStepTypes ==
    ASSUME TypeOK, NEW r \in Requests, FollowStep(r)
    PROVE  TypeOK'
<1>0. owned \subseteq Requests /\ {"connect", "stream", "status", "recheck", "sleep"} \subseteq Live
  BY DEF TypeOK, Live
<1>1. CASE Connect(r)
  <2>1. Apart /\ owned' \subseteq Requests /\ UNCHANGED attempts
    BY <1>0, <1>1 DEF Connect, Apart
  <2>2. CASE Follows(r, "stream")
    BY <1>0, <2>1, <2>2, GoesOnTypes
  <2>3. CASE Follows(r, "status")
    BY <1>0, <2>1, <2>3, GoesOnTypes
  <2> QED  BY <1>1, <2>2, <2>3 DEF Connect
<1>2. CASE StreamIsRefused(r)
  BY <1>0, <1>2, ThrowsTypes DEF StreamIsRefused, Apart, serverVars
<1>3. CASE Receives(r)
  <2>1. Apart /\ UNCHANGED owned
    BY <1>3 DEF Receives, Apart, serverVars
  <2>2. CASE Throws(r)
    BY <1>0, <2>1, <2>2, ThrowsTypes
  <2>3. CASE /\ sent' = [sent EXCEPT ![r] = @ + 1] /\ ShowsEvent(r, NextEvent(r))
             /\ UNCHANGED <<job, result, error, refVars, pc, attempts, aborted>>
    <3>1. sent \in [Requests -> Nat] /\ sent[r] < Len(log[r]) /\ Len(log[r]) \in Nat
      BY <1>3 DEF TypeOK, Receives
    <3>2. sent[r] + 1 \in 1..Len(log[r])
      BY <3>1
    <3>3. phase' \in BusyPhases \cup {"idle", "success", "error"}
      BY <2>3, <3>2, EventTypes DEF NextEvent
    <3>4. \A q \in Requests : sent'[q] <= Len(log[q])
      BY <2>3, <3>1 DEF TypeOK
    <3>5. sent' \in [Requests -> Nat]
      BY <2>3, <3>1
    <3>6. UNCHANGED <<job, result, error, activeRef, cancelledRef, pc, attempts, aborted>>
      BY <2>3 DEF refVars
    <3> QED  BY <2>1, <3>3, <3>4, <3>5, <3>6 DEF TypeOK, Apart, askVars
  <2> QED  BY <1>3, <2>2, <2>3 DEF Receives
<1>4. CASE Heartbeat(r)
  <2>1. sent[r] \in 1..Len(log[r])
    BY <1>4 DEF TypeOK, Heartbeat
  <2>2. phase' \in BusyPhases \cup {"idle", "success", "error"}
    BY <1>4, <2>1, EventTypes DEF Heartbeat
  <2> QED  BY <1>4, <2>2 DEF TypeOK, Heartbeat, serverVars, refVars, trackVars, askVars
<1>5. CASE StreamCloses(r)
  <2>1. Apart /\ owned' \subseteq Requests /\ Succeeds(r)
    BY <1>0, <1>5 DEF StreamCloses, Apart
  <2> QED  BY <2>1, SucceedsTypes
<1>6. CASE StreamBreaks(r)
  <2>1. Apart /\ UNCHANGED owned
    BY <1>6 DEF StreamBreaks, Apart, serverVars
  <2>2. CASE Throws(r)
    BY <1>0, <2>1, <2>2, ThrowsTypes
  <2>3. CASE Follows(r, "status") /\ UNCHANGED attempts
    BY <1>0, <2>1, <2>3, GoesOnTypes
  <2> QED  BY <1>6, <2>2, <2>3 DEF StreamBreaks
<1>7. CASE StatusArrives(r)
  <2>1. Apart /\ UNCHANGED owned
    BY <1>7 DEF StatusArrives, Apart, serverVars
  <2> QED  BY <1>0, <1>7, <2>1, SucceedsTypes, EndsEmptyTypes, ThrowsTypes DEF StatusArrives
<1>8. CASE StatusFails(r)
  BY <1>0, <1>8, ThrowsTypes DEF StatusFails, Apart, serverVars
<1>9. CASE RecheckArrives(r)
  <2>1. Apart /\ UNCHANGED owned
    BY <1>9 DEF RecheckArrives, Apart, serverVars
  <2>2. CASE Follows(r, "sleep") /\ UNCHANGED attempts
    BY <1>0, <2>1, <2>2, GoesOnTypes
  <2> QED  BY <1>0, <1>9, <2>1, <2>2, SucceedsTypes, EndsEmptyTypes DEF RecheckArrives
<1>10. CASE RecheckFails(r)
  <2>1. Apart /\ UNCHANGED owned
    BY <1>10 DEF RecheckFails, Apart, serverVars
  <2>2. CASE Follows(r, "sleep") /\ UNCHANGED attempts
    BY <1>0, <2>1, <2>2, GoesOnTypes
  <2> QED  BY <1>0, <1>10, <2>1, <2>2, FailsTypes DEF RecheckFails
<1>11. CASE Wakes(r)
  <2>1. Apart /\ UNCHANGED owned
    BY <1>11 DEF Wakes, Apart, serverVars
  <2>2. CASE Follows(r, "connect") /\ UNCHANGED attempts
    BY <1>0, <2>1, <2>2, GoesOnTypes
  <2> QED  BY <1>0, <1>11, <2>1, <2>2, EndsEmptyTypes DEF Wakes
<1>12. CASE Aborts(r)
  BY <1>0, <1>12, FailsTypes DEF Aborts, Apart, serverVars
<1>13. CASE TimesOut(r)
  BY <1>13 DEF TypeOK, TimesOut, serverVars, shownVars, refVars, askVars
<1> QED  BY <1>1, <1>2, <1>3, <1>4, <1>5, <1>6, <1>7, <1>8, <1>9, <1>10, <1>11, <1>12, <1>13 DEF FollowStep

\* The console's state keeps its types, for any number of requests.
THEOREM TypeCorrect == Spec => []TypeOK
<1>1. TypeOK /\ [Next]_vars => TypeOK'
  <2> SUFFICES ASSUME TypeOK, [Next]_vars
               PROVE  TypeOK'
    OBVIOUS
  <2>1. CASE UNCHANGED vars
    BY <2>1 DEF TypeOK, vars, serverVars, shownVars, refVars, trackVars, askVars
  <2>2. CASE Next
    BY <2>2, ServerStepTypes, OperatorStepTypes, PostStepTypes, FollowStepTypes DEF Next
  <2> QED  BY <2>1, <2>2
<1> QED  BY TypeInit, <1>1, PTL DEF Spec

----------------------------------------------------------------------------
(***************************************************************************)
(* What the server has reported stays true.                                *)
(***************************************************************************)
\* A job is in at most one place of the queue, and pending while it is there.
QueueInv ==
    /\ \A i \in 1..Len(line) : outcome[line[i]] = "pending" /\ line[i] # active
    /\ \A i, k \in 1..Len(line) : line[i] = line[k] => i = k
    /\ active # None => outcome[active] = "pending"

\* A job of which a stream reports a result is complete.
LogInv == \A q \in Requests : Logged(q, "complete") => outcome[q] = "complete"

StaysComplete == \A q \in Requests : outcome[q] = "complete" => outcome'[q] = "complete"

LEMMA QueueStep ==
    ASSUME TypeOK, QueueInv, Server!Next
    PROVE  QueueInv' /\ StaysComplete
<1>0. /\ line \in Seq(Requests) /\ Len(line) \in Nat /\ \A i \in 1..Len(line) : line[i] \in Requests
      /\ outcome \in [Requests -> Terminal \cup {"absent", "pending"}]
      /\ active \in Requests \cup {None} /\ None \notin Requests
  BY NoneIsNoRequest DEF TypeOK
<1>1. ASSUME NEW j \in Requests, Server!Enqueue(j)
      PROVE  QueueInv' /\ StaysComplete
  <2>1. /\ Len(line') = Len(line) + 1 /\ line'[Len(line) + 1] = j
        /\ \A i \in 1..Len(line) : line'[i] = line[i]
    BY <1>0, <1>1 DEF Server!Enqueue
  <2>2. /\ \A q \in Requests : outcome'[q] = IF q = j THEN "pending" ELSE outcome[q]
        /\ outcome[j] = "absent" /\ active' = active
    BY <1>0, <1>1 DEF Server!Enqueue
  <2>3. \A i \in 1..Len(line) : line[i] # j
    BY <2>2 DEF QueueInv
  <2>4. \A i \in 1..Len(line') : i \in 1..Len(line) \/ i = Len(line) + 1
    BY <1>0, <2>1
  <2>5. active' # None => outcome'[active'] = "pending" /\ active # j
    BY <1>0, <2>2 DEF QueueInv
  <2>6. \A i \in 1..Len(line') : outcome'[line'[i]] = "pending" /\ line'[i] # active'
    BY <1>0, <2>1, <2>2, <2>3, <2>4, <2>5 DEF QueueInv
  <2>7. \A i, k \in 1..Len(line') : line'[i] = line'[k] => i = k
    BY <2>1, <2>3, <2>4 DEF QueueInv
  <2> QED  BY <2>2, <2>5, <2>6, <2>7 DEF QueueInv, StaysComplete
<1>2. ASSUME NEW j \in Requests, Server!Withdraw(j)
      PROVE  QueueInv' /\ StaysComplete
  <2>1. PICK i \in 1..Len(line) :
            line[i] = j /\ line' = SubSeq(line, 1, i - 1) \o SubSeq(line, i + 1, Len(line))
    <3>1. DOMAIN line = 1..Len(line)
      BY <1>0
    <3> QED  BY <1>2, <3>1, Zenon DEF Server!Withdraw
  <2>2. /\ Len(line') = Len(line) - 1
        /\ \A k \in 1..(Len(line) - 1) : line'[k] = IF k < i THEN line[k] ELSE line[k + 1]
    BY <1>0, <2>1, Removal
  <2>3. /\ \A q \in Requests : outcome'[q] = IF q = j THEN "cancelled" ELSE outcome[q]
        /\ active' = active
    BY <1>0, <1>2 DEF Server!Withdraw
  <2> DEFINE Old(k) == IF k < i THEN k ELSE k + 1
  <2>4. \A k \in 1..Len(line') : Old(k) \in 1..Len(line) /\ Old(k) # i /\ line'[k] = line[Old(k)]
    BY <1>0, <2>2
  <2>5. \A k, m \in 1..Len(line') : Old(k) = Old(m) => k = m
    BY <1>0, <2>2
  <2> HIDE DEF Old
  <2>6. outcome[j] = "pending" /\ active # j
    BY <2>1 DEF QueueInv
  <2>7. \A k \in 1..Len(line') : line'[k] # j
    <3>1. \A m, k \in 1..Len(line) : line[m] = line[k] => m = k
      BY DEF QueueInv
    <3>2. ASSUME NEW k \in 1..Len(line')
          PROVE  Old(k) \in 1..Len(line) /\ Old(k) # i /\ line'[k] = line[Old(k)]
      BY <2>4, Zenon
    <3>3. ASSUME NEW k \in 1..Len(line')
          PROVE  line[Old(k)] # line[i]
      BY <3>1, <3>2, Zenon
    <3>4. line[i] = j
      BY <2>1, Zenon
    <3> QED  BY <3>2, <3>3, <3>4, Zenon
  <2>8. \A k \in 1..Len(line') : outcome'[line'[k]] = "pending" /\ line'[k] # active'
    BY <1>0, <2>3, <2>4, <2>7 DEF QueueInv
  <2>9. \A k, m \in 1..Len(line') : line'[k] = line'[m] => k = m
    BY <2>4, <2>5 DEF QueueInv
  <2>10. active' # None => outcome'[active'] = "pending"
    BY <1>0, <2>3, <2>6 DEF QueueInv
  <2> QED  BY <2>3, <2>6, <2>8, <2>9, <2>10 DEF QueueInv, StaysComplete
<1>3. ASSUME NEW j \in Requests, Server!Relabel(j)
      PROVE  QueueInv' /\ StaysComplete
  BY <1>0, <1>3 DEF Server!Relabel, QueueInv, StaysComplete
<1>4. CASE Server!Start
  <2>1. /\ line # <<>> /\ active' = Head(line) /\ line' = Tail(line) /\ outcome' = outcome
    BY <1>4 DEF Server!Start
  <2>2. /\ Len(line) >= 1 /\ active' = line[1] /\ Len(line') = Len(line) - 1
        /\ \A k \in 1..Len(line') : k + 1 \in 1..Len(line) /\ line'[k] = line[k + 1]
    BY <1>0, <2>1
  <2>3. 1 \in 1..Len(line) /\ \A k \in 1..Len(line') : k + 1 # 1
    BY <1>0, <2>2
  <2>4. \A k \in 1..Len(line') : outcome'[line'[k]] = "pending" /\ line'[k] # active'
    BY <2>1, <2>2, <2>3 DEF QueueInv
  <2>5. \A k, m \in 1..Len(line') : line'[k] = line'[m] => k = m
    <3> SUFFICES ASSUME NEW k \in 1..Len(line'), NEW m \in 1..Len(line'), line'[k] = line'[m]
                 PROVE  k = m
      OBVIOUS
    <3>1. k + 1 = m + 1
      BY <2>2 DEF QueueInv
    <3> QED  BY <1>0, <2>2, <3>1
  <2>6. outcome'[active'] = "pending"
    BY <2>1, <2>2, <2>3 DEF QueueInv
  <2> QED  BY <2>1, <2>4, <2>5, <2>6 DEF QueueInv, StaysComplete
<1>5. ASSUME NEW o \in Server!Outcomes, Server!Finish(o)
      PROVE  QueueInv' /\ StaysComplete
  BY <1>0, <1>5 DEF Server!Finish, QueueInv, StaysComplete
<1> QED  BY <1>1, <1>2, <1>3, <1>4, <1>5 DEF Server!Next

\* A report is never taken back.
StaysLogged == \A q \in Requests, status \in Statuses : Logged(q, status) => Logged(q, status)'

LEMMA ReportLogs ==
    ASSUME TypeOK, NEW x \in Requests, NEW status \in Statuses, Server!Report(x, status)
    PROVE  /\ StaysLogged
           /\ \A q \in Requests, s \in Statuses :
                Logged(q, s)' => Logged(q, s) \/ (q = x /\ s = status)
<1>1. /\ \A q \in Requests : log[q] \in Seq(Statuses) /\ Len(log[q]) \in Nat
      /\ \A q \in Requests : log'[q] = IF q = x THEN Append(log[q], status) ELSE log[q]
  BY DEF TypeOK, Server!Report
<1>2. ASSUME NEW q \in Requests, NEW s \in Statuses
      PROVE  /\ Logged(q, s) => Logged(q, s)'
             /\ Logged(q, s)' => Logged(q, s) \/ (q = x /\ s = status)
  <2>1. CASE q # x
    <3>1. log'[q] = log[q]
      BY <1>1, <2>1
    <3> QED  BY <2>1, <3>1 DEF Logged
  <2>2. CASE q = x
    <3> DEFINE old == log[q]
    <3>4. old \in Seq(Statuses) /\ log'[q] = Append(old, status)
      BY <1>1, <2>2, Zenon
    <3> HIDE DEF old
    <3>5. /\ DOMAIN old = 1..Len(old) /\ DOMAIN Append(old, status) = 1..(Len(old) + 1)
          /\ \A i \in 1..Len(old) : Append(old, status)[i] = old[i]
          /\ Append(old, status)[Len(old) + 1] = status
      BY <3>4
    <3>1. /\ DOMAIN log[q] = 1..Len(log[q]) /\ DOMAIN log'[q] = 1..(Len(log[q]) + 1)
          /\ \A i \in 1..Len(log[q]) : log'[q][i] = log[q][i]
          /\ log'[q][Len(log[q]) + 1] = status
      BY <3>4, <3>5, Zenon DEF old
    <3>2. \A i \in 1..(Len(log[q]) + 1) : i \in 1..Len(log[q]) \/ i = Len(log[q]) + 1
      BY <1>1
    <3>3. 1..Len(log[q]) \subseteq 1..(Len(log[q]) + 1)
      BY <1>1
    <3> QED  BY <2>2, <3>1, <3>2, <3>3 DEF Logged
  <2> QED  BY <2>1, <2>2
<1> QED  BY <1>2 DEF StaysLogged

ReportedInv == QueueInv /\ LogInv

\* A step of the server, with the POST that enters its queue.
LEMMA ServerKeeps ==
    ASSUME TypeOK, ReportedInv, ServerStep \/ \E r \in Requests : PostIsServed(r)
    PROVE  ReportedInv' /\ StaysComplete /\ StaysLogged
<1>0. /\ {"queued", "running", "failed", "cancelled", "complete"} \subseteq Statuses
      /\ "complete" \in Statuses /\ Terminal \subseteq Statuses /\ Terminal = Server!Outcomes
  BY DEF Statuses, Terminal, Server!Outcomes
<1>1. ASSUME NEW x \in Requests, NEW status \in Statuses, Server!Report(x, status), Server!Next,
             status = "complete" => outcome'[x] = "complete"
      PROVE  ReportedInv' /\ StaysComplete /\ StaysLogged
  <2>1. QueueInv' /\ StaysComplete
    BY <1>1, QueueStep DEF ReportedInv
  <2>2. /\ StaysLogged
        /\ \A q \in Requests : Logged(q, "complete")' => Logged(q, "complete") \/ (q = x /\ "complete" = status)
    BY <1>0, <1>1, ReportLogs
  <2>3. \A q \in Requests : Logged(q, "complete")' => outcome'[q] = "complete"
    BY <1>1, <2>1, <2>2 DEF ReportedInv, LogInv, StaysComplete
  <2> QED  BY <2>1, <2>2, <2>3 DEF ReportedInv, LogInv
<1>2. CASE ServerStarts
  <2>1. Head(line) \in Requests
    BY <1>2 DEF TypeOK, ServerStarts, Server!Start
  <2> QED  BY <1>0, <1>1, <1>2, <2>1 DEF ServerStarts, Server!Next, Server!Start
<1>3. ASSUME NEW status \in Terminal, ServerFinishes(status)
      PROVE  ReportedInv' /\ StaysComplete /\ StaysLogged
  <2>1. active \in Requests /\ outcome'[active] = status
    BY <1>3 DEF TypeOK, ServerFinishes, Server!Finish
  <2>2. status \in Statuses /\ Server!Report(active, status) /\ Server!Next
    BY <1>0, <1>3 DEF ServerFinishes, Server!Next, Server!Finish
  <2> QED  BY <1>1, <2>1, <2>2
<1>4. ASSUME NEW r \in Requests, ServerWithdraws(r) \/ ServerRelabels(r)
      PROVE  ReportedInv' /\ StaysComplete /\ StaysLogged
  BY <1>0, <1>1, <1>4 DEF ServerWithdraws, ServerRelabels, Server!Next, Server!Withdraw, Server!Relabel
<1>5. ASSUME NEW r \in Requests, PostIsServed(r)
      PROVE  ReportedInv' /\ StaysComplete /\ StaysLogged
  BY <1>0, <1>1, <1>5 DEF PostIsServed, Server!Next, Server!Enqueue
<1>6. ASSUME NEW r \in Requests, ServerReleases(r)
      PROVE  ReportedInv' /\ StaysComplete /\ StaysLogged
  BY <1>6 DEF ServerReleases, ReportedInv, QueueInv, LogInv, Logged, StaysComplete, StaysLogged
<1> QED  BY <1>2, <1>3, <1>4, <1>5, <1>6 DEF ServerStep

\* No other step touches what the server has.
LEMMA OthersKeep ==
    ASSUME ReportedInv, UNCHANGED <<line, active, outcome, log>>
    PROVE  ReportedInv' /\ StaysComplete /\ StaysLogged
BY DEF ReportedInv, QueueInv, LogInv, Logged, StaysComplete, StaysLogged

----------------------------------------------------------------------------
(***************************************************************************)
(* The five things that a step of an execution may do to the page.         *)
(***************************************************************************)
GoesOn(r) ==
    /\ pc' = [pc EXCEPT ![r] = pc'[r]] /\ pc'[r] \in Live
    /\ UNCHANGED <<phase, job, result, error, activeRef, cancelledRef>>

ShowsLogged(r) ==
    /\ \E status \in Statuses : Logged(r, status) /\ ShowsEvent(r, status)
    /\ UNCHANGED <<pc, job, result, error, activeRef, cancelledRef>>

EndsQuietly(r) ==
    /\ cancelledRef /\ Ends(r) /\ UNCHANGED <<phase, result, error>>
    /\ activeRef # r \/ outcome[r] \in {"failed", "cancelled"}

EndsWell(r) == Succeeds(r) /\ (outcome[r] = "complete" \/ Logged(r, "complete"))

EndsBadly(r) == \E byAbort \in BOOLEAN : Fails(r, byAbort)

LEMMA FollowKinds ==
    ASSUME TypeOK, NEW r \in Requests, FollowStep(r)
    PROVE  /\ Tracking(r) /\ Apart
           /\ GoesOn(r) \/ ShowsLogged(r) \/ EndsQuietly(r) \/ EndsWell(r) \/ EndsBadly(r)
<1>0. /\ Live = {"connect", "stream", "status", "recheck", "sleep"}
      /\ pc \in [Requests -> Live \cup {"new", "posted", "accepted", "done"}]
  BY DEF TypeOK, Live
<1> DEFINE Kind == GoesOn(r) \/ ShowsLogged(r) \/ EndsQuietly(r) \/ EndsWell(r) \/ EndsBadly(r)
<1>1. ASSUME NEW to \in Live, Follows(r, to)
      PROVE  GoesOn(r)
  BY <1>0, <1>1 DEF Follows, Goes, GoesOn, shownVars, refVars
<1>2. ASSUME Throws(r)
      PROVE  Kind
  <2>1. "recheck" \in Live
    BY <1>0
  <2> QED  BY <1>1, <1>2, <2>1 DEF Throws, EndsBadly
<1>3. ASSUME EndsEmpty(r), activeRef # r \/ outcome[r] \in {"failed", "cancelled"}
      PROVE  Kind
  BY <1>3 DEF EndsEmpty, EndsQuietly, EndsBadly
<1>4. ASSUME NEW i \in 1..Len(log[r]), ShowsEvent(r, log[r][i]),
             UNCHANGED <<pc, job, result, error, activeRef, cancelledRef>>
      PROVE  ShowsLogged(r)
  <2>1. log[r] \in Seq(Statuses)
    BY DEF TypeOK
  <2>2. log[r][i] \in Statuses /\ i \in DOMAIN log[r]
    BY <2>1
  <2> QED  BY <1>4, <2>2 DEF ShowsLogged, Logged
<1>5. /\ sent[r] \in Nat /\ Len(log[r]) \in Nat /\ sent[r] <= Len(log[r])
      /\ DOMAIN log[r] = 1..Len(log[r])
  BY DEF TypeOK
<1>6. CASE Connect(r)
  <2>1. Tracking(r) /\ Apart
    BY <1>0, <1>6 DEF Connect, Tracking, Apart
  <2>2. Follows(r, "stream") \/ Follows(r, "status")
    BY <1>6 DEF Connect
  <2>3. Kind
    BY <1>0, <1>1, <2>2
  <2> QED  BY <2>1, <2>3
<1>7. CASE StreamIsRefused(r) \/ StatusFails(r)
  BY <1>0, <1>2, <1>7 DEF StreamIsRefused, StatusFails, Tracking, Apart, serverVars
<1>8. CASE Receives(r)
  <2>1. Tracking(r) /\ Apart
    BY <1>0, <1>8 DEF Receives, Tracking, Apart, serverVars
  <2>2. CASE Throws(r)
    BY <1>2, <2>1, <2>2
  <2>3. CASE ShowsEvent(r, NextEvent(r)) /\ UNCHANGED <<job, result, error, refVars, pc, attempts, aborted>>
    <3>1. sent[r] + 1 \in 1..Len(log[r])
      BY <1>5, <1>8 DEF Receives
    <3>2. UNCHANGED <<pc, job, result, error, activeRef, cancelledRef>>
      BY <2>3 DEF refVars
    <3>3. ShowsLogged(r)
      BY <1>4, <2>3, <3>1, <3>2 DEF NextEvent
    <3> QED  BY <2>1, <3>3
  <2> QED  BY <1>8, <2>2, <2>3 DEF Receives
<1>9. CASE Heartbeat(r)
  <2>1. Tracking(r) /\ Apart
    BY <1>0, <1>9 DEF Heartbeat, Tracking, Apart, serverVars
  <2>2. sent[r] \in 1..Len(log[r]) /\ ShowsEvent(r, log[r][sent[r]])
    BY <1>5, <1>9 DEF Heartbeat
  <2>3. UNCHANGED <<pc, job, result, error, activeRef, cancelledRef>>
    BY <1>9 DEF Heartbeat, refVars, trackVars
  <2>4. ShowsLogged(r)
    BY <1>4, <2>2, <2>3
  <2> QED  BY <2>1, <2>4
<1>10. CASE StreamCloses(r)
  <2>1. Tracking(r) /\ Apart /\ Succeeds(r)
    BY <1>0, <1>10 DEF StreamCloses, Tracking, Apart
  <2>2. sent[r] \in DOMAIN log[r] /\ log[r][sent[r]] = "complete"
    BY <1>5, <1>10 DEF StreamCloses, HasResult
  <2>3. Logged(r, "complete")
    BY <2>2 DEF Logged
  <2> QED  BY <2>1, <2>3 DEF EndsWell
<1>11. CASE StreamBreaks(r)
  <2>1. Tracking(r) /\ Apart
    BY <1>0, <1>11 DEF StreamBreaks, Tracking, Apart, serverVars
  <2>2. Throws(r) \/ Follows(r, "status")
    BY <1>11 DEF StreamBreaks
  <2>3. Kind
    BY <1>0, <1>1, <1>2, <2>2
  <2> QED  BY <2>1, <2>3
<1>12. CASE StatusArrives(r)
  <2>1. Tracking(r) /\ Apart
    BY <1>0, <1>12 DEF StatusArrives, Tracking, Apart, serverVars
  <2>2. Kind
    BY <1>2, <1>3, <1>12 DEF StatusArrives, EndsWell
  <2> QED  BY <2>1, <2>2
<1>13. CASE RecheckArrives(r)
  <2>1. Tracking(r) /\ Apart
    BY <1>0, <1>13 DEF RecheckArrives, Tracking, Apart, serverVars
  <2>2. Kind
    BY <1>0, <1>1, <1>3, <1>13 DEF RecheckArrives, EndsWell
  <2> QED  BY <2>1, <2>2
<1>14. CASE RecheckFails(r)
  <2>1. Tracking(r) /\ Apart
    BY <1>0, <1>14 DEF RecheckFails, Tracking, Apart, serverVars
  <2>2. Kind
    BY <1>0, <1>1, <1>14 DEF RecheckFails, EndsBadly
  <2> QED  BY <2>1, <2>2
<1>15. CASE Wakes(r)
  <2>1. Tracking(r) /\ Apart
    BY <1>0, <1>15 DEF Wakes, Tracking, Apart, serverVars
  <2>2. Kind
    BY <1>0, <1>1, <1>3, <1>15 DEF Wakes
  <2> QED  BY <2>1, <2>2
<1>16. CASE Aborts(r)
  BY <1>0, <1>16 DEF Aborts, Tracking, Apart, serverVars, EndsBadly
<1>17. CASE TimesOut(r)
  <2>1. Tracking(r) /\ Apart
    BY <1>17 DEF TimesOut, Apart, serverVars
  <2>2. GoesOn(r)
    BY <1>0, <1>17 DEF TimesOut, GoesOn, Tracking, shownVars, refVars
  <2> QED  BY <2>1, <2>2
<1> HIDE DEF Kind
<1> QED  BY <1>6, <1>7, <1>8, <1>9, <1>10, <1>11, <1>12, <1>13, <1>14, <1>15, <1>16, <1>17 DEF FollowStep, Kind

----------------------------------------------------------------------------
(***************************************************************************)
(* The page's invariants, together inductive.                              *)
(***************************************************************************)
\* What makes OneStory inductive: the request that is followed is current, and
\* nothing of an earlier one is shown.
OneFollowed ==
    ~raced => \A r \in Requests :
        Tracking(r) => activeRef = r /\ job = r /\ result = None /\ error = "none"

\* Only an unanswered POST approves a job.
ApprovalIsPosted == \A r \in Requests : of[r] # None => Posting(r)

PageInv ==
    /\ ActiveIsTracked /\ BusyHasCause /\ NoInferredSuccess /\ NotAheadOfServer
    /\ OneStory /\ OneFollowed /\ ApprovalIsPosted

Kept == StaysComplete /\ StaysLogged

LEMMA Words ==
    /\ BusyPhases = {"starting", "queued", "running"}
    /\ Live = {"connect", "stream", "status", "recheck", "sleep"}
    /\ {"queued", "running", "failed", "cancelled", "complete"} = Statuses
  BY DEF BusyPhases, Live, Statuses, Terminal

\* The page as it was, with a server that has gone on.
LEMMA PageStays ==
    ASSUME TypeOK, PageInv, Kept,
           UNCHANGED <<shownVars, refVars, pc, of, raced>>
    PROVE  PageInv'
<1>0. UNCHANGED <<phase, job, result, error, activeRef, cancelledRef, pc, of, raced>>
  BY DEF shownVars, refVars
<1>1. ActiveIsTracked'
  BY <1>0 DEF PageInv, ActiveIsTracked, Tracking
<1>2. BusyHasCause'
  BY <1>0 DEF PageInv, BusyHasCause, Busy, Tracking, Posting
<1>3. NoInferredSuccess'
  BY <1>0 DEF PageInv, NoInferredSuccess, Kept, StaysComplete, TypeOK
<1>4. NotAheadOfServer'
  BY <1>0, Words DEF PageInv, NotAheadOfServer, Kept, StaysLogged, TypeOK
<1>5. OneStory'
  BY <1>0, Words DEF PageInv, OneStory, Kept, StaysLogged, TypeOK, Open, Posting, Tracking, Busy
<1>6. OneFollowed'
  BY <1>0 DEF PageInv, OneFollowed, Tracking
<1>7. ApprovalIsPosted'
  BY <1>0 DEF PageInv, ApprovalIsPosted, Posting
<1> QED  BY <1>1, <1>2, <1>3, <1>4, <1>5, <1>6, <1>7 DEF PageInv

\* The steps of the operator and of a POST.
LEMMA RunPage ==
    ASSUME TypeOK, PageInv, Kept, NEW r \in Requests, Run(r)
    PROVE  PageInv'
<1>0. /\ ~Busy /\ pc[r] = "new"
      /\ phase' = "starting" /\ error' = "none" /\ result' = None
      /\ pc' = [pc EXCEPT ![r] = "posted"]
      /\ raced' = (raced \/ \E q \in Requests : Open(q))
      /\ pc \in [Requests -> Live \cup {"new", "posted", "accepted", "done"}]
      /\ of \in [Requests -> Requests \cup {None}]
      /\ UNCHANGED <<job, activeRef, cancelledRef, of>>
  BY DEF TypeOK, Run, Fresh, Goes, Races, refVars
<1>1. ActiveIsTracked'
  BY <1>0, Words, NoneIsNoRequest DEF PageInv, ActiveIsTracked, Tracking, Posting
<1>2. BusyHasCause'
  BY <1>0, Words, NoneIsNoRequest DEF PageInv, BusyHasCause, ApprovalIsPosted, Busy, Tracking, Posting
<1>3. NoInferredSuccess'
  BY <1>0, Words, NoneIsNoRequest DEF PageInv, NoInferredSuccess, Kept, StaysComplete, TypeOK
<1>4. NotAheadOfServer'
  BY <1>0, Words, NoneIsNoRequest DEF PageInv, NotAheadOfServer, Kept, StaysLogged, TypeOK
<1>5. OneStory'
  BY <1>0, Words, NoneIsNoRequest DEF PageInv, OneStory, OneFollowed, Kept, StaysLogged, TypeOK, Open, Posting, Tracking, Busy
<1>6. OneFollowed'
  BY <1>0, Words, NoneIsNoRequest DEF PageInv, OneStory, OneFollowed, Open, Posting, Tracking, Busy
<1>7. ApprovalIsPosted'
  BY <1>0, Words, NoneIsNoRequest DEF PageInv, ApprovalIsPosted, Posting
<1> QED  BY <1>1, <1>2, <1>3, <1>4, <1>5, <1>6, <1>7 DEF PageInv

LEMMA ApprovePage ==
    ASSUME TypeOK, PageInv, Kept, NEW r \in Requests, Approve(r)
    PROVE  PageInv'
<1>0. /\ ~Busy /\ pc[r] = "new" /\ result # None /\ job # None
      /\ of' = [of EXCEPT ![r] = job]
      /\ pc' = [pc EXCEPT ![r] = "posted"]
      /\ raced' = (raced \/ \E q \in Requests : Open(q))
      /\ pc \in [Requests -> Live \cup {"new", "posted", "accepted", "done"}]
      /\ of \in [Requests -> Requests \cup {None}]
      /\ UNCHANGED <<phase, job, result, error, activeRef, cancelledRef>>
  BY DEF TypeOK, Approve, Fresh, Goes, Races, shownVars, refVars
<1>1. ActiveIsTracked'
  BY <1>0, Words, NoneIsNoRequest DEF PageInv, ActiveIsTracked, Tracking, Posting
<1>2. BusyHasCause'
  BY <1>0, Words, NoneIsNoRequest DEF PageInv, BusyHasCause, ApprovalIsPosted, Busy, Tracking, Posting
<1>3. NoInferredSuccess'
  BY <1>0, Words, NoneIsNoRequest DEF PageInv, NoInferredSuccess, Kept, StaysComplete, TypeOK
<1>4. NotAheadOfServer'
  BY <1>0, Words, NoneIsNoRequest DEF PageInv, NotAheadOfServer, Kept, StaysLogged, TypeOK
<1>5. OneStory'
  BY <1>0, Words, NoneIsNoRequest DEF PageInv, OneStory, OneFollowed, Kept, StaysLogged, TypeOK, Open, Posting, Tracking, Busy
<1>6. OneFollowed'
  BY <1>0, Words, NoneIsNoRequest DEF PageInv, OneStory, OneFollowed, Open, Posting, Tracking, Busy
<1>7. ApprovalIsPosted'
  BY <1>0, Words, NoneIsNoRequest DEF PageInv, ApprovalIsPosted, Posting
<1> QED  BY <1>1, <1>2, <1>3, <1>4, <1>5, <1>6, <1>7 DEF PageInv

LEMMA ServedPage ==
    ASSUME TypeOK, PageInv, Kept, NEW r \in Requests, PostIsServed(r)
    PROVE  PageInv'
<1>0. /\ pc[r] = "posted" /\ pc' = [pc EXCEPT ![r] = "accepted"]
      /\ pc \in [Requests -> Live \cup {"new", "posted", "accepted", "done"}]
      /\ of \in [Requests -> Requests \cup {None}]
      /\ UNCHANGED <<phase, job, result, error, activeRef, cancelledRef, of, raced>>
  BY DEF TypeOK, PostIsServed, Goes, shownVars, refVars, askVars
<1>1. ActiveIsTracked'
  BY <1>0, Words, NoneIsNoRequest DEF PageInv, ActiveIsTracked, Tracking, Posting
<1>2. BusyHasCause'
  BY <1>0, Words, NoneIsNoRequest DEF PageInv, BusyHasCause, ApprovalIsPosted, Busy, Tracking, Posting
<1>3. NoInferredSuccess'
  BY <1>0, Words, NoneIsNoRequest DEF PageInv, NoInferredSuccess, Kept, StaysComplete, TypeOK
<1>4. NotAheadOfServer'
  BY <1>0, Words, NoneIsNoRequest DEF PageInv, NotAheadOfServer, Kept, StaysLogged, TypeOK
<1>5. OneStory'
  BY <1>0, Words, NoneIsNoRequest DEF PageInv, OneStory, OneFollowed, Kept, StaysLogged, TypeOK, Open, Posting, Tracking, Busy
<1>6. OneFollowed'
  BY <1>0, Words, NoneIsNoRequest DEF PageInv, OneStory, OneFollowed, Open, Posting, Tracking, Busy
<1>7. ApprovalIsPosted'
  BY <1>0, Words, NoneIsNoRequest DEF PageInv, ApprovalIsPosted, Posting
<1> QED  BY <1>1, <1>2, <1>3, <1>4, <1>5, <1>6, <1>7 DEF PageInv

LEMMA PostFailsPage ==
    ASSUME TypeOK, PageInv, Kept, NEW r \in Requests, PostFails(r)
    PROVE  PageInv'
<1>0. /\ Posting(r) /\ pc' = [pc EXCEPT ![r] = "done"]
      /\ error' = "retryable" /\ phase' = "error"
      /\ of' = [of EXCEPT ![r] = None]
      /\ pc \in [Requests -> Live \cup {"new", "posted", "accepted", "done"}]
      /\ of \in [Requests -> Requests \cup {None}]
      /\ UNCHANGED <<job, result, activeRef, cancelledRef, raced>>
  BY DEF TypeOK, PostFails, Goes, refVars
<1>1. ActiveIsTracked'
  BY <1>0, Words, NoneIsNoRequest DEF PageInv, ActiveIsTracked, Tracking, Posting
<1>2. BusyHasCause'
  BY <1>0, Words, NoneIsNoRequest DEF PageInv, BusyHasCause, ApprovalIsPosted, Busy, Tracking, Posting
<1>3. NoInferredSuccess'
  BY <1>0, Words, NoneIsNoRequest DEF PageInv, NoInferredSuccess, Kept, StaysComplete, TypeOK
<1>4. NotAheadOfServer'
  BY <1>0, Words, NoneIsNoRequest DEF PageInv, NotAheadOfServer, Kept, StaysLogged, TypeOK
<1>5. OneStory'
  BY <1>0, Words, NoneIsNoRequest DEF PageInv, OneStory, OneFollowed, Kept, StaysLogged, TypeOK, Open, Posting, Tracking, Busy
<1>6. OneFollowed'
  BY <1>0, Words, NoneIsNoRequest DEF PageInv, OneStory, OneFollowed, Open, Posting, Tracking, Busy
<1>7. ApprovalIsPosted'
  BY <1>0, Words, NoneIsNoRequest DEF PageInv, ApprovalIsPosted, Posting
<1> QED  BY <1>1, <1>2, <1>3, <1>4, <1>5, <1>6, <1>7 DEF PageInv

LEMMA ExecutePage ==
    ASSUME TypeOK, PageInv, Kept, NEW r \in Requests, Execute(r)
    PROVE  PageInv'
<1>0. /\ pc[r] = "accepted" /\ pc' = [pc EXCEPT ![r] = "connect"]
      /\ activeRef' = r /\ cancelledRef' = FALSE
      /\ phase' \in {"queued", "starting"}
      /\ job' = r /\ result' = None /\ error' = "none"
      /\ of' = [of EXCEPT ![r] = None]
      /\ pc \in [Requests -> Live \cup {"new", "posted", "accepted", "done"}]
      /\ of \in [Requests -> Requests \cup {None}]
      /\ UNCHANGED raced
  BY DEF TypeOK, Execute, Goes
<1>1. ActiveIsTracked'
  BY <1>0, Words, NoneIsNoRequest DEF PageInv, ActiveIsTracked, Tracking, Posting
<1>2. BusyHasCause'
  BY <1>0, Words, NoneIsNoRequest DEF PageInv, BusyHasCause, ApprovalIsPosted, Busy, Tracking, Posting
<1>3. NoInferredSuccess'
  BY <1>0, Words, NoneIsNoRequest DEF PageInv, NoInferredSuccess, Kept, StaysComplete, TypeOK
<1>4. NotAheadOfServer'
  BY <1>0, Words, NoneIsNoRequest DEF PageInv, NotAheadOfServer, Kept, StaysLogged, TypeOK
<1>5. OneStory'
  BY <1>0, Words, NoneIsNoRequest DEF PageInv, OneStory, OneFollowed, Kept, StaysLogged, TypeOK, Open, Posting, Tracking, Busy
<1>6. OneFollowed'
  BY <1>0, Words, NoneIsNoRequest DEF PageInv, OneStory, OneFollowed, Open, Posting, Tracking, Busy
<1>7. ApprovalIsPosted'
  BY <1>0, Words, NoneIsNoRequest DEF PageInv, ApprovalIsPosted, Posting
<1> QED  BY <1>1, <1>2, <1>3, <1>4, <1>5, <1>6, <1>7 DEF PageInv

LEMMA CancelPage ==
    ASSUME TypeOK, PageInv, Kept, Cancel
    PROVE  PageInv'
<1>0. /\ cancelledRef' = TRUE
      /\ UNCHANGED <<phase, job, result, error, activeRef, pc, of, raced>>
  BY DEF Cancel, shownVars, trackVars
<1>1. ActiveIsTracked'
  BY <1>0, Words, NoneIsNoRequest DEF PageInv, ActiveIsTracked, Tracking, Posting
<1>2. BusyHasCause'
  BY <1>0, Words, NoneIsNoRequest DEF PageInv, BusyHasCause, ApprovalIsPosted, Busy, Tracking, Posting
<1>3. NoInferredSuccess'
  BY <1>0, Words, NoneIsNoRequest DEF PageInv, NoInferredSuccess, Kept, StaysComplete, TypeOK
<1>4. NotAheadOfServer'
  BY <1>0, Words, NoneIsNoRequest DEF PageInv, NotAheadOfServer, Kept, StaysLogged, TypeOK
<1>5. OneStory'
  BY <1>0, Words, NoneIsNoRequest DEF PageInv, OneStory, OneFollowed, Kept, StaysLogged, TypeOK, Open, Posting, Tracking, Busy
<1>6. OneFollowed'
  BY <1>0, Words, NoneIsNoRequest DEF PageInv, OneStory, OneFollowed, Open, Posting, Tracking, Busy
<1>7. ApprovalIsPosted'
  BY <1>0, Words, NoneIsNoRequest DEF PageInv, ApprovalIsPosted, Posting
<1> QED  BY <1>1, <1>2, <1>3, <1>4, <1>5, <1>6, <1>7 DEF PageInv

LEMMA ResetPage ==
    ASSUME TypeOK, PageInv, Kept, Reset
    PROVE  PageInv'
<1>0. /\ ~Busy
      /\ phase' = "idle" /\ job' = None /\ result' = None /\ error' = "none"
      /\ raced' = (raced \/ \E q \in Requests : Open(q))
      /\ UNCHANGED <<activeRef, cancelledRef, pc, of>>
  BY DEF Reset, Races, refVars, trackVars
<1>1. ActiveIsTracked'
  BY <1>0, Words, NoneIsNoRequest DEF PageInv, ActiveIsTracked, Tracking, Posting
<1>2. BusyHasCause'
  BY <1>0, Words, NoneIsNoRequest DEF PageInv, BusyHasCause, ApprovalIsPosted, Busy, Tracking, Posting
<1>3. NoInferredSuccess'
  BY <1>0, Words, NoneIsNoRequest DEF PageInv, NoInferredSuccess, Kept, StaysComplete, TypeOK
<1>4. NotAheadOfServer'
  BY <1>0, Words, NoneIsNoRequest DEF PageInv, NotAheadOfServer, Kept, StaysLogged, TypeOK
<1>5. OneStory'
  BY <1>0, Words, NoneIsNoRequest DEF PageInv, OneStory, OneFollowed, Kept, StaysLogged, TypeOK, Open, Posting, Tracking, Busy
<1>6. OneFollowed'
  BY <1>0, Words, NoneIsNoRequest DEF PageInv, OneStory, OneFollowed, Open, Posting, Tracking, Busy
<1>7. ApprovalIsPosted'
  BY <1>0, Words, NoneIsNoRequest DEF PageInv, ApprovalIsPosted, Posting
<1> QED  BY <1>1, <1>2, <1>3, <1>4, <1>5, <1>6, <1>7 DEF PageInv

\* The five things that a step of an execution may do.
LEMMA GoesOnPage ==
    ASSUME TypeOK, PageInv, Kept, NEW r \in Requests, Tracking(r), Apart, GoesOn(r)
    PROVE  PageInv'
<1>0. /\ pc[r] \in Live /\ pc'[r] \in Live
      /\ \A q \in Requests : q # r => pc'[q] = pc[q]
      /\ activeRef \in Requests \cup {None}
      /\ UNCHANGED <<phase, job, result, error, activeRef, cancelledRef, of, raced>>
  <2>1. /\ pc \in [Requests -> Live \cup {"new", "posted", "accepted", "done"}]
        /\ pc' = [pc EXCEPT ![r] = pc'[r]]
    BY DEF TypeOK, GoesOn
  <2>2. \A q \in Requests : q # r => pc'[q] = pc[q]
    BY <2>1
  <2> QED  BY <2>2 DEF TypeOK, Tracking, GoesOn, Apart, askVars
<1>1. ActiveIsTracked'
  BY <1>0, Words, NoneIsNoRequest DEF PageInv, ActiveIsTracked, Tracking, Posting
<1>2. BusyHasCause'
  BY <1>0, Words, NoneIsNoRequest DEF PageInv, BusyHasCause, ApprovalIsPosted, Busy, Tracking, Posting
<1>3. NoInferredSuccess'
  BY <1>0, Words, NoneIsNoRequest DEF PageInv, NoInferredSuccess, Kept, StaysComplete, TypeOK
<1>4. NotAheadOfServer'
  BY <1>0, Words, NoneIsNoRequest DEF PageInv, NotAheadOfServer, Kept, StaysLogged, TypeOK
<1>5. OneStory'
  BY <1>0, Words, NoneIsNoRequest DEF PageInv, OneStory, OneFollowed, Kept, StaysLogged, TypeOK, Open, Posting, Tracking, Busy
<1>6. OneFollowed'
  BY <1>0, Words, NoneIsNoRequest DEF PageInv, OneStory, OneFollowed, Open, Posting, Tracking, Busy
<1>7. ApprovalIsPosted'
  BY <1>0, Words, NoneIsNoRequest DEF PageInv, ApprovalIsPosted, Posting
<1> QED  BY <1>1, <1>2, <1>3, <1>4, <1>5, <1>6, <1>7 DEF PageInv

LEMMA ShowsPage ==
    ASSUME TypeOK, PageInv, Kept, ReportedInv, NEW r \in Requests, Tracking(r), Apart, ShowsLogged(r)
    PROVE  PageInv'
<1>0. /\ pc[r] \in Live
      /\ UNCHANGED <<job, result, error, activeRef, cancelledRef, pc, of, raced, outcome, log>>
      /\ Logged(r, "complete") => outcome[r] = "complete"
      /\ \A q \in Requests, status \in Statuses : Logged(q, status)' <=> Logged(q, status)
      /\ \/ phase' = phase
         \/ activeRef = r /\ phase' = "success" /\ Logged(r, "complete")
         \/ activeRef = r /\ phase' \in {"queued", "running"} /\ Logged(r, phase')
  <2>1. PICK status \in Statuses : Logged(r, status) /\ ShowsEvent(r, status)
    BY DEF ShowsLogged
  <2>2. \/ phase' = phase
        \/ activeRef = r /\ phase' = "success" /\ Logged(r, "complete")
        \/ activeRef = r /\ phase' \in {"queued", "running"} /\ Logged(r, phase')
    BY <2>1, Words DEF ShowsEvent
  <2>3. UNCHANGED <<job, result, error, activeRef, cancelledRef, pc, of, raced, outcome, log>>
    BY DEF ShowsLogged, Apart, askVars
  <2>4. \A q \in Requests, s \in Statuses : Logged(q, s)' <=> Logged(q, s)
    BY <2>3 DEF Logged
  <2> QED  BY <2>2, <2>3, <2>4 DEF Tracking, ReportedInv, LogInv
<1>1. ActiveIsTracked'
  BY <1>0, Words, NoneIsNoRequest DEF PageInv, ActiveIsTracked, Tracking, Posting
<1>2. BusyHasCause'
  BY <1>0, Words, NoneIsNoRequest DEF PageInv, BusyHasCause, ApprovalIsPosted, Busy, Tracking, Posting
<1>3. NoInferredSuccess'
  BY <1>0, Words, NoneIsNoRequest DEF PageInv, NoInferredSuccess, Kept, StaysComplete, TypeOK
<1>4. NotAheadOfServer'
  BY <1>0, Words, NoneIsNoRequest DEF PageInv, NotAheadOfServer, Kept, StaysLogged, TypeOK
<1>5. OneStory'
  BY <1>0, Words, NoneIsNoRequest DEF PageInv, OneStory, OneFollowed, Kept, StaysLogged, TypeOK, Open, Posting, Tracking, Busy
<1>6. OneFollowed'
  BY <1>0, Words, NoneIsNoRequest DEF PageInv, OneStory, OneFollowed, Open, Posting, Tracking, Busy
<1>7. ApprovalIsPosted'
  BY <1>0, Words, NoneIsNoRequest DEF PageInv, ApprovalIsPosted, Posting
<1> QED  BY <1>1, <1>2, <1>3, <1>4, <1>5, <1>6, <1>7 DEF PageInv

LEMMA EndsQuietlyPage ==
    ASSUME TypeOK, PageInv, Kept, ReportedInv, NEW r \in Requests, Tracking(r), Apart, EndsQuietly(r)
    PROVE  PageInv'
<1>0. /\ cancelledRef /\ UNCHANGED <<phase, job, result, error, cancelledRef, of, raced>>
      /\ activeRef # r \/ ~Logged(r, "complete")
      /\ pc[r] \in Live /\ pc' = [pc EXCEPT ![r] = "done"]
      /\ pc \in [Requests -> Live \cup {"new", "posted", "accepted", "done"}]
      /\ of \in [Requests -> Requests \cup {None}]
      /\ activeRef \in Requests \cup {None}
      /\ activeRef' = IF activeRef = r THEN None ELSE activeRef
  BY DEF TypeOK, EndsQuietly, Ends, Goes, Tracking, Apart, askVars, ReportedInv, LogInv
<1>1. ActiveIsTracked'
  BY <1>0, Words, NoneIsNoRequest DEF PageInv, ActiveIsTracked, Tracking, Posting
<1>2. BusyHasCause'
  BY <1>0, Words, NoneIsNoRequest DEF PageInv, BusyHasCause, ApprovalIsPosted, Busy, Tracking, Posting
<1>3. NoInferredSuccess'
  BY <1>0, Words, NoneIsNoRequest DEF PageInv, NoInferredSuccess, Kept, StaysComplete, TypeOK
<1>4. NotAheadOfServer'
  BY <1>0, Words, NoneIsNoRequest DEF PageInv, NotAheadOfServer, Kept, StaysLogged, TypeOK
<1>5. OneStory'
  BY <1>0, Words, NoneIsNoRequest DEF PageInv, OneStory, OneFollowed, Kept, StaysLogged, TypeOK, Open, Posting, Tracking, Busy
<1>6. OneFollowed'
  BY <1>0, Words, NoneIsNoRequest DEF PageInv, OneStory, OneFollowed, Open, Posting, Tracking, Busy
<1>7. ApprovalIsPosted'
  BY <1>0, Words, NoneIsNoRequest DEF PageInv, ApprovalIsPosted, Posting
<1> QED  BY <1>1, <1>2, <1>3, <1>4, <1>5, <1>6, <1>7 DEF PageInv

LEMMA EndsWellPage ==
    ASSUME TypeOK, PageInv, Kept, ReportedInv, NEW r \in Requests, Tracking(r), Apart, EndsWell(r)
    PROVE  PageInv'
<1>0. /\ phase' = "success" /\ result' = r /\ UNCHANGED <<job, error, cancelledRef, of, raced>>
      /\ outcome'[r] = "complete"
      /\ pc[r] \in Live /\ pc' = [pc EXCEPT ![r] = "done"]
      /\ pc \in [Requests -> Live \cup {"new", "posted", "accepted", "done"}]
      /\ of \in [Requests -> Requests \cup {None}]
      /\ activeRef \in Requests \cup {None}
      /\ activeRef' = IF activeRef = r THEN None ELSE activeRef
  BY DEF TypeOK, EndsWell, Succeeds, Ends, Goes, Tracking, Apart, askVars, ReportedInv, LogInv
<1>1. ActiveIsTracked'
  BY <1>0, Words, NoneIsNoRequest DEF PageInv, ActiveIsTracked, Tracking, Posting
<1>2. BusyHasCause'
  BY <1>0, Words, NoneIsNoRequest DEF PageInv, BusyHasCause, ApprovalIsPosted, Busy, Tracking, Posting
<1>3. NoInferredSuccess'
  BY <1>0, Words, NoneIsNoRequest DEF PageInv, NoInferredSuccess, Kept, StaysComplete, TypeOK
<1>4. NotAheadOfServer'
  BY <1>0, Words, NoneIsNoRequest DEF PageInv, NotAheadOfServer, Kept, StaysLogged, TypeOK
<1>5. OneStory'
  BY <1>0, Words, NoneIsNoRequest DEF PageInv, OneStory, OneFollowed, Kept, StaysLogged, TypeOK, Open, Posting, Tracking, Busy
<1>6. OneFollowed'
  BY <1>0, Words, NoneIsNoRequest DEF PageInv, OneStory, OneFollowed, Open, Posting, Tracking, Busy
<1>7. ApprovalIsPosted'
  BY <1>0, Words, NoneIsNoRequest DEF PageInv, ApprovalIsPosted, Posting
<1> QED  BY <1>1, <1>2, <1>3, <1>4, <1>5, <1>6, <1>7 DEF PageInv

LEMMA EndsBadlyPage ==
    ASSUME TypeOK, PageInv, Kept, NEW r \in Requests, Tracking(r), Apart, EndsBadly(r)
    PROVE  PageInv'
<1>0. /\ phase' = "error" /\ UNCHANGED <<job, result, cancelledRef, of, raced>>
      /\ pc[r] \in Live /\ pc' = [pc EXCEPT ![r] = "done"]
      /\ pc \in [Requests -> Live \cup {"new", "posted", "accepted", "done"}]
      /\ of \in [Requests -> Requests \cup {None}]
      /\ activeRef \in Requests \cup {None}
      /\ activeRef' = IF activeRef = r THEN None ELSE activeRef
  BY DEF TypeOK, EndsBadly, Fails, Ends, Goes, Tracking, Apart, askVars
<1>1. ActiveIsTracked'
  BY <1>0, Words, NoneIsNoRequest DEF PageInv, ActiveIsTracked, Tracking, Posting
<1>2. BusyHasCause'
  BY <1>0, Words, NoneIsNoRequest DEF PageInv, BusyHasCause, ApprovalIsPosted, Busy, Tracking, Posting
<1>3. NoInferredSuccess'
  BY <1>0, Words, NoneIsNoRequest DEF PageInv, NoInferredSuccess, Kept, StaysComplete, TypeOK
<1>4. NotAheadOfServer'
  BY <1>0, Words, NoneIsNoRequest DEF PageInv, NotAheadOfServer, Kept, StaysLogged, TypeOK
<1>5. OneStory'
  BY <1>0, Words, NoneIsNoRequest DEF PageInv, OneStory, OneFollowed, Kept, StaysLogged, TypeOK, Open, Posting, Tracking, Busy
<1>6. OneFollowed'
  BY <1>0, Words, NoneIsNoRequest DEF PageInv, OneStory, OneFollowed, Open, Posting, Tracking, Busy
<1>7. ApprovalIsPosted'
  BY <1>0, Words, NoneIsNoRequest DEF PageInv, ApprovalIsPosted, Posting
<1> QED  BY <1>1, <1>2, <1>3, <1>4, <1>5, <1>6, <1>7 DEF PageInv

Inv == TypeOK /\ ReportedInv /\ PageInv

LEMMA InvInit == Init => Inv
<1> SUFFICES ASSUME Init
             PROVE  Inv
  OBVIOUS
<1>1. TypeOK
  BY TypeInit
<1>2. /\ line = <<>> /\ active = None /\ log = [r \in Requests |-> <<>>]
      /\ phase = "idle" /\ result = None /\ error = "none" /\ activeRef = None
      /\ pc = [r \in Requests |-> "new"] /\ of = [r \in Requests |-> None]
  BY DEF Init, Server!Init
<1>3. ReportedInv
  BY <1>2 DEF ReportedInv, QueueInv, LogInv, Logged
<1>4. /\ ActiveIsTracked /\ BusyHasCause /\ NoInferredSuccess /\ NotAheadOfServer
  BY <1>2 DEF ActiveIsTracked, BusyHasCause, Busy, BusyPhases, NoInferredSuccess, NotAheadOfServer
<1>5. /\ OneStory /\ OneFollowed /\ ApprovalIsPosted
  BY <1>2 DEF OneStory, OneFollowed, ApprovalIsPosted, Open, Posting, Tracking, Live
<1> QED  BY <1>1, <1>3, <1>4, <1>5 DEF Inv, PageInv

LEMMA InvStep == Inv /\ [Next]_vars => Inv'
<1> SUFFICES ASSUME Inv, [Next]_vars
             PROVE  Inv'
  OBVIOUS
<1>0. TypeOK /\ ReportedInv /\ PageInv
  BY DEF Inv
<1>1. TypeOK'
  <2>1. CASE UNCHANGED vars
    BY <1>0, <2>1 DEF TypeOK, vars, serverVars, shownVars, refVars, trackVars, askVars
  <2>2. CASE Next
    BY <1>0, <2>2, ServerStepTypes, OperatorStepTypes, PostStepTypes, FollowStepTypes DEF Next
  <2> QED  BY <2>1, <2>2
<1>2. CASE UNCHANGED vars
  <2>1. /\ UNCHANGED <<line, active, outcome, log>>
        /\ UNCHANGED <<shownVars, refVars, pc, of, raced>>
    BY <1>2 DEF vars, serverVars, trackVars, askVars
  <2>2. ReportedInv' /\ Kept
    BY <1>0, <2>1, OthersKeep DEF Kept
  <2> QED  BY <1>0, <1>1, <2>1, <2>2, PageStays DEF Inv
<1>3. CASE ServerStep
  <2>1. ReportedInv' /\ Kept
    BY <1>0, <1>3, ServerKeeps DEF Kept
  <2>2. UNCHANGED <<shownVars, refVars, pc, of, raced>>
    BY <1>3 DEF ServerStep, ServerStarts, ServerFinishes, ServerWithdraws, ServerRelabels, ServerReleases,
                ServerOnly, trackVars, askVars
  <2> QED  BY <1>0, <1>1, <2>1, <2>2, PageStays DEF Inv
<1>4. CASE OperatorStep
  <2>1. UNCHANGED <<line, active, outcome, log>>
    BY <1>4 DEF OperatorStep, Run, Approve, Cancel, Reset, serverVars
  <2>2. ReportedInv' /\ Kept
    BY <1>0, <2>1, OthersKeep DEF Kept
  <2>3. PageInv'
    BY <1>0, <1>4, <2>2, RunPage, ApprovePage, CancelPage, ResetPage DEF OperatorStep
  <2> QED  BY <1>1, <2>2, <2>3 DEF Inv
<1>5. ASSUME NEW r \in Requests, PostIsServed(r)
      PROVE  Inv'
  <2>1. ReportedInv' /\ Kept
    BY <1>0, <1>5, ServerKeeps DEF Kept
  <2> QED  BY <1>0, <1>1, <1>5, <2>1, ServedPage DEF Inv
<1>6. ASSUME NEW r \in Requests, PostFails(r) \/ Execute(r)
      PROVE  Inv'
  <2>1. UNCHANGED <<line, active, outcome, log>>
    BY <1>6 DEF PostFails, Execute, serverVars
  <2>2. ReportedInv' /\ Kept
    BY <1>0, <2>1, OthersKeep DEF Kept
  <2> QED  BY <1>0, <1>1, <1>6, <2>2, PostFailsPage, ExecutePage DEF Inv
<1>7. ASSUME NEW r \in Requests, FollowStep(r)
      PROVE  Inv'
  <2>1. /\ Tracking(r) /\ Apart
        /\ GoesOn(r) \/ ShowsLogged(r) \/ EndsQuietly(r) \/ EndsWell(r) \/ EndsBadly(r)
    BY <1>0, <1>7, FollowKinds
  <2>2. ReportedInv' /\ Kept
    BY <1>0, <2>1, OthersKeep DEF Kept, Apart
  <2>3. PageInv'
    BY <1>0, <2>1, <2>2, GoesOnPage, ShowsPage, EndsQuietlyPage, EndsWellPage, EndsBadlyPage
  <2> QED  BY <1>1, <2>2, <2>3 DEF Inv
<1>8. ASSUME NEW r \in Requests, DeleteReturns(r)
      PROVE  Inv'
  <2>1. /\ UNCHANGED <<line, active, outcome, log>>
        /\ UNCHANGED <<shownVars, refVars, pc, of, raced>>
    BY <1>8 DEF DeleteReturns, serverVars
  <2>2. ReportedInv' /\ Kept
    BY <1>0, <2>1, OthersKeep DEF Kept
  <2> QED  BY <1>0, <1>1, <2>1, <2>2, PageStays DEF Inv
<1> QED  BY <1>2, <1>3, <1>4, <1>5, <1>6, <1>7, <1>8 DEF Next, PostStep

LEMMA InvCorrect == Spec => []Inv
  BY InvInit, InvStep, PTL DEF Spec

\* A busy page has something that will end it, or has been cancelled: no order
\* of answers, losses, retries and overlapping requests leaves it dead.
THEOREM BusyHasCauseHolds == Spec => []BusyHasCause
<1>1. Inv => BusyHasCause
  BY DEF Inv, PageInv
<1> QED  BY InvCorrect, <1>1, PTL

\* The refs that cancel uses never point to an execution that has ended.
THEOREM ActiveIsTrackedHolds == Spec => []ActiveIsTracked
<1>1. Inv => ActiveIsTracked
  BY DEF Inv, PageInv
<1> QED  BY InvCorrect, <1>1, PTL

\* Success and results are shown only of jobs that the server has completed.
THEOREM NoInferredSuccessHolds == Spec => []NoInferredSuccess
<1>1. Inv => NoInferredSuccess
  BY DEF Inv, PageInv
<1> QED  BY InvCorrect, <1>1, PTL

\* The page does not say running of a current job that has not been started.
THEOREM NotAheadOfServerHolds == Spec => []NotAheadOfServer
<1>1. Inv => NotAheadOfServer
  BY DEF Inv, PageInv
<1> QED  BY InvCorrect, <1>1, PTL

\* Without overlapping use of the controls the page tells one story, about one
\* request.
THEOREM OneStoryHolds == Spec => []OneStory
<1>1. Inv => OneStory
  BY DEF Inv, PageInv
<1> QED  BY InvCorrect, <1>1, PTL

----------------------------------------------------------------------------
(***************************************************************************)
(* The server that the page meets is JobQueue and nothing else.            *)
(***************************************************************************)
LEMMA ServerIsJobQueue ==
    ASSUME TypeOK, [Next]_vars
    PROVE  [Server!Next]_(Server!queueVars)
<1> USE DEF Server!queueVars
<1>1. CASE ServerStep
  <2>1. Terminal = Server!Outcomes
    BY DEF Terminal, Server!Outcomes
  <2> QED  BY <1>1, <2>1 DEF ServerStep, ServerStarts, ServerFinishes, ServerWithdraws,
                             ServerRelabels, ServerReleases, Server!Next
<1>2. CASE OperatorStep
  BY <1>2 DEF OperatorStep, Run, Approve, Cancel, Reset, serverVars
<1>3. ASSUME NEW r \in Requests, PostStep(r)
      PROVE  [Server!Next]_(Server!queueVars)
  BY <1>3 DEF PostStep, PostIsServed, PostFails, Execute, serverVars, Server!Next
<1>4. ASSUME NEW r \in Requests, FollowStep(r)
      PROVE  [Server!Next]_(Server!queueVars)
  BY <1>4, FollowKinds DEF Apart
<1>5. ASSUME NEW r \in Requests, DeleteReturns(r)
      PROVE  [Server!Next]_(Server!queueVars)
  BY <1>5 DEF DeleteReturns, serverVars
<1>6. CASE UNCHANGED vars
  BY <1>6 DEF vars, serverVars
<1> QED  BY <1>1, <1>2, <1>3, <1>4, <1>5, <1>6 DEF Next

\* Whatever the page does, and whatever the network loses, the server behind it
\* behaves as JobQueue promises, which is what Coordinator implements: no answer,
\* retry or cancellation of main.jsx asks more of queue.py than that.
THEOREM ConsoleUsesJobQueue == Spec => Server!Spec
<1>1. Init => Server!Init
  BY DEF Init
<1>2. TypeOK /\ [Next]_vars => [Server!Next]_(Server!queueVars)
  BY ServerIsJobQueue
<1> QED  BY <1>1, <1>2, TypeCorrect, PTL DEF Spec, Server!Spec

----------------------------------------------------------------------------
(***************************************************************************)
(* The retries of an execution are bounded: what TrackingEnds rests on     *)
(* when the timer is not the one to end it.                                *)
(***************************************************************************)
\* The awaits left to an execution: a failure costs an attempt and leads to
\* recheck, sleep and the next connection.
AwaitRank(p) ==
    CASE p = "recheck" -> 5 [] p = "sleep" -> 4 [] p = "connect" -> 3 [] p = "stream" -> 2 [] OTHER -> 1
AwaitsLeft(r) == 5 * (MaxAttempts - attempts[r]) + AwaitRank(pc[r])

\* A step leaves the execution at its await, or leaves it fewer awaits, or ends it:
\* no order of losses, answers and events makes it go round for ever.
RetriesRunOut ==
    [][\A r \in Requests : Tracking(r) /\ Tracking(r)' =>
          AwaitsLeft(r)' < AwaitsLeft(r) \/ UNCHANGED <<pc[r], attempts[r]>>]_vars

\* The last step of an execution before its next await.
Advances(r) == AwaitsLeft(r)' < AwaitsLeft(r) \/ ~ Tracking(r)' \/ UNCHANGED <<pc[r], attempts[r]>>

LEMMA FollowsAdvances ==
    ASSUME TypeOK, NEW r \in Requests, NEW to \in Live, Follows(r, to), UNCHANGED attempts,
           AwaitRank(to) < AwaitRank(pc[r])
    PROVE  Advances(r)
<1>1. pc'[r] = to /\ attempts'[r] = attempts[r] /\ attempts[r] \in 0..2 /\ MaxAttempts = 2
  BY DEF Follows, Goes, TypeOK, MaxAttempts
<1>2. AwaitRank(to) \in 1..5 /\ AwaitRank(pc[r]) \in 1..5
  BY DEF AwaitRank
<1> QED  BY <1>1, <1>2 DEF Advances, AwaitsLeft

LEMMA EndsAdvances ==
    ASSUME TypeOK, NEW r \in Requests, Ends(r)
    PROVE  Advances(r)
  BY DEF Ends, Goes, TypeOK, Advances, Tracking, Live

LEMMA ThrowsAdvances ==
    ASSUME TypeOK, NEW r \in Requests, Throws(r), pc[r] \in {"connect", "stream", "status"}
    PROVE  Advances(r)
<1>1. CASE Fails(r, FALSE)
  BY <1>1, EndsAdvances DEF Fails
<1>2. CASE attempts' = [attempts EXCEPT ![r] = @ + 1] /\ Follows(r, "recheck")
  <2>1. /\ pc'[r] = "recheck" /\ attempts'[r] = attempts[r] + 1
        /\ attempts[r] \in 0..2 /\ MaxAttempts = 2
    BY <1>2 DEF Follows, Goes, TypeOK, MaxAttempts
  <2>2. AwaitRank(pc[r]) \in 1..3 /\ AwaitRank("recheck") = 5
    BY DEF AwaitRank
  <2> QED  BY <2>1, <2>2 DEF Advances, AwaitsLeft
<1> QED  BY <1>1, <1>2 DEF Throws

LEMMA FollowStepAdvances ==
    ASSUME TypeOK, NEW r \in Requests, FollowStep(r)
    PROVE  Advances(r)
<1>0. /\ {"connect", "stream", "status", "recheck", "sleep"} = Live
      /\ AwaitRank("recheck") = 5 /\ AwaitRank("sleep") = 4 /\ AwaitRank("connect") = 3
      /\ AwaitRank("stream") = 2 /\ AwaitRank("status") = 1
  BY DEF Live, AwaitRank
<1>1. CASE Connect(r)
  <2>1. pc[r] = "connect" /\ UNCHANGED attempts /\ (Follows(r, "stream") \/ Follows(r, "status"))
    BY <1>1 DEF Connect
  <2> QED  BY <1>0, <2>1, FollowsAdvances
<1>2. CASE StreamIsRefused(r) \/ StatusFails(r)
  BY <1>2, ThrowsAdvances DEF StreamIsRefused, StatusFails
<1>3. CASE Receives(r)
  BY <1>3, ThrowsAdvances DEF Receives, Advances
<1>4. CASE Heartbeat(r) \/ TimesOut(r)
  BY <1>4 DEF Heartbeat, TimesOut, trackVars, Advances
<1>5. CASE StreamCloses(r) \/ Aborts(r)
  BY <1>5, EndsAdvances DEF StreamCloses, Succeeds, Aborts, Fails
<1>6. CASE StreamBreaks(r)
  <2>1. pc[r] = "stream" /\ (Throws(r) \/ (Follows(r, "status") /\ UNCHANGED attempts))
    BY <1>6 DEF StreamBreaks
  <2> QED  BY <1>0, <2>1, FollowsAdvances, ThrowsAdvances
<1>7. EndsEmpty(r) => Advances(r)
  BY EndsAdvances DEF EndsEmpty, Fails
<1>8. CASE StatusArrives(r)
  BY <1>7, <1>8, EndsAdvances, ThrowsAdvances DEF StatusArrives, Succeeds
<1>9. CASE RecheckArrives(r)
  <2>1. \/ Succeeds(r) \/ EndsEmpty(r)
        \/ pc[r] = "recheck" /\ Follows(r, "sleep") /\ UNCHANGED attempts
    BY <1>9 DEF RecheckArrives
  <2> QED  BY <1>0, <1>7, <2>1, EndsAdvances, FollowsAdvances DEF Succeeds
<1>10. CASE RecheckFails(r)
  <2>1. Fails(r, FALSE) \/ (pc[r] = "recheck" /\ Follows(r, "sleep") /\ UNCHANGED attempts)
    BY <1>10 DEF RecheckFails
  <2> QED  BY <1>0, <2>1, EndsAdvances, FollowsAdvances DEF Fails
<1>11. CASE Wakes(r)
  <2>1. EndsEmpty(r) \/ (pc[r] = "sleep" /\ Follows(r, "connect") /\ UNCHANGED attempts)
    BY <1>11 DEF Wakes
  <2> QED  BY <1>0, <1>7, <2>1, FollowsAdvances
<1> QED  BY <1>1, <1>2, <1>3, <1>4, <1>5, <1>6, <1>8, <1>9, <1>10, <1>11 DEF FollowStep

\* A step of one request moves no other.
LEMMA FollowStepIsLocal ==
    ASSUME TypeOK, NEW q \in Requests, NEW r \in Requests, q # r, FollowStep(q)
    PROVE  UNCHANGED <<pc[r], attempts[r]>>
<1> DEFINE Apartly == pc'[r] = pc[r] /\ attempts'[r] = attempts[r]
<1>1. ASSUME NEW to, Follows(q, to), UNCHANGED attempts
      PROVE  Apartly
  BY <1>1 DEF Follows, Goes, TypeOK
<1>2. Ends(q) => Apartly
  BY DEF Ends, Goes, TypeOK
<1>3. Throws(q) => Apartly
  BY <1>2 DEF Throws, Fails, Follows, Goes, TypeOK
<1>4. EndsEmpty(q) \/ Succeeds(q) => Apartly
  BY <1>2 DEF EndsEmpty, Succeeds, Fails
<1>5. CASE Connect(q) \/ StreamIsRefused(q) \/ StatusFails(q) \/ StreamBreaks(q)
  BY <1>1, <1>3, <1>5 DEF Connect, StreamIsRefused, StatusFails, StreamBreaks
<1>6. CASE Receives(q) \/ Heartbeat(q) \/ TimesOut(q)
  BY <1>3, <1>6 DEF Receives, Heartbeat, TimesOut, trackVars
<1>7. CASE StreamCloses(q) \/ Aborts(q) \/ RecheckFails(q)
  BY <1>1, <1>2, <1>7 DEF StreamCloses, Succeeds, Aborts, Fails, RecheckFails
<1>8. CASE StatusArrives(q) \/ RecheckArrives(q) \/ Wakes(q)
  BY <1>1, <1>3, <1>4, <1>8 DEF StatusArrives, RecheckArrives, Wakes
<1> QED  BY <1>5, <1>6, <1>7, <1>8 DEF FollowStep

\* An execution passes at most 15 awaits, all the events of a stream being one, so
\* it opens at most three streams, even if the timer never fires (consumeJob).
THEOREM RetriesAreBounded ==
    Spec => /\ [](\A r \in Requests : AwaitsLeft(r) \in 1..15)
            /\ RetriesRunOut
<1>1. ASSUME TypeOK, NEW r \in Requests
      PROVE  AwaitsLeft(r) \in 1..15
  <2>1. attempts[r] \in 0..2 /\ MaxAttempts = 2
    BY <1>1 DEF TypeOK, MaxAttempts
  <2>2. AwaitRank(pc[r]) \in 1..5
    BY DEF AwaitRank
  <2> QED  BY <2>1, <2>2 DEF AwaitsLeft
<1>2. ASSUME TypeOK, [Next]_vars, NEW r \in Requests, Tracking(r)
      PROVE  Advances(r)
  <2>1. CASE ServerStep
    BY <2>1 DEF ServerStep, ServerStarts, ServerFinishes, ServerWithdraws, ServerRelabels,
                ServerReleases, ServerOnly, trackVars, Advances
  <2>2. CASE OperatorStep
    BY <1>2, <2>2 DEF OperatorStep, Run, Approve, Cancel, Reset, Fresh, Goes, trackVars, Tracking, Live,
                      TypeOK, Advances
  <2>3. ASSUME NEW q \in Requests, PostStep(q)
        PROVE  Advances(r)
    BY <1>2, <2>3 DEF PostStep, PostIsServed, PostFails, Execute, Posting, Goes, Tracking, Live, TypeOK,
                      Advances
  <2>4. ASSUME NEW q \in Requests, FollowStep(q)
        PROVE  Advances(r)
    <3>1. CASE q = r
      BY <1>2, <2>4, <3>1, FollowStepAdvances
    <3>2. CASE q # r
      BY <1>2, <2>4, <3>2, FollowStepIsLocal DEF Advances
    <3> QED  BY <3>1, <3>2
  <2>5. ASSUME NEW q \in Requests, DeleteReturns(q)
        PROVE  Advances(r)
    BY <2>5 DEF DeleteReturns, Advances
  <2>6. CASE UNCHANGED vars
    BY <2>6 DEF vars, trackVars, Advances
  <2> QED  BY <1>2, <2>1, <2>2, <2>3, <2>4, <2>5, <2>6 DEF Next
<1>3. TypeOK /\ [Next]_vars =>
        [\A r \in Requests : Tracking(r) /\ Tracking(r)' =>
            AwaitsLeft(r)' < AwaitsLeft(r) \/ UNCHANGED <<pc[r], attempts[r]>>]_vars
  BY <1>2 DEF Advances
<1>4. TypeOK => \A r \in Requests : AwaitsLeft(r) \in 1..15
  BY <1>1
<1> QED  BY <1>3, <1>4, TypeCorrect, PTL DEF Spec, RetriesRunOut
=============================================================================
