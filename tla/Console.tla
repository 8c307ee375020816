------------------------------ MODULE Console ------------------------------
(***************************************************************************)
(* The browser console (frontend/src/main.jsx) as the client of the        *)
(* analysis queue: App starts a job with a POST, follows its event stream, *)
(* polls its status when the stream fails, cancels it with a DELETE and    *)
(* gives up after a timeout.  The server is what JobQueue promises; the    *)
(* network loses connections, answers and whole requests as it likes.      *)
(*                                                                         *)
(* An action is what the code does between two awaits.  React renders      *)
(* after every such step, so a handler sees the state the last step left.  *)
(* A POST creates a job of its own (its client_request_id is fresh, an     *)
(* approval has none), so a request and its job share their name.          *)
(***************************************************************************)
EXTENDS Naturals, Sequences, FiniteSets

CONSTANTS
    MaxRequests,    \* bound: the POSTs that the operator makes
    QueueCapacity   \* how many jobs may wait at the server

\* The POSTs in the order in which they are made, and the jobs that they create.
Requests == 1..MaxRequests
None == 0

VARIABLES
    line, active, outcome, log, \* the server's queue and its streams, see JobQueue
    owned,          \* jobs of which the server believes a stream to be in use
    phase,          \* what the page shows: idle, a busy phase, success or error
    job,            \* the job that the page's buttons are about
    result,         \* the job whose result is shown
    error,          \* the error card: none, retryable or cancelled
    activeRef,      \* the execution that the refs (controller, timer) belong to
    cancelledRef,   \* the operator has cancelled since the last execution began
    pc,             \* per request: the await its handler is at
    attempts,       \* per request: failures of its stream
    sent,           \* per request: events its current stream has delivered
    aborted,        \* requests whose AbortController has been aborted
    of,             \* per request: the job whose approval is being posted, or None
    deleting,       \* jobs whose DELETE is outstanding
    asked,          \* jobs whose DELETE has been sent
    raced           \* history: the operator used a control while a request was open

serverVars == <<line, active, outcome, log, owned>>
shownVars == <<phase, job, result, error>>
refVars == <<activeRef, cancelledRef>>
trackVars == <<pc, attempts, sent, aborted>>
askVars == <<of, deleting, asked, raced>>
vars == <<serverVars, shownVars, refVars, trackVars, askVars>>

ASSUME ConsoleAssumption == MaxRequests \in Nat /\ QueueCapacity \in Nat

Server == INSTANCE JobQueue WITH Jobs <- Requests, NoJob <- None

MaxAttempts == 2

BusyPhases == {"starting", "queued", "running"}
Busy == phase \in BusyPhases

\* The awaits of consumeJob, in executeJob.
Live == {"connect", "stream", "status", "recheck", "sleep"}
Tracking(r) == pc[r] \in Live
Posting(r) == pc[r] \in {"posted", "accepted"}
Open(r) == Posting(r) \/ Tracking(r)

Terminal == {"complete", "failed", "cancelled"}
Statuses == {"queued", "running"} \cup Terminal

Logged(r, status) == \E i \in DOMAIN log[r] : log[r][i] = status

TypeOK ==
    /\ line \in Seq(Requests) /\ active \in Requests \cup {None}
    /\ outcome \in [Requests -> Terminal \cup {"absent", "pending"}]
    /\ log \in [Requests -> Seq(Statuses)]
    /\ owned \subseteq Requests
    /\ phase \in BusyPhases \cup {"idle", "success", "error"}
    /\ job \in Requests \cup {None} /\ result \in Requests \cup {None}
    /\ error \in {"none", "retryable", "cancelled"}
    /\ activeRef \in Requests \cup {None} /\ cancelledRef \in BOOLEAN
    /\ pc \in [Requests -> Live \cup {"new", "posted", "accepted", "done"}]
    /\ attempts \in [Requests -> 0..MaxAttempts]
    /\ sent \in [Requests -> Nat]
    /\ \A r \in Requests : sent[r] <= Len(log[r])
    /\ aborted \subseteq Requests
    /\ of \in [Requests -> Requests \cup {None}]
    /\ deleting \subseteq asked /\ asked \subseteq Requests
    /\ raced \in BOOLEAN

Init ==
    /\ Server!Init
    /\ owned = {}
    /\ phase = "idle" /\ job = None /\ result = None /\ error = "none"
    /\ activeRef = None /\ cancelledRef = FALSE
    /\ pc = [r \in Requests |-> "new"]
    /\ attempts = [r \in Requests |-> 0]
    /\ sent = [r \in Requests |-> 0]
    /\ aborted = {}
    /\ of = [r \in Requests |-> None]
    /\ deleting = {} /\ asked = {} /\ raced = FALSE

----------------------------------------------------------------------------
(***************************************************************************)
(* The server: JobQueue, whose log the streams replay.                     *)
(***************************************************************************)
ServerOnly == UNCHANGED <<owned, shownVars, refVars, trackVars, askVars>>

ServerStarts ==
    /\ Server!Start
    /\ ServerOnly

\* Only a DELETE cancels a job.
ServerFinishes(status) ==
    /\ status = "cancelled" => active \in asked
    /\ Server!Finish(status)
    /\ ServerOnly

ServerWithdraws(r) ==
    /\ r \in asked
    /\ Server!Withdraw(r)
    /\ ServerOnly

ServerRelabels(r) ==
    /\ Server!Relabel(r)
    /\ ServerOnly

\* The server notices that nobody reads a stream and closes its generator.
ServerReleases(r) ==
    /\ r \in owned
    /\ pc[r] # "stream"
    /\ owned' = owned \ {r}
    /\ UNCHANGED <<line, active, outcome, log, shownVars, refVars, trackVars, askVars>>

----------------------------------------------------------------------------
(***************************************************************************)
(* Starting a job: runRequest and approve.                                 *)
(***************************************************************************)
Goes(r, to) == pc' = [pc EXCEPT ![r] = to]

Fresh(r) == pc[r] = "new" /\ \A q \in Requests : q < r => pc[q] # "new"

Races == raced' = (raced \/ \E q \in Requests : Open(q))

\* runRequest, which submit, inject and retry call.
Run(r) ==
    /\ Fresh(r)
    /\ ~Busy
    /\ phase' = "starting" /\ error' = "none" /\ result' = None
    /\ Goes(r, "posted")
    /\ Races
    /\ UNCHANGED <<serverVars, job, refVars, attempts, sent, aborted, of, deleting, asked>>

\* approve: the button is there while a result is.  It shows nothing until
\* its POST is answered.  Any result may offer an approval.
Approve(r) ==
    /\ Fresh(r)
    /\ result # None
    /\ job # None
    /\ ~Busy
    /\ of' = [of EXCEPT ![r] = job]
    /\ Goes(r, "posted")
    /\ Races
    /\ UNCHANGED <<serverVars, shownVars, refVars, attempts, sent, aborted, deleting, asked>>

\* The server creates the job; of an approval, only if it has a complete job.
PostIsServed(r) ==
    /\ pc[r] = "posted"
    /\ of[r] # None => outcome[of[r]] = "complete"
    /\ Server!Enqueue(r)
    /\ Goes(r, "accepted")
    /\ UNCHANGED <<owned, shownVars, refVars, attempts, sent, aborted, askVars>>

\* Faulty variant: the catch clauses show the error and leave the phase.
PostFailsBusily(r) ==
    /\ Posting(r)
    /\ error' = "retryable"
    /\ Goes(r, "done")
    /\ of' = [of EXCEPT ![r] = None]
    /\ UNCHANGED <<serverVars, phase, job, result, refVars, attempts, sent, aborted, deleting,
                    asked, raced>>

\* The server refuses, or the request or its answer is lost: the catch clauses
\* of runRequest and approve.
PostFails(r) ==
    /\ Posting(r)
    /\ error' = "retryable" /\ phase' = "error"
    /\ Goes(r, "done")
    /\ of' = [of EXCEPT ![r] = None]
    /\ UNCHANGED <<serverVars, job, result, refVars, attempts, sent, aborted, deleting, asked, raced>>

\* executeJob up to its first await.  The answer's status is "queued" unless
\* the job had been started by then.
Execute(r) ==
    /\ pc[r] = "accepted"
    /\ activeRef' = r /\ cancelledRef' = FALSE
    /\ \/ phase' = "queued"
       \/ /\ Logged(r, "running")
          /\ phase' = "starting"
    /\ job' = r /\ result' = None /\ error' = "none"
    /\ of' = [of EXCEPT ![r] = None]
    /\ Goes(r, "connect")
    /\ UNCHANGED <<serverVars, attempts, sent, aborted, deleting, asked, raced>>

----------------------------------------------------------------------------
(***************************************************************************)
(* How an execution ends: the try, catch and finally of executeJob.        *)
(***************************************************************************)
\* Faulty variant: there is no finally clause.
EndsUnnoticed(r) ==
    /\ Goes(r, "done")
    /\ attempts' = [attempts EXCEPT ![r] = 0]
    /\ sent' = [sent EXCEPT ![r] = 0]
    /\ aborted' = aborted \ {r}
    /\ UNCHANGED <<activeRef, cancelledRef, job>>

\* Its local variables, among them the controller, go with it.
Ends(r) ==
    /\ Goes(r, "done")
    /\ attempts' = [attempts EXCEPT ![r] = 0]
    /\ sent' = [sent EXCEPT ![r] = 0]
    /\ aborted' = aborted \ {r}
    /\ activeRef' = IF activeRef = r THEN None ELSE activeRef
    /\ UNCHANGED <<cancelledRef, job>>

Succeeds(r) ==
    /\ result' = r /\ phase' = "success"
    /\ Ends(r)
    /\ UNCHANGED error

\* Faulty variant: a timeout shows its error and leaves the phase.
FailsBusily(r, byAbort) ==
    /\ error' = IF byAbort /\ ~cancelledRef THEN "retryable" ELSE "cancelled"
    /\ phase' = IF byAbort /\ ~cancelledRef THEN phase ELSE "error"
    /\ Ends(r)
    /\ UNCHANGED result

\* byAbort: the error is an AbortError.
Fails(r, byAbort) ==
    /\ error' = CASE byAbort /\ ~cancelledRef -> "retryable"
                  [] activeRef = r /\ cancelledRef -> "cancelled"
                  [] activeRef = r /\ ~cancelledRef -> "retryable"
                  [] OTHER -> error
    /\ phase' = "error"
    /\ Ends(r)
    /\ UNCHANGED result

\* consumeJob has returned null.
EndsEmpty(r) ==
    \/ /\ ~cancelledRef
       /\ Fails(r, FALSE)
    \/ /\ cancelledRef
       /\ Ends(r)
       /\ UNCHANGED <<phase, result, error>>

----------------------------------------------------------------------------
(***************************************************************************)
(* Following the job: consumeJob, readNdjson, handleEvent and statusOnce.  *)
(***************************************************************************)
\* The handler goes on to another await; a stream that it leaves is gone.
Follows(r, to) ==
    /\ Goes(r, to)
    /\ sent' = [sent EXCEPT ![r] = 0]
    /\ UNCHANGED <<shownVars, refVars, aborted>>

\* Faulty variant: one attempt more.
GivesUpLate(r) == cancelledRef \/ activeRef # r \/ attempts[r] > MaxAttempts

\* An error that is no AbortError reaches the catch clause of consumeJob.
GivesUp(r) == cancelledRef \/ activeRef # r \/ attempts[r] >= MaxAttempts

Throws(r) ==
    \/ /\ GivesUp(r)
       /\ Fails(r, FALSE)
    \/ /\ ~GivesUp(r)
       /\ attempts' = [attempts EXCEPT ![r] = @ + 1]
       /\ Follows(r, "recheck")

\* The stream is claimed, or reported as unavailable: a stream of one line
\* that ends without a result.
Connect(r) ==
    /\ pc[r] = "connect"
    /\ r \notin aborted
    /\ \/ /\ r \notin owned
          /\ owned' = owned \cup {r}
          /\ Follows(r, "stream")
       \/ /\ r \in owned
          /\ Follows(r, "status")
          /\ UNCHANGED owned
    /\ UNCHANGED <<line, active, outcome, log, attempts, askVars>>

\* handleEvent: only the current execution moves the phase.
ShowsEvent(r, status) ==
    phase' = IF activeRef # r \/ status \in {"failed", "cancelled"} THEN phase
             ELSE IF status = "complete" THEN "success" ELSE status

NextEvent(r) == log[r][sent[r] + 1]

Receives(r) ==
    /\ pc[r] = "stream"
    /\ r \notin aborted
    /\ sent[r] < Len(log[r])
    /\ \/ /\ NextEvent(r) \in {"failed", "cancelled"}
          /\ Throws(r)
       \/ /\ NextEvent(r) \notin {"failed", "cancelled"}
          /\ sent' = [sent EXCEPT ![r] = @ + 1]
          /\ ShowsEvent(r, NextEvent(r))
          /\ UNCHANGED <<job, result, error, refVars, pc, attempts, aborted>>
    /\ UNCHANGED <<serverVars, askVars>>

\* Every 30 seconds an idle stream repeats the job's status.
Heartbeat(r) ==
    /\ pc[r] = "stream"
    /\ r \notin aborted
    /\ sent[r] > 0 /\ sent[r] = Len(log[r])
    /\ log[r][sent[r]] \in {"queued", "running"}
    /\ ShowsEvent(r, log[r][sent[r]])
    /\ UNCHANGED <<serverVars, job, result, error, refVars, trackVars, askVars>>

HasResult(r) == sent[r] > 0 /\ log[r][sent[r]] = "complete"

\* The server ends the stream behind the terminal event.
StreamCloses(r) ==
    /\ pc[r] = "stream"
    /\ r \notin aborted
    /\ HasResult(r)
    /\ owned' = owned \ {r}
    /\ Succeeds(r)
    /\ UNCHANGED <<line, active, outcome, log, askVars>>

\* The connection is lost, with an error or as an early end of the stream.
StreamBreaks(r) ==
    /\ pc[r] = "stream"
    /\ r \notin aborted
    /\ \/ Throws(r)
       \/ /\ ~HasResult(r)
          /\ Follows(r, "status")
          /\ UNCHANGED attempts
    /\ UNCHANGED <<serverVars, askVars>>

StreamIsRefused(r) ==
    /\ pc[r] = "connect"
    /\ r \notin aborted
    /\ Throws(r)
    /\ UNCHANGED <<serverVars, askVars>>

\* Faulty variant: a status that is terminal counts as a result.
StatusArrivesTerminal(r) ==
    /\ pc[r] = "status"
    /\ r \notin aborted
    /\ IF activeRef = r /\ outcome[r] \in Terminal THEN Succeeds(r) ELSE Throws(r)
    /\ UNCHANGED <<serverVars, askVars>>

\* statusOnce behind a stream that has ended without a result.
StatusArrives(r) ==
    /\ pc[r] = "status"
    /\ r \notin aborted
    /\ \/ /\ activeRef = r /\ outcome[r] = "complete"
          /\ Succeeds(r)
       \/ /\ activeRef = r /\ outcome[r] \in {"failed", "cancelled"}
          /\ EndsEmpty(r)
       \/ /\ activeRef # r \/ outcome[r] = "pending"
          /\ Throws(r)
    /\ UNCHANGED <<serverVars, askVars>>

\* The answer is an error, is lost, or its body cannot be read.
StatusFails(r) ==
    /\ pc[r] = "status"
    /\ Throws(r)
    /\ UNCHANGED <<serverVars, askVars>>

\* statusOnce in the catch clause.
RecheckArrives(r) ==
    /\ pc[r] = "recheck"
    /\ r \notin aborted
    /\ \/ /\ activeRef = r /\ outcome[r] = "complete"
          /\ Succeeds(r)
       \/ /\ activeRef = r /\ outcome[r] \in {"failed", "cancelled"}
          /\ EndsEmpty(r)
       \/ /\ activeRef # r \/ outcome[r] = "pending"
          /\ Follows(r, "sleep")
          /\ UNCHANGED attempts
    /\ UNCHANGED <<serverVars, askVars>>

\* An error leaves consumeJob; a body that cannot be read counts as no news.
RecheckFails(r) ==
    /\ pc[r] = "recheck"
    /\ \/ /\ r \notin aborted
          /\ Fails(r, FALSE)
       \/ /\ Follows(r, "sleep")
          /\ UNCHANGED attempts
    /\ UNCHANGED <<serverVars, askVars>>

\* The back-off is over: the loop goes on if the execution is still current.
Wakes(r) ==
    /\ pc[r] = "sleep"
    /\ \/ /\ activeRef = r
          /\ Follows(r, "connect")
          /\ UNCHANGED attempts
       \/ /\ activeRef # r
          /\ EndsEmpty(r)
    /\ UNCHANGED <<serverVars, askVars>>

\* Faulty variant: an AbortError is taken for the operator's wish, and ignored.
AbortsSilently(r) ==
    /\ r \in aborted
    /\ pc[r] \in Live \ {"sleep"}
    /\ Ends(r)
    /\ UNCHANGED <<phase, result, error, serverVars, askVars>>

\* The abort makes the pending fetch or read fail with an AbortError.
Aborts(r) ==
    /\ r \in aborted
    /\ pc[r] \in Live \ {"sleep"}
    /\ Fails(r, TRUE)
    /\ UNCHANGED <<serverVars, askVars>>

\* Faulty variant: the next execution clears the timer of the one it supersedes.
TimesOutCurrent(r) ==
    /\ Tracking(r) /\ activeRef = r
    /\ r \notin aborted
    /\ aborted' = aborted \cup {r}
    /\ UNCHANGED <<shownVars, refVars>>
    /\ UNCHANGED <<serverVars, pc, attempts, sent, askVars>>

\* 125 seconds are over.  A superseded execution keeps its timer.
TimesOut(r) ==
    /\ Tracking(r)
    /\ r \notin aborted
    /\ aborted' = aborted \cup {r}
    /\ UNCHANGED <<shownVars, refVars>>
    /\ UNCHANGED <<serverVars, pc, attempts, sent, askVars>>

----------------------------------------------------------------------------
(***************************************************************************)
(* cancel and reset.                                                       *)
(***************************************************************************)
\* The button is part of the progress card.
Cancel ==
    /\ Busy
    /\ job # None /\ activeRef # None
    /\ cancelledRef' = TRUE
    /\ deleting' = deleting \cup {job}
    /\ asked' = asked \cup {job}
    /\ UNCHANGED <<serverVars, shownVars, activeRef, trackVars, of, raced>>

\* The DELETE is answered or fails: whatever controller is current is aborted.
DeleteReturns(r) ==
    /\ r \in deleting
    /\ deleting' = deleting \ {r}
    /\ aborted' = aborted \cup ({activeRef} \ {None})
    /\ UNCHANGED <<shownVars, refVars>>
    /\ UNCHANGED <<serverVars, pc, attempts, sent, of, asked, raced>>

Reset ==
    /\ ~Busy
    /\ phase' = "idle" /\ job' = None /\ result' = None /\ error' = "none"
    /\ Races
    /\ UNCHANGED <<serverVars, refVars, trackVars, of, deleting, asked>>

----------------------------------------------------------------------------
ServerStep ==
    \/ ServerStarts
    \/ \E status \in Terminal : ServerFinishes(status)
    \/ \E r \in Requests : ServerWithdraws(r) \/ ServerRelabels(r) \/ ServerReleases(r)

OperatorStep ==
    \/ \E r \in Requests : Run(r) \/ Approve(r)
    \/ Cancel
    \/ Reset

PostStep(r) == PostIsServed(r) \/ PostFails(r) \/ Execute(r)

FollowStep(r) ==
    \/ Connect(r) \/ StreamIsRefused(r)
    \/ Receives(r) \/ Heartbeat(r) \/ StreamCloses(r) \/ StreamBreaks(r)
    \/ StatusArrives(r) \/ StatusFails(r)
    \/ RecheckArrives(r) \/ RecheckFails(r) \/ Wakes(r)
    \/ Aborts(r) \/ TimesOut(r)

Next ==
    \/ ServerStep
    \/ OperatorStep
    \/ \E r \in Requests : PostStep(r) \/ FollowStep(r) \/ DeleteReturns(r)

Spec == Init /\ [][Next]_vars

\* The browser answers every fetch of a POST in the end, runs its timers and
\* lets an abort take effect.  The server and the operator owe nothing.
Fairness ==
    \A r \in Requests :
        /\ WF_vars(PostStep(r))
        /\ WF_vars(TimesOut(r))
        /\ WF_vars(Aborts(r))
        /\ WF_vars(Wakes(r))

FairSpec == Spec /\ Fairness

----------------------------------------------------------------------------
(***************************************************************************)
(* Properties.                                                             *)
(***************************************************************************)
\* The page is busy only while something will end it: a POST of runRequest is
\* unanswered or an execution is following its job.  Busy disables every
\* control but the cancel button, so a busy page with nothing behind it is
\* dead.  The exception is a cancellation, see SpinnerIsTracked.
BusyHasCause ==
    Busy => \/ \E r \in Requests : Tracking(r) \/ (Posting(r) /\ of[r] = None)
            \/ cancelledRef

\* activeRef, whose controller cancel aborts, never points to an execution
\* that has ended, also when executions overtake one another: the finally
\* clause clears the refs of its own execution and of no other.
ActiveIsTracked == activeRef # None => Tracking(activeRef)

\* "No success state was inferred" (InvestigatePage): a result is shown only of
\* a job that the server has completed, and the page says success only if one
\* of the jobs of this page has completed, whatever was lost, refused, late or
\* superseded on the way.
NoInferredSuccess ==
    /\ result # None => outcome[result] = "complete"
    /\ phase = "success" => \E r \in Requests : outcome[r] = "complete"

\* While an execution is current the page is not ahead of the server: it says
\* running only if the current job has been started, although streams of
\* superseded executions still deliver their events.
NotAheadOfServer ==
    activeRef # None /\ phase = "running" => Logged(activeRef, "running")

\* As long as the operator has used no control while a request was open, the
\* page tells one story: one request, the result of the job that its buttons
\* are about, an error only in the error phase, and controls that are enabled
\* while a request is open only during an approval's POST and between a
\* complete event and the end of its execution.
OneStory ==
    ~raced =>
        /\ \A q, r \in Requests : Open(q) /\ Open(r) => q = r
        /\ result # None => job = result
        /\ error # "none" => phase = "error"
        /\ phase = "success" /\ result = None => activeRef # None /\ Logged(activeRef, "complete")
        /\ \A r \in Requests : Open(r) /\ ~Busy => of[r] # None \/ Logged(r, "complete")

\* Every execution ends, even if the server never reports anything: the timer
\* aborts it and its retries are bounded.
TrackingEnds == \A r \in Requests : Tracking(r) ~> ~Tracking(r)

\* The page does not stay busy for ever, unless the operator cancels.
BusyEnds == Busy ~> (~Busy \/ cancelledRef)

\* "local cancellation still applies" (cancel): the page of a cancelled job
\* leaves its busy phase.  Violated: when statusOnce, and not the stream, brings
\* the news of the cancellation, executeJob ends without touching the phase.
SpinnerIsTracked == Busy => \E r \in Requests : Open(r)
=============================================================================
