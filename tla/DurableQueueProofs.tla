------------------------- MODULE DurableQueueProofs -------------------------
(***************************************************************************)
(* What DurableQueue promises for every set of jobs, every capacity, every *)
(* number of attempts and every number of crashes.                         *)
(***************************************************************************)
EXTENDS DurableQueue, TLAPS

(***************************************************************************)
(* The inductive invariant, in two parts.  The first one needs nothing     *)
(* about who runs: it compares the table that statements see with the one  *)
(* that was committed, because any thread's commit may replace the second  *)
(* by the first, and any thread's rollback the first by the second.        *)
(***************************************************************************)
\* A POST that has not inserted its row finds none under its id.
NotYetInserted ==
    \A j \in Jobs : submit[j] \in {"idle", "count", "insert"}
                       => working[j].status = "absent" /\ committed[j].status = "absent"

\* A row that may still be claimed has an attempt left.
AttemptsLeft(rows) ==
    \A j \in Jobs :
        /\ rows[j].attempts <= MaxAttempts
        /\ rows[j].status \in {"absent", "queued"} => rows[j].attempts < MaxAttempts

OneRunning(rows) ==
    \A i, j \in Jobs : rows[i].status = "running" /\ rows[j].status = "running" => i = j

\* The newer table takes back neither an outcome nor a cancellation of the older
\* one, and has not handed out a job that was cancelled.
Follows(older, newer) ==
    \A j \in Jobs :
        /\ older[j].status \in TERMINAL => newer[j].status = older[j].status
        /\ older[j].cancel => newer[j].cancel
        /\ older[j].cancel => newer[j].attempts = older[j].attempts

TableInv ==
    /\ TypeOK
    /\ NotYetInserted
    /\ AttemptsLeft(committed) /\ AttemptsLeft(working)
    /\ OneRunning(committed) /\ OneRunning(working)
    /\ Follows(committed, working)

(***************************************************************************)
(* The second part holds as long as no POST was refused or failed, so that *)
(* only a crash, which forgets everything else, rolls back.                *)
(***************************************************************************)
Quiet == \A k \in Jobs : submit[k] \notin {"refused", "error"}

\* Only the job that _drain awaits is executed.
AliveIsAwaited ==
    \A j \in Jobs : process[j] \in Alive => drain = "awaiting" /\ taken = j

\* The row of j is being executed under a valid lease.
Leased(j) == working[j].status = "running" /\ ~ working[j].lapsed

NothingRaised ==
    /\ ~ broken
    /\ \A j \in Jobs : save[j] # "raised" /\ \A c \in Slots : erase[j][c].at # "raised"

\* A job is leased from its claim until a thread is asked to store its outcome.
LeasedWhileExecuted ==
    \A j \in Jobs :
       /\ process[j] \in {"scheduled", "working", "withdrawing"} => Leased(j) /\ Idle(save[j])
       /\ drain \in {"commit", "claimed"} /\ taken = j => Leased(j) /\ Idle(save[j])

\* A thread that stores an outcome finds the row leased, even when nobody awaits it
\* any more, and what it has stored is what it was asked to store.
SavesFind ==
    \A j \in Jobs :
       /\ save[j] \in {"complete", "failed"} => Leased(j)
       /\ save[j] = "commit" => working[j].status \in TERMINAL
       /\ process[j] = "completing" =>
             \/ save[j] = "complete"
             \/ save[j] \in {"commit", "done"} /\ working[j].status = "complete"
       /\ process[j] = "failing" =>
             \/ save[j] = "failed"
             \/ save[j] \in {"commit", "done"} /\ working[j].status = "failed"

\* The cancellation that a process asks for finds the row.
ErasesFind ==
    \A j \in Jobs, c \in Slots :
       /\ erase[j][c].at \in {"first", "second"} => RowExists(working[j])
       /\ erase[j][c].at \in {"commit", "done"} => erase[j][c].saw # "absent"

\* An outcome that somebody has seen is the one in the table.
SeenIsStored ==
    \A j \in Jobs :
       /\ reported[j] \in TERMINAL => working[j].status = reported[j]
       /\ \A c \in Clients : read[j][c].status \in TERMINAL => working[j].status = read[j][c].status
       /\ \A c \in Callers : erase[j][c].at \in {"commit", "done"} /\ erase[j][c].saw \in TERMINAL
                                => working[j].status = erase[j][c].saw

\* The same for a job that a repeated POST has found.
FoundIsStored ==
    \A j \in Jobs : found[j].seen.status \in TERMINAL
                       => working[found[j].job].status = found[j].seen.status

QuietInv ==
    /\ NothingRaised
    /\ LeasedWhileExecuted
    /\ SavesFind
    /\ ErasesFind
    /\ SeenIsStored
    /\ FoundIsStored

IInv == TableInv /\ AliveIsAwaited /\ (Quiet => QuietInv)

(***************************************************************************)
(* What one statement does to the table, row by row.                       *)
(***************************************************************************)
\* Clients and the two places in _process are callers of store.cancel, and no client
\* is one of the places.
LEMMA CallersAre ==
    /\ "body" \in Slots /\ "handler" \in Slots
    /\ \A c \in Slots : c \in Callers
    /\ \A c \in Clients : c \in Callers /\ c \notin Slots
BY DurableJobsAssumption DEF Callers, Slots

\* The fields of a cancel_job thread.
LEMMA EraseTypes ==
    ASSUME ThreadsTyped, NEW j \in Jobs, NEW c \in Callers
    PROVE  erase[j][c] \in Erases /\ erase[j][c].saw \in Statuses
BY DEF ThreadsTyped, Erases

\* What a repeated POST has found is a job and its row.
LEMMA FoundTypes ==
    ASSUME CacheTyped, NEW j \in Jobs
    PROVE  /\ found[j] \in Founds
           /\ found[j].seen \in {NoSnapshot} \cup Snapshots
           /\ found[j].seen # NoSnapshot => found[j].job \in Jobs
           /\ found[j].seen.status \in TERMINAL => found[j].job \in Jobs
<1>1. /\ found[j] \in Founds
      /\ found[j].seen # NoSnapshot => found[j].job # NoJob
      BY DEF CacheTyped
<1>2. found[j].seen \in {NoSnapshot} \cup Snapshots /\ found[j].job \in Jobs \cup {NoJob}
      BY <1>1 DEF Founds
<1>3. NoSnapshot.status \notin TERMINAL
      BY DEF NoSnapshot, TERMINAL
<1>4. QED  BY <1>1, <1>2, <1>3

\* A snapshot is one, and has the row's status.
LEMMA SnapshotTypes ==
    ASSUME TableTyped, NEW j \in Jobs
    PROVE  /\ Snapshot(j) \in Snapshots /\ Snapshot(j) # NoSnapshot
           /\ Snapshot(j).status = working[j].status
<1>1. working[j] \in Rows
      BY DEF TableTyped
<1>2. working[j].status \in Statuses /\ working[j].cancel \in BOOLEAN
      BY <1>1 DEF Rows
<1>3. QED  BY <1>2 DEF Snapshot, Snapshots, NoSnapshot, Statuses, TERMINAL

OnlyRow(j) == \A k \in Jobs \ {j} : working'[k] = working[k]

\* The insert puts a row where there was none.
LEMMA InsertEffect ==
    ASSUME TypeOK, NEW j \in Jobs, SubmitInserts(j), ~ broken'
    PROVE  /\ working' \in [Jobs -> Rows]
           /\ OnlyRow(j)
           /\ working'[j].status = "queued"
           /\ working'[j].cancel = working[j].cancel
           /\ working'[j].attempts = working[j].attempts
<1>1. working' = [working EXCEPT ![j].status = "queued"]
      BY DEF SubmitInserts
<1>2. working \in [Jobs -> Rows]
      BY DEF TypeOK, TableTyped
<1>3. QED  BY <1>1, <1>2 DEF Rows, Statuses, OnlyRow

\* Only a lapsed row that is running is touched by claim_job's first statements.
LEMMA RecoverEffect ==
    ASSUME TypeOK, ClaimRecovers
    PROVE  /\ working' \in [Jobs -> Rows]
           /\ \A k \in Jobs :
                 /\ working'[k].cancel = working[k].cancel
                 /\ working'[k].attempts = working[k].attempts
                 /\ \/ working'[k] = working[k]
                    \/ /\ working[k].status = "running" /\ working[k].lapsed
                       /\ working'[k].status = IF working[k].attempts < MaxAttempts
                                               THEN "queued" ELSE "failed"
<1>1. \A r \in Rows :
         /\ Recovered(r) \in Rows
         /\ Recovered(r).cancel = r.cancel
         /\ Recovered(r).attempts = r.attempts
         /\ \/ Recovered(r) = r
            \/ /\ r.status = "running" /\ r.lapsed
               /\ Recovered(r).status = IF r.attempts < MaxAttempts THEN "queued" ELSE "failed"
      BY DEF Recovered, Rows, Statuses, TERMINAL
<1>2. working \in [Jobs -> Rows]
      BY DEF TypeOK, TableTyped
<1>3. working' = [k \in Jobs |-> Recovered(working[k])]
      BY DEF ClaimRecovers, Execute
<1>4. QED  BY <1>1, <1>2, <1>3

\* A claim takes a queued row that nobody asked to cancel, and only if none is running.
LEMMA TakeEffect ==
    ASSUME TypeOK, ClaimTakes
    PROVE  \/ working' = working /\ taken' = NoJob
           \/ /\ taken' \in Jobs
              /\ working' \in [Jobs -> Rows]
              /\ OnlyRow(taken')
              /\ NoneRunning
              /\ working[taken'].status = "queued"
              /\ ~ working[taken'].cancel
              /\ working'[taken'].status = "running"
              /\ working'[taken'].cancel = working[taken'].cancel
              /\ ~ working'[taken'].lapsed
              /\ working'[taken'].attempts = working[taken'].attempts + 1
<1>1. CASE taken' = NoJob /\ ~ \E j \in Jobs : Oldest(j)
      BY <1>1 DEF ClaimTakes, Execute
<1>2. CASE \E j \in Jobs :
              /\ Oldest(j)
              /\ working' = [working EXCEPT ![j].status = "running", ![j].lapsed = FALSE,
                                            ![j].attempts = @ + 1]
              /\ taken' = j
  <2>1. PICK j \in Jobs :
               /\ Oldest(j)
               /\ working' = [working EXCEPT ![j].status = "running", ![j].lapsed = FALSE,
                                             ![j].attempts = @ + 1]
               /\ taken' = j
        BY <1>2
  <2>2. NoneRunning /\ working[j].status = "queued" /\ ~ working[j].cancel
        BY <2>1 DEF Oldest, FirstOpen, Queued, Unwanted
  <2>3. working \in [Jobs -> Rows]
        BY DEF TypeOK, TableTyped
  <2>4. QED  BY <2>1, <2>2, <2>3 DEF Rows, Statuses, OnlyRow
<1>3. QED  BY <1>1, <1>2 DEF ClaimTakes, Execute

\* complete_job and fail_job end a running row and no other.
LEMMA SaveEffect ==
    ASSUME TypeOK, NEW j \in Jobs, SaveExecutes(j)
    PROVE  /\ save[j] \in {"complete", "failed"}
           /\ \/ working' = working /\ working[j].status # "running"
              \/ /\ working' \in [Jobs -> Rows]
                 /\ OnlyRow(j)
                 /\ working[j].status = "running"
                 /\ working'[j].status = save[j]
                 /\ working'[j].cancel = working[j].cancel
                 /\ working'[j].attempts = working[j].attempts
<1>1. save[j] \in {"complete", "failed"}
      BY DEF SaveExecutes
<1>2. CASE working[j].status # "running"
      BY <1>1, <1>2 DEF SaveExecutes, Execute
<1>3. CASE working[j].status = "running"
  <2>1. working' = [working EXCEPT ![j].status = save[j], ![j].lapsed = FALSE]
        BY <1>3 DEF SaveExecutes, Execute
  <2>2. working \in [Jobs -> Rows]
        BY DEF TypeOK, TableTyped
  <2>3. QED  BY <1>1, <1>3, <2>1, <2>2 DEF Rows, Statuses, TERMINAL, OnlyRow
<1>4. QED  BY <1>2, <1>3

\* cancel_job's first statement ends a queued row and no other.
LEMMA FirstEffect ==
    ASSUME TypeOK, NEW j \in Jobs, NEW c \in Callers, EraseFirst(j, c)
    PROVE  \/ working' = working
           \/ /\ working' \in [Jobs -> Rows]
              /\ OnlyRow(j)
              /\ working[j].status = "queued"
              /\ working'[j].status = "cancelled"
              /\ working'[j].cancel
              /\ working'[j].attempts = working[j].attempts
<1>1. CASE working[j].status # "queued"
      BY <1>1 DEF EraseFirst, Execute
<1>2. CASE working[j].status = "queued"
  <2>1. working' = [working EXCEPT ![j].status = "cancelled", ![j].cancel = TRUE,
                                   ![j].lapsed = FALSE]
        BY <1>2 DEF EraseFirst, Execute
  <2>2. working \in [Jobs -> Rows]
        BY DEF TypeOK, TableTyped
  <2>3. QED  BY <1>2, <2>1, <2>2 DEF Rows, Statuses, TERMINAL, OnlyRow
<1>3. QED  BY <1>1, <1>2

\* Its second statement marks a running row and no other.
LEMMA SecondEffect ==
    ASSUME TypeOK, NEW j \in Jobs, NEW c \in Callers, EraseSecond(j, c)
    PROVE  \/ working' = working
           \/ /\ working' \in [Jobs -> Rows]
              /\ OnlyRow(j)
              /\ working[j].status = "running"
              /\ working'[j].status = "running"
              /\ working'[j].cancel
              /\ working'[j].lapsed = working[j].lapsed
              /\ working'[j].attempts = working[j].attempts
<1>1. CASE working[j].status # "running"
      BY <1>1 DEF EraseSecond, Execute
<1>2. CASE working[j].status = "running"
  <2>1. working' = [working EXCEPT ![j].cancel = TRUE]
        BY <1>2 DEF EraseSecond, Execute
  <2>2. working \in [Jobs -> Rows]
        BY DEF TypeOK, TableTyped
  <2>3. QED  BY <1>2, <2>1, <2>2 DEF Rows, OnlyRow
<1>3. QED  BY <1>1, <1>2

\* A lease that lapses changes nothing else, in either table.
LEMMA LapseEffect ==
    ASSUME TypeOK, NEW j \in Jobs, LeaseLapses(j)
    PROVE  /\ working' \in [Jobs -> Rows] /\ committed' \in [Jobs -> Rows]
           /\ OnlyRow(j)
           /\ \A k \in Jobs :
                 /\ working'[k].status = working[k].status
                 /\ working'[k].cancel = working[k].cancel
                 /\ working'[k].attempts = working[k].attempts
                 /\ committed'[k].status = committed[k].status
                 /\ committed'[k].cancel = committed[k].cancel
                 /\ committed'[k].attempts = committed[k].attempts
<1> DEFINE b == working[j].status = "running"
           d == committed[j].status = "running"
<1>1. /\ working' = [working EXCEPT ![j].lapsed = b]
      /\ committed' = [committed EXCEPT ![j].lapsed = d]
      BY DEF LeaseLapses
<1>2. working \in [Jobs -> Rows] /\ committed \in [Jobs -> Rows]
      BY DEF TypeOK, TableTyped
<1>3. b \in BOOLEAN /\ d \in BOOLEAN
      OBVIOUS
<1> HIDE DEF b, d
<1>4. QED  BY <1>1, <1>2, <1>3 DEF Rows, OnlyRow

\* A refresh renews the lease of a running row, and commits.
LEMMA RefreshEffect ==
    ASSUME TypeOK, NEW j \in Jobs, RefreshCommits(j)
    PROVE  /\ ~ broken /\ ~ broken'
           /\ working' \in [Jobs -> Rows] /\ committed' = working'
           /\ \A k \in Jobs :
                 /\ working'[k].status = working[k].status
                 /\ working'[k].cancel = working[k].cancel
                 /\ working'[k].attempts = working[k].attempts
                 /\ working'[k].lapsed => working[k].lapsed
<1>1. \/ working' = working
      \/ working' = [working EXCEPT ![j].lapsed = FALSE]
      BY DEF RefreshCommits
<1>2. working \in [Jobs -> Rows]
      BY DEF TypeOK, TableTyped
<1>3. ~ broken /\ ~ broken' /\ committed' = working'
      BY DEF RefreshCommits
<1>4. CASE working' = working
      BY <1>2, <1>3, <1>4
<1>5. CASE working' = [working EXCEPT ![j].lapsed = FALSE]
      BY <1>2, <1>3, <1>5 DEF Rows
<1>6. QED  BY <1>1, <1>4, <1>5

\* One thread of cancel_job moves on and no other does.
LEMMA EraseMoves ==
    ASSUME ThreadsTyped, NEW j \in Jobs, NEW c \in Callers, NEW s \in EraseStates,
           erase' = [erase EXCEPT ![j][c].at = s]
    PROVE  /\ erase' \in [Jobs -> [Callers -> Erases]]
           /\ \A k \in Jobs, d \in Callers :
                 /\ erase'[k][d].saw = erase[k][d].saw
                 /\ erase'[k][d].at = IF k = j /\ d = c THEN s ELSE erase[k][d].at
<1>1. erase \in [Jobs -> [Callers -> Erases]]
      BY DEF ThreadsTyped
<1>2. [erase[j][c] EXCEPT !.at = s] \in Erases
      BY <1>1 DEF Erases
<1>3. erase' = [erase EXCEPT ![j] = [erase[j] EXCEPT ![c] = [erase[j][c] EXCEPT !.at = s]]]
      BY <1>1
<1>4. erase' \in [Jobs -> [Callers -> Erases]]
      BY <1>1, <1>2, <1>3
<1>5. \A k \in Jobs, d \in Callers :
         erase'[k][d] = IF k = j /\ d = c THEN [erase[j][c] EXCEPT !.at = s] ELSE erase[k][d]
      BY <1>1, <1>3
<1>6. /\ [erase[j][c] EXCEPT !.at = s].saw = erase[j][c].saw
      /\ [erase[j][c] EXCEPT !.at = s].at = s
      BY <1>1 DEF Erases
<1>7. QED  BY <1>4, <1>5, <1>6

\* The same for a thread that starts, or that has read the row.
LEMMA EraseSets ==
    ASSUME ThreadsTyped, NEW j \in Jobs, NEW c \in Callers, NEW s \in EraseStates,
           NEW r \in Statuses,
           erase' = [erase EXCEPT ![j][c] = [at |-> s, saw |-> r]]
    PROVE  /\ erase' \in [Jobs -> [Callers -> Erases]]
           /\ \A k \in Jobs, d \in Callers :
                 /\ erase'[k][d].saw = IF k = j /\ d = c THEN r ELSE erase[k][d].saw
                 /\ erase'[k][d].at = IF k = j /\ d = c THEN s ELSE erase[k][d].at
BY DEF ThreadsTyped, Erases

\* A cancellation that starts.
LEMMA StartEffect ==
    ASSUME ThreadsTyped, NEW j \in Jobs, NEW c \in Callers, StartErase(j, c)
    PROVE  /\ erase' \in [Jobs -> [Callers -> Erases]]
           /\ \A k \in Jobs, d \in Callers :
                 /\ erase'[k][d].saw = IF k = j /\ d = c THEN "absent" ELSE erase[k][d].saw
                 /\ erase'[k][d].at = IF k = j /\ d = c THEN "first" ELSE erase[k][d].at
BY DEF StartErase, ThreadsTyped, Erases, EraseStates, Statuses

\* A DELETE that interrupts the job ends, and the job's own cancellation begins.
LEMMA EraseHandsOver ==
    ASSUME ThreadsTyped, NEW j \in Jobs, NEW c \in Clients,
           erase' = [erase EXCEPT ![j][c] = NoErase,
                                  ![j]["handler"] = [at |-> "first", saw |-> "absent"]]
    PROVE  /\ erase' \in [Jobs -> [Callers -> Erases]]
           /\ \A k \in Jobs, d \in Callers :
                 \/ erase'[k][d] = erase[k][d]
                 \/ k = j /\ d = c /\ erase'[k][d].at = "idle"
                 \/ k = j /\ d = "handler" /\ erase'[k][d] = [at |-> "first", saw |-> "absent"]
BY DurableJobsAssumption DEF ThreadsTyped, Erases, EraseStates, Statuses, NoErase

\* A caller that has its answer.
LEMMA EndEffect ==
    ASSUME ThreadsTyped, NEW j \in Jobs, NEW c \in Callers, EraseEnds(j, c)
    PROVE  /\ erase' \in [Jobs -> [Callers -> Erases]]
           /\ \A k \in Jobs, d \in Callers :
                 \/ erase'[k][d] = erase[k][d]
                 \/ k = j /\ d = c /\ erase'[k][d].at = "idle"
BY DEF EraseEnds, ThreadsTyped, Erases, EraseStates, Statuses, NoErase

(***************************************************************************)
(* Type correctness.                                                       *)
(***************************************************************************)
\* A POST is added to the order of creation.
LEMMA AppendTyped ==
    ASSUME NEW s \in Seq(Jobs), NEW j \in Jobs
    PROVE  Append(s, j) \in Seq(Jobs)
OBVIOUS

\* The bound on crashes is kept.
LEMMA CrashesTyped ==
    ASSUME NEW n \in 0 .. MaxCrashes, n < MaxCrashes
    PROVE  n + 1 \in 0 .. MaxCrashes
BY DurableBoundsAssumption

\* Every statement of a POST leaves a well-typed state.
LEMMA SubmitTyped ==
    ASSUME TypeOK, NEW j \in Jobs, SubmitSelects(j) \/ SubmitStep(j)
    PROVE  TypeOK'
<1> USE DEF TypeOK, TableTyped, LoopTyped, ThreadsTyped, CacheTyped
<1>1. CASE SubmitSelects(j)
  <2>1. CacheTyped'
    <3>1. CASE UNCHANGED found /\ submit'[j] \in {"error", "count"}
          BY <1>1, <3>1 DEF SubmitSelects, Submitting, cache
    <3>2. ASSUME NEW k \in Jobs,
                 found' = [found EXCEPT ![j] = [job |-> k, seen |-> Snapshot(k)]]
          PROVE  CacheTyped'
      <4>1. /\ found' \in [Jobs -> Founds]
            /\ found'[j].job = k /\ found'[j].seen = Snapshot(k)
            /\ \A i \in Jobs \ {j} : found'[i] = found[i] /\ submit'[i] = submit[i]
            BY <1>1, <3>2, SnapshotTypes DEF Founds, SubmitSelects, Submitting
      <4>2. Snapshot(k) # NoSnapshot /\ k # NoJob
            BY SnapshotTypes, DurableJobsAssumption
      <4>3. \A i \in Jobs :
               /\ submit'[i] \in {"commit known", "found"} => found'[i].seen # NoSnapshot
               /\ found'[i].seen # NoSnapshot => found'[i].job # NoJob
            BY <4>1, <4>2
      <4>4. QED  BY <1>1, <4>1, <4>3 DEF SubmitSelects, Submitting, cache
    <3>3. \/ UNCHANGED found /\ submit'[j] \in {"error", "count"}
          \/ \E k \in Jobs : found' = [found EXCEPT ![j] = [job |-> k, seen |-> Snapshot(k)]]
          BY <1>1, DurableJobsAssumption DEF SubmitSelects, Submitting, Duplicates
    <3>4. QED  BY <3>1, <3>2, <3>3
  <2>2. QED  BY <1>1, <2>1 DEF SubmitSelects, Submitting, SubmitStates, table
<1>2. CASE SubmitCounts(j)
  <2>1. TableTyped'
        BY <1>2 DEF SubmitCounts, Rollback, table
  <2>2. LoopTyped'
    <3>1. created' \in Seq(Jobs)
      <4>1. created' = created \/ created' = Append(created, j)
            BY <1>2 DEF SubmitCounts
      <4>2. created \in Seq(Jobs)
            OBVIOUS
      <4>3. Append(created, j) \in Seq(Jobs)
            BY <4>2, AppendTyped, Zenon
      <4>4. QED  BY <4>1, <4>2, <4>3, Zenon
    <3>2. submit' \in [Jobs -> SubmitStates]
          BY <1>2 DEF SubmitCounts, Submitting, SubmitStates
    <3>3. QED  BY <1>2, <3>1, <3>2 DEF SubmitCounts, Submitting
  <2>3. QED  BY <1>2, <2>1, <2>2 DEF SubmitCounts, Submitting, cache
<1>3. CASE SubmitInserts(j)
  <2>1. TableTyped'
        BY <1>3, InsertEffect DEF SubmitInserts
  <2>2. LoopTyped'
        BY <1>3 DEF SubmitInserts, Submitting, SubmitStates
  <2>3. QED  BY <1>3, <2>1, <2>2 DEF SubmitInserts, Submitting, cache
<1>4. CASE SubmitCommits(j)
      BY <1>4 DEF SubmitCommits, Submitting, Commit, SubmitStates, cache
<1>5. CASE SubmitFinds(j)
      BY <1>5 DEF SubmitFinds, Submitting, Commit, SubmitStates, cache
<1>6. CASE SubmitKnows(j)
  <2>1. found[j].job \in Jobs /\ found[j].seen \in Snapshots
        BY <1>6, FoundTypes DEF SubmitKnows, Submitting
  <2>2. CacheTyped'
    <3>1. found' \in [Jobs -> Founds]
          BY <1>6 DEF SubmitKnows, Founds
    <3>2. \A k \in Jobs :
             /\ submit'[k] \in {"commit known", "found"} => found'[k].seen # NoSnapshot
             /\ found'[k].seen # NoSnapshot => found'[k].job # NoJob
      <4>1. submit'[j] = "known" /\ found'[j].seen = NoSnapshot
            BY <1>6 DEF SubmitKnows, Submitting, Founds
      <4>2. \A k \in Jobs \ {j} : submit'[k] = submit[k] /\ found'[k] = found[k]
            BY <1>6 DEF SubmitKnows, Submitting
      <4>3. QED  BY <4>1, <4>2
    <3>3. /\ reported' \in [Jobs -> Statuses \cup {"unknown"}]
          /\ asked' \in [Jobs -> BOOLEAN]
          /\ silent' \subseteq Jobs
          BY <1>6, <2>1 DEF SubmitKnows, Snapshots
    <3>4. QED  BY <1>6, <3>1, <3>2, <3>3 DEF SubmitKnows, Submitting
  <2>3. QED  BY <1>6, <2>2 DEF SubmitKnows, Submitting, SubmitStates, table
<1>7. CASE SubmitReturns(j)
      BY <1>7 DEF SubmitReturns, DrainDone, DrainStates, SubmitStates, Statuses, table
<1>8. QED  BY <1>1, <1>2, <1>3, <1>4, <1>5, <1>6, <1>7 DEF SubmitStep

\* So does every step of the drain.
LEMMA DrainTyped ==
    ASSUME TypeOK, DrainStep
    PROVE  TypeOK'
<1> USE DEF TypeOK, TableTyped, LoopTyped, ThreadsTyped, CacheTyped, DrainUnchanged, DrainStates, posts
<1>1. CASE ClaimRecovers
  <2>1. TableTyped'
        BY <1>1, RecoverEffect DEF ClaimRecovers, Execute
  <2>2. QED  BY <1>1, <2>1 DEF ClaimRecovers
<1>2. CASE ClaimTakes
  <2>1. TableTyped' /\ taken' \in Jobs \cup {NoJob}
        BY <1>2, TakeEffect DEF ClaimTakes, Execute
  <2>2. QED  BY <1>2, <2>1 DEF ClaimTakes
<1>3. CASE ClaimCommits
      BY <1>3 DEF ClaimCommits, Commit
<1>4. CASE ClaimRaises
      BY <1>4 DEF ClaimRaises, table
<1>5. CASE DrainStarts
      BY <1>5 DEF DrainStarts, Alive, Statuses, table
<1>6. CASE DrainContinues
      BY <1>6 DEF DrainContinues, table
<1>7. QED  BY <1>1, <1>2, <1>3, <1>4, <1>5, <1>6 DEF DrainStep

\* So does every thread that stores an outcome.
LEMMA SaveTyped ==
    ASSUME TypeOK, NEW j \in Jobs, SaveStep(j)
    PROVE  TypeOK'
<1> USE DEF TypeOK, TableTyped, LoopTyped, ThreadsTyped, CacheTyped, ThreadUnchanged, LoopUnchanged,
            SaveStates, posts, cache
<1>1. CASE SaveExecutes(j)
  <2>1. TableTyped'
        BY <1>1, SaveEffect DEF SaveExecutes, Execute
  <2>2. QED  BY <1>1, <2>1 DEF SaveExecutes
<1>2. CASE SaveCommits(j)
      BY <1>2 DEF SaveCommits, Commit
<1>3. CASE SaveRaises(j)
      BY <1>3 DEF SaveRaises, table
<1>4. QED  BY <1>1, <1>2, <1>3 DEF SaveStep

\* So does every thread that cancels.
LEMMA EraseTyped ==
    ASSUME TypeOK, NEW j \in Jobs, NEW c \in Callers, EraseStep(j, c)
    PROVE  TypeOK'
<1>1. TableTyped'
  <2>1. CASE EraseFirst(j, c)
        BY <2>1, FirstEffect DEF EraseFirst, Execute, TypeOK, TableTyped
  <2>2. CASE EraseSecond(j, c)
        BY <2>2, SecondEffect DEF EraseSecond, Execute, TypeOK, TableTyped
  <2>3. CASE EraseCommits(j, c)
        BY <2>3 DEF EraseCommits, Commit, TypeOK, TableTyped
  <2>4. CASE EraseRaises(j, c)
        BY <2>4 DEF EraseRaises, table, TypeOK, TableTyped
  <2>5. QED  BY <2>1, <2>2, <2>3, <2>4 DEF EraseStep
<1>2. erase' \in [Jobs -> [Callers -> Erases]]
  <2>1. CASE \E s \in EraseStates : erase' = [erase EXCEPT ![j][c].at = s]
        BY <2>1, EraseMoves DEF TypeOK
  <2>2. CASE erase' = [erase EXCEPT ![j][c] = [at |-> "commit", saw |-> working[j].status]]
    <3>1. working[j].status \in Statuses
          BY DEF TypeOK, TableTyped, Rows
    <3>2. QED  BY <2>2, <3>1, EraseSets DEF TypeOK, EraseStates
  <2>3. QED  BY <2>1, <2>2 DEF EraseStep, EraseFirst, EraseSecond, EraseCommits, EraseRaises,
                              EraseStates
<1>3. UNCHANGED save /\ ThreadUnchanged
      BY DEF EraseStep, EraseFirst, EraseSecond, EraseCommits, EraseRaises
<1>4. QED  BY <1>1, <1>2, <1>3 DEF TypeOK, LoopTyped, ThreadsTyped, CacheTyped,
                                  ThreadUnchanged, LoopUnchanged, posts, cache

\* So does every step of _process, and a commit of the workflow.
LEMMA ProcessTyped ==
    ASSUME TypeOK, NEW j \in Jobs, ProcessStep(j) \/ WorkflowCommits(j) \/ RefreshStep(j)
    PROVE  TypeOK'
<1>1. TableTyped'
  <2>1. CASE UNCHANGED table \/ Commit
        BY <2>1 DEF TypeOK, TableTyped, Commit, table
  <2>2. CASE RefreshCommits(j)
        BY <2>2, RefreshEffect DEF TypeOK, TableTyped, RefreshCommits
  <2>3. QED  BY <2>1, <2>2 DEF ProcessStep, ProcessStarts, WorkflowEnds, ProcessSaved,
                ProcessErased, ErasedFor, ProcessUnchanged, WorkflowCommits, RefreshStep, RefreshRaises
<1>2. UNCHANGED <<created, submit, found, drain, taken, read, crashes>>
      BY DEF ProcessStep, ProcessStarts, WorkflowEnds, ProcessSaved, ProcessErased, ErasedFor,
             ProcessUnchanged, WorkflowCommits, RefreshStep, RefreshCommits, RefreshRaises, Refreshes,
             LoopUnchanged, posts
<1>3. process' \in [Jobs -> {"none", "ended", "dead"} \cup Alive]
  <2>1. process' = process \/ \E s \in {"ended", "dead"} \cup Alive : ProcessBecomes(j, s)
        BY DEF ProcessStep, ProcessStarts, WorkflowEnds, ProcessSaved, ProcessErased, ErasedFor,
               ProcessLeaves, WorkflowCommits, RefreshStep, RefreshCommits, RefreshRaises, Refreshes,
               LoopUnchanged, Alive, Started
  <2>2. QED  BY <2>1 DEF ProcessBecomes, TypeOK, LoopTyped
<1>4. refresher' \in [Jobs -> RefresherStates]
  <2>1. \/ refresher' = refresher
        \/ \E s \in RefresherStates : refresher' = [refresher EXCEPT ![j] = s]
        BY DEF ProcessStep, ProcessStarts, WorkflowEnds, ProcessSaved, ProcessErased, ErasedFor,
               ProcessLeaves, WorkflowCommits, RefreshStep, RefreshCommits, RefreshRaises, Refreshes,
               RefresherStates
  <2>2. QED  BY <2>1 DEF TypeOK, ThreadsTyped
<1>5. save' \in [Jobs -> SaveStates]
  <2>1. save' = save \/ \E s \in SaveStates : StartSave(j, s)
        BY DEF ProcessStep, ProcessStarts, WorkflowEnds, ProcessSaved, ProcessErased, ErasedFor,
               WorkflowCommits, RefreshStep, RefreshCommits, RefreshRaises, Refreshes, SaveStates
  <2>2. QED  BY <2>1 DEF StartSave, TypeOK, ThreadsTyped
<1>6. erase' \in [Jobs -> [Callers -> Erases]]
  <2>1. \/ erase' = erase
        \/ StartErase(j, "body")
        \/ \E c \in Slots : EraseEnds(j, c)
        BY DEF ProcessStep, ProcessStarts, WorkflowEnds, ProcessSaved, ProcessErased, ErasedFor,
               WorkflowCommits, RefreshStep, RefreshCommits, RefreshRaises, Refreshes
  <2>2. QED  BY <2>1, StartEffect, EndEffect, CallersAre DEF TypeOK, ThreadsTyped
<1>7. /\ reported' \in [Jobs -> Statuses \cup {"unknown"}]
      /\ asked' \in [Jobs -> BOOLEAN]
      /\ silent' \subseteq Jobs
  <2>1. \/ UNCHANGED cache
        \/ /\ UNCHANGED <<asked, silent>>
           /\ \E s \in Statuses : reported' = [reported EXCEPT ![j] = s]
        \/ \E s \in Statuses : CacheCancels(j, s)
    <3>1. CASE ProcessErased(j)
          BY <3>1, EraseTypes, CallersAre DEF ProcessErased, ErasedFor, TypeOK
    <3>2. CASE ~ ProcessErased(j)
          BY <3>2 DEF ProcessStep, ProcessStarts, WorkflowEnds, ProcessSaved, WorkflowCommits,
             RefreshStep, RefreshCommits, RefreshRaises, Refreshes, LoopUnchanged, Statuses, TERMINAL,
             cache
    <3>3. QED  BY <3>1, <3>2
  <2>2. QED  BY <2>1 DEF CacheCancels, cache, TypeOK, CacheTyped
<1>8. QED  BY <1>1, <1>2, <1>3, <1>4, <1>5, <1>6, <1>7
           DEF TypeOK, LoopTyped, ThreadsTyped, CacheTyped

\* So do DELETE and GET.
LEMMA ClientTyped ==
    ASSUME TypeOK, NEW j \in Jobs, NEW c \in Clients, ClientStep(j, c)
    PROVE  TypeOK'
<1>1. UNCHANGED <<table, created, submit, found, drain, taken, save, crashes>>
      BY DEF ClientStep, DeleteArrives, DeleteReturns, GetReads, GetReturns, ProcessUnchanged,
             GetUnchanged, posts
<1>2. /\ process' \in [Jobs -> {"none", "ended", "dead"} \cup Alive]
      /\ refresher' \in [Jobs -> RefresherStates]
  <2>1. \/ UNCHANGED <<process, refresher>>
        \/ UNCHANGED refresher /\ ProcessBecomes(j, "cancelling")
        \/ ProcessLeaves(j, "dead")
        BY DEF ClientStep, DeleteArrives, DeleteReturns, GetReads, GetReturns, GetUnchanged,
               Interrupted
  <2>2. QED  BY <2>1 DEF ProcessBecomes, ProcessLeaves, Alive, Started, RefresherStates, TypeOK,
                         LoopTyped, ThreadsTyped
<1>3. erase' \in [Jobs -> [Callers -> Erases]]
  <2>1. \/ erase' = erase
        \/ StartErase(j, c)
        \/ EraseEnds(j, c)
        \/ erase' = [erase EXCEPT ![j][c] = NoErase,
                                  ![j]["handler"] = [at |-> "first", saw |-> "absent"]]
        BY DEF ClientStep, DeleteArrives, DeleteReturns, GetReads, GetReturns, GetUnchanged,
               Interrupted
  <2>2. QED  BY <2>1, StartEffect, EndEffect, EraseHandsOver, CallersAre DEF TypeOK, ThreadsTyped
<1>4. read' \in [Jobs -> [Clients -> {NoSnapshot} \cup Snapshots]]
  <2>1. Snapshot(j) \in Snapshots
        BY SnapshotTypes DEF TypeOK
  <2>2. \/ read' = read
        \/ read' = [read EXCEPT ![j][c] = Snapshot(j)]
        \/ read' = [read EXCEPT ![j][c] = NoSnapshot]
        BY DEF ClientStep, DeleteArrives, DeleteReturns, GetReads, GetReturns, ProcessUnchanged
  <2>3. read \in [Jobs -> [Clients -> {NoSnapshot} \cup Snapshots]]
        BY DEF TypeOK, CacheTyped
  <2>4. QED  BY <2>1, <2>2, <2>3
<1>5. /\ reported' \in [Jobs -> Statuses \cup {"unknown"}]
      /\ asked' \in [Jobs -> BOOLEAN]
      /\ silent' \subseteq Jobs
  <2>1. \/ UNCHANGED cache
        \/ \E s \in Statuses : CacheCancels(j, s)
        \/ GetReturns(j, c)
        BY EraseTypes, CallersAre DEF ClientStep, DeleteArrives, DeleteReturns, GetReads, TypeOK
  <2>2. CASE GetReturns(j, c)
    <3>1. read[j][c] \in Snapshots
          BY <2>2 DEF GetReturns, TypeOK, CacheTyped
    <3>2. read[j][c].status \in Statuses /\ read[j][c].cancel \in BOOLEAN
          BY <3>1 DEF Snapshots
    <3>3. QED  BY <2>2, <3>2 DEF GetReturns, TypeOK, CacheTyped
  <2>3. QED  BY <2>1, <2>2 DEF CacheCancels, cache, TypeOK, CacheTyped
<1>6. QED  BY <1>1, <1>2, <1>3, <1>4, <1>5
           DEF TypeOK, TableTyped, LoopTyped, ThreadsTyped, CacheTyped, table

\* So do a lease that lapses and a crash.
LEMMA FailureTyped ==
    ASSUME TypeOK, (\E j \in Jobs : LeaseLapses(j)) \/ Crash
    PROVE  TypeOK'
<1> USE DEF TypeOK, TableTyped, LoopTyped, ThreadsTyped, CacheTyped
<1>1. CASE \E j \in Jobs : LeaseLapses(j)
  <2>1. TableTyped'
        BY <1>1, LapseEffect DEF LeaseLapses
  <2>2. UNCHANGED <<created, posts, drain, taken, process, refresher, save, erase, read, cache,
                    crashes>>
        BY <1>1 DEF LeaseLapses, LoopUnchanged
  <2>3. QED  BY <2>1, <2>2 DEF posts, cache
<1>2. CASE Crash
  <2>1. ThreadsTyped'
        BY <1>2 DEF Crash, EraseIdle, NoErase, Erases, EraseStates, SaveStates, Statuses,
                    RefresherStates
  <2>2. submit' \in [Jobs -> SubmitStates]
        BY <1>2 DEF Crash, SubmitStates
  <2>3. crashes' \in 0 .. MaxCrashes
        BY <1>2, CrashesTyped DEF Crash
  <2>4. LoopTyped'
        BY <1>2, <2>2, <2>3 DEF Crash, DrainStates
  <2>5. CacheTyped'
    <3>1. \A f \in Founds : [f EXCEPT !.seen = NoSnapshot] \in Founds
                              /\ [f EXCEPT !.seen = NoSnapshot].seen = NoSnapshot
          BY DEF Founds
    <3>2. /\ found' \in [Jobs -> Founds]
          /\ \A k \in Jobs : found'[k].seen = NoSnapshot
      <4>1. found' = [k \in Jobs |-> [found[k] EXCEPT !.seen = NoSnapshot]]
            BY <1>2 DEF Crash
      <4>2. found \in [Jobs -> Founds]
            OBVIOUS
      <4>3. QED  BY <3>1, <4>1, <4>2
    <3>3. \A j \in Jobs : submit'[j] \notin {"commit known", "found"}
          BY <1>2 DEF Crash
    <3>4. QED  BY <1>2, <3>2, <3>3 DEF Crash, Unread
  <2>6. QED  BY <1>2, <2>1, <2>4, <2>5 DEF Crash, Rollback
<1>3. QED  BY <1>1, <1>2

\* Every step leaves a well-typed state.
LEMMA TypeStep ==
    ASSUME TypeOK, [Next]_vars
    PROVE  TypeOK'
<1>1. CASE UNCHANGED vars
      BY <1>1 DEF TypeOK, TableTyped, LoopTyped, ThreadsTyped, CacheTyped, vars, table, posts,
                  cache
<1>2. CASE Next
      BY <1>2, SubmitTyped, DrainTyped, SaveTyped, EraseTyped, ProcessTyped, ClientTyped,
         FailureTyped DEF Next
<1>3. QED  BY <1>1, <1>2

(***************************************************************************)
(* What a step may do to the table: a thread executes a statement, commits *)
(* or rolls back, or no row changes but for its lease, which a refresh     *)
(* renews and commits.                                                     *)
(***************************************************************************)
Early == {"idle", "count", "insert"}

Statement ==
    /\ committed' = committed
    /\ AttemptsLeft(working')
    /\ OneRunning(working')
    /\ Follows(working, working')
    /\ \A j \in Jobs : working[j].status = "absent" /\ submit'[j] \in Early
                          => working'[j].status = "absent"

SameWorking ==
    \A j \in Jobs :
        /\ working'[j].status = working[j].status
        /\ working'[j].cancel = working[j].cancel
        /\ working'[j].attempts = working[j].attempts

SameRows ==
    /\ SameWorking
    /\ \A j \in Jobs :
        /\ committed'[j].status = committed[j].status
        /\ committed'[j].cancel = committed[j].cancel
        /\ committed'[j].attempts = committed[j].attempts

TableStep ==
    /\ \/ Commit \/ Rollback \/ Statement \/ SameRows
       \/ SameWorking /\ committed' = working'
    /\ \A j \in Jobs : submit'[j] \in Early => submit[j] \in Early

\* The fields of a row.
LEMMA RowTypes ==
    ASSUME TypeOK
    PROVE  \A j \in Jobs :
              /\ working[j].attempts \in Nat /\ committed[j].attempts \in Nat
              /\ working[j].cancel \in BOOLEAN /\ committed[j].cancel \in BOOLEAN
              /\ working[j].status \in Statuses /\ committed[j].status \in Statuses
BY DEF TypeOK, TableTyped, Rows

\* A table that follows one that follows a third follows it.
LEMMA FollowsTransitive ==
    ASSUME NEW a, NEW b, NEW d, Follows(a, b), Follows(b, d)
    PROVE  Follows(a, d)
BY DEF Follows

\* A table follows itself.
LEMMA FollowsReflexive ==
    ASSUME NEW a
    PROVE  Follows(a, a)
BY DEF Follows

\* Every step of a POST is a step of the table: it inserts where no row was.
LEMMA SubmitTable ==
    ASSUME TableInv, NEW j \in Jobs, SubmitSelects(j) \/ SubmitStep(j)
    PROVE  TableStep
<1>1. submit \in [Jobs -> SubmitStates]
      BY DEF TableInv, TypeOK, LoopTyped
<1>2. \A k \in Jobs : submit'[k] \in Early => submit[k] \in Early
      BY <1>1 DEF SubmitStep, SubmitSelects, SubmitCounts, SubmitInserts, SubmitCommits,
                  SubmitFinds, SubmitKnows, SubmitReturns, Submitting, Early
<1>3. CASE UNCHANGED table
      BY <1>2, <1>3 DEF TableStep, SameRows, SameWorking, table
<1>4. CASE Commit \/ Rollback
      BY <1>2, <1>4 DEF TableStep
<1>5. CASE SubmitInserts(j)
  <2>1. CASE broken'
        BY <1>2, <1>5, <2>1 DEF SubmitInserts, TableStep, SameRows, SameWorking
  <2>2. CASE ~ broken'
    <3>1. working[j].status = "absent" /\ submit'[j] \notin Early
          BY <1>1, <1>5 DEF SubmitInserts, Submitting, TableInv, NotYetInserted, Early
    <3>2. AttemptsLeft(working') /\ OneRunning(working') /\ Follows(working, working')
          BY <1>5, <2>2, <3>1, InsertEffect DEF TableInv, AttemptsLeft, OneRunning, Follows,
                                               OnlyRow, TERMINAL
    <3>3. Statement
          BY <1>5, <2>2, <3>1, <3>2, InsertEffect DEF TableInv, Statement, SubmitInserts, OnlyRow
    <3>4. QED  BY <1>2, <3>3 DEF TableStep
  <2>3. QED  BY <2>1, <2>2
<1>6. QED  BY <1>3, <1>4, <1>5 DEF SubmitStep, SubmitSelects, SubmitCounts, SubmitCommits,
                                  SubmitFinds, SubmitKnows, SubmitReturns

\* So is every step of the drain: a claim leaves one running row with an attempt more.
LEMMA DrainTable ==
    ASSUME TableInv, DrainStep
    PROVE  TableStep
<1>1. UNCHANGED submit
      BY DEF DrainStep, ClaimRecovers, ClaimTakes, ClaimCommits, ClaimRaises, DrainStarts,
             DrainContinues, DrainUnchanged, posts
<1>2. CASE UNCHANGED table
      BY <1>1, <1>2 DEF TableStep, SameRows, SameWorking, table
<1>3. CASE ClaimCommits
      BY <1>1, <1>3 DEF TableStep, ClaimCommits
<1>4. CASE ClaimRecovers
  <2>1. AttemptsLeft(working') /\ OneRunning(working') /\ Follows(working, working')
        BY <1>4, RecoverEffect, RowTypes DEF TableInv, AttemptsLeft, OneRunning, Follows, TERMINAL
  <2>2. committed' = committed
        BY <1>4 DEF ClaimRecovers, Execute
  <2>3. Statement
        BY <1>4, <2>1, <2>2, RecoverEffect DEF TableInv, Statement
  <2>4. QED  BY <1>1, <2>3 DEF TableStep
<1>5. CASE ClaimTakes
  <2>1. committed' = committed
        BY <1>5 DEF ClaimTakes, Execute
  <2>2. CASE working' = working
        BY <1>1, <2>1, <2>2 DEF TableStep, SameRows, SameWorking
  <2>3. CASE working' # working
    <3>1. AttemptsLeft(working')
          BY <1>5, <2>3, TakeEffect, RowTypes, DurableBoundsAssumption
             DEF TableInv, AttemptsLeft, OnlyRow
    <3>2. OneRunning(working') /\ Follows(working, working')
          BY <1>5, <2>3, TakeEffect DEF TableInv, OneRunning, Follows, OnlyRow, NoneRunning, TERMINAL
    <3>3. Statement
          BY <1>5, <2>1, <2>3, <3>1, <3>2, TakeEffect DEF TableInv, Statement, OnlyRow
    <3>4. QED  BY <1>1, <3>3 DEF TableStep
  <2>4. QED  BY <2>2, <2>3
<1>6. QED  BY <1>2, <1>3, <1>4, <1>5 DEF DrainStep, ClaimRaises, DrainStarts, DrainContinues

\* So is every step of a thread that stores an outcome or cancels.
LEMMA ThreadTable ==
    ASSUME TableInv, NEW j \in Jobs,
           SaveStep(j) \/ \E c \in Callers : EraseStep(j, c)
    PROVE  TableStep
<1>1. UNCHANGED submit
      BY DEF SaveStep, SaveExecutes, SaveCommits, SaveRaises, EraseStep, EraseFirst,
             EraseSecond, EraseCommits, EraseRaises, ThreadUnchanged, LoopUnchanged, posts
<1>2. CASE UNCHANGED table
      BY <1>1, <1>2 DEF TableStep, SameRows, SameWorking, table
<1>3. CASE Commit
      BY <1>1, <1>3 DEF TableStep
<1>4. CASE Execute(working')
  <2>1. committed' = committed
        BY <1>4 DEF Execute
  <2>2. CASE working' = working
        BY <1>1, <2>1, <2>2 DEF TableStep, SameRows, SameWorking
  <2>3. ASSUME OnlyRow(j),
               working'[j].attempts = working[j].attempts,
               working[j].cancel => working'[j].cancel,
               \/ working[j].status = "running" /\ working'[j].status \in TERMINAL
               \/ working[j].status = "queued" /\ working'[j].status = "cancelled"
               \/ working[j].status = "running" /\ working'[j].status = "running"
        PROVE  TableStep
    <3>1. AttemptsLeft(working') /\ OneRunning(working') /\ Follows(working, working')
          BY <2>3 DEF TableInv, AttemptsLeft, OneRunning, Follows, OnlyRow, TERMINAL
    <3>2. Statement
          BY <2>1, <2>3, <3>1 DEF Statement, OnlyRow
    <3>3. QED  BY <1>1, <3>2 DEF TableStep
  <2>4. CASE SaveExecutes(j)
        BY <2>2, <2>3, <2>4, SaveEffect DEF TableInv, TERMINAL
  <2>5. CASE \E c \in Callers : EraseFirst(j, c)
        BY <2>2, <2>3, <2>5, FirstEffect DEF TableInv
  <2>6. CASE \E c \in Callers : EraseSecond(j, c)
        BY <2>2, <2>3, <2>6, SecondEffect DEF TableInv
  <2>7. CASE UNCHANGED table \/ Commit
        BY <1>2, <1>3, <2>7
  <2>8. QED  BY <2>4, <2>5, <2>6, <2>7 DEF SaveStep, SaveCommits, SaveRaises, EraseStep,
                                           EraseCommits, EraseRaises
<1>5. QED  BY <1>2, <1>3, <1>4 DEF SaveStep, SaveExecutes, SaveCommits, SaveRaises, EraseStep,
                                  EraseFirst, EraseSecond, EraseCommits, EraseRaises, Execute

\* Every step is a step of the table.
LEMMA EveryTableStep ==
    ASSUME TableInv, [Next]_vars
    PROVE  TableStep
<1>1. submit \in [Jobs -> SubmitStates]
      BY DEF TableInv, TypeOK, LoopTyped
<1>2. CASE UNCHANGED <<table, submit>>
      BY <1>2 DEF TableStep, SameRows, SameWorking, table
<1>3. CASE DrainStep
      BY <1>3, DrainTable
<1>4. CASE Crash
      BY <1>1, <1>4 DEF Crash, TableStep, Early
<1>5. ASSUME NEW j \in Jobs,
             \/ SubmitSelects(j) \/ SubmitStep(j) \/ SaveStep(j)
             \/ \E c \in Callers : EraseStep(j, c)
      PROVE  TableStep
      BY <1>5, SubmitTable, ThreadTable
<1>6. ASSUME NEW j \in Jobs, ProcessStep(j)
      PROVE  TableStep
      BY <1>2, <1>6 DEF ProcessStep, ProcessStarts, WorkflowEnds, ProcessSaved, ProcessErased,
                        ErasedFor, ProcessUnchanged, posts
<1>7. ASSUME NEW j \in Jobs, NEW c \in Clients, ClientStep(j, c)
      PROVE  TableStep
      BY <1>2, <1>7 DEF ClientStep, DeleteArrives, DeleteReturns, GetReads, GetReturns, GetUnchanged,
                        ProcessUnchanged, posts
<1>8. ASSUME NEW j \in Jobs, WorkflowCommits(j)
      PROVE  TableStep
      BY <1>8 DEF WorkflowCommits, LoopUnchanged, TableStep, posts
<1>9. ASSUME NEW j \in Jobs, LeaseLapses(j)
      PROVE  TableStep
  <2>1. UNCHANGED submit
        BY <1>9 DEF LeaseLapses, LoopUnchanged, posts
  <2>2. SameRows
        BY <1>9, LapseEffect DEF TableInv, SameRows, SameWorking
  <2>3. QED  BY <2>1, <2>2 DEF TableStep
<1>10. ASSUME NEW j \in Jobs, RefreshStep(j)
       PROVE  TableStep
  <2>1. UNCHANGED submit
        BY <1>10 DEF RefreshStep, RefreshCommits, RefreshRaises, Refreshes, LoopUnchanged, posts
  <2>2. CASE RefreshRaises(j)
        BY <1>2, <2>1, <2>2 DEF RefreshRaises
  <2>3. CASE RefreshCommits(j)
        BY <2>1, <2>3, RefreshEffect DEF TableInv, TableStep, SameWorking
  <2>4. QED  BY <1>10, <2>2, <2>3 DEF RefreshStep
<1>11. CASE UNCHANGED vars
      BY <1>2, <1>11 DEF vars, table, posts
<1>12. QED  BY <1>3, <1>4, <1>5, <1>6, <1>7, <1>8, <1>9, <1>10, <1>11 DEF Next

\* However the table changes, the two tables keep their bounds, what is committed
\* follows what was, and what is open follows what is committed.
LEMMA TableStepKeeps ==
    ASSUME TableInv, TableStep
    PROVE  /\ NotYetInserted'
           /\ AttemptsLeft(committed)' /\ AttemptsLeft(working)'
           /\ OneRunning(committed)' /\ OneRunning(working)'
           /\ Follows(committed, working)'
           /\ Follows(committed, committed')
<1>1. CASE Commit \/ Rollback
  <2>1. /\ committed' = committed \/ committed' = working
        /\ working' = committed'
        BY <1>1 DEF Commit, Rollback
  <2>2. QED  BY <2>1, FollowsReflexive DEF TableInv, TableStep, NotYetInserted, AttemptsLeft,
                                          OneRunning, Early
<1>2. CASE Statement
  <2>1. Follows(committed, working')
        BY <1>2, FollowsTransitive DEF TableInv, Statement
  <2>2. QED  BY <1>2, <2>1, FollowsReflexive
             DEF TableInv, TableStep, Statement, NotYetInserted, AttemptsLeft, OneRunning, Early
<1>3. CASE SameRows
      BY <1>3 DEF TableInv, TableStep, SameRows, SameWorking, NotYetInserted, AttemptsLeft,
                  OneRunning, Follows, Early
<1>4. CASE SameWorking /\ committed' = working'
  <2>1. Follows(committed, working')
        BY <1>4 DEF TableInv, SameWorking, Follows
  <2>2. QED  BY <1>4, <2>1, FollowsReflexive
             DEF TableInv, TableStep, SameWorking, NotYetInserted, AttemptsLeft, OneRunning, Early
<1>5. QED  BY <1>1, <1>2, <1>3, <1>4 DEF TableStep

\* The first part of the invariant is inductive, and what is committed follows what was.
LEMMA TableInvStep ==
    ASSUME TableInv, [Next]_vars
    PROVE  TableInv' /\ Follows(committed, committed')
<1>1. TypeOK'
      BY TypeStep DEF TableInv
<1>2. QED  BY <1>1, EveryTableStep, TableStepKeeps DEF TableInv

(***************************************************************************)
(* The second part: as long as no POST is refused or fails.                *)
(***************************************************************************)
\* Outcomes stay, rows stay, and leases are kept.
Kept ==
    /\ ~ broken'
    /\ \A k \in Jobs :
          /\ working[k].status \in TERMINAL => working'[k].status = working[k].status
          /\ RowExists(working[k]) => RowExists(working'[k])
          /\ Leased(k) => Leased(k)'

\* What a repeated POST has found stays true as long as outcomes stay.
LEMMA FoundKept ==
    ASSUME TableInv, QuietInv, Kept, UNCHANGED found
    PROVE  FoundIsStored'
<1>1. \A j \in Jobs : found[j].seen.status \in TERMINAL => found[j].job \in Jobs
      BY FoundTypes DEF TableInv, TypeOK
<1>2. QED  BY <1>1 DEF QuietInv, FoundIsStored, Kept

\* A commit changes nothing that statements see.
LEMMA SameTableKept ==
    ASSUME QuietInv, UNCHANGED table \/ Commit
    PROVE  Kept /\ working' = working
BY DEF QuietInv, NothingRaised, Kept, Leased, Commit, table

\* A POST that is neither refused nor fails keeps the second part.
LEMMA QuietSubmit ==
    ASSUME TableInv, QuietInv, Quiet', NEW j \in Jobs, SubmitSelects(j) \/ SubmitStep(j)
    PROVE  QuietInv'
<1>1. submit \in [Jobs -> SubmitStates] /\ reported \in [Jobs -> Statuses \cup {"unknown"}]
      BY DEF TableInv, TypeOK, LoopTyped, CacheTyped
<1>2. Kept
  <2>1. CASE UNCHANGED table \/ Commit
        BY <2>1, SameTableKept
  <2>2. CASE SubmitCounts(j) /\ Rollback
        BY <1>1, <2>2 DEF QuietInv, NothingRaised, SubmitCounts, Submitting, Quiet, Rollback, table,
                          Kept, Leased
  <2>3. CASE SubmitInserts(j)
    <3>1. ~ broken'
          BY <1>1, <2>3 DEF SubmitInserts, Submitting, Quiet
    <3>2. working[j].status = "absent"
          BY <2>3 DEF SubmitInserts, Submitting, TableInv, NotYetInserted
    <3>3. QED  BY <2>3, <3>1, <3>2, InsertEffect DEF TableInv, Kept, Leased, OnlyRow, RowExists,
                                                     TERMINAL
  <2>4. QED  BY <2>1, <2>2, <2>3 DEF SubmitStep, SubmitSelects, SubmitCounts, SubmitCommits,
                                     SubmitFinds, SubmitKnows, SubmitReturns
<1>3. /\ UNCHANGED <<taken, process, save, erase, read>>
      /\ drain' = drain \/ drain' = "recover"
      BY DEF SubmitStep, SubmitSelects, SubmitCounts, SubmitInserts, SubmitCommits,
             SubmitFinds, SubmitKnows, SubmitReturns, Submitting
<1>4. \A k \in Jobs : reported'[k] \in TERMINAL => working'[k].status = reported'[k]
  <2>1. CASE UNCHANGED cache
        BY <1>2, <2>1 DEF QuietInv, SeenIsStored, Kept, cache
  <2>2. CASE SubmitKnows(j)
    <3>1. working' = working
          BY <2>2 DEF SubmitKnows, table
    <3>2. \/ reported' = reported
          \/ reported' = [reported EXCEPT ![found[j].job] = found[j].seen.status]
          BY <1>1, <2>2 DEF SubmitKnows
    <3>3. \A k \in Jobs : \/ reported'[k] = reported[k]
                          \/ k = found[j].job /\ reported'[k] = found[j].seen.status
          BY <1>1, <3>2
    <3>4. QED  BY <3>1, <3>3 DEF QuietInv, SeenIsStored, FoundIsStored
  <2>3. CASE SubmitReturns(j)
        BY <1>1, <1>2, <2>3 DEF SubmitReturns, QuietInv, SeenIsStored, Kept, TERMINAL
  <2>4. QED  BY <2>1, <2>2, <2>3 DEF SubmitStep, SubmitSelects, SubmitCounts, SubmitInserts,
                                     SubmitCommits, SubmitFinds
<1>9. found \in [Jobs -> Founds]
      BY DEF TableInv, TypeOK, CacheTyped
<1>5. LeasedWhileExecuted' /\ NothingRaised'
      BY <1>2, <1>3 DEF QuietInv, LeasedWhileExecuted, NothingRaised, Kept
<1>6. SavesFind'
      BY <1>2, <1>3 DEF QuietInv, SavesFind, Kept, TERMINAL
<1>7. ErasesFind' /\ SeenIsStored'
      BY <1>2, <1>3, <1>4 DEF QuietInv, ErasesFind, SeenIsStored, Kept
<1>8. FoundIsStored'
  <2>1. CASE UNCHANGED found
        BY <1>2, <2>1, FoundKept
  <2>2. CASE SubmitSelects(j)
    <3>1. UNCHANGED working
          BY <2>2 DEF SubmitSelects, table
    <3>2. CASE UNCHANGED found
          BY <1>2, <3>2, FoundKept
    <3>3. ASSUME NEW k \in Jobs,
                 found' = [found EXCEPT ![j] = [job |-> k, seen |-> Snapshot(k)]]
          PROVE  FoundIsStored'
      <4>1. /\ found'[j].job = k /\ found'[j].seen.status = working[k].status
            /\ \A i \in Jobs \ {j} : found'[i] = found[i]
            BY <1>9, <3>3, SnapshotTypes DEF TableInv, TypeOK
      <4>2. QED  BY <3>1, <4>1 DEF QuietInv, FoundIsStored
    <3>4. QED  BY <2>2, <3>2, <3>3, DurableJobsAssumption DEF SubmitSelects, Duplicates
  <2>3. CASE SubmitKnows(j)
    <3>1. UNCHANGED working
          BY <2>3 DEF SubmitKnows, table
    <3>2. /\ found'[j].seen = NoSnapshot /\ NoSnapshot.status \notin TERMINAL
          /\ \A i \in Jobs \ {j} : found'[i] = found[i]
          BY <1>9, <2>3 DEF SubmitKnows, Founds, NoSnapshot, TERMINAL
    <3>3. QED  BY <3>1, <3>2 DEF QuietInv, FoundIsStored
  <2>4. QED  BY <2>1, <2>2, <2>3 DEF SubmitStep, SubmitCounts, SubmitInserts, SubmitCommits,
                                     SubmitFinds, SubmitReturns
<1>10. QED  BY <1>5, <1>6, <1>7, <1>8 DEF QuietInv

\* The drain keeps it: a job that is claimed is leased, and no thread stores its outcome.
LEMMA QuietDrain ==
    ASSUME TableInv, QuietInv, DrainStep
    PROVE  QuietInv'
<1>1. /\ process \in [Jobs -> {"none", "ended", "dead"} \cup Alive]
      /\ reported \in [Jobs -> Statuses \cup {"unknown"}]
      /\ save \in [Jobs -> SaveStates]
      BY DEF TableInv, TypeOK, LoopTyped, CacheTyped, ThreadsTyped
<1>2. Kept
  <2>1. CASE UNCHANGED table \/ Commit
        BY <2>1, SameTableKept
  <2>2. CASE ClaimRecovers
        BY <2>2, RecoverEffect DEF TableInv, ClaimRecovers, Execute, Kept, Leased, RowExists,
                                   TERMINAL
  <2>3. CASE ClaimTakes
    <3>1. ~ broken'
          BY <2>3 DEF ClaimTakes, Execute
    <3>2. \A k \in Jobs :
             \/ working'[k] = working[k]
             \/ working[k].status = "queued" /\ working'[k].status = "running"
          BY <2>3, TakeEffect DEF TableInv, OnlyRow
    <3>3. QED  BY <3>1, <3>2 DEF Kept, Leased, RowExists, TERMINAL
  <2>4. QED  BY <2>1, <2>2, <2>3 DEF DrainStep, ClaimCommits, ClaimRaises, DrainStarts,
                                     DrainContinues
<1>3. UNCHANGED <<submit, found, save, erase, read>>
      BY DEF DrainStep, ClaimRecovers, ClaimTakes, ClaimCommits, ClaimRaises, DrainStarts,
             DrainContinues, DrainUnchanged, posts
<1>4. LeasedWhileExecuted'
  <2>1. CASE ClaimTakes
    <3>1. UNCHANGED process
          BY <2>1 DEF ClaimTakes
    <3>2. ASSUME NEW k \in Jobs, taken' = k
          PROVE  Leased(k)' /\ Idle(save[k])
      <4>1. /\ working[k].status = "queued"
            /\ working'[k].status = "running" /\ ~ working'[k].lapsed
            BY <2>1, <3>2, TakeEffect, DurableJobsAssumption DEF TableInv
      <4>2. QED  BY <1>1, <4>1 DEF QuietInv, SavesFind, Leased, Idle, TERMINAL, SaveStates
    <3>3. QED  BY <1>2, <1>3, <3>1, <3>2 DEF QuietInv, LeasedWhileExecuted, Kept
  <2>2. CASE DrainStarts
        BY <1>1, <1>2, <1>3, <2>2 DEF DrainStarts, QuietInv, LeasedWhileExecuted, Kept
  <2>3. CASE ~ ClaimTakes /\ ~ DrainStarts
    <3>1. /\ UNCHANGED process
          /\ \/ drain' \notin {"commit", "claimed"}
             \/ UNCHANGED taken /\ drain \in {"commit", "claimed"}
          BY <2>3 DEF DrainStep, ClaimRecovers, ClaimCommits, ClaimRaises, DrainContinues
    <3>2. QED  BY <1>2, <1>3, <3>1 DEF QuietInv, LeasedWhileExecuted, Kept
  <2>4. QED  BY <2>1, <2>2, <2>3
<1>5. \A k \in Jobs :
         /\ process'[k] = process[k] \/ process'[k] = "scheduled"
         /\ reported'[k] = reported[k] \/ reported'[k] = "running"
      BY <1>1 DEF DrainStep, ClaimRecovers, ClaimTakes, ClaimCommits, ClaimRaises, DrainStarts,
                  DrainContinues
<1>6. NothingRaised' /\ SavesFind'
      BY <1>2, <1>3, <1>5 DEF QuietInv, NothingRaised, SavesFind, Kept, TERMINAL
<1>7. ErasesFind' /\ SeenIsStored'
      BY <1>2, <1>3, <1>5 DEF QuietInv, ErasesFind, SeenIsStored, Kept, TERMINAL
<1>8. FoundIsStored'
      BY <1>2, <1>3, FoundKept
<1>9. QED  BY <1>4, <1>6, <1>7, <1>8 DEF QuietInv

\* A thread that stores an outcome finds the row leased, and keeps it.
LEMMA QuietSave ==
    ASSUME TableInv, QuietInv, NEW j \in Jobs, SaveStep(j)
    PROVE  QuietInv'
<1>1. save \in [Jobs -> SaveStates]
      BY DEF TableInv, TypeOK, ThreadsTyped
<1>2. UNCHANGED <<submit, found, drain, taken, process, erase, read, cache>>
      BY DEF SaveStep, SaveExecutes, SaveCommits, SaveRaises, ThreadUnchanged, LoopUnchanged, posts
<1>3. CASE SaveExecutes(j)
  <2>1. /\ ~ broken'
        /\ save' = [save EXCEPT ![j] = "commit"]
        BY <1>3 DEF SaveExecutes, Execute
  <2>2. /\ save[j] \in {"complete", "failed"}
        /\ working[j].status = "running"
        /\ working'[j].status = save[j]
        /\ OnlyRow(j)
        BY <1>3, SaveEffect DEF TableInv, QuietInv, SavesFind, Leased
  <2>3. \A k \in Jobs : working[k].status \in TERMINAL => working'[k].status = working[k].status
        BY <2>2 DEF OnlyRow, TERMINAL
  <2>4. NothingRaised' /\ LeasedWhileExecuted'
        BY <1>1, <1>2, <2>1, <2>2 DEF QuietInv, NothingRaised, LeasedWhileExecuted, Leased, OnlyRow,
                                      Idle
  <2>5. SavesFind'
        BY <1>1, <1>2, <2>1, <2>2 DEF QuietInv, SavesFind, Leased, OnlyRow, TERMINAL
  <2>6. ErasesFind' /\ SeenIsStored'
        BY <1>2, <2>2, <2>3 DEF QuietInv, ErasesFind, SeenIsStored, OnlyRow, RowExists, cache
  <2>7. FoundIsStored'
    <3>1. \A k \in Jobs : found[k].seen.status \in TERMINAL => found[k].job \in Jobs
          BY FoundTypes DEF TableInv, TypeOK
    <3>2. QED  BY <1>2, <2>3, <3>1 DEF QuietInv, FoundIsStored
  <2>8. QED  BY <2>4, <2>5, <2>6, <2>7 DEF QuietInv
<1>4. CASE SaveCommits(j)
  <2>1. Kept /\ working' = working
        BY <1>4, SameTableKept DEF SaveCommits
  <2>2. save[j] = "commit" /\ save' = [save EXCEPT ![j] = "done"]
        BY <1>4 DEF SaveCommits
  <2>3. NothingRaised' /\ LeasedWhileExecuted'
        BY <1>1, <1>2, <2>1, <2>2 DEF QuietInv, NothingRaised, LeasedWhileExecuted, Leased, Kept,
                                      Idle
  <2>4. SavesFind' /\ ErasesFind'
        BY <1>1, <1>2, <2>1, <2>2 DEF QuietInv, SavesFind, ErasesFind, Leased
  <2>5. SeenIsStored'
        BY <1>2, <2>1 DEF QuietInv, SeenIsStored, cache
  <2>6. FoundIsStored'
        BY <1>2, <2>1, FoundKept
  <2>7. QED  BY <2>3, <2>4, <2>5, <2>6 DEF QuietInv
<1>5. CASE SaveRaises(j)
      BY <1>5 DEF SaveRaises, QuietInv, NothingRaised
<1>6. QED  BY <1>3, <1>4, <1>5 DEF SaveStep

\* A thread that cancels keeps it.
LEMMA QuietErase ==
    ASSUME TableInv, QuietInv, NEW j \in Jobs, NEW c \in Callers, EraseStep(j, c)
    PROVE  QuietInv'
<1>1. UNCHANGED <<submit, found, drain, taken, process, save, read, cache>>
      BY DEF EraseStep, EraseFirst, EraseSecond, EraseCommits, EraseRaises, ThreadUnchanged,
             LoopUnchanged, posts
<1>2. ~ EraseRaises(j, c)
      BY DEF EraseRaises, QuietInv, NothingRaised
<1>3. Kept
  <2>1. CASE EraseFirst(j, c)
    <3>1. ~ broken'
          BY <2>1 DEF EraseFirst, Execute
    <3>2. QED  BY <2>1, <3>1, FirstEffect DEF TableInv, Kept, Leased, RowExists, OnlyRow, TERMINAL
  <2>2. CASE EraseSecond(j, c)
    <3>1. ~ broken'
          BY <2>2 DEF EraseSecond, Execute
    <3>2. QED  BY <2>2, <3>1, SecondEffect DEF TableInv, Kept, Leased, RowExists, OnlyRow, TERMINAL
  <2>3. CASE EraseCommits(j, c)
        BY <2>3, SameTableKept DEF EraseCommits
  <2>4. QED  BY <1>2, <2>1, <2>2, <2>3 DEF EraseStep
<1>4. LeasedWhileExecuted' /\ SavesFind'
      BY <1>1, <1>3 DEF QuietInv, LeasedWhileExecuted, SavesFind, Kept, TERMINAL
\* The thread moves on, and if it has read the row, the row was there if it is the
\* process's thread.
<1>5. \A k \in Jobs, d \in Callers :
         \/ /\ erase'[k][d].saw = erase[k][d].saw
            /\ \/ erase'[k][d].at = erase[k][d].at
               \/ erase[k][d].at = "first" /\ erase'[k][d].at = "second"
               \/ erase[k][d].at = "commit" /\ erase'[k][d].at = "done"
         \/ /\ erase[k][d].at = "second" /\ erase'[k][d].at = "commit"
            /\ erase'[k][d].saw = working[k].status
  <2>1. ThreadsTyped
        BY DEF TableInv, TypeOK
  <2>2. CASE EraseFirst(j, c)
    <3>1. /\ erase[j][c].at = "first"
          /\ erase' = [erase EXCEPT ![j][c].at = "second"]
          BY <2>2 DEF EraseFirst
    <3>2. QED  BY <2>1, <3>1, EraseMoves DEF EraseStates
  <2>3. CASE EraseSecond(j, c)
    <3>1. /\ erase[j][c].at = "second"
          /\ erase' = [erase EXCEPT ![j][c] = [at |-> "commit", saw |-> working[j].status]]
          BY <2>3 DEF EraseSecond
    <3>2. working[j].status \in Statuses
          BY RowTypes DEF TableInv
    <3>3. QED  BY <2>1, <3>1, <3>2, EraseSets DEF EraseStates
  <2>4. CASE EraseCommits(j, c)
    <3>1. /\ erase[j][c].at = "commit"
          /\ erase' = [erase EXCEPT ![j][c].at = "done"]
          BY <2>4 DEF EraseCommits
    <3>2. QED  BY <2>1, <3>1, EraseMoves DEF EraseStates
  <2>5. QED  BY <1>2, <2>2, <2>3, <2>4 DEF EraseStep
<1>6. NothingRaised'
  <2>1. \A k \in Jobs, d \in Slots : erase'[k][d].at # "raised"
        BY <1>5, CallersAre DEF QuietInv, NothingRaised
  <2>2. QED  BY <1>1, <1>3, <2>1 DEF QuietInv, NothingRaised, Kept
<1>7. ErasesFind'
  <2>1. SUFFICES ASSUME NEW k \in Jobs, NEW d \in Slots
                 PROVE  /\ erase'[k][d].at \in {"first", "second"} => RowExists(working'[k])
                        /\ erase'[k][d].at \in {"commit", "done"} => erase'[k][d].saw # "absent"
        BY DEF ErasesFind
  <2>2. QED  BY <1>3, <1>5, CallersAre DEF QuietInv, ErasesFind, Kept, RowExists
<1>8. SeenIsStored'
  <2>1. ASSUME NEW k \in Jobs, NEW d \in Callers,
               erase'[k][d].at \in {"commit", "done"}, erase'[k][d].saw \in TERMINAL
        PROVE  working'[k].status = erase'[k][d].saw
        BY <1>3, <1>5, <2>1 DEF QuietInv, SeenIsStored, Kept
  <2>2. QED  BY <1>1, <1>3, <2>1 DEF QuietInv, SeenIsStored, Kept, cache
<1>9. FoundIsStored'
      BY <1>1, <1>3, FoundKept
<1>10. QED  BY <1>4, <1>6, <1>7, <1>8, <1>9 DEF QuietInv

\* _process keeps it: it asks for an outcome while the row is leased, and reports what was stored.
LEMMA QuietProcess ==
    ASSUME TableInv, AliveIsAwaited, QuietInv, NEW j \in Jobs,
           ProcessStep(j) \/ WorkflowCommits(j)
    PROVE  QuietInv'
<1>1. /\ process \in [Jobs -> {"none", "ended", "dead"} \cup Alive]
      /\ save \in [Jobs -> SaveStates]
      /\ reported \in [Jobs -> Statuses \cup {"unknown"}]
      /\ ThreadsTyped
      BY DEF TableInv, TypeOK, LoopTyped, CacheTyped, ThreadsTyped
<1>2. Kept /\ working' = working
  <2>1. UNCHANGED table \/ Commit
        BY DEF ProcessStep, ProcessStarts, WorkflowEnds, ProcessSaved, ProcessErased, ErasedFor,
               WorkflowCommits, ProcessUnchanged
  <2>2. QED  BY <2>1, SameTableKept
<1>3. UNCHANGED <<submit, found, drain, taken, read>>
      BY DEF ProcessStep, ProcessStarts, WorkflowEnds, ProcessSaved, ProcessErased, ErasedFor,
             WorkflowCommits, ProcessUnchanged, LoopUnchanged, posts
<1>4. FoundIsStored'
      BY <1>2, <1>3, FoundKept
<1> USE DEF QuietInv, NothingRaised, LeasedWhileExecuted, SavesFind, ErasesFind, SeenIsStored,
            Kept, Leased, ProcessBecomes, StartSave
<1>5. CASE ProcessStarts(j)
      BY <1>1, <1>2, <1>3, <1>4, <1>5 DEF ProcessStarts, cache
<1>6. CASE WorkflowEnds(j)
  <2>1. Leased(j) /\ Idle(save[j])
        BY <1>6 DEF WorkflowEnds
  <2>2. UNCHANGED cache
        BY <1>6 DEF WorkflowEnds
  <2>3. CASE StartSave(j, "complete") /\ ProcessBecomes(j, "completing") /\ UNCHANGED erase
    <3>1. LeasedWhileExecuted' /\ NothingRaised'
          BY <1>1, <1>2, <1>3, <1>6, <2>3 DEF WorkflowEnds, AliveIsAwaited, Alive, Started
    <3>2. SavesFind'
          BY <1>1, <1>2, <2>1, <2>3
    <3>3. ErasesFind' /\ SeenIsStored'
          BY <1>2, <1>3, <2>2, <2>3 DEF cache
    <3>4. QED  BY <1>4, <3>1, <3>2, <3>3
  <2>4. CASE StartSave(j, "failed") /\ ProcessBecomes(j, "failing") /\ UNCHANGED erase
    <3>1. LeasedWhileExecuted' /\ NothingRaised'
          BY <1>1, <1>2, <1>3, <1>6, <2>4 DEF WorkflowEnds, AliveIsAwaited, Alive, Started
    <3>2. SavesFind'
          BY <1>1, <1>2, <2>1, <2>4
    <3>3. ErasesFind' /\ SeenIsStored'
          BY <1>2, <1>3, <2>2, <2>4 DEF cache
    <3>4. QED  BY <1>4, <3>1, <3>2, <3>3
  <2>5. CASE ProcessBecomes(j, "withdrawing") /\ StartErase(j, "body") /\ UNCHANGED save
    <3>1. \A k \in Jobs, d \in Callers :
             /\ erase'[k][d].saw = IF k = j /\ d = "body" THEN "absent" ELSE erase[k][d].saw
             /\ erase'[k][d].at = IF k = j /\ d = "body" THEN "first" ELSE erase[k][d].at
      <4>1. ThreadsTyped /\ "body" \in Callers /\ StartErase(j, "body")
            BY <1>1, <2>5, CallersAre
      <4>2. QED  BY <4>1, StartEffect
    <3>2. ErasesFind' /\ NothingRaised'
          BY <1>2, <2>1, <2>5, <3>1, CallersAre DEF RowExists
    <3>3. LeasedWhileExecuted' /\ SavesFind'
          BY <1>1, <1>2, <1>3, <2>1, <2>5
    <3>4. SeenIsStored'
          BY <1>2, <1>3, <2>2, <3>1 DEF cache
    <3>5. QED  BY <1>4, <3>2, <3>3, <3>4
  <2>6. QED  BY <1>6, <2>3, <2>4, <2>5 DEF WorkflowEnds
<1>7. CASE ProcessSaved(j)
  <2>1. /\ UNCHANGED erase /\ StartSave(j, "idle")
        /\ ProcessLeaves(j, "ended")
        /\ \E o \in TERMINAL : working[j].status = o /\ reported' = [reported EXCEPT ![j] = o]
        BY <1>7 DEF ProcessSaved, TERMINAL
  <2>2. process'[j] \in {"ended", "dead"} /\ \A k \in Jobs \ {j} : process'[k] = process[k]
        BY <1>1, <2>1 DEF ProcessLeaves
  <2>3. NothingRaised' /\ SavesFind'
        BY <1>1, <1>2, <2>1, <2>2
  <2>4. LeasedWhileExecuted'
        BY <1>1, <1>2, <1>3, <2>1, <2>2 DEF Idle
  <2>5. ErasesFind' /\ SeenIsStored'
        BY <1>1, <1>2, <1>3, <2>1
  <2>6. QED  BY <1>4, <2>3, <2>4, <2>5
<1>8. CASE ProcessErased(j)
  <2>1. PICK c \in Slots : ErasedFor(j, c)
        BY <1>8 DEF ProcessErased
  <2>2. c \in Callers /\ Erased(erase[j][c])
        BY <2>1, CallersAre DEF ErasedFor, Erased, EraseFailed
  <2>3. /\ UNCHANGED save
        /\ ProcessLeaves(j, "ended")
        /\ CacheCancels(j, erase[j][c].saw)
        /\ EraseEnds(j, c)
        BY <2>1, <2>2 DEF ErasedFor, Erased, EraseFailed
  <2>4. \A k \in Jobs : reported'[k] \in TERMINAL => working[k].status = reported'[k]
        BY <1>1, <2>2, <2>3 DEF CacheCancels, Erased
  <2>5. \A k \in Jobs, d \in Callers : erase'[k][d] = erase[k][d] \/ erase'[k][d].at = "idle"
        BY <1>1, <2>2, <2>3, EndEffect
  <2>6. process'[j] \in {"ended", "dead"} /\ \A k \in Jobs \ {j} : process'[k] = process[k]
        BY <1>1, <2>3 DEF ProcessLeaves
  <2>7. NothingRaised' /\ SavesFind' /\ LeasedWhileExecuted'
        BY <1>1, <1>2, <1>3, <2>3, <2>5, <2>6, CallersAre
  <2>8. ErasesFind' /\ SeenIsStored'
        BY <1>2, <1>3, <2>4, <2>5, CallersAre
  <2>9. QED  BY <1>4, <2>7, <2>8
<1>9. CASE WorkflowCommits(j)
      BY <1>2, <1>3, <1>4, <1>9 DEF WorkflowCommits, LoopUnchanged, cache
<1>10. QED  BY <1>5, <1>6, <1>7, <1>8, <1>9 DEF ProcessStep

\* A refresh keeps it: leases are renewed.
LEMMA QuietRefresh ==
    ASSUME TableInv, QuietInv, NEW j \in Jobs, RefreshStep(j)
    PROVE  QuietInv'
<1>1. RefreshCommits(j)
      BY DEF RefreshStep, RefreshRaises, QuietInv, NothingRaised
<1>2. UNCHANGED <<found, drain, taken, process, save, erase, read, reported>>
      BY <1>1 DEF RefreshCommits, Refreshes, LoopUnchanged, posts, cache
<1>3. /\ Kept
      /\ \A k \in Jobs : working'[k].status = working[k].status
      BY <1>1, RefreshEffect DEF TableInv, Kept, Leased, RowExists
<1>4. NothingRaised' /\ LeasedWhileExecuted' /\ SavesFind'
      BY <1>2, <1>3 DEF QuietInv, NothingRaised, LeasedWhileExecuted, SavesFind, Kept
<1>5. ErasesFind' /\ SeenIsStored'
      BY <1>2, <1>3 DEF QuietInv, ErasesFind, SeenIsStored, RowExists
<1>6. FoundIsStored'
      BY <1>2, <1>3, FoundKept
<1>7. QED  BY <1>4, <1>5, <1>6 DEF QuietInv

\* A DELETE that returns tells the process or does not; no other thread is touched.
LEMMA HandOverEffect ==
    ASSUME ThreadsTyped, NEW j \in Jobs, NEW c \in Clients, DeleteReturns(j, c)
    PROVE  \A k \in Jobs, d \in Callers :
              \/ erase'[k][d] = erase[k][d]
              \/ d = c /\ erase'[k][d].at = "idle"
              \/ /\ k = j /\ d = "handler" /\ erase'[k][d] = [at |-> "first", saw |-> "absent"]
                 /\ process[j] \in {"working", "completing", "withdrawing"}
<1>1. CASE EraseEnds(j, c)
      BY <1>1, EndEffect, CallersAre
<1>2. CASE ~ EraseEnds(j, c)
  <2>1. /\ erase' = [erase EXCEPT ![j][c] = NoErase,
                                  ![j]["handler"] = [at |-> "first", saw |-> "absent"]]
        /\ process[j] \in {"working", "completing", "withdrawing"}
        BY <1>2 DEF DeleteReturns, Interrupted
  <2>2. \A k \in Jobs, d \in Callers :
           \/ erase'[k][d] = erase[k][d]
           \/ k = j /\ d = c /\ erase'[k][d].at = "idle"
           \/ k = j /\ d = "handler" /\ erase'[k][d] = [at |-> "first", saw |-> "absent"]
        BY <2>1, EraseHandsOver
  <2>3. QED  BY <2>1, <2>2
<1>3. QED  BY <1>1, <1>2

\* DELETE and GET keep it: whatever they hand to the cache, an outcome among it is stored.
LEMMA QuietClient ==
    ASSUME TableInv, QuietInv, NEW j \in Jobs, NEW c \in Clients, ClientStep(j, c)
    PROVE  QuietInv'
<1>1. /\ process \in [Jobs -> {"none", "ended", "dead"} \cup Alive]
      /\ save \in [Jobs -> SaveStates]
      /\ reported \in [Jobs -> Statuses \cup {"unknown"}]
      /\ read \in [Jobs -> [Clients -> {NoSnapshot} \cup Snapshots]]
      /\ ThreadsTyped
      BY DEF TableInv, TypeOK, LoopTyped, CacheTyped, ThreadsTyped
<1>2. UNCHANGED <<table, submit, found, drain, taken, save>>
      BY DEF ClientStep, DeleteArrives, DeleteReturns, GetReads, GetReturns, GetUnchanged,
             ProcessUnchanged, posts
<1>3. Kept /\ working' = working
      BY <1>2, SameTableKept
<1>4. FoundIsStored'
      BY <1>2, <1>3, FoundKept
<1> USE DEF QuietInv, NothingRaised, LeasedWhileExecuted, SavesFind, ErasesFind, SeenIsStored,
            Kept, Leased
<1>5. CASE DeleteArrives(j, c)
  <2>1. \A k \in Jobs, d \in Callers :
           /\ erase'[k][d].saw = IF k = j /\ d = c THEN "absent" ELSE erase[k][d].saw
           /\ erase'[k][d].at = IF k = j /\ d = c THEN "first" ELSE erase[k][d].at
    <3>1. ThreadsTyped /\ c \in Callers /\ StartErase(j, c)
          BY <1>1, <1>5, CallersAre DEF DeleteArrives
    <3>2. QED  BY <3>1, StartEffect
  <2>2. UNCHANGED <<process, cache, read>>
        BY <1>5 DEF DeleteArrives, ProcessUnchanged
  <2>3. c \notin Slots /\ \A d \in Slots : d \in Callers
        BY CallersAre
  <2>4. NothingRaised' /\ ErasesFind'
        BY <1>2, <1>3, <2>1, <2>3
  <2>5. LeasedWhileExecuted' /\ SavesFind'
        BY <1>2, <1>3, <2>2
  <2>6. SeenIsStored'
        BY <1>3, <2>1, <2>2 DEF cache
  <2>7. QED  BY <1>4, <2>4, <2>5, <2>6
<1>6. CASE DeleteReturns(j, c)
  <2>1. \A k \in Jobs, d \in Callers :
           \/ erase'[k][d] = erase[k][d]
           \/ d = c /\ erase'[k][d].at = "idle"
           \/ /\ k = j /\ d = "handler" /\ erase'[k][d] = [at |-> "first", saw |-> "absent"]
              /\ process[j] \in {"working", "completing", "withdrawing"}
        BY <1>6, HandOverEffect, CallersAre DEF TableInv, TypeOK
  <2>2. \A k \in Jobs : process'[k] = process[k] \/ process'[k] \in {"cancelling", "dead"}
        BY <1>1, <1>6 DEF DeleteReturns, Interrupted, ProcessBecomes, ProcessLeaves
  <2>3. \A k \in Jobs : reported'[k] \in TERMINAL => working[k].status = reported'[k]
        BY <1>1, <1>6, CallersAre DEF DeleteReturns, CacheCancels, Erased, cache
  <2>4. UNCHANGED read
        BY <1>6 DEF DeleteReturns, ProcessUnchanged
  <2>5. NothingRaised' /\ LeasedWhileExecuted' /\ SavesFind'
        BY <1>2, <1>3, <2>1, <2>2, CallersAre
  <2>6. process[j] \in {"working", "completing", "withdrawing"} => RowExists(working[j])
        BY DEF RowExists
  <2>7. ErasesFind'
        BY <1>3, <2>1, <2>6, CallersAre
  <2>8. SeenIsStored'
        BY <1>3, <2>1, <2>3, <2>4
  <2>9. QED  BY <1>4, <2>5, <2>7, <2>8
<1>7. CASE GetReads(j, c)
  <2>1. Snapshot(j).status = working[j].status
        BY DEF Snapshot
  <2>2. QED  BY <1>1, <1>2, <1>3, <1>4, <1>7, <2>1 DEF GetReads, GetUnchanged, cache
<1>8. CASE GetReturns(j, c)
      BY <1>1, <1>2, <1>3, <1>4, <1>8 DEF GetReturns, GetUnchanged, NoSnapshot, TERMINAL
<1>9. QED  BY <1>5, <1>6, <1>7, <1>8 DEF ClientStep

\* A lease lapses only when nobody works on the job.
LEMMA QuietLapse ==
    ASSUME TableInv, QuietInv, NEW j \in Jobs, LeaseLapses(j)
    PROVE  QuietInv'
<1>1. /\ process[j] \notin Alive
      /\ Idle(save[j])
      /\ ~ (drain \in {"commit", "claimed"} /\ taken = j)
      /\ UNCHANGED <<broken, found, drain, taken, process, save, erase, read, cache>>
      BY DEF LeaseLapses, LoopUnchanged, posts
<1>2. /\ OnlyRow(j)
      /\ \A k \in Jobs : working'[k].status = working[k].status
      BY LapseEffect DEF TableInv
<1>3. LeasedWhileExecuted'
      BY <1>1, <1>2 DEF QuietInv, LeasedWhileExecuted, Leased, OnlyRow, Alive, Started
<1>4. SavesFind'
      BY <1>1, <1>2 DEF QuietInv, SavesFind, Leased, OnlyRow, Idle
<1>5. NothingRaised' /\ ErasesFind' /\ SeenIsStored'
      BY <1>1, <1>2 DEF QuietInv, NothingRaised, ErasesFind, SeenIsStored, RowExists, cache
<1>6. FoundIsStored'
  <2>1. \A k \in Jobs : found[k].seen.status \in TERMINAL => found[k].job \in Jobs
        BY FoundTypes DEF TableInv, TypeOK
  <2>2. QED  BY <1>1, <1>2, <2>1 DEF QuietInv, FoundIsStored
<1>7. QED  BY <1>3, <1>4, <1>5, <1>6 DEF QuietInv

\* After a crash nothing is known and nothing is under way.
LEMMA QuietCrash ==
    ASSUME TypeOK, Crash
    PROVE  QuietInv'
<1>1. /\ \A k \in Jobs : found'[k].seen = NoSnapshot
      /\ NoSnapshot.status = "none"
      BY FoundTypes DEF Crash, TypeOK, Founds, NoSnapshot
<1>2. /\ ~ broken' /\ drain' = "none"
      /\ \A k \in Jobs :
            /\ process'[k] = "none" /\ save'[k] = "idle"
            /\ reported'[k] = "unknown"
            /\ \A c \in Clients : read'[k][c] = NoSnapshot
            /\ \A c \in Callers : erase'[k][c].at = "idle"
      BY DEF Crash, Rollback, EraseIdle, NoErase, Unread
<1>3. QED  BY <1>1, <1>2, CallersAre DEF QuietInv, NothingRaised, LeasedWhileExecuted, SavesFind, ErasesFind,
                       SeenIsStored, FoundIsStored, TERMINAL

\* Only the job that _drain awaits is executed, whatever interrupts it.
LEMMA AwaitedStep ==
    ASSUME TypeOK, AliveIsAwaited, [Next]_vars
    PROVE  AliveIsAwaited'
<1>1. process \in [Jobs -> {"none", "ended", "dead"} \cup Alive]
      BY DEF TypeOK, LoopTyped
<1>2. ASSUME UNCHANGED <<drain, taken>>,
             \A k \in Jobs : process'[k] \in Alive => process[k] \in Alive
      PROVE  AliveIsAwaited'
      BY <1>2 DEF AliveIsAwaited
<1>3. ASSUME NEW j \in Jobs, SubmitSelects(j) \/ SubmitStep(j)
      PROVE  AliveIsAwaited'
      BY <1>3 DEF AliveIsAwaited, SubmitSelects, SubmitStep, SubmitCounts, SubmitInserts,
                  SubmitCommits, SubmitFinds, SubmitKnows, SubmitReturns, Submitting, DrainDone
<1>4. CASE DrainStep
  <2>1. CASE DrainStarts
        BY <1>1, <1>4, <2>1 DEF DrainStarts, AliveIsAwaited
  <2>2. CASE DrainContinues
        BY <2>2 DEF DrainContinues, AliveIsAwaited, Alive, Started
  <2>3. QED  BY <1>4, <2>1, <2>2 DEF DrainStep, ClaimRecovers, ClaimTakes, ClaimCommits,
                                     ClaimRaises, AliveIsAwaited
<1>5. ASSUME NEW j \in Jobs, SaveStep(j) \/ \E c \in Callers : EraseStep(j, c)
      PROVE  AliveIsAwaited'
      BY <1>2, <1>5 DEF SaveStep, SaveExecutes, SaveCommits, SaveRaises, EraseStep, EraseFirst,
                        EraseSecond, EraseCommits, EraseRaises, ThreadUnchanged, LoopUnchanged
<1>6. ASSUME NEW j \in Jobs, ProcessStep(j)
      PROVE  AliveIsAwaited'
      BY <1>1, <1>2, <1>6 DEF ProcessStep, ProcessStarts, WorkflowEnds, ProcessSaved, ProcessErased,
                              ErasedFor, ProcessUnchanged, ProcessBecomes, ProcessLeaves, Alive,
                              Started
<1>7. ASSUME NEW j \in Jobs, NEW c \in Clients, ClientStep(j, c)
      PROVE  AliveIsAwaited'
      BY <1>1, <1>2, <1>7 DEF ClientStep, DeleteArrives, DeleteReturns, GetReads, GetReturns,
                              GetUnchanged, Interrupted, ProcessUnchanged, ProcessBecomes,
                              ProcessLeaves, Alive, Started
<1>8. ASSUME NEW j \in Jobs, WorkflowCommits(j) \/ RefreshStep(j) \/ LeaseLapses(j)
      PROVE  AliveIsAwaited'
      BY <1>2, <1>8 DEF WorkflowCommits, RefreshStep, RefreshCommits, RefreshRaises, Refreshes,
                        LeaseLapses, LoopUnchanged
<1>9. CASE Crash
      BY <1>9 DEF Crash, AliveIsAwaited, Alive, Started
<1>10. CASE UNCHANGED vars
      BY <1>2, <1>10 DEF vars
<1>11. QED  BY <1>3, <1>4, <1>5, <1>6, <1>7, <1>8, <1>9, <1>10 DEF Next

\* A refusal or a failure is never forgotten.
LEMMA QuietBefore ==
    ASSUME TypeOK, [Next]_vars, Quiet'
    PROVE  Quiet
<1>1. submit \in [Jobs -> SubmitStates]
      BY DEF TypeOK, LoopTyped
<1>2. CASE UNCHANGED submit
      BY <1>2 DEF Quiet
<1>3. ASSUME NEW j \in Jobs, SubmitSelects(j) \/ SubmitStep(j)
      PROVE  Quiet
      BY <1>1, <1>3 DEF Quiet, SubmitStep, SubmitSelects, SubmitCounts, SubmitInserts,
                        SubmitCommits, SubmitFinds, SubmitKnows, SubmitReturns, Submitting
<1>4. CASE Crash
      BY <1>1, <1>4 DEF Quiet, Crash
<1>5. CASE DrainStep
      BY <1>2, <1>5 DEF DrainStep, ClaimRecovers, ClaimTakes, ClaimCommits, ClaimRaises,
                        DrainStarts, DrainContinues, DrainUnchanged, posts
<1>6. ASSUME NEW j \in Jobs, SaveStep(j) \/ \E c \in Callers : EraseStep(j, c)
      PROVE  Quiet
      BY <1>2, <1>6 DEF SaveStep, SaveExecutes, SaveCommits, SaveRaises, EraseStep, EraseFirst,
                        EraseSecond, EraseCommits, EraseRaises, ThreadUnchanged, LoopUnchanged, posts
<1>7. ASSUME NEW j \in Jobs, ProcessStep(j) \/ \E c \in Clients : ClientStep(j, c)
      PROVE  Quiet
      BY <1>2, <1>7 DEF ProcessStep, ProcessStarts, WorkflowEnds, ProcessSaved, ProcessErased,
                        ErasedFor, ClientStep, DeleteArrives, DeleteReturns, GetReads, GetReturns,
                        GetUnchanged, ProcessUnchanged, posts
<1>8. ASSUME NEW j \in Jobs, WorkflowCommits(j) \/ RefreshStep(j) \/ LeaseLapses(j)
      PROVE  Quiet
      BY <1>2, <1>8 DEF WorkflowCommits, RefreshStep, RefreshCommits, RefreshRaises, Refreshes,
                        LeaseLapses, LoopUnchanged, posts
<1>9. CASE UNCHANGED vars
      BY <1>2, <1>9 DEF vars, posts
<1>10. QED  BY <1>3, <1>4, <1>5, <1>6, <1>7, <1>8, <1>9 DEF Next

\* The second part is inductive.
LEMMA QuietStep ==
    ASSUME IInv, [Next]_vars, Quiet'
    PROVE  QuietInv'
<1>1. TableInv /\ AliveIsAwaited /\ QuietInv
      BY QuietBefore DEF IInv, TableInv
<1>2. CASE UNCHANGED vars
      BY <1>1, <1>2 DEF vars, table, posts, cache, QuietInv, NothingRaised, LeasedWhileExecuted,
                        SavesFind, ErasesFind, SeenIsStored, FoundIsStored, Leased
<1>3. CASE Next
      BY <1>1, <1>3, QuietSubmit, QuietDrain, QuietSave, QuietErase, QuietProcess, QuietRefresh,
         QuietClient, QuietLapse, QuietCrash DEF Next, TableInv
<1>4. QED  BY <1>2, <1>3

(***************************************************************************)
(* The theorems.                                                           *)
(***************************************************************************)
\* The invariant.
LEMMA Invariance == Spec => []IInv
<1>1. Init => IInv
  <2>1. ASSUME Init
        PROVE  IInv
    <3>1. TableTyped /\ CacheTyped
          BY <2>1 DEF Init, TableTyped, CacheTyped, Founds, Unread, NoRow, Rows, Statuses
    <3>2. ThreadsTyped
          BY <2>1 DEF Init, ThreadsTyped, EraseIdle, NoErase, Erases, EraseStates, SaveStates,
                      Statuses, RefresherStates
    <3>3. LoopTyped
          BY <2>1, DurableBoundsAssumption DEF Init, LoopTyped, SubmitStates, DrainStates
    <3>4. TableInv
          BY <2>1, <3>1, <3>2, <3>3, DurableBoundsAssumption
             DEF Init, TableInv, TypeOK, NotYetInserted, AttemptsLeft, OneRunning, Follows, NoRow,
                 TERMINAL
    <3>5. AliveIsAwaited
          BY <2>1 DEF Init, AliveIsAwaited, Alive, Started
    <3>6. QuietInv
          BY <2>1, CallersAre
             DEF Init, QuietInv, NothingRaised, LeasedWhileExecuted, SavesFind, ErasesFind,
                      SeenIsStored, FoundIsStored, EraseIdle, NoErase, Unread, NoSnapshot, TERMINAL
    <3>7. QED  BY <3>4, <3>5, <3>6 DEF IInv
  <2>2. QED  BY <2>1
<1>2. IInv /\ [Next]_vars => IInv'
      BY TableInvStep, AwaitedStep, QuietStep DEF IInv, TableInv
<1>3. QED  BY <1>1, <1>2, PTL DEF Spec

\* The state is well-typed.
THEOREM TypeCorrect == Spec => []TypeOK
<1>1. IInv => TypeOK
      BY DEF IInv, TableInv
<1>2. QED  BY <1>1, Invariance, PTL

\* The table never holds two running jobs, in the open transaction or after a commit:
\* claim_job's check is enough, whatever commits or is rolled back between its statements.
THEOREM OneRunningCorrect == Spec => []OneRunningRow
<1>1. IInv => OneRunningRow
      BY DEF IInv, TableInv, OneRunning, OneRunningRow
<1>2. QED  BY <1>1, Invariance, PTL

\* No job is executed more than MaxAttempts times, however often the process dies.
THEOREM AttemptsCorrect == Spec => []AttemptsBounded
<1>1. IInv => AttemptsBounded
      BY DEF IInv, TableInv, AttemptsLeft, AttemptsBounded
<1>2. QED  BY <1>1, Invariance, PTL

\* As long as no POST was refused or failed, what the API reports is what is stored.
THEOREM ReportedCorrect == Spec => []ReportedIsStored
<1>1. IInv => ReportedIsStored
      BY DEF IInv, Quiet, QuietInv, SeenIsStored, ReportedIsStored
<1>2. QED  BY <1>1, Invariance, PTL

\* An outcome that was committed is final.
THEOREM FinalCorrect == Spec => CommittedIsFinal
<1>1. IInv /\ [Next]_vars =>
         [\A j \in Jobs : committed[j].status \in TERMINAL
                             => committed'[j].status = committed[j].status]_vars
      BY TableInvStep DEF IInv, Follows
<1>2. QED  BY <1>1, Invariance, PTL DEF Spec, CommittedIsFinal

\* A claim hands out only a job that nobody has asked to cancel.
LEMMA TakenIsWanted ==
    ASSUME TypeOK, [Next]_vars, NEW j \in Jobs, taken' = j, taken # j
    PROVE  ~ working[j].cancel
<1>1. NoJob # j
      BY DurableJobsAssumption
<1>2. ClaimTakes
  <2>1. CASE DrainStep
        BY <1>1, <2>1 DEF DrainStep, ClaimRecovers, ClaimCommits, ClaimRaises, DrainStarts,
                          DrainContinues
  <2>2. ASSUME NEW k \in Jobs, SubmitSelects(k) \/ SubmitStep(k)
        PROVE  FALSE
        BY <2>2 DEF SubmitStep, SubmitSelects, SubmitCounts, SubmitInserts, SubmitCommits,
                    SubmitFinds, SubmitKnows, SubmitReturns, Submitting
  <2>3. ASSUME NEW k \in Jobs, SaveStep(k) \/ \E c \in Callers : EraseStep(k, c)
        PROVE  FALSE
        BY <2>3 DEF SaveStep, SaveExecutes, SaveCommits, SaveRaises, EraseStep, EraseFirst,
                    EraseSecond, EraseCommits, EraseRaises, ThreadUnchanged, LoopUnchanged
  <2>4. ASSUME NEW k \in Jobs, ProcessStep(k) \/ \E c \in Clients : ClientStep(k, c)
        PROVE  FALSE
        BY <2>4 DEF ProcessStep, ProcessStarts, WorkflowEnds, ProcessSaved, ProcessErased,
                    ErasedFor, ClientStep, DeleteArrives, DeleteReturns, GetReads, GetReturns,
                    GetUnchanged, ProcessUnchanged
  <2>5. ASSUME NEW k \in Jobs, WorkflowCommits(k) \/ RefreshStep(k) \/ LeaseLapses(k)
        PROVE  FALSE
        BY <2>5 DEF WorkflowCommits, RefreshStep, RefreshCommits, RefreshRaises, Refreshes,
                    LeaseLapses, LoopUnchanged
  <2>6. ~ Crash /\ ~ UNCHANGED vars
        BY <1>1 DEF Crash, vars
  <2>7. QED  BY <2>1, <2>2, <2>3, <2>4, <2>5, <2>6 DEF Next
<1>3. QED  BY <1>1, <1>2, TakeEffect

\* A job whose cancellation was committed is not handed out again: a claim reads the
\* flag in the table that follows the committed one, and counts every job it takes.
THEOREM NeverClaimedCorrect == Spec => CancelledNeverClaimed
<1>1. IInv /\ [Next]_vars =>
         [\A j \in Jobs : committed[j].cancel =>
             /\ taken' = j => taken = j
             /\ committed'[j].attempts = committed[j].attempts]_vars
  <2>1. ASSUME IInv, [Next]_vars, NEW j \in Jobs, committed[j].cancel
        PROVE  /\ taken' = j => taken = j
               /\ committed'[j].attempts = committed[j].attempts
    <3>1. TableInv /\ Follows(committed, working)
          BY <2>1 DEF IInv, TableInv
    <3>2. working[j].cancel
          BY <2>1, <3>1 DEF Follows
    <3>3. taken' = j => taken = j
          BY <2>1, <3>1, <3>2, TakenIsWanted DEF TableInv
    <3>4. committed'[j].attempts = committed[j].attempts
          BY <2>1, <3>1, TableInvStep DEF Follows
    <3>5. QED  BY <3>3, <3>4
  <2>2. QED  BY <2>1
<1>2. QED  BY <1>1, Invariance, PTL DEF Spec, CancelledNeverClaimed

=============================================================================
