--------------------------- MODULE QueueRefinement ---------------------------
(***************************************************************************)
(* Coordinator implements JobQueue: every behaviour of the store, the      *)
(* drain and the asyncio tasks is, to whoever sees the public positions,   *)
(* the outcomes and the event streams, a behaviour of the queue.           *)
(*                                                                         *)
(* The mapping of the line is by position, and a position is a count.  So  *)
(* the first part is about ranks in a finite set, the second one relates   *)
(* ranks to lines, and the third one maps every step of Coordinator.       *)
(***************************************************************************)
EXTENDS CoordinatorProofs, FunctionTheorems

-----------------------------------------------------------------------------
(***************************************************************************)
(* Ranks: c dates the members of D, and S is a finite set of them.         *)
(***************************************************************************)
Dated(D, c, S) ==
    /\ c \in [D -> Nat]
    /\ \A a, b \in D : c[a] = c[b] => a = b
    /\ S \subseteq D /\ IsFiniteSet(S)

UpTo(c, S, j) == {k \in S : c[k] <= c[j]}
Rank(c, S, j) == Cardinality(UpTo(c, S, j))
Listing(c, S) == [i \in 1 .. Cardinality(S) |-> CHOOSE j \in S : Rank(c, S, j) = i]

\* The line w without its p-th place.
Without(w, p) == SubSeq(w, 1, p - 1) \o SubSeq(w, p + 1, Len(w))

\* t puts every member of S at its rank.
Ranked(c, S, t) ==
    t \in Seq(S) /\ Len(t) = Cardinality(S) /\ \A i \in 1 .. Len(t) : Rank(c, S, t[i]) = i

\* d dates the members of S as c does, and x, which is none of them, later.
JoinsLast(c, S, d, x) == x \notin S /\ \A k \in S : d[k] = c[k] /\ d[k] < d[x]

\* The rank of a member is between 1 and the number of members.
LEMMA RankRange ==
  ASSUME NEW D, NEW c, NEW S, Dated(D, c, S), NEW j \in S
  PROVE  /\ Cardinality(S) \in Nat
         /\ Rank(c, S, j) \in 1 .. Cardinality(S)
         /\ IsFiniteSet(UpTo(c, S, j)) /\ j \in UpTo(c, S, j)
<1>1. IsFiniteSet(S) /\ UpTo(c, S, j) \in SUBSET S /\ j \in UpTo(c, S, j)
  BY DEF Dated, UpTo
<1>2. /\ IsFiniteSet(UpTo(c, S, j)) /\ Rank(c, S, j) <= Cardinality(S)
      /\ Rank(c, S, j) \in Nat /\ Cardinality(S) \in Nat
  BY <1>1, FS_Subset, FS_CardinalityType DEF Rank
<1>3. Rank(c, S, j) # 0
  BY <1>1, <1>2, FS_EmptySet DEF Rank
<1> QED BY <1>1, <1>2, <1>3

\* Ranks are in the order of the dates.
LEMMA RankOrder ==
  ASSUME NEW D, NEW c, NEW S, Dated(D, c, S), NEW a \in S, NEW b \in S
  PROVE  /\ c[a] < c[b] => Rank(c, S, a) < Rank(c, S, b)
         /\ Rank(c, S, a) = Rank(c, S, b) => a = b
<1>1. ASSUME NEW x \in S, NEW y \in S, c[x] < c[y]
      PROVE  Rank(c, S, x) < Rank(c, S, y)
  <2>1. c[x] \in Nat /\ c[y] \in Nat /\ \A k \in S : c[k] \in Nat
    BY DEF Dated
  <2>2. UpTo(c, S, x) \in SUBSET UpTo(c, S, y) /\ y \notin UpTo(c, S, x) /\ y \in UpTo(c, S, y)
    BY <1>1, <2>1 DEF UpTo
  <2>3. IsFiniteSet(UpTo(c, S, y)) /\ Rank(c, S, x) \in Nat /\ Rank(c, S, y) \in Nat
    BY RankRange
  <2>4. Rank(c, S, x) <= Rank(c, S, y) /\ Rank(c, S, x) # Rank(c, S, y)
    BY <2>2, <2>3, FS_Subset DEF Rank
  <2> QED BY <2>3, <2>4
<1>2. c[a] \in Nat /\ c[b] \in Nat /\ (c[a] = c[b] => a = b)
  BY DEF Dated
<1>3. Rank(c, S, a) \in Nat /\ Rank(c, S, b) \in Nat
  BY RankRange
<1>4. CASE c[a] < c[b]
  BY <1>1, <1>2, <1>3, <1>4
<1>5. CASE c[b] < c[a]
  BY <1>1, <1>2, <1>3, <1>5
<1>6. CASE c[a] = c[b]
  BY <1>2, <1>6
<1> QED BY <1>2, <1>4, <1>5, <1>6

\* Every number up to the number of members is the rank of a member.
LEMMA RankOnto ==
  ASSUME NEW D, NEW c, NEW S, Dated(D, c, S), NEW i \in 1 .. Cardinality(S)
  PROVE  \E j \in S : Rank(c, S, j) = i
<1> DEFINE n == Cardinality(S)
<1> DEFINE f == [j \in S |-> Rank(c, S, j)]
<1>1. IsFiniteSet(S) /\ n \in Nat
  BY FS_CardinalityType DEF Dated
<1>2. f \in [S -> 1 .. n] /\ \A a, b \in S : f[a] = f[b] => a = b
  BY RankRange, RankOrder
<1>3. f \in Injection(S, 1 .. n)
  BY <1>2 DEF Injection, IsInjective
<1>4. IsFiniteSet(1 .. n) /\ Cardinality(1 .. n) = n
  BY <1>1, FS_Interval
<1>5. f \in Surjection(S, 1 .. n)
  BY <1>3, <1>4, FS_Injection
<1>6. PICK j \in S : f[j] = i
  BY <1>5 DEF Surjection
<1> QED BY <1>6

-----------------------------------------------------------------------------
(***************************************************************************)
(* Lines: the members by rank.                                             *)
(***************************************************************************)
LEMMA ListingType ==
  ASSUME NEW D, NEW c, NEW S, Dated(D, c, S)
  PROVE  /\ Listing(c, S) \in Seq(S)
         /\ Len(Listing(c, S)) = Cardinality(S) /\ Cardinality(S) \in Nat
         /\ DOMAIN Listing(c, S) = 1 .. Cardinality(S)
         /\ \A i \in 1 .. Cardinality(S) :
               Listing(c, S)[i] \in S /\ Rank(c, S, Listing(c, S)[i]) = i
         /\ \A j \in S : /\ Rank(c, S, j) \in 1 .. Cardinality(S)
                         /\ Listing(c, S)[Rank(c, S, j)] = j
<1> DEFINE n == Cardinality(S)
<1> DEFINE w == Listing(c, S)
<1>1. n \in Nat
  BY FS_CardinalityType DEF Dated
<1>2. \A i \in 1 .. n : w[i] \in S /\ Rank(c, S, w[i]) = i
  BY RankOnto DEF Listing
<1>3. DOMAIN w = 1 .. n /\ w \in [1 .. n -> S]
  BY <1>2 DEF Listing
<1>4. w \in Seq(S)
  BY <1>1, <1>3
<1>5. Len(w) = n
  BY <1>1, <1>3, <1>4
<1>6. \A j \in S : Rank(c, S, j) \in 1 .. n /\ w[Rank(c, S, j)] = j
  BY <1>2, RankRange, RankOrder
<1> QED BY <1>1, <1>2, <1>3, <1>4, <1>5, <1>6

\* A line that puts every member at its rank is the line.
LEMMA ListingIs ==
  ASSUME NEW D, NEW c, NEW S, Dated(D, c, S), NEW t, Ranked(c, S, t)
  PROVE  Listing(c, S) = t
<1>1. t \in Seq(S) /\ Len(t) = Cardinality(S) /\ \A i \in 1 .. Len(t) : t[i] \in S
  BY DEF Ranked
<1>2. \A i \in 1 .. Len(t) : Listing(c, S)[i] = t[i]
  BY <1>1, ListingType DEF Ranked
<1> QED BY <1>1, <1>2, ListingType, SeqEqual

\* Whoever comes last is appended.
LEMMA ListingAppend ==
  ASSUME NEW D, NEW c, NEW S, Dated(D, c, S), NEW E, NEW d, NEW x,
         Dated(E, d, S \cup {x}), JoinsLast(c, S, d, x)
  PROVE  Listing(d, S \cup {x}) = Append(Listing(c, S), x)
<1> DEFINE T == S \cup {x}
<1> DEFINE w == Listing(c, S)
<1> DEFINE n == Cardinality(S)
<1>0. IsFiniteSet(S) /\ n \in Nat /\ Cardinality(T) = n + 1 /\ Dated(E, d, T)
  BY FS_CardinalityType, FS_AddElement DEF Dated, JoinsLast
<1>1. /\ \A k \in S : d[k] \in Nat /\ c[k] \in Nat /\ d[k] = c[k] /\ d[k] < d[x]
      /\ d[x] \in Nat
  BY DEF Dated, JoinsLast
<1>2. ASSUME NEW k \in S
      PROVE  Rank(d, T, k) = Rank(c, S, k)
  <2>1. ~ (d[x] <= d[k]) /\ d[k] = c[k]
    BY <1>1
  <2>2. UpTo(d, T, k) = UpTo(c, S, k)
    BY <1>1, <2>1 DEF UpTo
  <2> QED BY <2>2 DEF Rank
<1>3. Rank(d, T, x) = n + 1
  <2>1. UpTo(d, T, x) = T
    BY <1>1 DEF UpTo
  <2> QED BY <1>0, <2>1 DEF Rank
<1>4. w \in Seq(S) /\ Len(w) = n /\ \A i \in 1 .. n : w[i] \in S /\ Rank(c, S, w[i]) = i
  BY ListingType
<1>5. w \in Seq(T) /\ x \in T
  BY <1>4, SeqMonotonic
<1> HIDE DEF w, n, T
<1>6. /\ Append(w, x) \in Seq(T) /\ Len(Append(w, x)) = n + 1
      /\ \A i \in 1 .. n : Append(w, x)[i] = w[i]
      /\ Append(w, x)[n + 1] = x
  BY <1>4, <1>5, AppendProperties
<1>7. ASSUME NEW i \in 1 .. n + 1
      PROVE  Rank(d, T, Append(w, x)[i]) = i
  <2>1. CASE i \in 1 .. n
    BY <1>2, <1>4, <1>6, <2>1
  <2>2. CASE i = n + 1
    BY <1>3, <1>6, <2>2
  <2>3. i \in 1 .. n \/ i = n + 1
    BY <1>0
  <2> QED BY <2>1, <2>2, <2>3
<1>8. Ranked(d, T, Append(w, x))
  BY <1>0, <1>6, <1>7 DEF Ranked
<1>9. Listing(d, T) = Append(w, x)
  BY <1>0, <1>8, ListingIs
<1> QED BY <1>9 DEF w, T

\* What the line without its p-th place holds.
LEMMA WithoutPlaces ==
  ASSUME NEW S, NEW w \in Seq(S), NEW p \in 1 .. Len(w)
  PROVE  /\ Without(w, p) \in Seq(S) /\ Len(Without(w, p)) = Len(w) - 1
         /\ \A i \in 1 .. Len(w) - 1 : Without(w, p)[i] = w[IF i < p THEN i ELSE i + 1]
<1> DEFINE n == Len(w)
<1> DEFINE t == SubSeq(w, 1, p - 1) \o SubSeq(w, p + 1, Len(w))
<1> DEFINE Old(i) == IF i < p THEN i ELSE i + 1
<1>0. n \in Nat /\ \A i \in 1 .. n : w[i] \in S
  OBVIOUS
<1>1. n = Len(w) /\ p \in 1 .. n
  OBVIOUS
<1> HIDE DEF n
<1>2. /\ SubSeq(w, 1, p - 1) \in Seq(S) /\ Len(SubSeq(w, 1, p - 1)) = p - 1
      /\ \A i \in 1 .. p - 1 : SubSeq(w, 1, p - 1)[i] = w[i]
  <2>1. \A i \in 1 .. p - 1 : w[i] \in S
    BY <1>0, <1>1
  <2> QED BY <1>0, <1>1, <2>1, SubSeqProperties
<1>3. /\ SubSeq(w, p + 1, n) \in Seq(S) /\ Len(SubSeq(w, p + 1, n)) = n - p
      /\ \A i \in 1 .. n - p : SubSeq(w, p + 1, n)[i] = w[p + i]
  <2>1. \A i \in p + 1 .. n : w[i] \in S
    BY <1>0, <1>1
  <2> QED BY <1>0, <1>1, <2>1, SubSeqProperties
<1>4. /\ t \in Seq(S) /\ Len(t) = n - 1
      /\ \A i \in 1 .. n - 1 : t[i] = IF i <= p - 1 THEN SubSeq(w, 1, p - 1)[i]
                                                    ELSE SubSeq(w, p + 1, n)[i - (p - 1)]
  <2>1. t = SubSeq(w, 1, p - 1) \o SubSeq(w, p + 1, n) /\ (p - 1) + (n - p) = n - 1
    BY <1>0, <1>1
  <2> DEFINE before == SubSeq(w, 1, p - 1)
  <2> DEFINE after == SubSeq(w, p + 1, n)
  <2> HIDE DEF before, after, t
  <2>2. /\ before \o after \in Seq(S) /\ Len(before \o after) = Len(before) + Len(after)
        /\ \A i \in 1 .. Len(before) + Len(after) :
              (before \o after)[i] = IF i <= Len(before) THEN before[i] ELSE after[i - Len(before)]
    BY <1>2, <1>3, ConcatProperties DEF before, after
  <2>3. Len(before) = p - 1 /\ Len(after) = n - p /\ t = before \o after
    BY <1>2, <1>3, <2>1 DEF before, after
  <2> QED BY <2>1, <2>2, <2>3 DEF before, after
<1> HIDE DEF t
<1>5. ASSUME NEW i \in 1 .. n - 1
      PROVE  t[i] = w[Old(i)]
  <2>1. CASE i < p
    <3>1. i \in 1 .. p - 1 /\ i <= p - 1
      BY <1>0, <1>1, <2>1
    <3> QED BY <1>2, <1>4, <2>1, <3>1
  <2>2. CASE ~ (i < p)
    <3>1. i - (p - 1) \in 1 .. n - p /\ p + (i - (p - 1)) = i + 1 /\ ~ (i <= p - 1)
      BY <1>0, <1>1, <2>2
    <3> QED BY <1>3, <1>4, <2>2, <3>1
  <2> QED BY <2>1, <2>2
<1> QED BY <1>1, <1>4, <1>5 DEF t, Without

\* Whoever leaves leaves a place into which the others move up.
LEMMA ListingRemove ==
  ASSUME NEW D, NEW c, NEW S, Dated(D, c, S), NEW x \in S,
         NEW w, w = Listing(c, S), NEW p, p = Rank(c, S, x)
  PROVE  /\ Listing(c, S \ {x}) = Without(w, p)
         /\ p = 1 => Listing(c, S \ {x}) = Tail(w)
<1> DEFINE T == S \ {x}
<1> DEFINE n == Cardinality(S)
<1>0. IsFiniteSet(S) /\ n \in Nat /\ Cardinality(T) = n - 1 /\ IsFiniteSet(T)
  BY FS_CardinalityType, FS_RemoveElement DEF Dated
<1>1. Dated(D, c, T)
  BY <1>0 DEF Dated
<1>2. /\ w \in Seq(S) /\ Len(w) = n /\ p \in 1 .. n /\ w[p] = x
      /\ \A i \in 1 .. n : w[i] \in S /\ Rank(c, S, w[i]) = i
  BY ListingType
<1>3. ASSUME NEW k \in T
      PROVE  Rank(c, T, k) = IF Rank(c, S, k) < p THEN Rank(c, S, k) ELSE Rank(c, S, k) - 1
  <2>1. c[k] \in Nat /\ c[x] \in Nat /\ c[k] # c[x] /\ k \in S
    BY DEF Dated
  <2>2. IsFiniteSet(UpTo(c, S, k)) /\ Rank(c, S, k) \in Nat /\ p \in Nat
    BY <2>1, RankRange
  <2>3. CASE c[k] < c[x]
    <3>1. UpTo(c, T, k) = UpTo(c, S, k)
      BY <2>1, <2>3 DEF UpTo
    <3>2. Rank(c, S, k) < p
      BY <2>1, <2>3, RankOrder
    <3> QED BY <3>1, <3>2 DEF Rank
  <2>4. CASE c[x] < c[k]
    <3>1. UpTo(c, T, k) = UpTo(c, S, k) \ {x} /\ x \in UpTo(c, S, k)
      BY <2>1, <2>4 DEF UpTo
    <3>2. Rank(c, T, k) = Rank(c, S, k) - 1
      BY <2>2, <3>1, FS_RemoveElement DEF Rank
    <3>3. p < Rank(c, S, k)
      BY <2>1, <2>4, RankOrder
    <3> QED BY <2>2, <3>2, <3>3
  <2> QED BY <2>1, <2>3, <2>4
<1> HIDE DEF n
<1> DEFINE t == SubSeq(w, 1, p - 1) \o SubSeq(w, p + 1, Len(w))
<1> DEFINE Old(i) == IF i < p THEN i ELSE i + 1
<1>4. t \in Seq(S) /\ Len(t) = n - 1 /\ \A i \in 1 .. n - 1 : t[i] = w[Old(i)]
  <2>1. t = Without(w, p)
    BY DEF Without
  <2> HIDE DEF t
  <2>2. w \in Seq(S) /\ p \in 1 .. Len(w) /\ Len(w) = n
    BY <1>2
  <2>3. /\ Without(w, p) \in Seq(S) /\ Len(Without(w, p)) = n - 1
        /\ \A i \in 1 .. n - 1 : Without(w, p)[i] = w[IF i < p THEN i ELSE i + 1]
    BY <2>2, WithoutPlaces
  <2> QED BY <2>1, <2>3
<1> HIDE DEF t
<1>5. \A i \in 1 .. n - 1 : Old(i) \in 1 .. n /\ Old(i) # p
  BY <1>0, <1>2
<1>6. ASSUME NEW i \in 1 .. n - 1
      PROVE  t[i] \in T /\ Rank(c, T, t[i]) = i
  <2>1. Old(i) \in 1 .. n /\ Old(i) # p /\ t[i] = w[Old(i)]
    BY <1>4, <1>5
  <2>2. t[i] \in S /\ Rank(c, S, t[i]) = Old(i)
    BY <1>2, <2>1
  <2>3. t[i] \in T
    BY <2>1, <2>2
  <2>4. Rank(c, T, t[i]) = IF Old(i) < p THEN Old(i) ELSE Old(i) - 1
    BY <1>3, <2>2, <2>3
  <2> QED BY <1>0, <1>2, <2>3, <2>4
<1>7. t \in Seq(T)
  <2>1. t \in [1 .. n - 1 -> T] /\ n - 1 \in Nat
    <3>1. DOMAIN t = 1 .. n - 1 /\ t = [i \in DOMAIN t |-> t[i]]
      BY <1>4
    <3>2. n - 1 \in Nat
      BY <1>0, <1>2
    <3> QED BY <1>6, <3>1, <3>2
  <2> QED BY <2>1
<1>8. Listing(c, T) = t
  <2>1. Ranked(c, T, t)
    BY <1>0, <1>4, <1>6, <1>7 DEF Ranked
  <2> HIDE DEF T
  <2> QED BY <1>1, <2>1, ListingIs
<1>9. ASSUME p = 1
      PROVE  t = Tail(w)
  <2>1. w # <<>>
    BY <1>0, <1>2
  <2>2. Tail(w) \in Seq(S) /\ Len(Tail(w)) = n - 1 /\ \A i \in 1 .. n - 1 : Tail(w)[i] = w[i + 1]
    BY <1>2, <2>1, HeadTailProperties
  <2>3. \A i \in 1 .. n - 1 : t[i] = Tail(w)[i]
    BY <1>0, <1>4, <1>9, <2>2
  <2> QED BY <1>0, <1>2, <1>4, <2>2, <2>3, SeqEqual
<1> QED BY <1>8, <1>9 DEF t, T, Without

-----------------------------------------------------------------------------
(***************************************************************************)
(* What the mapping says of a state of Coordinator.                        *)
(***************************************************************************)
Created == [k \in Submitted |-> CreatedAt(k)]

\* The public positions are ranks by creation, so the line lists every queued
\* job once, in the order of creation.
LineLaw ==
    /\ Dated(Submitted, Created, QueuedJobs)
    /\ \A n \in DOMAIN jobs : jobs[n] \in Submitted /\ Created[jobs[n]] = n
    /\ \A k \in Submitted : \E n \in DOMAIN jobs : jobs[n] = k
    /\ \A j \in QueuedJobs : Position(j) = Rank(Created, QueuedJobs, j)
    /\ Waiting = Listing(Created, QueuedJobs)

\* At most one job is running, and it is the one in service.
ServiceLaw ==
    /\ Running = {} => InService = NoJob
    /\ \A j \in Running : Running = {j} /\ InService = j /\ j # NoJob

LEMMA LineLawHolds == TypeOK /\ OrderFollowsJobs => LineLaw
<1> SUFFICES ASSUME TypeOK, OrderFollowsJobs
             PROVE  LineLaw
  OBVIOUS
<1>1. jobs \in Seq(Jobs) /\ Len(jobs) \in Nat /\ DOMAIN jobs = 1 .. Len(jobs)
  BY DEF TypeOK
<1>2. ASSUME NEW n \in DOMAIN jobs
      PROVE  jobs[n] \in Submitted /\ CreatedAt(jobs[n]) = n
  <2>1. jobs[n] \in Jobs
    BY <1>1
  <2> QED BY <2>1 DEF OrderFollowsJobs, CreatedAt, Submitted
<1>3. \A k \in Submitted : \E n \in DOMAIN jobs : jobs[n] = k
  BY DEF OrderFollowsJobs, Submitted
<1>4. \A n \in DOMAIN jobs : Created[jobs[n]] = n
  BY <1>2 DEF Created
<1>5. Created \in [Submitted -> Nat] /\ \A a, b \in Submitted : Created[a] = Created[b] => a = b
  <2>1. \A k \in Submitted : CreatedAt(k) \in DOMAIN jobs /\ jobs[CreatedAt(k)] = k
    BY <1>2, <1>3
  <2> QED BY <1>1, <2>1 DEF Created
<1>6. QueuedJobs \subseteq Submitted /\ IsFiniteSet(QueuedJobs)
  <2>1. QueuedJobs \in SUBSET Jobs /\ IsFiniteSet(Jobs)
    BY JobsAssumption DEF QueuedJobs
  <2>2. IsFiniteSet(QueuedJobs)
    BY <2>1, FS_Subset
  <2> QED BY <2>2 DEF QueuedJobs, Submitted
<1>7. Dated(Submitted, Created, QueuedJobs)
  BY <1>5, <1>6 DEF Dated
<1>8. ASSUME NEW j \in QueuedJobs
      PROVE  Position(j) = Rank(Created, QueuedJobs, j)
  <2>1. {k \in Submitted : status[k] = "queued" /\ CreatedAt(k) <= CreatedAt(j)}
           = UpTo(Created, QueuedJobs, j)
    BY <1>6 DEF UpTo, QueuedJobs, Submitted, Created
  <2> QED BY <2>1 DEF Position, Rank
<1>9. Waiting = Listing(Created, QueuedJobs)
  <2>1. ASSUME NEW i \in 1 .. Cardinality(QueuedJobs)
        PROVE  (CHOOSE j \in QueuedJobs : Position(j) = i)
                  = (CHOOSE j \in QueuedJobs : Rank(Created, QueuedJobs, j) = i)
    <3>1. PICK j \in QueuedJobs : Rank(Created, QueuedJobs, j) = i
      BY <1>7, RankOnto
    <3>2. \A k \in QueuedJobs : Rank(Created, QueuedJobs, k) = i => k = j
      BY <1>7, <3>1, RankOrder
    <3> QED BY <1>8, <3>1, <3>2
  <2> QED BY <2>1 DEF Waiting, Listing
<1> QED BY <1>2, <1>3, <1>4, <1>7, <1>8, <1>9 DEF LineLaw

LEMMA ServiceLawHolds == TypeOK /\ Service => ServiceLaw
<1> SUFFICES ASSUME TypeOK, Service
             PROVE  ServiceLaw
  OBVIOUS
<1>1. ASSUME NEW i \in Running, NEW j \in Running
      PROVE  i = j
  BY <1>1 DEF Running, Service, TaskServesJob, DrainAwaitsTask
<1>2. Running \subseteq Jobs /\ NoJob \notin Jobs
  BY JobsAssumption DEF Running
<1>3. ASSUME NEW j \in Running
      PROVE  Running = {j} /\ InService = j /\ j # NoJob
  <2>1. Running = {j} /\ j # NoJob
    BY <1>1, <1>2
  <2> QED BY <2>1 DEF InService
<1> QED BY <1>3 DEF ServiceLaw, InService

Laws == TypeOK /\ Service /\ Telling /\ Ordering /\ LineLaw /\ ServiceLaw

\* The load of the queue is that of the store.
LEMMA LoadIsLoaded ==
  ASSUME Laws
  PROVE  Queue!Load = Cardinality(Loaded)
<1>1. Len(Waiting) = Cardinality(QueuedJobs) /\ IsFiniteSet(QueuedJobs) /\ Cardinality(QueuedJobs) \in Nat
  BY ListingType DEF Laws, LineLaw, Dated
<1>2. CASE Running = {}
  <2>1. InService = NoJob
    BY <1>2 DEF Laws, ServiceLaw
  <2>2. Loaded = QueuedJobs
    BY <1>2 DEF Loaded, QueuedJobs, Running
  <2> QED BY <1>1, <2>1, <2>2 DEF Queue!Load
<1>3. ASSUME NEW r \in Running
      PROVE  Queue!Load = Cardinality(Loaded)
  <2>1. InService = r /\ r # NoJob /\ Running = {r}
    BY <1>3 DEF Laws, ServiceLaw
  <2>2. Loaded = QueuedJobs \cup {r} /\ r \notin QueuedJobs
    BY <2>1 DEF Loaded, QueuedJobs, Running
  <2>3. Cardinality(Loaded) = Cardinality(QueuedJobs) + 1
    BY <1>1, <2>2, FS_AddElement
  <2> QED BY <1>1, <2>1, <2>3 DEF Queue!Load
<1> QED BY <1>2, <1>3

-----------------------------------------------------------------------------
(***************************************************************************)
(* Every step of Coordinator is a step of the queue, or none.              *)
(***************************************************************************)
\* As long as no job is created, the dates stay, and so does the line of those
\* that stay in it.
LEMMA SameDates ==
  ASSUME UNCHANGED jobs, Submitted' = Submitted
  PROVE  Created' = Created
  BY DEF Created, CreatedAt

LEMMA SameLine ==
  ASSUME Laws, LineLaw', UNCHANGED jobs, Submitted' = Submitted, QueuedJobs' = QueuedJobs
  PROVE  Waiting' = Waiting
  BY SameDates DEF Laws, LineLaw

LEMMA StutterMaps ==
  ASSUME UNCHANGED <<jobs, status, events>>
  PROVE  UNCHANGED Queue!queueVars
<1>1. Submitted' = Submitted /\ QueuedJobs' = QueuedJobs /\ Running' = Running /\ Outcome' = Outcome
  BY DEF Submitted, QueuedJobs, Running, Outcome
<1>2. \A j : Position(j)' = Position(j)
  BY <1>1 DEF Position, CreatedAt
<1>3. Waiting' = Waiting
  BY <1>1, <1>2 DEF Waiting
<1>4. InService' = InService
  BY <1>1 DEF InService
<1> QED BY <1>1, <1>3, <1>4 DEF Queue!queueVars

\* A new job joins the end of the line.
LEMMA CreateMaps ==
  ASSUME Laws, LineLaw', NEW j \in Jobs, Creates(j),
         events' = [events EXCEPT ![j] = Append(@, "queued")]
  PROVE  Queue!Enqueue(j)
<1>1. /\ status[j] = "absent" /\ status' = [status EXCEPT ![j] = "queued"]
      /\ jobs' = Append(jobs, j) /\ Cardinality(Loaded) < 1 + QueueCapacity
      /\ status \in [Jobs -> Statuses] /\ jobs \in Seq(Jobs)
  BY DEF Creates, Create, Admits, Laws, TypeOK
<1>2. \A k \in Jobs : status'[k] = IF k = j THEN "queued" ELSE status[k]
  BY <1>1
<1>3. QueuedJobs' = QueuedJobs \cup {j} /\ Running' = Running /\ j \notin QueuedJobs
  BY <1>1, <1>2 DEF QueuedJobs, Running
<1>4. /\ Len(jobs) \in Nat /\ DOMAIN jobs = 1 .. Len(jobs)
      /\ DOMAIN jobs' = 1 .. Len(jobs) + 1 /\ jobs'[Len(jobs) + 1] = j
      /\ \A n \in DOMAIN jobs : jobs'[n] = jobs[n]
  BY <1>1
<1>5. ASSUME NEW k \in QueuedJobs
      PROVE  Created'[k] = Created[k] /\ Created'[k] < Created'[j]
  <2>1. k \in Submitted
    BY <1>5 DEF QueuedJobs, Submitted
  <2>2. PICK n \in DOMAIN jobs : jobs[n] = k
    BY <2>1 DEF Laws, LineLaw
  <2>3. Created[k] = n
    BY <2>2 DEF Laws, LineLaw
  <2>4. n \in DOMAIN jobs' /\ jobs'[n] = k /\ Len(jobs) + 1 \in DOMAIN jobs'
    BY <1>4, <2>2
  <2>5. Created'[k] = n /\ Created'[j] = Len(jobs) + 1
    BY <1>4, <2>4 DEF LineLaw
  <2> QED BY <1>4, <2>2, <2>3, <2>5
<1>6. Dated(Submitted, Created, QueuedJobs) /\ Dated(Submitted', Created', QueuedJobs \cup {j})
  BY <1>3 DEF Laws, LineLaw
<1>7. Listing(Created', QueuedJobs \cup {j}) = Append(Listing(Created, QueuedJobs), j)
  <2> DEFINE c == Created
  <2> DEFINE d == Created'
  <2> DEFINE S == QueuedJobs
  <2>1. JoinsLast(c, S, d, j)
    BY <1>3, <1>5 DEF JoinsLast
  <2>2. Dated(Submitted, c, S) /\ Dated(Submitted', d, S \cup {j})
    BY <1>6
  <2> HIDE DEF c, d, S
  <2>3. Listing(d, S \cup {j}) = Append(Listing(c, S), j)
    BY <2>1, <2>2, ListingAppend
  <2> QED BY <2>3 DEF c, d, S
<1>8. Waiting' = Append(Waiting, j)
  BY <1>3, <1>7 DEF Laws, LineLaw
<1>9. Outcome[j] = "absent" /\ Outcome' = [Outcome EXCEPT ![j] = "pending"]
  BY <1>1, <1>2 DEF Outcome
<1>10. InService' = InService
  BY <1>3 DEF InService
<1>11. Queue!Load < 1 + QueueCapacity
  BY <1>1, LoadIsLoaded
<1> QED BY <1>8, <1>9, <1>10, <1>11 DEF Queue!Enqueue, Queue!Report

\* The drain takes the first of the line into service.
LEMMA ClaimMaps ==
  ASSUME Laws, Laws', DrainClaims
  PROVE  Queue!Start
<1>1. \A j \in Jobs : status[j] # "running"
  BY NothingRunsAtClaim DEF DrainClaims, Laws
<1>2. PICK i \in DOMAIN order : Claimable(i) /\ Emit(order[i], "running")
  BY DEF DrainClaims
<1> DEFINE h == order[i]
<1>3. h \in Jobs /\ status[h] = "queued" /\ Position(h) = 1 /\ UNCHANGED jobs
  <2>1. TypeOK /\ QueuedInOrder /\ OrderFollowsJobs
    BY DEF Laws, Ordering
  <2>2. Position(order[i]) = 1
    BY <1>2, <2>1, ClaimTakesFirst
  <2>3. order[i] \in Jobs
    BY <2>1 DEF TypeOK
  <2> QED BY <1>2, <2>2, <2>3 DEF Claimable, DrainClaims
<1> HIDE DEF h
<1>4. \A k \in Jobs : status'[k] = IF k = h THEN "running" ELSE status[k]
  BY <1>2, <1>3 DEF Emit, Laws, TypeOK, h
<1>5. /\ Running = {} /\ h \in Running' /\ h \in QueuedJobs
      /\ QueuedJobs' = QueuedJobs \ {h} /\ Submitted' = Submitted
  BY <1>1, <1>3, <1>4 DEF Running, QueuedJobs, Submitted
<1>6. InService = NoJob /\ InService' = h
  BY <1>5 DEF Laws, ServiceLaw
<1>7. Rank(Created, QueuedJobs, h) = 1
  BY <1>3, <1>5 DEF Laws, LineLaw
<1>8. /\ Waiting \in Seq(QueuedJobs) /\ Len(Waiting) = Cardinality(QueuedJobs)
      /\ 1 \in 1 .. Cardinality(QueuedJobs) /\ Waiting[1] = h
  BY <1>5, <1>7, ListingType DEF Laws, LineLaw
<1>9. Waiting # <<>> /\ Head(Waiting) = h
  BY <1>8
<1>10. Waiting' = Tail(Waiting)
  <2>1. Waiting = Listing(Created, QueuedJobs) /\ Dated(Submitted, Created, QueuedJobs)
    BY DEF Laws, LineLaw
  <2>2. Waiting' = Listing(Created, QueuedJobs \ {h})
    BY <1>3, <1>5, SameDates DEF Laws, LineLaw
  <2>3. Listing(Created, QueuedJobs \ {h}) = Tail(Waiting)
    BY <1>5, <1>7, <2>1, ListingRemove
  <2> QED BY <2>2, <2>3
<1>11. Outcome' = Outcome
  BY <1>3, <1>4 DEF Outcome
<1>12. events' = [events EXCEPT ![h] = Append(@, "running")]
  BY <1>2 DEF Emit, h
<1> QED BY <1>6, <1>9, <1>10, <1>11, <1>12 DEF Queue!Start, Queue!Report

\* A waiting job that is cancelled leaves the line.
LEMMA WithdrawMaps ==
  ASSUME Laws, LineLaw', NEW j \in Jobs, status[j] = "queued", Emit(j, "cancelled"), UNCHANGED jobs
  PROVE  Queue!Withdraw(j)
<1>1. \A k \in Jobs : status'[k] = IF k = j THEN "cancelled" ELSE status[k]
  BY DEF Emit, Laws, TypeOK
<1>2. /\ j \in QueuedJobs /\ QueuedJobs' = QueuedJobs \ {j}
      /\ Submitted' = Submitted /\ Running' = Running
  BY <1>1 DEF QueuedJobs, Submitted, Running
<1> DEFINE p == Rank(Created, QueuedJobs, j)
<1>3. p \in DOMAIN Waiting /\ Waiting[p] = j
  BY <1>2, ListingType DEF Laws, LineLaw
<1>4. Waiting' = SubSeq(Waiting, 1, p - 1) \o SubSeq(Waiting, p + 1, Len(Waiting))
  <2>1. Waiting = Listing(Created, QueuedJobs) /\ Dated(Submitted, Created, QueuedJobs)
    BY DEF Laws, LineLaw
  <2>2. Waiting' = Listing(Created, QueuedJobs \ {j})
    BY <1>2, SameDates DEF LineLaw
  <2>3. Listing(Created, QueuedJobs \ {j}) = Without(Waiting, p)
    BY <1>2, <2>1, ListingRemove
  <2> QED BY <2>2, <2>3 DEF Without
<1> HIDE DEF p
<1>5. Outcome' = [Outcome EXCEPT ![j] = "cancelled"]
  BY <1>1 DEF Outcome
<1>6. InService' = InService
  BY <1>2 DEF InService
<1>7. events' = [events EXCEPT ![j] = Append(@, "cancelled")]
  BY DEF Emit
<1> QED BY <1>3, <1>4, <1>5, <1>6, <1>7 DEF Queue!Withdraw, Queue!Report

\* The running job ends.
LEMMA FinishMaps ==
  ASSUME Laws, Laws', NEW j \in Jobs, NEW o \in TERMINAL_STATUSES, status[j] = "running",
         Emit(j, o), UNCHANGED jobs
  PROVE  Queue!Finish(o)
<1>1. /\ \A k \in Jobs : status'[k] = IF k = j THEN o ELSE status[k]
      /\ o \notin {"absent", "queued", "running"}
  BY DEF Emit, Laws, TypeOK, TERMINAL_STATUSES
<1>2. QueuedJobs' = QueuedJobs /\ Submitted' = Submitted /\ j \in Running
  BY <1>1 DEF QueuedJobs, Submitted, Running
<1>3. InService = j /\ j # NoJob /\ Running = {j}
  BY <1>2 DEF Laws, ServiceLaw
<1>4. Running' = {}
  BY <1>1, <1>3 DEF Running
<1>5. InService' = NoJob
  BY <1>4 DEF Laws, ServiceLaw
<1>6. Waiting' = Waiting
  BY <1>2, SameLine DEF Laws
<1>7. Outcome' = [Outcome EXCEPT ![j] = o]
  BY <1>1 DEF Outcome
<1>8. events' = [events EXCEPT ![j] = Append(@, o)]
  BY DEF Emit
<1> QED BY <1>3, <1>5, <1>6, <1>7, <1>8 DEF Queue!Finish, Queue!Report

\* The exception of a cancelled workflow.
LEMMA RelabelMaps ==
  ASSUME Laws, LineLaw', NEW j \in Jobs, status[j] = "cancelled", cancelRequested[j],
         Emit(j, "failed"), UNCHANGED jobs
  PROVE  Queue!Relabel(j)
<1>1. \A k \in Jobs : status'[k] = IF k = j THEN "failed" ELSE status[k]
  BY DEF Emit, Laws, TypeOK
<1>2. QueuedJobs' = QueuedJobs /\ Submitted' = Submitted /\ Running' = Running
  BY <1>1 DEF QueuedJobs, Submitted, Running
<1>3. Waiting' = Waiting
  BY <1>2, SameLine
<1>4. InService' = InService
  BY <1>2 DEF InService
<1>5. Outcome[j] = "cancelled" /\ Outcome' = [Outcome EXCEPT ![j] = "failed"]
  BY <1>1 DEF Outcome
<1>6. events' = [events EXCEPT ![j] = Append(@, "failed")]
  BY DEF Emit
<1>7. 2 \in DOMAIN events[j] /\ events[j][2] = "running"
  <2>1. events[j] = <<"queued", "running", "cancelled">>
    BY DEF Laws, Telling, Tale
  <2> QED BY <2>1
<1> QED BY <1>3, <1>4, <1>5, <1>6, <1>7 DEF Queue!Relabel, Queue!Report

\* What cancel() of the store does to a record.
LEMMA StoreCancelMaps ==
  ASSUME Laws, Laws', NEW j \in Jobs, StoreCancel(j), UNCHANGED jobs
  PROVE  [Queue!Next]_(Queue!queueVars)
<1>1. CASE status[j] = "queued"
  <2>1. Queue!Withdraw(j)
    BY <1>1, WithdrawMaps DEF StoreCancel, Laws
  <2> QED BY <2>1 DEF Queue!Next
<1>2. CASE status[j] = "running"
  <2>1. Queue!Finish("cancelled")
    BY <1>2, FinishMaps DEF StoreCancel, TERMINAL_STATUSES
  <2> QED BY <2>1 DEF Queue!Next, Queue!Outcomes
<1>3. CASE status[j] \notin {"queued", "running"}
  BY <1>3, StutterMaps DEF StoreCancel
<1> QED BY <1>1, <1>2, <1>3

\* How _process ends: the job in service gets its outcome; a job reported as
\* cancelled in the meantime stays so, or its exception relabels it.
LEMMA ProcessMaps ==
  ASSUME Laws, Laws', NEW j \in Jobs, ProcessStep(j)
  PROVE  [Queue!Next]_(Queue!queueVars)
<1>1. CASE ProcessStarts(j) \/ ProcessNeverStarts(j) \/ ProcessStopsWorkflow(j)
  <2>1. UNCHANGED <<jobs, status, events>>
    BY <1>1 DEF ProcessStarts, ProcessNeverStarts, ProcessStopsWorkflow, ProcessUnchanged
  <2> QED BY <2>1, StutterMaps
<1>2. CASE ProcessCancelled(j)
  <2>1. StoreCancel(j) /\ UNCHANGED jobs
    BY <1>2 DEF ProcessCancelled, ProcessUnchanged
  <2> QED BY <2>1, StoreCancelMaps
<1>3. CASE ProcessRecords(j)
  <2>1. Records(j, workflow[j]) /\ UNCHANGED jobs /\ task[j] \in InWaitFor \cup {"expiring"}
    BY <1>3 DEF ProcessRecords, ProcessUnchanged
  <2>2. \/ status[j] = "running" /\ ~ cancelRequested[j]
        \/ status[j] = "cancelled" /\ cancelRequested[j]
    BY <2>1 DEF Laws, Service, TaskServesJob, InWaitFor
  <2>3. CASE StoreCancel(j)
    BY <2>1, <2>3, StoreCancelMaps
  <2>4. ASSUME NEW o \in {"complete", "failed"}, StoreSet(j, o), status[j] = "running"
        PROVE  [Queue!Next]_(Queue!queueVars)
    <3>1. Queue!Finish(o)
      BY <2>1, <2>4, FinishMaps DEF StoreSet, TERMINAL_STATUSES
    <3> QED BY <3>1 DEF Queue!Next, Queue!Outcomes
  <2>5. ASSUME StoreSet(j, "failed"), status[j] = "cancelled", cancelRequested[j]
        PROVE  [Queue!Next]_(Queue!queueVars)
    <3>1. Queue!Relabel(j)
      BY <2>1, <2>5, RelabelMaps DEF StoreSet, Laws
    <3> QED BY <3>1 DEF Queue!Next
  <2>6. \/ StoreSet(j, "failed")
        \/ StoreCancel(j)
        \/ StoreSet(j, "complete") /\ ~ cancelRequested[j]
    BY <2>1 DEF Records
  <2> QED BY <2>2, <2>3, <2>4, <2>5, <2>6
<1> QED BY <1>1, <1>2, <1>3 DEF ProcessStep

LEMMA StepMaps ==
  ASSUME Laws, Laws', [Next]_vars
  PROVE  [Queue!Next]_(Queue!queueVars)
<1>1. ASSUME NEW j \in Jobs, NEW r \in Requests \cup {NoRequest}, Submit(j, r)
      PROVE  [Queue!Next]_(Queue!queueVars)
  <2>1. Creates(j) /\ events' = [events EXCEPT ![j] = Append(@, "queued")]
    BY <1>1 DEF Submit, Emit, Creates
  <2>2. Queue!Enqueue(j)
    BY <2>1, CreateMaps DEF Laws
  <2> QED BY <2>2 DEF Queue!Next
<1>2. ASSUME NEW j \in Jobs, Analyze(j)
      PROVE  [Queue!Next]_(Queue!queueVars)
  <2>1. Creates(j) /\ events' = [events EXCEPT ![j] = Append(@, "queued")]
    BY <1>2 DEF Analyze, Creates
  <2>2. Queue!Enqueue(j)
    BY <2>1, CreateMaps DEF Laws
  <2> QED BY <2>2 DEF Queue!Next
<1>3. ASSUME NEW j \in Jobs, Cancel(j)
      PROVE  [Queue!Next]_(Queue!queueVars)
  BY <1>3, StoreCancelMaps DEF Cancel
<1>4. CASE DrainClaims
  BY <1>4, ClaimMaps DEF Queue!Next
<1>5. CASE DrainReturns \/ DrainDies
  <2>1. UNCHANGED <<jobs, status, events>>
    BY <1>5 DEF DrainReturns, DrainDies, storeVars
  <2> QED BY <2>1, StutterMaps
<1>6. ASSUME NEW j \in Jobs, WorkflowEnds(j) \/ WorkflowUnwinds(j) \/ TimerFires(j)
      PROVE  [Queue!Next]_(Queue!queueVars)
  <2>1. UNCHANGED <<jobs, status, events>>
    BY <1>6 DEF WorkflowEnds, WorkflowUnwinds, TimerFires, storeVars
  <2> QED BY <2>1, StutterMaps
<1>7. CASE UNCHANGED coreVars
  <2>1. UNCHANGED <<jobs, status, events>>
    BY <1>7 DEF coreVars
  <2> QED BY <2>1, StutterMaps
<1>8. UNCHANGED vars => UNCHANGED coreVars
  BY DEF vars, coreVars
<1> QED BY <1>1, <1>2, <1>3, <1>4, <1>5, <1>6, <1>7, <1>8, ProcessMaps, ReadersChangeNothing
        DEF Next, ClientStep, DrainStep

LEMMA InitMaps == Init => Queue!Init
<1> SUFFICES ASSUME Init
             PROVE  Queue!Init
  OBVIOUS
<1>1. QueuedJobs = {} /\ Running = {}
  BY DEF Init, QueuedJobs, Running
<1>2. Cardinality(QueuedJobs) = 0
  BY <1>1, FS_EmptySet
<1>3. Waiting = <<>>
  BY <1>2 DEF Waiting
<1>4. InService = NoJob
  BY <1>1 DEF InService
<1>5. Outcome = [j \in Jobs |-> "absent"] /\ events = [j \in Jobs |-> <<>>]
  BY DEF Init, Outcome
<1> QED BY <1>3, <1>4, <1>5 DEF Queue!Init

\* The in-memory queue keeps what JobQueue promises: to its clients it is a
\* bounded first-in first-out line with one job in service, and the event log of
\* every job tells all that happened to it and nothing else (queue.py:50-130).
THEOREM CoordinatorImplementsJobQueue == Spec => ImplementsJobQueue
<1>1. Init => Queue!Init
  BY InitMaps
<1>2. (TypeOK /\ Service /\ Telling) /\ Ordering => Laws
  BY LineLawHolds, ServiceLawHolds DEF Laws, Ordering
<1>3. Laws /\ Laws' /\ [Next]_vars => [Queue!Next]_(Queue!queueVars)
  BY StepMaps
<1> QED BY <1>1, <1>2, <1>3, TellingInvariant, OrderInvariant, PTL
        DEF Spec, ImplementsJobQueue, Queue!Spec

-----------------------------------------------------------------------------
(***************************************************************************)
(* What the refinement says of the positions that clients are shown.       *)
(***************************************************************************)
\* The place of a member in the line is its rank, and it has no other.
LEMMA PlaceIsRank ==
  ASSUME NEW D, NEW c, NEW S, Dated(D, c, S), NEW w, w = Listing(c, S), NEW j \in S,
         NEW p, p = Rank(c, S, j)
  PROVE  /\ w \in Seq(S) /\ Len(w) \in Nat /\ p \in 1 .. Len(w) /\ w[p] = j
         /\ \A i \in 1 .. Len(w) : w[i] = j => i = p
  BY ListingType

LEMMA PlacesAdvance ==
  ASSUME Laws, Laws', [Queue!Next]_(Queue!queueVars), NEW j \in Jobs,
         status[j] = "queued", status'[j] = "queued"
  PROVE  /\ Position(j) \in Nat /\ Position(j)' \in Nat
         /\ Position(j)' = Position(j) \/ Position(j)' = Position(j) - 1
         /\ Queue!Start => Position(j)' = Position(j) - 1
<1> DEFINE p == Position(j)
<1> DEFINE q == Position(j)'
<1>1. /\ Waiting \in Seq(QueuedJobs) /\ Len(Waiting) \in Nat /\ p \in 1 .. Len(Waiting) /\ Waiting[p] = j
      /\ \A i \in 1 .. Len(Waiting) : Waiting[i] = j => i = p
  <2>1. LineLaw /\ j \in QueuedJobs
    BY DEF Laws, QueuedJobs
  <2>2. /\ Dated(Submitted, Created, QueuedJobs) /\ Waiting = Listing(Created, QueuedJobs)
        /\ p = Rank(Created, QueuedJobs, j)
    BY <2>1 DEF LineLaw
  <2> HIDE DEF p
  <2> QED BY <2>1, <2>2, PlaceIsRank
<1>2. /\ Waiting' \in Seq(QueuedJobs') /\ Len(Waiting') \in Nat /\ q \in 1 .. Len(Waiting') /\ Waiting'[q] = j
      /\ \A i \in 1 .. Len(Waiting') : Waiting'[i] = j => i = q
  <2>1. LineLaw' /\ j \in QueuedJobs'
    BY DEF Laws, QueuedJobs
  <2>2. /\ Dated(Submitted', Created', QueuedJobs') /\ Waiting' = Listing(Created', QueuedJobs')
        /\ q = Rank(Created', QueuedJobs', j)
    BY <2>1 DEF LineLaw
  <2> HIDE DEF q
  <2> QED BY <2>1, <2>2, PlaceIsRank
<1> HIDE DEF p, q
<1>3. CASE Queue!Start
  <2>1. Waiting # <<>> /\ Waiting' = Tail(Waiting)
    BY <1>3 DEF Queue!Start
  <2>2. q + 1 \in 1 .. Len(Waiting) /\ Waiting'[q] = Waiting[q + 1]
    BY <1>1, <1>2, <2>1
  <2>3. q + 1 = p
    BY <1>1, <1>2, <2>2
  <2> QED BY <1>1, <1>2, <2>3 DEF p, q
<1>4. ASSUME NEW x \in Jobs, Queue!Enqueue(x)
      PROVE  q = p
  <2>1. Waiting' = Append(Waiting, x)
    BY <1>4 DEF Queue!Enqueue
  <2>2. p \in 1 .. Len(Waiting') /\ Waiting'[p] = Waiting[p]
    BY <1>1, <2>1
  <2> QED BY <1>1, <1>2, <2>2
<1>5. ASSUME NEW x \in Jobs, Queue!Withdraw(x)
      PROVE  q = p \/ q + 1 = p
  <2>1. PICK i \in 1 .. Len(Waiting) : Waiting' = Without(Waiting, i)
    <3>1. DOMAIN Waiting = 1 .. Len(Waiting)
      BY <1>1
    <3> QED BY <1>5, <3>1 DEF Queue!Withdraw, Without
  <2>2. /\ q \in 1 .. Len(Waiting) - 1
        /\ Waiting'[q] = Waiting[IF q < i THEN q ELSE q + 1]
    BY <1>1, <1>2, <2>1, WithoutPlaces
  <2>3. q \in 1 .. Len(Waiting) /\ q + 1 \in 1 .. Len(Waiting)
    BY <1>1, <2>2
  <2> QED BY <1>1, <1>2, <2>2, <2>3
<1>6. ASSUME UNCHANGED Waiting
      PROVE  q = p
  BY <1>1, <1>2, <1>6
<1>7. ~ Queue!Start => q = p \/ q + 1 = p
  <2>1. ASSUME NEW x \in Jobs, Queue!Relabel(x)
        PROVE  UNCHANGED Waiting
    BY <2>1 DEF Queue!Relabel
  <2>2. ASSUME NEW o, Queue!Finish(o)
        PROVE  UNCHANGED Waiting
    BY <2>2 DEF Queue!Finish
  <2>3. UNCHANGED Queue!queueVars => UNCHANGED Waiting
    BY DEF Queue!queueVars
  <2> QED BY <1>4, <1>5, <1>6, <2>1, <2>2, <2>3 DEF Queue!Next
<1> QED BY <1>1, <1>2, <1>3, <1>7 DEF p, q

\* The position that a waiting client is shown never grows, whoever submits,
\* cancels or is served, and every job that starts brings it one place forward
\* (position, queue.py:111-121): so a job waits for the jobs in front of it and for
\* nobody else, which is what QueuedIsServed rests on.
PositionsAdvance ==
    [][\A j \in Jobs : status[j] = "queued" /\ status'[j] = "queued" =>
          /\ Position(j)' = Position(j) \/ Position(j)' = Position(j) - 1
          /\ (\E k \in Jobs : status[k] = "queued" /\ status'[k] = "running")
                => Position(j)' = Position(j) - 1]_vars

\* Positions only move forward, and every start moves all of them.
THEOREM PositionsAdvanceAlways == Spec => PositionsAdvance
<1>1. (TypeOK /\ Service /\ Telling) /\ Ordering => Laws
  BY LineLawHolds, ServiceLawHolds DEF Laws, Ordering
<1>2. ASSUME Laws, Laws', [Next]_vars, NEW j \in Jobs, status[j] = "queued", status'[j] = "queued"
      PROVE  /\ Position(j)' = Position(j) \/ Position(j)' = Position(j) - 1
             /\ (\E k \in Jobs : status[k] = "queued" /\ status'[k] = "running")
                   => Position(j)' = Position(j) - 1
  <2>1. [Queue!Next]_(Queue!queueVars)
    BY <1>2, StepMaps
  <2>2. ASSUME NEW k \in Jobs, status[k] = "queued", status'[k] = "running"
        PROVE  Queue!Start
    <3>1. k \in Running' /\ k \notin Running
      BY <2>2 DEF Running
    <3>2. InService' = k /\ k # NoJob /\ InService # k
      BY <1>2, <3>1 DEF Laws, ServiceLaw, InService, Running
    <3>3. ASSUME NEW x \in Jobs, Queue!Enqueue(x) \/ Queue!Withdraw(x) \/ Queue!Relabel(x)
          PROVE  FALSE
      BY <3>2, <3>3 DEF Queue!Enqueue, Queue!Withdraw, Queue!Relabel
    <3>4. ASSUME NEW o, Queue!Finish(o)
          PROVE  FALSE
      BY <3>2, <3>4 DEF Queue!Finish
    <3> QED BY <2>1, <3>2, <3>3, <3>4 DEF Queue!Next, Queue!queueVars
  <2> QED BY <1>2, <2>1, <2>2, PlacesAdvance
<1>3. Laws /\ Laws' /\ [Next]_vars =>
        [\A j \in Jobs : status[j] = "queued" /\ status'[j] = "queued" =>
            /\ Position(j)' = Position(j) \/ Position(j)' = Position(j) - 1
            /\ (\E k \in Jobs : status[k] = "queued" /\ status'[k] = "running")
                  => Position(j)' = Position(j) - 1]_vars
  BY <1>2
<1> QED BY <1>1, <1>3, TellingInvariant, OrderInvariant, PTL DEF Spec, PositionsAdvance
=============================================================================
