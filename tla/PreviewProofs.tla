---------------------------- MODULE PreviewProofs ----------------------------
(***************************************************************************)
(* What holds of the trip preview service for any requests, scenes, rules, *)
(* limits and times to live: the rate limiter lets nobody in too often,    *)
(* permits are neither lost nor made, what a request is shown answers what *)
(* it asked, whoever had it looked up, a route is only left out for a      *)
(* near-duplicate, a mode without routes says why, public routes are drawn *)
(* along those of Kakao if there is one way to match them, and the travel  *)
(* rules decide the same on a lower bound of a distance as on the distance.*)
(***************************************************************************)
EXTENDS TripPreview, FiniteSetTheorems, SequenceTheorems, TLAPS

-----------------------------------------------------------------------------
(***************************************************************************)
(* The rate limiter.  The requests of a client that were let in in a       *)
(* window are counted by the bucket of that window while it lasts.         *)
(***************************************************************************)
Admitted(client, window) ==
    {q \in Request : visit[q].allowed /\ Ask(q).client = client
                                      /\ WindowOf(visit[q].at) = window}

BucketsAreKeyed ==
    \A b, c \in counts : b.client = c.client /\ b.window = c.window => b = c

BucketsAreCurrent == \A b \in counts : b.window \in Int /\ b.window <= WindowOf(clock)

Answers == {"new", "refused", "unknown", "working", "answered", "failed"}

VisitsAreTyped ==
    /\ request \in [Request -> Answers]
    /\ clock \in Nat
    /\ visit \in [Request -> [at : Nat, allowed : BOOLEAN]]
    /\ \A r \in Request : visit[r].at <= clock
    /\ \A r \in Request : visit[r].allowed => request[r] # "new"

AdmissionsAreCounted ==
    \A r \in Request, w \in Int :
        LET admitted == Admitted(Ask(r).client, w)
        IN  /\ IsFiniteSet(admitted)
            /\ Cardinality(admitted) <= Limit
            /\ w = WindowOf(clock) =>
                  Cardinality(admitted) = Seen(counts, Ask(r).client, clock)

LimiterInv ==
    /\ VisitsAreTyped /\ BucketsAreKeyed /\ BucketsAreCurrent /\ AdmissionsAreCounted

LEMMA WindowsAreIntegers ==
    ASSUME NEW t \in Nat
    PROVE  WindowOf(t) \in Int
BY LimiterAssumption DEF WindowOf

LEMMA WindowsFollowTime ==
    ASSUME NEW s \in Nat, NEW t \in Nat, s <= t
    PROVE  WindowOf(s) <= WindowOf(t)
BY LimiterAssumption DEF WindowOf

LEMMA SeenInTheBucket ==
    ASSUME NEW buckets, NEW client, NEW now, NEW b,
           BucketOf(buckets, client, now) = {b}
    PROVE  Seen(buckets, client, now) = b.seen
BY DEF Seen

LEMMA LimiterStarts ==
    ASSUME Init
    PROVE  LimiterInv
<1>1. VisitsAreTyped
  BY DEF Init, VisitsAreTyped, Answers
<1>2. BucketsAreKeyed /\ BucketsAreCurrent
  BY DEF Init, BucketsAreKeyed, BucketsAreCurrent
<1>3. ASSUME NEW r \in Request, NEW w \in Int
      PROVE  LET admitted == Admitted(Ask(r).client, w)
             IN  /\ IsFiniteSet(admitted)
                 /\ Cardinality(admitted) <= Limit
                 /\ w = WindowOf(clock) =>
                       Cardinality(admitted) = Seen(counts, Ask(r).client, clock)
  <2>1. Admitted(Ask(r).client, w) = {}
    BY DEF Admitted, Init
  <2>2. BucketOf(counts, Ask(r).client, clock) = {}
    BY DEF Init, BucketOf
  <2>3. Seen(counts, Ask(r).client, clock) = 0
    BY <2>2 DEF Seen
  <2> QED
    BY <2>1, <2>3, FS_EmptySet, LimiterAssumption
<1> QED BY <1>1, <1>2, <1>3 DEF LimiterInv, AdmissionsAreCounted

LEMMA LimiterTicks ==
    ASSUME LimiterInv, Tick
    PROVE  LimiterInv'
<1>1. /\ clock \in Nat /\ clock' = clock + 1
      /\ scene' = scene /\ visit' = visit /\ counts' = counts /\ request' = request
  BY DEF Tick, LimiterInv, VisitsAreTyped
<1>2. VisitsAreTyped'
  BY <1>1 DEF LimiterInv, VisitsAreTyped
<1>3. WindowOf(clock) \in Int /\ WindowOf(clock') \in Int /\ WindowOf(clock) <= WindowOf(clock')
  BY <1>1, WindowsAreIntegers, WindowsFollowTime
<1>4. BucketsAreKeyed'
  BY <1>1 DEF LimiterInv, BucketsAreKeyed
<1>5. BucketsAreCurrent'
  BY <1>1, <1>3 DEF LimiterInv, BucketsAreCurrent
<1>6. ASSUME NEW r \in Request, NEW w \in Int
      PROVE  /\ IsFiniteSet(Admitted(Ask(r).client, w)')
             /\ Cardinality(Admitted(Ask(r).client, w)') <= Limit
             /\ w = WindowOf(clock') =>
                   Cardinality(Admitted(Ask(r).client, w)') = Seen(counts', Ask(r).client, clock')
  <2>1. Admitted(Ask(r).client, w)' = Admitted(Ask(r).client, w)
    BY <1>1 DEF Admitted, Ask
  <2>2. /\ IsFiniteSet(Admitted(Ask(r).client, w))
        /\ Cardinality(Admitted(Ask(r).client, w)) <= Limit
        /\ w = WindowOf(clock) =>
              Cardinality(Admitted(Ask(r).client, w)) = Seen(counts, Ask(r).client, clock)
    BY DEF LimiterInv, AdmissionsAreCounted
  <2>3. CASE WindowOf(clock') = WindowOf(clock)
    <3>0. BucketOf(counts', Ask(r).client, clock') = BucketOf(counts, Ask(r).client, clock)
      BY <1>1, <2>3 DEF BucketOf
    <3>1. Seen(counts', Ask(r).client, clock') = Seen(counts, Ask(r).client, clock)
      BY <3>0 DEF Seen
    <3> QED BY <2>1, <2>2, <2>3, <3>1
  <2>4. CASE w = WindowOf(clock') /\ WindowOf(clock') # WindowOf(clock)
    <3>1. WindowOf(clock) < w
      BY <1>3, <2>4
    <3>2. ASSUME NEW q \in Admitted(Ask(r).client, w)
          PROVE  FALSE
      <4>1. /\ q \in Request /\ WindowOf(visit[q].at) = w
        BY DEF Admitted
      <4>2. visit[q].at \in Nat /\ visit[q].at <= clock
        BY <4>1 DEF LimiterInv, VisitsAreTyped
      <4>3. WindowOf(visit[q].at) <= WindowOf(clock)
        BY <4>2, <1>1, WindowsFollowTime
      <4> QED BY <4>1, <4>3, <3>1, <1>3
    <3>3. Admitted(Ask(r).client, w) = {}
      BY <3>2
    <3>4. BucketOf(counts', Ask(r).client, clock') = {}
      BY <1>1, <1>3, <3>1, <2>4 DEF BucketOf, LimiterInv, BucketsAreCurrent
    <3>5. Seen(counts', Ask(r).client, clock') = 0
      BY <3>4 DEF Seen
    <3>6. Cardinality(Admitted(Ask(r).client, w)) = 0
      BY <3>3, FS_EmptySet
    <3> QED BY <2>1, <2>2, <2>4, <3>5, <3>6
  <2>5. CASE w # WindowOf(clock')
    BY <2>1, <2>2, <2>5
  <2> QED BY <2>3, <2>4, <2>5
<1>7. AdmissionsAreCounted'
  BY <1>6, <1>1 DEF AdmissionsAreCounted, Ask
<1> QED BY <1>2, <1>4, <1>5, <1>7 DEF LimiterInv

\* Discarding the buckets of earlier windows changes nothing for this one.
LEMMA LiveBuckets ==
    ASSUME NEW buckets, NEW client, NEW now \in Nat,
           \A b \in buckets : b.window \in Int
    PROVE  /\ BucketOf(DiscardStaleBuckets(buckets, now), client, now) =
                  BucketOf(buckets, client, now)
           /\ Seen(DiscardStaleBuckets(buckets, now), client, now) =
                  Seen(buckets, client, now)
<1>1. WindowOf(now) \in Int
  BY WindowsAreIntegers
<1>2. BucketOf(DiscardStaleBuckets(buckets, now), client, now) = BucketOf(buckets, client, now)
  BY <1>1 DEF BucketOf, DiscardStaleBuckets
<1> QED BY <1>2 DEF Seen

LEMMA LimiterAdmits ==
    ASSUME LimiterInv, NEW r \in Request, TripPreviewRequested(r)
    PROVE  LimiterInv'
<1> DEFINE client == Ask(r).client
           live == DiscardStaleBuckets(counts, clock)
           allowed == Allowed(counts, client, clock)
           new == [client |-> client, window |-> WindowOf(clock),
                   seen |-> Seen(live, client, clock) + 1]
<1>1. /\ request[r] = "new"
      /\ counts' = CountsAfterCheck(counts, client, clock)
      /\ visit' = [visit EXCEPT ![r] = [at |-> clock, allowed |-> allowed]]
      /\ scene' = scene /\ clock' = clock
      /\ request' \in [Request -> Answers] /\ request'[r] # "new"
      /\ \A q \in Request : q # r => request'[q] = request[q]
  <2>1. /\ request[r] = "new"
        /\ counts' = CountsAfterCheck(counts, client, clock)
        /\ visit' = [visit EXCEPT ![r] = [at |-> clock, allowed |-> allowed]]
        /\ scene' = scene /\ clock' = clock
    BY DEF TripPreviewRequested
  <2>2. PICK outcome \in {"refused", "unknown", "answered", "working"} :
           request' = [request EXCEPT ![r] = outcome]
    BY DEF TripPreviewRequested
  <2>3. /\ request' \in [Request -> Answers] /\ request'[r] # "new"
        /\ \A q \in Request : q # r => request'[q] = request[q]
    BY <2>2 DEF LimiterInv, VisitsAreTyped, Answers
  <2> QED BY <2>1, <2>3
<1>2. /\ allowed \in BOOLEAN /\ WindowOf(clock) \in Int /\ clock \in Nat
      /\ \A q \in Request : q # r => visit'[q] = visit[q]
      /\ visit'[r] = [at |-> clock, allowed |-> allowed] /\ visit[r].allowed = FALSE
  BY <1>1, WindowsAreIntegers DEF LimiterInv, VisitsAreTyped, Allowed
<1>3. VisitsAreTyped'
  <2>1. visit' \in [Request -> [at : Nat, allowed : BOOLEAN]]
    BY <1>1, <1>2 DEF LimiterInv, VisitsAreTyped
  <2>2. \A q \in Request : visit'[q].at <= clock
    BY <1>2 DEF LimiterInv, VisitsAreTyped
  <2>3. \A q \in Request : visit'[q].allowed => request'[q] # "new"
    BY <1>1, <1>2 DEF LimiterInv, VisitsAreTyped
  <2> QED BY <1>1, <1>2, <2>1, <2>2, <2>3 DEF VisitsAreTyped
<1>4. /\ \A b \in counts : b.window \in Int
      /\ live \subseteq counts
  BY DEF LimiterInv, BucketsAreCurrent, DiscardStaleBuckets
<1>5. /\ counts' = IF allowed THEN (live \ BucketOf(live, client, clock)) \cup {new} ELSE live
      /\ allowed => Seen(live, client, clock) < Limit
  BY <1>1 DEF CountsAfterCheck, Allowed
<1>6. BucketsAreKeyed'
  <2>1. ASSUME NEW b \in live, b.client = client, b.window = WindowOf(clock)
        PROVE  b \in BucketOf(live, client, clock)
    BY <2>1 DEF BucketOf
  <2>2. new.client = client /\ new.window = WindowOf(clock)
    OBVIOUS
  <2> HIDE DEF new
  <2> QED BY <1>4, <1>5, <2>1, <2>2 DEF LimiterInv, BucketsAreKeyed
<1>7. BucketsAreCurrent'
  <2>1. new.window = WindowOf(clock)
    OBVIOUS
  <2> HIDE DEF new
  <2> QED BY <1>1, <1>2, <1>4, <1>5, <2>1 DEF LimiterInv, BucketsAreCurrent
<1>8. ASSUME NEW c
      PROVE  Seen(counts', c, clock) =
                IF allowed /\ c = client THEN Seen(counts, c, clock) + 1 ELSE Seen(counts, c, clock)
  <2>1. Seen(live, c, clock) = Seen(counts, c, clock)
    BY <1>2, <1>4, LiveBuckets
  <2>2. CASE ~allowed
    BY <1>5, <2>1, <2>2
  <2>3. CASE allowed /\ c = client
    <3>1. BucketOf(counts', c, clock) = {new}
      BY <1>5, <2>3 DEF BucketOf
    <3>2. Seen(counts', c, clock) = new.seen
      BY <3>1, SeenInTheBucket
    <3> QED BY <2>1, <2>3, <3>2
  <2>4. CASE allowed /\ c # client
    <3>1. new.client # c
      BY <2>4
    <3>2. \A b \in BucketOf(live, client, clock) : b.client # c
      BY <2>4 DEF BucketOf
    <3> HIDE DEF new
    <3>3. BucketOf(counts', c, clock) = BucketOf(live, c, clock)
      BY <1>5, <2>4, <3>1, <3>2 DEF BucketOf
    <3>4. Seen(counts', c, clock) = Seen(live, c, clock)
      BY <3>3 DEF Seen
    <3> QED BY <2>1, <2>4, <3>4
  <2> QED BY <2>2, <2>3, <2>4
<1>9. ASSUME NEW p \in Request, NEW w \in Int
      PROVE  /\ IsFiniteSet(Admitted(Ask(p).client, w)')
             /\ Cardinality(Admitted(Ask(p).client, w)') <= Limit
             /\ w = WindowOf(clock) =>
                   Cardinality(Admitted(Ask(p).client, w)') = Seen(counts', Ask(p).client, clock)
  <2> DEFINE before == Admitted(Ask(p).client, w)
             after == Admitted(Ask(p).client, w)'
  <2>1. /\ IsFiniteSet(before) /\ Cardinality(before) <= Limit
        /\ w = WindowOf(clock) => Cardinality(before) = Seen(counts, Ask(p).client, clock)
    BY DEF LimiterInv, AdmissionsAreCounted
  <2>2. r \notin before
    BY <1>2 DEF Admitted
  <2>3. CASE allowed /\ Ask(p).client = client /\ w = WindowOf(clock)
    <3>1. after = before \cup {r}
      <4>1. ASSUME NEW q \in Request
            PROVE  q \in after <=> q \in before \cup {r}
        <5>1. CASE q = r
          BY <1>1, <1>2, <2>3, <5>1 DEF Admitted, Ask
        <5>2. CASE q # r
          BY <1>1, <1>2, <5>2 DEF Admitted, Ask
        <5> QED BY <5>1, <5>2
      <4>2. after \subseteq Request /\ before \subseteq Request
        BY DEF Admitted
      <4> QED BY <4>1, <4>2
    <3>2. /\ IsFiniteSet(after) /\ Cardinality(after) = Cardinality(before) + 1
      BY <2>1, <2>2, <3>1, FS_AddElement
    <3>3. Seen(live, client, clock) = Seen(counts, client, clock)
      BY <1>2, <1>4, LiveBuckets
    <3>4. Cardinality(before) < Limit
      BY <1>5, <2>1, <2>3, <3>3
    <3>5. Cardinality(before) \in Nat /\ Limit \in Nat
      BY <2>1, FS_CardinalityType, LimiterAssumption
    <3>6. Seen(counts', Ask(p).client, clock) = Seen(counts, Ask(p).client, clock) + 1
      BY <1>8, <2>3
    <3> HIDE DEF before, after
    <3>7. Cardinality(after) <= Limit /\ Cardinality(after) = Seen(counts', Ask(p).client, clock)
      BY <2>1, <2>3, <3>2, <3>4, <3>5, <3>6
    <3> QED BY <3>2, <3>7 DEF after
  <2>4. CASE ~(allowed /\ Ask(p).client = client /\ w = WindowOf(clock))
    <3>1. after = before
      <4>1. ASSUME NEW q \in Request
            PROVE  q \in after <=> q \in before
        <5>1. CASE q = r
          BY <1>1, <1>2, <2>4, <5>1 DEF Admitted, Ask
        <5>2. CASE q # r
          BY <1>1, <1>2, <5>2 DEF Admitted, Ask
        <5> QED BY <5>1, <5>2
      <4>2. after \subseteq Request /\ before \subseteq Request
        BY DEF Admitted
      <4> QED BY <4>1, <4>2
    <3>2. w = WindowOf(clock) => Seen(counts', Ask(p).client, clock) = Seen(counts, Ask(p).client, clock)
      BY <1>8, <2>4
    <3> HIDE DEF before, after
    <3>3. /\ IsFiniteSet(after) /\ Cardinality(after) <= Limit
          /\ w = WindowOf(clock) => Cardinality(after) = Seen(counts', Ask(p).client, clock)
      BY <2>1, <3>1, <3>2
    <3> QED BY <3>3 DEF after
  <2> QED BY <2>3, <2>4
<1>10. AdmissionsAreCounted'
  BY <1>9, <1>1 DEF AdmissionsAreCounted, Ask
<1> QED BY <1>3, <1>6, <1>7, <1>10 DEF LimiterInv

\* No other step has to do with the limiter.
LEMMA LimiterRests ==
    ASSUME LimiterInv, UNCHANGED <<scene, clock, visit, counts>>,
           request' \in [Request -> Answers],
           \A r \in Request : request[r] # "new" => request'[r] # "new"
    PROVE  LimiterInv'
<1>1. VisitsAreTyped'
  BY DEF LimiterInv, VisitsAreTyped
<1>2. BucketsAreKeyed' /\ BucketsAreCurrent'
  BY DEF LimiterInv, BucketsAreKeyed, BucketsAreCurrent
<1>3. \A client, w : Admitted(client, w)' = Admitted(client, w)
  BY DEF Admitted, Ask
<1>4. \A client : Seen(counts, client, clock)' = Seen(counts, client, clock)
  OBVIOUS
<1>5. AdmissionsAreCounted'
  BY <1>3, <1>4 DEF LimiterInv, AdmissionsAreCounted, Ask
<1> QED BY <1>1, <1>2, <1>5 DEF LimiterInv

LEMMA LimiterSteps ==
    ASSUME LimiterInv, [Next]_vars
    PROVE  LimiterInv'
<1>1. CASE Tick
  BY <1>1, LimiterTicks
<1>2. ASSUME NEW r \in Request, TripPreviewRequested(r)
      PROVE  LimiterInv'
  BY <1>2, LimiterAdmits
<1>3. ASSUME NEW r \in Request, Preview(r)
      PROVE  LimiterInv'
  <2>1. request' \in [Request -> Answers]
    BY <1>3 DEF Preview, LimiterInv, VisitsAreTyped, Answers
  <2>2. \A q \in Request : request[q] # "new" => request'[q] # "new"
    BY <1>3 DEF Preview, LimiterInv, VisitsAreTyped, Answers
  <2>3. UNCHANGED <<scene, clock, visit, counts>>
    BY <1>3 DEF Preview
  <2> QED BY <2>1, <2>2, <2>3, LimiterRests
<1>4. CASE UNCHANGED <<scene, clock, request, visit, counts>>
  <2>1. request' \in [Request -> Answers]
    BY <1>4 DEF LimiterInv, VisitsAreTyped
  <2> QED BY <1>4, <2>1, LimiterRests
<1>5. ASSUME NEW r \in Request, NEW l \in Leg, ClassificationRoute(r, l)
      PROVE  LimiterInv'
  BY <1>4, <1>5 DEF ClassificationRoute, Becomes
<1>6. ASSUME NEW t \in Task, TaskStep(t) \/ TimedOut(t)
      PROVE  LimiterInv'
  BY <1>4, <1>6 DEF TaskStep, DisplayModeRoutes, NoCredential, Answered, Faulted, LockTurn,
                    PriceAnswered, PriceFaulted, TimedOut, Becomes
<1>7. CASE UNCHANGED vars
  BY <1>4, <1>7 DEF vars
<1> QED BY <1>1, <1>2, <1>3, <1>5, <1>6, <1>7 DEF Next

(***************************************************************************)
(* In no window is a client let in more than Limit times, however its      *)
(* requests, those of others and the windows follow one another, and       *)
(* whichever buckets were discarded in between (rate_limit.py:44-67).      *)
(***************************************************************************)
THEOREM VisitorsAreLimited == Spec => []AdmissionsAreLimited
<1>1. Init => LimiterInv
  BY LimiterStarts
<1>2. LimiterInv /\ [Next]_vars => LimiterInv'
  BY LimiterSteps
<1>3. LimiterInv => AdmissionsAreLimited
  <2> SUFFICES ASSUME LimiterInv, NEW r \in Request, visit[r].allowed
               PROVE  Cardinality(Admitted(Ask(r).client, WindowOf(visit[r].at))) <= Limit
    BY DEF AdmissionsAreLimited, Admitted
  <2>1. WindowOf(visit[r].at) \in Int
    BY WindowsAreIntegers DEF LimiterInv, VisitsAreTyped
  <2> QED BY <2>1 DEF LimiterInv, AdmissionsAreCounted
<1> QED BY <1>1, <1>2, <1>3, PTL DEF Spec

-----------------------------------------------------------------------------
(***************************************************************************)
(* Folds.  A list is folded place by place: that there is such a fold, and *)
(* what it has after so many places, follows by way of the least number of *)
(* places for which it would not.                                          *)
(***************************************************************************)
\* A set of naturals that is not empty has a least member: a set without one
\* would let the numbers above its members be moved down by one.
LEMMA LeastNatural ==
    ASSUME NEW T, T \subseteq Nat, T # {}
    PROVE  \E x \in T : \A y \in T : x <= y
<1> SUFFICES ASSUME \A x \in T : \E y \in T : ~(x <= y) PROVE FALSE
  OBVIOUS
<1>1. PICK m \in T : TRUE
  OBVIOUS
<1> DEFINE D == {k \in 0..m : \E t \in T : t <= k}
<1>2. m \in Nat /\ m \in D /\ D \subseteq 0..m
  BY <1>1
<1>3. \A k \in D : k - 1 \in D \ {m}
  <2> SUFFICES ASSUME NEW k \in D PROVE k - 1 \in D \ {m}
    OBVIOUS
  <2>1. PICK t \in T : t <= k
    OBVIOUS
  <2>2. PICK u \in T : ~(t <= u)
    BY <2>1
  <2>3. t \in Nat /\ u \in Nat /\ k \in Nat /\ k <= m
    BY <1>1
  <2>4. u <= k - 1 /\ k - 1 \in 0..m /\ k - 1 # m
    BY <1>2, <2>1, <2>2, <2>3
  <2> QED BY <2>4
<1> HIDE DEF D
<1> DEFINE down == [k \in D |-> k - 1]
<1>4. IsFiniteSet(D)
  <2>1. 0 \in Int /\ m \in Int /\ D \in SUBSET (0..m)
    BY <1>2
  <2>2. IsFiniteSet(0..m)
    BY <2>1, FS_Interval
  <2> QED BY <2>1, <2>2, FS_Subset
<1>5. IsFiniteSet(D \ {m}) /\ Cardinality(D \ {m}) = Cardinality(D) - 1
  BY <1>2, <1>4, FS_RemoveElement
<1>6. Cardinality(D) \in Nat
  BY <1>4, FS_CardinalityType
<1>7. down \in [D -> D \ {m}]
  BY <1>3
<1>8. PICK x, y \in D : x # y /\ down[x] = down[y]
  <2>1. Cardinality(D \ {m}) < Cardinality(D)
    BY <1>5, <1>6
  <2> HIDE DEF down
  <2> QED BY <1>4, <1>5, <1>7, <2>1, FS_PigeonHole
<1> QED BY <1>2, <1>8

\* The largest of some places, by which a fold goes on.
LEMMA LargestOfPrefix ==
    ASSUME NEW n \in Nat \ {0}
    PROVE  Max(1..n) = n /\ (1..n) \ {n} = 1..(n - 1) /\ 1..n # {}
<1>1. n \in 1..n /\ \A y \in 1..n : n >= y
  OBVIOUS
<1>2. \A x \in 1..n : (\A y \in 1..n : x >= y) => x = n
  <2> SUFFICES ASSUME NEW x \in 1..n, \A y \in 1..n : x >= y PROVE x = n
    OBVIOUS
  <2>1. x >= n /\ n >= x
    BY <1>1
  <2> QED BY <2>1
<1>3. Max(1..n) \in 1..n /\ \A y \in 1..n : Max(1..n) >= y
  BY <1>1 DEF Max
<1>4. Max(1..n) = n
  BY <1>2, <1>3
<1> QED BY <1>1, <1>4

LEMMA LargestOfSome ==
    ASSUME NEW n \in Nat, NEW T, T \subseteq 1..n, T # {}
    PROVE  Max(T) \in T /\ \A y \in T : Max(T) >= y
<1> DEFINE gaps == {n - t : t \in T}
<1>1. \A t \in T : t \in 1..n
  OBVIOUS
<1>2. gaps \subseteq Nat /\ gaps # {}
  <2>1. \A t \in T : n - t \in Nat
    BY <1>1
  <2> QED BY <2>1
<1>3. PICK least \in gaps : \A other \in gaps : least <= other
  BY <1>2, LeastNatural
<1>4. PICK x \in T : least = n - x
  BY <1>3
<1>5. \A y \in T : x >= y
  BY <1>1, <1>3, <1>4
<1> QED BY <1>4, <1>5 DEF Max

\* g folds a step from the left over the numbers of any set up to N.
Folds(g, N, base, step) ==
    \A T \in SUBSET (1..N) :
       g[T] = IF T = {} THEN base ELSE step[<<g[T \ {Max(T)}], Max(T)>>]

\* A fold over the places of a list is a function.
LEMMA FoldsAreDefined ==
    ASSUME NEW N \in Nat, NEW V, NEW base \in V, NEW step \in [V \X (1..N) -> V]
    PROVE  \E g \in [SUBSET (1..N) -> V] : Folds(g, N, base, step)
<1> DEFINE Next1(g) == [T \in SUBSET (1..N) |->
                          IF T = {} THEN base ELSE step[<<g[T \ {Max(T)}], Max(T)>>]]
           Right(g, n) == \A T \in SUBSET (1..n) : g[T] = Next1(g)[T]
           wrong == {n \in 0..N : ~\E g \in [SUBSET (1..N) -> V] : Right(g, n)}
<1>1. ASSUME NEW g \in [SUBSET (1..N) -> V] PROVE Next1(g) \in [SUBSET (1..N) -> V]
  <2> SUFFICES ASSUME NEW T \in SUBSET (1..N), T # {}
               PROVE  step[<<g[T \ {Max(T)}], Max(T)>>] \in V
    OBVIOUS
  <2>1. Max(T) \in 1..N
    BY LargestOfSome
  <2>2. g[T \ {Max(T)}] \in V
    OBVIOUS
  <2> QED BY <2>1, <2>2
<1>2. wrong = {}
  <2> SUFFICES ASSUME wrong # {} PROVE FALSE
    OBVIOUS
  <2>1. wrong \subseteq Nat
    OBVIOUS
  <2> HIDE DEF wrong
  <2>2. PICK n \in wrong : \A m \in wrong : n <= m
    BY <2>1, LeastNatural
  <2>3. n \in 0..N /\ ~\E g \in [SUBSET (1..N) -> V] : Right(g, n)
    BY <2>2 DEF wrong
  <2>4. CASE n = 0
    <3> DEFINE g == [T \in SUBSET (1..N) |-> base]
    <3>1. g \in [SUBSET (1..N) -> V]
      OBVIOUS
    <3>2. Right(g, 0)
      <4>1. \A T \in SUBSET (1..0) : T = {}
        OBVIOUS
      <4>2. {} \in SUBSET (1..N)
        OBVIOUS
      <4> QED BY <4>1, <4>2
    <3> HIDE DEF g, Right
    <3> QED BY <2>3, <2>4, <3>1, <3>2
  <2>5. CASE n # 0
    <3>1. n - 1 \in 0..N /\ n - 1 \notin wrong
      BY <2>2, <2>3, <2>5
    <3>2. PICK g \in [SUBSET (1..N) -> V] : Right(g, n - 1)
      <4> HIDE DEF Right
      <4> QED BY <3>1 DEF wrong
    <3> DEFINE h == Next1(g)
    <3>3. h \in [SUBSET (1..N) -> V]
      BY <1>1
    <3>4. ASSUME NEW T \in SUBSET (1..n) PROVE h[T] = Next1(h)[T]
      <4>1. T \in SUBSET (1..N)
        BY <2>3
      <4>2. CASE T = {}
        BY <4>1, <4>2
      <4>3. CASE T # {}
        <5> DEFINE rest == T \ {Max(T)}
        <5>1. Max(T) \in T /\ \A y \in T : Max(T) >= y
          <6>1. n \in Nat /\ T \subseteq 1..n
            BY <2>3
          <6> QED BY <4>3, <6>1, LargestOfSome
        <5>2. rest \in SUBSET (1..(n - 1))
          <6> SUFFICES ASSUME NEW y \in rest PROVE y \in 1..(n - 1)
            OBVIOUS
          <6>1. y \in 1..n /\ Max(T) \in 1..n /\ y # Max(T) /\ Max(T) >= y
            BY <5>1
          <6> QED BY <2>3, <6>1
        <5>3. g[rest] = h[rest]
          BY <3>2, <5>2
        <5>4. h[T] = step[<<g[rest], Max(T)>>] /\ Next1(h)[T] = step[<<h[rest], Max(T)>>]
          BY <4>1, <4>3
        <5> QED BY <5>3, <5>4
      <4> QED BY <4>2, <4>3
    <3>5. Right(h, n)
      BY <3>4
    <3> HIDE DEF h, Right
    <3> QED BY <2>3, <3>3, <3>5
  <2> QED BY <2>4, <2>5
<1>3. N \in 0..N /\ N \notin wrong
  <2> HIDE DEF wrong
  <2> QED BY <1>2
<1>4. PICK g \in [SUBSET (1..N) -> V] : Right(g, N)
  <2> HIDE DEF Right
  <2> QED BY <1>3
<1> QED BY <1>4 DEF Folds

-----------------------------------------------------------------------------
(***************************************************************************)
(* What sorting, thinning out and dropping repeated ids leave of a list of *)
(* routes: every route has a place of its own, and one is left out only    *)
(* behind a near-duplicate whose provider is at least as high in the       *)
(* registry.                                                               *)
(***************************************************************************)
\* No two routes have the same id.
DistinctIds(routes) ==
    \A i, j \in DOMAIN routes : IdOf(routes[i]) = IdOf(routes[j]) => i = j

\* What is kept of a sorted list after n routes, as thinning out goes through it.
LEMMA DeduplicationUnfolds ==
    ASSUME NEW routes, NEW S, NEW ordered \in Seq(S), ordered = Ordered(routes)
    PROVE  \E kept \in [0..Len(ordered) -> Seq(S)] :
              /\ kept[0] = <<>>
              /\ \A n \in 1..Len(ordered) :
                    kept[n] = IF \E other \in ToSet(kept[n - 1]) : Duplicates(ordered[n], other)
                                THEN kept[n - 1] ELSE Append(kept[n - 1], ordered[n])
              /\ kept[Len(ordered)] = DeduplicateRoutes(routes)
<1> DEFINE N == Len(ordered)
           V == Seq(S)
           Grown(k, i) == IF \E other \in ToSet(k) : Duplicates(ordered[i], other)
                            THEN k ELSE Append(k, ordered[i])
           move == [x \in V \X (1..N) |-> Grown(x[1], x[2])]
           Iter(g) == [T \in SUBSET (1..N) |->
                          IF T = {} THEN <<>> ELSE Grown(g[T \ {Max(T)}], Max(T))]
           f == CHOOSE g : g = Iter(g)
           kept == [n \in 0..N |-> f[1..n]]
<1>1. N \in Nat /\ DOMAIN ordered = 1..N /\ <<>> \in V /\ \A i \in 1..N : ordered[i] \in S
  OBVIOUS
<1>2. move \in [V \X (1..N) -> V]
  <2> SUFFICES ASSUME NEW x \in V \X (1..N) PROVE Grown(x[1], x[2]) \in V
    OBVIOUS
  <2>1. x[1] \in Seq(S) /\ ordered[x[2]] \in S
    BY <1>1
  <2> QED BY <2>1
<1>3. PICK g \in [SUBSET (1..N) -> V] : Folds(g, N, <<>>, move)
  <2> HIDE DEF N, V, move
  <2>1. N \in Nat /\ <<>> \in V
    BY <1>1
  <2> QED BY <1>2, <2>1, FoldsAreDefined
<1>4. g = Iter(g)
  <2>1. ASSUME NEW T \in SUBSET (1..N) PROVE g[T] = Iter(g)[T]
    <3>1. CASE T = {}
      BY <1>3, <3>1 DEF Folds
    <3>2. CASE T # {}
      <4>1. Max(T) \in 1..N
        <5> HIDE DEF N
        <5> QED BY <1>1, <3>2, LargestOfSome
      <4>2. g[T \ {Max(T)}] \in V
        OBVIOUS
      <4>3. <<g[T \ {Max(T)}], Max(T)>> \in V \X (1..N)
        BY <4>1, <4>2
      <4>4. move[<<g[T \ {Max(T)}], Max(T)>>] = Grown(g[T \ {Max(T)}], Max(T))
        <5> HIDE DEF Grown, V, N
        <5> QED BY <4>3
      <4> HIDE DEF move, Grown, V, N
      <4>5. g[T] = move[<<g[T \ {Max(T)}], Max(T)>>]
        BY <1>3, <3>2 DEF Folds
      <4> QED BY <3>2, <4>4, <4>5
    <3> QED BY <3>1, <3>2
  <2>2. Iter(g) = [T \in SUBSET (1..N) |-> Iter(g)[T]]
    OBVIOUS
  <2>3. g = [T \in SUBSET (1..N) |-> g[T]]
    OBVIOUS
  <2> HIDE DEF Iter
  <2> QED BY <2>1, <2>2, <2>3
<1>5. f = Iter(f)
  <2> HIDE DEF Iter
  <2> QED BY <1>4
<1> HIDE DEF f
<1>6. f[{}] = <<>>
  BY <1>5
<1>7. ASSUME NEW n \in 1..N PROVE f[1..n] = Grown(f[1..(n - 1)], n)
  <2>1. Max(1..n) = n /\ (1..n) \ {n} = 1..(n - 1) /\ 1..n # {}
    <3> HIDE DEF N
    <3>1. n \in Nat \ {0}
      BY <1>1
    <3> QED BY <3>1, LargestOfPrefix
  <2>2. 1..n \in SUBSET (1..N)
    BY <1>1
  <2>3. Iter(f)[1..n] = Grown(f[1..(n - 1)], n)
    <3> HIDE DEF Grown, N
    <3> QED BY <2>1, <2>2
  <2> QED BY <1>5, <2>3
<1>8. ASSUME NEW n \in 0..N PROVE f[1..n] \in V
  <2> DEFINE odd == {m \in 0..N : f[1..m] \notin V}
  <2> SUFFICES ASSUME odd # {} PROVE FALSE
    OBVIOUS
  <2>1. odd \subseteq Nat
    BY <1>1
  <2> HIDE DEF odd
  <2>2. PICK m \in odd : \A other \in odd : m <= other
    BY <2>1, LeastNatural
  <2>3. m \in 0..N /\ f[1..m] \notin V
    BY <2>2 DEF odd
  <2>4. m # 0
    <3>1. 1..0 = {}
      OBVIOUS
    <3> QED BY <1>1, <1>6, <2>3, <3>1
  <2>5. m \in 1..N /\ m - 1 \in 0..N /\ ~(m <= m - 1)
    BY <1>1, <2>3, <2>4
  <2>6. f[1..(m - 1)] \in V
    BY <2>2, <2>5 DEF odd
  <2>7. Grown(f[1..(m - 1)], m) \in V
    BY <1>1, <2>5, <2>6
  <2> QED BY <1>7, <2>3, <2>5, <2>7
<1>9. DeduplicateRoutes(routes) = f[1..N]
  BY <1>1 DEF DeduplicateRoutes, FoldLeft, MapThenFoldSet, f
<1>10. kept \in [0..N -> V]
  BY <1>8
<1>11. kept[0] = <<>> /\ kept[N] = f[1..N]
  <2>1. 1..0 = {}
    OBVIOUS
  <2> QED BY <1>1, <1>6, <2>1
<1>12. \A n \in 1..N : kept[n] = Grown(kept[n - 1], n)
  <2> SUFFICES ASSUME NEW n \in 1..N PROVE kept[n] = Grown(kept[n - 1], n)
    OBVIOUS
  <2>1. n \in 0..N /\ n - 1 \in 0..N
    BY <1>1
  <2>2. kept[n] = f[1..n] /\ kept[n - 1] = f[1..(n - 1)]
    BY <2>1
  <2> HIDE DEF kept, Grown
  <2> QED BY <1>7, <2>2
<1> HIDE DEF kept
<1> QED BY <1>9, <1>10, <1>11, <1>12

\* Who comes before whom, of finitely many, gives everyone a place.
PlaceIn(before, S, x) == 1 + Cardinality({y \in S : <<y, x>> \in before})

StrictOrder(before, S) ==
    /\ \A x \in S : <<x, x>> \notin before
    /\ \A x, y \in S : x # y => <<x, y>> \in before \/ <<y, x>> \in before
    /\ \A x, y, z \in S : <<x, y>> \in before /\ <<y, z>> \in before => <<x, z>> \in before

LEMMA PlacesAreTaken ==
    ASSUME NEW S, IsFiniteSet(S), NEW before, StrictOrder(before, S)
    PROVE  LET n == Cardinality(S)
           IN  /\ n \in Nat
               /\ \A x \in S : PlaceIn(before, S, x) \in 1..n
               /\ \A x, y \in S : <<x, y>> \in before =>
                                     PlaceIn(before, S, x) < PlaceIn(before, S, y)
               /\ \A x, y \in S : PlaceIn(before, S, x) = PlaceIn(before, S, y) => x = y
               /\ \A k \in 1..n : \E x \in S : PlaceIn(before, S, x) = k
<1> DEFINE n == Cardinality(S)
           place(x) == PlaceIn(before, S, x)
           Earlier(x) == {y \in S : <<y, x>> \in before}
           places == [x \in S |-> place(x)]
<1>1. n \in Nat
  BY FS_CardinalityType
<1>2. ASSUME NEW x \in S
      PROVE  /\ IsFiniteSet(Earlier(x)) /\ Cardinality(Earlier(x)) \in Nat
             /\ Cardinality(Earlier(x)) < n
  <2>1. Earlier(x) \in SUBSET (S \ {x})
    BY DEF StrictOrder
  <2>2. IsFiniteSet(S \ {x}) /\ Cardinality(S \ {x}) = n - 1
    BY FS_RemoveElement
  <2> HIDE DEF Earlier
  <2>3. IsFiniteSet(Earlier(x)) /\ Cardinality(Earlier(x)) <= n - 1
    BY <2>1, <2>2, FS_Subset
  <2>4. Cardinality(Earlier(x)) \in Nat
    BY <2>3, FS_CardinalityType
  <2> HIDE DEF n
  <2> QED BY <1>1, <2>3, <2>4
<1>3. \A x \in S : place(x) = 1 + Cardinality(Earlier(x))
  BY DEF PlaceIn
<1>4. \A x \in S : place(x) \in 1..n
  <2> HIDE DEF place, n, Earlier
  <2> QED BY <1>1, <1>2, <1>3
<1>5. ASSUME NEW x \in S, NEW y \in S, <<x, y>> \in before PROVE place(x) < place(y)
  <2>1. Earlier(x) \cup {x} \in SUBSET Earlier(y) /\ x \notin Earlier(x)
    BY <1>5 DEF StrictOrder
  <2> HIDE DEF Earlier
  <2>2. IsFiniteSet(Earlier(x)) /\ IsFiniteSet(Earlier(y))
        /\ Cardinality(Earlier(x)) \in Nat /\ Cardinality(Earlier(y)) \in Nat
    BY <1>2
  <2>3. Cardinality(Earlier(x) \cup {x}) = Cardinality(Earlier(x)) + 1
    BY <2>1, <2>2, FS_AddElement
  <2>4. Cardinality(Earlier(x) \cup {x}) <= Cardinality(Earlier(y))
    BY <2>1, <2>2, FS_Subset
  <2> HIDE DEF place
  <2> QED BY <1>3, <2>2, <2>3, <2>4
<1>6. ASSUME NEW x \in S, NEW y \in S, place(x) = place(y) PROVE x = y
  <2> SUFFICES ASSUME x # y PROVE FALSE
    OBVIOUS
  <2>1. <<x, y>> \in before \/ <<y, x>> \in before
    BY DEF StrictOrder
  <2>2. place(x) < place(y) \/ place(y) < place(x)
    <3> HIDE DEF place
    <3> QED BY <1>5, <2>1
  <2>3. place(x) \in Int /\ place(y) \in Int
    <3> HIDE DEF place, n
    <3> QED BY <1>1, <1>4
  <2> HIDE DEF place
  <2> QED BY <1>6, <2>2, <2>3
<1>7. ASSUME NEW k \in 1..n PROVE \E x \in S : place(x) = k
  <2>1. places \in [S -> 1..n]
    BY <1>4
  <2>2. \A x \in S : places[x] = place(x)
    OBVIOUS
  <2>3. DOMAIN places = S
    OBVIOUS
  <2> HIDE DEF places, place
  <2>4. places \in Injection(S, 1..n)
    BY <1>6, <2>1, <2>2, <2>3 DEF Injection, IsInjective
  <2>5. IsFiniteSet(1..n) /\ Cardinality(1..n) = n
    <3> HIDE DEF n
    <3>1. 1 \in Int /\ n \in Int
      BY <1>1
    <3>2. IsFiniteSet(1..n) /\ Cardinality(1..n) = IF 1 > n THEN 0 ELSE n - 1 + 1
      BY <3>1, FS_Interval
    <3> QED BY <1>1, <3>2
  <2>6. places \in Surjection(S, 1..n)
    BY <2>4, <2>5, FS_Injection
  <2> HIDE DEF n
  <2>7. \A i \in 1..n : \E x \in S : places[x] = i
    BY <2>6 DEF Surjection
  <2> QED BY <1>7, <2>2, <2>7
<1> HIDE DEF place
<1> QED BY <1>1, <1>4, <1>5, <1>6, <1>7 DEF place

HasKey(route) == Priority(route.source) \in Int /\ route.number \in Int

LEMMA PlacesByKey ==
    ASSUME NEW s, NEW n \in Nat, DOMAIN s = 1..n, \A i \in 1..n : HasKey(s[i])
    PROVE  LET before == {z \in (1..n) \X (1..n) : ComesBefore(s, z[1], z[2])}
           IN  /\ StrictOrder(before, 1..n)
               /\ \A i \in 1..n : Place(s, i) = PlaceIn(before, 1..n, i)
               /\ \A i, j \in 1..n : <<i, j>> \in before =>
                                        Priority(s[i].source) <= Priority(s[j].source)
<1> DEFINE before == {z \in (1..n) \X (1..n) : ComesBefore(s, z[1], z[2])}
           P(i) == Priority(s[i].source)
           K(i) == s[i].number
<1>1. \A i \in 1..n : P(i) \in Int /\ K(i) \in Int
  BY DEF HasKey
<1>2. ASSUME NEW i \in 1..n, NEW j \in 1..n
      PROVE  ComesBefore(s, i, j) <=>
                P(i) < P(j) \/ (P(i) = P(j) /\ (K(i) < K(j) \/ (K(i) = K(j) /\ i < j)))
  <2> DEFINE a == RegistryKey(s[i])
             b == RegistryKey(s[j])
  <2>1. a = <<P(i), K(i)>> /\ b = <<P(j), K(j)>>
    BY DEF RegistryKey
  <2>2. ComesBefore(s, i, j) <=> KeyBefore(a, b) \/ (a = b /\ i < j)
    BY DEF ComesBefore
  <2> HIDE DEF a, b, P, K
  <2>3. DOMAIN a = {1, 2} /\ a[1] = P(i) /\ a[2] = K(i) /\ b[1] = P(j) /\ b[2] = K(j)
    BY <2>1
  <2>4. KeyBefore(a, b) <=> a[1] < b[1] \/ (a[1] = b[1] /\ a[2] < b[2])
    <3>1. KeyBefore(a, b) <=> \/ a[1] < b[1] /\ \A k \in 1..(1 - 1) : a[k] = b[k]
                              \/ a[2] < b[2] /\ \A k \in 1..(2 - 1) : a[k] = b[k]
      BY <2>3 DEF KeyBefore
    <3>2. 1..(1 - 1) = {} /\ 1..(2 - 1) = {1}
      OBVIOUS
    <3> QED BY <3>1, <3>2
  <2>5. a = b <=> P(i) = P(j) /\ K(i) = K(j)
    BY <2>1
  <2> QED BY <2>2, <2>3, <2>4, <2>5
<1>3. \A i, j \in 1..n : <<i, j>> \in before <=> ComesBefore(s, i, j)
  OBVIOUS
<1> HIDE DEF before, P, K
<1>4. \A i, j \in 1..n : <<i, j>> \in before <=>
                P(i) < P(j) \/ (P(i) = P(j) /\ (K(i) < K(j) \/ (K(i) = K(j) /\ i < j)))
  BY <1>2, <1>3
<1>5. StrictOrder(before, 1..n)
  <2>1. \A i \in 1..n : <<i, i>> \notin before
    BY <1>1, <1>4
  <2>2. ASSUME NEW i \in 1..n, NEW j \in 1..n, i # j
        PROVE  <<i, j>> \in before \/ <<j, i>> \in before
    <3>1. /\ P(i) \in Int /\ P(j) \in Int /\ K(i) \in Int /\ K(j) \in Int
          /\ i \in Int /\ j \in Int
      BY <1>1
    <3>2. /\ <<i, j>> \in before <=>
                P(i) < P(j) \/ (P(i) = P(j) /\ (K(i) < K(j) \/ (K(i) = K(j) /\ i < j)))
          /\ <<j, i>> \in before <=>
                P(j) < P(i) \/ (P(j) = P(i) /\ (K(j) < K(i) \/ (K(j) = K(i) /\ j < i)))
      BY <1>4
    <3> QED BY ONLY <2>2, <3>1, <3>2
  <2>3. ASSUME NEW i \in 1..n, NEW j \in 1..n, NEW k \in 1..n,
               <<i, j>> \in before, <<j, k>> \in before
        PROVE  <<i, k>> \in before
    <3>1. P(i) < P(j) \/ (P(i) = P(j) /\ (K(i) < K(j) \/ (K(i) = K(j) /\ i < j)))
      BY <1>4, <2>3
    <3>2. P(j) < P(k) \/ (P(j) = P(k) /\ (K(j) < K(k) \/ (K(j) = K(k) /\ j < k)))
      BY <1>4, <2>3
    <3>3. P(i) < P(k) \/ (P(i) = P(k) /\ (K(i) < K(k) \/ (K(i) = K(k) /\ i < k)))
      BY <1>1, <3>1, <3>2
    <3> QED BY <1>4, <3>3
  <2> QED BY <2>1, <2>2, <2>3 DEF StrictOrder
<1>6. ASSUME NEW i \in 1..n PROVE Place(s, i) = PlaceIn(before, 1..n, i)
  <2>1. \A j \in 1..n : ComesBefore(s, j, i) <=> <<j, i>> \in before
    BY <1>3
  <2>2. {j \in DOMAIN s : ComesBefore(s, j, i)} = {j \in 1..n : <<j, i>> \in before}
    BY <2>1
  <2> QED BY <2>2 DEF Place, PlaceIn
<1>7. ASSUME NEW i \in 1..n, NEW j \in 1..n, <<i, j>> \in before PROVE P(i) <= P(j)
  <2>1. P(i) < P(j) \/ (P(i) = P(j) /\ (K(i) < K(j) \/ (K(i) = K(j) /\ i < j)))
    BY <1>4, <1>7
  <2> QED BY <1>1, <2>1
<1> QED BY <1>5, <1>6, <1>7 DEF before, P

\* A sorted list has the routes it was made from, in the order of their keys.
LEMMA OrderedIsAPermutation ==
    ASSUME NEW s, NEW n \in Nat, DOMAIN s = 1..n, \A i \in 1..n : HasKey(s[i])
    PROVE  \E p \in [1..n -> 1..n] :
              /\ \A i, j \in 1..n : p[i] = p[j] => i = j
              /\ \A k \in 1..n : \E i \in 1..n : p[i] = k
              /\ Ordered(s) = [i \in 1..n |-> s[p[i]]]
              /\ \A i, j \in 1..n : i < j =>
                    Priority(s[p[i]].source) <= Priority(s[p[j]].source)
<1> DEFINE before == {z \in (1..n) \X (1..n) : ComesBefore(s, z[1], z[2])}
           p == [k \in 1..n |-> CHOOSE i \in 1..n : Place(s, i) = k]
<1>1. /\ StrictOrder(before, 1..n)
      /\ \A i \in 1..n : Place(s, i) = PlaceIn(before, 1..n, i)
      /\ \A i, j \in 1..n : <<i, j>> \in before =>
                                        Priority(s[i].source) <= Priority(s[j].source)
  BY PlacesByKey
<1> HIDE DEF before
<1>2. IsFiniteSet(1..n) /\ Cardinality(1..n) = n
  <2>1. 1 \in Int /\ n \in Int
    OBVIOUS
  <2>2. IsFiniteSet(1..n) /\ Cardinality(1..n) = IF 1 > n THEN 0 ELSE n - 1 + 1
    BY <2>1, FS_Interval
  <2> QED BY <2>2
<1>3. /\ \A i \in 1..n : Place(s, i) \in 1..n
      /\ \A i, j \in 1..n : <<i, j>> \in before => Place(s, i) < Place(s, j)
      /\ \A i, j \in 1..n : Place(s, i) = Place(s, j) => i = j
      /\ \A k \in 1..n : \E i \in 1..n : Place(s, i) = k
  <2> DEFINE S == 1..n
             place(x) == PlaceIn(before, S, x)
  <2>1. IsFiniteSet(S) /\ StrictOrder(before, S) /\ Cardinality(S) = n
    BY <1>1, <1>2
  <2> HIDE DEF S
  <2>2. /\ \A x \in S : place(x) \in 1..Cardinality(S)
        /\ \A x, y \in S : <<x, y>> \in before => place(x) < place(y)
        /\ \A x, y \in S : place(x) = place(y) => x = y
        /\ \A k \in 1..Cardinality(S) : \E x \in S : place(x) = k
    BY <2>1, PlacesAreTaken
  <2>3. \A i \in S : Place(s, i) = place(i)
    BY <1>1 DEF S
  <2> HIDE DEF place
  <2>4. \A i \in S : Place(s, i) \in 1..n
    BY <2>1, <2>2, <2>3
  <2>5. \A i, j \in S : <<i, j>> \in before => Place(s, i) < Place(s, j)
    BY <2>2, <2>3
  <2>6. \A i, j \in S : Place(s, i) = Place(s, j) => i = j
    BY <2>2, <2>3
  <2>7. \A k \in 1..n : \E i \in S : Place(s, i) = k
    BY <2>1, <2>2, <2>3
  <2> QED BY <2>4, <2>5, <2>6, <2>7 DEF S
<1>4. \A k \in 1..n : p[k] \in 1..n /\ Place(s, p[k]) = k
  BY <1>3
<1>5. p \in [1..n -> 1..n]
  BY <1>4
<1>6. Ordered(s) = [i \in 1..n |-> s[p[i]]]
  BY DEF Ordered
<1> HIDE DEF p
<1>7. \A i, j \in 1..n : p[i] = p[j] => i = j
  BY <1>4
<1>8. \A k \in 1..n : \E i \in 1..n : p[i] = k
  <2> SUFFICES ASSUME NEW k \in 1..n PROVE \E i \in 1..n : p[i] = k
    OBVIOUS
  <2>1. Place(s, k) \in 1..n
    BY <1>3
  <2>2. Place(s, p[Place(s, k)]) = Place(s, k) /\ p[Place(s, k)] \in 1..n
    BY <1>4, <2>1
  <2> QED BY <1>3, <2>1, <2>2
<1>9. ASSUME NEW i \in 1..n, NEW j \in 1..n, i < j
      PROVE  Priority(s[p[i]].source) <= Priority(s[p[j]].source)
  <2>1. p[i] \in 1..n /\ p[j] \in 1..n /\ p[i] # p[j]
    BY <1>4, <1>7, <1>9
  <2>2. <<p[i], p[j]>> \in before \/ <<p[j], p[i]>> \in before
    BY <1>1, <2>1 DEF StrictOrder
  <2>3. ~(<<p[j], p[i]>> \in before)
    <3> SUFFICES ASSUME <<p[j], p[i]>> \in before PROVE FALSE
      OBVIOUS
    <3>1. Place(s, p[j]) < Place(s, p[i])
      BY <1>3, <2>1
    <3>2. j < i
      BY <1>4, <3>1
    <3> QED BY <1>9, <3>2
  <2> QED BY <1>1, <2>1, <2>2, <2>3
<1> QED BY <1>5, <1>6, <1>7, <1>8, <1>9

\* No two routes are near-duplicates.
AllDiffer(routes) ==
    \A i, j \in DOMAIN routes : i # j => ~Duplicates(routes[i], routes[j])

\* What is kept of the first m routes of a sorted list.
KeptWell(kept, sorted, m, S) ==
    /\ kept \in Seq(S)
    /\ \A a \in DOMAIN kept : \E i \in 1..m : kept[a] = sorted[i]
    /\ \A i \in 1..m : \E a \in DOMAIN kept :
          /\ kept[a] = sorted[i] \/ Duplicates(sorted[i], kept[a])
          /\ Priority(kept[a].source) <= Priority(sorted[i].source)
    /\ \A a, b \in DOMAIN kept : a < b => ~Duplicates(kept[b], kept[a])
    /\ DistinctIds(sorted) => DistinctIds(kept)
    /\ AllDiffer(sorted) => \A i \in 1..m : \E a \in DOMAIN kept : kept[a] = sorted[i]

LEMMA KeepsWell ==
    ASSUME NEW S, NEW n \in Nat, NEW sorted \in [1..n -> S],
           \A i \in 1..n : Priority(sorted[i].source) \in Int,
           \A i, j \in 1..n : i < j => Priority(sorted[i].source) <= Priority(sorted[j].source),
           NEW m \in 1..n, NEW kept, KeptWell(kept, sorted, m - 1, S), NEW grown,
           grown = IF \E other \in ToSet(kept) : Duplicates(sorted[m], other)
                     THEN kept ELSE Append(kept, sorted[m])
    PROVE  KeptWell(grown, sorted, m, S)
<1> DEFINE prio(i) == Priority(sorted[i].source)
<1>1. /\ kept \in Seq(S) /\ m - 1 \in Nat /\ 1..m = (1..(m - 1)) \cup {m} /\ m \in DOMAIN sorted
      /\ sorted[m] \in S /\ DOMAIN sorted = 1..n /\ m \in 1..m
  <2>1. kept \in Seq(S)
    BY DEF KeptWell
  <2>2. m \in Nat /\ 1 <= m /\ m <= n
    OBVIOUS
  <2>3. 1..m = (1..(m - 1)) \cup {m} /\ m - 1 \in Nat /\ m \in 1..m
    BY <2>2
  <2>4. sorted[m] \in S /\ DOMAIN sorted = 1..n /\ m \in DOMAIN sorted
    OBVIOUS
  <2> QED BY <2>1, <2>3, <2>4
<1>2. \A x : x \in ToSet(kept) <=> \E a \in DOMAIN kept : x = kept[a]
  BY DEF ToSet
<1>3. \A i \in 1..(m - 1) : i \in 1..n /\ i < m
  OBVIOUS
<1>4. CASE \E other \in ToSet(kept) : Duplicates(sorted[m], other)
  <2>1. grown = kept
    BY <1>4
  <2>2. PICK a \in DOMAIN kept : Duplicates(sorted[m], kept[a])
    BY <1>2, <1>4
  <2>3. PICK i \in 1..(m - 1) : kept[a] = sorted[i]
    BY DEF KeptWell
  <2>4. Priority(kept[a].source) <= Priority(sorted[m].source)
    BY <1>1, <1>3, <2>3
  <2>5. ~AllDiffer(sorted)
    BY <1>1, <1>3, <2>2, <2>3 DEF AllDiffer
  <2>6. \A i1 \in 1..m : \E a1 \in DOMAIN kept :
          /\ kept[a1] = sorted[i1] \/ Duplicates(sorted[i1], kept[a1])
          /\ Priority(kept[a1].source) <= Priority(sorted[i1].source)
    BY <1>1, <2>2, <2>4 DEF KeptWell
  <2>7. \A a1 \in DOMAIN kept : \E i1 \in 1..m : kept[a1] = sorted[i1]
    BY <1>1 DEF KeptWell
  <2>8. /\ \A a1, b1 \in DOMAIN kept : a1 < b1 => ~Duplicates(kept[b1], kept[a1])
        /\ DistinctIds(sorted) => DistinctIds(kept)
    BY DEF KeptWell
  <2>9. KeptWell(kept, sorted, m, S)
    BY ONLY <1>1, <2>5, <2>6, <2>7, <2>8 DEF KeptWell
  <2> QED BY <2>1, <2>9
<1>5. CASE ~\E other \in ToSet(kept) : Duplicates(sorted[m], other)
  <2> DEFINE last == Len(kept) + 1
  <2>1. grown = Append(kept, sorted[m])
    BY <1>5
  <2>2. /\ grown \in Seq(S) /\ DOMAIN grown = DOMAIN kept \cup {last} /\ grown[last] = sorted[m]
        /\ \A a \in DOMAIN kept : grown[a] = kept[a] /\ a < last
        /\ last \notin DOMAIN kept /\ DOMAIN kept \subseteq Nat /\ last \in Nat
    BY <1>1, <2>1
  <2> HIDE DEF last
  <2>3. ASSUME NEW a \in DOMAIN grown PROVE \E i \in 1..m : grown[a] = sorted[i]
    <3>1. CASE a = last
      BY <1>1, <2>2, <3>1
    <3>2. CASE a \in DOMAIN kept
      <4>1. PICK i \in 1..(m - 1) : kept[a] = sorted[i]
        BY <3>2 DEF KeptWell
      <4> QED BY <1>1, <2>2, <3>2, <4>1
    <3> QED BY <2>2, <3>1, <3>2
  <2>4. ASSUME NEW i \in 1..m
        PROVE  \E a \in DOMAIN grown :
                  /\ grown[a] = sorted[i] \/ Duplicates(sorted[i], grown[a])
                  /\ Priority(grown[a].source) <= Priority(sorted[i].source)
    <3>1. CASE i = m
      <4>1. Priority(sorted[m].source) <= Priority(sorted[m].source)
        <5>1. Priority(sorted[m].source) \in Int
          BY <1>1
        <5> QED BY <5>1
      <4> QED BY <2>2, <3>1, <4>1
    <3>2. CASE i \in 1..(m - 1)
      <4>1. PICK a \in DOMAIN kept :
                  /\ kept[a] = sorted[i] \/ Duplicates(sorted[i], kept[a])
                  /\ Priority(kept[a].source) <= Priority(sorted[i].source)
        BY <3>2 DEF KeptWell
      <4> QED BY <2>2, <4>1
    <3> QED BY <1>1, <3>1, <3>2
  <2>5. ASSUME NEW a \in DOMAIN grown, NEW b \in DOMAIN grown, a < b
        PROVE  ~Duplicates(grown[b], grown[a])
    <3>1. a \in DOMAIN kept
      BY <2>2, <2>5
    <3>2. CASE b = last
      <4>1. kept[a] \in ToSet(kept)
        BY <1>2, <3>1
      <4> QED BY <1>5, <2>2, <3>1, <3>2, <4>1
    <3>3. CASE b \in DOMAIN kept
      BY <2>2, <2>5, <3>1, <3>3 DEF KeptWell
    <3> QED BY <2>2, <3>2, <3>3
  <2>6. ASSUME DistinctIds(sorted) PROVE DistinctIds(grown)
    <3>1. DistinctIds(kept)
      BY <2>6 DEF KeptWell
    <3>2. ASSUME NEW a \in DOMAIN kept PROVE IdOf(kept[a]) # IdOf(sorted[m])
      <4>1. PICK i \in 1..(m - 1) : kept[a] = sorted[i]
        BY DEF KeptWell
      <4> QED BY <1>1, <1>3, <2>6, <4>1 DEF DistinctIds
    <3> SUFFICES ASSUME NEW a \in DOMAIN grown, NEW b \in DOMAIN grown,
                        IdOf(grown[a]) = IdOf(grown[b])
                 PROVE  a = b
      BY DEF DistinctIds
    <3>3. CASE a \in DOMAIN kept /\ b \in DOMAIN kept
      BY <2>2, <3>1, <3>3 DEF DistinctIds
    <3>4. CASE a = last \/ b = last
      BY <2>2, <3>2, <3>4
    <3> QED BY <2>2, <3>3, <3>4
  <2>7. ASSUME AllDiffer(sorted), NEW i \in 1..m
        PROVE  \E a \in DOMAIN grown : grown[a] = sorted[i]
    <3>1. CASE i = m
      BY <2>2, <3>1
    <3>2. CASE i \in 1..(m - 1)
      <4>1. PICK a \in DOMAIN kept : kept[a] = sorted[i]
        BY <2>7, <3>2 DEF KeptWell
      <4> QED BY <2>2, <4>1
    <3> QED BY <1>1, <3>1, <3>2
  <2> QED BY <2>2, <2>3, <2>4, <2>5, <2>6, <2>7 DEF KeptWell
<1> QED BY <1>4, <1>5

\* What a list without near-duplicates is to the list it was made from.
Summarizes(kept, s, S) ==
    /\ kept \in Seq(S)
    /\ \A a \in DOMAIN kept : \E i \in DOMAIN s : kept[a] = s[i]
    /\ \A i \in DOMAIN s : \E a \in DOMAIN kept :
          /\ kept[a] = s[i] \/ Duplicates(s[i], kept[a])
          /\ Priority(kept[a].source) <= Priority(s[i].source)
    /\ \A a, b \in DOMAIN kept : a < b => ~Duplicates(kept[b], kept[a])
    /\ DistinctIds(s) => DistinctIds(kept)
    /\ AllDiffer(s) => \A i \in DOMAIN s : \E a \in DOMAIN kept : kept[a] = s[i]

\* Thinning out a sorted list.
LEMMA NothingIsLost ==
    ASSUME NEW S, NEW s \in Seq(S), \A i \in DOMAIN s : HasKey(s[i])
    PROVE  Summarizes(DeduplicateRoutes(s), s, S)
<1> DEFINE n == Len(s)
           sorted == Ordered(s)
<1>1. n \in Nat /\ DOMAIN s = 1..n /\ \A i \in 1..n : s[i] \in S
  OBVIOUS
<1>2. PICK p \in [1..n -> 1..n] :
              /\ \A i, j \in 1..n : p[i] = p[j] => i = j
              /\ \A k \in 1..n : \E i \in 1..n : p[i] = k
              /\ sorted = [i \in 1..n |-> s[p[i]]]
              /\ \A i, j \in 1..n : i < j =>
                    Priority(s[p[i]].source) <= Priority(s[p[j]].source)
  <2>1. \A i \in 1..n : HasKey(s[i])
    BY <1>1
  <2> HIDE DEF n
  <2> QED BY ONLY <1>1, <2>1, OrderedIsAPermutation DEF sorted
<1> HIDE DEF n
<1>3. /\ sorted \in [1..n -> S]
      /\ \A i \in 1..n : p[i] \in 1..n /\ sorted[i] = s[p[i]]
  <2>1. \A i \in 1..n : p[i] \in 1..n
    BY <1>2
  <2> HIDE DEF sorted
  <2>2. \A i \in 1..n : sorted[i] = s[p[i]] /\ s[p[i]] \in S
    BY <1>1, <1>2, <2>1
  <2>3. sorted = [i \in 1..n |-> s[p[i]]]
    BY <1>2
  <2> QED BY <2>1, <2>2, <2>3
<1>4. sorted \in Seq(S) /\ Len(sorted) = n /\ DOMAIN sorted = 1..n
  BY <1>1, <1>3
<1>5. PICK kept \in [0..n -> Seq(S)] :
              /\ kept[0] = <<>>
              /\ \A m \in 1..n :
                    kept[m] = IF \E other \in ToSet(kept[m - 1]) : Duplicates(sorted[m], other)
                                THEN kept[m - 1] ELSE Append(kept[m - 1], sorted[m])
              /\ kept[n] = DeduplicateRoutes(s)
  <2>1. sorted = Ordered(s)
    OBVIOUS
  <2> HIDE DEF sorted
  <2>2. \E kept \in [0..Len(sorted) -> Seq(S)] :
              /\ kept[0] = <<>>
              /\ \A m \in 1..Len(sorted) :
                    kept[m] = IF \E other \in ToSet(kept[m - 1]) : Duplicates(sorted[m], other)
                                THEN kept[m - 1] ELSE Append(kept[m - 1], sorted[m])
              /\ kept[Len(sorted)] = DeduplicateRoutes(s)
    BY <1>4, <2>1, DeduplicationUnfolds
  <2> QED BY <1>4, <2>2
<1>6. ASSUME NEW m \in 0..n PROVE KeptWell(kept[m], sorted, m, S)
  <2> DEFINE bad == {k \in 0..n : ~KeptWell(kept[k], sorted, k, S)}
  <2> SUFFICES ASSUME bad # {} PROVE FALSE
    OBVIOUS
  <2>1. bad \subseteq Nat
    BY <1>1
  <2> HIDE DEF bad, sorted
  <2>2. PICK k \in bad : \A other \in bad : k <= other
    BY <2>1, LeastNatural
  <2>3. k \in 0..n /\ ~KeptWell(kept[k], sorted, k, S)
    BY <2>2 DEF bad
  <2>4. k # 0
    <3> SUFFICES KeptWell(<<>>, sorted, 0, S)
      BY <1>5, <2>3
    <3>1. DOMAIN <<>> = {} /\ 1..0 = {} /\ <<>> \in Seq(S)
      OBVIOUS
    <3> QED BY <3>1 DEF KeptWell, DistinctIds
  <2>5. k \in 1..n /\ k - 1 \in 0..n /\ ~(k <= k - 1)
    BY <1>1, <2>3, <2>4
  <2>6. KeptWell(kept[k - 1], sorted, k - 1, S)
    BY <2>2, <2>5 DEF bad
  <2>7. /\ \A i \in 1..n : Priority(sorted[i].source) \in Int
        /\ \A i, j \in 1..n : i < j => Priority(sorted[i].source) <= Priority(sorted[j].source)
    BY <1>1, <1>2, <1>3 DEF HasKey
  <2>8. kept[k] = IF \E other \in ToSet(kept[k - 1]) : Duplicates(sorted[k], other)
                                THEN kept[k - 1] ELSE Append(kept[k - 1], sorted[k])
    BY <1>5, <2>5
  <2>9. KeptWell(kept[k], sorted, k, S)
    BY <1>1, <1>3, <2>5, <2>6, <2>7, <2>8, KeepsWell
  <2> QED BY <2>3, <2>9
<1>7. KeptWell(DeduplicateRoutes(s), sorted, n, S)
  <2>1. n \in 0..n
    BY <1>1
  <2> QED BY <1>5, <1>6, <2>1
<1> HIDE DEF sorted
<1>8. ASSUME DistinctIds(s) PROVE DistinctIds(sorted)
  <2> SUFFICES ASSUME NEW i \in 1..n, NEW j \in 1..n, IdOf(sorted[i]) = IdOf(sorted[j])
               PROVE  i = j
    BY <1>4 DEF DistinctIds
  <2>1. p[i] \in DOMAIN s /\ p[j] \in DOMAIN s
    BY <1>1, <1>3
  <2>2. p[i] = p[j]
    BY <1>3, <1>8, <2>1 DEF DistinctIds
  <2> QED BY <1>2, <2>2
<1>9. ASSUME AllDiffer(s) PROVE AllDiffer(sorted)
  <2> SUFFICES ASSUME NEW i \in 1..n, NEW j \in 1..n, i # j
               PROVE  ~Duplicates(sorted[i], sorted[j])
    BY <1>4 DEF AllDiffer
  <2>1. p[i] \in DOMAIN s /\ p[j] \in DOMAIN s /\ p[i] # p[j]
    BY <1>1, <1>2, <1>3
  <2> QED BY <1>3, <1>9, <2>1 DEF AllDiffer
<1> DEFINE result == DeduplicateRoutes(s)
<1> HIDE DEF result
<1>10. KeptWell(result, sorted, n, S)
  BY <1>7 DEF result
<1>11. \A a \in DOMAIN result : \E i \in DOMAIN s : result[a] = s[i]
  <2> SUFFICES ASSUME NEW a \in DOMAIN result PROVE \E i \in DOMAIN s : result[a] = s[i]
    OBVIOUS
  <2>1. PICK i \in 1..n : result[a] = sorted[i]
    BY <1>10 DEF KeptWell
  <2> QED BY <1>1, <1>3, <2>1
<1>12. ASSUME NEW i \in DOMAIN s
       PROVE  \E a \in DOMAIN result :
                     /\ result[a] = s[i] \/ Duplicates(s[i], result[a])
                     /\ Priority(result[a].source) <= Priority(s[i].source)
  <2>1. PICK j \in 1..n : p[j] = i
    BY <1>1, <1>2
  <2>2. sorted[j] = s[i]
    BY <1>3, <2>1
  <2> QED BY <1>10, <2>2 DEF KeptWell
<1>13. ASSUME AllDiffer(s), NEW i \in DOMAIN s
       PROVE  \E a \in DOMAIN result : result[a] = s[i]
  <2>1. PICK j \in 1..n : p[j] = i
    BY <1>1, <1>2
  <2>2. sorted[j] = s[i]
    BY <1>3, <2>1
  <2>3. AllDiffer(sorted)
    BY <1>9, <1>13
  <2>4. \E a \in DOMAIN result : result[a] = sorted[j]
    BY <1>10, <2>3 DEF KeptWell
  <2> QED BY <2>2, <2>4
<1>14. /\ result \in Seq(S)
       /\ \A a, b \in DOMAIN result : a < b => ~Duplicates(result[b], result[a])
       /\ DistinctIds(s) => DistinctIds(result)
  BY <1>8, <1>10 DEF KeptWell
<1>15. Summarizes(result, s, S)
  BY <1>11, <1>12, <1>13, <1>14 DEF Summarizes
<1> QED BY <1>15 DEF result

\* What is kept after n routes, as repeated ids are dropped.
LEMMA DroppingUnfolds ==
    ASSUME NEW S, NEW routes \in Seq(S)
    PROVE  \E kept \in [0..Len(routes) -> Seq(S)] :
              /\ kept[0] = <<>>
              /\ \A n \in 1..Len(routes) :
                    kept[n] = IF \E other \in ToSet(kept[n - 1]) : IdOf(other) = IdOf(routes[n])
                                THEN kept[n - 1] ELSE Append(kept[n - 1], routes[n])
              /\ kept[Len(routes)] = DropRepeatedIds(routes)
<1> DEFINE N == Len(routes)
           V == Seq(S)
           Grown(k, i) == IF \E other \in ToSet(k) : IdOf(other) = IdOf(routes[i])
                            THEN k ELSE Append(k, routes[i])
           move == [x \in V \X (1..N) |-> Grown(x[1], x[2])]
           Iter(g) == [T \in SUBSET (1..N) |->
                          IF T = {} THEN <<>> ELSE Grown(g[T \ {Max(T)}], Max(T))]
           f == CHOOSE g : g = Iter(g)
           kept == [n \in 0..N |-> f[1..n]]
<1>1. N \in Nat /\ DOMAIN routes = 1..N /\ <<>> \in V /\ \A i \in 1..N : routes[i] \in S
  OBVIOUS
<1>2. move \in [V \X (1..N) -> V]
  <2> SUFFICES ASSUME NEW x \in V \X (1..N) PROVE Grown(x[1], x[2]) \in V
    OBVIOUS
  <2>1. x[1] \in Seq(S) /\ routes[x[2]] \in S
    BY <1>1
  <2> QED BY <2>1
<1>3. PICK g \in [SUBSET (1..N) -> V] : Folds(g, N, <<>>, move)
  <2> HIDE DEF N, V, move
  <2>1. N \in Nat /\ <<>> \in V
    BY <1>1
  <2> QED BY <1>2, <2>1, FoldsAreDefined
<1>4. g = Iter(g)
  <2>1. ASSUME NEW T \in SUBSET (1..N) PROVE g[T] = Iter(g)[T]
    <3>1. CASE T = {}
      BY <1>3, <3>1 DEF Folds
    <3>2. CASE T # {}
      <4>1. Max(T) \in 1..N
        <5> HIDE DEF N
        <5> QED BY <1>1, <3>2, LargestOfSome
      <4>2. g[T \ {Max(T)}] \in V
        OBVIOUS
      <4>3. <<g[T \ {Max(T)}], Max(T)>> \in V \X (1..N)
        BY <4>1, <4>2
      <4>4. move[<<g[T \ {Max(T)}], Max(T)>>] = Grown(g[T \ {Max(T)}], Max(T))
        <5> HIDE DEF Grown, V, N
        <5> QED BY <4>3
      <4> HIDE DEF move, Grown, V, N
      <4>5. g[T] = move[<<g[T \ {Max(T)}], Max(T)>>]
        BY <1>3, <3>2 DEF Folds
      <4> QED BY <3>2, <4>4, <4>5
    <3> QED BY <3>1, <3>2
  <2>2. Iter(g) = [T \in SUBSET (1..N) |-> Iter(g)[T]]
    OBVIOUS
  <2>3. g = [T \in SUBSET (1..N) |-> g[T]]
    OBVIOUS
  <2> HIDE DEF Iter
  <2> QED BY <2>1, <2>2, <2>3
<1>5. f = Iter(f)
  <2> HIDE DEF Iter
  <2> QED BY <1>4
<1> HIDE DEF f
<1>6. f[{}] = <<>>
  BY <1>5
<1>7. ASSUME NEW n \in 1..N PROVE f[1..n] = Grown(f[1..(n - 1)], n)
  <2>1. Max(1..n) = n /\ (1..n) \ {n} = 1..(n - 1) /\ 1..n # {}
    <3> HIDE DEF N
    <3>1. n \in Nat \ {0}
      BY <1>1
    <3> QED BY <3>1, LargestOfPrefix
  <2>2. 1..n \in SUBSET (1..N)
    BY <1>1
  <2>3. Iter(f)[1..n] = Grown(f[1..(n - 1)], n)
    <3> HIDE DEF Grown, N
    <3> QED BY <2>1, <2>2
  <2> QED BY <1>5, <2>3
<1>8. ASSUME NEW n \in 0..N PROVE f[1..n] \in V
  <2> DEFINE odd == {m \in 0..N : f[1..m] \notin V}
  <2> SUFFICES ASSUME odd # {} PROVE FALSE
    OBVIOUS
  <2>1. odd \subseteq Nat
    BY <1>1
  <2> HIDE DEF odd
  <2>2. PICK m \in odd : \A other \in odd : m <= other
    BY <2>1, LeastNatural
  <2>3. m \in 0..N /\ f[1..m] \notin V
    BY <2>2 DEF odd
  <2>4. m # 0
    <3>1. 1..0 = {}
      OBVIOUS
    <3> QED BY <1>1, <1>6, <2>3, <3>1
  <2>5. m \in 1..N /\ m - 1 \in 0..N /\ ~(m <= m - 1)
    BY <1>1, <2>3, <2>4
  <2>6. f[1..(m - 1)] \in V
    BY <2>2, <2>5 DEF odd
  <2>7. Grown(f[1..(m - 1)], m) \in V
    BY <1>1, <2>5, <2>6
  <2> QED BY <1>7, <2>3, <2>5, <2>7
<1>9. DropRepeatedIds(routes) = f[1..N]
  BY <1>1 DEF DropRepeatedIds, FoldLeft, MapThenFoldSet, f
<1>10. kept \in [0..N -> V]
  BY <1>8
<1>11. kept[0] = <<>> /\ kept[N] = f[1..N]
  <2>1. 1..0 = {}
    OBVIOUS
  <2> QED BY <1>1, <1>6, <2>1
<1>12. \A n \in 1..N : kept[n] = Grown(kept[n - 1], n)
  <2> SUFFICES ASSUME NEW n \in 1..N PROVE kept[n] = Grown(kept[n - 1], n)
    OBVIOUS
  <2>1. n \in 0..N /\ n - 1 \in 0..N
    BY <1>1
  <2>2. kept[n] = f[1..n] /\ kept[n - 1] = f[1..(n - 1)]
    BY <2>1
  <2> HIDE DEF kept, Grown
  <2> QED BY <1>7, <2>2
<1> HIDE DEF kept
<1> QED BY <1>9, <1>10, <1>11, <1>12

\* A list without repeated ids stays as it is.
LEMMA NothingToDrop ==
    ASSUME NEW S, NEW routes \in Seq(S), DistinctIds(routes)
    PROVE  DropRepeatedIds(routes) = routes
<1> DEFINE N == Len(routes)
<1>1. N \in Nat /\ DOMAIN routes = 1..N /\ \A i \in 1..N : routes[i] \in S
  OBVIOUS
<1>2. PICK kept \in [0..N -> Seq(S)] :
              /\ kept[0] = <<>>
              /\ \A n \in 1..N :
                    kept[n] = IF \E other \in ToSet(kept[n - 1]) : IdOf(other) = IdOf(routes[n])
                                THEN kept[n - 1] ELSE Append(kept[n - 1], routes[n])
              /\ kept[N] = DropRepeatedIds(routes)
  BY DroppingUnfolds
<1> HIDE DEF N
<1> DEFINE Prefix(k, n) == k \in Seq(S) /\ Len(k) = n /\ \A i \in 1..n : k[i] = routes[i]
           bad == {n \in 0..N : ~Prefix(kept[n], n)}
<1>3. bad = {}
  <2> SUFFICES ASSUME bad # {} PROVE FALSE
    OBVIOUS
  <2>1. bad \subseteq Nat
    BY <1>1
  <2> HIDE DEF bad
  <2>2. PICK n \in bad : \A other \in bad : n <= other
    BY <2>1, LeastNatural
  <2>3. n \in 0..N /\ ~Prefix(kept[n], n)
    BY <2>2 DEF bad
  <2>4. n # 0
    <3>1. Prefix(<<>>, 0)
      OBVIOUS
    <3> HIDE DEF Prefix
    <3> QED BY <1>2, <2>3, <3>1
  <2>5. n \in 1..N /\ n - 1 \in 0..N /\ ~(n <= n - 1) /\ n - 1 \in Nat
    BY <1>1, <2>3, <2>4
  <2> DEFINE before == kept[n - 1]
  <2>6. Prefix(before, n - 1)
    <3> HIDE DEF Prefix
    <3> QED BY <2>2, <2>5 DEF bad
  <2> HIDE DEF before
  <2>7. ~\E other \in ToSet(before) : IdOf(other) = IdOf(routes[n])
    <3> SUFFICES ASSUME NEW other \in ToSet(before), IdOf(other) = IdOf(routes[n]) PROVE FALSE
      OBVIOUS
    <3>1. PICK i \in DOMAIN before : other = before[i]
      BY DEF ToSet
    <3>2. i \in 1..(n - 1) /\ other = routes[i]
      BY <2>5, <2>6, <3>1
    <3>3. i \in 1..N /\ i # n
      BY <1>1, <2>5, <3>2
    <3> QED BY <1>1, <2>5, <3>2, <3>3 DEF DistinctIds
  <2>8. kept[n] = Append(before, routes[n])
    BY <1>2, <2>5, <2>7 DEF before
  <2>9. Prefix(Append(before, routes[n]), n)
    <3>1. routes[n] \in S /\ before \in Seq(S) /\ Len(before) = n - 1
      BY <1>1, <2>5, <2>6
    <3>2. Append(before, routes[n]) \in Seq(S) /\ Len(Append(before, routes[n])) = n
      BY <2>5, <3>1
    <3>3. \A i \in 1..n : Append(before, routes[n])[i] = routes[i]
      BY <2>5, <2>6, <3>1
    <3> QED BY <3>2, <3>3
  <2> HIDE DEF Prefix
  <2> QED BY <2>3, <2>8, <2>9
<1>4. Prefix(kept[N], N)
  <2>1. N \in 0..N
    BY <1>1
  <2> HIDE DEF Prefix
  <2> QED BY <1>3, <2>1
<1> DEFINE all == kept[N]
<1> HIDE DEF all
<1>5. all \in Seq(S) /\ Len(all) = N /\ \A i \in 1..N : all[i] = routes[i]
  BY <1>4 DEF all
<1>6. all = routes
  <2>1. all = [i \in 1..N |-> all[i]] /\ routes = [i \in 1..N |-> routes[i]]
    BY <1>1, <1>5 DEF N
  <2> QED BY <1>5, <2>1
<1> QED BY <1>2, <1>6 DEF all

-----------------------------------------------------------------------------
(***************************************************************************)
(* The collection of a mode, and those of a leg joined.                    *)
(***************************************************************************)
\* What the routes of a mode are: those of its providers, or public ones that
\* were drawn along a line.
RouteFields == {"source", "number", "mode", "duration", "distance", "cost", "line", "ends"}
SourcesOf(mode) == ProvidersOf(mode) \cup {s \in {Supplemented} : mode = "TRANSIT"}
IsRoute(mode, r) ==
    /\ DOMAIN r = RouteFields
    /\ r.source \in SourcesOf(mode) /\ r.mode = mode /\ r.number \in Nat
    /\ r.source = "KAKAO_TRANSIT" => r.number <= MostRoutes
    /\ r.duration \in Nat /\ r.distance \in Nat /\ r.line \in Int /\ r.ends \in Nat

\* Routes of a mode, each with an id of its own.
RouteList(mode, routes) ==
    /\ routes \in Seq(ToSet(routes)) /\ DistinctIds(routes)
    /\ \A i \in DOMAIN routes : IsRoute(mode, routes[i])

\* Every source has a place in the registry.
LEMMA PrioritiesAreNumbers ==
    ASSUME NEW source \in {"SEOUL_TRANSIT", "KAKAO_TRANSIT", "KAKAO_CAR", "KAKAO_WALK", Supplemented}
    PROVE  Priority(source) \in Int
<1> DEFINE original == IF source = Supplemented THEN "SEOUL_TRANSIT" ELSE source
<1>1. original \in {"SEOUL_TRANSIT", "KAKAO_TRANSIT", "KAKAO_CAR", "KAKAO_WALK"}
  OBVIOUS
<1>2. Priority(source) = CHOOSE i \in 1..Len(Registry) : Registry[i] = original
  BY DEF Priority
<1> HIDE DEF original
<1>3. \E i \in 1..Len(Registry) : Registry[i] = original
  <2>1. Len(Registry) = 4 /\ 1 \in 1..4 /\ 2 \in 1..4 /\ 3 \in 1..4 /\ 4 \in 1..4
    BY DEF Registry
  <2> QED BY <1>1, <2>1 DEF Registry
<1>4. Priority(source) \in 1..Len(Registry)
  BY <1>2, <1>3
<1>5. 1..Len(Registry) \subseteq Int
  BY DEF Registry
<1> QED BY <1>4, <1>5

LEMMA RoutesHaveKeys ==
    ASSUME NEW mode \in Mode, NEW r, IsRoute(mode, r)
    PROVE  HasKey(r)
<1>1. r.source \in {"SEOUL_TRANSIT", "KAKAO_TRANSIT", "KAKAO_CAR", "KAKAO_WALK", Supplemented}
  BY DEF IsRoute, SourcesOf, ProvidersOf, Mode
<1>2. Priority(r.source) \in Int
  BY <1>1, PrioritiesAreNumbers
<1> QED BY <1>2 DEF HasKey, IsRoute

LEMMA DuplicatesAreMutual ==
    ASSUME NEW mode, NEW a, NEW b, IsRoute(mode, a), IsRoute(mode, b), Duplicates(a, b)
    PROVE  Duplicates(b, a)
<1>1. \A x, y \in Int : Distance(x, y) = Distance(y, x) /\ Larger(x, y) = Larger(y, x)
  BY DEF Distance, Larger
<1>2. /\ Distance(a.duration, b.duration) = Distance(b.duration, a.duration)
      /\ Larger(a.duration, b.duration) = Larger(b.duration, a.duration)
      /\ Distance(a.distance, b.distance) = Distance(b.distance, a.distance)
      /\ Larger(a.distance, b.distance) = Larger(b.distance, a.distance)
      /\ Distance(a.ends, b.ends) = Distance(b.ends, a.ends)
      /\ Distance(a.line, b.line) = Distance(b.line, a.line)
  BY <1>1 DEF IsRoute
<1> QED BY <1>2 DEF Duplicates, Close, EndsMeet, LinesOverlap

\* What the collection of a mode is to the routes it was built from.
Covers(kept, raw) ==
    \A i \in DOMAIN raw : \E a \in DOMAIN kept :
        /\ kept[a] = raw[i] \/ Duplicates(raw[i], kept[a])
        /\ Priority(kept[a].source) <= Priority(raw[i].source)

LEMMA ElementsOfSequence ==
    ASSUME NEW S, NEW s \in Seq(S)
    PROVE  s \in Seq(ToSet(s)) /\ Len(s) \in Nat /\ DOMAIN s = 1..Len(s)
<1>1. \A i \in 1..Len(s) : s[i] \in ToSet(s)
  BY DEF ToSet
<1>2. s = [i \in 1..Len(s) |-> s[i]] /\ Len(s) \in Nat
  OBVIOUS
<1> QED BY <1>1, <1>2

\* The collection of a mode has ids of their own, no near-duplicates, and something
\* for every route it was built from.
LEMMA CollectionsKeepEnough ==
    ASSUME NEW mode \in Mode, NEW raw, RouteList(mode, raw)
    PROVE  LET kept == BuildCollection(raw).routes
           IN  /\ RouteList(mode, kept) /\ AllDiffer(kept) /\ Covers(kept, raw)
               /\ raw # <<>> => kept # <<>>
<1> DEFINE S == ToSet(raw)
           kept == DeduplicateRoutes(raw)
<1>1. raw \in Seq(S) /\ DistinctIds(raw) /\ \A i \in DOMAIN raw : IsRoute(mode, raw[i])
  BY DEF RouteList
<1>2. BuildCollection(raw).routes = kept
  <2>1. DropRepeatedIds(raw) = raw
    <3> HIDE DEF S
    <3> QED BY <1>1, NothingToDrop
  <2> QED BY <2>1 DEF BuildCollection, CollectionOf
<1>3. Summarizes(kept, raw, S)
  <2>1. \A i \in DOMAIN raw : HasKey(raw[i])
    BY <1>1, RoutesHaveKeys
  <2> HIDE DEF S
  <2> QED BY <1>1, <2>1, NothingIsLost
<1> HIDE DEF S, kept
<1>4. kept \in Seq(ToSet(kept)) /\ DOMAIN kept = 1..Len(kept) /\ Len(kept) \in Nat
  <2>1. kept \in Seq(S)
    BY <1>3 DEF Summarizes
  <2> QED BY <2>1, ElementsOfSequence
<1>5. \A a \in DOMAIN kept : IsRoute(mode, kept[a])
  <2> SUFFICES ASSUME NEW a \in DOMAIN kept PROVE IsRoute(mode, kept[a])
    OBVIOUS
  <2>1. PICK i \in DOMAIN raw : kept[a] = raw[i]
    BY <1>3 DEF Summarizes
  <2> QED BY <1>1, <2>1
<1>6. RouteList(mode, kept)
  BY <1>1, <1>3, <1>4, <1>5 DEF RouteList, Summarizes
<1>7. AllDiffer(kept)
  <2> SUFFICES ASSUME NEW a \in DOMAIN kept, NEW b \in DOMAIN kept, a # b,
                      Duplicates(kept[a], kept[b])
               PROVE  FALSE
    BY DEF AllDiffer
  <2>1. a < b \/ b < a
    BY <1>4
  <2>2. IsRoute(mode, kept[a]) /\ IsRoute(mode, kept[b])
    BY <1>5
  <2>3. Duplicates(kept[b], kept[a])
    BY <2>2, DuplicatesAreMutual
  <2> QED BY <1>3, <2>1, <2>3 DEF Summarizes
<1>8. Covers(kept, raw)
  BY <1>3 DEF Summarizes, Covers
<1>9. ASSUME raw # <<>> PROVE kept # <<>>
  <2>1. 1 \in DOMAIN raw
    BY <1>1, <1>9
  <2>2. \E a \in DOMAIN kept : TRUE
    BY <1>8, <2>1 DEF Covers
  <2> QED BY <2>2
<1> QED BY <1>2, <1>6, <1>7, <1>8, <1>9

\* Lists of different modes have neither ids nor near-duplicates in common.
Apart(one, other) ==
    \A a \in DOMAIN one, b \in DOMAIN other :
        /\ IdOf(one[a]) # IdOf(other[b])
        /\ ~Duplicates(one[a], other[b]) /\ ~Duplicates(other[b], one[a])

\* A list that sorting, thinning out and dropping repeated ids keep whole.
Listing(routes) ==
    /\ routes \in Seq(ToSet(routes)) /\ DistinctIds(routes) /\ AllDiffer(routes)
    /\ \A i \in DOMAIN routes : HasKey(routes[i])

LEMMA ModesAreApart ==
    ASSUME NEW m \in Mode, NEW n \in Mode, m # n, NEW one, NEW other,
           RouteList(m, one), RouteList(n, other)
    PROVE  Apart(one, other)
<1> SUFFICES ASSUME NEW a \in DOMAIN one, NEW b \in DOMAIN other
             PROVE  /\ IdOf(one[a]) # IdOf(other[b])
                    /\ ~Duplicates(one[a], other[b]) /\ ~Duplicates(other[b], one[a])
  BY DEF Apart
<1> DEFINE x == one[a]
           y == other[b]
<1>1. IsRoute(m, x) /\ IsRoute(n, y)
  BY DEF RouteList
<1> HIDE DEF x, y
<1>2. x.mode = m /\ y.mode = n /\ x.source \in SourcesOf(m) /\ y.source \in SourcesOf(n)
  BY <1>1 DEF IsRoute
<1>3. x.source # y.source
  BY <1>2 DEF SourcesOf, ProvidersOf, Mode, Supplemented
<1>4. IdOf(x) # IdOf(y)
  <2>1. IdOf(x)[1] = x.source /\ IdOf(y)[1] = y.source
    BY DEF IdOf
  <2> QED BY <1>3, <2>1
<1>5. ~Duplicates(x, y) /\ ~Duplicates(y, x)
  BY <1>2 DEF Duplicates
<1> QED BY <1>4, <1>5 DEF x, y

LEMMA ApartIsJoined ==
    ASSUME NEW one, NEW other, Listing(one), Listing(other), Apart(one, other)
    PROVE  /\ Listing(one \o other)
           /\ \A a \in DOMAIN one : a \in DOMAIN (one \o other) /\ (one \o other)[a] = one[a]
           /\ \A b \in DOMAIN other : /\ Len(one) + b \in DOMAIN (one \o other)
                                      /\ (one \o other)[Len(one) + b] = other[b]
           /\ \A c \in DOMAIN (one \o other) :
                 \/ \E a \in DOMAIN one : c = a
                 \/ \E b \in DOMAIN other : c = Len(one) + b
<1> DEFINE all == one \o other
           S == ToSet(one) \cup ToSet(other)
<1>1. /\ one \in Seq(ToSet(one)) /\ other \in Seq(ToSet(other))
      /\ Len(one) \in Nat /\ Len(other) \in Nat
      /\ DOMAIN one = 1..Len(one) /\ DOMAIN other = 1..Len(other)
  BY DEF Listing
<1>2. one \in Seq(S) /\ other \in Seq(S)
  BY <1>1
<1>3. /\ all \in Seq(S) /\ Len(all) = Len(one) + Len(other)
      /\ \A c \in 1..(Len(one) + Len(other)) :
            all[c] = IF c <= Len(one) THEN one[c] ELSE other[c - Len(one)]
  <2> HIDE DEF S
  <2> QED BY <1>2, ConcatProperties
<1>4. DOMAIN all = 1..(Len(one) + Len(other))
  BY <1>3
<1> HIDE DEF all
<1>5. \A a \in DOMAIN one : a \in DOMAIN all /\ all[a] = one[a]
  BY <1>1, <1>3, <1>4
<1>6. ASSUME NEW b \in DOMAIN other
      PROVE  Len(one) + b \in DOMAIN all /\ all[Len(one) + b] = other[b]
  <2>1. b \in 1..Len(other) /\ Len(one) + b \in 1..(Len(one) + Len(other))
        /\ ~(Len(one) + b <= Len(one)) /\ (Len(one) + b) - Len(one) = b
    BY <1>1
  <2> QED BY <1>3, <1>4, <2>1
<1>7. ASSUME NEW c \in DOMAIN all
      PROVE  (\E a \in DOMAIN one : c = a) \/ (\E b \in DOMAIN other : c = Len(one) + b)
  <2>1. CASE c <= Len(one)
    <3>1. c \in DOMAIN one
      BY <1>1, <1>4, <2>1
    <3> QED BY <3>1
  <2>2. CASE ~(c <= Len(one))
    <3>1. c - Len(one) \in DOMAIN other /\ c = Len(one) + (c - Len(one))
      BY <1>1, <1>4, <2>2
    <3> QED BY <3>1
  <2> QED BY <2>1, <2>2
<1>8. ASSUME NEW c \in DOMAIN all, NEW d \in DOMAIN all
      PROVE  /\ IdOf(all[c]) = IdOf(all[d]) => c = d
             /\ c # d => ~Duplicates(all[c], all[d])
  <2>1. CASE c \in DOMAIN one /\ d \in DOMAIN one
    BY <1>5, <2>1 DEF Listing, DistinctIds, AllDiffer
  <2>2. ASSUME NEW a \in DOMAIN one, c = a, NEW b \in DOMAIN other, d = Len(one) + b
        PROVE  IdOf(all[c]) # IdOf(all[d]) /\ ~Duplicates(all[c], all[d])
    BY <1>5, <1>6, <2>2 DEF Apart
  <2>3. ASSUME NEW a \in DOMAIN one, d = a, NEW b \in DOMAIN other, c = Len(one) + b
        PROVE  IdOf(all[c]) # IdOf(all[d]) /\ ~Duplicates(all[c], all[d])
    BY <1>5, <1>6, <2>3 DEF Apart
  <2>4. ASSUME NEW a \in DOMAIN other, c = Len(one) + a, NEW b \in DOMAIN other, d = Len(one) + b
        PROVE  /\ IdOf(all[c]) = IdOf(all[d]) => c = d
               /\ c # d => ~Duplicates(all[c], all[d])
    BY <1>6, <2>4 DEF Listing, DistinctIds, AllDiffer
  <2> QED BY <1>7, <2>1, <2>2, <2>3, <2>4
<1>9. DistinctIds(all) /\ AllDiffer(all)
  BY <1>8 DEF DistinctIds, AllDiffer
<1>10. \A c \in DOMAIN all : HasKey(all[c])
  BY <1>5, <1>6, <1>7 DEF Listing
<1>11. all \in Seq(ToSet(all))
  <2> HIDE DEF S
  <2> QED BY <1>3, ElementsOfSequence
<1>12. Listing(all)
  BY <1>9, <1>10, <1>11 DEF Listing
<1> QED BY <1>5, <1>6, <1>7, <1>12 DEF all

\* Joining the collections of the modes leaves nothing out.
LEMMA JoiningLosesNothing ==
    ASSUME NEW c, \A m \in Mode : RouteList(m, c[m].routes) /\ AllDiffer(c[m].routes)
    PROVE  \A m \in Mode : \A i \in DOMAIN c[m].routes :
              \E a \in DOMAIN CombineCollections(c).routes :
                 CombineCollections(c).routes[a] = c[m].routes[i]
<1> DEFINE x == c["TRANSIT"].routes
           y == c["CAR"].routes
           z == c["WALK"].routes
           all == (x \o y) \o z
           result == CombineCollections(c).routes
<1>1. /\ RouteList("TRANSIT", x) /\ AllDiffer(x) /\ RouteList("CAR", y) /\ AllDiffer(y)
      /\ RouteList("WALK", z) /\ AllDiffer(z)
  BY DEF Mode
<1>2. "TRANSIT" \in Mode /\ "CAR" \in Mode /\ "WALK" \in Mode
  BY DEF Mode
<1>11. result = BuildCollection(all).routes
  BY DEF CombineCollections
<1> HIDE DEF x, y, z
<1>3. ASSUME NEW m \in Mode, NEW s, RouteList(m, s), AllDiffer(s) PROVE Listing(s)
  BY <1>3, RoutesHaveKeys DEF RouteList, Listing
<1>4. Listing(x) /\ Listing(y) /\ Listing(z)
  BY <1>1, <1>2, <1>3
<1>5. Apart(x, y) /\ Apart(x, z) /\ Apart(y, z)
  BY <1>1, <1>2, ModesAreApart
<1>6. /\ Listing(x \o y)
      /\ \A a \in DOMAIN x : a \in DOMAIN (x \o y) /\ (x \o y)[a] = x[a]
      /\ \A b \in DOMAIN y : Len(x) + b \in DOMAIN (x \o y) /\ (x \o y)[Len(x) + b] = y[b]
      /\ \A e \in DOMAIN (x \o y) : \/ \E a \in DOMAIN x : e = a
                                    \/ \E b \in DOMAIN y : e = Len(x) + b
  BY <1>4, <1>5, ApartIsJoined
<1> DEFINE xy == x \o y
<1>12. all = xy \o z
  OBVIOUS
<1> HIDE DEF xy
<1>7. Apart(xy, z)
  <2> SUFFICES ASSUME NEW e \in DOMAIN xy, NEW f \in DOMAIN z
               PROVE  /\ IdOf(xy[e]) # IdOf(z[f])
                      /\ ~Duplicates(xy[e], z[f]) /\ ~Duplicates(z[f], xy[e])
    BY DEF Apart
  <2>1. (\E a \in DOMAIN x : xy[e] = x[a]) \/ (\E b \in DOMAIN y : xy[e] = y[b])
    BY <1>6 DEF xy
  <2> QED BY <1>5, <2>1 DEF Apart
<1>8. /\ Listing(xy \o z)
      /\ \A a \in DOMAIN xy : a \in DOMAIN (xy \o z) /\ (xy \o z)[a] = xy[a]
      /\ \A b \in DOMAIN z : Len(xy) + b \in DOMAIN (xy \o z) /\ (xy \o z)[Len(xy) + b] = z[b]
  <2>1. Listing(xy)
    BY <1>6 DEF xy
  <2> QED BY <1>4, <1>7, <2>1, ApartIsJoined
<1>9. ASSUME NEW m \in Mode, NEW i \in DOMAIN c[m].routes
      PROVE  \E e \in DOMAIN all : all[e] = c[m].routes[i]
  <2>1. CASE m = "TRANSIT"
    <3>1. i \in DOMAIN x /\ c[m].routes[i] = x[i]
      BY <2>1 DEF x
    <3>2. i \in DOMAIN xy /\ xy[i] = x[i]
      BY <1>6, <3>1 DEF xy
    <3> QED BY <1>8, <1>12, <3>1, <3>2
  <2>2. CASE m = "CAR"
    <3>1. i \in DOMAIN y /\ c[m].routes[i] = y[i]
      BY <2>2 DEF y
    <3>2. Len(x) + i \in DOMAIN xy /\ xy[Len(x) + i] = y[i]
      BY <1>6, <3>1 DEF xy
    <3> QED BY <1>8, <1>12, <3>1, <3>2
  <2>3. CASE m = "WALK"
    <3>1. i \in DOMAIN z /\ c[m].routes[i] = z[i]
      BY <2>3 DEF z
    <3> QED BY <1>8, <1>12, <3>1
  <2> QED BY <2>1, <2>2, <2>3 DEF Mode
<1> HIDE DEF all
<1>10. Listing(all)
  BY <1>8, <1>12
<1>13. DropRepeatedIds(all) = all
  BY <1>10, NothingToDrop DEF Listing
<1>14. result = DeduplicateRoutes(all)
  BY <1>11, <1>13 DEF BuildCollection, CollectionOf
<1>15. Summarizes(DeduplicateRoutes(all), all, ToSet(all))
  <2> DEFINE S == ToSet(all)
  <2>1. all \in Seq(S) /\ \A i \in DOMAIN all : HasKey(all[i])
    BY <1>10 DEF Listing
  <2> HIDE DEF S
  <2>2. Summarizes(DeduplicateRoutes(all), all, S)
    BY <2>1, NothingIsLost
  <2> QED BY <2>2 DEF S
<1>16. \A e \in DOMAIN all : \E a \in DOMAIN result : result[a] = all[e]
  <2> HIDE DEF result
  <2>1. Summarizes(result, all, ToSet(all)) /\ AllDiffer(all)
    BY <1>10, <1>14, <1>15 DEF Listing
  <2> QED BY <2>1 DEF Summarizes
<1> HIDE DEF result
<1>17. ASSUME NEW m \in Mode, NEW i \in DOMAIN c[m].routes
       PROVE  \E a \in DOMAIN result : result[a] = c[m].routes[i]
  <2>1. PICK e \in DOMAIN all : all[e] = c[m].routes[i]
    BY <1>9
  <2> QED BY <1>16, <2>1
<1> QED BY <1>17 DEF result

-----------------------------------------------------------------------------
(***************************************************************************)
(* What providers make of documents: routes of their mode with ids of their *)
(* own, and the public routes drawn along those of Kakao likewise.         *)
(***************************************************************************)
\* The routes of one provider.
Listed(provider, mode, routes) ==
    RouteList(mode, routes) /\ \A i \in DOMAIN routes : routes[i].source = provider

LEMMA NothingListed ==
    ASSUME NEW provider, NEW mode
    PROVE  Listed(provider, mode, <<>>) /\ RouteList(mode, <<>>)
<1>1. <<>> \in Seq(ToSet(<<>>)) /\ DOMAIN <<>> = {}
  BY EmptySeq
<1> QED BY <1>1 DEF Listed, RouteList, DistinctIds

\* Of one source, routes with different numbers have different ids.
LEMMA NumbersTell ==
    ASSUME NEW mode, NEW provider, NEW S, NEW routes \in Seq(S),
           \A i \in DOMAIN routes : IsRoute(mode, routes[i]) /\ routes[i].source = provider,
           \A i, j \in DOMAIN routes : routes[i].number = routes[j].number => i = j
    PROVE  Listed(provider, mode, routes)
<1>1. routes \in Seq(ToSet(routes))
  BY ElementsOfSequence
<1>2. \A i \in DOMAIN routes : IdOf(routes[i])[2] = routes[i].number
  BY DEF IdOf
<1>3. DistinctIds(routes)
  BY <1>2 DEF DistinctIds
<1> QED BY <1>1, <1>3 DEF Listed, RouteList

LEMMA NumbersDiffer ==
    ASSUME NEW mode, NEW provider, NEW routes, Listed(provider, mode, routes),
           NEW i \in DOMAIN routes, NEW j \in DOMAIN routes, routes[i].number = routes[j].number
    PROVE  i = j
<1>1. IdOf(routes[i]) = IdOf(routes[j])
  BY DEF Listed, IdOf
<1> QED BY <1>1 DEF Listed, RouteList, DistinctIds

\* Routes that were read in order have their places for numbers.
LEMMA InOrder ==
    ASSUME NEW mode, NEW provider, NEW n \in Nat, NEW routes,
           routes = [i \in 1..n |-> routes[i]],
           \A i \in 1..n : /\ IsRoute(mode, routes[i]) /\ routes[i].source = provider
                           /\ routes[i].number = i
    PROVE  Listed(provider, mode, routes)
<1> DEFINE S == {routes[i] : i \in 1..n}
<1>1. routes \in Seq(S) /\ DOMAIN routes = 1..n
  <2>1. \A i \in 1..n : routes[i] \in S
    OBVIOUS
  <2> HIDE DEF S
  <2>2. routes \in [1..n -> S]
    BY <2>1
  <2> QED BY <2>2
<1> HIDE DEF S
<1> QED BY <1>1, NumbersTell

\* What the checks of a route list let through.
LEMMA CheckedRoutes ==
    ASSUME NEW document, IsDocument(document), NEW routes,
           DOMAIN routes = DOMAIN document.routes
    PROVE  \/ Checked(document, routes).routes = <<>>
           \/ /\ Checked(document, routes).routes = routes
              /\ DOMAIN routes = 1..Len(document.routes) /\ Len(document.routes) \in Nat
              /\ \A i \in DOMAIN routes :
                    /\ i <= MostRoutes
                    /\ LET raw == document.routes[i]
                       IN  /\ raw.duration \in Nat /\ raw.distance \in Nat
                           /\ raw.line \in Int /\ raw.ends \in Nat
<1>1. Len(document.routes) \in Nat /\ MaxRoutes \in Nat /\ MaxRoutes <= MostRoutes
      /\ MostRoutes \in Nat
  BY MaxRoutesAssumption DEF IsDocument, MostRoutes
<1>2. CASE Len(document.routes) > MaxRoutes
  BY <1>2 DEF Checked, Failure
<1>3. CASE ~(Len(document.routes) > MaxRoutes) /\ ~WellFormed(document)
  BY <1>1, <1>3 DEF Checked, Failure
<1>4. CASE ~(Len(document.routes) > MaxRoutes) /\ WellFormed(document)
  <2>1. Checked(document, routes).routes = routes
    BY <1>4 DEF Checked, Parsed
  <2>2. DOMAIN routes = 1..Len(document.routes)
    BY DEF IsDocument
  <2>3. \A i \in DOMAIN routes : i <= MostRoutes
    BY <1>1, <1>4, <2>2
  <2> QED BY <1>1, <1>4, <2>1, <2>2, <2>3 DEF WellFormed, IsDocument
<1> QED BY <1>2, <1>3, <1>4

LEMMA RoutesMade ==
    ASSUME NEW mode, NEW provider \in ProvidersOf(mode), mode \in Mode, NEW raw, NEW number \in Nat,
           NEW cost, number <= MostRoutes, raw.duration \in Nat, raw.distance \in Nat,
           raw.line \in Int, raw.ends \in Nat
    PROVE  LET route == RouteFrom(provider, mode, raw, number, cost)
           IN  IsRoute(mode, route) /\ route.source = provider /\ route.number = number
BY DEF RouteFrom, IsRoute, RouteFields, SourcesOf

LEMMA SeoulRoutes ==
    ASSUME NEW document, IsDocument(document)
    PROVE  Listed("SEOUL_TRANSIT", "TRANSIT", ParseSeoulTransit(document).routes)
<1> DEFINE given == document.routes
           made(i) == RouteFrom("SEOUL_TRANSIT", "TRANSIT", given[i], i, UnknownCost)
           routes == [i \in DOMAIN given |-> [made(i) EXCEPT !.line = StraightLine, !.ends = 0]]
<1>1. \/ ParseSeoulTransit(document).routes = <<>>
      \/ ParseSeoulTransit(document).routes = Checked(document, routes).routes
  BY DEF ParseSeoulTransit, Failure
<1>2. CASE ParseSeoulTransit(document).routes = <<>>
  BY <1>2, NothingListed
<1>3. CASE ParseSeoulTransit(document).routes = Checked(document, routes).routes
           /\ ParseSeoulTransit(document).routes # <<>>
  <2>1. DOMAIN routes = DOMAIN given
    OBVIOUS
  <2>2. \A i \in DOMAIN given : routes[i] = [made(i) EXCEPT !.line = StraightLine, !.ends = 0]
    OBVIOUS
  <2>8. routes = [i \in DOMAIN routes |-> routes[i]]
    OBVIOUS
  <2> HIDE DEF routes, made
  <2>3. /\ Checked(document, routes).routes = routes
        /\ DOMAIN routes = 1..Len(given) /\ Len(given) \in Nat
        /\ \A i \in DOMAIN routes :
              /\ i <= MostRoutes
              /\ given[i].duration \in Nat /\ given[i].distance \in Nat
              /\ given[i].line \in Int /\ given[i].ends \in Nat
    BY <1>3, <2>1, CheckedRoutes
  <2>4. ASSUME NEW i \in DOMAIN routes
        PROVE  /\ IsRoute("TRANSIT", routes[i]) /\ routes[i].source = "SEOUL_TRANSIT"
               /\ routes[i].number = i
    <3>1. "SEOUL_TRANSIT" \in ProvidersOf("TRANSIT") /\ "TRANSIT" \in Mode /\ i \in Nat
      BY <2>3 DEF ProvidersOf, Mode
    <3>2. IsRoute("TRANSIT", made(i)) /\ made(i).source = "SEOUL_TRANSIT" /\ made(i).number = i
      BY <2>3, <3>1, RoutesMade DEF made
    <3>3. routes[i] = [made(i) EXCEPT !.line = StraightLine, !.ends = 0]
      BY <2>1, <2>2
    <3>4. StraightLine \in Int
      BY DEF StraightLine
    <3> QED BY <3>2, <3>3, <3>4 DEF IsRoute, RouteFields
  <2>5. Listed("SEOUL_TRANSIT", "TRANSIT", routes)
    <3> DEFINE n == Len(given)
    <3>1. n \in Nat /\ routes = [i \in 1..n |-> routes[i]]
      BY <2>3, <2>8
    <3>2. \A i \in 1..n : /\ IsRoute("TRANSIT", routes[i]) /\ routes[i].source = "SEOUL_TRANSIT"
                          /\ routes[i].number = i
      BY <2>3, <2>4
    <3> HIDE DEF n
    <3> QED BY <3>1, <3>2, InOrder
  <2> QED BY <1>3, <2>3, <2>5
<1> QED BY <1>1, <1>2, <1>3

LEMMA DrawnRoutes ==
    ASSUME NEW document, IsDocument(document), NEW mode \in Mode, NEW provider \in ProvidersOf(mode),
           NEW parsed,
           \/ parsed.routes = <<>>
           \/ parsed = Checked(document,
                               [i \in DOMAIN document.routes |->
                                   RouteFrom(provider, mode, document.routes[i], i,
                                             document.routes[i].price)])
    PROVE  Listed(provider, mode, parsed.routes)
<1> DEFINE given == document.routes
           routes == [i \in DOMAIN given |->
                         RouteFrom(provider, mode, given[i], i, given[i].price)]
<1>2. CASE parsed.routes = <<>>
  BY <1>2, NothingListed
<1>3. CASE parsed = Checked(document, routes) /\ parsed.routes # <<>>
  <2>1. DOMAIN routes = DOMAIN given
    OBVIOUS
  <2>2. \A i \in DOMAIN given :
           routes[i] = RouteFrom(provider, mode, given[i], i, given[i].price)
    OBVIOUS
  <2>8. routes = [i \in DOMAIN routes |-> routes[i]]
    OBVIOUS
  <2> HIDE DEF routes
  <2>3. /\ Checked(document, routes).routes = routes
        /\ DOMAIN routes = 1..Len(given) /\ Len(given) \in Nat
        /\ \A i \in DOMAIN routes :
              /\ i <= MostRoutes
              /\ given[i].duration \in Nat /\ given[i].distance \in Nat
              /\ given[i].line \in Int /\ given[i].ends \in Nat
    BY <1>3, <2>1, CheckedRoutes
  <2>4. ASSUME NEW i \in DOMAIN routes
        PROVE  /\ IsRoute(mode, routes[i]) /\ routes[i].source = provider
               /\ routes[i].number = i
    <3>1. i \in Nat
      BY <2>3
    <3> QED BY <2>1, <2>2, <2>3, <3>1, RoutesMade
  <2>5. Listed(provider, mode, routes)
    <3> DEFINE n == Len(given)
    <3>1. n \in Nat /\ routes = [i \in 1..n |-> routes[i]]
      BY <2>3, <2>8
    <3>2. \A i \in 1..n : /\ IsRoute(mode, routes[i]) /\ routes[i].source = provider
                          /\ routes[i].number = i
      BY <2>3, <2>4
    <3> HIDE DEF n
    <3> QED BY <3>1, <3>2, InOrder
  <2> QED BY <1>3, <2>3, <2>5
<1> QED BY <1>2, <1>3

LEMMA WalkingRoutes ==
    ASSUME NEW document, IsDocument(document), NEW exchange \in Nat
    PROVE  LET routes == ParseWalk(document, exchange).routes
           IN  /\ Listed("KAKAO_WALK", "WALK", routes)
               /\ \A i \in DOMAIN routes : routes[i].number = exchange
<1> DEFINE route == RouteFrom("KAKAO_WALK", "WALK", document.routes[1], exchange, 0)
           routes == ParseWalk(document, exchange).routes
<1>1. CASE routes = <<>>
  BY <1>1, NothingListed
<1>2. CASE routes # <<>>
  <2>1. /\ document.status = "OK" /\ document.routes # <<>> /\ WellFormed(document)
        /\ routes = <<route>>
    BY <1>2 DEF ParseWalk, Failure, Parsed
  <2>2. 1 \in DOMAIN document.routes
    <3>1. Len(document.routes) \in Nat /\ DOMAIN document.routes = 1..Len(document.routes)
      BY DEF IsDocument
    <3>2. CASE Len(document.routes) = 0
      BY <2>1, <3>1, <3>2
    <3> QED BY <3>1, <3>2
  <2>3. /\ document.routes[1].duration \in Nat /\ document.routes[1].distance \in Nat
        /\ document.routes[1].line \in Int /\ document.routes[1].ends \in Nat
    BY <2>1, <2>2 DEF WellFormed, IsDocument
  <2>4. IsRoute("WALK", route) /\ route.source = "KAKAO_WALK" /\ route.number = exchange
    BY <2>3 DEF RouteFrom, IsRoute, RouteFields, SourcesOf, ProvidersOf
  <2> HIDE DEF route
  <2>5. <<route>> \in Seq({route}) /\ DOMAIN <<route>> = {1} /\ <<route>>[1] = route
    OBVIOUS
  <2> DEFINE list == <<route>>
  <2> HIDE DEF list
  <2>6. /\ \A i \in DOMAIN list : /\ IsRoute("WALK", list[i]) /\ list[i].source = "KAKAO_WALK"
                                  /\ list[i].number = exchange
        /\ \A i, j \in DOMAIN list : list[i].number = list[j].number => i = j
        /\ list \in Seq({route})
    BY <2>4, <2>5 DEF list
  <2>7. Listed("KAKAO_WALK", "WALK", list)
    BY <2>6, NumbersTell
  <2> QED BY <2>1, <2>6, <2>7 DEF list
<1> QED BY <1>1, <1>2

\* A provider answers with routes of its own.
LEMMA ProvidersList ==
    ASSUME NEW mode \in Mode, NEW provider \in ProvidersOf(mode), NEW exchange \in Nat,
           NEW document, IsDocument(document)
    PROVE  Listed(provider, mode, ParsedBy(provider, exchange, document).routes)
<1>1. CASE provider = "SEOUL_TRANSIT"
  <2>1. mode = "TRANSIT" /\ ParsedBy(provider, exchange, document) = ParseSeoulTransit(document)
    BY <1>1 DEF Mode, ProvidersOf, ParsedBy
  <2> QED BY <1>1, <2>1, SeoulRoutes
<1>2. CASE provider = "KAKAO_TRANSIT"
  <2> DEFINE routes == [i \in DOMAIN document.routes |->
                           RouteFrom(provider, mode, document.routes[i], i,
                                     document.routes[i].price)]
  <2>1. mode = "TRANSIT" /\ ParsedBy(provider, exchange, document) = ParseKakaoTransit(document)
    BY <1>2 DEF Mode, ProvidersOf, ParsedBy
  <2>2. \/ ParseKakaoTransit(document).routes = <<>>
        \/ ParseKakaoTransit(document) = Checked(document, routes)
    BY <1>2, <2>1 DEF ParseKakaoTransit, Failure
  <2> QED BY <2>1, <2>2, DrawnRoutes
<1>3. CASE provider = "KAKAO_CAR"
  <2> DEFINE routes == [i \in DOMAIN document.routes |->
                           RouteFrom(provider, mode, document.routes[i], i,
                                     document.routes[i].price)]
  <2>1. mode = "CAR" /\ ParsedBy(provider, exchange, document) = ParseCar(document)
    BY <1>3 DEF Mode, ProvidersOf, ParsedBy
  <2>2. \/ ParseCar(document).routes = <<>>
        \/ ParseCar(document) = Checked(document, routes)
    BY <1>3, <2>1 DEF ParseCar, Failure
  <2> QED BY <2>1, <2>2, DrawnRoutes
<1>4. CASE provider = "KAKAO_WALK"
  <2>1. mode = "WALK" /\ ParsedBy(provider, exchange, document) = ParseWalk(document, exchange)
    BY <1>4 DEF Mode, ProvidersOf, ParsedBy
  <2> QED BY <1>4, <2>1, WalkingRoutes
<1> QED BY <1>1, <1>2, <1>3, <1>4 DEF Mode, ProvidersOf

\* The routes of the walking requests, one after the other.
LEMMA WalkGoesOn ==
    ASSUME NEW exchange \in Nat, NEW heard, NEW routes,
           Listed("KAKAO_WALK", "WALK", heard), Listed("KAKAO_WALK", "WALK", routes),
           \A i \in DOMAIN heard : heard[i].number < exchange,
           \A i \in DOMAIN routes : routes[i].number = exchange
    PROVE  /\ Listed("KAKAO_WALK", "WALK", heard \o routes)
           /\ \A i \in DOMAIN (heard \o routes) : (heard \o routes)[i].number < exchange + 1
<1> DEFINE all == heard \o routes
           S == ToSet(heard) \cup ToSet(routes)
<1>1. heard \in Seq(ToSet(heard)) /\ routes \in Seq(ToSet(routes))
  BY DEF Listed, RouteList
<1>2. /\ Len(heard) \in Nat /\ Len(routes) \in Nat
      /\ DOMAIN heard = 1..Len(heard) /\ DOMAIN routes = 1..Len(routes)
      /\ heard \in Seq(S) /\ routes \in Seq(S)
  BY <1>1
<1>3. /\ all \in Seq(S) /\ Len(all) = Len(heard) + Len(routes)
      /\ \A c \in 1..(Len(heard) + Len(routes)) :
            all[c] = IF c <= Len(heard) THEN heard[c] ELSE routes[c - Len(heard)]
  <2> HIDE DEF S
  <2> QED BY <1>2, ConcatProperties
<1>4. DOMAIN all = 1..(Len(heard) + Len(routes))
  BY <1>3
<1> HIDE DEF all, S
<1>5. ASSUME NEW c \in DOMAIN all
      PROVE  \/ c \in DOMAIN heard /\ all[c] = heard[c]
             \/ c - Len(heard) \in DOMAIN routes /\ all[c] = routes[c - Len(heard)]
  <2>1. CASE c <= Len(heard)
    BY <1>2, <1>3, <1>4, <2>1
  <2>2. CASE ~(c <= Len(heard))
    BY <1>2, <1>3, <1>4, <2>2
  <2> QED BY <2>1, <2>2
<1>6. \A i \in DOMAIN heard : heard[i].number \in Nat
  BY DEF Listed, RouteList, IsRoute
<1>7. ASSUME NEW c \in DOMAIN all
      PROVE  /\ IsRoute("WALK", all[c]) /\ all[c].source = "KAKAO_WALK"
             /\ all[c].number < exchange + 1
  <2>1. CASE c \in DOMAIN heard /\ all[c] = heard[c]
    BY <1>6, <2>1 DEF Listed, RouteList
  <2>2. CASE c - Len(heard) \in DOMAIN routes /\ all[c] = routes[c - Len(heard)]
    BY <2>2 DEF Listed, RouteList
  <2> QED BY <1>5, <2>1, <2>2
<1>8. ASSUME NEW c \in DOMAIN all, NEW d \in DOMAIN all, all[c].number = all[d].number
      PROVE  c = d
  <2>1. CASE c \in DOMAIN heard /\ all[c] = heard[c] /\ d \in DOMAIN heard /\ all[d] = heard[d]
    BY <1>8, <2>1, NumbersDiffer
  <2>2. CASE /\ c - Len(heard) \in DOMAIN routes /\ all[c] = routes[c - Len(heard)]
             /\ d - Len(heard) \in DOMAIN routes /\ all[d] = routes[d - Len(heard)]
    <3>1. c - Len(heard) = d - Len(heard)
      BY <1>8, <2>2, NumbersDiffer
    <3> QED BY <1>2, <1>4, <3>1
  <2>3. CASE /\ c \in DOMAIN heard /\ all[c] = heard[c]
             /\ d - Len(heard) \in DOMAIN routes /\ all[d] = routes[d - Len(heard)]
    BY <1>6, <1>8, <2>3
  <2>4. CASE /\ d \in DOMAIN heard /\ all[d] = heard[d]
             /\ c - Len(heard) \in DOMAIN routes /\ all[c] = routes[c - Len(heard)]
    BY <1>6, <1>8, <2>4
  <2> QED BY <1>5, <2>1, <2>2, <2>3, <2>4
<1>9. Listed("KAKAO_WALK", "WALK", all)
  BY <1>3, <1>7, <1>8, NumbersTell
<1> QED BY <1>7, <1>9 DEF all

\* A price changes what routes cost and nothing else.
LEMMA CostsAreAside ==
    ASSUME NEW provider, NEW mode, NEW routes, Listed(provider, mode, routes), NEW price, NEW car
    PROVE  Listed(provider, mode, Costed(routes, price, car))
<1> DEFINE costed == Costed(routes, price, car)
<1>1. routes \in Seq(ToSet(routes)) /\ DOMAIN routes = 1..Len(routes) /\ Len(routes) \in Nat
  BY DEF Listed, RouteList
<1>2. DOMAIN costed = 1..Len(routes) /\ costed = [i \in 1..Len(routes) |-> costed[i]]
  BY <1>1 DEF Costed
<1>3. ASSUME NEW i \in 1..Len(routes)
      PROVE  /\ IsRoute(mode, costed[i]) /\ costed[i].source = provider
             /\ costed[i].number = routes[i].number
  <2>1. IsRoute(mode, routes[i]) /\ routes[i].source = provider
    BY <1>1 DEF Listed, RouteList
  <2>2. costed[i] = EstimateCarCost(routes[i], price, car)
    BY <1>1 DEF Costed
  <2> HIDE DEF costed
  <2> DEFINE cost == EstimateCarCost(routes[i], price, car).cost
  <2>3. costed[i] = [routes[i] EXCEPT !.cost = cost]
    <3>1. "cost" \in DOMAIN routes[i]
      BY <2>1 DEF IsRoute, RouteFields
    <3> QED BY <2>2, <3>1, Zenon DEF EstimateCarCost
  <2> HIDE DEF cost
  <2>4. DOMAIN costed[i] = RouteFields
    BY <2>1, <2>3 DEF IsRoute
  <2>5. \A f \in RouteFields \ {"cost"} : costed[i][f] = routes[i][f]
    BY <2>1, <2>3 DEF IsRoute
  <2>6. /\ costed[i].source = routes[i].source /\ costed[i].mode = routes[i].mode
        /\ costed[i].number = routes[i].number /\ costed[i].duration = routes[i].duration
        /\ costed[i].distance = routes[i].distance /\ costed[i].line = routes[i].line
        /\ costed[i].ends = routes[i].ends
    BY <2>5 DEF RouteFields
  <2> QED BY <2>1, <2>4, <2>6 DEF IsRoute
<1> HIDE DEF costed
<1>4. \A i, j \in 1..Len(routes) : costed[i].number = costed[j].number => i = j
  BY <1>1, <1>3, NumbersDiffer
<1> DEFINE S == {costed[i] : i \in 1..Len(routes)}
<1>5. costed \in Seq(S)
  <2>1. \A i \in 1..Len(routes) : costed[i] \in S
    OBVIOUS
  <2> HIDE DEF S
  <2> QED BY <1>1, <1>2, <2>1
<1> HIDE DEF S
<1>6. Listed(provider, mode, costed)
  BY <1>2, <1>3, <1>4, <1>5, NumbersTell
<1> QED BY <1>6 DEF costed

\* A matching gives every public route one of the Kakao routes.
LEMMA AssignmentsAreRoutes ==
    ASSUME NEW final, NEW edges, NEW count \in Nat, AssignmentOf(final, edges, count) # NoMatching,
           NEW p \in DOMAIN edges
    PROVE  AssignmentOf(final, edges, count)[p] \in 1..count
<1>1. \E k \in 1..count : final.owner[k] = p
  BY DEF AssignmentOf
<1>2. AssignmentOf(final, edges, count)[p] = CHOOSE k \in 1..count : final.owner[k] = p
  BY DEF AssignmentOf
<1> QED BY <1>1, <1>2

\* Public routes drawn along those of Kakao have ids of their own, as the pairs
\* they are drawn from do.
LEMMA SupplementedRoutes ==
    ASSUME NEW publics, NEW kakaos, Listed("SEOUL_TRANSIT", "TRANSIT", publics),
           Listed("KAKAO_TRANSIT", "TRANSIT", kakaos)
    PROVE  RouteList("TRANSIT", SupplementPublicGeometry(publics, kakaos).routes)
<1> DEFINE edges == CandidateEdges(publics, kakaos)
           count == Len(kakaos)
           assignment == FindPerfectMatching(edges, count, NotForbidden)
           drawn == [p \in DOMAIN publics |-> WithGeometry(publics[p], kakaos[assignment[p]])]
<1>1. SupplementPublicGeometry(publics, kakaos) = Supplement(publics, kakaos, edges, assignment)
  BY DEF SupplementPublicGeometry
<1>2. /\ publics \in Seq(ToSet(publics)) /\ kakaos \in Seq(ToSet(kakaos))
      /\ DOMAIN publics = 1..Len(publics) /\ Len(publics) \in Nat
      /\ DOMAIN kakaos = 1..count /\ count \in Nat
  BY DEF Listed, RouteList
<1>3. DOMAIN edges = DOMAIN publics
  BY DEF CandidateEdges
<1>4. ASSUME assignment # NoMatching, NEW p \in DOMAIN publics
      PROVE  assignment[p] \in DOMAIN kakaos
  <2>1. PICK final : assignment = AssignmentOf(final, edges, count)
    BY DEF FindPerfectMatching
  <2> HIDE DEF assignment, edges, count
  <2> QED BY <1>2, <1>3, <1>4, <2>1, AssignmentsAreRoutes
<1> HIDE DEF edges, assignment
<1>5. ASSUME assignment # NoMatching PROVE Listed(Supplemented, "TRANSIT", drawn)
  <2>1. DOMAIN drawn = 1..Len(publics) /\ drawn = [p \in 1..Len(publics) |-> drawn[p]]
    BY <1>2
  <2>2. ASSUME NEW p \in DOMAIN publics
        PROVE  /\ IsRoute("TRANSIT", drawn[p]) /\ drawn[p].source = Supplemented
               /\ \E k \in 0..MostRoutes :
                     drawn[p].number = (MostRoutes + 1) * publics[p].number + k
    <3> DEFINE public == publics[p]
               kakao == kakaos[assignment[p]]
    <3>1. /\ IsRoute("TRANSIT", public) /\ IsRoute("TRANSIT", kakao)
          /\ kakao.source = "KAKAO_TRANSIT"
      BY <1>4, <1>5 DEF Listed, RouteList
    <3>2. drawn[p] = WithGeometry(public, kakao)
      OBVIOUS
    <3> HIDE DEF public, kakao, drawn
    <3>3. kakao.number \in 0..MostRoutes /\ public.number \in Nat
          /\ kakao.line \in Int /\ kakao.ends \in Nat
      BY <3>1 DEF IsRoute, MostRoutes
    <3>4. /\ DOMAIN drawn[p] = RouteFields /\ drawn[p].source = Supplemented
          /\ drawn[p].number = (MostRoutes + 1) * public.number + kakao.number
          /\ drawn[p].line = kakao.line /\ drawn[p].ends = kakao.ends
          /\ drawn[p].mode = public.mode
          /\ drawn[p].duration = public.duration /\ drawn[p].distance = public.distance
      BY <3>1, <3>2 DEF WithGeometry, IsRoute, RouteFields
    <3>5. Supplemented \in SourcesOf("TRANSIT") /\ Supplemented # "KAKAO_TRANSIT"
      BY DEF SourcesOf, Supplemented
    <3>6. drawn[p].number \in Nat
      BY <3>3, <3>4 DEF MostRoutes
    <3> QED BY <3>1, <3>3, <3>4, <3>5, <3>6 DEF IsRoute, public
  <2> HIDE DEF drawn
  <2>3. ASSUME NEW p \in DOMAIN publics, NEW q \in DOMAIN publics, drawn[p].number = drawn[q].number
        PROVE  p = q
    <3>1. PICK k \in 0..MostRoutes : drawn[p].number = (MostRoutes + 1) * publics[p].number + k
      BY <2>2
    <3>2. PICK j \in 0..MostRoutes : drawn[q].number = (MostRoutes + 1) * publics[q].number + j
      BY <2>2
    <3>3. publics[p].number \in Nat /\ publics[q].number \in Nat
      BY DEF Listed, RouteList, IsRoute
    <3>4. publics[p].number = publics[q].number
      <4> DEFINE x == publics[p].number
                 y == publics[q].number
      <4>1. drawn[p].number = (MostRoutes + 1) * x + k /\ x \in Nat
        BY <3>1, <3>3
      <4>2. drawn[q].number = (MostRoutes + 1) * y + j /\ y \in Nat
        BY <3>2, <3>3
      <4> HIDE DEF x, y
      <4>3. MostRoutes = 100 /\ k \in 0..100 /\ j \in 0..100
        BY DEF MostRoutes
      <4>4. 101 * x + k = 101 * y + j
        <5>1. 101 = MostRoutes + 1
          BY <4>3
        <5> QED BY ONLY <4>1, <4>2, <5>1, <2>3
      <4>5. x = y
        BY ONLY <4>1, <4>2, <4>3, <4>4
      <4> QED BY <4>5 DEF x, y
    <3> QED BY <3>4, NumbersDiffer
  <2> DEFINE S == {drawn[p] : p \in 1..Len(publics)}
  <2>4. drawn \in Seq(S)
    <3>1. \A p \in 1..Len(publics) : drawn[p] \in S
      OBVIOUS
    <3> HIDE DEF S
    <3> QED BY <1>2, <2>1, <3>1
  <2> HIDE DEF S
  <2> QED BY <1>2, <2>1, <2>2, <2>3, <2>4, NumbersTell
<1>6. \/ Supplement(publics, kakaos, edges, assignment).routes = kakaos
      \/ /\ Supplement(publics, kakaos, edges, assignment).routes = drawn
         /\ assignment # NoMatching
  <2> HIDE DEF drawn
  <2>1. CASE \E p \in DOMAIN edges : edges[p] = {}
    BY <2>1 DEF Supplement
  <2>2. CASE /\ \A p \in DOMAIN edges : edges[p] # {}
             /\ assignment = NoMatching \/ ~IsOnlyMatching(edges, Len(kakaos), assignment)
    BY <2>2 DEF Supplement
  <2>3. CASE /\ \A p \in DOMAIN edges : edges[p] # {}
             /\ ~(assignment = NoMatching \/ ~IsOnlyMatching(edges, Len(kakaos), assignment))
    BY <2>3 DEF Supplement, drawn
  <2> QED BY <2>1, <2>2, <2>3
<1> HIDE DEF drawn
<1> QED BY <1>1, <1>5, <1>6 DEF Listed

-----------------------------------------------------------------------------
(***************************************************************************)
(* Matching public routes with those of Kakao.                             *)
(***************************************************************************)
\* What H makes of a function at a point depends on smaller points only.
LooksDown(H, F, D, M, size) ==
    /\ F # {} /\ \A f \in F : f = [x \in D |-> f[x]]
    /\ H \in [F -> F]
    /\ M \in Nat /\ size \in [D -> 0..M]
    /\ \A f, g \in F, x \in D :
          (\A y \in D : size[y] < size[x] => f[y] = g[y]) => H[f][x] = H[g][x]

\* Then it has a fixed point: the recursion is well defined.
LEMMA RecursionIsDefined ==
    ASSUME NEW H, NEW F, NEW D, NEW M, NEW size, LooksDown(H, F, D, M, size)
    PROVE  \E f \in F : f = H[f]
<1> USE DEF LooksDown
<1> DEFINE Right(f, n) == \A x \in D : size[x] < n => f[x] = H[f][x]
           wrong == {n \in 0..(M + 1) : ~\E f \in F : Right(f, n)}
<1>1. wrong = {}
  <2> SUFFICES ASSUME wrong # {} PROVE FALSE
    OBVIOUS
  <2>1. wrong \subseteq Nat
    OBVIOUS
  <2> HIDE DEF wrong
  <2>2. PICK n \in wrong : \A m \in wrong : n <= m
    BY <2>1, LeastNatural
  <2>3. n \in 0..(M + 1) /\ ~\E f \in F : Right(f, n)
    BY <2>2 DEF wrong
  <2>4. CASE n = 0
    <3>1. PICK f \in F : TRUE
      OBVIOUS
    <3>2. Right(f, 0)
      OBVIOUS
    <3> HIDE DEF Right
    <3> QED BY <2>3, <2>4, <3>2
  <2>5. CASE n # 0
    <3>1. n - 1 \in 0..(M + 1) /\ n - 1 \notin wrong
      BY <2>2, <2>3, <2>5
    <3>2. PICK f \in F : Right(f, n - 1)
      <4> HIDE DEF Right
      <4> QED BY <3>1 DEF wrong
    <3> DEFINE g == H[f]
    <3>3. g \in F
      OBVIOUS
    <3>4. ASSUME NEW x \in D, size[x] < n PROVE g[x] = H[g][x]
      <4>1. ASSUME NEW y \in D, size[y] < size[x] PROVE f[y] = g[y]
        <5>1. size[y] < n - 1
          BY <2>3, <3>4, <4>1
        <5> QED BY <3>2, <5>1
      <4> HIDE DEF g
      <4>2. H[f][x] = H[g][x]
        BY <3>3, <4>1
      <4> QED BY <4>2 DEF g
    <3>5. Right(g, n)
      BY <3>4
    <3> HIDE DEF g, Right
    <3> QED BY <2>3, <3>3, <3>5
  <2> QED BY <2>4, <2>5
<1>2. M + 1 \in 0..(M + 1) /\ M + 1 \notin wrong
  <2> HIDE DEF wrong
  <2> QED BY <1>1
<1>3. PICK f \in F : Right(f, M + 1)
  <2> HIDE DEF Right
  <2> QED BY <1>2
<1>4. \A x \in D : f[x] = H[f][x]
  BY <1>3
<1>5. f = [x \in D |-> f[x]] /\ H[f] = [x \in D |-> H[f][x]]
  OBVIOUS
<1> QED BY <1>4, <1>5

\* What a search for a candidate makes of one of them; "augment" is the search
\* for another candidate of its owner.
Tried(augment, edges, forbidden, p, state, k) ==
    IF \/ state.found \/ k \notin edges[p]
       \/ forbidden = <<p, k>> \/ k \in state.seen
    THEN state
    ELSE Claimed(IF state.owner[k] = 0
                   THEN [state EXCEPT !.found = TRUE, !.seen = @ \cup {k}]
                   ELSE augment[<<state.owner[k], state.seen \cup {k}, state.owner>>],
                 p, k)

Begun(at) == [found |-> FALSE, seen |-> at[2], owner |-> at[3]]

\* One candidate after the other.
AllTried(augment, forbidden, edges, count, at) ==
    FoldLeft(LAMBDA state, k :
        IF \/ state.found \/ k \notin edges[at[1]]
           \/ forbidden = <<at[1], k>> \/ k \in state.seen
        THEN state
        ELSE Claimed(IF state.owner[k] = 0
                       THEN [state EXCEPT !.found = TRUE, !.seen = @ \cup {k}]
                       ELSE augment[<<state.owner[k], state.seen \cup {k}, state.owner>>],
                     at[1], k),
        [found |-> FALSE, seen |-> at[2], owner |-> at[3]], [k \in 1..count |-> k])

Searching(augment, edges, count, forbidden) ==
    augment = [at \in Searches(edges, count) |-> AllTried(augment, forbidden, edges, count, at)]

LEMMA SearchIsChosen ==
    ASSUME NEW edges, NEW count, NEW forbidden, NEW public, NEW owners
    PROVE  Augmented(edges, count, forbidden, public, owners) =
              (CHOOSE augment : Searching(augment, edges, count, forbidden))[<<public, {}, owners>>]
BY DEF Augmented, Searching, AllTried, FoldLeft, MapThenFoldSet

IsTrial(path, augment, forbidden, edges, count, at, V) ==
    /\ path \in [0..count -> V]
    /\ path[0] = Begun(at)
    /\ \A n \in 1..count :
          path[n] = Tried(augment, edges, forbidden, at[1], path[n - 1], n)
    /\ path[count] = AllTried(augment, forbidden, edges, count, at)

LEMMA TryingUnfolds ==
    ASSUME NEW augment, NEW forbidden, NEW edges, NEW count \in Nat, NEW at,
           NEW V, Begun(at) \in V,
           \A state \in V, k \in 1..count : Tried(augment, edges, forbidden, at[1], state, k) \in V
    PROVE  \E path : IsTrial(path, augment, forbidden, edges, count, at, V)
<1> DEFINE N == count
           list == [k \in 1..N |-> k]
           base == Begun(at)
           Grown(s, i) == Tried(augment, edges, forbidden, at[1], s, list[i])
           move == [x \in V \X (1..N) |-> Grown(x[1], x[2])]
           Iter(g) == [T \in SUBSET (1..N) |->
                          IF T = {} THEN base ELSE Grown(g[T \ {Max(T)}], Max(T))]
           f == CHOOSE g : g = Iter(g)
           path == [n \in 0..N |-> f[1..n]]
<1>1. N \in Nat /\ DOMAIN list = 1..N /\ base \in V /\ \A i \in 1..N : list[i] = i
  OBVIOUS
<1>2. \A s \in V, i \in 1..N : Grown(s, i) \in V
  BY <1>1
<1>3. move \in [V \X (1..N) -> V]
  <2> HIDE DEF Grown, N
  <2> QED BY <1>2
<1>4. PICK g \in [SUBSET (1..N) -> V] : Folds(g, N, base, move)
  <2> HIDE DEF N, move, base
  <2>1. N \in Nat /\ base \in V
    BY <1>1
  <2> QED BY <1>3, <2>1, FoldsAreDefined
<1>5. g = Iter(g)
  <2>1. ASSUME NEW T \in SUBSET (1..N) PROVE g[T] = Iter(g)[T]
    <3>1. CASE T = {}
      <4> HIDE DEF base, N
      <4> QED BY <1>4, <3>1 DEF Folds
    <3>2. CASE T # {}
      <4>1. Max(T) \in 1..N
        <5> HIDE DEF N
        <5> QED BY <1>1, <3>2, LargestOfSome
      <4>2. g[T \ {Max(T)}] \in V
        <5> HIDE DEF N
        <5> QED OBVIOUS
      <4>3. <<g[T \ {Max(T)}], Max(T)>> \in V \X (1..N)
        BY <4>1, <4>2
      <4>4. move[<<g[T \ {Max(T)}], Max(T)>>] = Grown(g[T \ {Max(T)}], Max(T))
        <5> HIDE DEF Grown, N
        <5> QED BY <4>3
      <4> HIDE DEF move, Grown, N, base
      <4>5. g[T] = move[<<g[T \ {Max(T)}], Max(T)>>]
        BY <1>4, <3>2 DEF Folds
      <4> QED BY <3>2, <4>4, <4>5
    <3> QED BY <3>1, <3>2
  <2>2. Iter(g) = [T \in SUBSET (1..N) |-> Iter(g)[T]]
    <3> HIDE DEF Grown, N, base
    <3> QED OBVIOUS
  <2>3. g = [T \in SUBSET (1..N) |-> g[T]]
    <3> HIDE DEF N
    <3> QED OBVIOUS
  <2> HIDE DEF Iter
  <2> QED BY <2>1, <2>2, <2>3
<1>6. f = Iter(f)
  <2> HIDE DEF Iter
  <2> QED BY <1>5
<1>7. AllTried(augment, forbidden, edges, count, at) = f[1..N]
  BY <1>1 DEF AllTried, FoldLeft, MapThenFoldSet, Tried, Begun
<1> HIDE DEF f, Grown, base
<1>8. f[{}] = base
  BY <1>6
<1>9. ASSUME NEW n \in 1..N PROVE f[1..n] = Grown(f[1..(n - 1)], n)
  <2>1. Max(1..n) = n /\ (1..n) \ {n} = 1..(n - 1) /\ 1..n # {}
    <3> HIDE DEF N
    <3>1. n \in Nat \ {0}
      BY <1>1
    <3> QED BY <3>1, LargestOfPrefix
  <2>2. 1..n \in SUBSET (1..N)
    BY <1>1
  <2>3. Iter(f)[1..n] = Grown(f[1..(n - 1)], n)
    <3> HIDE DEF N
    <3> QED BY <2>1, <2>2
  <2> QED BY <1>6, <2>3
<1>10. ASSUME NEW n \in 0..N PROVE f[1..n] \in V
  <2> DEFINE odd == {m \in 0..N : f[1..m] \notin V}
  <2> SUFFICES ASSUME odd # {} PROVE FALSE
    OBVIOUS
  <2>1. odd \subseteq Nat
    BY <1>1
  <2> HIDE DEF odd
  <2>2. PICK m \in odd : \A other \in odd : m <= other
    BY <2>1, LeastNatural
  <2>3. m \in 0..N /\ f[1..m] \notin V
    BY <2>2 DEF odd
  <2>4. m # 0
    <3>1. 1..0 = {}
      OBVIOUS
    <3> QED BY <1>1, <1>8, <2>3, <3>1
  <2>5. m \in 1..N /\ m - 1 \in 0..N /\ ~(m <= m - 1)
    BY <1>1, <2>3, <2>4
  <2>6. f[1..(m - 1)] \in V
    BY <2>2, <2>5 DEF odd
  <2>7. Grown(f[1..(m - 1)], m) \in V
    BY <1>2, <2>5, <2>6
  <2> QED BY <1>9, <2>3, <2>5, <2>7
<1>11. path \in [0..N -> V]
  BY <1>10
<1>12. path[0] = base /\ path[N] = f[1..N]
  <2>1. 1..0 = {}
    OBVIOUS
  <2> QED BY <1>1, <1>8, <2>1
<1>13. \A n \in 1..N : path[n] = Grown(path[n - 1], n)
  <2> SUFFICES ASSUME NEW n \in 1..N PROVE path[n] = Grown(path[n - 1], n)
    OBVIOUS
  <2>1. n \in 0..N /\ n - 1 \in 0..N
    BY <1>1
  <2>2. path[n] = f[1..n] /\ path[n - 1] = f[1..(n - 1)]
    BY <2>1
  <2> HIDE DEF path
  <2> QED BY <1>9, <2>2
<1> HIDE DEF path
<1>14. \A n \in 1..N : path[n] = Tried(augment, edges, forbidden, at[1], path[n - 1], n)
  BY <1>1, <1>13 DEF Grown
<1> QED BY <1>7, <1>11, <1>12, <1>14 DEF base, IsTrial

\* Public routes and, for each, the Kakao routes that match, by their places.
AreEdges(edges, count) ==
    /\ count \in Nat
    /\ DOMAIN edges \subseteq Nat \ {0}
    /\ \A p \in DOMAIN edges : edges[p] \subseteq 1..count

Owners(edges, count) == [1..count -> {0} \cup DOMAIN edges]
SearchStates(edges, count) ==
    [found : BOOLEAN, seen : SUBSET (1..count), owner : Owners(edges, count)]

\* What has been seen stays seen, and what has not becomes less.
Onward(edges, count, at) == {s \in SearchStates(edges, count) : at[2] \subseteq s.seen}
Unseen(count, at) == count - Cardinality(at[2])

LEMMA SearchIsTyped ==
    ASSUME NEW edges, NEW count, NEW at \in Searches(edges, count)
    PROVE  /\ at[1] \in DOMAIN edges /\ at[2] \subseteq 1..count /\ at[3] \in Owners(edges, count)
           /\ Begun(at) \in Onward(edges, count, at)
BY DEF Searches, Owners, Onward, Begun, SearchStates

LEMMA UnseenIsANumber ==
    ASSUME NEW edges, NEW count \in Nat, NEW at \in Searches(edges, count)
    PROVE  Unseen(count, at) \in 0..count
<1>1. at[2] \subseteq 1..count
  BY SearchIsTyped
<1>2. IsFiniteSet(1..count) /\ Cardinality(1..count) = count
  BY FS_Interval
<1>3. IsFiniteSet(at[2]) /\ Cardinality(at[2]) <= count
  BY <1>1, <1>2, FS_Subset
<1>4. Cardinality(at[2]) \in Nat
  BY <1>3, FS_CardinalityType
<1> QED BY <1>3, <1>4 DEF Unseen

\* The search for the owner of a candidate that was not seen.
LEMMA OwnersAreNext ==
    ASSUME NEW edges, NEW count, AreEdges(edges, count), NEW at \in Searches(edges, count),
           NEW s \in Onward(edges, count, at), NEW k \in 1..count, k \notin s.seen, s.owner[k] # 0
    PROVE  LET next == <<s.owner[k], s.seen \cup {k}, s.owner>>
           IN  /\ next \in Searches(edges, count)
               /\ Unseen(count, next) < Unseen(count, at)
<1> DEFINE next == <<s.owner[k], s.seen \cup {k}, s.owner>>
<1>1. /\ s.owner \in Owners(edges, count) /\ s.seen \subseteq 1..count /\ at[2] \subseteq s.seen
      /\ count \in Nat
  BY DEF Onward, SearchStates, AreEdges
<1>2. s.owner[k] \in DOMAIN edges
  BY <1>1 DEF Owners
<1>3. next \in Searches(edges, count)
  BY <1>1, <1>2 DEF Searches, Owners
<1>4. IsFiniteSet(1..count)
  BY <1>1, FS_Interval
<1>5. IsFiniteSet(s.seen)
  BY <1>1, <1>4, FS_Subset
<1>6. IsFiniteSet(at[2]) /\ Cardinality(at[2]) <= Cardinality(s.seen)
  BY <1>1, <1>5, FS_Subset
<1>7. Cardinality(s.seen \cup {k}) = Cardinality(s.seen) + 1
  BY <1>5, FS_AddElement
<1>8. Cardinality(at[2]) \in Nat /\ Cardinality(s.seen) \in Nat
  BY <1>5, <1>6, FS_CardinalityType
<1>9. next[2] = s.seen \cup {k}
  OBVIOUS
<1> HIDE DEF next
<1>10. Unseen(count, next) < Unseen(count, at)
  BY <1>1, <1>6, <1>7, <1>8, <1>9 DEF Unseen
<1> QED BY <1>3, <1>10 DEF next

LEMMA ClaimingStays ==
    ASSUME NEW edges, NEW count, NEW at \in Searches(edges, count),
           NEW s \in Onward(edges, count, at), NEW k \in 1..count
    PROVE  Claimed(s, at[1], k) \in Onward(edges, count, at)
<1>1. at[1] \in DOMAIN edges
  BY SearchIsTyped
<1>2. /\ s \in SearchStates(edges, count) /\ at[2] \subseteq s.seen
      /\ s.owner \in Owners(edges, count)
  BY DEF Onward, SearchStates
<1>3. [s.owner EXCEPT ![k] = at[1]] \in Owners(edges, count)
  BY <1>1, <1>2 DEF Owners
<1> QED BY <1>2, <1>3 DEF Claimed, Onward, SearchStates

LEMMA TryingStays ==
    ASSUME NEW edges, NEW count, AreEdges(edges, count), NEW forbidden, NEW augment,
           NEW at \in Searches(edges, count),
           \A next \in Searches(edges, count) :
              Unseen(count, next) < Unseen(count, at) => augment[next] \in Onward(edges, count, next),
           NEW s \in Onward(edges, count, at), NEW k \in 1..count
    PROVE  Tried(augment, edges, forbidden, at[1], s, k) \in Onward(edges, count, at)
<1>1. CASE s.found \/ k \notin edges[at[1]] \/ forbidden = <<at[1], k>> \/ k \in s.seen
  BY <1>1 DEF Tried
<1>2. CASE ~(s.found \/ k \notin edges[at[1]] \/ forbidden = <<at[1], k>> \/ k \in s.seen)
  <2> DEFINE free == [s EXCEPT !.found = TRUE, !.seen = @ \cup {k}]
             next == <<s.owner[k], s.seen \cup {k}, s.owner>>
  <2>1. CASE s.owner[k] = 0
    <3>1. free \in Onward(edges, count, at)
      BY DEF Onward, SearchStates
    <3>2. Tried(augment, edges, forbidden, at[1], s, k) = Claimed(free, at[1], k)
      BY <1>2, <2>1 DEF Tried
    <3> HIDE DEF free
    <3> QED BY <3>1, <3>2, ClaimingStays
  <2>2. CASE s.owner[k] # 0
    <3>1. augment[next] \in Onward(edges, count, next)
      BY <1>2, <2>2, OwnersAreNext
    <3>2. augment[next] \in Onward(edges, count, at)
      BY <3>1 DEF Onward
    <3>3. Tried(augment, edges, forbidden, at[1], s, k) = Claimed(augment[next], at[1], k)
      BY <1>2, <2>2 DEF Tried
    <3> HIDE DEF next
    <3> QED BY <3>2, <3>3, ClaimingStays
  <2> QED BY <2>1, <2>2
<1> QED BY <1>1, <1>2

\* The candidates one after the other, if searches that have seen more go on.
GoesOn(augment, edges, count, at) ==
    \A next \in Searches(edges, count) :
        Unseen(count, next) < Unseen(count, at) => augment[next] \in Onward(edges, count, next)

LEMMA SearchPath ==
    ASSUME NEW edges, NEW count, AreEdges(edges, count), NEW forbidden, NEW augment,
           NEW at \in Searches(edges, count), GoesOn(augment, edges, count, at)
    PROVE  \E path : IsTrial(path, augment, forbidden, edges, count, at, Onward(edges, count, at))
<1>1. count \in Nat /\ Begun(at) \in Onward(edges, count, at)
  BY SearchIsTyped DEF AreEdges
<1>2. \A s \in Onward(edges, count, at), k \in 1..count :
         Tried(augment, edges, forbidden, at[1], s, k) \in Onward(edges, count, at)
  BY TryingStays DEF GoesOn
<1> DEFINE V == Onward(edges, count, at)
<1>3. count \in Nat /\ Begun(at) \in V
  BY <1>1
<1>4. \A s \in V, k \in 1..count : Tried(augment, edges, forbidden, at[1], s, k) \in V
  BY <1>2
<1> HIDE DEF V
<1>5. \E path : IsTrial(path, augment, forbidden, edges, count, at, V)
  BY ONLY <1>3, <1>4, TryingUnfolds
<1> QED BY <1>5 DEF V

\* Two searches that go on alike where more has been seen try alike.
AgreeBelow(one, other, edges, count, at) ==
    \A next \in Searches(edges, count) :
        Unseen(count, next) < Unseen(count, at) => one[next] = other[next]

LEMMA SearchesAgree ==
    ASSUME NEW edges, NEW count, AreEdges(edges, count), NEW forbidden, NEW one, NEW other,
           NEW at \in Searches(edges, count),
           GoesOn(one, edges, count, at), AgreeBelow(one, other, edges, count, at)
    PROVE  AllTried(one, forbidden, edges, count, at) = AllTried(other, forbidden, edges, count, at)
<1> DEFINE N == count
           V == Onward(edges, count, at)
<1>1. N \in Nat
  BY DEF AreEdges
<1>2. PICK path : IsTrial(path, one, forbidden, edges, count, at, V)
  BY SearchPath
<1>3. PICK trail : IsTrial(trail, other, forbidden, edges, count, at, V)
  <2>1. GoesOn(other, edges, count, at)
    BY DEF GoesOn, AgreeBelow
  <2> QED BY <2>1, SearchPath
<1>4. ASSUME NEW s \in V, NEW k \in 1..count
      PROVE  Tried(one, edges, forbidden, at[1], s, k) = Tried(other, edges, forbidden, at[1], s, k)
  <2>1. CASE s.found \/ k \notin edges[at[1]] \/ forbidden = <<at[1], k>> \/ k \in s.seen \/ s.owner[k] = 0
    BY <2>1 DEF Tried
  <2>2. CASE ~(s.found \/ k \notin edges[at[1]] \/ forbidden = <<at[1], k>> \/ k \in s.seen \/ s.owner[k] = 0)
    <3> DEFINE next == <<s.owner[k], s.seen \cup {k}, s.owner>>
    <3>1. one[next] = other[next]
      BY <2>2, OwnersAreNext DEF AgreeBelow
    <3> QED BY <2>2, <3>1 DEF Tried
  <2> QED BY <2>1, <2>2
<1>5. /\ path \in [0..N -> V] /\ trail \in [0..N -> V]
      /\ path[0] = Begun(at) /\ trail[0] = Begun(at)
      /\ \A n \in 1..N : path[n] = Tried(one, edges, forbidden, at[1], path[n - 1], n)
      /\ \A n \in 1..N : trail[n] = Tried(other, edges, forbidden, at[1], trail[n - 1], n)
      /\ path[N] = AllTried(one, forbidden, edges, count, at)
      /\ trail[N] = AllTried(other, forbidden, edges, count, at)
  BY <1>2, <1>3 DEF IsTrial
<1> HIDE DEF V
<1> DEFINE apart == {n \in 0..N : path[n] # trail[n]}
<1>6. apart = {}
  <2> SUFFICES ASSUME apart # {} PROVE FALSE
    OBVIOUS
  <2>1. apart \subseteq Nat
    BY <1>1
  <2> HIDE DEF apart
  <2>2. PICK n \in apart : \A m \in apart : n <= m
    BY <2>1, LeastNatural
  <2>3. n \in 0..N /\ path[n] # trail[n]
    BY <2>2 DEF apart
  <2>4. n # 0
    BY <1>5, <2>3
  <2>5. n \in 1..N /\ n - 1 \in 0..N /\ ~(n <= n - 1)
    BY <1>1, <2>3, <2>4
  <2>6. path[n - 1] = trail[n - 1] /\ path[n - 1] \in V
    BY <1>5, <2>2, <2>5 DEF apart
  <2> QED BY <1>4, <1>5, <2>3, <2>5, <2>6
<1>7. path[N] = trail[N]
  BY <1>1, <1>6
<1> QED BY <1>5, <1>7

\* There is a search like that.
LEMMA SearchesExist ==
    ASSUME NEW edges, NEW count, AreEdges(edges, count), NEW forbidden
    PROVE  \E augment : Searching(augment, edges, count, forbidden)
<1> DEFINE D == Searches(edges, count)
           F == {f \in [D -> SearchStates(edges, count)] : \A at \in D : f[at] \in Onward(edges, count, at)}
           Once(f) == [at \in D |-> AllTried(f, forbidden, edges, count, at)]
           H == [f \in F |-> Once(f)]
           size == [at \in D |-> Unseen(count, at)]
<1>1. count \in Nat
  BY DEF AreEdges
<1>2. F # {}
  <2> DEFINE some == [at \in D |-> Begun(at)]
  <2>1. \A at \in D : Begun(at) \in Onward(edges, count, at)
    BY SearchIsTyped
  <2>2. \A at \in D : Begun(at) \in SearchStates(edges, count)
    BY <2>1 DEF Onward
  <2> HIDE DEF D
  <2>3. some \in F
    BY <2>1, <2>2
  <2> QED BY <2>3
<1>3. ASSUME NEW f \in F, NEW at \in D
      PROVE  AllTried(f, forbidden, edges, count, at) \in Onward(edges, count, at)
  <2> DEFINE N == count
             V == Onward(edges, count, at)
  <2>1. PICK path : IsTrial(path, f, forbidden, edges, count, at, V)
    <3>1. GoesOn(f, edges, count, at)
      BY DEF GoesOn
    <3> QED BY <3>1, SearchPath
  <2>2. N \in Nat
    BY DEF AreEdges
  <2>3. path \in [0..N -> V] /\ path[N] = AllTried(f, forbidden, edges, count, at)
    BY <2>1 DEF IsTrial
  <2> HIDE DEF N, V
  <2>4. path[N] \in V
    BY <2>2, <2>3
  <2> QED BY <2>3, <2>4 DEF V
<1>4. ASSUME NEW f \in F PROVE Once(f) \in F
  <2>1. \A at \in D : AllTried(f, forbidden, edges, count, at) \in Onward(edges, count, at)
    BY <1>3
  <2>2. \A at \in D : AllTried(f, forbidden, edges, count, at) \in SearchStates(edges, count)
    BY <2>1 DEF Onward
  <2> HIDE DEF D
  <2> QED BY <2>1, <2>2
<1>5. H \in [F -> F]
  <2> HIDE DEF F, Once
  <2> QED BY <1>4
<1>6. size \in [D -> 0..count]
  <2>1. \A at \in D : Unseen(count, at) \in 0..count
    BY <1>1, UnseenIsANumber
  <2> HIDE DEF D
  <2> QED BY <2>1
<1>7. \A f \in F : f = [at \in D |-> f[at]]
  <2> HIDE DEF D
  <2> QED OBVIOUS
<1>8. ASSUME NEW f \in F, NEW g \in F, NEW at \in D,
             \A next \in D : size[next] < size[at] => f[next] = g[next]
      PROVE  H[f][at] = H[g][at]
  <2>1. GoesOn(f, edges, count, at) /\ AgreeBelow(f, g, edges, count, at)
    BY <1>8 DEF GoesOn, AgreeBelow
  <2>2. AllTried(f, forbidden, edges, count, at) = AllTried(g, forbidden, edges, count, at)
    BY <2>1, SearchesAgree
  <2>3. H[f] = Once(f) /\ H[g] = Once(g)
    <3> HIDE DEF F, Once
    <3> QED OBVIOUS
  <2> HIDE DEF D, H
  <2> QED BY <2>2, <2>3
<1> HIDE DEF D, F, H, size
<1>9. PICK f \in F : f = H[f]
  <2>1. \A f, g \in F, at \in D :
           (\A next \in D : size[next] < size[at] => f[next] = g[next]) => H[f][at] = H[g][at]
    BY ONLY <1>8
  <2>2. LooksDown(H, F, D, count, size)
    BY ONLY <1>1, <1>2, <1>5, <1>6, <1>7, <2>1 DEF LooksDown
  <2> QED BY ONLY <2>2, RecursionIsDefined
<1>10. H[f] = Once(f)
  <2> HIDE DEF Once
  <2> QED BY <1>9 DEF H
<1> QED BY <1>9, <1>10 DEF Searching, D

LEMMA SearchesGoOn ==
    ASSUME NEW edges, NEW count, AreEdges(edges, count), NEW forbidden,
           NEW augment, Searching(augment, edges, count, forbidden)
    PROVE  \A at \in Searches(edges, count) : augment[at] \in Onward(edges, count, at)
<1> DEFINE D == Searches(edges, count)
           Right(at) == augment[at] \in Onward(edges, count, at)
           odd == {Unseen(count, at) : at \in {at \in D : ~Right(at)}}
<1> SUFFICES ASSUME odd # {} PROVE FALSE
  OBVIOUS
<1>1. \A at \in D : Unseen(count, at) \in Nat
  BY UnseenIsANumber DEF AreEdges
<1>2. odd \subseteq Nat
  <2> HIDE DEF D, Right
  <2> QED BY <1>1
<1> HIDE DEF odd, D, Right
<1>3. PICK n \in odd : \A m \in odd : n <= m
  BY <1>2, LeastNatural
<1>4. PICK at \in D : n = Unseen(count, at) /\ ~Right(at)
  BY <1>3 DEF odd
<1>5. ASSUME NEW next \in D, Unseen(count, next) < Unseen(count, at) PROVE Right(next)
  <2>1. ~(n <= Unseen(count, next))
    BY <1>1, <1>4, <1>5
  <2> QED BY <1>3, <2>1 DEF odd
<1> DEFINE N == count
           V == Onward(edges, count, at)
<1>6. PICK path : IsTrial(path, augment, forbidden, edges, count, at, V)
  <2>1. GoesOn(augment, edges, count, at)
    BY <1>5 DEF D, Right, GoesOn
  <2> QED BY <2>1, SearchPath DEF D
<1>7. N \in Nat
  BY DEF AreEdges
<1>8. augment[at] = AllTried(augment, forbidden, edges, count, at)
  BY DEF Searching, D
<1>9. path \in [0..N -> V] /\ path[N] = AllTried(augment, forbidden, edges, count, at)
  BY <1>6 DEF IsTrial
<1> HIDE DEF N, V
<1>10. path[N] \in V
  BY <1>7, <1>9
<1> QED BY <1>4, <1>8, <1>9, <1>10 DEF V, Right

\* The Kakao routes a public route may have.
Reach(edges, forbidden, p) == {k \in edges[p] : forbidden # <<p, k>>}

\* Everyone has what may be had, and nobody two of those not yet seen.
Matching(edges, forbidden, owner) ==
    \A k \in DOMAIN owner : owner[k] # 0 => k \in Reach(edges, forbidden, owner[k])
Unshared(owner, count, seen) ==
    \A j, k \in (1..count) \ seen : owner[j] = owner[k] /\ owner[j] # 0 => j = k
Having(owner, count, seen) == {owner[k] : k \in (1..count) \ seen} \ {0}

\* A search that found nothing has seen all that its owners may have instead.
Closed(edges, forbidden, owner, before, seen) ==
    \A k \in seen \ before : owner[k] # 0 /\ Reach(edges, forbidden, owner[k]) \subseteq seen
\* One that did has one more owner, of what was not seen.
Settled(edges, count, forbidden, at, owner) ==
    (/\ Matching(edges, forbidden, at[3]) /\ Unshared(at[3], count, at[2])
     /\ at[1] \notin Having(at[3], count, at[2])) =>
        /\ \A k \in at[2] : owner[k] = at[3][k]
        /\ Matching(edges, forbidden, owner)
        /\ Unshared(owner, count, at[2])
        /\ Having(owner, count, at[2]) = Having(at[3], count, at[2]) \cup {at[1]}

SoFar(edges, count, forbidden, at, s) ==
    IF s.found THEN Settled(edges, count, forbidden, at, s.owner)
    ELSE s.owner = at[3] /\ Closed(edges, forbidden, s.owner, at[2], s.seen)
Searched(edges, count, forbidden, at, s) ==
    /\ SoFar(edges, count, forbidden, at, s)
    /\ ~s.found => Reach(edges, forbidden, at[1]) \subseteq s.seen

\* A candidate nobody has.
LEMMA FreeIsTaken ==
    ASSUME NEW edges, NEW count, AreEdges(edges, count), NEW forbidden,
           NEW at \in Searches(edges, count), NEW k \in (1..count) \ at[2],
           k \in Reach(edges, forbidden, at[1]), at[3][k] = 0
    PROVE  Settled(edges, count, forbidden, at, [at[3] EXCEPT ![k] = at[1]])
<1> DEFINE p == at[1]
           K == (1..count) \ at[2]
           old == at[3]
           new == [old EXCEPT ![k] = p]
<1>1. p \in DOMAIN edges /\ DOMAIN old = 1..count /\ 0 \notin DOMAIN edges
  BY SearchIsTyped DEF Owners, AreEdges
<1> SUFFICES ASSUME Matching(edges, forbidden, old), Unshared(old, count, at[2]),
                    p \notin Having(old, count, at[2])
             PROVE  /\ \A j \in at[2] : new[j] = old[j]
                    /\ Matching(edges, forbidden, new)
                    /\ Unshared(new, count, at[2])
                    /\ Having(new, count, at[2]) = Having(old, count, at[2]) \cup {p}
  BY DEF Settled
<1>2. /\ DOMAIN new = 1..count /\ new[k] = p /\ \A j \in (1..count) \ {k} : new[j] = old[j]
      /\ k \in K /\ p # 0 /\ old[k] = 0 /\ K \subseteq 1..count
  BY <1>1
<1>3. at[2] \subseteq (1..count) \ {k} /\ k \in Reach(edges, forbidden, p)
  BY SearchIsTyped
<1>4. \A j \in K : old[j] # p
  BY <1>2 DEF Having
<1>5. \A i, j \in K : old[i] = old[j] /\ old[i] # 0 => i = j
  BY DEF Unshared
<1>6. Having(new, count, at[2]) = {new[j] : j \in K} \ {0}
      /\ Having(old, count, at[2]) = {old[j] : j \in K} \ {0}
  BY DEF Having
<1> HIDE DEF p, K, old, new
<1>7. Matching(edges, forbidden, new)
  BY <1>1, <1>2, <1>3 DEF Matching
<1>8. \A i, j \in K : new[i] = new[j] /\ new[i] # 0 => i = j
  BY <1>2, <1>4, <1>5
<1>9. {new[j] : j \in K} \ {0} = ({old[j] : j \in K} \ {0}) \cup {p}
  BY <1>2
<1> QED BY <1>2, <1>3, <1>6, <1>7, <1>8, <1>9 DEF Unshared, K

\* A candidate whose owner found another one; "seen" are those seen before.
LEMMA OwnerMoves ==
    ASSUME NEW edges, NEW count, AreEdges(edges, count), NEW forbidden,
           NEW at \in Searches(edges, count), NEW seen, at[2] \subseteq seen, seen \subseteq 1..count,
           NEW k \in (1..count) \ seen, k \in Reach(edges, forbidden, at[1]), at[3][k] # 0,
           NEW owner \in Owners(edges, count),
           Settled(edges, count, forbidden, <<at[3][k], seen \cup {k}, at[3]>>, owner)
    PROVE  Settled(edges, count, forbidden, at, [owner EXCEPT ![k] = at[1]])
<1> DEFINE p == at[1]
           q == at[3][k]
           K == (1..count) \ at[2]
           T == seen \cup {k}
           R == (1..count) \ T
           old == at[3]
           new == [owner EXCEPT ![k] = p]
<1>1. /\ p \in DOMAIN edges /\ DOMAIN old = 1..count /\ 0 \notin DOMAIN edges
      /\ DOMAIN owner = 1..count
  BY SearchIsTyped DEF Owners, AreEdges
<1> SUFFICES ASSUME Matching(edges, forbidden, old), Unshared(old, count, at[2]),
                    p \notin Having(old, count, at[2])
             PROVE  /\ \A j \in at[2] : new[j] = old[j]
                    /\ Matching(edges, forbidden, new)
                    /\ Unshared(new, count, at[2])
                    /\ Having(new, count, at[2]) = Having(old, count, at[2]) \cup {p}
  BY DEF Settled
<1>2. /\ DOMAIN new = 1..count /\ new[k] = p /\ \A j \in (1..count) \ {k} : new[j] = owner[j]
      /\ k \in K /\ k \notin seen /\ k \in 1..count /\ p # 0 /\ old[k] = q /\ q # 0
      /\ K \subseteq 1..count /\ R \subseteq K /\ k \notin R
      /\ \A j \in 1..count : j \in seen \/ j = k \/ j \in R
      /\ \A j \in 1..count : j \in at[2] \/ j \in K
  BY <1>1
<1>3. \A j \in K : old[j] # p
  BY <1>2 DEF Having
<1>4. \A i, j \in K : old[i] = old[j] /\ old[i] # 0 => i = j
  BY DEF Unshared
<1>5. /\ \A j \in T : owner[j] = old[j]
      /\ Matching(edges, forbidden, owner)
      /\ \A i, j \in R : owner[i] = owner[j] /\ owner[i] # 0 => i = j
      /\ {owner[j] : j \in R} \ {0} = ({old[j] : j \in R} \ {0}) \cup {q}
  <2> DEFINE next == <<q, T, old>>
  <2>1. next[1] = q /\ next[2] = T /\ next[3] = old
    OBVIOUS
  <2>2. Settled(edges, count, forbidden, next, owner)
    OBVIOUS
  <2> HIDE DEF next
  <2>3. Unshared(old, count, T)
    <3> HIDE DEF old, T
    <3> QED BY <1>2, <1>4 DEF Unshared, R
  <2>4. q \notin Having(old, count, T)
    <3>1. Having(old, count, T) = {old[j] : j \in R} \ {0}
      BY DEF Having
    <3> HIDE DEF old, T, R, q
    <3> QED BY <1>2, <1>4, <3>1
  <2>5. /\ \A j \in T : owner[j] = old[j]
        /\ Matching(edges, forbidden, owner)
        /\ Unshared(owner, count, T)
        /\ Having(owner, count, T) = Having(old, count, T) \cup {q}
    <3> HIDE DEF old, T, R, q
    <3> QED BY <2>1, <2>2, <2>3, <2>4 DEF Settled
  <2>6. /\ \A i, j \in R : owner[i] = owner[j] /\ owner[i] # 0 => i = j
        /\ {owner[j] : j \in R} \ {0} = ({old[j] : j \in R} \ {0}) \cup {q}
    <3> HIDE DEF old, T, q
    <3> QED BY <2>5 DEF Unshared, Having, R
  <2> QED BY <2>5, <2>6
<1>6. Having(new, count, at[2]) = {new[j] : j \in K} \ {0}
      /\ Having(old, count, at[2]) = {old[j] : j \in K} \ {0}
  BY DEF Having
<1>7. at[2] \subseteq (1..count) \ {k} /\ at[2] \subseteq T /\ seen \subseteq T
      /\ k \in Reach(edges, forbidden, p)
  BY SearchIsTyped
<1> HIDE DEF p, K, old, new, T, R, q
<1>8. Matching(edges, forbidden, new)
  BY <1>1, <1>2, <1>5, <1>7 DEF Matching
\* Those not seen later were someone's before, or now are the owner's.
<1>9. \A j \in R : owner[j] # 0 => owner[j] = q \/ \E i \in R : owner[j] = old[i]
  BY <1>5
<1>10. \A j \in R : owner[j] # p
  BY <1>2, <1>3, <1>9
<1>11. \A j \in K : \/ j = k /\ new[j] = p
                    \/ j \in R /\ new[j] = owner[j]
                    \/ j \in seen /\ j # k /\ new[j] = old[j]
  <2> SUFFICES ASSUME NEW j \in K, j # k
               PROVE  (j \in R /\ new[j] = owner[j]) \/ (j \in seen /\ new[j] = old[j])
    BY <1>2
  <2>1. j \in 1..count /\ new[j] = owner[j]
    BY <1>2
  <2>2. j \in seen => owner[j] = old[j]
    BY <1>5, <1>7
  <2> QED BY <1>2, <2>1, <2>2
<1>12. \A i \in K, j \in R : i \in seen /\ old[i] # 0 => old[i] # owner[j]
  <2> SUFFICES ASSUME NEW i \in K, NEW j \in R, i \in seen, old[i] # 0, old[i] = owner[j]
               PROVE  FALSE
    OBVIOUS
  <2>1. i # k /\ i \notin R
    BY <1>2 DEF R, T
  <2>2. CASE owner[j] = q
    <3>1. k \in K /\ old[i] = old[k]
      BY <1>2, <2>2
    <3> QED BY <1>4, <2>1, <3>1
  <2>3. CASE \E h \in R : owner[j] = old[h]
    <3>1. PICK h \in R : owner[j] = old[h]
      BY <2>3
    <3>2. h \in K /\ old[i] = old[h]
      BY <1>2, <3>1
    <3> QED BY <1>4, <2>1, <3>2
  <2> QED BY <1>9, <2>2, <2>3
<1>13. \A i, j \in K : new[i] = new[j] /\ new[i] # 0 => i = j
  <2> SUFFICES ASSUME NEW i \in K, NEW j \in K, new[i] = new[j], new[i] # 0 PROVE i = j
    OBVIOUS
  <2>1. CASE i = k
    BY <1>2, <1>3, <1>10, <1>11, <2>1
  <2>2. CASE i \in R /\ new[i] = owner[i]
    <3>1. new[j] = owner[i] /\ owner[i] # 0 /\ owner[i] # p
      BY <1>10, <2>2
    <3>2. CASE j \in R /\ new[j] = owner[j]
      BY <1>5, <2>2, <3>1, <3>2
    <3>3. CASE j \in seen /\ j # k /\ new[j] = old[j]
      BY <1>12, <2>2, <3>1, <3>3
    <3> QED BY <1>11, <3>1, <3>2, <3>3
  <2>3. CASE i \in seen /\ i # k /\ new[i] = old[i]
    <3>1. new[j] = old[i] /\ old[i] # 0
      BY <2>3
    <3>2. CASE j = k /\ new[j] = p
      BY <1>3, <3>1, <3>2
    <3>3. CASE j \in R /\ new[j] = owner[j]
      BY <1>12, <2>3, <3>1, <3>3
    <3>4. CASE j \in seen /\ j # k /\ new[j] = old[j]
      BY <1>4, <3>1, <3>4
    <3> QED BY <1>11, <3>2, <3>3, <3>4
  <2> QED BY <1>11, <2>1, <2>2, <2>3
<1>14. ASSUME NEW j \in K, new[j] # 0 PROVE new[j] = p \/ \E i \in K : new[j] = old[i]
  BY <1>2, <1>9, <1>11, <1>14
<1>15. ASSUME NEW j \in K, old[j] # 0 PROVE \E i \in K : new[i] = old[j]
  <2>1. CASE j = k
    <3>1. PICK i \in R : owner[i] = q
      BY <1>5, <1>2
    <3> QED BY <1>2, <2>1, <3>1
  <2>2. CASE j \in R
    <3>1. PICK i \in R : owner[i] = old[j]
      BY <1>5, <1>15, <2>2
    <3> QED BY <1>2, <3>1
  <2>3. CASE j \in seen
    BY <1>2, <1>5, <1>7, <2>3
  <2> QED BY <1>2, <2>1, <2>2, <2>3
<1>16. {new[j] : j \in K} \ {0} = ({old[j] : j \in K} \ {0}) \cup {p}
  BY <1>2, <1>14, <1>15
<1>17. \A j \in at[2] : new[j] = old[j]
  BY <1>2, <1>5, <1>7
<1> QED BY <1>6, <1>8, <1>13, <1>16, <1>17 DEF Unshared, K

\* One candidate more, if searches that have seen more do as they should.
LEMMA OneMoreTried ==
    ASSUME NEW edges, NEW count, AreEdges(edges, count), NEW forbidden, NEW augment,
           NEW at \in Searches(edges, count),
           \A next \in Searches(edges, count) : Unseen(count, next) < Unseen(count, at) =>
              /\ augment[next] \in Onward(edges, count, next)
              /\ Searched(edges, count, forbidden, next, augment[next]),
           NEW s \in Onward(edges, count, at), SoFar(edges, count, forbidden, at, s),
           NEW k \in 1..count
    PROVE  LET t == Tried(augment, edges, forbidden, at[1], s, k)
           IN  /\ SoFar(edges, count, forbidden, at, t)
               /\ ~t.found => ~s.found /\ s.seen \subseteq t.seen
               /\ ~t.found /\ k \in Reach(edges, forbidden, at[1]) => k \in t.seen
<1> DEFINE t == Tried(augment, edges, forbidden, at[1], s, k)
           free == [s EXCEPT !.found = TRUE, !.seen = @ \cup {k}]
           next == <<s.owner[k], s.seen \cup {k}, s.owner>>
           moved == augment[next]
<1>1. /\ at[1] \in DOMAIN edges /\ at[2] \subseteq s.seen /\ s.seen \subseteq 1..count
      /\ s.owner \in Owners(edges, count) /\ s \in SearchStates(edges, count)
  BY SearchIsTyped DEF Onward, SearchStates
<1>2. k \in 1..count
  OBVIOUS
<1>3. CASE s.found \/ k \notin edges[at[1]] \/ forbidden = <<at[1], k>> \/ k \in s.seen
  BY <1>3 DEF Tried, Reach
<1>4. CASE ~(s.found \/ k \notin edges[at[1]] \/ forbidden = <<at[1], k>> \/ k \in s.seen)
  <2>1. k \in Reach(edges, forbidden, at[1]) /\ k \notin at[2]
    BY <1>1, <1>4 DEF Reach
  <2>2. s.owner = at[3] /\ Closed(edges, forbidden, at[3], at[2], s.seen)
    BY <1>4 DEF SoFar
  <2>3. CASE s.owner[k] = 0
    <3>1. free.found /\ free.owner = s.owner /\ t = Claimed(free, at[1], k)
      BY <1>1, <1>4, <2>3 DEF Tried, SearchStates
    <3> HIDE DEF free, t
    <3>2. t = [free EXCEPT !.owner[k] = at[1]]
      BY <3>1 DEF Claimed
    <3>3. free \in SearchStates(edges, count)
      BY <1>1, <1>2 DEF free, SearchStates
    <3>4. t.found /\ t.owner = [at[3] EXCEPT ![k] = at[1]]
      BY <2>2, <3>1, <3>2, <3>3 DEF SearchStates
    <3>5. Settled(edges, count, forbidden, at, t.owner)
      BY <1>2, <2>1, <2>2, <2>3, <3>4, FreeIsTaken
    <3> QED BY <3>4, <3>5 DEF SoFar, t
  <2>4. CASE s.owner[k] # 0
    <3>1. /\ next \in Searches(edges, count) /\ moved \in Onward(edges, count, next)
          /\ Searched(edges, count, forbidden, next, moved)
      BY <1>2, <1>4, <2>4, OwnersAreNext
    <3>2. t = Claimed(moved, at[1], k)
      BY <1>4, <2>4 DEF Tried
    <3>3. next[1] = at[3][k] /\ next[2] = s.seen \cup {k} /\ next[3] = at[3]
      BY <2>2
    <3>4. next = <<at[3][k], s.seen \cup {k}, at[3]>>
      BY <2>2
    <3> HIDE DEF t, moved, next
    <3>5. /\ moved \in SearchStates(edges, count) /\ s.seen \cup {k} \subseteq moved.seen
          /\ moved.owner \in Owners(edges, count)
      BY <3>1, <3>3 DEF Onward, SearchStates
    <3>6. CASE moved.found
      <4>1. t = [moved EXCEPT !.owner[k] = at[1]]
        BY <3>2, <3>6 DEF Claimed
      <4>2. t.found /\ t.owner = [moved.owner EXCEPT ![k] = at[1]]
        BY <3>5, <3>6, <4>1 DEF SearchStates
      <4>3. Settled(edges, count, forbidden, next, moved.owner)
        BY <3>1, <3>6 DEF Searched, SoFar
      <4>4. Settled(edges, count, forbidden, at, t.owner)
        <5> DEFINE seen == s.seen
        <5>1. at[2] \subseteq seen /\ seen \subseteq 1..count /\ k \in (1..count) \ seen
          BY <1>1, <1>2, <1>4
        <5>2. Settled(edges, count, forbidden, <<at[3][k], seen \cup {k}, at[3]>>, moved.owner)
          BY <3>4, <4>3
        <5>3. at[3][k] # 0
          BY <2>2, <2>4
        <5> HIDE DEF seen
        <5>4. Settled(edges, count, forbidden, at, [moved.owner EXCEPT ![k] = at[1]])
          BY <2>1, <3>5, <5>1, <5>2, <5>3, OwnerMoves
        <5> QED BY <4>2, <5>4
      <4> QED BY <4>2, <4>4 DEF SoFar, t
    <3>7. CASE ~moved.found
      <4>1. t = moved
        BY <3>2, <3>7 DEF Claimed
      <4>2. /\ moved.owner = at[3] /\ Closed(edges, forbidden, at[3], s.seen \cup {k}, moved.seen)
            /\ Reach(edges, forbidden, at[3][k]) \subseteq moved.seen
        BY <3>1, <3>3, <3>7 DEF Searched, SoFar
      <4>3. Closed(edges, forbidden, at[3], at[2], moved.seen)
        <5> SUFFICES ASSUME NEW j \in moved.seen \ at[2]
                     PROVE  at[3][j] # 0 /\ Reach(edges, forbidden, at[3][j]) \subseteq moved.seen
          BY DEF Closed
        <5>1. CASE j = k
          BY <2>2, <2>4, <4>2, <5>1
        <5>2. CASE j \in s.seen
          BY <2>2, <3>5, <5>2 DEF Closed
        <5>3. CASE j \notin s.seen \cup {k}
          BY <4>2, <5>3 DEF Closed
        <5> QED BY <5>1, <5>2, <5>3
      <4> QED BY <1>4, <3>5, <3>7, <4>1, <4>2, <4>3 DEF SoFar, t
    <3> QED BY <3>6, <3>7
  <2> QED BY <2>3, <2>4
<1> QED BY <1>3, <1>4

\* A search from some owners finds a candidate by moving owners on, or has seen
\* all that it could reach.
LEMMA SearchesAreRight ==
    ASSUME NEW edges, NEW count, AreEdges(edges, count), NEW forbidden,
           NEW augment, Searching(augment, edges, count, forbidden)
    PROVE  \A at \in Searches(edges, count) : Searched(edges, count, forbidden, at, augment[at])
<1> DEFINE D == Searches(edges, count)
           Right(at) == Searched(edges, count, forbidden, at, augment[at])
           odd == {Unseen(count, at) : at \in {at \in D : ~Right(at)}}
<1> SUFFICES ASSUME odd # {} PROVE FALSE
  OBVIOUS
<1>1. \A at \in D : Unseen(count, at) \in Nat
  BY UnseenIsANumber DEF AreEdges
<1>2. odd \subseteq Nat
  <2> HIDE DEF D, Right
  <2> QED BY <1>1
<1> HIDE DEF odd, D, Right
<1>3. PICK m \in odd : \A n \in odd : m <= n
  BY <1>2, LeastNatural
<1>4. PICK at \in D : m = Unseen(count, at) /\ ~Right(at)
  BY <1>3 DEF odd
<1>5. ASSUME NEW next \in D, Unseen(count, next) < Unseen(count, at) PROVE Right(next)
  <2>1. ~(m <= Unseen(count, next))
    BY <1>1, <1>4, <1>5
  <2> QED BY <1>3, <2>1 DEF odd
<1>6. \A next \in Searches(edges, count) : Unseen(count, next) < Unseen(count, at) =>
         /\ augment[next] \in Onward(edges, count, next)
         /\ Searched(edges, count, forbidden, next, augment[next])
  BY <1>5, SearchesGoOn DEF D, Right
<1> DEFINE N == count
           V == Onward(edges, count, at)
<1>16. PICK path : IsTrial(path, augment, forbidden, edges, count, at, V)
  <2>1. GoesOn(augment, edges, count, at)
    BY <1>6 DEF GoesOn
  <2>2. at \in Searches(edges, count)
    BY DEF D
  <2> QED BY <2>1, <2>2, SearchPath
<1>7. /\ path \in [0..N -> V] /\ path[0] = Begun(at)
      /\ \A n \in 1..N : path[n] = Tried(augment, edges, forbidden, at[1], path[n - 1], n)
      /\ path[N] = AllTried(augment, forbidden, edges, count, at)
  BY <1>16 DEF IsTrial
<1>8. N \in Nat
  BY DEF AreEdges
<1>9. augment[at] = path[N]
  BY <1>7 DEF Searching, D
<1> DEFINE Well(n) == /\ SoFar(edges, count, forbidden, at, path[n])
                      /\ ~path[n].found =>
                            \A k \in 1..n : k \in Reach(edges, forbidden, at[1]) => k \in path[n].seen
           ill == {n \in 0..N : ~Well(n)}
<1>10. Well(0)
  <2>1. path[0].found = FALSE /\ path[0].owner = at[3] /\ path[0].seen = at[2]
    BY <1>7 DEF Begun
  <2> QED BY <2>1 DEF SoFar, Closed
<1>11. ASSUME NEW n \in 1..N, Well(n - 1) PROVE Well(n)
  <2> DEFINE s == path[n - 1]
             t == path[n]
  <2>1. n - 1 \in 0..N
    BY <1>8
  <2>2. s \in V /\ t = Tried(augment, edges, forbidden, at[1], s, n)
    BY <1>7, <2>1
  <2>3. SoFar(edges, count, forbidden, at, s)
    BY <1>11
  <2> HIDE DEF s, t
  <2>4. /\ SoFar(edges, count, forbidden, at, t)
        /\ ~t.found => ~s.found /\ s.seen \subseteq t.seen
        /\ ~t.found /\ n \in Reach(edges, forbidden, at[1]) => n \in t.seen
    BY <1>6, <2>2, <2>3, OneMoreTried DEF D
  <2>5. ASSUME ~t.found, NEW k \in 1..n, k \in Reach(edges, forbidden, at[1]) PROVE k \in t.seen
    <3>1. CASE k = n
      BY <2>4, <2>5, <3>1
    <3>2. CASE k # n
      <4>1. k \in 1..(n - 1)
        BY <1>8, <3>2
      <4>2. k \in s.seen
        BY <1>11, <2>4, <2>5, <4>1 DEF s
      <4> QED BY <2>4, <2>5, <4>2
    <3> QED BY <3>1, <3>2
  <2> QED BY <2>4, <2>5 DEF t
<1>12. ill = {}
  <2> SUFFICES ASSUME ill # {} PROVE FALSE
    OBVIOUS
  <2> HIDE DEF Well, N
  <2>1. ill \subseteq Nat
    OBVIOUS
  <2> HIDE DEF ill
  <2>2. PICK n \in ill : \A other \in ill : n <= other
    BY <2>1, LeastNatural
  <2>3. n \in 0..N /\ ~Well(n)
    BY <2>2 DEF ill
  <2>4. n \in 1..N /\ n - 1 \in 0..N /\ ~(n <= n - 1)
    BY <1>8, <1>10, <2>3
  <2>5. Well(n - 1)
    BY <2>2, <2>4 DEF ill
  <2> QED BY <1>11, <2>3, <2>4, <2>5
<1>13. Well(N)
  <2> HIDE DEF Well
  <2> QED BY <1>8, <1>12
<1>14. ~path[N].found => Reach(edges, forbidden, at[1]) \subseteq path[N].seen
  <2>1. Reach(edges, forbidden, at[1]) \subseteq 1..N
    BY SearchIsTyped DEF Reach, AreEdges, D
  <2> QED BY <1>13, <2>1
<1>15. Searched(edges, count, forbidden, at, path[N])
  BY <1>13, <1>14 DEF Searched
<1> QED BY <1>4, <1>9, <1>15 DEF Right

-----------------------------------------------------------------------------
\* What a search from these owners comes to.
LEMMA AugmentedIsSearched ==
    ASSUME NEW edges, NEW count, AreEdges(edges, count), NEW forbidden,
           NEW p \in DOMAIN edges, NEW owners \in Owners(edges, count)
    PROVE  LET at == <<p, {}, owners>>
               found == Augmented(edges, count, forbidden, p, owners)
           IN  found \in SearchStates(edges, count) /\ Searched(edges, count, forbidden, at, found)
<1> DEFINE augment == CHOOSE search : Searching(search, edges, count, forbidden)
           at == <<p, {}, owners>>
<1>1. Searching(augment, edges, count, forbidden)
  BY SearchesExist
<1>2. at \in Searches(edges, count)
  BY DEF Searches, Owners
<1>3. Augmented(edges, count, forbidden, p, owners) = augment[at]
  BY SearchIsChosen
<1> HIDE DEF augment, at
<1>4. augment[at] \in Onward(edges, count, at) /\ Searched(edges, count, forbidden, at, augment[at])
  BY <1>1, <1>2, SearchesGoOn, SearchesAreRight
<1> QED BY <1>3, <1>4 DEF Onward, at

Fresh(count) == [found |-> TRUE, seen |-> {}, owner |-> [k \in 1..count |-> 0]]
Given(edges, count, forbidden, state, p) ==
    IF ~state.found THEN state ELSE Augmented(edges, count, forbidden, p, state.owner)

\* One public route after the other.
AllGiven(edges, count, forbidden) ==
    FoldLeft(LAMBDA state, p :
                 IF ~state.found THEN state
                 ELSE Augmented(edges, count, forbidden, p, state.owner),
             [found |-> TRUE, seen |-> {}, owner |-> [k \in 1..count |-> 0]],
             [p \in DOMAIN edges |-> p])

LEMMA MatchingIsAssigned ==
    ASSUME NEW edges, NEW count, NEW forbidden
    PROVE  FindPerfectMatching(edges, count, forbidden) =
              AssignmentOf(AllGiven(edges, count, forbidden), edges, count)
BY DEF FindPerfectMatching, AllGiven, FoldLeft, MapThenFoldSet

IsGiving(path, edges, N, count, forbidden, V) ==
    /\ path \in [0..N -> V] /\ path[0] = Fresh(count)
    /\ \A n \in 1..N : path[n] = Given(edges, count, forbidden, path[n - 1], n)
    /\ path[N] = AllGiven(edges, count, forbidden)

LEMMA GivingUnfolds ==
    ASSUME NEW edges, NEW N \in Nat, DOMAIN edges = 1..N, NEW count, NEW forbidden,
           NEW V, Fresh(count) \in V,
           \A state \in V, p \in 1..N : Given(edges, count, forbidden, state, p) \in V
    PROVE  \E path : IsGiving(path, edges, N, count, forbidden, V)
<1> DEFINE list == [p \in 1..N |-> p]
           base == Fresh(count)
           Grown(s, i) == Given(edges, count, forbidden, s, list[i])
           move == [x \in V \X (1..N) |-> Grown(x[1], x[2])]
           Iter(g) == [T \in SUBSET (1..N) |->
                          IF T = {} THEN base ELSE Grown(g[T \ {Max(T)}], Max(T))]
           f == CHOOSE g : g = Iter(g)
           path == [n \in 0..N |-> f[1..n]]
<1>1. N \in Nat /\ DOMAIN list = 1..N /\ base \in V /\ \A i \in 1..N : list[i] = i
  OBVIOUS
<1>2. \A s \in V, i \in 1..N : Grown(s, i) \in V
  BY <1>1
<1>3. move \in [V \X (1..N) -> V]
  <2> HIDE DEF Grown
  <2> QED BY <1>2
<1>4. PICK g \in [SUBSET (1..N) -> V] : Folds(g, N, base, move)
  <2> HIDE DEF move, base
  <2>1. N \in Nat /\ base \in V
    BY <1>1
  <2> QED BY <1>3, <2>1, FoldsAreDefined
<1>5. g = Iter(g)
  <2>1. ASSUME NEW T \in SUBSET (1..N) PROVE g[T] = Iter(g)[T]
    <3>1. CASE T = {}
      <4> HIDE DEF base
      <4> QED BY <1>4, <3>1 DEF Folds
    <3>2. CASE T # {}
      <4>1. Max(T) \in 1..N
        <5> QED BY <1>1, <3>2, LargestOfSome
      <4>2. g[T \ {Max(T)}] \in V
        <5> QED OBVIOUS
      <4>3. <<g[T \ {Max(T)}], Max(T)>> \in V \X (1..N)
        BY <4>1, <4>2
      <4>4. move[<<g[T \ {Max(T)}], Max(T)>>] = Grown(g[T \ {Max(T)}], Max(T))
        <5> HIDE DEF Grown
        <5> QED BY <4>3
      <4> HIDE DEF move, Grown, base
      <4>5. g[T] = move[<<g[T \ {Max(T)}], Max(T)>>]
        BY <1>4, <3>2 DEF Folds
      <4> QED BY <3>2, <4>4, <4>5
    <3> QED BY <3>1, <3>2
  <2>2. Iter(g) = [T \in SUBSET (1..N) |-> Iter(g)[T]]
    <3> HIDE DEF Grown, base
    <3> QED OBVIOUS
  <2>3. g = [T \in SUBSET (1..N) |-> g[T]]
    <3> QED OBVIOUS
  <2> HIDE DEF Iter
  <2> QED BY <2>1, <2>2, <2>3
<1>6. f = Iter(f)
  <2> HIDE DEF Iter
  <2> QED BY <1>5
<1>7. AllGiven(edges, count, forbidden) = f[1..N]
  BY <1>1 DEF AllGiven, FoldLeft, MapThenFoldSet, Given, Fresh
<1> HIDE DEF f, Grown, base
<1>8. f[{}] = base
  BY <1>6
<1>9. ASSUME NEW n \in 1..N PROVE f[1..n] = Grown(f[1..(n - 1)], n)
  <2>1. Max(1..n) = n /\ (1..n) \ {n} = 1..(n - 1) /\ 1..n # {}
    <3>1. n \in Nat \ {0}
      BY <1>1
    <3> QED BY <3>1, LargestOfPrefix
  <2>2. 1..n \in SUBSET (1..N)
    BY <1>1
  <2>3. Iter(f)[1..n] = Grown(f[1..(n - 1)], n)
    <3> QED BY <2>1, <2>2
  <2> QED BY <1>6, <2>3
<1>10. ASSUME NEW n \in 0..N PROVE f[1..n] \in V
  <2> DEFINE odd == {m \in 0..N : f[1..m] \notin V}
  <2> SUFFICES ASSUME odd # {} PROVE FALSE
    OBVIOUS
  <2>1. odd \subseteq Nat
    BY <1>1
  <2> HIDE DEF odd
  <2>2. PICK m \in odd : \A other \in odd : m <= other
    BY <2>1, LeastNatural
  <2>3. m \in 0..N /\ f[1..m] \notin V
    BY <2>2 DEF odd
  <2>4. m # 0
    <3>1. 1..0 = {}
      OBVIOUS
    <3> QED BY <1>1, <1>8, <2>3, <3>1
  <2>5. m \in 1..N /\ m - 1 \in 0..N /\ ~(m <= m - 1)
    BY <1>1, <2>3, <2>4
  <2>6. f[1..(m - 1)] \in V
    BY <2>2, <2>5 DEF odd
  <2>7. Grown(f[1..(m - 1)], m) \in V
    BY <1>2, <2>5, <2>6
  <2> QED BY <1>9, <2>3, <2>5, <2>7
<1>11. path \in [0..N -> V]
  BY <1>10
<1>12. path[0] = base /\ path[N] = f[1..N]
  <2>1. 1..0 = {}
    OBVIOUS
  <2> QED BY <1>1, <1>8, <2>1
<1>13. \A n \in 1..N : path[n] = Grown(path[n - 1], n)
  <2> SUFFICES ASSUME NEW n \in 1..N PROVE path[n] = Grown(path[n - 1], n)
    OBVIOUS
  <2>1. n \in 0..N /\ n - 1 \in 0..N
    BY <1>1
  <2>2. path[n] = f[1..n] /\ path[n - 1] = f[1..(n - 1)]
    BY <2>1
  <2> HIDE DEF path
  <2> QED BY <1>9, <2>2
<1> HIDE DEF path
<1>14. \A n \in 1..N : path[n] = Given(edges, count, forbidden, path[n - 1], n)
  BY <1>1, <1>13 DEF Grown
<1> QED BY <1>7, <1>11, <1>12, <1>14 DEF base, IsGiving

\* Every way to give each public route a candidate of its own it may have.
Perfect(edges, count, forbidden) ==
    {m \in [DOMAIN edges -> 1..count] :
        /\ \A p, q \in DOMAIN edges : m[p] = m[q] => p = q
        /\ \A p \in DOMAIN edges : m[p] \in Reach(edges, forbidden, p)}

\* If a search finds nothing then there is no way at all: those whose
\* candidates it has seen, and the one it was for, are too many for them.
LEMMA TooManyForThem ==
    ASSUME NEW edges, NEW count, AreEdges(edges, count), IsFiniteSet(DOMAIN edges), NEW forbidden,
           NEW p \in DOMAIN edges, NEW owner \in Owners(edges, count), NEW seen,
           seen \subseteq 1..count, Unshared(owner, count, {}), p \notin Having(owner, count, {}),
           Closed(edges, forbidden, owner, {}, seen), Reach(edges, forbidden, p) \subseteq seen
    PROVE  Perfect(edges, count, forbidden) = {}
<1> SUFFICES ASSUME NEW m \in Perfect(edges, count, forbidden) PROVE FALSE
  OBVIOUS
<1> DEFINE them == {p} \cup {owner[k] : k \in seen}
           shift == [q \in them |-> owner[m[q]]]
<1>1. \A k \in seen : owner[k] # 0 /\ owner[k] \in DOMAIN edges /\ owner[k] # p
                      /\ Reach(edges, forbidden, owner[k]) \subseteq seen
  <2> SUFFICES ASSUME NEW k \in seen
               PROVE  owner[k] # 0 /\ owner[k] \in DOMAIN edges /\ owner[k] # p
                      /\ Reach(edges, forbidden, owner[k]) \subseteq seen
    OBVIOUS
  <2>1. owner[k] # 0 /\ Reach(edges, forbidden, owner[k]) \subseteq seen
    BY DEF Closed
  <2>2. owner[k] \in DOMAIN edges
    BY <2>1 DEF Owners
  <2>3. owner[k] \in Having(owner, count, {})
    BY <2>1 DEF Having
  <2> QED BY <2>1, <2>2, <2>3
<1>2. \A j, k \in seen : owner[j] = owner[k] => j = k
  BY <1>1 DEF Unshared
<1>3. them \subseteq DOMAIN edges /\ \A q \in them : Reach(edges, forbidden, q) \subseteq seen
  BY <1>1
<1>4. \A q \in them : m[q] \in seen
  BY <1>3 DEF Perfect
<1>5. \A q, r \in them : m[q] = m[r] => q = r
  BY <1>3 DEF Perfect
<1>6. p \in them /\ \A k \in seen : owner[k] \in them \ {p}
  BY <1>1
<1> HIDE DEF them
<1>7. IsFiniteSet(them)
  BY <1>3, FS_Subset
<1>8. IsFiniteSet(them \ {p}) /\ Cardinality(them \ {p}) = Cardinality(them) - 1
  BY <1>6, <1>7, FS_RemoveElement
<1>9. Cardinality(them) \in Nat
  BY <1>7, FS_CardinalityType
<1>10. shift \in [them -> them \ {p}]
  BY <1>4, <1>6
<1>11. PICK q, r \in them : q # r /\ shift[q] = shift[r]
  <2>1. Cardinality(them \ {p}) < Cardinality(them)
    BY <1>8, <1>9
  <2> HIDE DEF shift
  <2> QED BY <1>7, <1>8, <1>10, <2>1, FS_PigeonHole
<1>12. owner[m[q]] = owner[m[r]]
  BY <1>11
<1> QED BY <1>2, <1>4, <1>5, <1>11, <1>12

\* What has been given to the first n public routes, or that it cannot be.
GivenTo(edges, count, forbidden, n, s) ==
    IF s.found THEN /\ Matching(edges, forbidden, s.owner)
                    /\ Unshared(s.owner, count, {})
                    /\ Having(s.owner, count, {}) = 1..n
               ELSE Perfect(edges, count, forbidden) = {}

LEMMA OneMoreGiven ==
    ASSUME NEW edges, NEW count, AreEdges(edges, count), NEW N \in Nat, DOMAIN edges = 1..N,
           NEW forbidden, NEW s \in SearchStates(edges, count), NEW n \in 1..N,
           GivenTo(edges, count, forbidden, n - 1, s)
    PROVE  GivenTo(edges, count, forbidden, n, Given(edges, count, forbidden, s, n))
<1>1. CASE ~s.found
  BY <1>1 DEF GivenTo, Given
<1>2. CASE s.found
  <2> DEFINE at == <<n, {}, s.owner>>
             t == Augmented(edges, count, forbidden, n, s.owner)
  <2>1. s.owner \in Owners(edges, count)
    BY DEF SearchStates
  <2>2. t \in SearchStates(edges, count) /\ Searched(edges, count, forbidden, at, t)
    BY <2>1, AugmentedIsSearched
  <2>3. Given(edges, count, forbidden, s, n) = t
    BY <1>2 DEF Given
  <2>4. at[1] = n /\ at[2] = {} /\ at[3] = s.owner
    OBVIOUS
  <2>5. /\ Matching(edges, forbidden, s.owner) /\ Unshared(s.owner, count, {})
        /\ Having(s.owner, count, {}) = 1..(n - 1)
    BY <1>2 DEF GivenTo
  <2>6. n \notin 1..(n - 1) /\ (1..(n - 1)) \cup {n} = 1..n
    OBVIOUS
  <2> HIDE DEF at, t
  <2>7. CASE t.found
    <3>1. Settled(edges, count, forbidden, at, t.owner)
      BY <2>2, <2>7 DEF Searched, SoFar
    <3>2. /\ Matching(edges, forbidden, t.owner) /\ Unshared(t.owner, count, {})
          /\ Having(t.owner, count, {}) = Having(s.owner, count, {}) \cup {n}
      BY <2>4, <2>5, <2>6, <3>1 DEF Settled
    <3> QED BY <2>3, <2>5, <2>6, <2>7, <3>2 DEF GivenTo
  <2>8. CASE ~t.found
    <3>1. Closed(edges, forbidden, s.owner, {}, t.seen) /\ Reach(edges, forbidden, n) \subseteq t.seen
      BY <2>2, <2>4, <2>8 DEF Searched, SoFar
    <3>2. t.seen \subseteq 1..count
      BY <2>2 DEF SearchStates
    <3>3. IsFiniteSet(DOMAIN edges)
      BY FS_Interval
    <3>4. Perfect(edges, count, forbidden) = {}
      BY <2>1, <2>5, <2>6, <3>1, <3>2, <3>3, TooManyForThem
    <3> QED BY <2>3, <2>8, <3>4 DEF GivenTo
  <2> QED BY <2>7, <2>8
<1> QED BY <1>1, <1>2

\* A public route has what its assignment says.
LEMMA AssignmentIsPerfect ==
    ASSUME NEW edges, NEW count, AreEdges(edges, count), NEW N \in Nat, DOMAIN edges = 1..N,
           NEW forbidden, NEW s \in SearchStates(edges, count),
           GivenTo(edges, count, forbidden, N, s), s.found
    PROVE  AssignmentOf(s, edges, count) \in Perfect(edges, count, forbidden)
<1> DEFINE a == [p \in DOMAIN edges |-> CHOOSE k \in 1..count : s.owner[k] = p]
<1>1. /\ Matching(edges, forbidden, s.owner) /\ Having(s.owner, count, {}) = 1..N
      /\ s.owner \in Owners(edges, count)
  BY DEF GivenTo, SearchStates
<1>2. \A p \in DOMAIN edges : \E k \in 1..count : s.owner[k] = p
  BY <1>1 DEF Having
<1>3. AssignmentOf(s, edges, count) = a
  BY <1>2 DEF AssignmentOf
<1>4. \A p \in DOMAIN edges : a[p] \in 1..count /\ s.owner[a[p]] = p
  BY <1>2
<1>5. a = [p \in DOMAIN edges |-> a[p]]
  OBVIOUS
<1> HIDE DEF a
<1>6. a \in [DOMAIN edges -> 1..count]
  BY <1>4, <1>5
<1>7. \A p, q \in DOMAIN edges : a[p] = a[q] => p = q
  BY <1>4
<1>8. \A p \in DOMAIN edges : a[p] \in Reach(edges, forbidden, p)
  <2> SUFFICES ASSUME NEW p \in DOMAIN edges PROVE a[p] \in Reach(edges, forbidden, p)
    OBVIOUS
  <2>1. a[p] \in DOMAIN s.owner /\ s.owner[a[p]] = p /\ p # 0
    BY <1>1, <1>4 DEF Owners, AreEdges
  <2> QED BY <1>1, <2>1 DEF Matching
<1> QED BY <1>3, <1>6, <1>7, <1>8 DEF Perfect

(***************************************************************************)
(* Moving owners along augmenting paths finds a perfect matching if there  *)
(* is one, for any candidates and whichever pair is forbidden              *)
(* (orchestrator.py:356-384).                                              *)
(***************************************************************************)
THEOREM MatchingsAreFound ==
    ASSUME NEW edges, NEW count, AreEdges(edges, count), NEW N \in Nat \ {0}, DOMAIN edges = 1..N,
           NEW forbidden
    PROVE  LET matching == FindPerfectMatching(edges, count, forbidden)
           IN  IF Perfect(edges, count, forbidden) = {} THEN matching = NoMatching
               ELSE matching \in Perfect(edges, count, forbidden) /\ matching # NoMatching
<1> DEFINE V == SearchStates(edges, count)
<1>1. Fresh(count) \in V /\ 0 \notin DOMAIN edges
  BY DEF Fresh, SearchStates, Owners
<1>2. ASSUME NEW s \in V, NEW p \in 1..N PROVE Given(edges, count, forbidden, s, p) \in V
  <2>1. s.owner \in Owners(edges, count)
    BY DEF SearchStates
  <2> QED BY <2>1, AugmentedIsSearched DEF Given
<1>3. \E path : IsGiving(path, edges, N, count, forbidden, V)
  <2>1. \A s \in V, p \in 1..N : Given(edges, count, forbidden, s, p) \in V
    BY <1>2
  <2>2. N \in Nat /\ DOMAIN edges = 1..N /\ Fresh(count) \in V
    BY <1>1
  <2> QED BY ONLY <2>1, <2>2, GivingUnfolds
<1>11. PICK path : /\ path \in [0..N -> V] /\ path[0] = Fresh(count)
                  /\ \A n \in 1..N : path[n] = Given(edges, count, forbidden, path[n - 1], n)
                  /\ path[N] = AllGiven(edges, count, forbidden)
  BY <1>3 DEF IsGiving
<1> DEFINE Well(n) == GivenTo(edges, count, forbidden, n, path[n])
           ill == {n \in 0..N : ~Well(n)}
<1>4. Well(0)
  <2>1. path[0].found /\ path[0].owner = [k \in 1..count |-> 0]
    BY <1>11 DEF Fresh
  <2>2. 1..0 = {}
    OBVIOUS
  <2> QED BY <2>1, <2>2 DEF GivenTo, Matching, Unshared, Having
<1>5. ASSUME NEW n \in 1..N, Well(n - 1) PROVE Well(n)
  <2>1. n - 1 \in 0..N
    OBVIOUS
  <2>2. path[n - 1] \in SearchStates(edges, count)
    BY <1>11, <2>1
  <2>3. path[n] = Given(edges, count, forbidden, path[n - 1], n)
    BY <1>11
  <2> DEFINE s == path[n - 1]
  <2>4. s \in SearchStates(edges, count) /\ GivenTo(edges, count, forbidden, n - 1, s)
    BY <1>5, <2>2
  <2> HIDE DEF s
  <2>5. GivenTo(edges, count, forbidden, n, Given(edges, count, forbidden, s, n))
    BY <2>4, OneMoreGiven
  <2> QED BY <2>3, <2>5 DEF s
<1>6. ill = {}
  <2> SUFFICES ASSUME ill # {} PROVE FALSE
    OBVIOUS
  <2> HIDE DEF Well
  <2>1. ill \subseteq Nat
    OBVIOUS
  <2> HIDE DEF ill
  <2>2. PICK n \in ill : \A other \in ill : n <= other
    BY <2>1, LeastNatural
  <2>3. n \in 0..N /\ ~Well(n)
    BY <2>2 DEF ill
  <2>4. n \in 1..N /\ n - 1 \in 0..N /\ ~(n <= n - 1)
    BY <1>4, <2>3
  <2>5. Well(n - 1)
    BY <2>2, <2>4 DEF ill
  <2> QED BY <1>5, <2>3, <2>4, <2>5
<1> DEFINE final == AllGiven(edges, count, forbidden)
<1>7. GivenTo(edges, count, forbidden, N, final) /\ final \in SearchStates(edges, count)
  <2>1. Well(N)
    <3> HIDE DEF Well
    <3> QED BY <1>6
  <2>2. path[N] = final /\ path[N] \in V
    BY <1>11
  <2> QED BY <2>1, <2>2
<1> HIDE DEF final
<1>8. FindPerfectMatching(edges, count, forbidden) = AssignmentOf(final, edges, count)
  BY MatchingIsAssigned DEF final
<1>9. CASE final.found
  <2>1. AssignmentOf(final, edges, count) \in Perfect(edges, count, forbidden)
    BY <1>7, <1>9, AssignmentIsPerfect
  <2>2. DOMAIN AssignmentOf(final, edges, count) = 1..N /\ 1 \in 1..N
    BY <2>1 DEF Perfect
  <2>3. DOMAIN NoMatching = {}
    BY EmptySeq DEF NoMatching
  <2> QED BY <1>8, <2>1, <2>2, <2>3
<1>10. CASE ~final.found
  <2>1. Perfect(edges, count, forbidden) = {}
    BY <1>7, <1>10 DEF GivenTo
  <2>2. AssignmentOf(final, edges, count) = NoMatching
    BY <1>10 DEF AssignmentOf
  <2> QED BY <1>8, <2>1, <2>2
<1> QED BY <1>9, <1>10

\* A perfect matching is the only one if forbidding any of its pairs leaves none.
LEMMA NoOtherMatching ==
    ASSUME NEW edges, NEW count, AreEdges(edges, count), NEW N \in Nat \ {0}, DOMAIN edges = 1..N,
           NEW a \in Perfect(edges, count, NotForbidden)
    PROVE  IsOnlyMatching(edges, count, a) <=> Perfect(edges, count, NotForbidden) = {a}
<1>1. a \in [1..N -> 1..count] /\ DOMAIN a = DOMAIN edges /\ 0 \notin DOMAIN edges
  BY DEF Perfect
<1>2. ASSUME NEW p \in DOMAIN edges
      PROVE  FindPerfectMatching(edges, count, <<p, a[p]>>) = NoMatching
                <=> Perfect(edges, count, <<p, a[p]>>) = {}
  <2> DEFINE forbidden == <<p, a[p]>>
  <2> HIDE DEF forbidden
  <2>1. LET matching == FindPerfectMatching(edges, count, forbidden)
        IN  IF Perfect(edges, count, forbidden) = {} THEN matching = NoMatching
            ELSE matching \in Perfect(edges, count, forbidden) /\ matching # NoMatching
    BY MatchingsAreFound
  <2> QED BY <2>1 DEF forbidden
<1>3. ASSUME NEW m, NEW p \in DOMAIN edges
      PROVE  m \in Perfect(edges, count, <<p, a[p]>>)
                <=> m \in Perfect(edges, count, NotForbidden) /\ m[p] # a[p]
  <2>1. \A q \in DOMAIN edges : Reach(edges, NotForbidden, q) = edges[q]
    BY <1>1 DEF Reach, NotForbidden
  <2>2. ASSUME NEW q \in DOMAIN edges, NEW k
        PROVE  k \in Reach(edges, <<p, a[p]>>, q) <=> k \in edges[q] /\ ~(p = q /\ a[p] = k)
    BY DEF Reach
  <2>3. CASE /\ m \in [DOMAIN edges -> 1..count]
             /\ \A q, r \in DOMAIN edges : m[q] = m[r] => q = r
    <3>1. m \in Perfect(edges, count, NotForbidden) <=> \A q \in DOMAIN edges : m[q] \in edges[q]
      BY <2>1, <2>3 DEF Perfect
    <3>2. m \in Perfect(edges, count, <<p, a[p]>>)
             <=> \A q \in DOMAIN edges : m[q] \in edges[q] /\ ~(p = q /\ a[p] = m[q])
      BY <2>2, <2>3 DEF Perfect
    <3> QED BY <3>1, <3>2
  <2>4. CASE ~(/\ m \in [DOMAIN edges -> 1..count]
               /\ \A q, r \in DOMAIN edges : m[q] = m[r] => q = r)
    BY <2>4 DEF Perfect
  <2> QED BY <2>3, <2>4
<1>4. IsOnlyMatching(edges, count, a)
        <=> \A p \in DOMAIN edges : Perfect(edges, count, <<p, a[p]>>) = {}
  BY <1>1, <1>2 DEF IsOnlyMatching
<1>5. ASSUME NEW m \in Perfect(edges, count, NotForbidden), m # a
      PROVE  \E p \in DOMAIN edges : m[p] # a[p]
  <2>1. m \in [DOMAIN edges -> 1..count] /\ a \in [DOMAIN edges -> 1..count]
    BY DEF Perfect
  <2> QED BY <1>5, <2>1
<1> QED BY <1>3, <1>4, <1>5

\* The ways to match are finitely many.
LEMMA MatchingsAreFinite ==
    ASSUME NEW edges, NEW count, AreEdges(edges, count), NEW N \in Nat, DOMAIN edges = 1..N,
           NEW forbidden
    PROVE  IsFiniteSet(Perfect(edges, count, forbidden))
<1> DEFINE M == Perfect(edges, count, forbidden)
           Pairs == SUBSET ((1..N) \X (1..count))
           graph == [m \in M |-> {<<p, m[p]>> : p \in 1..N}]
<1>1. IsFiniteSet(Pairs)
  <2>1. IsFiniteSet(1..N) /\ IsFiniteSet(1..count)
    BY FS_Interval DEF AreEdges
  <2>2. IsFiniteSet((1..N) \X (1..count))
    BY <2>1, FS_Product
  <2> QED BY <2>2, FS_SUBSET
<1>2. \A m \in M : m \in [1..N -> 1..count]
  BY DEF Perfect
<1> HIDE DEF M
<1>3. graph \in [M -> Pairs]
  BY <1>2
<1>4. ASSUME NEW m \in M, NEW o \in M, graph[m] = graph[o] PROVE m = o
  <2>1. ASSUME NEW p \in 1..N PROVE m[p] = o[p]
    <3>1. <<p, m[p]>> \in graph[m]
      OBVIOUS
    <3>2. <<p, m[p]>> \in {<<q, o[q]>> : q \in 1..N}
      BY <1>4, <3>1
    <3> QED BY <3>2
  <2> QED BY <1>2, <2>1
<1> HIDE DEF graph
<1> HIDE DEF Pairs
<1>5. graph \in Injection(M, Pairs)
  BY <1>3, <1>4 DEF Injection, IsInjective
<1> QED BY <1>1, <1>5, FS_Injection DEF M

\* As sets of routes with places, the ways to match are those of the reference.
LEMMA EdgesOfRoutes ==
    ASSUME NEW publics, NEW kakaos, NEW N \in Nat, DOMAIN publics = 1..N,
           NEW count \in Nat, DOMAIN kakaos = 1..count
    PROVE  LET edges == CandidateEdges(publics, kakaos)
           IN  /\ AreEdges(edges, count) /\ DOMAIN edges = 1..N
               /\ PerfectMatchings(publics, kakaos) = Perfect(edges, count, NotForbidden)
<1> DEFINE edges == CandidateEdges(publics, kakaos)
<1>1. /\ DOMAIN edges = 1..N
      /\ \A p \in 1..N : edges[p] = {k \in 1..count : GeometryMatches(publics[p], kakaos[k])}
  BY DEF CandidateEdges
<1> HIDE DEF edges
<1>2. AreEdges(edges, count)
  BY <1>1 DEF AreEdges
<1>3. \A p \in 1..N : Reach(edges, NotForbidden, p) = edges[p]
  BY DEF Reach, NotForbidden
<1>4. ASSUME NEW m
      PROVE  m \in PerfectMatchings(publics, kakaos) <=> m \in Perfect(edges, count, NotForbidden)
  <2>1. CASE m \in [1..N -> 1..count]
    <3>1. \A p \in 1..N :
             m[p] \in Reach(edges, NotForbidden, p) <=> GeometryMatches(publics[p], kakaos[m[p]])
      BY <1>1, <1>3, <2>1
    <3>2. m \in PerfectMatchings(publics, kakaos)
            <=> /\ \A p, q \in 1..N : m[p] = m[q] => p = q
                /\ \A p \in 1..N : GeometryMatches(publics[p], kakaos[m[p]])
      BY <2>1 DEF PerfectMatchings, IsInjective
    <3>3. m \in Perfect(edges, count, NotForbidden)
            <=> /\ \A p, q \in 1..N : m[p] = m[q] => p = q
                /\ \A p \in 1..N : m[p] \in Reach(edges, NotForbidden, p)
      BY <1>1, <2>1 DEF Perfect
    <3> QED BY <3>1, <3>2, <3>3
  <2>2. CASE m \notin [1..N -> 1..count]
    BY <1>1, <2>2 DEF PerfectMatchings, Perfect
  <2> QED BY <2>1, <2>2
<1> QED BY <1>1, <1>2, <1>4 DEF edges

\* Public routes are drawn along those of Kakao exactly if there is one way to
\* match them, and then in that way; otherwise the routes of Kakao are taken.
DrawnAlong(publics, kakaos, routes) ==
    LET matchings == PerfectMatchings(publics, kakaos)
    IN  IF Cardinality(matchings) = 1
          THEN LET only == CHOOSE m \in matchings : TRUE
               IN  routes = [p \in DOMAIN publics |-> WithGeometry(publics[p], kakaos[only[p]])]
          ELSE routes = kakaos

LEMMA SupplementIsTheOnlyMatch ==
    ASSUME NEW publics, NEW kakaos, NEW N \in Nat \ {0}, DOMAIN publics = 1..N,
           NEW count \in Nat, DOMAIN kakaos = 1..count, Len(kakaos) = count
    PROVE  DrawnAlong(publics, kakaos, SupplementPublicGeometry(publics, kakaos).routes)
<1> DEFINE edges == CandidateEdges(publics, kakaos)
           matchings == PerfectMatchings(publics, kakaos)
           a == FindPerfectMatching(edges, count, NotForbidden)
           routes == SupplementPublicGeometry(publics, kakaos).routes
           drawn(m) == [p \in DOMAIN publics |-> WithGeometry(publics[p], kakaos[m[p]])]
<1>1. /\ AreEdges(edges, count) /\ DOMAIN edges = 1..N
      /\ matchings = Perfect(edges, count, NotForbidden)
  BY EdgesOfRoutes
<1>2. routes = Supplement(publics, kakaos, edges, a).routes
  BY DEF SupplementPublicGeometry
<1> HIDE DEF edges, matchings, routes
<1>3. IsFiniteSet(matchings)
  BY <1>1, MatchingsAreFinite
<1>4. IF matchings = {} THEN a = NoMatching ELSE a \in matchings /\ a # NoMatching
  BY <1>1, MatchingsAreFound
<1> HIDE DEF a
<1>5. Cardinality(matchings) = 1 <=> \E m : matchings = {m}
  BY <1>3, FS_Singleton
<1>6. (\E p \in DOMAIN edges : edges[p] = {}) => matchings = {}
  BY <1>1 DEF Perfect, Reach
<1>7. CASE matchings = {}
  <2>1. Cardinality(matchings) # 1
    BY <1>7, FS_EmptySet
  <2>2. routes = kakaos
    BY <1>2, <1>4, <1>7 DEF Supplement
  <2> QED BY <2>1, <2>2 DEF DrawnAlong, matchings, routes
<1>8. CASE matchings # {}
  <2>1. a \in matchings /\ a # NoMatching /\ \A p \in DOMAIN edges : edges[p] # {}
    BY <1>4, <1>6, <1>8
  <2>2. IsOnlyMatching(edges, count, a) <=> matchings = {a}
    BY <1>1, <2>1, NoOtherMatching
  <2>3. CASE matchings = {a}
    <3>1. Cardinality(matchings) = 1 /\ (CHOOSE m \in matchings : TRUE) = a
      BY <1>5, <2>3
    <3>2. routes = drawn(a)
      BY <1>2, <2>1, <2>2, <2>3 DEF Supplement
    <3> QED BY <3>1, <3>2 DEF DrawnAlong, matchings, routes
  <2>4. CASE matchings # {a}
    <3>1. Cardinality(matchings) # 1
      BY <1>5, <2>1, <2>4
    <3>2. routes = kakaos
      BY <1>2, <2>1, <2>2, <2>4 DEF Supplement
    <3> QED BY <3>1, <3>2 DEF DrawnAlong, matchings, routes
  <2> QED BY <2>3, <2>4
<1> QED BY <1>7, <1>8

LEMMA SupplementsAreDrawn ==
    ASSUME NEW publics, NEW kakaos, Listed("SEOUL_TRANSIT", "TRANSIT", publics), publics # <<>>,
           Listed("KAKAO_TRANSIT", "TRANSIT", kakaos)
    PROVE  DrawnAlong(publics, kakaos, SupplementPublicGeometry(publics, kakaos).routes)
<1>1. /\ publics \in Seq(ToSet(publics)) /\ kakaos \in Seq(ToSet(kakaos))
      /\ DOMAIN publics = 1..Len(publics) /\ Len(publics) \in Nat
      /\ DOMAIN kakaos = 1..Len(kakaos) /\ Len(kakaos) \in Nat
  BY DEF Listed, RouteList
<1>2. Len(publics) \in Nat \ {0}
  BY <1>1, EmptySeq
<1> QED BY <1>1, <1>2, SupplementIsTheOnlyMatch

-----------------------------------------------------------------------------
(***************************************************************************)
(* The route cache: what is taken out or put in keeps keys apart and the   *)
(* number of entries within bounds, and makes no entry of its own.         *)
(***************************************************************************)
Keyed(entries) ==
    \A i, j \in DOMAIN entries : entries[i].key = entries[j].key => i = j

LEMMA RemovedAt ==
    ASSUME NEW S, NEW s \in Seq(S), NEW i \in DOMAIN s
    PROVE  /\ RemoveAt(s, i) \in Seq(S)
           /\ Len(RemoveAt(s, i)) = Len(s) - 1
           /\ \A j \in 1..(Len(s) - 1) : RemoveAt(s, i)[j] = IF j < i THEN s[j] ELSE s[j + 1]
<1> DEFINE front == SubSeq(s, 1, i - 1)
           back == SubSeq(s, i + 1, Len(s))
<1>1. i \in 1..Len(s) /\ Len(s) \in Nat
  OBVIOUS
<1>2. /\ front \in Seq(S) /\ Len(front) = i - 1
      /\ \A j \in 1..(i - 1) : front[j] = s[j]
  BY <1>1
<1>3. /\ back \in Seq(S) /\ Len(back) = Len(s) - i
      /\ \A j \in 1..(Len(s) - i) : back[j] = s[i + j]
  BY <1>1
<1>4. RemoveAt(s, i) = front \o back
  BY DEF RemoveAt
<1> HIDE DEF front, back
<1>5. Len(front \o back) = Len(s) - 1
  BY <1>1, <1>2, <1>3
<1>6. ASSUME NEW j \in 1..(Len(s) - 1)
      PROVE  (front \o back)[j] = IF j < i THEN s[j] ELSE s[j + 1]
  <2>1. CASE j < i
    BY <1>1, <1>2, <1>3, <2>1
  <2>2. CASE ~(j < i)
    <3>0. j \in 1..(Len(front) + Len(back)) /\ ~(j <= Len(front))
      BY <1>1, <1>2, <1>3, <2>2
    <3>1. (front \o back)[j] = back[j - Len(front)]
      BY <1>2, <1>3, <3>0, ConcatProperties
    <3>2. j - (i - 1) \in 1..(Len(s) - i) /\ i + (j - (i - 1)) = j + 1
      BY <1>1, <2>2
    <3>3. back[j - (i - 1)] = s[j + 1]
      BY <1>3, <3>2
    <3> QED BY <1>2, <3>1, <3>3, <2>2
  <2> QED BY <2>1, <2>2
<1> QED BY <1>2, <1>3, <1>4, <1>5, <1>6

LEMMA WithoutKey ==
    ASSUME NEW S, NEW entries \in Seq(S), Keyed(entries), NEW key
    PROVE  /\ Without(entries, key) \in Seq(S)
           /\ Len(Without(entries, key)) <= Len(entries)
           /\ Keyed(Without(entries, key))
           /\ \A i \in DOMAIN Without(entries, key) :
                 /\ Without(entries, key)[i].key # key
                 /\ \E j \in DOMAIN entries : Without(entries, key)[i] = entries[j]
<1>1. CASE EntryAt(entries, key) = {}
  BY <1>1 DEF Without, EntryAt
<1>2. CASE EntryAt(entries, key) # {}
  <2> DEFINE i == CHOOSE j \in EntryAt(entries, key) : TRUE
             rest == RemoveAt(entries, i)
  <2>1. i \in EntryAt(entries, key)
    BY <1>2
  <2>2. i \in DOMAIN entries /\ entries[i].key = key
    BY <2>1 DEF EntryAt
  <2>3. Without(entries, key) = rest
    BY <1>2 DEF Without
  <2> HIDE DEF i
  <2>4. /\ rest \in Seq(S) /\ Len(rest) = Len(entries) - 1
        /\ \A j \in 1..(Len(entries) - 1) :
              rest[j] = IF j < i THEN entries[j] ELSE entries[j + 1]
    BY <2>2, RemovedAt
  <2> HIDE DEF rest
  <2>5. DOMAIN rest = 1..(Len(entries) - 1) /\ DOMAIN entries = 1..Len(entries) /\ Len(entries) \in Nat
    BY <2>4
  <2> DEFINE from(j) == IF j < i THEN j ELSE j + 1
  <2>6. \A j \in DOMAIN rest : /\ from(j) \in DOMAIN entries /\ from(j) # i
                               /\ rest[j] = entries[from(j)]
    BY <2>2, <2>4, <2>5
  <2>7. \A j, k \in DOMAIN rest : from(j) = from(k) => j = k
    BY <2>2, <2>5
  <2> HIDE DEF from
  <2>8. Keyed(rest)
    BY <2>6, <2>7 DEF Keyed
  <2>9. \A j \in DOMAIN rest : rest[j].key # key
    BY <2>2, <2>6 DEF Keyed
  <2> QED BY <2>3, <2>4, <2>5, <2>6, <2>8, <2>9
<1> QED BY <1>1, <1>2

\* An entry that is not of the key is added at the end.
LEMMA KeyedAppend ==
    ASSUME NEW S, NEW entries \in Seq(S), Keyed(entries), NEW e,
           \A i \in DOMAIN entries : entries[i].key # e.key
    PROVE  /\ Append(entries, e) \in Seq(S \cup {e})
           /\ Len(Append(entries, e)) = Len(entries) + 1
           /\ Keyed(Append(entries, e))
           /\ \A i \in DOMAIN Append(entries, e) :
                 \/ Append(entries, e)[i] = e
                 \/ \E j \in DOMAIN entries : Append(entries, e)[i] = entries[j]
<1> DEFINE longer == Append(entries, e)
<1>1. entries \in Seq(S \cup {e})
  OBVIOUS
<1>2. /\ longer \in Seq(S \cup {e}) /\ Len(longer) = Len(entries) + 1
      /\ longer[Len(entries) + 1] = e
      /\ \A i \in 1..Len(entries) : longer[i] = entries[i]
      /\ Len(entries) \in Nat
  BY <1>1
<1>3. /\ DOMAIN longer = 1..(Len(entries) + 1) /\ DOMAIN entries = 1..Len(entries)
  BY <1>2
<1> HIDE DEF longer
<1>4. \A i \in DOMAIN longer : i = Len(entries) + 1 \/ i \in DOMAIN entries
  BY <1>2, <1>3
<1>5. Keyed(longer)
  BY <1>2, <1>3, <1>4 DEF Keyed
<1>6. \A i \in DOMAIN longer : longer[i] = e \/ \E j \in DOMAIN entries : longer[i] = entries[j]
  BY <1>2, <1>3, <1>4
<1> QED BY <1>2, <1>5, <1>6 DEF longer

LEMMA KeyedTrim ==
    ASSUME NEW S, NEW entries \in Seq(S), Keyed(entries)
    PROVE  /\ Trimmed(entries) \in Seq(S)
           /\ Len(Trimmed(entries)) <= MaxEntries
           /\ Keyed(Trimmed(entries))
           /\ \A i \in DOMAIN Trimmed(entries) :
                 \E j \in DOMAIN entries : Trimmed(entries)[i] = entries[j]
<1>0. MaxEntries \in Nat /\ Len(entries) \in Nat /\ DOMAIN entries = 1..Len(entries)
  BY MaxEntriesAssumption
<1>1. CASE Len(entries) <= MaxEntries
  BY <1>1 DEF Trimmed
<1>2. CASE ~(Len(entries) <= MaxEntries)
  <2> DEFINE cut == Len(entries) - MaxEntries
             rest == SubSeq(entries, cut + 1, Len(entries))
  <2>1. cut \in Nat /\ cut <= Len(entries)
    BY <1>0, <1>2
  <2>2. /\ rest \in Seq(S) /\ Len(rest) = MaxEntries
        /\ \A i \in 1..MaxEntries : rest[i] = entries[cut + i]
    <3> DEFINE first == cut + 1
               last == Len(entries)
    <3>1. first \in Int /\ last \in Int /\ last - first + 1 = MaxEntries
      BY <1>0, <2>1
    <3>2. \A i \in 1..MaxEntries : first + i - 1 = cut + i
      BY <1>0, <2>1
    <3>3. \A i \in first..last : entries[i] \in S
      BY <1>0, <2>1
    <3>4. MaxEntries = (IF first <= last THEN last - first + 1 ELSE 0)
      BY <1>0, <3>1
    <3> HIDE DEF cut, first, last
    <3>5. /\ SubSeq(entries, first, last) \in Seq(S)
          /\ Len(SubSeq(entries, first, last)) = MaxEntries
          /\ \A i \in 1..MaxEntries : SubSeq(entries, first, last)[i] = entries[first + i - 1]
      BY <3>1, <3>3, <3>4, SubSeqProperties
    <3> QED BY <3>2, <3>5 DEF first, last
  <2>3. Trimmed(entries) = rest
    BY <1>2 DEF Trimmed
  <2> HIDE DEF rest
  <2>4. DOMAIN rest = 1..MaxEntries
    BY <2>2
  <2>5. \A i \in DOMAIN rest : cut + i \in DOMAIN entries
    BY <1>0, <2>1, <2>4
  <2>6. \A i, j \in DOMAIN rest : cut + i = cut + j => i = j
    BY <1>0, <2>1, <2>4
  <2> HIDE DEF cut
  <2>7. Keyed(rest)
    BY <2>2, <2>4, <2>5, <2>6 DEF Keyed
  <2> QED BY <1>0, <2>2, <2>3, <2>4, <2>5, <2>7
<1> QED BY <1>1, <1>2

\* An entry is a result under its own key, and lives from when it was found.
CarAssumptions == [fuel : STRING, efficiency : Nat \ {0}, parking : Nat]
PlannedLeg == [from : Int, to : Int, departs : Int, car : CarAssumptions]
Kind == Mode \cup {Classify_}

\* The collection of a mode is what was made of the routes that were found; if
\* there were none, it is said why; and if two lists were matched, they are what
\* the only matching, if there is one, makes of them.
ModeSound(value) ==
    /\ value.shown = BuildCollection(value.raw) /\ RouteList(value.mode, value.raw)
    /\ value.raw = <<>> => value.warnings # {}
    /\ value.matched # <<>> => DrawnAlong(value.matched[1], value.matched[2], value.raw)

EntrySound(entry) ==
    /\ entry.value.mode \in Kind /\ entry.value.leg \in PlannedLeg /\ entry.value.at \in Nat
    /\ entry.key = RouteKey(entry.value.mode, entry.value.leg)
    /\ entry.value.mode = Classify_ => entry.value.distance \in Nat
    /\ entry.value.mode # Classify_ => ModeSound(entry.value)
    /\ entry.expires = entry.value.at + TtlOf(entry.value.mode)

CacheSound(entries) ==
    /\ entries \in Seq(ToSet(entries)) /\ Len(entries) <= MaxEntries
    /\ Keyed(entries)
    /\ \A i \in DOMAIN entries : EntrySound(entries[i])

LEMMA CacheHit ==
    ASSUME NEW entries, CacheSound(entries), NEW key, NEW now,
           CacheGet(entries, key, now) # Missing
    PROVE  \E i \in DOMAIN entries :
              /\ CacheGet(entries, key, now) = entries[i].value
              /\ EntrySound(entries[i]) /\ entries[i].key = key /\ now < entries[i].expires
<1>1. PICK i \in EntryAt(entries, key) : now < entries[i].expires
  BY DEF CacheGet
<1>2. i \in DOMAIN entries /\ entries[i].key = key /\ EntrySound(entries[i])
  BY <1>1 DEF EntryAt, CacheSound
<1>3. \A j \in EntryAt(entries, key) : j = i
  BY <1>2 DEF EntryAt, CacheSound, Keyed
<1>4. (CHOOSE j \in EntryAt(entries, key) : TRUE) = i
  BY <1>1, <1>3
<1>5. CacheGet(entries, key, now) = entries[i].value
  BY <1>1, <1>4 DEF CacheGet
<1> QED BY <1>1, <1>2, <1>5

LEMMA WithoutIsSound ==
    ASSUME NEW entries, CacheSound(entries), NEW key
    PROVE  /\ CacheSound(Without(entries, key))
           /\ \A i \in DOMAIN Without(entries, key) : Without(entries, key)[i].key # key
<1> DEFINE rest == Without(entries, key)
<1>1. entries \in Seq(ToSet(entries)) /\ Keyed(entries)
  BY DEF CacheSound
<1>2. /\ rest \in Seq(ToSet(entries)) /\ Len(rest) <= Len(entries) /\ Keyed(rest)
      /\ \A i \in DOMAIN rest :
            rest[i].key # key /\ \E j \in DOMAIN entries : rest[i] = entries[j]
  BY <1>1, WithoutKey
<1> HIDE DEF rest
<1>3. rest \in Seq(ToSet(rest))
  BY <1>2, ElementsOfSequence
<1>4. Len(rest) <= MaxEntries
  <2>1. Len(rest) \in Nat /\ Len(entries) \in Nat /\ MaxEntries \in Nat /\ Len(entries) <= MaxEntries
    BY <1>1, <1>2, MaxEntriesAssumption DEF CacheSound
  <2> QED BY <1>2, <2>1
<1>5. \A i \in DOMAIN rest : EntrySound(rest[i])
  BY <1>2 DEF CacheSound
<1>6. CacheSound(rest)
  BY <1>2, <1>3, <1>4, <1>5 DEF CacheSound
<1> QED BY <1>2, <1>6 DEF rest

LEMMA AppendIsSound ==
    ASSUME NEW entries, CacheSound(entries), Len(entries) < MaxEntries,
           NEW key, \A i \in DOMAIN entries : entries[i].key # key,
           NEW e, EntrySound(e), e.key = key
    PROVE  CacheSound(Append(entries, e))
<1> DEFINE longer == Append(entries, e)
<1>1. entries \in Seq(ToSet(entries)) /\ Keyed(entries)
  BY DEF CacheSound
<1>8. \A i \in DOMAIN entries : entries[i].key # e.key
  OBVIOUS
<1>2. /\ longer \in Seq(ToSet(entries) \cup {e}) /\ Keyed(longer)
      /\ \A j \in DOMAIN longer : longer[j] = e \/ \E k \in DOMAIN entries : longer[j] = entries[k]
  <2> DEFINE S == ToSet(entries)
  <2>1. entries \in Seq(S) /\ Keyed(entries)
    BY <1>1
  <2> HIDE DEF S
  <2>2. Append(entries, e) \in Seq(S \cup {e})
    BY ONLY <2>1, <1>8, KeyedAppend
  <2>3. Keyed(Append(entries, e))
    BY ONLY <2>1, <1>8, KeyedAppend
  <2>4. \A j \in DOMAIN Append(entries, e) :
           \/ Append(entries, e)[j] = e
           \/ \E k \in DOMAIN entries : Append(entries, e)[j] = entries[k]
    BY ONLY <2>1, <1>8, KeyedAppend
  <2> QED BY <2>2, <2>3, <2>4 DEF S
<1>7. Len(longer) = Len(entries) + 1 /\ Len(entries) \in Nat
  BY <1>1
<1> HIDE DEF longer
<1>3. longer \in Seq(ToSet(longer))
  BY <1>2, ElementsOfSequence
<1>4. Len(longer) <= MaxEntries
  BY <1>7, MaxEntriesAssumption
<1>5. \A j \in DOMAIN longer : EntrySound(longer[j])
  BY <1>2 DEF CacheSound
<1>6. CacheSound(longer)
  BY <1>2, <1>3, <1>4, <1>5 DEF CacheSound
<1> QED BY <1>6 DEF longer

LEMMA ReadingIsSound ==
    ASSUME NEW entries, CacheSound(entries), NEW key, NEW now
    PROVE  CacheSound(CacheAfterGet(entries, key, now))
<1>1. CASE CacheGet(entries, key, now) = Missing
  BY <1>1, WithoutIsSound DEF CacheAfterGet
<1>2. CASE CacheGet(entries, key, now) # Missing
  <2> DEFINE i == CHOOSE j \in EntryAt(entries, key) : TRUE
             rest == Without(entries, key)
             e == entries[i]
             longer == Append(rest, e)
  <2>1. EntryAt(entries, key) # {}
    BY <1>2 DEF CacheGet
  <2>2. i \in DOMAIN entries /\ entries[i].key = key
    BY <2>1 DEF EntryAt
  <2>3. CacheAfterGet(entries, key, now) = longer
    BY <1>2 DEF CacheAfterGet
  <2> HIDE DEF i
  <2>4. CacheSound(rest) /\ \A j \in DOMAIN rest : rest[j].key # key
    BY WithoutIsSound
  <2>5. /\ entries \in Seq(ToSet(entries)) /\ Keyed(entries) /\ Len(entries) \in Nat
        /\ EntryAt(entries, key) # {} /\ rest \in Seq(ToSet(rest)) /\ Keyed(rest)
        /\ Len(entries) <= MaxEntries
    BY <2>1, <2>4 DEF CacheSound
  <2>6. Len(rest) = Len(entries) - 1
    <3>1. (CHOOSE j \in EntryAt(entries, key) : TRUE) \in DOMAIN entries
      BY <2>2 DEF i
    <3> QED BY <2>5, <3>1, RemovedAt DEF Without
  <2>11. EntrySound(e) /\ e.key = key
    BY <2>2, <2>4 DEF CacheSound
  <2> HIDE DEF rest, e
  <2>7. Len(rest) < MaxEntries
    BY <2>5, <2>6, MaxEntriesAssumption
  <2>8. CacheSound(longer)
    BY <2>4, <2>7, <2>11, AppendIsSound
  <2> QED BY <2>3, <2>8
<1> QED BY <1>1, <1>2

LEMMA WritingIsSound ==
    ASSUME NEW entries, CacheSound(entries), NEW key, NEW value, NEW now, NEW ttl,
           EntrySound([key |-> key, value |-> value, expires |-> now + ttl])
    PROVE  CacheSound(CacheAfterSet(entries, key, value, now, ttl))
<1> DEFINE e == [key |-> key, value |-> value, expires |-> now + ttl]
           rest == Without(entries, key)
           longer == Append(rest, e)
           short == Trimmed(longer)
<1>1. CacheSound(rest) /\ \A j \in DOMAIN rest : rest[j].key # key
  BY WithoutIsSound
<1>2. rest \in Seq(ToSet(rest)) /\ Keyed(rest) /\ e.key = key
  BY <1>1 DEF CacheSound
<1>3. EntrySound(e)
  OBVIOUS
<1>4. CacheAfterSet(entries, key, value, now, ttl) = short
  BY DEF CacheAfterSet
<1> HIDE DEF e, rest
<1>5. /\ longer \in Seq(ToSet(rest) \cup {e}) /\ Keyed(longer)
      /\ \A j \in DOMAIN longer : longer[j] = e \/ \E k \in DOMAIN rest : longer[j] = rest[k]
  BY <1>1, <1>2, KeyedAppend, SMTT(30)
<1> HIDE DEF longer
<1>6. /\ short \in Seq(ToSet(rest) \cup {e}) /\ Len(short) <= MaxEntries /\ Keyed(short)
      /\ \A j \in DOMAIN short : \E k \in DOMAIN longer : short[j] = longer[k]
  BY <1>5, KeyedTrim
<1> HIDE DEF short
<1>7. short \in Seq(ToSet(short))
  BY <1>6, ElementsOfSequence
<1>8. \A j \in DOMAIN short : EntrySound(short[j])
  <2> SUFFICES ASSUME NEW j \in DOMAIN short PROVE EntrySound(short[j])
    OBVIOUS
  <2>1. PICK k \in DOMAIN longer : short[j] = longer[k]
    BY <1>6
  <2>2. \A i \in DOMAIN rest : EntrySound(rest[i])
    BY <1>1 DEF CacheSound
  <2>3. longer[k] = e \/ \E i \in DOMAIN rest : longer[k] = rest[i]
    BY <1>5
  <2> QED BY <1>3, <2>1, <2>2, <2>3
<1> QED BY <1>4, <1>6, <1>7, <1>8 DEF CacheSound

-----------------------------------------------------------------------------
(***************************************************************************)
(* The semaphore, seen as the phases p of the tasks, the queue q of those  *)
(* that wait and the number k of free permits.                             *)
(***************************************************************************)
Phases == {"none", "new", "queued", "calling", "pricing", "awaitingPrice", "done"}

Holders(p) == {t \in Task : p[t] \in Calling /\ t[3] # Classify_}

Semaphore(p, q, k) ==
    /\ p \in [Task -> Phases] /\ q \in Seq(Task) /\ k \in 0..Permits
    /\ IsFiniteSet(Holders(p)) /\ k + Cardinality(Holders(p)) = Permits
    /\ \A i, j \in DOMAIN q : q[i] = q[j] => i = j
    /\ \A t \in Task : p[t] = "queued" <=> \E i \in DOMAIN q : q[i] = t
    /\ \A i \in DOMAIN q : q[i][3] # Classify_
    /\ q # <<>> => k = 0

\* A task without a permit takes the next free one, or a place in the queue.
LEMMA PermitTaken ==
    ASSUME NEW p, NEW q, NEW k, Semaphore(p, q, k), NEW t \in Task,
           p[t] \notin Calling \cup {"queued"}, t[3] # Classify_, k > 0, q = <<>>
    PROVE  Semaphore([p EXCEPT ![t] = "calling"], q, k - 1)
<1> DEFINE after == [p EXCEPT ![t] = "calling"]
<1>1. p \in [Task -> Phases] /\ k \in 0..Permits /\ Permits \in Nat
  BY PreviewAssumption DEF Semaphore
<1>2. /\ after \in [Task -> Phases] /\ after[t] = "calling"
      /\ \A u \in Task : u # t => after[u] = p[u]
  BY <1>1 DEF Phases
<1>3. Holders(after) = Holders(p) \cup {t}
  BY <1>2 DEF Holders, Calling
<1>4. t \notin Holders(p)
  BY DEF Holders
<1>5. IsFiniteSet(Holders(after)) /\ Cardinality(Holders(after)) = Cardinality(Holders(p)) + 1
  <2> DEFINE H == Holders(p)
  <2>1. IsFiniteSet(H) /\ t \notin H /\ Holders(after) = H \cup {t}
    BY <1>3, <1>4 DEF Semaphore
  <2> HIDE DEF H
  <2>2. IsFiniteSet(H \cup {t}) /\ Cardinality(H \cup {t}) = Cardinality(H) + 1
    BY <2>1, FS_AddElement
  <2> QED BY <2>1, <2>2 DEF H
<1>6. Cardinality(Holders(p)) \in Nat
  BY FS_CardinalityType DEF Semaphore
<1>7. k - 1 \in 0..Permits /\ (k - 1) + Cardinality(Holders(after)) = Permits
  BY <1>1, <1>5, <1>6 DEF Semaphore
<1>8. \A u \in Task : after[u] = "queued" <=> \E i \in DOMAIN q : q[i] = u
  BY <1>2 DEF Semaphore, Calling
<1> HIDE DEF after
<1>9. Semaphore(after, q, k - 1)
  BY <1>2, <1>5, <1>7, <1>8 DEF Semaphore
<1> QED BY <1>9 DEF after

LEMMA PlaceTaken ==
    ASSUME NEW p, NEW q, NEW k, Semaphore(p, q, k), NEW t \in Task,
           p[t] \notin Calling \cup {"queued"}, t[3] # Classify_, k = 0 \/ q # <<>>
    PROVE  Semaphore([p EXCEPT ![t] = "queued"], Append(q, t), k)
<1> DEFINE after == [p EXCEPT ![t] = "queued"]
           longer == Append(q, t)
<1>1. p \in [Task -> Phases] /\ q \in Seq(Task) /\ Len(q) \in Nat /\ DOMAIN q = 1..Len(q)
  BY DEF Semaphore
<1>2. /\ after \in [Task -> Phases] /\ after[t] = "queued"
      /\ \A u \in Task : u # t => after[u] = p[u]
  BY <1>1 DEF Phases
<1>3. Holders(after) = Holders(p)
  BY <1>2 DEF Holders, Calling
<1>4. /\ longer \in Seq(Task) /\ Len(longer) = Len(q) + 1
      /\ longer[Len(q) + 1] = t
      /\ \A i \in 1..Len(q) : longer[i] = q[i]
  BY <1>1
<1>5. DOMAIN longer = 1..(Len(q) + 1)
  BY <1>4
<1>6. \A i \in DOMAIN q : q[i] # t
  BY DEF Semaphore
<1> HIDE DEF after, longer
<1>7. \A i \in DOMAIN longer : i = Len(q) + 1 \/ i \in DOMAIN q
  BY <1>1, <1>5
<1>8. \A i, j \in DOMAIN longer : longer[i] = longer[j] => i = j
  BY <1>1, <1>4, <1>6, <1>7 DEF Semaphore
<1>9. \A i \in DOMAIN longer : longer[i][3] # Classify_
  BY <1>1, <1>4, <1>7 DEF Semaphore
<1>10. ASSUME NEW u \in Task
       PROVE  after[u] = "queued" <=> \E i \in DOMAIN longer : longer[i] = u
  <2>1. CASE u = t
    <3>1. Len(q) + 1 \in DOMAIN longer
      BY <1>1, <1>5
    <3> QED BY <1>2, <1>4, <2>1, <3>1
  <2>2. CASE u # t
    <3>1. after[u] = "queued" <=> \E i \in DOMAIN q : q[i] = u
      BY <1>2, <2>2 DEF Semaphore
    <3>2. (\E i \in DOMAIN q : q[i] = u) <=> \E i \in DOMAIN longer : longer[i] = u
      <4>1. \A i \in DOMAIN q : i \in DOMAIN longer
        BY <1>1, <1>5
      <4> QED BY <1>1, <1>4, <1>7, <2>2, <4>1
    <3> QED BY <3>1, <3>2
  <2> QED BY <2>1, <2>2
<1>11. k = 0
  BY DEF Semaphore
<1>12. Semaphore(after, longer, k)
  BY <1>2, <1>3, <1>4, <1>8, <1>9, <1>10, <1>11 DEF Semaphore
<1> QED BY <1>12 DEF after, longer

\* A task gives up its permit: it is free, or the first in the queue has it.
LEMMA PermitGiven ==
    ASSUME NEW p, NEW q, NEW k, Semaphore(p, q, k), NEW t \in Holders(p), q = <<>>
    PROVE  Semaphore([p EXCEPT ![t] = "none"], q, k + 1)
<1> DEFINE after == [p EXCEPT ![t] = "none"]
<1>1. p \in [Task -> Phases] /\ k \in 0..Permits /\ Permits \in Nat /\ t \in Task
  BY PreviewAssumption DEF Semaphore, Holders
<1>2. /\ after \in [Task -> Phases] /\ after[t] = "none"
      /\ \A u \in Task : u # t => after[u] = p[u]
  BY <1>1 DEF Phases
<1>3. Holders(after) = Holders(p) \ {t}
  BY <1>1, <1>2 DEF Holders, Calling
<1>4. IsFiniteSet(Holders(p)) /\ t \in Holders(p)
  BY DEF Semaphore
<1>5. IsFiniteSet(Holders(after)) /\ Cardinality(Holders(after)) = Cardinality(Holders(p)) - 1
  BY ONLY <1>3, <1>4, FS_RemoveElement
<1>6. Cardinality(Holders(p)) \in Nat /\ Cardinality(Holders(after)) \in Nat
  BY <1>5, FS_CardinalityType DEF Semaphore
<1>7. k + 1 \in 0..Permits /\ (k + 1) + Cardinality(Holders(after)) = Permits
  BY <1>1, <1>5, <1>6 DEF Semaphore
<1>8. \A u \in Task : after[u] = "queued" <=> p[u] = "queued"
  BY <1>2 DEF Holders, Calling
<1> HIDE DEF after
<1>9. Semaphore(after, q, k + 1)
  BY <1>2, <1>5, <1>7, <1>8 DEF Semaphore
<1> QED BY <1>9 DEF after

LEMMA PermitHandedOn ==
    ASSUME NEW p, NEW q, NEW k, Semaphore(p, q, k), NEW t \in Holders(p), q # <<>>
    PROVE  /\ Head(q) \in Task /\ Head(q) # t /\ p[Head(q)] = "queued"
           /\ Semaphore([p EXCEPT ![t] = "none", ![Head(q)] = "calling"], Tail(q), k)
<1> DEFINE h == Head(q)
           after == [p EXCEPT ![t] = "none", ![h] = "calling"]
           rest == Tail(q)
<1>1. /\ p \in [Task -> Phases] /\ t \in Task /\ q \in Seq(Task)
      /\ Len(q) \in Nat \ {0} /\ DOMAIN q = 1..Len(q)
      /\ p[t] \in Calling /\ t[3] # Classify_
  BY DEF Semaphore, Holders
<1>2. /\ h \in Task /\ h = q[1] /\ 1 \in DOMAIN q
      /\ rest \in Seq(Task) /\ Len(rest) = Len(q) - 1
      /\ \A i \in 1..(Len(q) - 1) : rest[i] = q[i + 1]
  BY <1>1
<1> HIDE DEF h, rest
<1>3. p[h] = "queued" /\ h # t /\ h[3] # Classify_
  BY <1>1, <1>2 DEF Semaphore, Calling
<1>4. /\ after \in [Task -> Phases] /\ after[t] = "none" /\ after[h] = "calling"
      /\ \A u \in Task : u # t /\ u # h => after[u] = p[u]
  BY <1>1, <1>2, <1>3 DEF Phases
<1> HIDE DEF after
<1>5. Holders(after) = (Holders(p) \ {t}) \cup {h} /\ h \notin Holders(p) \ {t}
  BY <1>1, <1>2, <1>3, <1>4 DEF Holders, Calling
<1>6. /\ IsFiniteSet(Holders(p) \ {t})
      /\ Cardinality(Holders(p) \ {t}) = Cardinality(Holders(p)) - 1
  BY FS_RemoveElement DEF Semaphore
<1>7. /\ IsFiniteSet(Holders(after))
      /\ Cardinality(Holders(after)) = Cardinality(Holders(p) \ {t}) + 1
  <2> DEFINE H == Holders(p) \ {t}
  <2>1. IsFiniteSet(H) /\ h \notin H /\ Holders(after) = H \cup {h}
    BY <1>5, <1>6
  <2> HIDE DEF H
  <2>2. IsFiniteSet(H \cup {h}) /\ Cardinality(H \cup {h}) = Cardinality(H) + 1
    BY <2>1, FS_AddElement
  <2> QED BY <2>1, <2>2 DEF H
<1>8. Cardinality(Holders(p)) \in Nat
  BY FS_CardinalityType DEF Semaphore
<1>9. Cardinality(Holders(after)) = Cardinality(Holders(p))
  BY <1>6, <1>7, <1>8
<1>10. /\ DOMAIN rest = 1..(Len(q) - 1)
       /\ \A i \in DOMAIN rest : i + 1 \in DOMAIN q /\ i + 1 # 1 /\ rest[i] = q[i + 1]
  BY <1>1, <1>2
<1>11. \A i, j \in DOMAIN rest : rest[i] = rest[j] => i = j
  BY <1>10 DEF Semaphore
<1>12. \A i \in DOMAIN rest : rest[i][3] # Classify_
  BY <1>10 DEF Semaphore
<1>13. ASSUME NEW u \in Task
       PROVE  after[u] = "queued" <=> \E i \in DOMAIN rest : rest[i] = u
  <2>1. \A i \in DOMAIN rest : rest[i] # h
    <3>1. \A i, j \in DOMAIN q : q[i] = q[j] => i = j
      BY DEF Semaphore
    <3> QED BY ONLY <1>2, <1>10, <3>1
  <2>2. \A i \in DOMAIN q : q[i] = h \/ \E j \in DOMAIN rest : rest[j] = q[i]
    <3> SUFFICES ASSUME NEW i \in DOMAIN q, i # 1
                 PROVE  i - 1 \in DOMAIN rest /\ rest[i - 1] = q[i]
      BY <1>2
    <3>1. i - 1 \in 1..(Len(q) - 1) /\ (i - 1) + 1 = i
      BY <1>1
    <3> QED BY <1>2, <1>10, <3>1
  <2>3. (\E i \in DOMAIN rest : rest[i] = u) <=> u # h /\ p[u] = "queued"
    BY <1>10, <2>1, <2>2 DEF Semaphore
  <2>4. after[u] = "queued" <=> u # h /\ p[u] = "queued"
    BY <1>1, <1>4 DEF Calling
  <2> QED BY <2>3, <2>4
<1>14. k = 0 /\ k \in 0..Permits
  BY DEF Semaphore
<1>15. Semaphore(after, rest, k)
  BY <1>2, <1>4, <1>7, <1>9, <1>11, <1>12, <1>13, <1>14 DEF Semaphore
<1> QED BY <1>2, <1>3, <1>15 DEF h, rest, after

\* A task that neither calls nor waits may do as it likes.
LEMMA PermitNotNeeded ==
    ASSUME NEW p, NEW q, NEW k, Semaphore(p, q, k), NEW t \in Task,
           p[t] # "queued", NEW x \in Phases, x # "queued",
           \/ t[3] = Classify_
           \/ p[t] \in Calling /\ x \in Calling
           \/ p[t] \notin Calling /\ x \notin Calling
    PROVE  Semaphore([p EXCEPT ![t] = x], q, k)
<1> DEFINE after == [p EXCEPT ![t] = x]
<1>1. p \in [Task -> Phases]
  BY DEF Semaphore
<1>2. /\ after \in [Task -> Phases] /\ after[t] = x
      /\ \A u \in Task : u # t => after[u] = p[u]
  BY <1>1
<1> HIDE DEF after
<1>3. Holders(after) = Holders(p)
  BY <1>2 DEF Holders
<1>4. \A u \in Task : after[u] = "queued" <=> \E i \in DOMAIN q : q[i] = u
  BY <1>2 DEF Semaphore
<1>5. Semaphore(after, q, k)
  BY <1>2, <1>3, <1>4 DEF Semaphore
<1> QED BY <1>5 DEF after

-----------------------------------------------------------------------------
(***************************************************************************)
(* The state the tasks share.  "Sound" is what every step of a task leaves *)
(* behind but for the semaphore; "Outside" is what holds of the semaphore  *)
(* while task t gives up its permit or has not asked for one yet.          *)
(***************************************************************************)
TaskFields == {"phase", "at", "exchange", "attempt", "heard", "public", "warnings", "found"}
FuelFields == {"price", "expires", "asked", "holder", "waiting"}
Clients == {"showing", "classifying"}

Shape(s) ==
    /\ DOMAIN s = {"task", "queue", "permits", "cache", "fuel"}
    /\ DOMAIN s.task = Task /\ \A t \in Task : DOMAIN s.task[t] = TaskFields
    /\ DOMAIN s.fuel = Clients /\ \A c \in Clients : DOMAIN s.fuel[c] = FuelFields

\* The request has come, and its trip has the leg.
Real(t) ==
    /\ t \in Task /\ request[t[1]] # "new" /\ Ask(t[1]) # NotAsked
    /\ t[2] \in DOMAIN Legs(t[1])

\* Only for a request that is being worked on is anything done.
Busy(t) == Real(t) /\ request[t[1]] = "working"

\* The value answers the question of the task, and did so when it was asked.
Fits(value, t) ==
    /\ value.mode = t[3] /\ value.leg \in PlannedLeg /\ value.at \in Nat
    /\ RouteKey(value.mode, value.leg) = RouteKey(t[3], LegOf(t))
    /\ t[3] = Classify_ => value.distance \in Nat
    /\ t[3] # Classify_ => ModeSound(value)
    /\ visit[t[1]].at < value.at + TtlOf(t[3])

\* The routes a task has heard of, if any, can be measured.
Measurable(routes) ==
    routes # <<>> => /\ 1 \in DOMAIN routes /\ "distance" \in DOMAIN routes[1]
                     /\ routes[1].distance \in Nat

\* What a task notes down on its way: the routes it has heard of can be measured,
\* or are those of the provider it asks, those of a walk from the requests made
\* so far; and the public routes are kept for when their lines are known.
NoteFits(here, t) ==
    /\ here.exchange \in Nat
    /\ t[3] = Classify_ => Measurable(here.heard)
    /\ t[3] # Classify_ => Listed(ChainOf(t)[here.at], t[3], here.heard)
    /\ t[3] = "WALK" => \A i \in DOMAIN here.heard : here.heard[i].number < here.exchange
    /\ here.public # <<>> => t[3] = "TRANSIT" /\ Listed("SEOUL_TRANSIT", "TRANSIT", here.public)

NotesFit(s) == \A t \in Task : NoteFits(s.task[t], t)

TasksAreReal(s) ==
    \A t \in Task : /\ s.task[t].phase # "none" \/ s.task[t].found # <<>> => Real(t)
                    /\ s.task[t].phase \notin {"none", "done"} => Busy(t)

FoundFits(s) == \A t \in Task : s.task[t].found # <<>> => Fits(s.task[t].found[1], t)

\* A mode that is done has its collection, and an answer has those of all modes.
WorkIsDone(s) ==
    \A t \in Task : t[3] # Classify_ =>
        /\ s.task[t].phase = "done" => s.task[t].found # <<>>
        /\ WithRoutes(t[1]) /\ t[2] \in DOMAIN Legs(t[1]) => s.task[t].phase = "done"

\* A task that calls, or waits to, has a provider to call; one that has not
\* begun has asked none.
HasProvider(s, t) == s.task[t].at \in DOMAIN ChainOf(t)
TasksArePlaced(s) ==
    \A t \in Task : /\ s.task[t].at \in Nat
                    /\ s.task[t].phase \in Calling \cup {"queued"} => HasProvider(s, t)
                    /\ s.task[t].phase = "new" => s.task[t].at = 0

Sound(s) ==
    /\ Shape(s) /\ CacheSound(s.cache) /\ TasksAreReal(s) /\ FoundFits(s) /\ TasksArePlaced(s)
    /\ NotesFit(s) /\ WorkIsDone(s)

PhasesOf(s) == [t \in Task |-> s.task[t].phase]

Balanced(s) == Semaphore(PhasesOf(s), s.queue, s.permits)
Outside(s, t) == Semaphore([PhasesOf(s) EXCEPT ![t] = "none"], s.queue, s.permits)

\* The worlds and times a step starts from.
World ==
    /\ scene \in Scenes /\ clock \in Nat
    /\ \A r \in Request : visit[r].at \in Nat /\ visit[r].at <= clock

LEMMA TtlsArePositive ==
    ASSUME NEW kind
    PROVE  TtlOf(kind) \in Nat \ {0}
BY PreviewAssumption DEF TtlOf

LEMMA LegsArePlanned ==
    ASSUME World, NEW t, Real(t)
    PROVE  LegOf(t) \in PlannedLeg
<1> DEFINE ask == Ask(t[1])
<1>1. t[1] \in Request
  BY DEF Real, Task
<1>2. ValidAsk(ask)
  BY <1>1, SceneAssumption DEF World, Real, Ask
<1>3. t[2] \in DOMAIN PlannedLegs(ask) /\ LegOf(t) = PlannedLegs(ask)[t[2]]
  BY DEF Real, Legs, LegOf
<1> HIDE DEF ask
<1> DEFINE there == [from |-> ask.site, to |-> ask.place, departs |-> ask.startsAt, car |-> ask.car]
           back == [from |-> ask.place, to |-> ask.site, departs |-> ask.endsAt,
                    car |-> IF ask.pattern = "ROUND_TRIP"
                              THEN [ask.car EXCEPT !.parking = 0] ELSE ask.car]
<1>4. there \in PlannedLeg /\ back \in PlannedLeg
  BY <1>2 DEF ValidAsk, PlannedLeg, CarAssumptions
<1>5. PlannedLegs(ask) \in {<<there, back>>, <<there>>, <<back>>}
  BY <1>2 DEF PlannedLegs, ValidAsk
<1> HIDE DEF there, back
<1> QED BY <1>3, <1>4, <1>5

LEMMA ChainsAreSequences ==
    ASSUME World, NEW t \in Task
    PROVE  /\ Len(ChainOf(t)) \in Nat /\ DOMAIN ChainOf(t) = 1..Len(ChainOf(t))
           /\ \A i \in DOMAIN ChainOf(t) :
                 /\ ChainOf(t)[i] \in {"SEOUL_TRANSIT", "KAKAO_TRANSIT", "KAKAO_CAR", "KAKAO_WALK"}
                 /\ t[3] # Classify_ => ChainOf(t)[i] \in ProvidersOf(t[3])
           /\ Len(ChainOf(t)) = 0 => ChainOf(t) = <<>>
<1> DEFINE names == IF t[3] = Classify_ THEN {"KAKAO_CAR"} ELSE ProvidersOf(t[3])
           chain == ChainOf(t)
<1>1. chain \in Seq(names)
  <2>1. CASE t[3] = Classify_
    BY <2>1 DEF ChainOf
  <2>2. CASE t[3] # Classify_
    <3>1. t[3] \in Mode
      BY <2>2 DEF Task
    <3>2. scene.chain[t[3]] \in Seq(ProvidersOf(t[3]))
      BY <3>1, SceneAssumption DEF World
    <3> QED BY <2>2, <3>2 DEF ChainOf
  <2> QED BY <2>1, <2>2
<1>2. names \subseteq {"SEOUL_TRANSIT", "KAKAO_TRANSIT", "KAKAO_CAR", "KAKAO_WALK"}
  BY DEF Task, Mode, ProvidersOf
<1>3. t[3] # Classify_ => names = ProvidersOf(t[3])
  OBVIOUS
<1> HIDE DEF chain, names
<1>4. /\ Len(chain) \in Nat /\ DOMAIN chain = 1..Len(chain) /\ \A i \in DOMAIN chain : chain[i] \in names
      /\ Len(chain) = 0 => chain = <<>>
  BY <1>1
<1> QED BY <1>2, <1>3, <1>4 DEF chain

LEMMA RestingFits ==
    ASSUME NEW here, here.exchange \in Nat, here.heard = <<>>, here.public = <<>>, NEW t
    PROVE  NoteFits(here, t)
<1>1. DOMAIN here.heard = {}
  BY EmptySeq
<1> QED BY <1>1, NothingListed DEF NoteFits, Measurable

\* What a step does to the record of a task besides ending its work: notes are
\* kept or dropped, and only a task that is busy goes on or drops a result.
Moves(old, new, t) ==
    /\ new.exchange \in Nat
    /\ \/ new.heard = <<>>
       \/ new.heard = old.heard /\ new.exchange = old.exchange /\ new.at = old.at
    /\ new.public = old.public \/ new.public = <<>>
    /\ \/ new.phase = old.phase /\ new.found = old.found
       \/ /\ Busy(t) /\ (new.found = old.found \/ new.found = <<>>)
          /\ new.phase = "done" => t[3] = Classify_

\* All there is in the record of a task but its phase and attempt.
Notes(here) == <<here.at, here.exchange, here.heard, here.public, here.found>>

LEMMA NotesAreKept ==
    ASSUME NEW s, Sound(s), NEW u \in Task, NEW new, Notes(new) = Notes(s.task[u]),
           new.phase = s.task[u].phase \/ (Busy(u) /\ new.phase # "done")
    PROVE  Moves(s.task[u], new, u)
BY DEF Sound, NotesFit, NoteFits, Notes, Moves

LEMMA NotesStayFit ==
    ASSUME NEW old, NEW new, NEW t, NoteFits(old, t), Moves(old, new, t)
    PROVE  NoteFits(new, t)
<1>1. CASE new.heard = <<>>
  <2>1. DOMAIN new.heard = {}
    BY <1>1, EmptySeq
  <2>2. Listed(ChainOf(t)[new.at], t[3], new.heard)
    BY <1>1, NothingListed
  <2> QED BY <1>1, <2>1, <2>2 DEF NoteFits, Moves, Measurable
<1>2. CASE new.heard # <<>>
  BY <1>2 DEF NoteFits, Moves
<1> QED BY <1>1, <1>2

\* What the steps have in common: results stay or go, and who does something
\* does it for a request that is being worked on.
LEMMA SoundStep ==
    ASSUME NEW s, Sound(s), NEW n, Shape(n), n.cache = s.cache, TasksArePlaced(n),
           \A u \in Task : Moves(s.task[u], n.task[u], u)
    PROVE  Sound(n)
<1>1. CacheSound(n.cache)
  BY DEF Sound
<1>2. TasksAreReal(n)
  BY DEF Sound, TasksAreReal, Moves, Busy
<1>3. FoundFits(n)
  BY DEF Sound, FoundFits, Moves
<1>4. NotesFit(n)
  BY NotesStayFit DEF Sound, NotesFit
<1>5. WorkIsDone(n)
  <2> SUFFICES ASSUME NEW t \in Task, t[3] # Classify_
               PROVE  /\ n.task[t].phase = "done" => n.task[t].found # <<>>
                      /\ WithRoutes(t[1]) /\ t[2] \in DOMAIN Legs(t[1]) => n.task[t].phase = "done"
    BY DEF WorkIsDone
  <2>1. CASE n.task[t].phase = s.task[t].phase /\ n.task[t].found = s.task[t].found
    BY <2>1 DEF Sound, WorkIsDone
  <2>2. CASE Busy(t) /\ (n.task[t].phase = "done" => t[3] = Classify_)
    BY <2>2 DEF Busy, WithRoutes
  <2> QED BY <2>1, <2>2 DEF Moves
<1> QED BY <1>1, <1>2, <1>3, <1>4, <1>5 DEF Sound

\* A task takes a permit or a place in the queue.
LEMMA AcquireKeeps ==
    ASSUME NEW s, Sound(s), NEW t, Busy(t), t[3] # Classify_, Outside(s, t), HasProvider(s, t)
    PROVE  Sound(Acquire(s, t)) /\ Balanced(Acquire(s, t))
<1> DEFINE p == [PhasesOf(s) EXCEPT ![t] = "none"]
<1>1. t \in Task /\ Shape(s)
  BY DEF Busy, Real, Sound
<1>2. /\ Semaphore(p, s.queue, s.permits) /\ p[t] = "none" /\ DOMAIN p = Task
      /\ \A u \in Task : u # t => p[u] = s.task[u].phase
  BY <1>1 DEF Outside, PhasesOf
<1> HIDE DEF p
<1>3. CASE s.permits > 0 /\ s.queue = <<>>
  <2> DEFINE n == [s EXCEPT !.permits = @ - 1, !.task[t].phase = "calling"]
  <2>1. Acquire(s, t) = n
    BY <1>3 DEF Acquire
  <2>2. /\ n.cache = s.cache /\ n.queue = s.queue /\ n.permits = s.permits - 1
        /\ \A u \in Task : Notes(n.task[u]) = Notes(s.task[u])
        /\ \A u \in Task : n.task[u].phase = IF u = t THEN "calling" ELSE s.task[u].phase
        /\ Shape(n)
    BY <1>1 DEF Shape, TaskFields, Notes
  <2> HIDE DEF n
  <2>0. TasksArePlaced(n)
    BY <2>2 DEF Sound, TasksArePlaced, HasProvider, Notes
  <2>8. \A u \in Task : Moves(s.task[u], n.task[u], u)
    BY <2>2, NotesAreKept
  <2>3. Sound(n)
    BY <2>0, <2>2, <2>8, SoundStep
  <2>4. PhasesOf(n) = [p EXCEPT ![t] = "calling"]
    BY <1>1, <1>2, <2>2 DEF PhasesOf
  <2>5. Semaphore([p EXCEPT ![t] = "calling"], s.queue, s.permits - 1)
    BY <1>1, <1>2, <1>3, PermitTaken DEF Calling
  <2> QED BY <2>1, <2>2, <2>3, <2>4, <2>5 DEF Balanced
<1>4. CASE ~(s.permits > 0 /\ s.queue = <<>>)
  <2> DEFINE n == [s EXCEPT !.queue = Append(@, t), !.task[t].phase = "queued"]
  <2>1. Acquire(s, t) = n
    BY <1>4 DEF Acquire
  <2>2. /\ n.cache = s.cache /\ n.queue = Append(s.queue, t) /\ n.permits = s.permits
        /\ \A u \in Task : Notes(n.task[u]) = Notes(s.task[u])
        /\ \A u \in Task : n.task[u].phase = IF u = t THEN "queued" ELSE s.task[u].phase
        /\ Shape(n)
    BY <1>1 DEF Shape, TaskFields, Notes
  <2> HIDE DEF n
  <2>0. TasksArePlaced(n)
    BY <2>2 DEF Sound, TasksArePlaced, HasProvider, Notes
  <2>8. \A u \in Task : Moves(s.task[u], n.task[u], u)
    BY <2>2, NotesAreKept
  <2>3. Sound(n)
    BY <2>0, <2>2, <2>8, SoundStep
  <2>4. PhasesOf(n) = [p EXCEPT ![t] = "queued"]
    BY <1>1, <1>2, <2>2 DEF PhasesOf
  <2>5. s.permits = 0 \/ s.queue # <<>>
    BY <1>2, <1>4, PreviewAssumption DEF Semaphore
  <2>6. Semaphore([p EXCEPT ![t] = "queued"], Append(s.queue, t), s.permits)
    BY <1>1, <1>2, <2>5, PlaceTaken DEF Calling
  <2> QED BY <2>1, <2>2, <2>3, <2>4, <2>6 DEF Balanced
<1> QED BY <1>3, <1>4

\* A task gives up its permit.
LEMMA ReleaseKeeps ==
    ASSUME NEW s, Sound(s), Balanced(s), NEW t \in Task, t[3] # Classify_,
           s.task[t].phase \in Calling
    PROVE  Sound(Release(s)) /\ Outside(Release(s), t)
<1> DEFINE p == PhasesOf(s)
<1>1. /\ Shape(s) /\ Semaphore(p, s.queue, s.permits) /\ DOMAIN p = Task
      /\ \A u \in Task : p[u] = s.task[u].phase
  BY DEF Sound, Balanced, PhasesOf
<1>2. t \in Holders(p)
  BY <1>1 DEF Holders
<1> HIDE DEF p
<1>3. CASE s.queue = <<>>
  <2> DEFINE n == [s EXCEPT !.permits = @ + 1]
  <2>1. Release(s) = n
    BY <1>3 DEF Release
  <2>2. /\ n.cache = s.cache /\ n.queue = s.queue /\ n.permits = s.permits + 1
        /\ n.task = s.task /\ Shape(n)
    BY <1>1 DEF Shape
  <2> HIDE DEF n
  <2>0. TasksArePlaced(n)
    BY <2>2 DEF Sound, TasksArePlaced, HasProvider
  <2>8. \A u \in Task : Moves(s.task[u], n.task[u], u)
    BY <2>2, NotesAreKept DEF Notes
  <2>3. Sound(n)
    BY <2>0, <2>2, <2>8, SoundStep
  <2>4. [PhasesOf(n) EXCEPT ![t] = "none"] = [p EXCEPT ![t] = "none"]
    BY <2>2 DEF PhasesOf, p
  <2>5. Semaphore([p EXCEPT ![t] = "none"], s.queue, s.permits + 1)
    BY <1>1, <1>2, <1>3, PermitGiven
  <2> QED BY <2>1, <2>2, <2>3, <2>4, <2>5 DEF Outside
<1>4. CASE s.queue # <<>>
  <2> DEFINE h == Head(s.queue)
             n == [s EXCEPT !.queue = Tail(@), !.task[h].phase = "calling"]
  <2>1. Release(s) = n
    BY <1>4 DEF Release
  <2>2. /\ h \in Task /\ h # t /\ p[h] = "queued"
        /\ Semaphore([p EXCEPT ![t] = "none", ![h] = "calling"], Tail(s.queue), s.permits)
    BY <1>1, <1>2, <1>4, PermitHandedOn
  <2> HIDE DEF h
  <2>3. /\ n.cache = s.cache /\ n.queue = Tail(s.queue) /\ n.permits = s.permits
        /\ \A u \in Task : Notes(n.task[u]) = Notes(s.task[u])
        /\ \A u \in Task : n.task[u].phase = IF u = h THEN "calling" ELSE s.task[u].phase
        /\ Shape(n)
    BY <1>1, <2>2 DEF Shape, TaskFields, Notes
  <2> HIDE DEF n
  <2>0. TasksArePlaced(n)
    BY <1>1, <2>2, <2>3 DEF Sound, TasksArePlaced, HasProvider, Notes
  <2>7. Busy(h)
    BY <1>1, <2>2 DEF Sound, TasksAreReal
  <2>8. \A u \in Task : Moves(s.task[u], n.task[u], u)
    BY <2>3, <2>7, NotesAreKept
  <2>4. Sound(n)
    BY <2>0, <2>3, <2>8, SoundStep
  <2>5. [PhasesOf(n) EXCEPT ![t] = "none"] = [p EXCEPT ![t] = "none", ![h] = "calling"]
    BY <1>1, <2>2, <2>3 DEF PhasesOf
  <2> QED BY <2>1, <2>2, <2>3, <2>4, <2>5 DEF Outside
<1> QED BY <1>3, <1>4

\* Whatever a task that is outside does to its own record, it stays outside.
LEMMA OutsideStays ==
    ASSUME NEW s, NEW n, NEW t \in Task, Outside(s, t),
           n.queue = s.queue, n.permits = s.permits,
           \A u \in Task : u # t => n.task[u].phase = s.task[u].phase
    PROVE  Outside(n, t)
<1>1. [PhasesOf(n) EXCEPT ![t] = "none"] = [PhasesOf(s) EXCEPT ![t] = "none"]
  BY DEF PhasesOf
<1> QED BY <1>1 DEF Outside

\* A task that is outside and neither waits nor calls is in order.
LEMMA OutsideEnds ==
    ASSUME NEW s, NEW t \in Task, Outside(s, t), s.task[t].phase \in {"none", "new", "done"}
    PROVE  Balanced(s)
<1> DEFINE p == [PhasesOf(s) EXCEPT ![t] = "none"]
           x == s.task[t].phase
<1>1. Semaphore(p, s.queue, s.permits) /\ p[t] = "none"
  BY DEF Outside, PhasesOf
<1>2. [p EXCEPT ![t] = x] = PhasesOf(s)
  BY DEF PhasesOf
<1>3. x \in Phases /\ x # "queued" /\ x \notin Calling
  BY DEF Phases, Calling
<1> HIDE DEF p, x
<1>4. Semaphore([p EXCEPT ![t] = x], s.queue, s.permits)
  BY <1>1, <1>3, PermitNotNeeded DEF Calling
<1> QED BY <1>2, <1>4 DEF Balanced

LEMMA OutsideBegins ==
    ASSUME NEW s, NEW t \in Task, Balanced(s), s.task[t].phase # "queued",
           s.task[t].phase \notin Calling \/ t[3] = Classify_
    PROVE  Outside(s, t)
<1> DEFINE p == PhasesOf(s)
<1>1. Semaphore(p, s.queue, s.permits) /\ p[t] = s.task[t].phase
  BY DEF Balanced, PhasesOf
<1>2. "none" \in Phases /\ "none" \notin Calling /\ "none" # "queued"
  BY DEF Phases, Calling
<1> HIDE DEF p
<1>3. Semaphore([p EXCEPT ![t] = "none"], s.queue, s.permits)
  BY <1>1, <1>2, PermitNotNeeded
<1> QED BY <1>3 DEF Outside, p

\* What a task has found is shown and kept for others.
LEMMA KeptKeeps ==
    ASSUME World, NEW s, Sound(s), NEW t, Busy(t), Outside(s, t),
           NEW value, value.mode = t[3], value.leg = LegOf(t), value.at = clock,
           t[3] = Classify_ => value.distance \in Nat,
           t[3] # Classify_ => ModeSound(value)
    PROVE  Sound(Kept(s, t, value)) /\ Balanced(Kept(s, t, value))
<1> DEFINE record == [Resting EXCEPT !.phase = "done", !.found = <<value>>]
           key == RouteKey(t[3], LegOf(t))
           stored == CacheAfterSet(s.cache, key, value, clock, TtlOf(t[3]))
           n == [s EXCEPT !.task[t] = record, !.cache = stored]
<1>1. t \in Task /\ Real(t) /\ Shape(s) /\ CacheSound(s.cache)
  BY DEF Busy, Real, Sound
<1>2. Kept(s, t, value) = n
  BY <1>1 DEF Kept, Shape
<1>3. DOMAIN record = TaskFields /\ record.phase = "done" /\ record.found = <<value>>
      /\ record.at = 0 /\ record.heard = <<>> /\ record.exchange = 0 /\ record.public = <<>>
  BY DEF Resting, TaskFields
<1> HIDE DEF record
<1>4. /\ n.cache = stored /\ n.queue = s.queue /\ n.permits = s.permits
      /\ \A u \in Task : n.task[u] = IF u = t THEN record ELSE s.task[u]
      /\ Shape(n)
  BY <1>1, <1>3 DEF Shape
<1>5. LegOf(t) \in PlannedLeg /\ clock \in Nat /\ t[3] \in Kind
  BY <1>1, LegsArePlanned DEF World, Task, Kind
<1>6. CacheSound(stored)
  <2>1. EntrySound([key |-> key, value |-> value, expires |-> clock + TtlOf(t[3])])
    BY <1>5 DEF EntrySound
  <2> HIDE DEF key
  <2> QED BY <1>1, <2>1, WritingIsSound
<1>7. Fits(value, t)
  <2>1. visit[t[1]].at \in Nat /\ visit[t[1]].at <= clock
    BY <1>1 DEF World, Task
  <2> QED BY <1>5, <2>1, TtlsArePositive DEF Fits
<1> HIDE DEF n, stored
<1>8. TasksAreReal(n)
  BY <1>1, <1>3, <1>4 DEF Sound, TasksAreReal
<1>9. FoundFits(n)
  <2>1. <<value>>[1] = value
    OBVIOUS
  <2> QED BY <1>3, <1>4, <1>7, <2>1 DEF Sound, FoundFits
<1>10. Outside(n, t)
  BY <1>1, <1>4, OutsideStays
<1>11. Balanced(n)
  BY <1>1, <1>3, <1>4, <1>10, OutsideEnds
<1>12. TasksArePlaced(n)
  BY <1>3, <1>4 DEF Sound, TasksArePlaced, HasProvider, Calling
<1>13. NotesFit(n)
  <2>1. NoteFits(record, t)
    BY <1>3, RestingFits
  <2> QED BY <1>4, <2>1 DEF Sound, NotesFit
<1>14. WorkIsDone(n)
  <2>1. <<value>> # <<>>
    OBVIOUS
  <2> QED BY <1>3, <1>4, <2>1 DEF Sound, WorkIsDone
<1> QED BY <1>2, <1>4, <1>6, <1>8, <1>9, <1>11, <1>12, <1>13, <1>14 DEF Sound

LEMMA CollectedKeeps ==
    ASSUME World, NEW s, Sound(s), NEW t, Busy(t), Outside(s, t), t[3] # Classify_,
           NEW routes, RouteList(t[3], routes), NEW warnings,
           routes = <<>> => s.task[t].warnings \cup warnings # {},
           NEW matched, matched # <<>> => DrawnAlong(matched[1], matched[2], routes)
    PROVE  /\ Sound(Collected(s, t, routes, warnings, matched))
           /\ Balanced(Collected(s, t, routes, warnings, matched))
<1> DEFINE value == [mode |-> t[3], leg |-> LegOf(t), at |-> clock, raw |-> routes,
                     shown |-> BuildCollection(routes),
                     warnings |-> s.task[t].warnings \cup warnings, matched |-> matched]
<1>1. value.mode = t[3] /\ value.leg = LegOf(t) /\ value.at = clock /\ ModeSound(value)
  BY DEF ModeSound
<1>2. Collected(s, t, routes, warnings, matched) = Kept(s, t, value)
  BY DEF Collected
<1> HIDE DEF value
<1> QED BY <1>1, <1>2, KeptKeeps

LEMMA MeasuredKeeps ==
    ASSUME World, NEW s, Sound(s), NEW t, Busy(t), Outside(s, t), t[3] = Classify_,
           NEW routes, Measurable(routes)
    PROVE  Sound(Measured(s, t, routes)) /\ Balanced(Measured(s, t, routes))
<1>1. CASE routes = <<>>
  <2> DEFINE record == [Resting EXCEPT !.phase = "done"]
             n == [s EXCEPT !.task[t] = record]
  <2>1. /\ DOMAIN record = TaskFields /\ record.phase = "done" /\ record.found = <<>>
        /\ record.at = 0 /\ record.heard = <<>> /\ record.exchange = 0 /\ record.public = <<>>
    BY DEF Resting, TaskFields
  <2>2. Measured(s, t, routes) = n
    BY <1>1 DEF Measured
  <2>3. t \in Task /\ Shape(s)
    BY DEF Busy, Real, Sound
  <2> HIDE DEF record
  <2>4. /\ n.cache = s.cache /\ n.queue = s.queue /\ n.permits = s.permits
        /\ \A u \in Task : n.task[u] = IF u = t THEN record ELSE s.task[u]
        /\ Shape(n)
    BY <2>1, <2>3 DEF Shape
  <2> HIDE DEF n
  <2>0. TasksArePlaced(n)
    BY <2>1, <2>4 DEF Sound, TasksArePlaced, HasProvider, Calling
  <2>7. \A u \in Task : Moves(s.task[u], n.task[u], u)
    <3>1. Moves(s.task[t], record, t)
      BY <2>1 DEF Moves
    <3>2. \A u \in Task : Moves(s.task[u], s.task[u], u)
      BY NotesAreKept
    <3> QED BY <2>4, <3>1, <3>2
  <2>5. Sound(n)
    BY <2>0, <2>4, <2>7, SoundStep
  <2>6. Balanced(n)
    BY <2>1, <2>3, <2>4, OutsideStays, OutsideEnds
  <2> QED BY <2>2, <2>5, <2>6
<1>2. CASE routes # <<>>
  <2> DEFINE value == [mode |-> Classify_, leg |-> LegOf(t), at |-> clock,
                       distance |-> routes[1].distance]
  <2>1. /\ value.mode = t[3] /\ value.leg = LegOf(t) /\ value.at = clock
        /\ value.distance \in Nat
    BY <1>2 DEF Measurable
  <2>2. Measured(s, t, routes) = Kept(s, t, value)
    BY <1>2 DEF Measured
  <2> HIDE DEF value
  <2> QED BY <2>1, <2>2, KeptKeeps
<1> QED BY <1>1, <1>2

LEMMA NextProviderKeeps ==
    ASSUME World, NEW s, Sound(s), NEW t, Busy(t), Outside(s, t), t[3] # Classify_,
           NEW warnings, warnings # {} \/ s.task[t].public # <<>> \/ s.task[t].at = 0
    PROVE  Sound(NextProvider(s, t, warnings)) /\ Balanced(NextProvider(s, t, warnings))
<1> DEFINE here == s.task[t]
           moved == [Resting EXCEPT !.at = here.at + 1, !.exchange = 1, !.attempt = 1,
                                    !.public = here.public,
                                    !.warnings = here.warnings \cup warnings]
           m == [s EXCEPT !.task[t] = moved]
           why == warnings \cup {w \in {"NO_PROVIDER"} : ChainOf(t) = <<>>}
                           \cup {w \in {"GEOMETRY_UNAVAILABLE"} : here.public # <<>>}
<1>1. NextProvider(s, t, warnings) =
         IF here.at < Len(ChainOf(t)) THEN Acquire(m, t) ELSE Collected(s, t, <<>>, why, <<>>)
  BY DEF NextProvider
<1>2. DOMAIN moved = TaskFields /\ moved.phase = "none" /\ moved.found = <<>>
      /\ moved.at = here.at + 1 /\ moved.heard = <<>> /\ moved.exchange = 1
      /\ moved.public = here.public
  BY DEF Resting, TaskFields
<1>3. t \in Task /\ Shape(s)
  BY DEF Busy, Real, Sound
<1> HIDE DEF moved, why
<1>4. /\ m.cache = s.cache /\ m.queue = s.queue /\ m.permits = s.permits
      /\ \A u \in Task : m.task[u] = IF u = t THEN moved ELSE s.task[u]
      /\ Shape(m)
  BY <1>2, <1>3 DEF Shape
<1> HIDE DEF m
<1>9. here.at \in Nat
  BY <1>3 DEF Sound, TasksArePlaced
<1>10. TasksArePlaced(m)
  BY <1>2, <1>4, <1>9 DEF Sound, TasksArePlaced, HasProvider, Calling
<1>11. \A u \in Task : Moves(s.task[u], m.task[u], u)
  <2>1. Moves(s.task[t], moved, t)
    BY <1>2 DEF Moves
  <2>2. \A u \in Task : Moves(s.task[u], s.task[u], u)
    BY NotesAreKept
  <2> QED BY <1>4, <2>1, <2>2
<1>5. Sound(m)
  BY <1>4, <1>10, <1>11, SoundStep
<1>6. Outside(m, t)
  BY <1>3, <1>4, OutsideStays
<1>7. ASSUME here.at < Len(ChainOf(t))
      PROVE  Sound(Acquire(m, t)) /\ Balanced(Acquire(m, t))
  <2>1. Len(ChainOf(t)) \in Nat /\ DOMAIN ChainOf(t) = 1..Len(ChainOf(t))
    BY <1>3, ChainsAreSequences
  <2>2. HasProvider(m, t)
    BY <1>2, <1>3, <1>4, <1>7, <1>9, <2>1 DEF HasProvider
  <2> QED BY <1>5, <1>6, <2>2, AcquireKeeps
<1>8. ASSUME ~(here.at < Len(ChainOf(t)))
      PROVE  /\ Sound(Collected(s, t, <<>>, why, <<>>))
             /\ Balanced(Collected(s, t, <<>>, why, <<>>))
  <2>1. here.at = 0 => ChainOf(t) = <<>>
    BY <1>3, <1>8, ChainsAreSequences
  <2>2. why # {}
    BY <2>1 DEF why
  <2>3. RouteList(t[3], <<>>)
    BY NothingListed
  <2> QED BY <2>2, <2>3, CollectedKeeps
<1> QED BY <1>1, <1>7, <1>8

-----------------------------------------------------------------------------
(***************************************************************************)
(* A call under way: the provider's or that for the price of fuel.         *)
(***************************************************************************)
InCall(s, t) ==
    Sound(s) /\ Balanced(s) /\ Busy(t) /\ s.task[t].phase \in Calling
Fine(s) == Sound(s) /\ Balanced(s)

LEMMA CallHears ==
    ASSUME NEW s, NEW t, InCall(s, t), NEW n, Shape(n),
           n.cache = s.cache, n.queue = s.queue, n.permits = s.permits,
           \A u \in Task : n.task[u].found = s.task[u].found /\ n.task[u].at = s.task[u].at,
           \A u \in Task : u # t => n.task[u].phase = s.task[u].phase,
           n.task[t].phase \in Calling, NotesFit(n)
    PROVE  InCall(n, t)
<1> DEFINE p == PhasesOf(s)
           x == n.task[t].phase
<1>1. t \in Task /\ Semaphore(p, s.queue, s.permits) /\ p[t] \in Calling
  BY DEF InCall, Busy, Real, Balanced, PhasesOf
<1>2. TasksArePlaced(n)
  BY DEF InCall, Sound, TasksArePlaced, HasProvider, Calling
<1>3. TasksAreReal(n) /\ FoundFits(n) /\ CacheSound(n.cache)
  <2>1. Busy(t) /\ Real(t)
    BY DEF InCall, Busy
  <2>2. TasksAreReal(n)
    BY <2>1 DEF InCall, Sound, TasksAreReal
  <2> QED BY <2>2 DEF InCall, Sound, FoundFits
<1>7. WorkIsDone(n)
  <2>1. ~WithRoutes(t[1]) /\ n.task[t].phase # "done"
    BY DEF InCall, Busy, WithRoutes, Calling
  <2> QED BY <2>1 DEF InCall, Sound, WorkIsDone
<1>4. x \in Phases /\ x # "queued" /\ p[t] # "queued" /\ x \in Calling
  BY <1>1 DEF Calling, Phases
<1>5. [p EXCEPT ![t] = x] = PhasesOf(n)
  BY <1>1 DEF PhasesOf
<1> HIDE DEF p, x
<1>6. Semaphore([p EXCEPT ![t] = x], s.queue, s.permits)
  BY <1>1, <1>4, PermitNotNeeded
<1> QED BY <1>2, <1>3, <1>4, <1>5, <1>6, <1>7 DEF InCall, Sound, Balanced, x

LEMMA CallGoesOn ==
    ASSUME NEW s, NEW t, InCall(s, t), NEW n, Shape(n),
           n.cache = s.cache, n.queue = s.queue, n.permits = s.permits,
           \A u \in Task : Notes(n.task[u]) = Notes(s.task[u]),
           \A u \in Task : u # t => n.task[u].phase = s.task[u].phase,
           n.task[t].phase \in Calling
    PROVE  InCall(n, t)
<1>1. NotesFit(n)
  BY DEF InCall, Sound, NotesFit, NoteFits, Notes
<1>2. \A u \in Task : n.task[u].found = s.task[u].found /\ n.task[u].at = s.task[u].at
  BY DEF Notes
<1> QED BY <1>1, <1>2, CallHears

\* The end of a call: its permit is free, and its task outside.
LEMMA CallReleases ==
    ASSUME NEW s, NEW t, InCall(s, t), t[3] # Classify_
    PROVE  Sound(Release(s)) /\ Outside(Release(s), t)
BY ReleaseKeeps DEF InCall, Busy, Real

LEMMA CallLeaves ==
    ASSUME NEW s, NEW t, InCall(s, t), t[3] = Classify_
    PROVE  Outside(s, t)
BY OutsideBegins DEF InCall, Busy, Real, Calling

\* A task outside the semaphore notes down the public routes.
LEMMA PublicNoted ==
    ASSUME NEW s, Sound(s), NEW t \in Task, Outside(s, t), NEW routes,
           routes # <<>> => t[3] = "TRANSIT" /\ Listed("SEOUL_TRANSIT", "TRANSIT", routes)
    PROVE  LET n == [s EXCEPT !.task[t].public = routes]
           IN  /\ Sound(n) /\ Outside(n, t) /\ n.task[t].public = routes
               /\ n.task[t].warnings = s.task[t].warnings
<1> DEFINE n == [s EXCEPT !.task[t].public = routes]
<1>1. Shape(s)
  BY DEF Sound
<1>2. /\ n.cache = s.cache /\ n.queue = s.queue /\ n.permits = s.permits
      /\ \A u \in Task : /\ n.task[u].found = s.task[u].found /\ n.task[u].at = s.task[u].at
                         /\ n.task[u].heard = s.task[u].heard
                         /\ n.task[u].exchange = s.task[u].exchange
                         /\ n.task[u].public = IF u = t THEN routes ELSE s.task[u].public
                         /\ n.task[u].phase = s.task[u].phase
                         /\ n.task[u].warnings = s.task[u].warnings
      /\ Shape(n)
  BY <1>1 DEF Shape, TaskFields
<1> HIDE DEF n
<1>3. TasksArePlaced(n)
  BY <1>2 DEF Sound, TasksArePlaced, HasProvider
<1>4. NotesFit(n)
  <2> SUFFICES ASSUME NEW u \in Task PROVE NoteFits(n.task[u], u)
    BY DEF NotesFit
  <2>1. NoteFits(s.task[u], u)
    BY DEF Sound, NotesFit
  <2> QED BY <1>2, <2>1 DEF NoteFits
<1>5. TasksAreReal(n) /\ FoundFits(n) /\ WorkIsDone(n)
  BY <1>2 DEF Sound, TasksAreReal, FoundFits, WorkIsDone
<1>6. Sound(n)
  BY <1>2, <1>3, <1>4, <1>5 DEF Sound
<1>7. Outside(n, t)
  BY <1>2, OutsideStays
<1> QED BY <1>2, <1>6, <1>7 DEF n

LEMMA FinishedKeeps ==
    ASSUME World, NEW s, Sound(s), NEW t, Busy(t), Outside(s, t), t[3] # Classify_,
           NEW public, NEW routes, routes # <<>>, NEW warnings,
           public = <<>> => RouteList(t[3], routes),
           public # <<>> =>
              LET supplemented == SupplementPublicGeometry(public, routes).routes
              IN  RouteList(t[3], supplemented) /\ DrawnAlong(public, routes, supplemented)
    PROVE  Fine(Finished(s, t, public, routes, warnings))
<1> DEFINE supplement == SupplementPublicGeometry(public, routes)
           why == warnings \cup {supplement.warning}
<1>1. CASE public = <<>>
  <2>1. Finished(s, t, public, routes, warnings) = Collected(s, t, routes, warnings, <<>>)
    BY <1>1 DEF Finished
  <2> QED BY <1>1, <2>1, CollectedKeeps DEF Fine
<1>2. CASE public # <<>>
  <2>1. Finished(s, t, public, routes, warnings) =
           Collected(s, t, supplement.routes, why, <<public, routes>>)
    BY <1>2 DEF Finished
  <2>2. s.task[t].warnings \cup why # {}
    OBVIOUS
  <2>3. RouteList(t[3], supplement.routes) /\ DrawnAlong(public, routes, supplement.routes)
    BY <1>2
  <2> HIDE DEF supplement, why
  <2> DEFINE matched == <<public, routes>>
  <2>4. matched # <<>> => DrawnAlong(matched[1], matched[2], supplement.routes)
    BY <2>3
  <2> HIDE DEF matched
  <2>5. /\ Sound(Collected(s, t, supplement.routes, why, matched))
        /\ Balanced(Collected(s, t, supplement.routes, why, matched))
    BY <2>2, <2>3, <2>4, CollectedKeeps
  <2> QED BY <2>1, <2>5 DEF Fine, matched
<1> QED BY <1>1, <1>2

\* The provider a task calls is one of its mode.
LEMMA CallsOfTheMode ==
    ASSUME World, NEW s, NEW t, InCall(s, t), t[3] # Classify_
    PROVE  ProviderOf(s, t) \in ProvidersOf(t[3])
<1>1. t \in Task
  BY DEF InCall, Busy, Real
<1>2. s.task[t].at \in DOMAIN ChainOf(t)
  BY <1>1 DEF InCall, Sound, TasksArePlaced, HasProvider
<1> QED BY <1>1, <1>2, ChainsAreSequences DEF ProviderOf

LEMMA PublicIsTransit ==
    ASSUME NEW mode \in Mode, NEW provider \in ProvidersOf(mode)
    PROVE  /\ provider = "SEOUL_TRANSIT" => mode = "TRANSIT"
           /\ mode = "TRANSIT" /\ provider # "SEOUL_TRANSIT" => provider = "KAKAO_TRANSIT"
           /\ provider = "KAKAO_WALK" <=> mode = "WALK"
           /\ provider = "KAKAO_CAR" <=> mode = "CAR"
BY DEF Mode, ProvidersOf

LEMMA ConcludedKeeps ==
    ASSUME World, NEW s, NEW t, InCall(s, t), NEW routes, NEW warnings,
           t[3] = Classify_ => Measurable(routes),
           t[3] # Classify_ => Listed(ProviderOf(s, t), t[3], routes)
    PROVE  Fine(Concluded(s, t, routes, warnings))
<1>1. t \in Task /\ Busy(t) /\ Sound(s)
  BY DEF InCall, Busy, Real
<1>5. t[3] # Classify_ => t[3] \in Mode
  BY <1>1 DEF Task
<1>2. CASE t[3] = Classify_
  <2>1. Concluded(s, t, routes, warnings) = Measured(s, t, routes)
    BY <1>2 DEF Concluded
  <2> QED BY <1>1, <1>2, <2>1, CallLeaves, MeasuredKeeps DEF Fine
<1>3. CASE t[3] # Classify_ /\ (routes = <<>> \/ ProviderOf(s, t) = "SEOUL_TRANSIT")
  <2> DEFINE r == Release(s)
             noted == IF ProviderOf(s, t) = "SEOUL_TRANSIT" THEN routes ELSE r.task[t].public
             n == [r EXCEPT !.task[t].public = noted]
             why == IF routes = <<>> THEN WhyNoRoutes(warnings) ELSE warnings
  <2>1. Sound(r) /\ Outside(r, t)
    BY <1>3, CallReleases
  <2>2. Concluded(s, t, routes, warnings) = NextProvider(n, t, why)
    <3>1. Shape(r)
      BY <2>1 DEF Sound
    <3>2. n = [r EXCEPT !.task[t].public =
                  IF ProviderOf(s, t) = "SEOUL_TRANSIT" THEN routes ELSE @]
      BY <1>1, <3>1 DEF Shape, TaskFields
    <3> HIDE DEF n
    <3> QED BY <1>3, <3>2 DEF Concluded
  <2>4. noted # <<>> => t[3] = "TRANSIT" /\ Listed("SEOUL_TRANSIT", "TRANSIT", noted)
    <3>1. CASE ProviderOf(s, t) = "SEOUL_TRANSIT"
      <4>1. t[3] = "TRANSIT"
        BY <1>3, <1>5, <3>1, CallsOfTheMode, PublicIsTransit
      <4> QED BY <1>3, <3>1, <4>1
    <3>2. CASE ProviderOf(s, t) # "SEOUL_TRANSIT"
      <4>1. NoteFits(r.task[t], t)
        BY <1>1, <2>1 DEF Sound, NotesFit
      <4> QED BY <3>2, <4>1 DEF NoteFits
    <3> QED BY <3>1, <3>2
  <2>5. why # {} \/ noted # <<>>
    BY <1>3 DEF WhyNoRoutes
  <2> HIDE DEF r, noted, why
  <2>3. Sound(n) /\ Outside(n, t) /\ n.task[t].public = noted
    BY <1>1, <2>1, <2>4, PublicNoted
  <2> HIDE DEF n
  <2> QED BY <1>1, <1>3, <2>2, <2>3, <2>5, NextProviderKeeps DEF Fine
<1>4. CASE t[3] # Classify_ /\ ~(routes = <<>> \/ ProviderOf(s, t) = "SEOUL_TRANSIT")
  <2> DEFINE public == s.task[t].public
  <2>1. Concluded(s, t, routes, warnings) = Finished(Release(s), t, public, routes, warnings)
    BY <1>4 DEF Concluded
  <2>2. public = <<>> => RouteList(t[3], routes)
    BY <1>4 DEF Listed
  <2>3. public # <<>> =>
           LET supplemented == SupplementPublicGeometry(public, routes).routes
           IN  RouteList(t[3], supplemented) /\ DrawnAlong(public, routes, supplemented)
    <3> DEFINE supplemented == SupplementPublicGeometry(public, routes).routes
    <3> SUFFICES ASSUME public # <<>>
                 PROVE  RouteList(t[3], supplemented) /\ DrawnAlong(public, routes, supplemented)
      OBVIOUS
    <3>1. t[3] = "TRANSIT" /\ Listed("SEOUL_TRANSIT", "TRANSIT", public)
      BY <1>1 DEF Sound, NotesFit, NoteFits
    <3>2. ProviderOf(s, t) = "KAKAO_TRANSIT"
      BY <1>4, <1>5, <3>1, CallsOfTheMode, PublicIsTransit
    <3>3. Listed("KAKAO_TRANSIT", "TRANSIT", routes)
      BY <1>4, <3>1, <3>2
    <3> HIDE DEF public
    <3> QED BY <3>1, <3>3, SupplementedRoutes, SupplementsAreDrawn
  <2> HIDE DEF public
  <2> QED BY <1>1, <1>4, <2>1, <2>2, <2>3, CallReleases, FinishedKeeps
<1> QED BY <1>2, <1>3, <1>4

-----------------------------------------------------------------------------
(***************************************************************************)
(* The price of fuel.                                                      *)
(***************************************************************************)
LEMMA ClientOfTask ==
    ASSUME NEW kind
    PROVE  Client(kind) \in Clients
BY DEF Client, Clients

\* Only the fuel client changes.
LEMMA FuelChanges ==
    ASSUME NEW s, NEW t, InCall(s, t), NEW n, Shape(n), n.task = s.task,
           n.cache = s.cache, n.queue = s.queue, n.permits = s.permits
    PROVE  InCall(n, t)
<1>1. s.task[t].phase \in Calling
  BY DEF InCall
<1> QED BY <1>1, CallGoesOn

LEMMA LeaveFuelKeeps ==
    ASSUME NEW s, NEW t, InCall(s, t)
    PROVE  InCall(LeaveFuel(s, t), t)
<1> DEFINE c == Client(t[3])
           line == SelectSeq(s.fuel[c].waiting, LAMBDA w : w # t)
           holder == IF s.fuel[c].holder = <<t>> THEN <<>> ELSE s.fuel[c].holder
           n == [s EXCEPT !.fuel[c].waiting = line, !.fuel[c].holder = holder]
<1>1. c \in Clients /\ Shape(s)
  BY ClientOfTask DEF InCall, Sound
<1>2. LeaveFuel(s, t) = n
  BY <1>1 DEF LeaveFuel, Shape, FuelFields
<1> HIDE DEF c, line, holder
<1>3. /\ n.task = s.task /\ n.cache = s.cache /\ n.queue = s.queue /\ n.permits = s.permits
      /\ Shape(n)
  BY <1>1 DEF Shape, FuelFields
<1> HIDE DEF n
<1> QED BY <1>2, <1>3, FuelChanges

LEMMA TakeLockKeeps ==
    ASSUME NEW s, NEW t, InCall(s, t)
    PROVE  InCall(TakeLock(s, t), t)
<1> DEFINE c == Client(t[3])
           n == [s EXCEPT !.fuel[c].asked = clock, !.fuel[c].holder = <<t>>,
                          !.task[t].phase = "pricing", !.task[t].attempt = 1]
<1>1. c \in Clients /\ Shape(s) /\ t \in Task
  BY ClientOfTask DEF InCall, Sound, Busy, Real
<1>2. TakeLock(s, t) = n
  BY DEF TakeLock
<1> HIDE DEF c
<1>3. /\ n.cache = s.cache /\ n.queue = s.queue /\ n.permits = s.permits
      /\ \A u \in Task : Notes(n.task[u]) = Notes(s.task[u])
      /\ \A u \in Task : u # t => n.task[u].phase = s.task[u].phase
      /\ n.task[t].phase \in Calling
      /\ Shape(n)
  BY <1>1 DEF Shape, FuelFields, TaskFields, Calling, Notes
<1> HIDE DEF n
<1> QED BY <1>2, <1>3, CallGoesOn

LEMMA WaitForPriceKeeps ==
    ASSUME NEW s, NEW t, InCall(s, t)
    PROVE  InCall(WaitForPrice(s, t), t)
<1> DEFINE c == Client(t[3])
           n == [s EXCEPT !.fuel[c].waiting = Append(@, t), !.task[t].phase = "awaitingPrice"]
<1>1. c \in Clients /\ Shape(s) /\ t \in Task
  BY ClientOfTask DEF InCall, Sound, Busy, Real
<1>2. WaitForPrice(s, t) = TakeLock(s, t) \/ WaitForPrice(s, t) = n
  BY DEF WaitForPrice
<1> HIDE DEF c
<1>3. /\ n.cache = s.cache /\ n.queue = s.queue /\ n.permits = s.permits
      /\ \A u \in Task : Notes(n.task[u]) = Notes(s.task[u])
      /\ \A u \in Task : u # t => n.task[u].phase = s.task[u].phase
      /\ n.task[t].phase \in Calling
      /\ Shape(n)
  BY <1>1 DEF Shape, FuelFields, TaskFields, Calling, Notes
<1> HIDE DEF n
<1>4. InCall(n, t)
  BY <1>3, CallGoesOn
<1> QED BY <1>2, <1>4, TakeLockKeeps

\* The price changes what a route costs, not how long it is.
LEMMA CostsDoNotMeasure ==
    ASSUME NEW routes, Measurable(routes), NEW price, NEW car
    PROVE  Measurable(Costed(routes, price, car))
<1> DEFINE costed == Costed(routes, price, car)
<1>1. DOMAIN costed = DOMAIN routes
  BY DEF Costed
<1>2. CASE routes = <<>>
  <2>1. costed = <<>>
    BY <1>2 DEF Costed
  <2> QED BY <2>1 DEF Measurable
<1>3. CASE routes # <<>>
  <2>1. /\ 1 \in DOMAIN routes /\ "distance" \in DOMAIN routes[1] /\ routes[1].distance \in Nat
    BY <1>3 DEF Measurable
  <2>2. costed[1] = EstimateCarCost(routes[1], price, car)
    BY <2>1 DEF Costed
  <2>3. DOMAIN costed[1] = DOMAIN routes[1] /\ costed[1].distance = routes[1].distance
    BY <2>1, <2>2 DEF EstimateCarCost
  <2> QED BY <1>1, <2>1, <2>3 DEF Measurable
<1> QED BY <1>2, <1>3

LEMMA PricedKeeps ==
    ASSUME World, NEW s, NEW t, InCall(s, t), NEW price, NEW warnings
    PROVE  Fine(Priced(s, t, price, warnings))
<1> DEFINE routes == Costed(s.task[t].heard, price, LegOf(t).car)
<1>1. Priced(s, t, price, warnings) = Concluded(s, t, routes, warnings)
  BY DEF Priced
<1>2. NoteFits(s.task[t], t)
  BY DEF InCall, Sound, NotesFit, Busy, Real
<1>3. t[3] = Classify_ => Measurable(routes)
  BY <1>2, CostsDoNotMeasure DEF NoteFits
<1>4. t[3] # Classify_ => Listed(ProviderOf(s, t), t[3], routes)
  BY <1>2, CostsAreAside DEF NoteFits, ProviderOf
<1> HIDE DEF routes
<1> QED BY <1>1, <1>3, <1>4, ConcludedKeeps

LEMMA PriceEndsKeeps ==
    ASSUME World, NEW s, NEW t, InCall(s, t), NEW price, NEW failure
    PROVE  Fine(PriceEnds(s, t, price, failure))
<1> DEFINE c == Client(t[3])
           n == [s EXCEPT !.fuel[c].price = price, !.fuel[c].expires = s.fuel[c].asked + FuelTtl]
<1>1. c \in Clients /\ Shape(s)
  BY ClientOfTask DEF InCall, Sound
<1>2. PriceEnds(s, t, price, failure) =
         IF failure = "none" THEN Priced(LeaveFuel(n, t), t, price, {})
         ELSE Priced(LeaveFuel(s, t), t, UnknownCost, {failure})
  BY DEF PriceEnds, FuelOf
<1> HIDE DEF c
<1>3. /\ n.task = s.task /\ n.cache = s.cache /\ n.queue = s.queue /\ n.permits = s.permits
      /\ Shape(n)
  BY <1>1 DEF Shape, FuelFields
<1> HIDE DEF n
<1>4. InCall(n, t)
  BY <1>3, FuelChanges
<1>5. InCall(LeaveFuel(n, t), t) /\ InCall(LeaveFuel(s, t), t)
  BY <1>4, LeaveFuelKeeps
<1>6. Fine(Priced(LeaveFuel(n, t), t, price, {}))
  BY <1>5, PricedKeeps
<1>7. Fine(Priced(LeaveFuel(s, t), t, UnknownCost, {failure}))
  BY <1>5, PricedKeeps
<1> QED BY <1>2, <1>6, <1>7

-----------------------------------------------------------------------------
(***************************************************************************)
(* What comes of an exchange, and how a task begins.                       *)
(***************************************************************************)
Nexts == {"again", "exchange", "price", "end"}

\* What an exchange brings: a walking query goes on with what it has, routes are
\* priced or final, and they are those of the provider that was asked.
OutcomeFits(s, t, outcome) ==
    /\ outcome.next \in Nexts
    /\ t[3] = Classify_ => outcome.next # "exchange" /\ Measurable(outcome.routes)
    /\ outcome.next = "exchange" =>
          /\ t[3] = "WALK"
          /\ LET heard == s.task[t].heard \o outcome.routes
             IN  /\ Listed(ProviderOf(s, t), t[3], heard)
                 /\ \A i \in DOMAIN heard : heard[i].number < s.task[t].exchange + 1
    /\ outcome.next = "price" => t[3] # "WALK"
    /\ t[3] # Classify_ /\ outcome.next \in {"price", "end"} =>
          Listed(ProviderOf(s, t), t[3], outcome.routes)

LEMMA CarriedKeeps ==
    ASSUME World, NEW s, NEW t, InCall(s, t), NEW outcome, OutcomeFits(s, t, outcome)
    PROVE  Fine(Carried(s, t, outcome))
<1>1. t \in Task /\ Shape(s) /\ s.task[t].phase \in Calling
  BY DEF InCall, Sound, Busy, Real
<1>6. \A u \in Task : NoteFits(s.task[u], u)
  BY DEF InCall, Sound, NotesFit
<1>2. CASE outcome.next = "again"
  <2> DEFINE n == [s EXCEPT !.task[t].attempt = @ + 1]
  <2>1. Carried(s, t, outcome) = n
    BY <1>2 DEF Carried
  <2>2. /\ n.cache = s.cache /\ n.queue = s.queue /\ n.permits = s.permits
        /\ \A u \in Task : Notes(n.task[u]) = Notes(s.task[u])
        /\ \A u \in Task : n.task[u].phase = s.task[u].phase
        /\ Shape(n)
    BY <1>1 DEF Shape, TaskFields, Notes
  <2> HIDE DEF n
  <2>3. InCall(n, t)
    BY <1>1, <2>2, CallGoesOn
  <2> QED BY <2>1, <2>3 DEF InCall, Fine
<1>3. CASE outcome.next = "exchange"
  <2> DEFINE heard == s.task[t].heard \o outcome.routes
             n == [s EXCEPT !.task[t].heard = @ \o outcome.routes, !.task[t].exchange = @ + 1,
                            !.task[t].attempt = 1]
  <2>1. Carried(s, t, outcome) = n
    BY <1>3 DEF Carried
  <2> DEFINE old == s.task[t]
             new == [old EXCEPT !.heard = @ \o outcome.routes, !.exchange = @ + 1,
                                !.attempt = 1]
  <2>7. /\ n.cache = s.cache /\ n.queue = s.queue /\ n.permits = s.permits
        /\ n.task[t] = new /\ \A u \in Task : u # t => n.task[u] = s.task[u]
        /\ Shape(n)
    BY <1>1 DEF Shape, TaskFields
  <2>8. /\ new.found = old.found /\ new.at = old.at /\ new.public = old.public
        /\ new.heard = heard /\ new.exchange = old.exchange + 1 /\ new.phase = old.phase
    BY <1>1 DEF Shape, TaskFields
  <2>2. /\ n.cache = s.cache /\ n.queue = s.queue /\ n.permits = s.permits
        /\ \A u \in Task : n.task[u].found = s.task[u].found /\ n.task[u].at = s.task[u].at
                           /\ n.task[u].public = s.task[u].public
        /\ \A u \in Task : n.task[u].heard = IF u = t THEN heard ELSE s.task[u].heard
        /\ \A u \in Task : n.task[u].exchange = IF u = t THEN s.task[t].exchange + 1
                                               ELSE s.task[u].exchange
        /\ \A u \in Task : n.task[u].phase = s.task[u].phase
        /\ Shape(n)
    <3> HIDE DEF n, new, heard
    <3> QED BY <2>7, <2>8
  <2> HIDE DEF old, new
  <2>5. /\ t[3] = "WALK" /\ Listed(ProviderOf(s, t), t[3], heard)
        /\ \A i \in DOMAIN heard : heard[i].number < s.task[t].exchange + 1
    BY <1>3 DEF OutcomeFits
  <2> HIDE DEF n, heard
  <2>3. NotesFit(n)
    <3> SUFFICES ASSUME NEW u \in Task PROVE NoteFits(n.task[u], u)
      BY DEF NotesFit
    <3>1. CASE u # t
      BY <1>6, <2>2, <3>1 DEF NoteFits
    <3>2. CASE u = t
      <4>1. n.task[t].exchange \in Nat /\ "WALK" # Classify_
        BY <1>1, <1>6, <2>2 DEF NoteFits, Classify_
      <4>2. n.task[t].public = <<>>
        BY <1>1, <1>6, <2>2, <2>5 DEF NoteFits
      <4> QED BY <1>1, <2>2, <2>5, <3>2, <4>1, <4>2 DEF NoteFits, ProviderOf
    <3> QED BY <3>1, <3>2
  <2>4. InCall(n, t)
    BY <1>1, <2>2, <2>3, CallHears
  <2> QED BY <2>1, <2>4 DEF InCall, Fine
<1>4. CASE outcome.next = "price"
  <2> DEFINE n == [s EXCEPT !.task[t].heard = outcome.routes]
  <2>1. Carried(s, t, outcome) = WaitForPrice(n, t)
    BY <1>4 DEF Carried
  <2>2. /\ n.cache = s.cache /\ n.queue = s.queue /\ n.permits = s.permits
        /\ \A u \in Task : n.task[u].found = s.task[u].found /\ n.task[u].at = s.task[u].at
                           /\ n.task[u].public = s.task[u].public
                           /\ n.task[u].exchange = s.task[u].exchange
        /\ \A u \in Task : n.task[u].heard = IF u = t THEN outcome.routes
                                            ELSE s.task[u].heard
        /\ \A u \in Task : n.task[u].phase = s.task[u].phase
        /\ Shape(n)
    BY <1>1 DEF Shape, TaskFields
  <2> HIDE DEF n
  <2>3. NotesFit(n)
    <3> SUFFICES ASSUME NEW u \in Task PROVE NoteFits(n.task[u], u)
      BY DEF NotesFit
    <3>1. CASE u # t
      BY <1>6, <2>2, <3>1 DEF NoteFits
    <3>2. CASE u = t
      <4>1. /\ t[3] = Classify_ => Measurable(outcome.routes)
            /\ t[3] # Classify_ => Listed(ProviderOf(s, t), t[3], outcome.routes)
            /\ t[3] # "WALK"
        BY <1>4 DEF OutcomeFits
      <4>2. NoteFits(s.task[t], t)
        BY <1>1, <1>6
      <4> QED BY <1>1, <2>2, <3>2, <4>1, <4>2 DEF NoteFits, ProviderOf
    <3> QED BY <3>1, <3>2
  <2>4. InCall(n, t)
    BY <1>1, <2>2, <2>3, CallHears
  <2> QED BY <2>1, <2>4, WaitForPriceKeeps DEF InCall, Fine
<1>5. CASE outcome.next = "end"
  <2>1. Carried(s, t, outcome) = Concluded(s, t, outcome.routes, outcome.warnings)
    BY <1>5 DEF Carried
  <2>2. /\ t[3] = Classify_ => Measurable(outcome.routes)
        /\ t[3] # Classify_ => Listed(ProviderOf(s, t), t[3], outcome.routes)
    BY <1>5 DEF OutcomeFits
  <2> QED BY <2>1, <2>2, ConcludedKeeps
<1>7. outcome.next \in Nexts
  BY DEF OutcomeFits
<1> QED BY <1>2, <1>3, <1>4, <1>5, <1>7 DEF Nexts

LEMMA OutcomesGoOn ==
    ASSUME NEW s, NEW t,
           NEW provider \in {"SEOUL_TRANSIT", "KAKAO_TRANSIT", "KAKAO_CAR", "KAKAO_WALK"},
           NEW exchange, NEW heard, NEW parsed
    PROVE  WithPrice(s, t, Understood(provider, exchange, heard, parsed)).next \in Nexts
<1>1. HeardAll(heard \o parsed.routes).next \in Nexts
  BY DEF HeardAll, Refused, Outcome, Nexts
<1>2. Understood(provider, exchange, heard, parsed).next \in Nexts
  BY <1>1 DEF Understood, Refused, Outcome, Nexts
<1> QED BY <1>2 DEF WithPrice, Outcome, Nexts

\* The routes by which a distance is measured were checked when they were read.
LEMMA DrivesAreMeasurable ==
    ASSUME NEW document, IsDocument(document)
    PROVE  Measurable(ParseCar(document).routes)
<1> DEFINE given == document.routes
           routes == [i \in DOMAIN given |->
                         RouteFrom("KAKAO_CAR", "CAR", given[i], i, given[i].price)]
<1>1. ParseCar(document).routes = <<>> \/ (WellFormed(document) /\ ParseCar(document).routes = routes)
  <2>1. ParseCar(document) = Failure("SCHEMA_MISMATCH") \/ ParseCar(document) = Checked(document, routes)
    BY DEF ParseCar
  <2> HIDE DEF routes
  <2>2. \/ Checked(document, routes).routes = <<>>
        \/ WellFormed(document) /\ Checked(document, routes).routes = routes
    <3>1. CASE Len(document.routes) > MaxRoutes
      BY <3>1 DEF Checked, Failure
    <3>2. CASE ~(Len(document.routes) > MaxRoutes) /\ WellFormed(document)
      BY <3>2 DEF Checked, Failure, Parsed
    <3>3. CASE ~(Len(document.routes) > MaxRoutes) /\ ~WellFormed(document)
      BY <3>3, MaxRoutesAssumption DEF Checked, Failure, IsDocument
    <3> QED BY <3>1, <3>2, <3>3
  <2> QED BY <2>1, <2>2 DEF Failure
<1>2. ASSUME WellFormed(document), routes # <<>>
      PROVE  Measurable(routes)
  <2>1. Len(given) \in Nat /\ DOMAIN given = 1..Len(given)
    BY DEF IsDocument
  <2>2. Len(given) # 0
    <3> SUFFICES ASSUME Len(given) = 0 PROVE FALSE
      OBVIOUS
    <3>1. DOMAIN given = {}
      BY <2>1
    <3>2. routes = <<>>
      BY <3>1
    <3> QED BY <1>2, <3>2
  <2>3. 1 \in DOMAIN given
    BY <2>1, <2>2
  <2>4. given[1].distance \in Nat
    BY <1>2, <2>3 DEF IsDocument, WellFormed
  <2>5. routes[1] = RouteFrom("KAKAO_CAR", "CAR", given[1], 1, given[1].price)
    BY <2>3
  <2>6. "distance" \in DOMAIN routes[1] /\ routes[1].distance = given[1].distance
    BY <2>5 DEF RouteFrom
  <2> QED BY <2>3, <2>4, <2>6 DEF Measurable
<1> HIDE DEF routes
<1> QED BY <1>1, <1>2 DEF Measurable

LEMMA OutcomesMeasure ==
    ASSUME NEW s, NEW t, NEW exchange, NEW heard, NEW document, IsDocument(document)
    PROVE  LET outcome == WithPrice(s, t, Understood("KAKAO_CAR", exchange, heard,
                                                     ParseCar(document)))
           IN  outcome.next # "exchange" /\ Measurable(outcome.routes)
<1> DEFINE parsed == ParseCar(document)
           heardOf == Understood("KAKAO_CAR", exchange, heard, parsed)
           priced == Costed(heardOf.routes, FuelOf(s, t).price, LegOf(t).car)
<1>1. Measurable(parsed.routes)
  BY DrivesAreMeasurable
<1> HIDE DEF parsed
<1>2. heardOf.next \in {"price", "end"} /\ heardOf.routes \in {parsed.routes, <<>>}
  BY DEF Understood, Refused, Outcome
<1>3. Measurable(heardOf.routes)
  BY <1>1, <1>2 DEF Measurable
<1> HIDE DEF heardOf
<1>4. Measurable(priced)
  BY <1>3, CostsDoNotMeasure
<1> HIDE DEF priced
<1>5. WithPrice(s, t, heardOf) = heardOf \/ WithPrice(s, t, heardOf) = Outcome("end", priced, {})
  BY DEF WithPrice, priced
<1>6. WithPrice(s, t, heardOf).next # "exchange" /\ Measurable(WithPrice(s, t, heardOf).routes)
  BY <1>2, <1>3, <1>4, <1>5 DEF Outcome
<1> QED BY <1>6 DEF heardOf, parsed

\* A refusal, or another attempt, brings no routes.
LEMMA RefusalsFit ==
    ASSUME NEW s, NEW t, NEW code
    PROVE  OutcomeFits(s, t, Refused(code)) /\ OutcomeFits(s, t, Outcome("again", <<>>, {}))
BY NothingListed DEF OutcomeFits, Refused, Outcome, Nexts, Measurable

LEMMA EndsFit ==
    ASSUME NEW s, NEW t, t[3] # Classify_, NEW routes, Listed(ProviderOf(s, t), t[3], routes),
           NEW warnings
    PROVE  OutcomeFits(s, t, Outcome("end", routes, warnings))
BY DEF OutcomeFits, Outcome, Nexts

\* What a task makes of the document it is sent.
Heard(s, t, document) ==
    WithPrice(s, t, Understood(ProviderOf(s, t), s.task[t].exchange, s.task[t].heard,
                               ParsedBy(ProviderOf(s, t), s.task[t].exchange, document)))

LEMMA DocumentsFit ==
    ASSUME World, NEW s, NEW t, InCall(s, t), t[3] # Classify_, NEW document, IsDocument(document)
    PROVE  OutcomeFits(s, t, Heard(s, t, document))
<1> DEFINE provider == ProviderOf(s, t)
           exchange == s.task[t].exchange
           heard == s.task[t].heard
           parsed == ParsedBy(provider, exchange, document)
           outcome == Understood(provider, exchange, heard, parsed)
<1>1. /\ t[3] \in Mode /\ provider \in ProvidersOf(t[3])
      /\ exchange \in Nat /\ Listed(provider, t[3], heard)
      /\ t[3] = "WALK" => \A i \in DOMAIN heard : heard[i].number < exchange
  <2>1. t \in Task
    BY DEF InCall, Busy, Real
  <2>2. NoteFits(s.task[t], t)
    BY <2>1 DEF InCall, Sound, NotesFit
  <2>3. t[3] \in Mode
    BY <2>1 DEF Task
  <2> QED BY <2>2, <2>3, CallsOfTheMode DEF NoteFits, ProviderOf
<1>2. Listed(provider, t[3], parsed.routes)
  <2> HIDE DEF provider, exchange
  <2> QED BY <1>1, ProvidersList
<1>3. /\ provider = "KAKAO_WALK" <=> t[3] = "WALK"
      /\ provider \in {"SEOUL_TRANSIT", "KAKAO_TRANSIT", "KAKAO_WALK", "KAKAO_CAR"}
  BY <1>1 DEF Mode, ProvidersOf
<1>4. Heard(s, t, document) = WithPrice(s, t, outcome)
  BY DEF Heard
<1>5. outcome.next # "price" => Heard(s, t, document) = outcome
  BY <1>4 DEF WithPrice
<1>6. CASE parsed.failure # "none"
  <2>1. outcome = Refused(parsed.failure)
    BY <1>6 DEF Understood
  <2>2. Refused(parsed.failure).next = "end"
    BY DEF Refused, Outcome
  <2> HIDE DEF outcome, parsed
  <2> QED BY <1>5, <2>1, <2>2, RefusalsFit
<1>7. CASE parsed.failure = "none" /\ provider \in {"SEOUL_TRANSIT", "KAKAO_TRANSIT"}
  <2>1. PICK warnings : outcome = Outcome("end", parsed.routes, warnings)
    BY <1>7 DEF Understood
  <2> HIDE DEF outcome, parsed
  <2>2. outcome.next = "end"
    BY <2>1 DEF Outcome
  <2> QED BY <1>2, <1>5, <2>1, <2>2, EndsFit
<1>8. CASE parsed.failure = "none" /\ provider = "KAKAO_WALK"
  <2> DEFINE joined == heard \o parsed.routes
  <2>1. outcome = IF exchange < WalkModes THEN Outcome("exchange", parsed.routes, {})
                  ELSE HeardAll(joined)
    BY <1>8 DEF Understood
  <2>2. parsed = ParseWalk(document, exchange)
    BY <1>8 DEF ParsedBy
  <2> HIDE DEF outcome, parsed, exchange, heard
  <2>3. \A i \in DOMAIN parsed.routes : parsed.routes[i].number = exchange
    BY <1>1, <2>2, WalkingRoutes
  <2>4. /\ Listed("KAKAO_WALK", "WALK", joined)
        /\ \A i \in DOMAIN joined : joined[i].number < exchange + 1
    <3>1. /\ Listed("KAKAO_WALK", "WALK", heard) /\ Listed("KAKAO_WALK", "WALK", parsed.routes)
          /\ \A i \in DOMAIN heard : heard[i].number < exchange
      BY <1>1, <1>2, <1>3, <1>8
    <3> QED BY <1>1, <2>3, <3>1, WalkGoesOn
  <2>5. CASE exchange < WalkModes
    <3>1. outcome = Outcome("exchange", parsed.routes, {})
      BY <2>1, <2>5
    <3>2. outcome.next = "exchange" /\ outcome.routes = parsed.routes
      BY <3>1 DEF Outcome
    <3>3. t[3] = "WALK"
      BY <1>3, <1>8
    <3>4. joined = s.task[t].heard \o outcome.routes /\ exchange = s.task[t].exchange
      BY <3>2 DEF heard, exchange
    <3>5. LET all == s.task[t].heard \o outcome.routes
          IN  /\ Listed(ProviderOf(s, t), t[3], all)
              /\ \A i \in DOMAIN all : all[i].number < s.task[t].exchange + 1
      BY <1>8, <2>4, <3>3, <3>4
    <3>6. OutcomeFits(s, t, outcome)
      BY <3>2, <3>3, <3>5 DEF OutcomeFits, Nexts
    <3> QED BY <1>5, <3>2, <3>6
  <2>6. CASE ~(exchange < WalkModes)
    <3>1. \/ \E code : outcome = Refused(code)
          \/ outcome = Outcome("end", joined, {})
      BY <2>1, <2>6 DEF HeardAll
    <3>2. Listed(ProviderOf(s, t), t[3], joined)
      BY <1>3, <1>8, <2>4
    <3> HIDE DEF joined
    <3>3. outcome.next = "end"
      BY <3>1 DEF Refused, Outcome
    <3>4. OutcomeFits(s, t, outcome)
      BY <3>1, <3>2, RefusalsFit, EndsFit
    <3> QED BY <1>5, <3>3, <3>4
  <2> QED BY <2>5, <2>6
<1>9. CASE parsed.failure = "none" /\ provider = "KAKAO_CAR"
  <2> DEFINE priced == Costed(parsed.routes, FuelOf(s, t).price, LegOf(t).car)
  <2>1. outcome = Outcome("price", parsed.routes, {})
    BY <1>9 DEF Understood
  <2>2. t[3] # "WALK"
    BY <1>3, <1>9
  <2> HIDE DEF outcome, parsed
  <2>3. outcome.next = "price" /\ outcome.routes = parsed.routes
    BY <2>1 DEF Outcome
  <2>4. Heard(s, t, document) = outcome \/ Heard(s, t, document) = Outcome("end", priced, {})
    BY <1>4, <2>3 DEF WithPrice
  <2>5. Listed(provider, t[3], priced)
    <3> HIDE DEF provider
    <3> QED BY <1>2, CostsAreAside
  <2>6. OutcomeFits(s, t, outcome)
    BY <1>2, <2>2, <2>3 DEF OutcomeFits, Nexts
  <2> HIDE DEF priced
  <2> QED BY <2>4, <2>5, <2>6, EndsFit
<1> QED BY <1>3, <1>6, <1>7, <1>8, <1>9

\* A task that measures the distance asks the provider of driving routes.
LEMMA ClassifierHears ==
    ASSUME NEW s, NEW t, t[3] = Classify_, ProviderOf(s, t) = "KAKAO_CAR",
           NEW document, IsDocument(document)
    PROVE  OutcomeFits(s, t, Heard(s, t, document))
<1>1. ParsedBy("KAKAO_CAR", s.task[t].exchange, document) = ParseCar(document)
  BY DEF ParsedBy
<1>2. Heard(s, t, document).next \in Nexts
  BY OutcomesGoOn DEF Heard
<1>3. Heard(s, t, document).next # "exchange" /\ Measurable(Heard(s, t, document).routes)
  BY <1>1, OutcomesMeasure DEF Heard
<1>4. t[3] # "WALK"
  BY DEF Classify_
<1> QED BY <1>2, <1>3, <1>4 DEF OutcomeFits

LEMMA ClassifierCalls ==
    ASSUME NEW s, NEW t \in Task, Outside(s, t), t[3] = Classify_, s.task[t].phase = "calling"
    PROVE  Balanced(s)
<1> DEFINE p == [PhasesOf(s) EXCEPT ![t] = "none"]
<1>1. Semaphore(p, s.queue, s.permits) /\ p[t] = "none"
  BY DEF Outside, PhasesOf
<1>2. [p EXCEPT ![t] = "calling"] = PhasesOf(s)
  BY DEF PhasesOf
<1>3. "calling" \in Phases
  BY DEF Phases
<1> HIDE DEF p
<1>4. Semaphore([p EXCEPT ![t] = "calling"], s.queue, s.permits)
  BY <1>1, <1>3, PermitNotNeeded
<1> QED BY <1>2, <1>4 DEF Balanced

LEMMA LookedUpKeeps ==
    ASSUME World, Fine(server), NEW t, Busy(t), Phase(t) \in {"none", "new"},
           t[3] # Classify_ => Phase(t) = "new"
    PROVE  Fine(LookedUp(t))
<1> DEFINE key == RouteKey(t[3], LegOf(t))
           cached == CacheGet(server.cache, key, clock)
           after == CacheAfterGet(server.cache, key, clock)
           seen == [server EXCEPT !.cache = after]
           hit == [Resting EXCEPT !.phase = "done", !.found = <<cached>>]
           started == [Resting EXCEPT !.at = 1, !.exchange = 1, !.attempt = 1,
                                      !.phase = "calling"]
<1>1. /\ t \in Task /\ Real(t) /\ Shape(server) /\ CacheSound(server.cache) /\ Sound(server)
      /\ Balanced(server) /\ server.task[t].phase \in {"none", "new"}
  BY DEF Fine, Sound, Busy, Real, Phase
<1>2. LookedUp(t) =
         IF cached # Missing THEN [seen EXCEPT !.task[t] = hit]
         ELSE IF t[3] = Classify_ THEN [seen EXCEPT !.task[t] = started]
         ELSE NextProvider(seen, t, {})
  BY <1>1 DEF LookedUp, Shape
<1>3. CacheSound(after)
  <2> HIDE DEF key
  <2> QED BY <1>1, ReadingIsSound
<1>4. cached # Missing => Fits(cached, t)
  <2> SUFFICES ASSUME cached # Missing PROVE Fits(cached, t)
    OBVIOUS
  <2>1. t[3] \in Kind /\ LegOf(t) \in PlannedLeg
    BY <1>1, LegsArePlanned DEF Task, Kind
  <2>2. \E i \in DOMAIN server.cache :
           /\ cached = server.cache[i].value
           /\ EntrySound(server.cache[i]) /\ server.cache[i].key = key
           /\ clock < server.cache[i].expires
    <3> HIDE DEF key
    <3> QED BY <1>1, CacheHit
  <2>3. PICK i \in DOMAIN server.cache :
           /\ cached = server.cache[i].value
           /\ EntrySound(server.cache[i]) /\ server.cache[i].key = key
           /\ clock < server.cache[i].expires
    BY <2>2
  <2> HIDE DEF cached
  <2>4. /\ cached.leg \in PlannedLeg /\ cached.at \in Nat
        /\ RouteKey(cached.mode, cached.leg) = key
        /\ cached.mode = Classify_ => cached.distance \in Nat
        /\ cached.mode # Classify_ => ModeSound(cached)
        /\ clock < cached.at + TtlOf(cached.mode)
    BY <2>3 DEF EntrySound
  <2>5. cached.mode = t[3]
    BY <2>4 DEF RouteKey
  <2>6. visit[t[1]].at \in Nat /\ visit[t[1]].at <= clock /\ clock \in Nat
    BY <1>1 DEF World, Task
  <2>7. TtlOf(t[3]) \in Nat
    BY TtlsArePositive
  <2>8. visit[t[1]].at < cached.at + TtlOf(t[3])
    BY <2>4, <2>5, <2>6, <2>7
  <2> QED BY <2>4, <2>5, <2>8 DEF Fits
<1> HIDE DEF key, cached, after
<1>5. /\ seen.cache = after /\ seen.queue = server.queue /\ seen.permits = server.permits
      /\ seen.task = server.task /\ Shape(seen)
  BY <1>1 DEF Shape
<1>6. /\ DOMAIN hit = TaskFields /\ hit.phase = "done" /\ hit.found = <<cached>> /\ hit.at = 0
      /\ hit.heard = <<>> /\ hit.exchange = 0 /\ hit.public = <<>>
      /\ started.heard = <<>> /\ started.exchange = 1 /\ started.public = <<>>
      /\ DOMAIN started = TaskFields /\ started.phase = "calling" /\ started.found = <<>>
      /\ started.at = 1
  BY DEF Resting, TaskFields
<1> HIDE DEF seen, hit, started
<1>7. Sound(seen)
  BY <1>1, <1>3, <1>5
     DEF Sound, TasksAreReal, FoundFits, TasksArePlaced, HasProvider, NotesFit, WorkIsDone
<1>8. Balanced(seen)
  BY <1>1, <1>5 DEF Balanced, PhasesOf
<1>9. Outside(seen, t)
  BY <1>1, <1>5, <1>8, OutsideBegins DEF Calling
<1>10. CASE cached # Missing
  <2> DEFINE n == [seen EXCEPT !.task[t] = hit]
  <2>1. LookedUp(t) = n
    BY <1>2, <1>10
  <2>2. /\ n.cache = seen.cache /\ n.queue = seen.queue /\ n.permits = seen.permits
        /\ \A u \in Task : n.task[u] = IF u = t THEN hit ELSE seen.task[u]
        /\ Shape(n)
    BY <1>1, <1>5, <1>6 DEF Shape
  <2> HIDE DEF n
  <2>3. TasksArePlaced(n)
    BY <1>6, <1>7, <2>2 DEF Sound, TasksArePlaced, HasProvider, Calling
  <2>4. TasksAreReal(n)
    BY <1>1, <1>6, <1>7, <2>2 DEF Sound, TasksAreReal
  <2>5. FoundFits(n)
    <3>1. <<cached>>[1] = cached
      OBVIOUS
    <3> QED BY <1>4, <1>6, <1>7, <1>10, <2>2, <3>1 DEF Sound, FoundFits
  <2>8. NotesFit(n)
    <3>1. NoteFits(hit, t)
      BY <1>6, RestingFits
    <3> QED BY <1>7, <2>2, <3>1 DEF Sound, NotesFit
  <2>9. WorkIsDone(n)
    <3>1. <<cached>> # <<>>
      OBVIOUS
    <3> QED BY <1>6, <1>7, <2>2, <3>1 DEF Sound, WorkIsDone
  <2>6. Sound(n)
    BY <1>7, <2>2, <2>3, <2>4, <2>5, <2>8, <2>9 DEF Sound
  <2>7. Balanced(n)
    BY <1>1, <1>6, <1>9, <2>2, OutsideStays, OutsideEnds
  <2> QED BY <2>1, <2>6, <2>7 DEF Fine
<1>11. CASE cached = Missing /\ t[3] = Classify_
  <2> DEFINE n == [seen EXCEPT !.task[t] = started]
  <2>1. LookedUp(t) = n
    BY <1>2, <1>11
  <2>2. /\ n.cache = seen.cache /\ n.queue = seen.queue /\ n.permits = seen.permits
        /\ \A u \in Task : n.task[u] = IF u = t THEN started ELSE seen.task[u]
        /\ Shape(n)
    BY <1>1, <1>5, <1>6 DEF Shape
  <2> HIDE DEF n
  <2>3. 1 \in DOMAIN ChainOf(t)
    BY <1>11 DEF ChainOf
  <2>4. TasksArePlaced(n)
    BY <1>6, <1>7, <2>2, <2>3 DEF Sound, TasksArePlaced, HasProvider
  <2>8. \A u \in Task : Moves(seen.task[u], n.task[u], u)
    <3>1. Moves(seen.task[t], started, t)
      BY <1>6 DEF Moves
    <3>2. \A u \in Task : Moves(seen.task[u], seen.task[u], u)
      BY <1>7, NotesAreKept
    <3> QED BY <2>2, <3>1, <3>2
  <2>5. Sound(n)
    BY <1>7, <2>2, <2>4, <2>8, SoundStep
  <2>6. Outside(n, t)
    BY <1>1, <1>9, <2>2, OutsideStays
  <2>7. Balanced(n)
    BY <1>1, <1>6, <1>11, <2>2, <2>6, ClassifierCalls
  <2> QED BY <2>1, <2>5, <2>7 DEF Fine
<1>12. CASE cached = Missing /\ t[3] # Classify_
  <2>1. seen.task[t].at = 0
    BY <1>1, <1>5, <1>7, <1>12 DEF Sound, TasksArePlaced, Phase
  <2> QED BY <1>2, <1>7, <1>9, <1>12, <2>1, NextProviderKeeps DEF Fine
<1> QED BY <1>10, <1>11, <1>12

-----------------------------------------------------------------------------
(***************************************************************************)
(* The inductive invariant of the service.                                 *)
(***************************************************************************)
KnownRequests ==
    /\ scene \in Scenes
    /\ \A r \in Request : request[r] # "new" => Ask(r) # NotAsked

\* Who was answered with a decision came on a day that has a rule.
InForce(r) == Eligible(Rules, KoreanDate(Ask(r).startsAt))
AnswersHaveRules == \A r \in Request : WithRoutes(r) => InForce(r) # {}

PreviewInv == LimiterInv /\ KnownRequests /\ AnswersHaveRules /\ Fine(server)

LEMMA InvIsAWorld ==
    ASSUME PreviewInv
    PROVE  World
BY DEF PreviewInv, LimiterInv, VisitsAreTyped, KnownRequests, World

LEMMA ServiceStarts ==
    ASSUME Init
    PROVE  PreviewInv
<1>1. LimiterInv /\ KnownRequests /\ AnswersHaveRules
  BY LimiterStarts DEF Init, KnownRequests, AnswersHaveRules, WithRoutes
<1>2. /\ server.queue = <<>> /\ server.permits = Permits /\ server.cache = <<>>
      /\ \A t \in Task : server.task[t] = Resting
      /\ Shape(server)
  <2> DEFINE prices == [price |-> UnknownCost, expires |-> 0, asked |-> 0,
                        holder |-> <<>>, waiting |-> <<>>]
  <2>1. DOMAIN Resting = TaskFields /\ DOMAIN prices = FuelFields
    BY DEF Resting, TaskFields, FuelFields
  <2>2. server = [task |-> [t \in Task |-> Resting], queue |-> <<>>, permits |-> Permits,
                  cache |-> <<>>, fuel |-> [c \in Clients |-> prices]]
    BY DEF Init, Clients
  <2> HIDE DEF prices
  <2> QED BY <2>1, <2>2 DEF Shape
<1>3. Resting.phase = "none" /\ Resting.found = <<>> /\ Resting.at = 0 /\ Resting.heard = <<>>
      /\ Resting.exchange = 0 /\ Resting.public = <<>>
  BY DEF Resting
<1>4. CacheSound(server.cache)
  <2>1. <<>> \in Seq(ToSet(<<>>)) /\ Len(<<>>) = 0 /\ DOMAIN <<>> = {}
    BY EmptySeq
  <2> QED BY <1>2, <2>1, MaxEntriesAssumption DEF CacheSound, Keyed
<1>7. NotesFit(server)
  BY <1>2, <1>3, RestingFits DEF NotesFit
<1>8. WorkIsDone(server)
  <2>1. \A r \in Request : ~WithRoutes(r)
    BY DEF Init, WithRoutes
  <2> QED BY <1>2, <1>3, <2>1 DEF WorkIsDone, Task
<1>5. Sound(server)
  BY <1>2, <1>3, <1>4, <1>7, <1>8 DEF Sound, TasksAreReal, FoundFits, TasksArePlaced, Calling
<1>6. Balanced(server)
  <2> DEFINE p == PhasesOf(server)
  <2>1. p \in [Task -> Phases] /\ \A t \in Task : p[t] = "none"
    BY <1>2, <1>3 DEF PhasesOf, Phases
  <2>2. Holders(p) = {}
    BY <2>1 DEF Holders, Calling
  <2>3. IsFiniteSet(Holders(p)) /\ Cardinality(Holders(p)) = 0
    BY <2>2, FS_EmptySet
  <2>4. <<>> \in Seq(Task) /\ DOMAIN <<>> = {}
    BY EmptySeq
  <2> HIDE DEF p
  <2>5. Semaphore(p, <<>>, Permits)
    BY <2>1, <2>3, <2>4, PreviewAssumption DEF Semaphore
  <2> QED BY <1>2, <2>5 DEF Balanced, p
<1> QED BY <1>1, <1>5, <1>6 DEF PreviewInv, Fine

\* A step of a task: only what the tasks share changes.
LEMMA TasksStep ==
    ASSUME PreviewInv, NEW n, Becomes(n), Fine(n), LimiterInv'
    PROVE  PreviewInv'
<1>1. server' = n /\ UNCHANGED <<scene, request, visit>>
  BY DEF Becomes
<1>2. KnownRequests' /\ AnswersHaveRules'
  BY <1>1 DEF PreviewInv, KnownRequests, AnswersHaveRules, WithRoutes, OutOfCoverage, InForce, Ask
<1>3. \A t \in Task : (Real(t) => Real(t)') /\ (Busy(t) => Busy(t)')
  BY <1>1 DEF Busy, Real, Ask, Legs
<1>4. \A value : \A t \in Task : Fits(value, t) => Fits(value, t)'
  BY <1>1 DEF Fits, LegOf, Legs, Ask
<1>5. \A t \in Task : HasProvider(n, t) => HasProvider(n, t)'
  BY <1>1 DEF HasProvider, ChainOf
<1>6. Shape(server)' /\ CacheSound(server.cache)'
  BY <1>1 DEF Fine, Sound
<1>7. TasksAreReal(server)'
  BY <1>1, <1>3 DEF Fine, Sound, TasksAreReal
<1>8. FoundFits(server)'
  BY <1>1, <1>4 DEF Fine, Sound, FoundFits
<1>9. TasksArePlaced(server)'
  BY <1>1, <1>5 DEF Fine, Sound, TasksArePlaced
<1>10. Balanced(server)'
  BY <1>1 DEF Fine
<1>11. NotesFit(server)'
  <2>1. \A here : \A t \in Task : NoteFits(here, t) => NoteFits(here, t)'
    BY <1>1 DEF NoteFits, ChainOf
  <2> QED BY <1>1, <2>1 DEF Fine, Sound, NotesFit
<1>12. WorkIsDone(server)'
  BY <1>1 DEF Fine, Sound, WorkIsDone, WithRoutes, OutOfCoverage, Legs, Ask
<1> QED BY <1>2, <1>6, <1>7, <1>8, <1>9, <1>10, <1>11, <1>12 DEF PreviewInv, Fine, Sound

LEMMA CallOf ==
    ASSUME PreviewInv, NEW t \in Task, Phase(t) \in Calling
    PROVE  InCall(server, t)
BY DEF PreviewInv, Fine, Sound, TasksAreReal, InCall, Phase, Calling

LEMMA StepOfTask ==
    ASSUME PreviewInv, LimiterInv', NEW t \in Task, TaskStep(t) \/ TimedOut(t)
    PROVE  PreviewInv'
<1>1. World
  BY InvIsAWorld
<1>2. CASE DisplayModeRoutes(t)
  <2>1. Phase(t) = "new" /\ Becomes(LookedUp(t))
    BY <1>2 DEF DisplayModeRoutes, Starting
  <2>2. Busy(t)
    BY <2>1 DEF PreviewInv, Fine, Sound, TasksAreReal, Phase
  <2>3. Fine(LookedUp(t))
    BY <1>1, <2>1, <2>2, LookedUpKeeps DEF PreviewInv
  <2> QED BY <2>1, <2>3, TasksStep
<1>3. CASE NoCredential(t)
  <2>1. CASE Phase(t) = "calling" /\ Becomes(Carried(server, t, Refused("MISSING_CREDENTIAL")))
    <3>1. InCall(server, t)
      BY <2>1, CallOf DEF Calling
    <3>2. OutcomeFits(server, t, Refused("MISSING_CREDENTIAL"))
      BY RefusalsFit
    <3>3. Fine(Carried(server, t, Refused("MISSING_CREDENTIAL")))
      BY <1>1, <3>1, <3>2, CarriedKeeps
    <3> QED BY <2>1, <3>3, TasksStep
  <2>2. CASE /\ Phase(t) = "pricing"
             /\ Becomes(PriceEnds(server, t, UnknownCost, "MISSING_CREDENTIAL"))
    <3>1. InCall(server, t)
      BY <2>2, CallOf DEF Calling
    <3>2. Fine(PriceEnds(server, t, UnknownCost, "MISSING_CREDENTIAL"))
      BY <1>1, <3>1, PriceEndsKeeps
    <3> QED BY <2>2, <3>2, TasksStep
  <2> QED BY <1>3, <2>1, <2>2 DEF NoCredential, Runs
<1>4. CASE Answered(t)
  <2>1. Phase(t) = "calling"
    BY <1>4 DEF Answered, Runs
  <2>2. PICK document \in Documents(server, t) : Becomes(Carried(server, t, Heard(server, t, document)))
    BY <1>4 DEF Answered, Heard
  <2>3. InCall(server, t)
    BY <2>1, CallOf DEF Calling
  <2>4. IsDocument(document)
    <3>1. CASE t[3] = Classify_
      BY <1>1, <3>1, SceneAssumption DEF World, Documents
    <3>2. CASE t[3] # Classify_
      <4>1. t[3] \in Mode
        BY <3>2 DEF Task
      <4>2. ProviderOf(server, t) \in ProvidersOf(t[3])
        BY <1>1, <2>3, <3>2, CallsOfTheMode
      <4>3. ProviderOf(server, t) \in ToSet(Registry)
        BY <4>1, <4>2 DEF Mode, ProvidersOf, Registry, ToSet
      <4> QED BY <1>1, <3>2, <4>3, SceneAssumption DEF World, Documents
    <3> QED BY <3>1, <3>2
  <2>5. OutcomeFits(server, t, Heard(server, t, document))
    <3>1. CASE t[3] = Classify_
      <4>1. ChainOf(t) = <<"KAKAO_CAR">>
        BY <3>1 DEF ChainOf
      <4>2. server.task[t].at = 1
        BY <2>1, <4>1 DEF PreviewInv, Fine, Sound, TasksArePlaced, HasProvider, Phase, Calling
      <4>3. ProviderOf(server, t) = "KAKAO_CAR"
        BY <4>1, <4>2 DEF ProviderOf
      <4> QED BY <2>4, <3>1, <4>3, ClassifierHears
    <3>2. CASE t[3] # Classify_
      BY <1>1, <2>3, <2>4, <3>2, DocumentsFit
    <3> QED BY <3>1, <3>2
  <2>6. Fine(Carried(server, t, Heard(server, t, document)))
    BY <1>1, <2>3, <2>5, CarriedKeeps
  <2> QED BY <2>2, <2>6, TasksStep
<1>5. CASE Faulted(t)
  <2>1. Phase(t) = "calling"
    BY <1>5 DEF Faulted, Runs
  <2>2. PICK kind : Becomes(Carried(server, t, IF MayTryAgain(server, t, kind)
                                                 THEN Outcome("again", <<>>, {})
                                                 ELSE Refused(FailureCode(kind))))
    BY <1>5 DEF Faulted
  <2> DEFINE outcome == IF MayTryAgain(server, t, kind) THEN Outcome("again", <<>>, {})
                        ELSE Refused(FailureCode(kind))
  <2>3. OutcomeFits(server, t, outcome)
    BY RefusalsFit
  <2>4. InCall(server, t)
    BY <2>1, CallOf DEF Calling
  <2>5. Becomes(Carried(server, t, outcome))
    BY <2>2
  <2> HIDE DEF outcome
  <2>6. Fine(Carried(server, t, outcome))
    BY <1>1, <2>3, <2>4, CarriedKeeps
  <2> QED BY <2>5, <2>6, TasksStep
<1>6. CASE LockTurn(t)
  <2> DEFINE fuel == FuelOf(server, t)
             priced == Priced(LeaveFuel(server, t), t, fuel.price, {})
             locked == TakeLock(LeaveFuel(server, t), t)
  <2>1. Phase(t) = "awaitingPrice" /\ (Becomes(priced) \/ Becomes(locked))
    BY <1>6 DEF LockTurn, Runs
  <2>2. InCall(LeaveFuel(server, t), t)
    BY <2>1, CallOf, LeaveFuelKeeps DEF Calling
  <2>3. Fine(priced)
    BY <1>1, <2>2, PricedKeeps
  <2>4. Fine(locked)
    BY <2>2, TakeLockKeeps DEF InCall, Fine
  <2> HIDE DEF priced, locked
  <2> QED BY <2>1, <2>3, <2>4, TasksStep
<1>7. CASE PriceAnswered(t)
  <2>1. Phase(t) = "pricing"
    BY <1>7 DEF PriceAnswered, Runs
  <2>2. PICK document : Becomes(PriceEnds(server, t, document.price, ParsePrices(document)))
    BY <1>7 DEF PriceAnswered
  <2>3. InCall(server, t)
    BY <2>1, CallOf DEF Calling
  <2>4. Fine(PriceEnds(server, t, document.price, ParsePrices(document)))
    BY <1>1, <2>3, PriceEndsKeeps
  <2> QED BY <2>2, <2>4, TasksStep
<1>8. CASE PriceFaulted(t)
  <2> DEFINE n == [server EXCEPT !.task[t].attempt = @ + 1]
             ended(kind) == PriceEnds(server, t, UnknownCost, FailureCode(kind))
  <2>1. Phase(t) = "pricing"
    BY <1>8 DEF PriceFaulted, Runs
  <2>2. PICK kind : Becomes(n) \/ Becomes(ended(kind))
    BY <1>8 DEF PriceFaulted
  <2>3. InCall(server, t) /\ Shape(server)
    BY <2>1, CallOf DEF Calling, InCall, Sound
  <2>4. Fine(ended(kind))
    BY <1>1, <2>3, PriceEndsKeeps
  <2>5. Fine(n)
    <3>1. /\ n.cache = server.cache /\ n.queue = server.queue /\ n.permits = server.permits
          /\ \A u \in Task : Notes(n.task[u]) = Notes(server.task[u])
          /\ \A u \in Task : n.task[u].phase = server.task[u].phase
          /\ Shape(n)
      BY <2>3 DEF Shape, TaskFields, Notes
    <3> HIDE DEF n
    <3>2. server.task[t].phase \in Calling
      BY <2>3 DEF InCall
    <3>3. InCall(n, t)
      BY <2>3, <3>1, <3>2, CallGoesOn
    <3> QED BY <3>3 DEF InCall, Fine
  <2> HIDE DEF n, ended
  <2> QED BY <2>2, <2>4, <2>5, TasksStep
<1>9. CASE TimedOut(t)
  <2> DEFINE left == LeaveFuel(server, t)
  <2>1. /\ Phase(t) \in Calling /\ t[3] # Classify_
        /\ Becomes(NextProvider(Release(left), t, {"UPSTREAM_TIMEOUT"}))
    BY <1>9 DEF TimedOut
  <2>2. InCall(left, t)
    BY <2>1, CallOf, LeaveFuelKeeps
  <2> HIDE DEF left
  <2>3. Sound(Release(left)) /\ Outside(Release(left), t) /\ Busy(t)
    BY <2>1, <2>2, CallReleases DEF InCall
  <2>4. Fine(NextProvider(Release(left), t, {"UPSTREAM_TIMEOUT"}))
    BY <1>1, <2>1, <2>3, NextProviderKeeps DEF Fine
  <2> QED BY <2>1, <2>4, TasksStep
<1> QED BY <1>2, <1>3, <1>4, <1>5, <1>6, <1>7, <1>8, <1>9 DEF TaskStep

\* The tasks of a request appear together.
LEMMA TasksAppear ==
    ASSUME NEW p, NEW q, NEW k, Semaphore(p, q, k), NEW after \in [Task -> Phases],
           \A t \in Task : after[t] = p[t] \/ (p[t] = "none" /\ after[t] = "new")
    PROVE  Semaphore(after, q, k)
<1>1. Holders(after) = Holders(p)
  BY DEF Holders, Calling
<1>2. \A t \in Task : after[t] = "queued" <=> \E i \in DOMAIN q : q[i] = t
  <2>1. \A t \in Task : p[t] = "queued" <=> \E i \in DOMAIN q : q[i] = t
    BY DEF Semaphore
  <2>2. \A t \in Task : after[t] = "queued" <=> p[t] = "queued"
    OBVIOUS
  <2> QED BY <2>1, <2>2
<1> QED BY <1>1, <1>2 DEF Semaphore

LEMMA StepOfVisitor ==
    ASSUME PreviewInv, LimiterInv', NEW r \in Request, TripPreviewRequested(r)
    PROVE  PreviewInv'
<1>1. /\ request[r] = "new" /\ Ask(r) # NotAsked /\ scene' = scene
      /\ request \in [Request -> Answers]
      /\ \A q \in Request : q # r => request'[q] = request[q] /\ visit'[q] = visit[q]
      /\ request'[r] # "new"
  BY DEF TripPreviewRequested, PreviewInv, LimiterInv, VisitsAreTyped
<1>2. server' = server \/ (server' = Started(server, r) /\ request'[r] = "working")
  BY <1>1 DEF TripPreviewRequested
<1>3. KnownRequests' /\ AnswersHaveRules'
  <2>1. KnownRequests'
    BY <1>1 DEF PreviewInv, KnownRequests, Ask
  <2>2. request'[r] = "answered" => OutOfCoverage(r)
    BY <1>1 DEF TripPreviewRequested
  <2>3. AnswersHaveRules'
    BY <1>1, <2>2 DEF PreviewInv, AnswersHaveRules, WithRoutes, OutOfCoverage, InForce, Ask
  <2> QED BY <2>1, <2>3
<1>12. request'[r] = "answered" => OutOfCoverage(r)
  BY <1>1 DEF TripPreviewRequested
<1>4. Fine(server)
  BY DEF PreviewInv
<1>5. \A t \in Task : t[1] = r => server.task[t].phase = "none" /\ server.task[t].found = <<>>
  BY <1>1, <1>4 DEF Fine, Sound, TasksAreReal, Real
<1>6. \A t \in Task : (Real(t) => Real(t)') /\ (Busy(t) => Busy(t)')
  BY <1>1 DEF Busy, Real, Ask, Legs, Task
<1>7. \A value : \A t \in Task : t[1] # r /\ Fits(value, t) => Fits(value, t)'
  BY <1>1 DEF Fits, LegOf, Legs, Ask, Task
<1>8. \A s : \A t \in Task : HasProvider(s, t) => HasProvider(s, t)'
  BY <1>1 DEF HasProvider, ChainOf
<1>9. ASSUME NEW n, server' = n, Shape(n), n.cache = server.cache,
             n.queue = server.queue, n.permits = server.permits,
             \A t \in Task : \/ n.task[t] = server.task[t]
                             \/ n.task[t] = [Resting EXCEPT !.phase = "new"] /\ Busy(t)'
                                            /\ t[1] = r
      PROVE  PreviewInv'
  <2> DEFINE fresh == [Resting EXCEPT !.phase = "new"]
  <2>1. fresh.phase = "new" /\ fresh.found = <<>> /\ fresh.at = 0 /\ fresh.heard = <<>>
        /\ fresh.exchange = 0 /\ fresh.public = <<>>
    BY DEF Resting
  <2>2. \A t \in Task : \/ n.task[t] = server.task[t]
                        \/ (n.task[t] = fresh /\ Busy(t)' /\ t[1] = r)
    BY <1>9
  <2> HIDE DEF fresh
  <2>3. Shape(server)' /\ CacheSound(server.cache)'
    BY <1>4, <1>9 DEF Fine, Sound
  <2>4. TasksAreReal(server)'
    BY <1>4, <1>6, <1>9, <2>1, <2>2 DEF Fine, Sound, TasksAreReal, Busy
  <2>5. FoundFits(server)'
    <3> SUFFICES ASSUME NEW t \in Task, n.task[t].found # <<>>
                 PROVE  Fits(n.task[t].found[1], t)'
      BY <1>9 DEF FoundFits
    <3>1. n.task[t] = server.task[t] /\ t[1] # r
      BY <1>5, <2>1, <2>2
    <3>2. Fits(n.task[t].found[1], t)
      BY <1>4, <3>1 DEF Fine, Sound, FoundFits
    <3>3. \A value : Fits(value, t) => Fits(value, t)'
      BY <1>7, <3>1
    <3> DEFINE value == n.task[t].found[1]
    <3> HIDE DEF value
    <3>4. Fits(value, t)
      BY <3>2 DEF value
    <3>5. scene' = scene /\ visit'[t[1]] = visit[t[1]]
      BY <1>1, <3>1 DEF Task
    <3>6. /\ value.mode = t[3] /\ value.leg \in PlannedLeg /\ value.at \in Nat
          /\ RouteKey(value.mode, value.leg) = RouteKey(t[3], LegOf(t))
          /\ t[3] # Classify_ => ModeSound(value)
          /\ visit[t[1]].at < value.at + TtlOf(t[3])
      BY <3>4 DEF Fits
    <3> QED BY <3>2, <3>5 DEF Fits, LegOf, Legs, Ask
  <2>6. TasksArePlaced(server)'
    <3>1. \A t \in Task : /\ server.task[t].at \in Nat
                          /\ server.task[t].phase \in Calling \cup {"queued"} => HasProvider(server, t)
                          /\ server.task[t].phase = "new" => server.task[t].at = 0
      BY <1>4 DEF Fine, Sound, TasksArePlaced
    <3> SUFFICES ASSUME NEW t \in Task
                 PROVE  /\ n.task[t].at \in Nat
                        /\ n.task[t].phase \in Calling \cup {"queued"} => HasProvider(n, t)'
                        /\ n.task[t].phase = "new" => n.task[t].at = 0
      BY <1>9 DEF TasksArePlaced
    <3>2. CASE n.task[t] = server.task[t]
      <4>1. HasProvider(server, t) => HasProvider(n, t)'
        BY <1>1, <3>2 DEF HasProvider, ChainOf
      <4> QED BY <3>1, <3>2, <4>1
    <3>3. CASE n.task[t] = fresh
      BY <2>1, <3>3 DEF Calling
    <3> QED BY <2>2, <3>2, <3>3
  <2>7. Balanced(server)'
    <3> DEFINE p == PhasesOf(server)
               after == PhasesOf(n)
    <3>1. Semaphore(p, server.queue, server.permits) /\ p \in [Task -> Phases]
      BY <1>4 DEF Fine, Balanced, Semaphore
    <3>2. \A t \in Task : after[t] = p[t] \/ (p[t] = "none" /\ after[t] = "new")
      BY <1>5, <2>1, <2>2 DEF PhasesOf
    <3>3. after \in [Task -> Phases]
      <4>1. \A t \in Task : after[t] \in Phases
        BY <3>1, <3>2 DEF Phases
      <4> QED BY <4>1 DEF PhasesOf
    <3> HIDE DEF p, after
    <3>4. Semaphore(after, server.queue, server.permits)
      BY <3>1, <3>2, <3>3, TasksAppear
    <3> QED BY <1>9, <3>4 DEF Balanced, after
  <2>8. NotesFit(server)'
    <3> SUFFICES ASSUME NEW t \in Task PROVE NoteFits(n.task[t], t)'
      BY <1>9 DEF NotesFit
    <3>1. NoteFits(n.task[t], t)
      <4>1. CASE n.task[t] = server.task[t]
        BY <1>4, <4>1 DEF Fine, Sound, NotesFit
      <4>2. CASE n.task[t] = fresh
        BY <2>1, <4>2, RestingFits
      <4> QED BY <2>2, <4>1, <4>2
    <3> QED BY <1>1, <3>1 DEF NoteFits, ChainOf
  <2>9. WorkIsDone(server)'
    <3> SUFFICES ASSUME NEW t \in Task, t[3] # Classify_
                 PROVE  /\ n.task[t].phase = "done" => n.task[t].found # <<>>
                        /\ (WithRoutes(t[1]) /\ t[2] \in DOMAIN Legs(t[1]))' =>
                              n.task[t].phase = "done"
      BY <1>9 DEF WorkIsDone
    <3>1. CASE t[1] = r
      <4>1. ~WithRoutes(r)'
        BY <1>1, <1>12 DEF WithRoutes, OutOfCoverage, Ask
      <4>2. n.task[t].phase \in {"none", "new"}
        BY <1>5, <2>1, <2>2, <3>1
      <4> QED BY <3>1, <4>1, <4>2
    <3>2. CASE t[1] # r
      <4>1. n.task[t] = server.task[t] /\ request'[t[1]] = request[t[1]] /\ t[1] \in Request
        BY <1>1, <2>2, <3>2 DEF Task
      <4>2. /\ server.task[t].phase = "done" => server.task[t].found # <<>>
            /\ WithRoutes(t[1]) /\ t[2] \in DOMAIN Legs(t[1]) => server.task[t].phase = "done"
        BY <1>4 DEF Fine, Sound, WorkIsDone
      <4>3. (WithRoutes(t[1]) /\ t[2] \in DOMAIN Legs(t[1]))' <=>
               WithRoutes(t[1]) /\ t[2] \in DOMAIN Legs(t[1])
        BY <1>1, <4>1 DEF WithRoutes, OutOfCoverage, Legs, Ask
      <4> QED BY <4>1, <4>2, <4>3
    <3> QED BY <3>1, <3>2
  <2> QED BY <1>3, <2>3, <2>4, <2>5, <2>6, <2>7, <2>8, <2>9 DEF PreviewInv, Fine, Sound
<1>10. CASE server' = server
  BY <1>4, <1>9, <1>10 DEF Fine, Sound
<1>11. CASE server' = Started(server, r) /\ request'[r] = "working"
  <2> DEFINE fresh == [Resting EXCEPT !.phase = "new"]
             begun(t) == t[1] = r /\ t[2] \in DOMAIN Legs(r) /\ t[3] \in Mode
             n == [server EXCEPT !.task =
                      [t \in Task |-> IF begun(t) THEN fresh ELSE server.task[t]]]
  <2>1. server' = n
    BY <1>4, <1>11 DEF Started, Fine, Sound, Shape
  <2>2. DOMAIN fresh = TaskFields
    BY DEF Resting, TaskFields
  <2>3. \A t \in Task : begun(t) => Busy(t)' /\ t[1] = r
    BY <1>1, <1>11 DEF Busy, Real, Ask, Legs
  <2> HIDE DEF fresh, begun
  <2>4. /\ n.cache = server.cache /\ n.queue = server.queue /\ n.permits = server.permits
        /\ \A t \in Task : n.task[t] = IF begun(t) THEN fresh ELSE server.task[t]
        /\ Shape(n)
    BY <1>4, <2>2 DEF Fine, Sound, Shape
  <2> HIDE DEF n
  <2>5. \A t \in Task : \/ n.task[t] = server.task[t]
                        \/ n.task[t] = [Resting EXCEPT !.phase = "new"] /\ Busy(t)' /\ t[1] = r
    BY <2>3, <2>4 DEF fresh
  <2> QED BY <1>9, <2>1, <2>4, <2>5
<1> QED BY <1>2, <1>10, <1>11

\* Nothing of what the tasks share, of the visits and of the scene changes; a
\* request is done with only when its tasks are, and answered with all modes.
LEMMA StepBeside ==
    ASSUME PreviewInv, LimiterInv', UNCHANGED <<scene, visit, server>>,
           \A r \in Request : request'[r] # "new" <=> request[r] # "new",
           \A r \in Request : request'[r] = "answered" =>
                                 request[r] = "answered" \/ (InForce(r) # {} /\ Shown(r)),
           \A r \in Request : request[r] = "working" =>
              \/ request'[r] = "working"
              \/ \A t \in Task : t[1] = r => Phase(t) \in {"none", "done"}
    PROVE  PreviewInv'
<1>1. KnownRequests' /\ AnswersHaveRules'
  BY DEF PreviewInv, KnownRequests, AnswersHaveRules, WithRoutes, OutOfCoverage, InForce, Ask
<1>2. Fine(server)
  BY DEF PreviewInv
<1>3. \A t \in Task : Real(t) => Real(t)'
  BY DEF Real, Ask, Legs, Task
<1>4. \A value : \A t \in Task : Fits(value, t) => Fits(value, t)'
  BY DEF Fits, LegOf, Legs, Ask
<1>5. \A s : \A t \in Task : HasProvider(s, t) => HasProvider(s, t)'
  BY DEF HasProvider, ChainOf
<1>6. Shape(server)' /\ CacheSound(server.cache)' /\ Balanced(server)'
  BY <1>2 DEF Fine, Sound
<1>7. TasksAreReal(server)'
  <2> SUFFICES ASSUME NEW t \in Task
               PROVE  /\ Phase(t) # "none" \/ server.task[t].found # <<>> => Real(t)'
                      /\ Phase(t) \notin {"none", "done"} => Busy(t)'
    BY DEF TasksAreReal, Phase
  <2>1. /\ Phase(t) # "none" \/ server.task[t].found # <<>> => Real(t)
        /\ Phase(t) \notin {"none", "done"} => Busy(t)
    BY <1>2 DEF Fine, Sound, TasksAreReal, Phase
  <2>2. t[1] \in Request
    BY DEF Task
  <2> QED BY <1>3, <2>1, <2>2 DEF Busy
<1>8. FoundFits(server)'
  BY <1>2, <1>4 DEF Fine, Sound, FoundFits
<1>9. TasksArePlaced(server)'
  BY <1>2, <1>5 DEF Fine, Sound, TasksArePlaced
<1>10. NotesFit(server)'
  <2>1. \A here : \A t \in Task : NoteFits(here, t) => NoteFits(here, t)'
    BY DEF NoteFits, ChainOf
  <2> QED BY <1>2, <2>1 DEF Fine, Sound, NotesFit
<1>11. WorkIsDone(server)'
  <2> SUFFICES ASSUME NEW t \in Task, t[3] # Classify_
               PROVE  /\ Phase(t) = "done" => server.task[t].found # <<>>
                      /\ (WithRoutes(t[1]) /\ t[2] \in DOMAIN Legs(t[1]))' => Phase(t) = "done"
    BY DEF WorkIsDone, Phase
  <2>1. t[1] \in Request /\ t[2] \in Leg /\ t[3] \in Mode /\ t = <<t[1], t[2], t[3]>>
    BY DEF Task
  <2>2. /\ Phase(t) = "done" => server.task[t].found # <<>>
        /\ WithRoutes(t[1]) /\ t[2] \in DOMAIN Legs(t[1]) => Phase(t) = "done"
    BY <1>2 DEF Fine, Sound, WorkIsDone, Phase
  <2>3. ASSUME WithRoutes(t[1])', t[2] \in DOMAIN Legs(t[1])
        PROVE  Phase(t) = "done"
    <3>1. request[t[1]] = "answered" \/ Shown(t[1])
      BY <2>1, <2>3 DEF WithRoutes
    <3>2. CASE request[t[1]] = "answered"
      BY <2>2, <2>3, <3>2 DEF WithRoutes, OutOfCoverage, Ask
    <3>3. CASE Shown(t[1])
      BY <2>1, <2>3, <3>3 DEF Shown, Done
    <3> QED BY <3>1, <3>2, <3>3
  <2>4. DOMAIN Legs(t[1])' = DOMAIN Legs(t[1])
    BY DEF Legs, Ask
  <2> QED BY <2>2, <2>3, <2>4
<1> QED BY <1>1, <1>6, <1>7, <1>8, <1>9, <1>10, <1>11 DEF PreviewInv, Fine, Sound

LEMMA ServiceSteps ==
    ASSUME PreviewInv, [Next]_vars
    PROVE  PreviewInv'
<1>1. LimiterInv'
  BY LimiterSteps DEF PreviewInv
<1>2. request \in [Request -> Answers]
  BY DEF PreviewInv, LimiterInv, VisitsAreTyped
<1>3. CASE Tick
  BY <1>1, <1>3, StepBeside DEF Tick
<1>4. ASSUME NEW r \in Request, TripPreviewRequested(r)
      PROVE  PreviewInv'
  BY <1>1, <1>4, StepOfVisitor
<1>5. ASSUME NEW r \in Request, Preview(r)
      PROVE  PreviewInv'
  <2>1. /\ UNCHANGED <<scene, visit, server>>
        /\ \A q \in Request : request'[q] # "new" <=> request[q] # "new"
        /\ Shown(r)
    BY <1>2, <1>5 DEF Preview
  <2>2. ASSUME InForce(r) = {} PROVE request'[r] # "answered"
    <3>1. PolicyOf(r) = [status |-> Failed]
      BY <2>2 DEF PolicyOf, Calculate, PolicyInputOf, InForce
    <3>2. Response(r).policy = PolicyOf(r)
      BY DEF Response
    <3>3. Response(r).policy.status = Failed
      BY <3>1, <3>2
    <3> QED BY <1>2, <1>5, <3>3 DEF Preview
  <2>3. \A q \in Request : q # r => request'[q] = request[q]
    BY <1>2, <1>5 DEF Preview
  <2>4. ASSUME NEW t \in Task, t[1] = r PROVE Phase(t) \in {"none", "done"}
    <3>1. t = <<r, t[2], t[3]>> /\ t[3] \in Mode \cup {Classify_}
      BY <2>4 DEF Task
    <3>2. CASE t[2] \in DOMAIN Legs(r)
      BY <1>5, <2>1, <3>1, <3>2 DEF Preview, Shown, Done
    <3>3. CASE t[2] \notin DOMAIN Legs(r)
      BY <2>4, <3>3 DEF PreviewInv, Fine, Sound, TasksAreReal, Real, Phase
    <3> QED BY <3>2, <3>3
  <2>5. \A q \in Request : request'[q] = "answered" =>
                              request[q] = "answered" \/ (InForce(q) # {} /\ Shown(q))
    BY <2>1, <2>2, <2>3
  <2>6. \A q \in Request : request[q] = "working" =>
           \/ request'[q] = "working"
           \/ \A t \in Task : t[1] = q => Phase(t) \in {"none", "done"}
    BY <2>3, <2>4
  <2> QED BY <1>1, <2>1, <2>5, <2>6, StepBeside
<1>6. ASSUME NEW r \in Request, NEW l \in Leg, ClassificationRoute(r, l)
      PROVE  PreviewInv'
  <2> DEFINE t == <<r, l, Classify_>>
  <2>1. /\ request[r] = "working" /\ l \in DOMAIN Legs(r) /\ Phase(t) = "none"
        /\ Becomes(LookedUp(t))
    BY <1>6 DEF ClassificationRoute
  <2>2. t \in Task /\ t[1] = r /\ t[2] = l /\ t[3] = Classify_
    BY DEF Task
  <2> HIDE DEF t
  <2>3. Busy(t)
    BY <2>1, <2>2 DEF Busy, Real, PreviewInv, KnownRequests
  <2>4. Fine(LookedUp(t))
    BY <2>1, <2>2, <2>3, InvIsAWorld, LookedUpKeeps DEF PreviewInv
  <2> QED BY <1>1, <2>1, <2>4, TasksStep
<1>7. ASSUME NEW t \in Task, TaskStep(t) \/ TimedOut(t)
      PROVE  PreviewInv'
  BY <1>1, <1>7, StepOfTask
<1>8. CASE UNCHANGED vars
  BY <1>1, <1>8, StepBeside DEF vars
<1> QED BY <1>3, <1>4, <1>5, <1>6, <1>7, <1>8 DEF Next

(***************************************************************************)
(* What the tasks of all requests share is sound in every state: permits   *)
(* and waiting tasks add up, the cache keeps what it was given under its   *)
(* own key, and what a task has found fits its mode and leg                *)
(* (trip_preview.py:155-212, orchestrator.py:126-245, cache.py:44-94).     *)
(***************************************************************************)
THEOREM ServiceInvariant == Spec => []PreviewInv
<1>1. Init => PreviewInv
  BY ServiceStarts
<1>2. PreviewInv /\ [Next]_vars => PreviewInv'
  BY ServiceSteps
<1> QED BY <1>1, <1>2, PTL DEF Spec

(***************************************************************************)
(* Permits are neither lost nor made, whether calls end, fail or are given *)
(* up, and in whatever order; tasks wait only while none is free; the      *)
(* cache keeps to its size and has a key once (orchestrator.py:155-165,    *)
(* cache.py:44-63).                                                        *)
(***************************************************************************)
THEOREM PermitsAreKept == Spec => []TypeOK
<1>1. PreviewInv => TypeOK
  <2> SUFFICES ASSUME PreviewInv PROVE TypeOK
    OBVIOUS
  <2> DEFINE p == PhasesOf(server)
  <2>1. /\ Semaphore(p, server.queue, server.permits) /\ \A t \in Task : p[t] = Phase(t)
    BY DEF PreviewInv, Fine, Balanced, PhasesOf, Phase
  <2> HIDE DEF p
  <2>2. Holders(p) = {t \in Task : Phase(t) \in Calling /\ t[3] # Classify_}
    BY <2>1 DEF Holders
  <2>3. ToSet(server.queue) = {t \in Task : Phase(t) = "queued"}
    <3>1. \A i \in DOMAIN server.queue : server.queue[i] \in Task
      BY <2>1 DEF Semaphore
    <3>2. \A t \in Task : Phase(t) = "queued" <=> \E i \in DOMAIN server.queue : server.queue[i] = t
      BY <2>1 DEF Semaphore
    <3> QED BY <3>1, <3>2 DEF ToSet
  <2>4. request \in [Request -> {"new", "refused", "unknown", "working", "answered", "failed"}]
    BY DEF PreviewInv, LimiterInv, VisitsAreTyped, Answers
  <2>5. /\ Len(server.cache) <= MaxEntries
        /\ \A i, j \in DOMAIN server.cache : server.cache[i].key = server.cache[j].key => i = j
    BY DEF PreviewInv, Fine, Sound, CacheSound, Keyed
  <2>6. /\ server.permits \in 0..Permits
        /\ server.permits + Cardinality(Holders(p)) = Permits
        /\ server.queue # <<>> => server.permits = 0
    BY <2>1 DEF Semaphore
  <2> QED BY <2>2, <2>3, <2>4, <2>5, <2>6 DEF TypeOK
<1> QED BY <1>1, ServiceInvariant, PTL

\* Legs that share a key share their five minutes, their ends to the rounding
\* and, for the car, their assumptions.
LEMMA KeysTellLegs ==
    ASSUME NEW kind \in Mode, NEW a \in PlannedLeg, NEW b \in PlannedLeg,
           RouteKey(kind, a) = RouteKey(kind, b)
    PROVE  /\ Distance(a.from, b.from) < 10 /\ Distance(a.to, b.to) < 10
           /\ a.departs \div 300 = b.departs \div 300
           /\ kind = "CAR" => a.car = b.car
<1>1. /\ Quantized(a.from) = Quantized(b.from) /\ Quantized(a.to) = Quantized(b.to)
      /\ DepartureBucket(a.departs) = DepartureBucket(b.departs)
      /\ KeyOptions(kind, a) = KeyOptions(kind, b)
  BY DEF RouteKey
<1>2. /\ a.from \in Int /\ b.from \in Int /\ a.to \in Int /\ b.to \in Int
      /\ a.car \in CarAssumptions /\ b.car \in CarAssumptions
  BY DEF PlannedLeg
<1>3. ASSUME NEW x \in Int, NEW y \in Int, Quantized(x) = Quantized(y)
      PROVE  Distance(x, y) < 10
  BY <1>3 DEF Quantized, Distance
<1>4. ASSUME kind = "CAR" PROVE a.car = b.car
  <2>1. /\ KeyOptions(kind, a) = <<a.car.fuel, a.car.efficiency, a.car.parking>>
        /\ KeyOptions(kind, b) = <<b.car.fuel, b.car.efficiency, b.car.parking>>
    BY <1>4 DEF KeyOptions, Classify_
  <2>2. /\ a.car.fuel = b.car.fuel /\ a.car.efficiency = b.car.efficiency
        /\ a.car.parking = b.car.parking
    <3>1. <<a.car.fuel, a.car.efficiency, a.car.parking>>
              = <<b.car.fuel, b.car.efficiency, b.car.parking>>
      BY <1>1, <2>1
    <3> QED BY ONLY <3>1
  <2> QED BY <1>2, <2>2 DEF CarAssumptions
<1> QED BY <1>1, <1>2, <1>3, <1>4 DEF DepartureBucket

(***************************************************************************)
(* Whoever had it looked up, what a request is shown for a mode of a leg   *)
(* was found for that mode, for the same ends to the rounding of a         *)
(* coordinate, for the same five minutes and, for the car, under the same  *)
(* assumptions, and had not outlived its time to live when the request     *)
(* came (trip_preview.py:172-212, cache.py:44-94).                         *)
(***************************************************************************)
THEOREM AnswersAreToTheQuestion == Spec => []AnswersFitTheQuestion
<1>1. PreviewInv => AnswersFitTheQuestion
  <2> SUFFICES ASSUME PreviewInv, NEW t \in Collections
               PROVE  LET found == Found(t)
                          leg == LegOf(t)
                      IN  /\ found.mode = t[3]
                          /\ Distance(found.leg.from, leg.from) < 10
                          /\ Distance(found.leg.to, leg.to) < 10
                          /\ found.leg.departs \div 300 = leg.departs \div 300
                          /\ t[3] = "CAR" => found.leg.car = leg.car
                          /\ visit[t[1]].at < found.at + TtlOf(t[3])
    BY DEF AnswersFitTheQuestion
  <2>1. t \in Task /\ t[3] \in Mode /\ server.task[t].found # <<>>
    BY DEF Collections, Task
  <2>2. Fits(Found(t), t) /\ Real(t)
    BY <2>1 DEF PreviewInv, Fine, Sound, FoundFits, TasksAreReal, Found
  <2>3. LegOf(t) \in PlannedLeg
    BY <2>2, InvIsAWorld, LegsArePlanned
  <2>4. /\ Found(t).mode = t[3] /\ Found(t).leg \in PlannedLeg
        /\ RouteKey(t[3], Found(t).leg) = RouteKey(t[3], LegOf(t))
        /\ visit[t[1]].at < Found(t).at + TtlOf(t[3])
    BY <2>2 DEF Fits
  <2> QED BY <2>1, <2>3, <2>4, KeysTellLegs
<1> QED BY <1>1, ServiceInvariant, PTL

\* What a mode has found was found for it.
LEMMA ModesAreSound ==
    ASSUME PreviewInv, NEW t \in Task, t[3] # Classify_, server.task[t].found # <<>>
    PROVE  /\ t[3] \in Mode /\ RouteList(t[3], Found(t).raw)
           /\ Found(t).shown = BuildCollection(Found(t).raw)
           /\ Found(t).raw = <<>> => Found(t).warnings # {}
           /\ Found(t).matched # <<>> =>
                 DrawnAlong(Found(t).matched[1], Found(t).matched[2], Found(t).raw)
<1>1. Fits(Found(t), t)
  BY DEF PreviewInv, Fine, Sound, FoundFits, Found
<1> QED BY <1>1 DEF Fits, ModeSound, Task

(***************************************************************************)
(* A mode that shows no routes says why, whatever the providers answered,  *)
(* refused or failed at, in whatever order, with and without a key, and    *)
(* also when it is shown what was found for somebody else: routes that     *)
(* were found never all fall away as near-duplicates, and every way to     *)
(* find none leaves a warning (orchestrator.py:126-245, ranking.py:72-87). *)
(***************************************************************************)
THEOREM NoRoutesHaveAReason == Spec => []EmptyModesSayWhy
<1>1. PreviewInv => EmptyModesSayWhy
  <2> SUFFICES ASSUME PreviewInv, NEW t \in Collections, Found(t).shown.routes = <<>>
               PROVE  Found(t).warnings # {}
    BY DEF EmptyModesSayWhy
  <2>1. t \in Task /\ t[3] # Classify_ /\ server.task[t].found # <<>>
    BY DEF Collections
  <2>2. /\ t[3] \in Mode /\ RouteList(t[3], Found(t).raw)
        /\ Found(t).shown = BuildCollection(Found(t).raw)
        /\ Found(t).raw = <<>> => Found(t).warnings # {}
    BY <2>1, ModesAreSound
  <2> DEFINE raw == Found(t).raw
  <2>3. raw # <<>> => BuildCollection(raw).routes # <<>>
    <3> HIDE DEF raw
    <3>1. RouteList(t[3], raw)
      BY <2>2 DEF raw
    <3> QED BY <2>2, <3>1, CollectionsKeepEnough
  <2> QED BY <2>2, <2>3
<1> QED BY <1>1, ServiceInvariant, PTL

(***************************************************************************)
(* Public routes are drawn along those of Kakao exactly if there is one    *)
(* way to give each a route of its own that matches it, and then in that   *)
(* way; otherwise the routes of Kakao are shown, whatever the providers    *)
(* gave and also from the cache (orchestrator.py:293-435).                 *)
(***************************************************************************)
THEOREM RoutesAreDrawnAlongTheOnlyMatch == Spec => []GeometryIsTheOnlyMatch
<1>1. PreviewInv => GeometryIsTheOnlyMatch
  <2> SUFFICES ASSUME PreviewInv, NEW t \in Task, server.task[t].found # <<>>, t[3] = "TRANSIT",
                      Found(t).matched # <<>>
               PROVE  LET publics == Found(t).matched[1]
                          kakaos == Found(t).matched[2]
                          matchings == PerfectMatchings(publics, kakaos)
                      IN  IF Cardinality(matchings) = 1
                            THEN LET only == CHOOSE m \in matchings : TRUE
                                 IN  Found(t).raw = [p \in DOMAIN publics |->
                                                        WithGeometry(publics[p], kakaos[only[p]])]
                            ELSE Found(t).raw = kakaos
    BY DEF GeometryIsTheOnlyMatch
  <2>1. t[3] # Classify_
    BY DEF Classify_
  <2>2. DrawnAlong(Found(t).matched[1], Found(t).matched[2], Found(t).raw)
    BY <2>1, ModesAreSound
  <2> QED BY <2>2 DEF DrawnAlong
<1> QED BY <1>1, ServiceInvariant, PTL

(***************************************************************************)
(* An answer hides a route that was found only behind one it shows: the    *)
(* same, or a near-duplicate of it from a provider at least as high in the *)
(* registry.  Joining the modes of a leg hides nothing more, since neither *)
(* ids nor near-duplicates are shared by modes (ranking.py:72-141).        *)
(***************************************************************************)
THEOREM HiddenRoutesAreNearDuplicates == Spec => []OnlyNearDuplicatesAreHidden
<1>1. PreviewInv => OnlyNearDuplicatesAreHidden
  <2> SUFFICES ASSUME PreviewInv, NEW r \in Request, WithRoutes(r), NEW l \in DOMAIN Legs(r),
                      NEW m \in Mode, NEW route \in ToSet(Found(<<r, l, m>>).raw)
               PROVE  \E other \in ToSet(LegCollection(r, l).routes) :
                         /\ other = route \/ Duplicates(route, other)
                         /\ Priority(other.source) <= Priority(route.source)
    BY DEF OnlyNearDuplicatesAreHidden
  <2> DEFINE c == [n \in Mode |-> Found(<<r, l, n>>).shown]
             raw(n) == Found(<<r, l, n>>).raw
             joined == CombineCollections(c).routes
  <2>1. ASSUME NEW n \in Mode
        PROVE  RouteList(n, raw(n)) /\ c[n] = BuildCollection(raw(n))
    <3> DEFINE t == <<r, l, n>>
    <3>1. l \in Leg
      <4>1. Ask(r) # NotAsked
        BY DEF PreviewInv, KnownRequests, WithRoutes
      <4>2. ValidAsk(Ask(r))
        BY <4>1, SceneAssumption DEF PreviewInv, KnownRequests, Ask
      <4> QED BY <4>2 DEF ValidAsk, Legs, PlannedLegs, Leg
    <3>2. t \in Task /\ t[1] = r /\ t[2] = l /\ t[3] = n /\ n # Classify_
      BY <3>1 DEF Task, Mode, Classify_
    <3> HIDE DEF t
    <3>3. server.task[t].found # <<>>
      BY <3>2 DEF PreviewInv, Fine, Sound, WorkIsDone
    <3>4. RouteList(n, Found(t).raw) /\ Found(t).shown = BuildCollection(Found(t).raw)
      BY <3>2, <3>3, ModesAreSound
    <3> QED BY <3>4 DEF t
  <2> HIDE DEF c, raw
  <2>2. ASSUME NEW n \in Mode
        PROVE  /\ RouteList(n, c[n].routes) /\ AllDiffer(c[n].routes)
               /\ Covers(c[n].routes, raw(n))
    BY <2>1, CollectionsKeepEnough
  <2>3. PICK i \in DOMAIN raw(m) : route = raw(m)[i]
    BY DEF raw, ToSet
  <2>4. PICK a \in DOMAIN c[m].routes :
           /\ c[m].routes[a] = route \/ Duplicates(route, c[m].routes[a])
           /\ Priority(c[m].routes[a].source) <= Priority(route.source)
    BY <2>2, <2>3 DEF Covers
  <2>5. PICK b \in DOMAIN joined : joined[b] = c[m].routes[a]
    <3>1. \A n \in Mode : RouteList(n, c[n].routes) /\ AllDiffer(c[n].routes)
      BY <2>2
    <3> QED BY <3>1, JoiningLosesNothing
  <2>6. LegCollection(r, l).routes = joined
    BY DEF LegCollection, c
  <2> HIDE DEF joined
  <2>7. joined[b] \in ToSet(LegCollection(r, l).routes)
    BY <2>5, <2>6 DEF ToSet
  <2> QED BY <2>4, <2>5, <2>7
<1> QED BY <1>1, ServiceInvariant, PTL

-----------------------------------------------------------------------------
(***************************************************************************)
(* The travel rules, for every rule set the repository accepts, every      *)
(* distance, every duration and every earlier allowance.                   *)
(***************************************************************************)
\* A review never carries an amount and a grant always does.
LEMMA ReviewsCarryNoAmount ==
    ASSUME NEW input, NEW rule, NEW classification
    PROVE  Review(classification).amount = Unknown
BY DEF Review

\* The two thresholds and the three amounts of a valid rule are naturals.
LEMMA RuleNumbers ==
    ASSUME NEW rule, ValidRule(rule)
    PROVE  /\ rule.actualExpenseInclusive \in Nat
           /\ rule.localRoundTripExclusive \in Nat
           /\ rule.underFourHours \in Nat
           /\ rule.fourHoursOrMore \in Nat
           /\ rule.officialVehicleDeduction \in Nat
           /\ rule.fourHours \in Nat
           /\ rule.actualExpenseInclusive < rule.localRoundTripExclusive
           /\ rule.underFourHours <= rule.fourHoursOrMore
           /\ rule.officialVehicleDeduction <= rule.underFourHours
BY DEF ValidRule, RuleSet

LEMMA DurationIsAnInteger ==
    ASSUME NEW input, ValidInput(input)
    PROVE  DurationMinutes(input) \in Int
BY DEF ValidInput, PolicyInput, DurationMinutes

LEMMA BaseAmountBounds ==
    ASSUME NEW input, NEW rule, ValidRule(rule)
    PROVE  BaseAmount(input, rule) \in Nat /\ BaseAmount(input, rule) <= rule.fourHoursOrMore
BY RuleNumbers DEF BaseAmount, AtLeast

LEMMA CappedAmountBounds ==
    ASSUME NEW input, NEW rule, ValidRule(rule), ValidInput(input)
    PROVE  /\ CappedAmount(input, rule) \in Nat
           /\ CappedAmount(input, rule) <= rule.fourHoursOrMore
           /\ input.otherTrips =>
                CappedAmount(input, rule) <= AtLeast(0, rule.fourHoursOrMore - input.previous)
<1>1. input.previous \in Nat
  BY DEF ValidInput, PolicyInput
<1> QED
  BY <1>1, RuleNumbers, BaseAmountBounds DEF CappedAmount, AtLeast, AtMost

\* The amount does not depend on the measured distance or on its basis.
LEMMA AmountIgnoresDistance ==
    ASSUME NEW input, ValidInput(input), NEW rule, NEW d \in Nat
    PROVE  LET exact == [input EXCEPT !.basis = "ROUND_TRIP_EXACT", !.distance = d]
           IN  /\ CappedAmount(exact, rule) = CappedAmount(input, rule)
               /\ LongTrip(exact, rule) = LongTrip(input, rule)
BY DEF ValidInput, PolicyInput, CappedAmount, BaseAmount, LongTrip, DurationMinutes

(***************************************************************************)
(* A decision on a one-way lower bound stands for every exact round trip   *)
(* that is at least as long (engine.py, the ONE_WAY_LOWER_BOUND branches). *)
(***************************************************************************)
THEOREM LowerBoundsStandTheorem ==
    ASSUME NEW rule, ValidRule(rule),
           NEW input, ValidInput(input),
           input.basis = "ONE_WAY_LOWER_BOUND", input.distance # Unknown,
           NEW d \in Nat, d >= input.distance
    PROVE  LowerBoundStands(input, rule, d)
<1> DEFINE exact == [input EXCEPT !.basis = "ROUND_TRIP_EXACT", !.distance = d]
<1>1. /\ input \in PolicyInput
      /\ input.distance \in Nat
      /\ exact.basis = "ROUND_TRIP_EXACT" /\ exact.distance = d /\ d # Unknown
      /\ exact.inSeoul = input.inSeoul /\ exact.profile = input.profile
      /\ exact.vehicle = input.vehicle /\ exact.otherTrips = input.otherTrips
      /\ input.inSeoul \in BOOLEAN
  BY DEF ValidInput, PolicyInput, Unknown
<1>2. /\ CappedAmount(exact, rule) = CappedAmount(input, rule)
      /\ LongTrip(exact, rule) = LongTrip(input, rule)
  BY AmountIgnoresDistance
<1> HIDE DEF exact
<1>3. CASE ~input.inSeoul
  <2>1. NeedsReview(input, rule, Classify(input, rule))
    BY <1>3 DEF NeedsReview
  <2>2. Decide(input, rule) = Review(Classify(input, rule))
    BY <2>1 DEF Decide
  <2>3. CASE input.distance >= rule.localRoundTripExclusive
    <3>1. Classify(exact, rule) = "NON_LOCAL_EXPECTED"
      BY <1>1, <1>3, <2>3, RuleNumbers DEF Classify
    <3>2. NeedsReview(exact, rule, Classify(exact, rule))
      BY <3>1 DEF NeedsReview
    <3>3. Decide(exact, rule) = Review("NON_LOCAL_EXPECTED")
      BY <3>1, <3>2, <1>1 DEF Decide
    <3>4. Classify(input, rule) = "NON_LOCAL_EXPECTED"
      BY <1>3, <2>3 DEF Classify
    <3> QED
      BY <2>2, <3>3, <3>4 DEF LowerBoundStands, exact, Review
  <2>4. CASE ~(input.distance >= rule.localRoundTripExclusive)
    <3>1. Classify(input, rule) = "REVIEW_REQUIRED"
      BY <1>3, <2>4 DEF Classify
    <3> QED
      BY <2>2, <3>1 DEF LowerBoundStands, Review
  <2> QED BY <2>3, <2>4
<1>4. CASE input.inSeoul
  <2>1. Classify(input, rule) = "LOCAL" /\ Classify(exact, rule) = "LOCAL"
    BY <1>1, <1>4 DEF Classify
  <2>2. Decide(exact, rule).classification = "LOCAL"
    BY <2>1, <1>1 DEF Decide, Review, Granted
  <2>3. Decide(input, rule).classification = "LOCAL"
    BY <2>1 DEF Decide, Review, Granted
  <2>4. ASSUME Decide(input, rule).amount # Unknown
        PROVE  Decide(exact, rule) = Decide(input, rule)
    <3>1. ~NeedsReview(input, rule, "LOCAL")
      BY <2>1, <2>4 DEF Decide, Review
    <3>2. input.distance > rule.actualExpenseInclusive /\ d > rule.actualExpenseInclusive
      BY <3>1, <1>1, <1>4, RuleNumbers DEF NeedsReview
    <3>3. ~NeedsReview(exact, rule, "LOCAL")
      BY <3>1, <1>1, RuleNumbers DEF NeedsReview
    <3>4. ~(input.distance <= rule.actualExpenseInclusive) /\ ~(exact.distance <= rule.actualExpenseInclusive)
      BY <3>2, <1>1, RuleNumbers
    <3> QED
      BY <3>1, <3>3, <3>4, <2>1, <1>1, <1>2 DEF Decide, Granted, Review
  <2> QED BY <2>2, <2>3, <2>4 DEF LowerBoundStands, exact
<1> QED BY <1>1, <1>3, <1>4

(***************************************************************************)
(* With other trips on the same day, what is granted and what was granted  *)
(* before stay together within the day's ceiling, unless the earlier       *)
(* allowance already exceeded it: then nothing is added.                   *)
(***************************************************************************)
THEOREM DailyCeilingHolds ==
    ASSUME NEW rule, ValidRule(rule), NEW input, ValidInput(input),
           input.otherTrips, Decide(input, rule).amount # Unknown
    PROVE  Decide(input, rule).amount + input.previous
              <= AtLeast(input.previous, rule.fourHoursOrMore)
<1>1. input.previous \in Nat
  BY DEF ValidInput, PolicyInput
<1>2. \/ Decide(input, rule).amount = 0
      \/ Decide(input, rule).amount = CappedAmount(input, rule)
  BY DEF Decide, Granted, Review
<1> QED
  BY <1>1, <1>2, CappedAmountBounds, RuleNumbers DEF AtLeast

(***************************************************************************)
(* Of two trips that differ only in when they end, the longer one is never *)
(* granted less than the shorter one.                                      *)
(***************************************************************************)
THEOREM LongerNeverPaysLess ==
    ASSUME NEW rule, ValidRule(rule), NEW input, ValidInput(input),
           NEW later \in Int, later >= input.endsAt,
           Decide(input, rule).amount # Unknown
    PROVE  LET longer == [input EXCEPT !.endsAt = later]
           IN  Decide(longer, rule).amount >= Decide(input, rule).amount
<1> DEFINE longer == [input EXCEPT !.endsAt = later]
<1>1. /\ longer.inSeoul = input.inSeoul /\ longer.distance = input.distance
      /\ longer.basis = input.basis /\ longer.profile = input.profile
      /\ longer.vehicle = input.vehicle /\ longer.otherTrips = input.otherTrips
      /\ longer.previous = input.previous /\ longer.startsAt = input.startsAt
      /\ longer.endsAt = later
      /\ input.startsAt \in Int /\ input.endsAt \in Int /\ input.previous \in Nat
  BY DEF ValidInput, PolicyInput
<1>2. ValidInput(longer)
  BY DEF ValidInput, PolicyInput
<1> SUFFICES Decide(longer, rule).amount >= Decide(input, rule).amount
  OBVIOUS
<1> HIDE DEF longer
<1>3. DurationMinutes(longer) >= DurationMinutes(input)
  BY <1>1 DEF DurationMinutes
<1>4. LongTrip(input, rule) => LongTrip(longer, rule)
  BY <1>2, <1>3, DurationIsAnInteger, RuleNumbers DEF LongTrip
<1>5. BaseAmount(longer, rule) >= BaseAmount(input, rule)
  BY <1>1, <1>4, RuleNumbers DEF BaseAmount, AtLeast
<1>6. CappedAmount(longer, rule) >= CappedAmount(input, rule)
  BY <1>1, <1>5, BaseAmountBounds, RuleNumbers DEF CappedAmount, AtLeast, AtMost
<1>7. Classify(longer, rule) = Classify(input, rule)
  BY <1>1 DEF Classify
<1>8. /\ input.distance # Unknown
      /\ ~NeedsReview(input, rule, Classify(input, rule))
      /\ ~NeedsReview(longer, rule, Classify(longer, rule))
  BY <1>1, <1>7 DEF Decide, Review, NeedsReview
<1>9. CASE input.vehicle = "ASSIGNED_OFFICIAL"
  BY <1>1, <1>8, <1>9 DEF Decide, Granted, Review
<1>10. CASE input.vehicle # "ASSIGNED_OFFICIAL"
  <2>1. /\ ~(input.distance <= rule.actualExpenseInclusive)
        /\ ~(input.otherTrips /\ ~LongTrip(input, rule))
        /\ Decide(input, rule).amount = CappedAmount(input, rule)
    BY <1>8, <1>10 DEF Decide, Review, Granted
  <2>2. Decide(longer, rule).amount = CappedAmount(longer, rule)
    BY <2>1, <1>1, <1>4, <1>8, <1>10 DEF Decide, Granted
  <2> QED BY <1>6, <2>1, <2>2
<1> QED BY <1>9, <1>10

-----------------------------------------------------------------------------
(***************************************************************************)
(* The rules behind an answer.                                             *)
(***************************************************************************)
\* Of the rule sets that have taken effect there is a latest.
LEMMA LatestRule ==
    ASSUME NEW date \in Int, Eligible(Rules, date) # {}
    PROVE  RuleFor(Rules, date) \in Rules /\ ValidRule(RuleFor(Rules, date))
<1> DEFINE eligible == Eligible(Rules, date)
           ages == {date - rule.effectiveFrom : rule \in eligible}
<1>1. \A rule \in Rules : ValidRule(rule) /\ rule.effectiveFrom \in Int
  BY PreviewAssumption DEF ValidRepository, ValidRule, RuleSet
<1>2. \A rule \in eligible : rule \in Rules /\ rule.effectiveFrom <= date
  BY DEF Eligible
<1> HIDE DEF eligible
<1>3. ages \subseteq Nat /\ ages # {}
  BY <1>1, <1>2 DEF eligible
<1>4. PICK least \in ages : \A other \in ages : least <= other
  BY <1>3, LeastNatural
<1>5. PICK latest \in eligible : least = date - latest.effectiveFrom
  BY <1>4
<1>6. \A other \in eligible : other.effectiveFrom <= latest.effectiveFrom
  <2> SUFFICES ASSUME NEW other \in eligible PROVE other.effectiveFrom <= latest.effectiveFrom
    OBVIOUS
  <2>1. least <= date - other.effectiveFrom
    BY <1>4
  <2> QED BY <1>1, <1>2, <1>5, <2>1
<1>7. RuleFor(Rules, date) \in eligible
  BY <1>5, <1>6 DEF RuleFor, eligible
<1> QED BY <1>1, <1>2, <1>7

\* What the engine is asked is what it may be asked.
LEMMA InputsAreValid ==
    ASSUME PreviewInv, NEW r \in Request, request[r] # "new"
    PROVE  ValidInput(PolicyInputOf(r))
<1> DEFINE ask == Ask(r)
           evidence == ClassificationEvidence(r)
           measured == \A l \in DOMAIN Legs(r) : server.task[<<r, l, Classify_>>].found # <<>>
           metres(l) == IF l \in DOMAIN Legs(r) THEN Found(<<r, l, Classify_>>).distance ELSE 0
<1>1. ValidAsk(ask)
  BY SceneAssumption DEF PreviewInv, KnownRequests, Ask
<1>2. ASSUME measured PROVE metres(1) \in Nat /\ metres(2) \in Nat
  <2>1. ASSUME NEW l \in Leg PROVE metres(l) \in Nat
    <3> DEFINE t == <<r, l, Classify_>>
    <3>1. CASE l \in DOMAIN Legs(r)
      <4>1. t \in Task /\ t[3] = Classify_
        BY DEF Task
      <4>2. server.task[t].found # <<>>
        BY <1>2, <3>1
      <4> HIDE DEF t
      <4>3. Fits(server.task[t].found[1], t)
        BY <4>1, <4>2 DEF PreviewInv, Fine, Sound, FoundFits
      <4>4. Found(t).distance \in Nat
        BY <4>1, <4>3 DEF Fits, Found
      <4> QED BY <3>1, <4>4 DEF t
    <3>2. CASE l \notin DOMAIN Legs(r)
      BY <3>2
    <3> QED BY <3>1, <3>2
  <2>2. 1 \in Leg /\ 2 \in Leg
    BY DEF Leg
  <2> QED BY <2>1, <2>2
<1>3. /\ evidence.basis \in Bases
      /\ evidence.distance = IF measured THEN metres(1) + metres(2) ELSE Unknown
  BY DEF ClassificationEvidence, Bases
<1> HIDE DEF measured, metres, evidence
<1>4. evidence.distance \in Nat \cup {Unknown}
  BY <1>2, <1>3
<1>5. PolicyInputOf(r) =
        [inSeoul |-> CoverageOf(ask.fromSeoul) = "SEOUL",
         distance |-> evidence.distance, basis |-> evidence.basis,
         startsAt |-> ask.startsAt, endsAt |-> ask.endsAt,
         profile |-> "SEOUL_EDU_PUBLIC_OFFICIAL_CONFIRMED", vehicle |-> ask.vehicle,
         otherTrips |-> ask.otherTrips, previous |-> ask.previous]
  BY DEF PolicyInputOf, evidence
<1> HIDE DEF ask
<1>6. (CoverageOf(ask.fromSeoul) = "SEOUL") \in BOOLEAN
  OBVIOUS
<1> QED BY <1>1, <1>3, <1>4, <1>5, <1>6 DEF ValidInput, PolicyInput, ValidAsk, Profiles

(***************************************************************************)
(* Whatever was measured and whichever rule is in force, the decision of   *)
(* an answer on a one-way distance is the one that every exact round trip  *)
(* at least as long would have led to (engine.py:51-72,                    *)
(* trip_preview.py:446-477).                                               *)
(***************************************************************************)
THEOREM DecisionsStand == Spec => []LowerBoundsStand
<1>1. PreviewInv => LowerBoundsStand
  <2> SUFFICES ASSUME PreviewInv, NEW r \in Request, WithRoutes(r),
                      PolicyInputOf(r).basis = "ONE_WAY_LOWER_BOUND",
                      PolicyInputOf(r).distance # Unknown, NEW more \in LongerTrips
               PROVE  LowerBoundStands(PolicyInputOf(r),
                                       RuleFor(Rules, KoreanDate(PolicyInputOf(r).startsAt)),
                                       PolicyInputOf(r).distance + more)
    BY DEF LowerBoundsStand
  <2> DEFINE input == PolicyInputOf(r)
             rule == RuleFor(Rules, KoreanDate(input.startsAt))
  <2>1. ValidInput(input)
    BY InputsAreValid DEF WithRoutes
  <2>2. input.startsAt = Ask(r).startsAt
    BY DEF PolicyInputOf
  <2>3. InForce(r) # {}
    BY DEF PreviewInv, AnswersHaveRules
  <2>4. Eligible(Rules, KoreanDate(input.startsAt)) # {}
    BY <2>2, <2>3 DEF InForce
  <2> HIDE DEF input
  <2>5. input.startsAt \in Int /\ input.distance \in Nat
    BY <2>1 DEF ValidInput, PolicyInput, input
  <2>6. ValidRule(rule)
    <3>1. KoreanDate(input.startsAt) \in Int
      BY <2>5 DEF KoreanDate
    <3> QED BY <2>4, <3>1, LatestRule
  <2>7. more \in Nat
    BY DEF LongerTrips
  <2>8. input.distance + more \in Nat /\ input.distance + more >= input.distance
    BY <2>5, <2>7
  <2>9. input.basis = "ONE_WAY_LOWER_BOUND" /\ input.distance # Unknown
    BY DEF input
  <2> HIDE DEF rule
  <2>10. LowerBoundStands(input, rule, input.distance + more)
    BY <2>1, <2>6, <2>8, <2>9, LowerBoundsStandTheorem
  <2> QED BY <2>10 DEF input, rule
<1> QED BY <1>1, ServiceInvariant, PTL

=============================================================================
