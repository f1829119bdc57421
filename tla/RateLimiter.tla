----------------------------- MODULE RateLimiter -----------------------------
(***************************************************************************)
(* The fixed-window limiter of one scope.  "counts" has a record for each  *)
(* bucket, that is each client and window in which it was let in.          *)
(***************************************************************************)
EXTENDS Integers, FiniteSets

CONSTANTS Limit, Window, MaxBuckets

ASSUME LimiterAssumption ==
    /\ Limit \in Nat \ {0}
    /\ Window \in Nat \ {0}
    /\ MaxBuckets \in Nat \ {0}

WindowOf(now) == now \div Window

\* Variant: the buckets of the current window are discarded as well.
DiscardStaleBuckets_current(counts, now) ==
    {b \in counts : ~(b.window <= WindowOf(now))}

DiscardStaleBuckets(counts, now) ==
    {b \in counts : ~(b.window < WindowOf(now))}

BucketOf(counts, client, now) ==
    {b \in counts : b.client = client /\ b.window = WindowOf(now)}

Seen(counts, client, now) ==
    LET bucket == BucketOf(counts, client, now)
    IN  IF bucket = {} THEN 0 ELSE (CHOOSE b \in bucket : TRUE).seen

\* Refused at the limit, or as a new client when all buckets are taken.
Allowed(counts, client, now) ==
    LET live == DiscardStaleBuckets(counts, now)
    IN  /\ Seen(live, client, now) < Limit
        /\ BucketOf(live, client, now) = {} => Cardinality(live) < MaxBuckets

CountsAfterCheck(counts, client, now) ==
    LET live == DiscardStaleBuckets(counts, now)
    IN  IF Allowed(counts, client, now)
          THEN (live \ BucketOf(live, client, now)) \cup
               {[client |-> client, window |-> WindowOf(now),
                 seen |-> Seen(live, client, now) + 1]}
          ELSE live

=============================================================================
