----------------------------- MODULE RateBuckets -----------------------------
(***************************************************************************)
(* The token buckets of the web processes: the shared table behind         *)
(* DB.Allow, for starting and generating, and the map of one process's     *)
(* limiter, for reading.  A transaction is granted by the time at which it *)
(* began, and waits for the global lock after that; so the times come to   *)
(* the table out of order, by up to the timeout of a transaction.          *)
(* Credit is counted in units: a token is worth Cost, and Rate come back   *)
(* in each tick of the clock, up to Burst tokens.                          *)
(***************************************************************************)
EXTENDS Integers, FiniteSets, FiniteSetsExt

CONSTANTS Keys,        \* hashes of a limit and a client or a session
          NoBucket,
          Rate, Burst, Cost,
          MaxBuckets,  \* rows of the table, keys of the map (10000)
          PruneAge,    \* how long a bucket is kept unused (five minutes)
          Lag,         \* how old a transaction's time may be when it is used
          MaxTime      \* bound of the model: the last tick

\* A bucket that is dropped would have been full.  Both profiles are far within
\* this; Policy.Validate does not ask for it.
ASSUME BucketAssumption ==
  /\ IsFiniteSet(Keys)
  /\ {Rate, Burst, Cost, MaxBuckets} \subseteq Nat \ {0}
  /\ {PruneAge, Lag, MaxTime} \subseteq Nat
  /\ Burst * Cost <= Rate * (PruneAge - 2 * Lag)
  /\ NoBucket \notin [tokens: Int, touched: Nat]

VARIABLES
  now,
  table,   \* art_rate_buckets
  reads,   \* limiter.keys of one web process
  grants,  \* how many tokens of the table were granted, by time (history)
  entries  \* the same for reads (history)

bucketVars == <<now, table, reads, grants, entries>>

Bucket == [tokens: Int, touched: 0 .. MaxTime]
Grants == [Keys -> [0 .. MaxTime -> Nat]]
NoGrants == [k \in Keys |-> [t \in 0 .. MaxTime |-> 0]]

BucketTypeOK ==
  /\ now \in 0 .. MaxTime
  /\ {table, reads} \subseteq [Keys -> Bucket \cup {NoBucket}]
  /\ {grants, entries} \subseteq Grants

NoBuckets == [k \in Keys |-> NoBucket]

BucketInit ==
  /\ now = 0
  /\ table = NoBuckets /\ reads = NoBuckets
  /\ grants = NoGrants /\ entries = NoGrants

Rows(buckets) == {k \in Keys : buckets[k] # NoBucket}

\* DELETE ... WHERE touched < t - five minutes.
Pruned(buckets, t) ==
  [k \in Keys |-> IF k \in Rows(buckets) /\ buckets[k].touched < t - PruneAge THEN NoBucket ELSE buckets[k]]

\* Mutant: what was saved up is not capped.
Uncapped(b, t) ==
  [tokens |-> IF b = NoBucket THEN Burst * Cost ELSE b.tokens + (t - b.touched) * Rate, touched |-> t]

\* The bucket of a request at time t; t may be before the bucket's own time.
Refilled(b, t) ==
  IF b = NoBucket THEN [tokens |-> Burst * Cost, touched |-> t]
  ELSE [tokens |-> Min({Burst * Cost, b.tokens + (t - b.touched) * Rate}), touched |-> t]

\* One token less, when there is one.
Spent(b) == IF b.tokens >= Cost THEN [b EXCEPT !.tokens = @ - Cost] ELSE b

Full(buckets) == Cardinality(Rows(buckets)) >= MaxBuckets

\* The transaction of DB.Allow, from the lock to its commit.  At the cap it
\* prunes first, and refuses known keys too when that does not help.
Allow(k, t) ==
  LET kept == IF Full(table) THEN Pruned(table, t) ELSE table
      b    == Refilled(kept[k], t)
  IN /\ ~Full(kept)
     /\ table' = [kept EXCEPT ![k] = Spent(b)]
     /\ grants' = IF b.tokens >= Cost THEN [grants EXCEPT ![k][t] = @ + 1] ELSE grants
     /\ UNCHANGED <<now, reads, entries>>

\* Maintenance drops idle buckets every minute.
Sweep(t) ==
  /\ table' = Pruned(table, t)
  /\ UNCHANGED <<now, reads, grants, entries>>

\* limiter.allow: one clock, one mutex, and only new keys meet the cap.
Read(k) ==
  LET kept == IF reads[k] = NoBucket /\ Full(reads) THEN Pruned(reads, now) ELSE reads
      b    == Refilled(kept[k], now)
  IN /\ IF reads[k] = NoBucket /\ Full(kept)
        THEN reads' = kept /\ UNCHANGED entries
        ELSE /\ reads' = [kept EXCEPT ![k] = Spent(b)]
             /\ entries' = IF b.tokens >= Cost THEN [entries EXCEPT ![k][now] = @ + 1] ELSE entries
     /\ UNCHANGED <<now, table, grants>>

\* A new web process starts with an empty map; its reads are counted anew.
RestartLimiter ==
  /\ reads' = NoBuckets
  /\ entries' = NoGrants
  /\ UNCHANGED <<now, table, grants>>

Clock == now < MaxTime /\ now' = now + 1 /\ UNCHANGED <<table, reads, grants, entries>>

\* The times of transactions that are not over.
Times == {t \in 0 .. now : t + Lag >= now}

BucketNext ==
  \/ \E k \in Keys : Read(k) \/ \E t \in Times : Allow(k, t)
  \/ \E t \in Times : Sweep(t)
  \/ RestartLimiter
  \/ Clock

BucketSpec == BucketInit /\ [][BucketNext]_bucketVars

(* ------------------------------ Properties ------------------------------ *)

\* The tokens of a history, one by one.
Tokens(h, from, to)  == UNION {{t} \X (1 .. h[t]) : t \in from .. to}
Granted(h, from, to) == Cardinality(Tokens(h, from, to))
Hits(h) == {t \in DOMAIN h : h[t] > 0}

\* In any stretch of time a key is granted at most its burst and what came back
\* in that time, in whatever order the transactions get the lock, and although
\* buckets are dropped and made anew meanwhile.  (From one grant to another: a
\* longer stretch allows more.)
GrantsBounded ==
  \A k \in Keys, history \in {grants, entries} :
    \A from, to \in Hits(history[k]) :
      from <= to => Granted(history[k], from, to) * Cost <= Burst * Cost + Rate * (to - from)

\* A transaction that comes late takes no credit from the key for good: with the
\* refill since its time, every bucket holds at least nothing.
NoDebt ==
  \A k \in Keys, buckets \in {table, reads} : k \in Rows(buckets) =>
    buckets[k].tokens + (now - buckets[k].touched) * Rate >= 0

\* Neither the table nor the map outgrows its cap.
BucketsBounded == \A buckets \in {table, reads} : Cardinality(Rows(buckets)) <= MaxBuckets

\* The limits that the shared table and the process keep.
\* (DB.Allow, limiter.allow)
BucketsHold == BucketTypeOK /\ GrantsBounded /\ NoDebt /\ BucketsBounded
===============================================================================
