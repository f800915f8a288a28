---------------------------- MODULE RateLimiter ----------------------------
(***************************************************************************)
(* The token buckets of src/backend/lib/rate-limit.ts and, with the same   *)
(* arithmetic on rows of a shared SQLite file, of rate-limit-sqlite.ts.    *)
(*                                                                         *)
(* A bucket is refilled when it is looked at, and swept when it is full    *)
(* again.  Tokens are counted in parts of 1/Window, so that a tick adds a  *)
(* whole number of parts: Limit.  A hit is atomic, in memory because it    *)
(* does not wait, in SQLite because it is one IMMEDIATE transaction.       *)
(***************************************************************************)
EXTENDS Integers, Sequences

CONSTANTS
  Buckets,
  Limit,              \* hits per window
  Window,             \* ticks per window
  MaxTicks            \* bound: ticks of a behaviour

ASSUME RateAssumption ==
  /\ Limit \in Nat \ {0} /\ Window \in Nat \ {0} /\ MaxTicks \in Nat

VARIABLES
  clock,
  bucket,             \* per bucket: no row, or its tokens and last refill
  allowed             \* per bucket, when it let a hit through

rateVars == <<clock, bucket, allowed>>

Full == Limit * Window

NoRow == [tokens |-> -1, last |-> 0]

RateTypeOK ==
  /\ clock \in 0..MaxTicks
  /\ bucket \in [Buckets -> [tokens : 0..Full, last : 0..MaxTicks] \cup {NoRow}]
  /\ allowed \in [Buckets -> Seq(0..MaxTicks)]

RateInit ==
  /\ clock = 0
  /\ bucket = [b \in Buckets |-> NoRow]
  /\ allowed = [b \in Buckets |-> <<>>]

\* The refill of a row at the present time; a bucket nobody hit is full.
Available(b) ==
  IF bucket[b] = NoRow \/ bucket[b].tokens + (clock - bucket[b].last) * Limit >= Full
    THEN Full
    ELSE bucket[b].tokens + (clock - bucket[b].last) * Limit

RefilledAt(b, tokens) == [tokens |-> tokens, last |-> clock]

\* hit: a whole token is taken, or the refill is kept and the hit refused.
Hit(b) ==
  /\ IF Available(b) >= Window
       THEN /\ bucket' = [bucket EXCEPT ![b] = RefilledAt(b, Available(b) - Window)]
            /\ allowed' = [allowed EXCEPT ![b] = Append(@, clock)]
       ELSE /\ bucket' = [bucket EXCEPT ![b] = RefilledAt(b, Available(b))]
            /\ UNCHANGED allowed
  /\ UNCHANGED clock

\* fault: a bucket that can serve a hit counts as dead.
DeadIfUsable(b) == bucket[b] # NoRow /\ Available(b) >= Window

Dead(b) == bucket[b] # NoRow /\ Available(b) >= Full

\* sweep: rows that have refilled completely are deleted.
Sweep ==
  /\ bucket' = [b \in Buckets |-> IF Dead(b) THEN NoRow ELSE bucket[b]]
  /\ UNCHANGED <<clock, allowed>>

RateTick ==
  /\ clock < MaxTicks
  /\ clock' = clock + 1
  /\ UNCHANGED <<bucket, allowed>>

RateNext == (\E b \in Buckets : Hit(b)) \/ Sweep \/ RateTick

RateSpec == RateInit /\ [][RateNext]_rateVars

-----------------------------------------------------------------------------
\* However hits, refusals, idle time and sweeps alternate, a stretch of n
\* ticks lets through no more than a full bucket and the n ticks' refill:
\* sweeping never hands out tokens, and neither does being refused.
BurstIsBounded ==
  \A b \in Buckets : \A k \in DOMAIN allowed[b] : \A j \in 1..k :
    (k - j + 1) * Window <= Full + (allowed[b][k] - allowed[b][j]) * Limit
=============================================================================
