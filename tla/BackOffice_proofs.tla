------------------------- MODULE BackOffice_proofs -------------------------
(***************************************************************************)
(* What the components that share no state guarantee, for every value of   *)
(* their constants: the login lockout, the rate limiter, the ledger's      *)
(* tables, variation orders and the three-way match.  And, with what the   *)
(* proof modules of procurement and the site store add, that all of them   *)
(* keep their types side by side.                                          *)
(*                                                                         *)
(* Of the tables, what Balanced adds up is not looked into: it is a        *)
(* function of the legs, and the triggers keep the legs.                   *)
(***************************************************************************)
EXTENDS MCBackOffice, Procurement_proofs, SiteStore_proofs, SetInduction,
        FiniteSetTheorems, SequenceTheorems

-----------------------------------------------------------------------------
(* The login lockout.                                                      *)

\* A tracker is not the value for none, and its fields are numbers.
LEMMA TrackerIsThere ==
  ASSUME NEW t \in Tracker
  PROVE  t # NoTracker /\ t.failures \in Nat /\ t.last \in 0..MaxTime /\ t.until \in Nat
<1>1. t.failures \in Nat /\ t.last \in 0..MaxTime /\ t.until \in Nat BY DEF Tracker
<1>2. t \in [failures : Nat, last : Nat, until : Nat]
  <2>1. 0..MaxTime \subseteq Nat BY LockoutAssumption
  <2>. QED BY <2>1 DEF Tracker
<1>. QED BY <1>1, <1>2, LockoutAssumption

\* What a failure counts, keeps and sets are numbers.
LEMMA FailureTypes ==
  ASSUME LockoutTypeOK, NEW k \in TrackerKeys
  PROVE  /\ Failures(k) \in Nat /\ Until(k) \in Nat /\ LockFrom(k) \in Nat
         /\ time \in Nat
         /\ [failures |-> Failures(k), last |-> time, until |-> LockFrom(k)] \in Tracker
<1>1. time \in Nat /\ time \in 0..MaxTime BY LockoutAssumption DEF LockoutTypeOK
<1>2. CASE tracker[k] = NoTracker
  <2>1. Failures(k) = 1 /\ Until(k) = 0 BY <1>2 DEF Failures, Until
  <2>2. LockFrom(k) \in Nat BY <2>1, <1>1, LockoutAssumption DEF LockFrom
  <2>. QED BY <2>1, <2>2, <1>1 DEF Tracker
<1>3. CASE tracker[k] # NoTracker
  <2>1. tracker[k] \in Tracker BY <1>3 DEF LockoutTypeOK
  <2>2. tracker[k].failures \in Nat /\ tracker[k].until \in Nat BY <2>1, TrackerIsThere
  <2>3. Failures(k) \in Nat /\ Until(k) \in Nat BY <2>2, <1>3 DEF Failures, Until
  <2>4. LockFrom(k) \in Nat BY <2>3, <1>1, LockoutAssumption DEF LockFrom
  <2>. QED BY <2>3, <2>4, <1>1 DEF Tracker
<1>. QED BY <1>2, <1>3

-----------------------------------------------------------------------------
(* Types.                                                                  *)

\* Trackers, attempts and the clock keep their types.
THEOREM LockoutTypeCorrect == LockoutSpec => []LockoutTypeOK
<1>1. LockoutInit => LockoutTypeOK
  BY LockoutAssumption DEF LockoutInit, LockoutTypeOK
<1>2. LockoutTypeOK /\ [LockoutNext]_lockoutVars => LockoutTypeOK'
  <2>. SUFFICES ASSUME LockoutTypeOK, [LockoutNext]_lockoutVars PROVE LockoutTypeOK'
    OBVIOUS
  <2>1. ASSUME NEW a \in Logins, NEW e \in Emails, NEW s \in Sources, Check(a, e, s)
        PROVE  LockoutTypeOK'
    BY <2>1 DEF Check, LockoutTypeOK
  <2>2. ASSUME NEW a \in Logins, Fail(a) PROVE LockoutTypeOK'
    <3>1. \A k \in TrackerKeys : tracker'[k] # NoTracker => tracker'[k] \in Tracker
      BY <2>2, FailureTypes DEF Fail, LockoutTypeOK
    <3>. QED BY <2>2, <3>1 DEF Fail, LockoutTypeOK
  <2>3. ASSUME NEW a \in Logins, Succeed(a) PROVE LockoutTypeOK'
    BY <2>3 DEF Succeed, LockoutTypeOK
  <2>4. ASSUME Prune PROVE LockoutTypeOK'
    BY <2>4 DEF Prune, LockoutTypeOK
  <2>5. ASSUME Pass PROVE LockoutTypeOK'
    BY <2>5, LockoutAssumption DEF Pass, LockoutTypeOK
  <2>6. ASSUME UNCHANGED lockoutVars PROVE LockoutTypeOK'
    BY <2>6 DEF lockoutVars, LockoutTypeOK
  <2>. QED BY <2>1, <2>2, <2>3, <2>4, <2>5, <2>6 DEF LockoutNext
<1>. QED BY <1>1, <1>2, PTL DEF LockoutSpec

-----------------------------------------------------------------------------
(* A lock is kept.                                                         *)

\* What a lock looks like.
LEMMA LockedIsSet ==
  ASSUME LockoutTypeOK, NEW k \in TrackerKeys, Locked(k)
  PROVE  /\ tracker[k] # NoTracker /\ tracker[k] \in Tracker
         /\ Until(k) = tracker[k].until /\ Until(k) # 0
         /\ ~Served(k) /\ ~Prunable(k)
<1>1. tracker[k] # NoTracker /\ tracker[k] \in Tracker BY DEF Locked, LockoutTypeOK
<1>2. tracker[k].until \in Nat /\ time \in Nat
  BY <1>1, TrackerIsThere, LockoutAssumption DEF LockoutTypeOK
<1>3. tracker[k].until > time BY DEF Locked
<1>. QED BY <1>1, <1>2, <1>3 DEF Until, Served, Prunable

\* No step makes a lock longer or shorter, and only the success of an attempt
\* that was let in earlier lifts it (rate-limit.ts, createLoginLockout).
THEOREM LocksAreKept == LockoutSpec => LockIsKept
<1>1. ASSUME LockoutTypeOK, [LockoutNext]_lockoutVars PROVE \A k \in TrackerKeys : LockStays(k)
  <2>. SUFFICES ASSUME NEW k \in TrackerKeys, Locked(k) PROVE LockStays(k)
    BY DEF LockStays
  <2>0. /\ tracker[k] # NoTracker /\ tracker[k] \in Tracker
        /\ Until(k) = tracker[k].until /\ Until(k) # 0
        /\ ~Served(k) /\ ~Prunable(k)
    BY <1>1, LockedIsSet
  <2>1. ASSUME NEW a \in Logins, NEW e \in Emails, NEW s \in Sources, Check(a, e, s)
        PROVE  LockStays(k)
    BY <2>0, <2>1 DEF Check, LockStays
  <2>2. ASSUME NEW a \in Logins, Fail(a) PROVE LockStays(k)
    <3>1. CASE k \in login[a]
      <4>1. LockFrom(k) = tracker[k].until BY <2>0 DEF LockFrom
      <4>2. tracker'[k] = [failures |-> Failures(k), last |-> time, until |-> LockFrom(k)]
        BY <2>2, <3>1 DEF Fail
      <4>3. tracker'[k] # NoTracker BY <1>1, <4>2, FailureTypes, TrackerIsThere
      <4>. QED BY <4>1, <4>2, <4>3 DEF LockStays
    <3>2. CASE k \notin login[a]
      BY <2>0, <2>2, <3>2 DEF Fail, LockStays
    <3>. QED BY <3>1, <3>2
  <2>3. ASSUME NEW a \in Logins, Succeed(a) PROVE LockStays(k)
    <3>1. login'[a] = {} BY <1>1, <2>3 DEF Succeed, LockoutTypeOK
    <3>. QED BY <2>0, <2>3, <3>1 DEF Succeed, LockStays
  <2>4. ASSUME Prune PROVE LockStays(k)
    BY <2>0, <2>4 DEF Prune, LockStays
  <2>5. ASSUME Pass PROVE LockStays(k)
    BY <2>0, <2>5 DEF Pass, LockStays
  <2>6. ASSUME UNCHANGED lockoutVars PROVE LockStays(k)
    BY <2>0, <2>6 DEF lockoutVars, LockStays
  <2>. QED BY <1>1, <2>1, <2>2, <2>3, <2>4, <2>5, <2>6 DEF LockoutNext
<1>. QED BY <1>1, LockoutTypeCorrect, PTL DEF LockoutSpec, LockIsKept

-----------------------------------------------------------------------------
(* Guesses are bounded.                                                    *)

AttemptsOn(k) == {a \in Logins : k \in login[a]}

\* Until a lock is set the limit has not been reached.  Once it is set nobody
\* else is let in, so that each failure more is one attempt in flight less.
BoundOf(k) ==
  tracker[k] # NoTracker =>
    /\ tracker[k].until = 0 => tracker[k].failures < FailureLimit
    /\ tracker[k].until # 0 =>
         tracker[k].failures + Cardinality(AttemptsOn(k))
           <= FailureLimit + Cardinality(Logins) - 1

GuessInv == LockoutTypeOK /\ \A k \in TrackerKeys : BoundOf(k)

\* Attempts in flight are finitely many, and no more than there are.
LEMMA InFlightFinite ==
  ASSUME NEW k
  PROVE  /\ IsFiniteSet(AttemptsOn(k))
         /\ Cardinality(AttemptsOn(k)) \in Nat /\ Cardinality(Logins) \in Nat
         /\ Cardinality(AttemptsOn(k)) <= Cardinality(Logins)
BY FS_Subset, FS_CardinalityType, LockoutAssumption DEF AttemptsOn

\* A tracker that is dropped, or keeps both its numbers while no attempt more
\* is in flight under it, keeps its bound.
LEMMA BoundStays ==
  ASSUME NEW k \in TrackerKeys, BoundOf(k),
         tracker'[k] = tracker[k] \/ tracker'[k] = NoTracker,
         AttemptsOn(k)' = AttemptsOn(k)
  PROVE  BoundOf(k)'
BY DEF BoundOf

\* An attempt that ends is no longer in flight under its keys.
LEMMA AttemptEnds ==
  ASSUME LockoutTypeOK, NEW a \in Logins, login' = [login EXCEPT ![a] = {}], NEW k
  PROVE  /\ k \in login[a] =>
              /\ Cardinality(AttemptsOn(k)') = Cardinality(AttemptsOn(k)) - 1
              /\ Cardinality(AttemptsOn(k)) <= Cardinality(Logins)
              /\ Cardinality(AttemptsOn(k)') \in Nat
         /\ k \notin login[a] => AttemptsOn(k)' = AttemptsOn(k)
<1>1. AttemptsOn(k)' = AttemptsOn(k) \ {a} BY DEF AttemptsOn, LockoutTypeOK
<1>2. k \in login[a] => a \in AttemptsOn(k) BY DEF AttemptsOn
<1>3. k \notin login[a] => a \notin AttemptsOn(k) BY DEF AttemptsOn
<1>4. IsFiniteSet(AttemptsOn(k)) /\ Cardinality(AttemptsOn(k)) \in Nat
      /\ Cardinality(AttemptsOn(k)) <= Cardinality(Logins)
  BY InFlightFinite
<1>5. IsFiniteSet(AttemptsOn(k) \ {a}) BY <1>4, FS_Subset
<1>6. Cardinality(AttemptsOn(k) \ {a}) \in Nat BY <1>5, FS_CardinalityType
<1>7. k \in login[a] => Cardinality(AttemptsOn(k) \ {a}) = Cardinality(AttemptsOn(k)) - 1
  BY <1>2, <1>4, FS_RemoveElement
<1>. QED BY <1>1, <1>3, <1>4, <1>6, <1>7

\* However attempts interleave with successes, pruning and the clock, no more
\* failures are counted against an account than the limit and the attempts
\* that were in flight when it was reached (auth.ts, authorize).
THEOREM GuessesAlwaysBounded == LockoutSpec => []GuessesAreBounded
<1>1. LockoutInit => GuessInv
  BY LockoutAssumption DEF LockoutInit, GuessInv, BoundOf, LockoutTypeOK
<1>2. GuessInv /\ LockoutTypeOK' /\ [LockoutNext]_lockoutVars => GuessInv'
  <2>. SUFFICES ASSUME GuessInv, LockoutTypeOK', [LockoutNext]_lockoutVars,
                       NEW k \in TrackerKeys
                PROVE  BoundOf(k)'
    BY DEF GuessInv, TrackerKeys
  <2>0. LockoutTypeOK /\ BoundOf(k) BY DEF GuessInv
  <2>1. ASSUME NEW a \in Logins, NEW e \in Emails, NEW s \in Sources, Check(a, e, s)
        PROVE  BoundOf(k)'
    <3>1. CASE k \notin Probes(e, s)
      <4>1. tracker'[k] = tracker[k] BY <2>1, <3>1 DEF Check
      <4>2. AttemptsOn(k)' = AttemptsOn(k)
        BY <2>0, <2>1, <3>1 DEF Check, AttemptsOn, LockoutTypeOK
      <4>. QED BY <2>0, <4>1, <4>2, BoundStays
    <3>2. CASE k \in Probes(e, s) /\ \E j \in Probes(e, s) : Locked(j)
      <4>1. tracker'[k] = tracker[k] \/ tracker'[k] = NoTracker BY <2>1 DEF Check
      <4>2. AttemptsOn(k)' = AttemptsOn(k)
        BY <2>0, <2>1, <3>2 DEF Check, AttemptsOn, LockoutTypeOK
      <4>. QED BY <2>0, <4>1, <4>2, BoundStays
    <3>3. CASE k \in Probes(e, s) /\ ~Locked(k)
      <4>1. CASE tracker[k] = NoTracker \/ Served(k)
        BY <2>1, <3>3, <4>1 DEF Check, BoundOf
      <4>2. CASE tracker[k] # NoTracker /\ ~Served(k)
        <5>1. tracker[k].until \in Nat /\ time \in Nat
          BY <2>0, <4>2, TrackerIsThere, LockoutAssumption DEF LockoutTypeOK
        <5>2. tracker[k].until = 0 BY <3>3, <4>2, <5>1 DEF Locked, Served
        <5>3. tracker'[k] = tracker[k] BY <2>1, <4>2 DEF Check
        <5>. QED BY <2>0, <5>2, <5>3 DEF BoundOf
      <4>. QED BY <4>1, <4>2
    <3>. QED BY <3>1, <3>2, <3>3
  <2>2. ASSUME NEW a \in Logins, Fail(a) PROVE BoundOf(k)'
    <3>1. CASE k \notin login[a]
      <4>1. tracker'[k] = tracker[k] BY <2>2, <3>1 DEF Fail
      <4>2. AttemptsOn(k)' = AttemptsOn(k) BY <2>0, <2>2, <3>1, AttemptEnds DEF Fail
      <4>. QED BY <2>0, <4>1, <4>2, BoundStays
    <3>2. CASE k \in login[a]
      <4>. DEFINE n == Cardinality(AttemptsOn(k))
                  m == Cardinality(AttemptsOn(k)')
                  c == Cardinality(Logins)
      <4>1. m = n - 1 /\ n <= c /\ m \in Nat /\ n \in Nat /\ c \in Nat
        BY <2>0, <2>2, <3>2, AttemptEnds, InFlightFinite DEF Fail
      <4>2. /\ tracker'[k].failures = Failures(k)
            /\ tracker'[k].until = LockFrom(k)
        BY <2>2, <3>2 DEF Fail
      <4>3. /\ Failures(k) \in Nat /\ Until(k) \in Nat /\ time \in Nat
            /\ FailureLimit \in Nat \ {0} /\ LockTicks \in Nat \ {0}
        BY <2>0, FailureTypes, LockoutAssumption
      <4>4. CASE Until(k) = 0
        <5>1. Failures(k) <= FailureLimit
          <6>1. CASE tracker[k] = NoTracker
            BY <4>3, <6>1 DEF Failures
          <6>2. CASE tracker[k] # NoTracker
            <7>1. tracker[k].until = 0 BY <4>4, <6>2 DEF Until
            <7>2. tracker[k].failures < FailureLimit /\ tracker[k].failures \in Nat
              BY <2>0, <6>2, <7>1, TrackerIsThere DEF BoundOf, LockoutTypeOK
            <7>. QED BY <4>3, <6>2, <7>2 DEF Failures
          <6>. QED BY <6>1, <6>2
        <5>2. CASE Failures(k) < FailureLimit
          <6>1. LockFrom(k) = 0 BY <4>3, <4>4, <5>2 DEF LockFrom
          <6>. QED BY <4>2, <5>2, <6>1 DEF BoundOf
        <5>3. CASE Failures(k) = FailureLimit
          <6>1. LockFrom(k) # 0 BY <4>3, <4>4, <5>3 DEF LockFrom
          <6>2. Failures(k) + m <= FailureLimit + c - 1 BY <4>1, <4>3, <5>3
          <6>. QED BY <4>2, <6>1, <6>2 DEF BoundOf
        <5>. QED BY <4>3, <5>1, <5>2, <5>3
      <4>5. CASE Until(k) # 0
        <5>1. tracker[k] # NoTracker /\ tracker[k].until # 0 /\ LockFrom(k) # 0
          BY <4>5 DEF Until, LockFrom
        <5>2. /\ tracker[k].failures \in Nat
              /\ tracker[k].failures + n <= FailureLimit + c - 1
          BY <2>0, <5>1, TrackerIsThere DEF BoundOf, LockoutTypeOK
        <5>3. Failures(k) = 1 \/ Failures(k) = tracker[k].failures + 1
          BY DEF Failures
        <5>4. Failures(k) + m <= FailureLimit + c - 1 BY <4>1, <4>3, <5>2, <5>3
        <5>. QED BY <4>2, <5>1, <5>4 DEF BoundOf
      <4>. QED BY <4>4, <4>5
    <3>. QED BY <3>1, <3>2
  <2>3. ASSUME NEW a \in Logins, Succeed(a) PROVE BoundOf(k)'
    <3>1. CASE k \in login[a]
      BY <2>3, <3>1 DEF Succeed, BoundOf
    <3>2. CASE k \notin login[a]
      <4>1. tracker'[k] = tracker[k] BY <2>3, <3>2 DEF Succeed
      <4>2. AttemptsOn(k)' = AttemptsOn(k) BY <2>0, <2>3, <3>2, AttemptEnds DEF Succeed
      <4>. QED BY <2>0, <4>1, <4>2, BoundStays
    <3>. QED BY <3>1, <3>2
  <2>4. ASSUME Prune PROVE BoundOf(k)'
    <3>1. AttemptsOn(k)' = AttemptsOn(k) BY <2>4 DEF Prune, AttemptsOn
    <3>. QED BY <2>0, <2>4, <3>1, BoundStays DEF Prune
  <2>5. ASSUME Pass \/ UNCHANGED lockoutVars PROVE BoundOf(k)'
    <3>1. AttemptsOn(k)' = AttemptsOn(k) BY <2>5 DEF Pass, lockoutVars, AttemptsOn
    <3>2. tracker'[k] = tracker[k] BY <2>5 DEF Pass, lockoutVars
    <3>. QED BY <2>0, <3>1, <3>2, BoundStays
  <2>. QED BY <2>1, <2>2, <2>3, <2>4, <2>5 DEF LockoutNext
<1>3. GuessInv => GuessesAreBounded
  <2>. SUFFICES ASSUME GuessInv, NEW k \in TrackerKeys, tracker[k] # NoTracker
                PROVE  tracker[k].failures < FailureLimit + Cardinality(Logins)
    BY DEF GuessesAreBounded
  <2>1. tracker[k].failures \in Nat BY TrackerIsThere DEF GuessInv, LockoutTypeOK
  <2>2. Cardinality(AttemptsOn(k)) \in Nat /\ Cardinality(Logins) \in Nat
    BY InFlightFinite
  <2>. QED BY <2>1, <2>2, LockoutAssumption DEF GuessInv, BoundOf
<1>. QED BY <1>1, <1>2, <1>3, LockoutTypeCorrect, PTL DEF LockoutSpec

-----------------------------------------------------------------------------
(* The rate limiter.                                                       *)

\* The types, with the fact that no row was refilled in the future.
RowsOK == \A b \in Buckets : bucket[b] # NoRow => bucket[b].last <= clock

\* Hits that follow each other in one bucket, with what is left in it, are
\* paid for by a full bucket and the refill since the first of them.
Paid(b, j) ==
  /\ allowed[b][j] <= clock
  /\ (Len(allowed[b]) - j + 1) * Window + Available(b)
       <= Full + (clock - allowed[b][j]) * Limit

RateInv ==
  /\ RateTypeOK /\ RowsOK /\ BurstIsBounded
  /\ \A b \in Buckets : \A j \in DOMAIN allowed[b] : Paid(b, j)

\* A full bucket holds at least one hit.
LEMMA FullHoldsAHit == Full \in Nat /\ Window \in Nat /\ Window > 0 /\ Window <= Full
<1>1. Limit \in Nat /\ Limit >= 1 /\ Window \in Nat /\ Window >= 1 BY RateAssumption
<1>2. Limit * Window \in Nat BY <1>1
<1>3. Limit * Window >= Window
  <2>1. (Limit - 1) * Window >= 0 BY <1>1
  <2>2. (Limit - 1) * Window = Limit * Window - Window BY <1>1
  <2>. QED BY <1>1, <1>2, <2>1, <2>2
<1>. QED BY <1>1, <1>2, <1>3 DEF Full

\* Time passed is paid in whole parts of a token.
LEMMA RefillIsNat ==
  ASSUME NEW n \in Int
  PROVE  (n \in Nat => n * Limit \in Nat) /\ (n + 1) * Limit = n * Limit + Limit
BY RateAssumption

\* What is available is between nothing and a full bucket.
LEMMA AvailableIsThere ==
  ASSUME RateTypeOK, RowsOK, NEW b \in Buckets
  PROVE  Available(b) \in 0..Full
<1>1. Full \in Nat BY FullHoldsAHit
<1>2. CASE bucket[b] = NoRow BY <1>1, <1>2 DEF Available
<1>3. CASE bucket[b] # NoRow
  <2>1. bucket[b].tokens \in 0..Full /\ clock - bucket[b].last \in Nat
    BY <1>3 DEF RateTypeOK, RowsOK
  <2>2. (clock - bucket[b].last) * Limit \in Nat BY <2>1, RefillIsNat
  <2>. QED BY <1>1, <2>1, <2>2 DEF Available
<1>. QED BY <1>2, <1>3

\* A row just refilled has exactly its tokens available.
LEMMA JustRefilled ==
  ASSUME RateTypeOK, NEW t \in 0..Full, NEW b \in Buckets,
         bucket' = [bucket EXCEPT ![b] = RefilledAt(b, t)], clock' = clock
  PROVE  /\ Available(b)' = t
         /\ \A c \in Buckets \ {b} : Available(c)' = Available(c)
<1>1. Full \in Nat /\ clock \in Int BY FullHoldsAHit DEF RateTypeOK
<1>2. bucket'[b] = [tokens |-> t, last |-> clock] BY DEF RefilledAt, RateTypeOK
<1>3. bucket'[b].tokens = t /\ bucket'[b].last = clock BY <1>2
<1>4. bucket'[b] # NoRow
  <2>1. NoRow.tokens = -1 BY DEF NoRow
  <2>. QED BY <1>1, <1>3, <2>1
<1>5. (clock' - bucket'[b].last) * Limit = 0
  <2>1. clock' - bucket'[b].last = 0 BY <1>1, <1>3
  <2>. QED BY <2>1, RateAssumption
<1>6. Available(b)' = t BY <1>1, <1>3, <1>4, <1>5 DEF Available
<1>7. ASSUME NEW c \in Buckets \ {b} PROVE Available(c)' = Available(c)
  <2>1. bucket'[c] = bucket[c] BY DEF RateTypeOK
  <2>. QED BY <2>1 DEF Available
<1>. QED BY <1>6, <1>7

\* A hit that is let through is paid for.
LEMMA HitAllowed ==
  ASSUME RateInv, NEW b \in Buckets, Hit(b), Available(b) >= Window
  PROVE  RateInv'
<1>. DEFINE t == Available(b) - Window
            n == Len(allowed[b])
<1>1. /\ RateTypeOK /\ RowsOK /\ clock \in 0..MaxTicks /\ clock \in Int
      /\ allowed[b] \in Seq(0..MaxTicks)
  BY RateAssumption DEF RateInv, RateTypeOK
<1>2. Full \in Nat /\ Window \in Nat /\ Window > 0 BY FullHoldsAHit
<1>3. Available(b) \in 0..Full BY <1>1, AvailableIsThere
<1>4. t \in 0..Full BY <1>2, <1>3
<1>5. /\ bucket' = [bucket EXCEPT ![b] = RefilledAt(b, t)] /\ clock' = clock
      /\ allowed' = [allowed EXCEPT ![b] = Append(@, clock)]
  BY <1>3 DEF Hit
<1>6. Available(b)' = t /\ \A c \in Buckets \ {b} : Available(c)' = Available(c)
  <2>. HIDE DEF t
  <2>. QED BY <1>1, <1>4, <1>5, JustRefilled
<1>7. n \in Nat /\ DOMAIN allowed[b] = 1..n BY <1>1, LenProperties
<1>8. /\ allowed'[b] = Append(allowed[b], clock)
      /\ \A c \in Buckets \ {b} : allowed'[c] = allowed[c]
  BY <1>5 DEF RateInv, RateTypeOK
<1>9. /\ allowed'[b] \in Seq(0..MaxTicks) /\ Len(allowed'[b]) = n + 1
      /\ allowed'[b][n + 1] = clock /\ \A j \in 1..n : allowed'[b][j] = allowed[b][j]
      /\ DOMAIN allowed'[b] = 1..(n + 1)
  BY <1>1, <1>7, <1>8, AppendProperties, LenProperties
<1>10. RateTypeOK'
  <2>1. RefilledAt(b, t) \in [tokens : 0..Full, last : 0..MaxTicks]
    BY <1>1, <1>4 DEF RefilledAt
  <2>2. bucket' \in [Buckets -> [tokens : 0..Full, last : 0..MaxTicks] \cup {NoRow}]
    BY <1>1, <1>5, <2>1 DEF RateTypeOK
  <2>3. allowed' \in [Buckets -> Seq(0..MaxTicks)] BY <1>1, <1>5, <1>8, <1>9 DEF RateTypeOK
  <2>. QED BY <1>1, <1>5, <2>2, <2>3 DEF RateTypeOK
<1>11. RowsOK'
  <2>1. RefilledAt(b, t).last = clock BY DEF RefilledAt
  <2>. QED BY <1>1, <1>5, <2>1 DEF RowsOK, RateTypeOK
<1>12. ASSUME NEW j \in 1..(n + 1) PROVE Paid(b, j)'
  <2>1. CASE j = n + 1
    <3>1. (clock - clock) * Limit = 0
      <4>1. clock - clock = 0 BY <1>1
      <4>. QED BY <4>1, RateAssumption
    <3>2. (n + 1 - j + 1) * Window = Window
      <4>1. n + 1 - j + 1 = 1 BY <1>7, <2>1
      <4>. QED BY <1>2, <4>1
    <3>3. allowed'[b][j] = clock BY <1>9, <2>1
    <3>4. Window + t <= Full BY <1>2, <1>3
    <3>5. (Len(allowed'[b]) - j + 1) * Window = Window BY <1>9, <3>2
    <3>6. (clock' - allowed'[b][j]) * Limit = 0 BY <1>5, <3>1, <3>3
    <3>7. Available(b)' = t /\ allowed'[b][j] <= clock' BY <1>1, <1>5, <1>6, <3>3
    <3>. HIDE DEF t, n
    <3>. QED BY <1>2, <3>4, <3>5, <3>6, <3>7 DEF Paid
  <2>2. CASE j \in 1..n
    <3>1. Paid(b, j) BY <1>7, <2>2 DEF RateInv
    <3>2. (n + 1 - j + 1) * Window = (n - j + 1) * Window + Window
      BY <1>2, <1>7, <2>2
    <3>3. allowed'[b][j] = allowed[b][j] BY <1>9, <2>2
    <3>4. (n - j + 1) * Window \in Int
      <4>1. n - j + 1 \in Int BY <1>7, <2>2
      <4>. QED BY <1>2, <4>1
    <3>5. (n + 1 - j + 1) * Window + t = (n - j + 1) * Window + Available(b)
      BY <1>2, <1>3, <3>2, <3>4
    <3>. HIDE DEF t
    <3>. QED BY <1>5, <1>6, <1>9, <3>1, <3>3, <3>5 DEF Paid
  <2>. QED BY <1>7, <2>1, <2>2
<1>13. ASSUME NEW c \in Buckets, NEW j \in DOMAIN allowed'[c] PROVE Paid(c, j)'
  <2>1. CASE c = b BY <1>9, <1>12, <2>1
  <2>2. CASE c # b
    <3>1. allowed'[c] = allowed[c] /\ Available(c)' = Available(c) BY <1>6, <1>8, <2>2
    <3>2. Paid(c, j) BY <3>1 DEF RateInv
    <3>. QED BY <1>5, <3>1, <3>2 DEF Paid
  <2>. QED BY <2>1, <2>2
<1>14. BurstIsBounded'
  <2>. SUFFICES ASSUME NEW c \in Buckets, NEW k \in DOMAIN allowed'[c], NEW j \in 1..k
                PROVE  (k - j + 1) * Window
                         <= Full + (allowed'[c][k] - allowed'[c][j]) * Limit
    BY DEF BurstIsBounded
  <2>1. CASE c # b \/ k # n + 1
    <3>1. k \in DOMAIN allowed[c] /\ (k - j + 1) * Window
            <= Full + (allowed[c][k] - allowed[c][j]) * Limit
      BY <1>7, <1>8, <1>9, <2>1 DEF RateInv, BurstIsBounded
    <3>2. CASE c # b BY <1>8, <3>1, <3>2
    <3>3. CASE c = b
      <4>1. k \in 1..n BY <1>7, <3>1, <3>3
      <4>2. j \in 1..n BY <1>7, <4>1
      <4>. QED BY <1>9, <3>1, <3>3, <4>1, <4>2
    <3>. QED BY <3>2, <3>3
  <2>2. CASE c = b /\ k = n + 1
    <3>1. j \in 1..(n + 1) BY <2>2
    <3>2. (n + 1 - j + 1) * Window + t <= Full + (clock - allowed'[b][j]) * Limit
      <4>. HIDE DEF t
      <4>. QED BY <1>5, <1>6, <1>9, <1>12, <3>1 DEF Paid
    <3>3. (n + 1 - j + 1) * Window \in Int
      <4>1. n + 1 - j + 1 \in Int BY <1>7, <3>1
      <4>. QED BY <1>2, <4>1
    <3>4. (clock - allowed'[b][j]) * Limit \in Int
      <4>1. allowed'[b][j] \in 0..MaxTicks BY <1>9, <3>1, ElementOfSeq
      <4>2. clock - allowed'[b][j] \in Int BY <1>1, <4>1, RateAssumption
      <4>. QED BY <4>2, RateAssumption
    <3>5. (n + 1 - j + 1) * Window <= Full + (clock - allowed'[b][j]) * Limit
      BY <1>2, <1>4, <3>2, <3>3, <3>4
    <3>. QED BY <1>9, <2>2, <3>5
  <2>. QED BY <2>1, <2>2
<1>. QED BY <1>10, <1>11, <1>13, <1>14 DEF RateInv

\* A step that lets nothing through and leaves every bucket what it had, or
\* what the passing tick adds, keeps the invariant.
LEMMA NothingAllowed ==
  ASSUME RateInv, RateTypeOK', RowsOK', allowed' = allowed,
         \/ clock' = clock /\ \A b \in Buckets : Available(b)' = Available(b)
         \/ /\ clock' = clock + 1
            /\ \A b \in Buckets : Available(b)' \in Int /\ Available(b)' <= Available(b) + Limit
  PROVE  RateInv'
<1>1. BurstIsBounded' BY DEF RateInv, BurstIsBounded
<1>2. ASSUME NEW b \in Buckets, NEW j \in DOMAIN allowed[b] PROVE Paid(b, j)'
  <2>1. Paid(b, j) BY DEF RateInv
  <2>2. CASE clock' = clock /\ Available(b)' = Available(b) BY <2>1, <2>2 DEF Paid
  <2>3. CASE /\ clock' = clock + 1
             /\ Available(b)' \in Int /\ Available(b)' <= Available(b) + Limit
    <3>. DEFINE m == (Len(allowed[b]) - j + 1) * Window
                at == allowed[b][j]
    <3>1. /\ allowed[b] \in Seq(0..MaxTicks) /\ clock \in Int /\ Limit \in Nat
          /\ Full \in Int /\ Window \in Int
      BY RateAssumption, FullHoldsAHit DEF RateInv, RateTypeOK
    <3>2. at \in 0..MaxTicks /\ Len(allowed[b]) \in Nat /\ j \in Int
      <4>1. DOMAIN allowed[b] = 1..Len(allowed[b]) /\ Len(allowed[b]) \in Nat
        BY <3>1, LenProperties
      <4>2. j \in 1..Len(allowed[b])
        <5>1. j \in DOMAIN allowed[b] OBVIOUS
        <5>. HIDE DEF at
        <5>. QED BY <4>1, <5>1, Zenon
      <4>3. at \in 0..MaxTicks BY <3>1, <4>2, ElementOfSeq
      <4>4. j \in Int
        <5>. DEFINE n == Len(allowed[b])
        <5>. HIDE DEF n
        <5>. QED BY <4>1, <4>2 DEF n
      <4>. QED BY <4>1, <4>3, <4>4, Zenon
    <3>3. clock - at \in Int /\ Len(allowed[b]) - j + 1 \in Int
      BY <3>1, <3>2, RateAssumption
    <3>4. m \in Int /\ (clock - at) * Limit \in Int BY <3>1, <3>3
    <3>5. (clock' - at) * Limit = (clock - at) * Limit + Limit
      <4>0. clock \in Int /\ at \in Int BY <3>1, <3>2
      <4>1. clock' - at = (clock - at) + 1
        <5>. HIDE DEF at
        <5>. QED BY <2>3, <4>0
      <4>. HIDE DEF at
      <4>. QED BY <3>3, <4>1, RefillIsNat
    <3>6. Available(b) \in Int BY AvailableIsThere, FullHoldsAHit DEF RateInv
    <3>7. at <= clock /\ m + Available(b) <= Full + (clock - at) * Limit BY <2>1 DEF Paid
    <3>8. at <= clock' BY <2>3, <3>1, <3>2, <3>7, RateAssumption
    <3>9. m + Available(b)' <= Full + (clock' - at) * Limit
      <4>. DEFINE r == (clock - at) * Limit
                  q == (clock' - at) * Limit
      <4>. HIDE DEF m, r, q, at
      <4>1. r \in Int /\ q = r + Limit /\ m + Available(b) <= Full + r
        BY <3>4, <3>5, <3>7 DEF r, q
      <4>2. m + Available(b)' <= Full + q BY <2>3, <3>1, <3>4, <3>6, <4>1
      <4>. QED BY <4>2 DEF q
    <3>. QED BY <3>8, <3>9 DEF Paid
  <2>. QED BY <2>2, <2>3
<1>. QED BY <1>1, <1>2 DEF RateInv

\* A tick adds at most its refill.
LEMMA TickRefills ==
  ASSUME RateTypeOK, RowsOK, NEW b \in Buckets, bucket' = bucket, clock' = clock + 1
  PROVE  Available(b)' \in Int /\ Available(b)' <= Available(b) + Limit
<1>1. Full \in Nat /\ Limit \in Nat /\ clock \in Int
  BY FullHoldsAHit, RateAssumption DEF RateTypeOK
<1>2. CASE bucket[b] = NoRow BY <1>1, <1>2 DEF Available
<1>3. CASE bucket[b] # NoRow
  <2>. DEFINE n == clock - bucket[b].last
  <2>1. bucket[b].tokens \in 0..Full /\ n \in Nat /\ bucket[b].last \in Int
    BY <1>3 DEF RateTypeOK, RowsOK
  <2>2. n * Limit \in Nat /\ (n + 1) * Limit = n * Limit + Limit BY <2>1, RefillIsNat
  <2>3. clock' - bucket'[b].last = n + 1 BY <1>1, <2>1
  <2>4. (clock' - bucket'[b].last) * Limit = n * Limit + Limit BY <2>2, <2>3
  <2>. QED BY <1>1, <1>3, <2>1, <2>2, <2>4 DEF Available
<1>. QED BY <1>2, <1>3

LEMMA RateInvHolds == RateSpec => []RateInv
<1>1. RateInit => RateInv
  <2>. SUFFICES ASSUME RateInit PROVE RateInv
    OBVIOUS
  <2>1. \A b \in Buckets : allowed[b] = <<>> /\ DOMAIN allowed[b] = {}
    <3>1. Len(<<>>) = 0 /\ <<>> \in Seq(Nat) BY EmptySeq
    <3>2. DOMAIN <<>> = {} BY <3>1, LenProperties
    <3>. QED BY <3>2 DEF RateInit
  <2>2. allowed \in [Buckets -> Seq(0..MaxTicks)] BY EmptySeq DEF RateInit
  <2>3. RateTypeOK BY <2>2, RateAssumption DEF RateInit, RateTypeOK
  <2>4. RowsOK BY DEF RateInit, RowsOK
  <2>. QED BY <2>1, <2>3, <2>4 DEF RateInv, BurstIsBounded
<1>2. RateInv /\ [RateNext]_rateVars => RateInv'
  <2>. SUFFICES ASSUME RateInv, [RateNext]_rateVars PROVE RateInv'
    OBVIOUS
  <2>0. RateTypeOK /\ RowsOK /\ clock \in Int BY DEF RateInv, RateTypeOK
  <2>1. ASSUME NEW b \in Buckets, Hit(b) PROVE RateInv'
    <3>1. CASE Available(b) >= Window BY <2>1, <3>1, HitAllowed
    <3>2. CASE ~(Available(b) >= Window)
      <4>1. /\ bucket' = [bucket EXCEPT ![b] = RefilledAt(b, Available(b))]
            /\ clock' = clock /\ allowed' = allowed
        BY <2>1, <3>2 DEF Hit
      <4>2. Available(b) \in 0..Full BY <2>0, AvailableIsThere
      <4>3. \A c \in Buckets : Available(c)' = Available(c)
        BY <2>0, <4>1, <4>2, JustRefilled
      <4>4. RefilledAt(b, Available(b)) \in [tokens : 0..Full, last : 0..MaxTicks]
        BY <4>2 DEF RefilledAt, RateInv, RateTypeOK
      <4>5. RateTypeOK' BY <4>1, <4>4 DEF RateInv, RateTypeOK
      <4>6. RefilledAt(b, Available(b)).last = clock BY DEF RefilledAt
      <4>7. RowsOK' BY <2>0, <4>1, <4>6 DEF RowsOK, RateTypeOK
      <4>. QED BY <4>1, <4>3, <4>5, <4>7, NothingAllowed
    <3>. QED BY <3>1, <3>2
  <2>2. ASSUME Sweep PROVE RateInv'
    <3>1. clock' = clock /\ allowed' = allowed BY <2>2 DEF Sweep
    <3>2. ASSUME NEW c \in Buckets PROVE Available(c)' = Available(c)
      <4>1. bucket'[c] = IF Dead(c) THEN NoRow ELSE bucket[c] BY <2>2 DEF Sweep
      <4>2. CASE Dead(c)
        <5>1. Available(c)' = Full BY <4>1, <4>2 DEF Available
        <5>2. Available(c) = Full
          BY <2>0, <4>2, AvailableIsThere, FullHoldsAHit DEF Dead
        <5>. QED BY <5>1, <5>2
      <4>3. CASE ~Dead(c) BY <3>1, <4>1, <4>3 DEF Available
      <4>. QED BY <4>2, <4>3
    <3>3. RateTypeOK' BY <2>0, <2>2 DEF Sweep, RateTypeOK
    <3>4. RowsOK' BY <2>0, <2>2 DEF Sweep, RowsOK
    <3>. QED BY <3>1, <3>2, <3>3, <3>4, NothingAllowed
  <2>3. ASSUME RateTick PROVE RateInv'
    <3>1. clock' = clock + 1 /\ allowed' = allowed /\ bucket' = bucket
      BY <2>3 DEF RateTick
    <3>2. RateTypeOK' BY <2>0, <2>3, RateAssumption DEF RateTick, RateTypeOK
    <3>3. \A b \in Buckets : bucket[b] # NoRow => bucket[b].last \in Int
      BY <2>0 DEF RateTypeOK
    <3>4. RowsOK' BY <2>0, <3>1, <3>3 DEF RowsOK
    <3>. QED BY <2>0, <3>1, <3>2, <3>4, NothingAllowed, TickRefills
  <2>4. ASSUME UNCHANGED rateVars PROVE RateInv'
    <3>1. clock' = clock /\ bucket' = bucket /\ allowed' = allowed BY <2>4 DEF rateVars
    <3>2. RateTypeOK' /\ RowsOK' BY <2>0, <3>1 DEF RateTypeOK, RowsOK
    <3>3. \A b \in Buckets : Available(b)' = Available(b) BY <3>1 DEF Available
    <3>. QED BY <3>1, <3>2, <3>3, NothingAllowed
  <2>. QED BY <2>1, <2>2, <2>3, <2>4 DEF RateNext
<1>. QED BY <1>1, <1>2, PTL DEF RateSpec

\* A bucket never holds less than nothing or more than a full one, whatever
\* hits it meets (rate-limit.ts, rate-limit-sqlite.ts).
THEOREM RateTypeCorrect == RateSpec => []RateTypeOK
<1>1. RateInv => RateTypeOK BY DEF RateInv
<1>. QED BY <1>1, RateInvHolds, PTL

\* However hits, refusals, idle time and sweeps alternate, a stretch of time
\* lets through no more than a full bucket and what it refills
\* (rate-limit.ts, rate-limit-sqlite.ts).
THEOREM BurstsAlwaysBounded == RateSpec => []BurstIsBounded
<1>1. RateInv => BurstIsBounded BY DEF RateInv
<1>. QED BY <1>1, RateInvHolds, PTL

-----------------------------------------------------------------------------
(* The ledger's tables.                                                    *)

\* A missing row is none of the rows.
LEMMA AbsentIsNoRow == NoTxnRow \notin TxnRow /\ NoLegRow \notin LegRow
<1>1. ASSUME NoTxnRow \in TxnRow PROVE FALSE
  <2>1. NoTxnRow.status \in TxnStatus BY <1>1 DEF TxnRow
  <2>2. NoTxnRow.status = "absent" BY DEF NoTxnRow
  <2>. QED BY <2>1, <2>2 DEF TxnStatus
<1>2. ASSUME NoLegRow \in LegRow PROVE FALSE
  <2>1. NoLegRow.side \in {"debit", "credit"} BY <1>2 DEF LegRow
  <2>2. NoLegRow.side = "absent" BY DEF NoLegRow
  <2>. QED BY <2>1, <2>2
<1>. QED BY <1>1, <1>2

-----------------------------------------------------------------------------
(* Types.                                                                  *)

\* Every row and every leg has its type, whatever is sent to the tables.
THEOREM TablesTypeCorrect == TablesSpec => []TablesTypeOK
<1>1. TablesInit => TablesTypeOK
  BY DEF TablesInit, TablesTypeOK
<1>2. TablesTypeOK /\ [TablesNext]_tablesVars => TablesTypeOK'
  <2>. SUFFICES ASSUME TablesTypeOK, [TablesNext]_tablesVars PROVE TablesTypeOK'
    OBVIOUS
  <2>. USE DEF TablesTypeOK
  <2>1. ASSUME NEW t \in TxnIds, DeleteTxn(t) PROVE TablesTypeOK'
    BY <2>1 DEF DeleteTxn
  <2>2. ASSUME NEW t \in TxnIds, NEW row \in TxnRow, InsertTxn(t, row)
        PROVE  TablesTypeOK'
    BY <2>2 DEF InsertTxn, Handle
  <2>3. ASSUME NEW t \in TxnIds, NEW row \in TxnRow, UpdateTxn(t, row)
        PROVE  TablesTypeOK'
    BY <2>3 DEF UpdateTxn, Handle
  <2>4. ASSUME NEW l \in LegIds, DeleteLeg(l) PROVE TablesTypeOK'
    <3>1. legRow[l].of \in TxnIds BY <2>4 DEF DeleteLeg, LegRow
    <3>. QED BY <2>4, <3>1 DEF DeleteLeg
  <2>5. ASSUME NEW l \in LegIds, NEW leg \in LegRow, InsertLeg(l, leg)
        PROVE  TablesTypeOK'
    <3>1. leg.of \in TxnIds BY DEF LegRow
    <3>. QED BY <2>5, <3>1 DEF InsertLeg, Handle
  <2>6. ASSUME NEW l \in LegIds, NEW leg \in LegRow, UpdateLeg(l, leg)
        PROVE  TablesTypeOK'
    <3>1. leg.of \in TxnIds /\ legRow[l].of \in TxnIds BY <2>6 DEF UpdateLeg, LegRow
    <3>. QED BY <2>6, <3>1 DEF UpdateLeg
  <2>7. ASSUME SwitchMaintenance PROVE TablesTypeOK'
    BY <2>7 DEF SwitchMaintenance
  <2>8. ASSUME UNCHANGED tablesVars PROVE TablesTypeOK'
    BY <2>8 DEF tablesVars
  <2>. QED
    BY <2>1, <2>2, <2>3, <2>4, <2>5, <2>6, <2>7, <2>8 DEF TablesNext
<1>. QED BY <1>1, <1>2, PTL DEF TablesSpec

-----------------------------------------------------------------------------
(* A statement leaves the legs of a transaction alone when it writes no    *)
(* leg that is, or was, one of them.                                       *)

LEMMA LegsOfOthers ==
  ASSUME NEW t \in TxnIds,
         \A l \in LegIds : IsLegOf(l, t)' <=> IsLegOf(l, t),
         \A l \in LegIds : IsLegOf(l, t) => legRow'[l] = legRow[l]
  PROVE  LegsOf(t)' = LegsOf(t)
<1>. DEFINE K == {k \in LegIds : IsLegOf(k, t)}
<1>1. K' = K OBVIOUS
<1>2. \A l \in K : legRow'[l] = legRow[l] OBVIOUS
<1>3. {<<l, legRow'[l]>> : l \in K} = {<<l, legRow[l]>> : l \in K}
  BY <1>2
<1>. QED BY <1>1, <1>3 DEF LegsOf

LEMMA LegsKept ==
  ASSUME NEW t \in TxnIds, UNCHANGED legRow
  PROVE  LegsOf(t)' = LegsOf(t)
BY DEF LegsOf, IsLegOf

LEMMA LegsAfterInsert ==
  ASSUME TablesTypeOK, NEW t \in TxnIds, NEW l \in LegIds, NEW leg \in LegRow,
         InsertLeg(l, leg), leg.of # t
  PROVE  LegsOf(t)' = LegsOf(t)
<1>1. legRow' = [legRow EXCEPT ![l] = leg] /\ legRow[l] = NoLegRow
  BY DEF InsertLeg
<1>2. ~IsLegOf(l, t) /\ ~IsLegOf(l, t)' BY <1>1 DEF IsLegOf, TablesTypeOK
<1>3. \A k \in LegIds \ {l} : legRow'[k] = legRow[k] BY <1>1 DEF TablesTypeOK
<1>4. \A k \in LegIds \ {l} : IsLegOf(k, t)' <=> IsLegOf(k, t) BY <1>3 DEF IsLegOf
<1>. QED BY <1>2, <1>3, <1>4, LegsOfOthers

LEMMA LegsAfterUpdate ==
  ASSUME TablesTypeOK, NEW t \in TxnIds, NEW l \in LegIds, NEW leg \in LegRow,
         UpdateLeg(l, leg), leg.of # t, legRow[l].of # t
  PROVE  LegsOf(t)' = LegsOf(t)
<1>1. legRow' = [legRow EXCEPT ![l] = leg] BY DEF UpdateLeg
<1>2. ~IsLegOf(l, t) /\ ~IsLegOf(l, t)' BY <1>1 DEF IsLegOf, TablesTypeOK
<1>3. \A k \in LegIds \ {l} : legRow'[k] = legRow[k] BY <1>1 DEF TablesTypeOK
<1>4. \A k \in LegIds \ {l} : IsLegOf(k, t)' <=> IsLegOf(k, t) BY <1>3 DEF IsLegOf
<1>. QED BY <1>2, <1>3, <1>4, LegsOfOthers

LEMMA LegsAfterDelete ==
  ASSUME TablesTypeOK, NEW t \in TxnIds, NEW l \in LegIds,
         DeleteLeg(l), legRow[l].of # t
  PROVE  LegsOf(t)' = LegsOf(t)
<1>1. legRow' = [legRow EXCEPT ![l] = NoLegRow] BY DEF DeleteLeg
<1>2. ~IsLegOf(l, t) /\ ~IsLegOf(l, t)' BY <1>1 DEF IsLegOf, TablesTypeOK
<1>3. \A k \in LegIds \ {l} : legRow'[k] = legRow[k] BY <1>1 DEF TablesTypeOK
<1>4. \A k \in LegIds \ {l} : IsLegOf(k, t)' <=> IsLegOf(k, t) BY <1>3 DEF IsLegOf
<1>. QED BY <1>2, <1>3, <1>4, LegsOfOthers

LEMMA LegsAfterDeleteTxn ==
  ASSUME TablesTypeOK, NEW t \in TxnIds, NEW s \in TxnIds, DeleteTxn(s), s # t
  PROVE  LegsOf(t)' = LegsOf(t)
<1>1. legRow' = [l \in LegIds |-> IF IsLegOf(l, s) THEN NoLegRow ELSE legRow[l]]
  BY DEF DeleteTxn
<1>2. \A l \in LegIds : IsLegOf(l, t) => ~IsLegOf(l, s) BY DEF IsLegOf
<1>3. \A l \in LegIds : IsLegOf(l, t) => legRow'[l] = legRow[l] BY <1>1, <1>2
<1>4. \A l \in LegIds : IsLegOf(l, t)' <=> IsLegOf(l, t) BY <1>1, <1>2 DEF IsLegOf
<1>. QED BY <1>3, <1>4, LegsOfOthers
-----------------------------------------------------------------------------
(* Transactions on record balance.                                         *)

\* A step that leaves a transaction's row and legs alone, and does not take
\* it off the handled ones, keeps it balanced.
LEMMA StaysBalanced ==
  ASSUME RecordsBalance, NEW t \in TxnIds,
         txnRow'[t] = txnRow[t], LegsOf(t)' = LegsOf(t),
         t \notin handled, OnRecord(t)'
  PROVE  Balanced(LegsOf(t))'
<1>1. OnRecord(t) BY DEF OnRecord, Stored
<1>2. Balanced(LegsOf(t)) BY <1>1 DEF RecordsBalance
<1>3. Balanced(LegsOf(t))' <=> Balanced(LegsOf(t)') OBVIOUS
<1>. QED BY <1>2, <1>3

LEMMA BalanceStep ==
  ASSUME TablesTypeOK, RecordsBalance, [TablesNext]_tablesVars
  PROVE  RecordsBalance'
<1>. USE DEF TablesTypeOK
<1>. SUFFICES ASSUME NEW t \in TxnIds, t \notin handled', OnRecord(t)'
              PROVE  Balanced(LegsOf(t))'
  BY DEF RecordsBalance
<1>1. ASSUME NEW s \in TxnIds, DeleteTxn(s) PROVE Balanced(LegsOf(t))'
  <2>1. s # t /\ t \notin handled BY <1>1 DEF DeleteTxn
  <2>2. txnRow'[t] = txnRow[t] BY <1>1, <2>1 DEF DeleteTxn
  <2>. QED BY <1>1, <2>1, <2>2, LegsAfterDeleteTxn, StaysBalanced
<1>2. ASSUME NEW s \in TxnIds, NEW row \in TxnRow, InsertTxn(s, row)
      PROVE  Balanced(LegsOf(t))'
  <2>1. LegsOf(t)' = LegsOf(t) BY <1>2, LegsKept DEF InsertTxn
  <2>2. CASE s # t
    <3>1. txnRow'[t] = txnRow[t] /\ t \notin handled
      BY <1>2, <2>2 DEF InsertTxn, Handle
    <3>. QED BY <2>1, <3>1, StaysBalanced
  <2>3. CASE s = t
    <3>1. ~maintenance BY <1>2, <2>3 DEF InsertTxn, Handle
    <3>2. txnRow'[t].status = "pending" BY <1>2, <2>3, <3>1 DEF InsertTxn
    <3>. QED BY <3>2 DEF OnRecord
  <2>. QED BY <2>2, <2>3
<1>3. ASSUME NEW s \in TxnIds, NEW row \in TxnRow, UpdateTxn(s, row)
      PROVE  Balanced(LegsOf(t))'
  <2>1. LegsOf(t)' = LegsOf(t) BY <1>3, LegsKept DEF UpdateTxn
  <2>2. CASE s # t
    <3>1. txnRow'[t] = txnRow[t] /\ t \notin handled
      BY <1>3, <2>2 DEF UpdateTxn, Handle
    <3>. QED BY <2>1, <3>1, StaysBalanced
  <2>3. CASE s = t /\ ThroughGate(t, row.status)
    <3>1. Balanced(LegsOf(t)) BY <1>3, <2>3 DEF UpdateTxn, PassesGate
    <3>2. Balanced(LegsOf(t))' <=> Balanced(LegsOf(t)') OBVIOUS
    <3>. QED BY <2>1, <3>1, <3>2
  <2>4. CASE s = t /\ ~ThroughGate(t, row.status)
    <3>1. t \notin handled /\ ~maintenance BY <1>3, <2>4 DEF UpdateTxn, Handle
    <3>2. MayBecome(txnRow[t].status, row.status) BY <1>3, <2>4, <3>1 DEF UpdateTxn
    <3>3. txnRow[t].status = "posted" BY <2>4, <3>2 DEF MayBecome, ThroughGate
    <3>4. OnRecord(t) BY <1>3, <2>4, <3>3 DEF UpdateTxn, OnRecord
    <3>5. Balanced(LegsOf(t)) BY <3>1, <3>4 DEF RecordsBalance
    <3>6. Balanced(LegsOf(t))' <=> Balanced(LegsOf(t)') OBVIOUS
    <3>. QED BY <2>1, <3>5, <3>6
  <2>. QED BY <2>2, <2>3, <2>4
<1>4. ASSUME NEW l \in LegIds, DeleteLeg(l) PROVE Balanced(LegsOf(t))'
  <2>1. legRow[l].of # t /\ t \notin handled BY <1>4 DEF DeleteLeg
  <2>2. txnRow'[t] = txnRow[t] BY <1>4 DEF DeleteLeg
  <2>. QED BY <1>4, <2>1, <2>2, LegsAfterDelete, StaysBalanced
<1>5. ASSUME NEW l \in LegIds, NEW leg \in LegRow, InsertLeg(l, leg)
      PROVE  Balanced(LegsOf(t))'
  <2>1. txnRow'[t] = txnRow[t] /\ t \notin handled BY <1>5 DEF InsertLeg, Handle
  <2>2. leg.of # t
    <3>. SUFFICES ASSUME leg.of = t PROVE FALSE OBVIOUS
    <3>1. ~maintenance BY <1>5 DEF InsertLeg, Handle
    <3>2. txnRow[t].status = "pending" BY <1>5, <3>1 DEF InsertLeg, TakesLegs
    <3>. QED BY <2>1, <3>2 DEF OnRecord
  <2>. QED BY <1>5, <2>1, <2>2, LegsAfterInsert, StaysBalanced
<1>6. ASSUME NEW l \in LegIds, NEW leg \in LegRow, UpdateLeg(l, leg)
      PROVE  Balanced(LegsOf(t))'
  <2>1. legRow[l].of # t /\ leg.of # t /\ t \notin handled BY <1>6 DEF UpdateLeg
  <2>2. txnRow'[t] = txnRow[t] BY <1>6 DEF UpdateLeg
  <2>. QED BY <1>6, <2>1, <2>2, LegsAfterUpdate, StaysBalanced
<1>7. ASSUME SwitchMaintenance \/ UNCHANGED tablesVars PROVE Balanced(LegsOf(t))'
  <2>1. txnRow' = txnRow /\ legRow' = legRow /\ handled' = handled
    BY <1>7 DEF SwitchMaintenance, tablesVars
  <2>. QED BY <2>1, LegsKept, StaysBalanced
<1>. QED BY <1>1, <1>2, <1>3, <1>4, <1>5, <1>6, <1>7 DEF TablesNext

\* A transaction on record balances, unless it was written to under
\* maintenance after it passed the posting gate.
THEOREM RecordsAlwaysBalance == TablesSpec => []RecordsBalance
<1>1. TablesInit => RecordsBalance
  BY DEF TablesInit, RecordsBalance, OnRecord, Stored
<1>2. TablesTypeOK /\ RecordsBalance /\ [TablesNext]_tablesVars => RecordsBalance'
  BY BalanceStep
<1>. QED BY <1>1, <1>2, TablesTypeCorrect, PTL DEF TablesSpec

-----------------------------------------------------------------------------
(* History is fixed.                                                       *)

LEMMA FixedStep ==
  ASSUME TablesTypeOK, [TablesNext]_tablesVars, NEW t \in TxnIds
  PROVE  Fixed(t)
<1>. USE DEF TablesTypeOK
<1>. SUFFICES ASSUME OnRecord(t), ~maintenance
              PROVE  /\ OnRecord(t)'
                     /\ LegsOf(t)' = LegsOf(t)
                     /\ txnRow'[t].facts = txnRow[t].facts
                     /\ txnRow[t].status = "reversed" => txnRow'[t] = txnRow[t]
  BY DEF Fixed
<1>1. ASSUME NEW s \in TxnIds, NEW row \in TxnRow, UpdateTxn(s, row)
      PROVE  /\ OnRecord(t)'
             /\ LegsOf(t)' = LegsOf(t)
             /\ txnRow'[t].facts = txnRow[t].facts
             /\ txnRow[t].status = "reversed" => txnRow'[t] = txnRow[t]
  <2>1. LegsOf(t)' = LegsOf(t) BY <1>1, LegsKept DEF UpdateTxn
  <2>2. CASE s # t
    <3>1. txnRow'[t] = txnRow[t] BY <1>1, <2>2 DEF UpdateTxn
    <3>. QED BY <2>1, <3>1 DEF OnRecord, Stored
  <2>3. CASE s = t
    <3>1. row.facts = txnRow[t].facts /\ MayBecome(txnRow[t].status, row.status)
      BY <1>1, <2>3 DEF UpdateTxn
    <3>2. row.status = "reversed" /\ txnRow[t].status = "posted"
      BY <3>1 DEF MayBecome, OnRecord
    <3>3. txnRow'[t] = row BY <1>1, <2>3 DEF UpdateTxn
    <3>4. OnRecord(t)' BY <3>2, <3>3, AbsentIsNoRow DEF OnRecord, Stored
    <3>. QED BY <2>1, <3>1, <3>2, <3>3, <3>4
  <2>. QED BY <2>2, <2>3
<1>2. ASSUME UNCHANGED <<txnRow, legRow>>
      PROVE  /\ OnRecord(t)'
             /\ LegsOf(t)' = LegsOf(t)
             /\ txnRow'[t] = txnRow[t]
  BY <1>2, LegsKept DEF OnRecord, Stored
<1>3. ASSUME NEW s \in TxnIds, NEW row \in TxnRow, InsertTxn(s, row)
      PROVE  /\ OnRecord(t)'
             /\ LegsOf(t)' = LegsOf(t)
             /\ txnRow'[t] = txnRow[t]
  <2>1. s # t BY <1>3 DEF InsertTxn, OnRecord, Stored
  <2>2. txnRow'[t] = txnRow[t] BY <1>3, <2>1 DEF InsertTxn
  <2>3. LegsOf(t)' = LegsOf(t) BY <1>3, LegsKept DEF InsertTxn
  <2>. QED BY <2>2, <2>3 DEF OnRecord, Stored
<1>4. ASSUME NEW l \in LegIds, NEW leg \in LegRow, InsertLeg(l, leg)
      PROVE  /\ OnRecord(t)'
             /\ LegsOf(t)' = LegsOf(t)
             /\ txnRow'[t] = txnRow[t]
  <2>1. leg.of # t BY <1>4 DEF InsertLeg, TakesLegs, OnRecord
  <2>2. txnRow'[t] = txnRow[t] BY <1>4 DEF InsertLeg
  <2>3. LegsOf(t)' = LegsOf(t) BY <1>4, <2>1, LegsAfterInsert
  <2>. QED BY <2>2, <2>3 DEF OnRecord, Stored
<1>. QED
  BY <1>1, <1>2, <1>3, <1>4
  DEF TablesNext, tablesVars, SwitchMaintenance, DeleteTxn, DeleteLeg, UpdateLeg

\* Outside maintenance a transaction on record keeps its legs and its facts,
\* and is at most marked reversed, once.
THEOREM HistoryIsAlwaysFixed == TablesSpec => HistoryIsFixed
<1>1. TablesTypeOK /\ [TablesNext]_tablesVars
        => [\A t \in TxnIds : Fixed(t)]_tablesVars
  BY FixedStep
<1>. QED BY <1>1, TablesTypeCorrect, PTL DEF TablesSpec, HistoryIsFixed

-----------------------------------------------------------------------------
(* Variation orders.                                                       *)

\* What SumImpacts adds up, for any table of impacts.
IsSum(f, g) ==
  g = [S \in SUBSET VariationOrders |->
         IF S = {} THEN 0
         ELSE LET v == CHOOSE v \in S : TRUE IN f[v] + g[S \ {v}]]

ImpactOf == [v \in VariationOrders |-> variation[v].impact]

\* Without one of its members a finite set is one smaller.
LEMMA OneLess ==
  ASSUME IsFiniteSet(VariationOrders), NEW S \in SUBSET VariationOrders
  PROVE  /\ Cardinality(S) \in 0..Cardinality(VariationOrders)
         /\ Cardinality(S) = 0 <=> S = {}
         /\ \A v \in S : /\ S \ {v} \in SUBSET VariationOrders
                         /\ Cardinality(S \ {v}) = Cardinality(S) - 1
<1>1. IsFiniteSet(S) /\ Cardinality(S) <= Cardinality(VariationOrders)
  BY FS_Subset
<1>2. Cardinality(S) \in Nat /\ Cardinality(VariationOrders) \in Nat BY <1>1, FS_CardinalityType
<1>3. Cardinality(S) = 0 <=> S = {} BY <1>1, FS_EmptySet
<1>4. \A v \in S : Cardinality(S \ {v}) = Cardinality(S) - 1
  BY <1>1, FS_RemoveElement
<1>. QED BY <1>1, <1>2, <1>3, <1>4

\* Sums exist: up to any size, hence up to the size of the whole set.
LEMMA SumExists ==
  ASSUME IsFiniteSet(VariationOrders), NEW f
  PROVE  \E g : IsSum(f, g)
<1>. DEFINE V == VariationOrders
            Next1(g, S) == IF S = {} THEN 0
                           ELSE LET v == CHOOSE v \in S : TRUE IN f[v] + g[S \ {v}]
            Good(n) == \E g : /\ g = [S \in SUBSET V |-> g[S]]
                              /\ \A S \in SUBSET V : Cardinality(S) <= n => g[S] = Next1(g, S)
            T == {n \in Nat : Good(n)}
<1>1. Cardinality(V) \in Nat BY FS_CardinalityType
<1>2. 0 \in T
  <2>. DEFINE g == [S \in SUBSET V |-> 0]
  <2>1. \A S \in SUBSET V : Cardinality(S) <= 0 => S = {} BY OneLess
  <2>2. \A S \in SUBSET V : Cardinality(S) <= 0 => g[S] = Next1(g, S) BY <2>1
  <2>3. g = [S \in SUBSET V |-> g[S]] OBVIOUS
  <2>. HIDE DEF g
  <2>. QED BY <2>2, <2>3
<1>3. ASSUME NEW n \in Nat, Good(n) PROVE Good(n + 1)
  <2>. HIDE DEF Next1
  <2>1. PICK g : /\ g = [S \in SUBSET V |-> g[S]]
                 /\ \A S \in SUBSET V : Cardinality(S) <= n => g[S] = Next1(g, S)
    BY <1>3
  <2>. DEFINE h == [S \in SUBSET V |-> Next1(g, S)]
  <2>2. h = [S \in SUBSET V |-> h[S]] OBVIOUS
  <2>3. ASSUME NEW S \in SUBSET V, Cardinality(S) <= n + 1 PROVE h[S] = Next1(h, S)
    <3>1. CASE S = {} BY <3>1 DEF Next1
    <3>2. CASE S # {}
      <4>. DEFINE v == CHOOSE v \in S : TRUE
                  R == S \ {v}
      <4>1. v \in S BY <3>2
      <4>2. R \in SUBSET V /\ Cardinality(R) <= n BY <2>3, <4>1, OneLess
      <4>3. h[R] = g[R] BY <2>1, <4>2
      <4>4. Next1(g, S) = Next1(h, S) BY <3>2, <4>3 DEF Next1
      <4>. QED BY <4>4
    <3>. QED BY <3>1, <3>2
  <2>. HIDE DEF h
  <2>. QED BY <2>2, <2>3
<1>. HIDE DEF Good
<1>4. \A n \in Nat : n \in T => n + 1 \in T BY <1>3
<1>5. Cardinality(V) \in T BY <1>1, <1>2, <1>4, NatUpTo
<1>6. PICK g : /\ g = [S \in SUBSET V |-> g[S]]
               /\ \A S \in SUBSET V : Cardinality(S) <= Cardinality(V) => g[S] = Next1(g, S)
  BY <1>5 DEF Good
<1>7. \A S \in SUBSET V : g[S] = Next1(g, S)
  <2>1. \A S \in SUBSET V : Cardinality(S) <= Cardinality(V) BY <1>1, OneLess
  <2>. QED BY <2>1, <1>6
<1>8. g = [S \in SUBSET V |-> Next1(g, S)] 
  <2>. HIDE DEF Next1
  <2>. QED BY <1>6, <1>7
<1>. QED BY <1>8 DEF IsSum

\* A sum takes any of its members first.
LEMMA SumTakesAny ==
  ASSUME IsFiniteSet(VariationOrders), NEW f \in [VariationOrders -> Int], NEW g, IsSum(f, g),
         NEW S \in SUBSET VariationOrders
  PROVE  g[S] \in Int /\ \A w \in S : g[S] = f[w] + g[S \ {w}]
<1>. DEFINE V == VariationOrders
            AnyOf(R) == g[R] \in Int /\ \A w \in R : g[R] = f[w] + g[R \ {w}]
            T == {n \in Nat : \A R \in SUBSET V : Cardinality(R) <= n => AnyOf(R)}
<1>0. /\ g[{}] = 0
      /\ \A R \in SUBSET V : R # {} =>
           g[R] = LET v == CHOOSE v \in R : TRUE IN f[v] + g[R \ {v}]
  BY DEF IsSum
<1>1. 0 \in T
  <2>1. \A R \in SUBSET V : Cardinality(R) <= 0 => R = {} BY OneLess
  <2>2. AnyOf({}) BY <1>0
  <2>. HIDE DEF AnyOf
  <2>. QED BY <2>1, <2>2
<1>2. ASSUME NEW n \in Nat, \A R \in SUBSET V : Cardinality(R) <= n => AnyOf(R),
             NEW R \in SUBSET V, Cardinality(R) <= n + 1
      PROVE  AnyOf(R)
  <2>1. CASE R = {} BY <2>1, <1>0
  <2>2. CASE R # {}
    <3>. DEFINE v == CHOOSE v \in R : TRUE
    <3>1. v \in R /\ g[R] = f[v] + g[R \ {v}] BY <2>2, <1>0
    <3>. HIDE DEF v
    <3>2. \A w \in R : R \ {w} \in SUBSET V /\ Cardinality(R \ {w}) <= n BY <1>2, OneLess
    <3>3. \A w \in R : g[R \ {w}] \in Int /\ f[w] \in Int BY <3>2, <1>2
    <3>4. ASSUME NEW w \in R, w # v PROVE g[R] = f[w] + g[R \ {w}]
      <4>1. g[R \ {v}] = f[w] + g[(R \ {v}) \ {w}] BY <3>1, <3>2, <3>4, <1>2
      <4>2. g[R \ {w}] = f[v] + g[(R \ {w}) \ {v}] BY <3>1, <3>2, <3>4, <1>2
      <4>3. (R \ {v}) \ {w} = (R \ {w}) \ {v} OBVIOUS
      <4>4. (R \ {v}) \ {w} \in SUBSET V /\ Cardinality((R \ {v}) \ {w}) <= n
        <5>1. Cardinality(R \ {v}) \in Nat /\ Cardinality(R \ {v}) <= n BY <3>1, <3>2, OneLess
        <5>2. w \in R \ {v} /\ R \ {v} \in SUBSET V BY <3>4
        <5>. QED BY <5>1, <5>2, OneLess
      <4>5. g[(R \ {v}) \ {w}] \in Int BY <4>4, <1>2
      <4>6. g[R \ {w}] = f[v] + g[(R \ {v}) \ {w}] BY <4>2, <4>3
      <4>7. g[R] = f[v] + (f[w] + g[(R \ {v}) \ {w}]) BY <3>1, <4>1
      <4>8. f[v] \in Int /\ f[w] \in Int BY <3>1
      <4>9. \A a, b, c \in Int : a + (b + c) = b + (a + c) OBVIOUS
      <4>. QED BY <4>5, <4>6, <4>7, <4>8, <4>9
    <3>5. g[R] \in Int
      <4>1. f[v] \in Int /\ g[R \ {v}] \in Int BY <3>1, <3>3
      <4>2. \A a, b \in Int : a + b \in Int OBVIOUS
      <4>. QED BY <3>1, <4>1, <4>2
    <3>6. \A w \in R : g[R] = f[w] + g[R \ {w}] BY <3>1, <3>4
    <3>. QED BY <3>5, <3>6
  <2>. QED BY <2>1, <2>2
<1>. HIDE DEF AnyOf
<1>3. \A n \in Nat : n \in T => n + 1 \in T BY <1>2
<1>4. Cardinality(S) \in Nat /\ Cardinality(S) <= Cardinality(S) BY OneLess
<1>5. Cardinality(S) \in T BY <1>1, <1>3, <1>4, NatUpTo
<1>6. AnyOf(S) BY <1>4, <1>5
<1>. QED BY <1>6 DEF AnyOf

\* Tables that agree on a set have one sum of it.
LEMMA SumsAgree ==
  ASSUME IsFiniteSet(VariationOrders),
         NEW f \in [VariationOrders -> Int], NEW g, IsSum(f, g),
         NEW e \in [VariationOrders -> Int], NEW h, IsSum(e, h),
         NEW S \in SUBSET VariationOrders, \A v \in S : f[v] = e[v]
  PROVE  g[S] = h[S]
<1>. DEFINE V == VariationOrders
            Like(R) == (\A v \in R : f[v] = e[v]) => g[R] = h[R]
            T == {n \in Nat : \A R \in SUBSET V : Cardinality(R) <= n => Like(R)}
<1>0. /\ g[{}] = 0 /\ h[{}] = 0 BY DEF IsSum
<1>1. 0 \in T
  <2>1. \A R \in SUBSET V : Cardinality(R) <= 0 => R = {} BY OneLess
  <2>. QED BY <1>0, <2>1
<1>2. ASSUME NEW n \in Nat, \A R \in SUBSET V : Cardinality(R) <= n => Like(R),
             NEW R \in SUBSET V, Cardinality(R) <= n + 1
      PROVE  Like(R)
  <2>. SUFFICES ASSUME \A v \in R : f[v] = e[v] PROVE g[R] = h[R] OBVIOUS
  <2>1. CASE R = {} BY <2>1, <1>0
  <2>2. CASE R # {}
    <3>1. PICK w \in R : TRUE BY <2>2
    <3>2. \A v \in R : g[R] = f[v] + g[R \ {v}] BY SumTakesAny
    <3>3. \A v \in R : h[R] = e[v] + h[R \ {v}] BY SumTakesAny
    <3>4. R \ {w} \in SUBSET V /\ Cardinality(R \ {w}) <= n BY <1>2, OneLess
    <3>5. g[R \ {w}] = h[R \ {w}] BY <3>4, <1>2
    <3>. QED BY <3>2, <3>3, <3>5
  <2>. QED BY <2>1, <2>2
<1>. HIDE DEF Like
<1>3. \A n \in Nat : n \in T => n + 1 \in T BY <1>2
<1>4. Cardinality(S) \in Nat /\ Cardinality(S) <= Cardinality(S) BY OneLess
<1>5. Cardinality(S) \in T BY <1>1, <1>3, <1>4, NatUpTo
<1>6. Like(S) BY <1>4, <1>5
<1>. QED BY <1>6 DEF Like

LEMMA SumImpactsIsSum == IsFiniteSet(VariationOrders) => IsSum(ImpactOf, SumImpacts)
<1>. SUFFICES ASSUME IsFiniteSet(VariationOrders) PROVE IsSum(ImpactOf, SumImpacts) OBVIOUS
<1>. DEFINE Body(h) == [S \in SUBSET VariationOrders |->
               IF S = {} THEN 0
               ELSE LET v == CHOOSE v \in S : TRUE IN variation[v].impact + h[S \ {v}]]
<1>1. PICK g : IsSum(ImpactOf, g) BY SumExists
<1>2. \A h : IsSum(ImpactOf, h) <=> h = Body(h)
  <2>. TAKE h
  <2>1. \A S \in SUBSET VariationOrders :
          (IF S = {} THEN 0
           ELSE LET v == CHOOSE v \in S : TRUE IN ImpactOf[v] + h[S \ {v}])
          = (IF S = {} THEN 0
             ELSE LET v == CHOOSE v \in S : TRUE IN variation[v].impact + h[S \ {v}])
    BY DEF ImpactOf
  <2>. QED BY <2>1 DEF IsSum
<1>3. \E h : h = Body(h)
  <2>. HIDE DEF Body
  <2>. QED BY <1>1, <1>2
<1>4. SumImpacts = Body(SumImpacts) BY <1>3, Zenon DEF SumImpacts
<1>. HIDE DEF Body
<1>. QED BY <1>2, <1>4

\* One decision is taken at a time.
OneDecider == \A p, q \in Deciders : p = q

\* A decision in flight is about a variation that awaits one.
DecisionHolds ==
  \A p \in Deciders : deciding[p].of # NoVariation => AwaitsDecision(deciding[p].of)

Approved == {v \in VariationOrders : variation[v].status = "approved"}

ImpactsOK == ImpactOf \in [VariationOrders -> Int]

LEMMA VariationTypeStep ==
  ASSUME VariationTypeOK, [VariationNext]_variationVars
  PROVE  VariationTypeOK'
<1>1. CASE UNCHANGED variationVars BY <1>1 DEF variationVars, VariationTypeOK
<1>2. ASSUME NEW v \in VariationOrders, NEW n \in Impacts, NEW ph \in BOOLEAN,
             SubmitVariation(v, n, ph)
      PROVE  VariationTypeOK'
  BY <1>2 DEF SubmitVariation, VariationTypeOK, VariationRow
<1>3. ASSUME NEW p \in Deciders, NEW v \in VariationOrders, NEW b \in BOOLEAN,
             ReadVariation(p, v, b)
      PROVE  VariationTypeOK'
  BY <1>3 DEF ReadVariation, VariationTypeOK
<1>4. ASSUME NEW p \in Deciders, NEW v \in VariationOrders, deciding[p].of = v
      PROVE  /\ variation[v] \in VariationRow /\ variation[v].impact \in Int
             /\ \A s \in {"approved", "rejected"} :
                  [variation EXCEPT ![v].status = s] \in [VariationOrders -> VariationRow]
             /\ [deciding EXCEPT ![p] = NoDecision] \in
                  [Deciders -> [of : VariationOrders \cup {NoVariation}, approve : BOOLEAN]]
  BY VariationAssumption DEF VariationTypeOK, VariationRow, NoDecision
<1>5. ASSUME NEW p \in Deciders, ApproveVariation(p) PROVE VariationTypeOK'
  <2>1. PICK v \in VariationOrders : deciding[p].of = v
    BY <1>5 DEF ApproveVariation, VariationTypeOK
  <2>2. /\ budget' = budget + variation[v].impact
        /\ phaseBudget' = IF variation[v].phased THEN PhaseAfter(v) ELSE phaseBudget
        /\ variation' = [variation EXCEPT ![v].status = "approved"]
        /\ deciding' = [deciding EXCEPT ![p] = NoDecision] /\ UNCHANGED spent
    BY <1>5, <2>1 DEF ApproveVariation
  <2>3. variation[v].impact \in Int /\ phaseBudget \in Nat /\ budget \in Int
    BY <1>4, <2>1 DEF VariationTypeOK
  <2>4. PhaseAfter(v) \in Nat
    <3>1. \A a \in Int : a > 0 => a \in Nat OBVIOUS
    <3>2. phaseBudget + variation[v].impact \in Int BY <2>3
    <3>. QED BY <3>1, <3>2 DEF PhaseAfter
  <2>5. phaseBudget' \in Nat /\ budget' \in Int BY <2>2, <2>3, <2>4
  <2>. QED BY <1>4, <2>1, <2>2, <2>5 DEF VariationTypeOK
<1>6. ASSUME NEW p \in Deciders, RejectVariation(p) PROVE VariationTypeOK'
  <2>1. PICK v \in VariationOrders : deciding[p].of = v
    BY <1>6 DEF RejectVariation, VariationTypeOK
  <2>. QED BY <1>4, <1>6, <2>1 DEF RejectVariation, VariationTypeOK
<1>7. ASSUME NEW n \in Spends, SpendBudget(n) PROVE VariationTypeOK'
  BY <1>7, VariationAssumption DEF SpendBudget, VariationTypeOK
<1>. QED BY <1>1, <1>2, <1>3, <1>5, <1>6, <1>7 DEF VariationNext

\* Every variation is in its statuses with an impact its kind allows, and the
\* phase budget never goes below zero (variation.decide).
THEOREM VariationTypeCorrect == VariationSpec => []VariationTypeOK
<1>1. VariationInit => VariationTypeOK
  BY VariationAssumption
  DEF VariationInit, VariationTypeOK, VariationRow, NoDecision
<1>. QED BY <1>1, VariationTypeStep, PTL DEF VariationSpec

\* A decision in flight is the only thing that writes a submitted variation.
LEMMA DecisionHoldsStep ==
  ASSUME OneDecider, VariationTypeOK, DecisionHolds, [VariationNext]_variationVars
  PROVE  DecisionHolds'
<1>1. CASE UNCHANGED variationVars BY <1>1 DEF variationVars, DecisionHolds, AwaitsDecision
<1>2. ASSUME NEW v \in VariationOrders, NEW n \in Impacts, NEW ph \in BOOLEAN,
             SubmitVariation(v, n, ph)
      PROVE  DecisionHolds'
  BY <1>2 DEF SubmitVariation, VariationTypeOK, DecisionHolds, AwaitsDecision
<1>3. ASSUME NEW p \in Deciders, NEW v \in VariationOrders, NEW b \in BOOLEAN,
             ReadVariation(p, v, b)
      PROVE  DecisionHolds'
  BY <1>3 DEF ReadVariation, VariationTypeOK, DecisionHolds, AwaitsDecision
<1>4. ASSUME NEW p \in Deciders, ApproveVariation(p) \/ RejectVariation(p)
      PROVE  DecisionHolds'
  <2>1. deciding' = [deciding EXCEPT ![p] = NoDecision]
    BY <1>4 DEF ApproveVariation, RejectVariation
  <2>2. \A q \in Deciders : deciding'[q].of = NoVariation
    BY <2>1 DEF OneDecider, VariationTypeOK, NoDecision
  <2>. QED BY <2>2 DEF DecisionHolds
<1>5. ASSUME NEW n \in Spends, SpendBudget(n) PROVE DecisionHolds'
  BY <1>5 DEF SpendBudget, DecisionHolds, AwaitsDecision
<1>. QED BY <1>1, <1>2, <1>3, <1>4, <1>5 DEF VariationNext

\* The sum of the approved impacts, when the approved stay what they were.
LEMMA SumStays ==
  ASSUME IsFiniteSet(VariationOrders), VariationTypeOK, VariationTypeOK',
         NEW S \in SUBSET VariationOrders,
         \A v \in S : variation'[v].impact = variation[v].impact
  PROVE  SumImpacts'[S] = SumImpacts[S]
<1>1. IsSum(ImpactOf, SumImpacts) BY SumImpactsIsSum
<1>0. IsFiniteSet(VariationOrders)' OBVIOUS
<1>2. IsSum(ImpactOf, SumImpacts)' BY <1>0, SumImpactsIsSum, PTL
<1>3. ImpactOf \in [VariationOrders -> Int] /\ ImpactOf' \in [VariationOrders -> Int]
  <2>1. Impacts \cup {0} \subseteq Int BY VariationAssumption
  <2>2. \A v \in VariationOrders : variation[v].impact \in Int /\ variation'[v].impact \in Int
    BY <2>1 DEF VariationTypeOK, VariationRow
  <2>. QED BY <2>2 DEF ImpactOf
<1>4. \A v \in S : ImpactOf'[v] = ImpactOf[v] BY DEF ImpactOf
<1>. QED BY <1>1, <1>2, <1>3, <1>4, SumsAgree

LEMMA BudgetStep ==
  ASSUME IsFiniteSet(VariationOrders), OneDecider, VariationTypeOK, VariationTypeOK',
         DecisionHolds, BudgetIsApproved, [VariationNext]_variationVars
  PROVE  BudgetIsApproved'
<1>0. /\ Approved \in SUBSET VariationOrders /\ Approved' \in SUBSET VariationOrders
      /\ budget = Budget + SumImpacts[Approved]
      /\ BudgetIsApproved' <=> budget' = Budget + SumImpacts'[Approved']
  BY DEF Approved, BudgetIsApproved
<1>1. ASSUME Approved' = Approved, budget' = budget,
             \A v \in Approved : variation'[v].impact = variation[v].impact
      PROVE  BudgetIsApproved'
  BY <1>0, <1>1, SumStays
<1>2. CASE UNCHANGED <<variation, budget>>
  BY <1>1, <1>2 DEF Approved
<1>3. ASSUME NEW v \in VariationOrders, NEW n \in Impacts, NEW ph \in BOOLEAN,
             SubmitVariation(v, n, ph)
      PROVE  BudgetIsApproved'
  <2>1. /\ variation[v].status = "none" /\ budget' = budget
        /\ \A w \in VariationOrders : w # v => variation'[w] = variation[w]
        /\ variation'[v].status = "submitted"
    BY <1>3 DEF SubmitVariation, VariationTypeOK
  <2>. QED BY <1>1, <2>1 DEF Approved
<1>4. ASSUME NEW p \in Deciders, ApproveVariation(p) \/ RejectVariation(p)
      PROVE  BudgetIsApproved'
  <2>1. PICK v \in VariationOrders : deciding[p].of = v /\ variation[v].status = "submitted"
    BY <1>4 DEF ApproveVariation, RejectVariation, DecisionHolds, AwaitsDecision,
      VariationTypeOK
  <2>2. PICK s \in {"approved", "rejected"} :
          /\ variation' = [variation EXCEPT ![v].status = s]
          /\ budget' = IF s = "approved" THEN budget + variation[v].impact ELSE budget
    BY <1>4, <2>1 DEF ApproveVariation, RejectVariation
  <2>3. /\ \A w \in VariationOrders : w # v => variation'[w] = variation[w]
        /\ variation[v] \in VariationRow
        /\ variation'[v] = [variation[v] EXCEPT !.status = s]
    BY <2>2 DEF VariationTypeOK
  <2>4. variation'[v].status = s /\ variation'[v].impact = variation[v].impact
    BY <2>3 DEF VariationRow
  <2>5. CASE s = "rejected"
    BY <1>1, <2>1, <2>2, <2>3, <2>4, <2>5 DEF Approved
  <2>6. CASE s = "approved"
    <3>1. Approved' = Approved \cup {v} /\ v \notin Approved
      BY <2>1, <2>3, <2>4, <2>6 DEF Approved
    <3>2. SumImpacts'[Approved'] = SumImpacts[Approved']
      BY <1>0, <2>3, <2>4, SumStays
    <3>3. ImpactOf \in [VariationOrders -> Int]
      <4>1. Impacts \cup {0} \subseteq Int BY VariationAssumption
      <4>. QED BY <4>1 DEF ImpactOf, VariationTypeOK, VariationRow
    <3>4. /\ \A w \in Approved' :
               SumImpacts[Approved'] = ImpactOf[w] + SumImpacts[Approved' \ {w}]
          /\ SumImpacts[Approved] \in Int
      <4>1. IsSum(ImpactOf, SumImpacts) BY SumImpactsIsSum
      <4>2. \A S \in SUBSET VariationOrders :
              /\ SumImpacts[S] \in Int
              /\ \A w \in S : SumImpacts[S] = ImpactOf[w] + SumImpacts[S \ {w}]
        BY <3>3, <4>1, SumTakesAny
      <4>. QED BY <1>0, <4>2
    <3>5. SumImpacts[Approved'] = variation[v].impact + SumImpacts[Approved]
      <4>1. Approved' \ {v} = Approved /\ v \in Approved' BY <3>1
      <4>. QED BY <3>4, <4>1 DEF ImpactOf
    <3>6. variation[v].impact \in Int BY <3>3 DEF ImpactOf
    <3>7. Budget \in Int BY VariationAssumption
    <3>8. budget' = budget + variation[v].impact BY <2>2, <2>6
    <3>9. \A a, b, c \in Int : (a + b) + c = a + (c + b) OBVIOUS
    <3>. QED BY <1>0, <3>2, <3>4, <3>5, <3>6, <3>7, <3>8, <3>9
  <2>. QED BY <2>5, <2>6
<1>. QED
  BY <1>2, <1>3, <1>4 DEF VariationNext, variationVars, ReadVariation, SpendBudget

\* "Budget moves ONLY after client approval": with finitely many variations and
\* one decision at a time the budget is what it was and what was approved, in
\* any order of submissions, approvals, rejections and spends.
THEOREM BudgetIsAlwaysApproved ==
  ASSUME IsFiniteSet(VariationOrders), OneDecider
  PROVE  VariationSpec => []BudgetIsApproved
<1>1. VariationInit => DecisionHolds
  BY DEF VariationInit, DecisionHolds, NoDecision
<1>2. VariationInit => BudgetIsApproved
  <2> SUFFICES ASSUME VariationInit PROVE BudgetIsApproved OBVIOUS
  <2>1. {v \in VariationOrders : variation[v].status = "approved"} = {} /\ budget = Budget
    BY DEF VariationInit
  <2>2. SumImpacts[{}] = 0 BY SumImpactsIsSum DEF IsSum
  <2>. QED BY <2>1, <2>2, VariationAssumption DEF BudgetIsApproved
<1>3. VariationTypeOK /\ DecisionHolds /\ [VariationNext]_variationVars => DecisionHolds'
  BY DecisionHoldsStep
<1>4. /\ VariationTypeOK /\ VariationTypeOK' /\ DecisionHolds /\ BudgetIsApproved
      /\ [VariationNext]_variationVars
      => BudgetIsApproved'
  BY BudgetStep
<1>. QED BY <1>1, <1>2, <1>3, <1>4, VariationTypeCorrect, PTL DEF VariationSpec

-----------------------------------------------------------------------------
(* The three-way match.                                                    *)

\* What the match has found once the first lines are looked at, when g says so.
IsMatch(g) ==
  g = [n \in 0..Len(billed) |->
         IF n = 0 THEN [free |-> DOMAIN ordered, issues |-> {}]
         ELSE Match(g[n - 1], billed[n])]

LEMMA BillType ==
  ASSUME ThreeWayTypeOK
  PROVE  /\ Len(billed) \in Nat /\ DOMAIN billed = 1..Len(billed)
         /\ \A n \in 1..Len(billed) : billed[n] \in BillLine
         /\ DOMAIN ordered \subseteq Nat \ {0}
         /\ \A j \in DOMAIN ordered : ordered[j] \in GoodsLine
<1>1. billed \in Seq(BillLine) /\ ordered \in Seq(GoodsLine) BY DEF ThreeWayTypeOK
<1>2. /\ Len(billed) \in Nat /\ DOMAIN billed = 1..Len(billed)
      /\ \A n \in 1..Len(billed) : billed[n] \in BillLine
  BY <1>1, LenProperties, ElementOfSeq
<1>3. /\ Len(ordered) \in Nat /\ DOMAIN ordered = 1..Len(ordered)
      /\ \A n \in 1..Len(ordered) : ordered[n] \in GoodsLine
  BY <1>1, LenProperties, ElementOfSeq
<1>. QED BY <1>2, <1>3

LEMMA MatchedToIsMatch ==
  ASSUME ThreeWayTypeOK
  PROVE  IsMatch(MatchedTo)
<1>. DEFINE N == Len(billed)
            Body(g, n) == IF n = 0 THEN [free |-> DOMAIN ordered, issues |-> {}]
                          ELSE Match(g[n - 1], billed[n])
            Good(m) == \E g : /\ g = [n \in 0..N |-> g[n]]
                              /\ \A n \in 0..m : g[n] = Body(g, n)
            T == {m \in 0..N : Good(m)}
<1>0. N \in Nat BY BillType
<1>1. 0 \in T
  <2>. DEFINE g == [n \in 0..N |-> [free |-> DOMAIN ordered, issues |-> {}]]
  <2>1. g = [n \in 0..N |-> g[n]] OBVIOUS
  <2>2. \A n \in 0..0 : g[n] = Body(g, n) BY <1>0
  <2>. HIDE DEF g, Body
  <2>3. Good(0) BY <2>1, <2>2
  <2>. QED BY <1>0, <2>3
<1>2. ASSUME NEW m \in 0..(N - 1), Good(m) PROVE Good(m + 1)
  <2>1. PICK g : g = [n \in 0..N |-> g[n]] /\ \A n \in 0..m : g[n] = Body(g, n)
    BY <1>2
  <2>. DEFINE h == [n \in 0..N |-> Body(g, n)]
  <2>. HIDE DEF Body
  <2>2. h = [n \in 0..N |-> h[n]] OBVIOUS
  <2>3. \A n \in 0..m : h[n] = g[n] BY <1>0, <1>2, <2>1
  <2>4. ASSUME NEW n \in 0..(m + 1) PROVE h[n] = Body(h, n)
    <3>1. h[n] = Body(g, n) BY <1>0, <1>2, <2>4
    <3>2. n # 0 => n - 1 \in 0..m BY <1>0, <1>2, <2>4
    <3>3. n # 0 => h[n - 1] = g[n - 1] BY <2>3, <3>2
    <3>. QED BY <3>1, <3>3 DEF Body
  <2>. HIDE DEF h
  <2>. QED BY <2>2, <2>4
<1>. HIDE DEF Good
<1>3. \A m \in 0..(N - 1) : m \in T => m + 1 \in T BY <1>0, <1>2
<1>4. 0..N \subseteq T BY <1>0, <1>1, <1>3, UpTo
<1>5. PICK g : g = [n \in 0..N |-> g[n]] /\ \A n \in 0..N : g[n] = Body(g, n)
  <2>1. N \in T BY <1>0, <1>4
  <2>2. Good(N) BY <2>1
  <2>. HIDE DEF Body
  <2>. QED BY <2>2 DEF Good
<1>6. g = [n \in 0..N |-> Body(g, n)]
  <2>. HIDE DEF Body
  <2>. QED BY <1>5
<1>7. \E h : IsMatch(h) BY <1>6 DEF IsMatch
<1>. QED BY <1>7, Zenon DEF IsMatch, MatchedTo

LEMMA MatchSteps ==
  ASSUME ThreeWayTypeOK
  PROVE  /\ MatchedTo[0] = [free |-> DOMAIN ordered, issues |-> {}]
         /\ \A n \in 1..Len(billed) :
              MatchedTo[n] = Match(MatchedTo[n - 1], billed[n])
<1>1. MatchedTo = [n \in 0..Len(billed) |->
         IF n = 0 THEN [free |-> DOMAIN ordered, issues |-> {}]
         ELSE Match(MatchedTo[n - 1], billed[n])]
  BY MatchedToIsMatch DEF IsMatch
<1>2. Len(billed) \in Nat BY BillType
<1>3. MatchedTo[0] = [free |-> DOMAIN ordered, issues |-> {}] BY <1>1, <1>2
<1>4. ASSUME NEW n \in 1..Len(billed)
      PROVE  MatchedTo[n] = Match(MatchedTo[n - 1], billed[n])
  <2>1. n \in 0..Len(billed) /\ n # 0 BY <1>2
  <2>. QED BY <1>1, <2>1
<1>. QED BY <1>3, <1>4

\* What one more line does to what is free and what is said.
Looked(a, b, l) ==
  /\ l.name \in FeeNames =>
       b.free = a.free /\ b.issues = a.issues \cup FeeIssues(l)
  /\ l.name \notin FeeNames =>
       /\ b.free = a.free \ {Partner(a.free, l)}
       /\ b.issues = a.issues \cup Issues(l, Partner(a.free, l))

LEMMA OneLine ==
  ASSUME NEW a, NEW l, a = [free |-> a.free, issues |-> a.issues]
  PROVE  LET b == Match(a, l) IN
         /\ b = [free |-> b.free, issues |-> b.issues]
         /\ Looked(a, b, l)
<1>1. CASE l.name \in FeeNames
  <2>. DEFINE e == a.issues \cup FeeIssues(l)
  <2>1. Match(a, l) = [a EXCEPT !.issues = e] BY <1>1 DEF Match
  <2>2. [a EXCEPT !.issues = e] = [free |-> a.free, issues |-> e] OBVIOUS
  <2>. HIDE DEF e
  <2>3. Match(a, l).free = a.free /\ Match(a, l).issues = e BY <2>1, <2>2
  <2>. QED BY <1>1, <2>1, <2>2, <2>3 DEF e, Looked
<1>2. CASE l.name \notin FeeNames
  <2>. DEFINE j == Partner(a.free, l)
  <2>1. Match(a, l) = [free |-> a.free \ {j}, issues |-> a.issues \cup Issues(l, j)]
    BY <1>2 DEF Match, FreeAfter
  <2>. HIDE DEF j
  <2>. QED BY <1>2, <2>1 DEF j, Looked
<1>. QED BY <1>1, <1>2

LEMMA MatchIsRecord ==
  ASSUME ThreeWayTypeOK, NEW n \in 0..Len(billed)
  PROVE  /\ MatchedTo[n] = [free |-> MatchedTo[n].free, issues |-> MatchedTo[n].issues]
         /\ MatchedTo[n].free \subseteq DOMAIN ordered
<1>. DEFINE Rec(m) == LET a == MatchedTo[m] IN
              a = [free |-> a.free, issues |-> a.issues] /\ a.free \subseteq DOMAIN ordered
            N == Len(billed)
            T == {m \in 0..N : Rec(m)}
<1>0. N \in Nat BY BillType
<1>1. Rec(0) BY MatchSteps
<1>2. ASSUME NEW m \in 0..(N - 1), Rec(m) PROVE Rec(m + 1)
  <2>1. m + 1 \in 1..N /\ (m + 1) - 1 = m BY <1>0
  <2>. DEFINE a == MatchedTo[m]
              b == MatchedTo[m + 1]
              l == billed[m + 1]
  <2>2. b = Match(a, l)
    <3>1. MatchedTo[m + 1] = Match(MatchedTo[(m + 1) - 1], billed[m + 1]) BY <2>1, MatchSteps
    <3>. QED BY <2>1, <3>1
  <2>3. a = [free |-> a.free, issues |-> a.issues] /\ a.free \subseteq DOMAIN ordered BY <1>2
  <2>. HIDE DEF a, b, l
  <2>4. b = [free |-> b.free, issues |-> b.issues] /\ b.free \subseteq a.free
    BY <2>2, <2>3, OneLine DEF Looked
  <2>. QED BY <2>3, <2>4 DEF b
<1>. HIDE DEF Rec
<1>3. \A m \in 0..(N - 1) : m \in T => m + 1 \in T BY <1>0, <1>2
<1>4. 0 \in T BY <1>0, <1>1
<1>5. 0..N \subseteq T BY <1>0, <1>3, <1>4, UpTo
<1>. QED BY <1>5 DEF Rec

LEMMA OneMoreLine ==
  ASSUME ThreeWayTypeOK, NEW n \in 1..Len(billed)
  PROVE  \E a, b, l :
           /\ a = MatchedTo[n - 1] /\ b = MatchedTo[n] /\ l = billed[n]
           /\ Looked(a, b, l) /\ a.free \subseteq DOMAIN ordered
<1>1. PICK a, b, l : a = MatchedTo[n - 1] /\ b = MatchedTo[n] /\ l = billed[n]
  OBVIOUS
<1>2. b = Match(a, l) BY <1>1, MatchSteps
<1>3. n - 1 \in 0..Len(billed) BY BillType
<1>4. a = [free |-> a.free, issues |-> a.issues] /\ a.free \subseteq DOMAIN ordered
  BY <1>1, <1>3, MatchIsRecord
<1>. QED BY <1>1, <1>2, <1>4, OneLine

\* What is free only shrinks, and what has been said stays said.
LEMMA MatchGoesOn ==
  ASSUME ThreeWayTypeOK, NEW k \in 0..Len(billed), NEW m \in k..Len(billed)
  PROVE  /\ MatchedTo[m].free \subseteq MatchedTo[k].free
         /\ MatchedTo[k].issues \subseteq MatchedTo[m].issues
<1>. DEFINE N == Len(billed)
            Later(i) == /\ MatchedTo[i].free \subseteq MatchedTo[k].free
                        /\ MatchedTo[k].issues \subseteq MatchedTo[i].issues
            T == {d \in 0..(N - k) : Later(k + d)}
<1>0. N \in Nat /\ k \in 0..N BY BillType
<1>1. Later(k + 0) OBVIOUS
<1>2. ASSUME NEW d \in 0..((N - k) - 1), Later(k + d) PROVE Later(k + (d + 1))
  <2>. DEFINE n == k + (d + 1)
  <2>1. n \in 1..N /\ n - 1 = k + d BY <1>0
  <2>2. \A i : i = k + d => Later(i) BY <1>2
  <2>. HIDE DEF n
  <2>3. /\ MatchedTo[n].free \subseteq MatchedTo[n - 1].free
        /\ MatchedTo[n - 1].issues \subseteq MatchedTo[n].issues
    <3>1. PICK a, b, l :
            /\ a = MatchedTo[n - 1] /\ b = MatchedTo[n] /\ l = billed[n]
            /\ Looked(a, b, l) /\ a.free \subseteq DOMAIN ordered
      BY <2>1, OneMoreLine
    <3>2. b.free \subseteq a.free /\ a.issues \subseteq b.issues BY <3>1 DEF Looked
    <3>. QED BY <3>1, <3>2
  <2>4. Later(n - 1) BY <2>1, <2>2
  <2>5. Later(n) BY <2>3, <2>4
  <2>. QED BY <2>5 DEF n
<1>. HIDE DEF Later
<1>3. \A d \in 0..((N - k) - 1) : d \in T => d + 1 \in T BY <1>0, <1>2
<1>4. N - k \in Nat /\ m - k \in 0..(N - k) /\ k + (m - k) = m BY <1>0
<1>5. 0 \in T BY <1>1, <1>4
<1>6. 0..(N - k) \subseteq T BY <1>3, <1>4, <1>5, UpTo
<1>7. Later(k + (m - k)) BY <1>4, <1>6
<1>8. Later(m) BY <1>4, <1>7
<1>. QED BY <1>8 DEF Later

\* The first of a set of order lines is one of them.
LEMMA FirstIsThere ==
  ASSUME NEW S, S \subseteq Nat, S # {}
  PROVE  Min(S) \in S
<1>1. \E x \in S : \A y \in S : x <= y BY SmallestOf
<1>. QED BY <1>1 DEF Min

\* An order line that is compared without a word is free, of the name, and as
\* billed and brought.
LEMMA NothingSaid ==
  ASSUME ThreeWayTypeOK, NEW free, free \subseteq DOMAIN ordered, NEW l \in BillLine,
         Issues(l, Partner(free, l)) = {}
  PROVE  LET j == Partner(free, l) IN
         /\ j \in free /\ l = ordered[j]
         /\ arrived # <<>> /\ Received(j) = l.qty
<1>. DEFINE j == Partner(free, l)
            named == {i \in free : ordered[i].name = l.name}
<1>1. j = IF named # {} THEN Min(named) ELSE IF free # {} THEN Min(free) ELSE 0
  BY DEF Partner
<1>2. named \subseteq Nat /\ free \subseteq Nat /\ named \subseteq free BY BillType
<1>3. j \in free \/ j = 0
  <2>1. named # {} => Min(named) \in named BY <1>2, FirstIsThere
  <2>2. free # {} => Min(free) \in free BY <1>2, FirstIsThere
  <2>. HIDE DEF named, j
  <2>. QED BY <1>1, <1>2, <2>1, <2>2
<1>. HIDE DEF j
<1>4. Issues(l, j) = {} BY DEF j
<1>5. j # 0 /\ ordered[j].name = l.name /\ ordered[j].qty = l.qty
      /\ arrived # <<>> /\ Received(j) = l.qty
  BY <1>4 DEF Issues
<1>6. j \in free /\ ordered[j] \in GoodsLine BY <1>3, <1>5, BillType
<1>7. l = ordered[j] BY <1>5, <1>6 DEF GoodsLine, BillLine
<1>. QED BY <1>5, <1>6, <1>7 DEF j

\* A match that lists nothing is backed, line by line, by what it compared with.
LEMMA NothingListed ==
  ASSUME ThreeWayTypeOK, Mismatches = {}
  PROVE  Backed
<1>. DEFINE N == Len(billed)
            Pair == [k \in BilledGoods |-> Partner(MatchedTo[k - 1].free, billed[k])]
<1>0. N \in Nat /\ BilledGoods \subseteq 1..N BY BillType DEF BilledGoods
<1>1. ASSUME NEW k \in 0..N PROVE MatchedTo[k].issues = {}
  <2>1. N \in k..N BY <1>0
  <2>2. MatchedTo[k].issues \subseteq MatchedTo[N].issues BY <2>1, MatchGoesOn
  <2>. QED BY <2>2 DEF Mismatches
<1>2. ASSUME NEW k \in 1..N
      PROVE  /\ billed[k].name \in FeeNames => FeeIssues(billed[k]) = {}
             /\ billed[k].name \notin FeeNames =>
                  /\ MatchedTo[k].free = MatchedTo[k - 1].free
                       \ {Partner(MatchedTo[k - 1].free, billed[k])}
                  /\ Issues(billed[k], Partner(MatchedTo[k - 1].free, billed[k])) = {}
             /\ MatchedTo[k - 1].free \subseteq DOMAIN ordered
  <2>1. PICK a, b, l :
          /\ a = MatchedTo[k - 1] /\ b = MatchedTo[k] /\ l = billed[k]
          /\ Looked(a, b, l) /\ a.free \subseteq DOMAIN ordered
    BY OneMoreLine
  <2>3. k \in 0..N BY <1>0
  <2>4. b.issues = {} BY <1>1, <2>1, <2>3
  <2>5. /\ l.name \in FeeNames => FeeIssues(l) = {}
        /\ l.name \notin FeeNames => Issues(l, Partner(a.free, l)) = {}
    BY <2>1, <2>4 DEF Looked
  <2>. QED BY <2>1, <2>5 DEF Looked
<1>3. \A k \in BilledGoods : billed[k].name \notin FeeNames /\ billed[k] \in BillLine
  BY <1>0, BillType, ThreeWayAssumption DEF BilledGoods
<1>4. \A k \in BilledGoods :
        /\ Pair[k] \in MatchedTo[k - 1].free /\ Pair[k] \in DOMAIN ordered
        /\ billed[k] = ordered[Pair[k]]
        /\ arrived # <<>> /\ Received(Pair[k]) = billed[k].qty
  <2>. TAKE k \in BilledGoods
  <2>. DEFINE F == MatchedTo[k - 1].free
  <2>1. k \in 1..N BY <1>0
  <2>2. F \subseteq DOMAIN ordered /\ Issues(billed[k], Partner(F, billed[k])) = {}
    BY <1>2, <1>3, <2>1
  <2>. HIDE DEF F
  <2>3. LET j == Partner(F, billed[k]) IN
          /\ j \in F /\ billed[k] = ordered[j]
          /\ arrived # <<>> /\ Received(j) = billed[k].qty
    BY <1>3, <2>2, NothingSaid
  <2>. QED BY <2>2, <2>3 DEF F
<1>5. ASSUME NEW k \in BilledGoods, NEW m \in BilledGoods, k < m PROVE Pair[k] # Pair[m]
  <2>1. k \in 0..N /\ m - 1 \in k..N /\ k \in 1..N BY <1>0, <1>5
  <2>2. MatchedTo[m - 1].free \subseteq MatchedTo[k].free BY <2>1, MatchGoesOn
  <2>3. Pair[k] \notin MatchedTo[k].free BY <1>2, <1>3, <2>1
  <2>. HIDE DEF Pair
  <2>. QED BY <1>4, <2>2, <2>3
<1>6. Pair \in [BilledGoods -> DOMAIN ordered] BY <1>4
<1>. HIDE DEF Pair
<1>7. \A k, m \in BilledGoods : Pair[k] = Pair[m] => k = m
  <2>1. \A k, m \in BilledGoods : k = m \/ k < m \/ m < k BY <1>0
  <2>. QED BY <1>5, <2>1
<1>8. Backing(Pair) BY <1>4, <1>7 DEF Backing
<1>9. FeesAgree
  <2>. SUFFICES ASSUME NEW k \in DOMAIN billed \ BilledGoods
                PROVE  fee = 0 \/ billed[k].qty = fee
    BY DEF FeesAgree
  <2>1. k \in 1..N /\ billed[k] \in BillLine BY BillType
  <2>2. billed[k].name \in FeeNames BY <2>1 DEF BilledGoods, BillLine
  <2>3. FeeIssues(billed[k]) = {} BY <1>2, <2>1, <2>2
  <2>. QED BY <2>3 DEF FeeIssues, ThreeWayTypeOK
<1>. QED BY <1>6, <1>8, <1>9 DEF Backed

\* An invoice that is backed by an order whose lines are named apart is paired
\* with what backs it: each line finds its partner, and nothing is said.
LEMMA BackedIsSilent ==
  ASSUME ThreeWayTypeOK, Backed, DistinctNames
  PROVE  Mismatches = {}
<1>. DEFINE N == Len(billed)
<1>0. N \in Nat /\ BilledGoods \subseteq 1..N BY BillType DEF BilledGoods
<1>1. PICK pair \in [BilledGoods -> DOMAIN ordered] : Backing(pair) /\ FeesAgree
  BY DEF Backed
<1>. DEFINE Taken(n) == {pair[k] : k \in {i \in BilledGoods : i <= n}}
            Quiet(n) == /\ MatchedTo[n].issues = {}
                        /\ MatchedTo[n].free = DOMAIN ordered \ Taken(n)
            T == {n \in 0..N : Quiet(n)}
<1>2. Quiet(0)
  <2>1. Taken(0) = {} BY <1>0
  <2>. HIDE DEF Taken
  <2>. QED BY <2>1, MatchSteps
<1>3. ASSUME NEW m \in 0..(N - 1), Quiet(m) PROVE Quiet(m + 1)
  <2>. DEFINE n == m + 1
  <2>1. n \in 1..N /\ n - 1 = m BY <1>0
  <2>2. \A k \in BilledGoods : k <= n <=> k <= m \/ k = n BY <1>0
  <2>. HIDE DEF n
  <2>3. PICK a, b, l :
          /\ a = MatchedTo[n - 1] /\ b = MatchedTo[n] /\ l = billed[n]
          /\ Looked(a, b, l) /\ a.free \subseteq DOMAIN ordered
    BY <2>1, OneMoreLine
  <2>5. a.issues = {} /\ a.free = DOMAIN ordered \ Taken(m) BY <1>3, <2>1, <2>3
  <2>6. l \in BillLine /\ n \in DOMAIN billed BY <2>1, <2>3, BillType
  <2>7. CASE l.name \in FeeNames
    <3>1. n \notin BilledGoods BY <2>3, <2>7, ThreeWayAssumption DEF BilledGoods
    <3>2. Taken(n) = Taken(m) BY <2>2, <3>1
    <3>3. FeeIssues(l) = {} BY <1>1, <2>3, <2>6, <3>1 DEF FeesAgree, FeeIssues
    <3>. HIDE DEF Taken
    <3>4. b.free = DOMAIN ordered \ Taken(n) /\ b.issues = {}
      BY <2>3, <2>5, <2>7, <3>2, <3>3 DEF Looked
    <3>. QED BY <2>3, <3>4 DEF n
  <2>8. CASE l.name \notin FeeNames
    <3>1. n \in BilledGoods BY <2>3, <2>6, <2>8 DEF BilledGoods, BillLine
    <3>2. Taken(n) = Taken(m) \cup {pair[n]} BY <2>2, <3>1
    <3>3. pair[n] \in a.free
      <4>1. \A k \in BilledGoods : k <= m => pair[k] # pair[n]
        <5>1. \A k \in BilledGoods : k <= m => k # n BY <1>0, <2>1
        <5>. QED BY <1>1, <3>1, <5>1 DEF Backing
      <4>. QED BY <1>1, <2>5, <3>1, <4>1
    <3>4. /\ l = ordered[pair[n]] /\ arrived # <<>> /\ Received(pair[n]) = l.qty
      BY <1>1, <2>3, <3>1 DEF Backing
    <3>5. {j \in a.free : ordered[j].name = l.name} = {pair[n]}
      BY <2>3, <3>3, <3>4 DEF DistinctNames
    <3>6. Partner(a.free, l) = pair[n]
      <4>1. pair[n] \in Nat BY <2>3, <3>3, BillType
      <4>2. Min({pair[n]}) \in {pair[n]} BY <4>1, FirstIsThere
      <4>. QED BY <3>5, <4>2 DEF Partner
    <3>7. Issues(l, pair[n]) = {}
      <4>1. pair[n] # 0 BY <2>3, <3>3, BillType
      <4>. QED BY <3>4, <4>1 DEF Issues
    <3>. HIDE DEF Taken
    <3>8. b.free = DOMAIN ordered \ Taken(n) /\ b.issues = {}
      BY <2>3, <2>5, <2>8, <3>2, <3>6, <3>7 DEF Looked
    <3>. QED BY <2>3, <3>8 DEF n
  <2>. QED BY <2>7, <2>8
<1>. HIDE DEF Quiet
<1>4. \A n \in 0..(N - 1) : n \in T => n + 1 \in T BY <1>0, <1>3
<1>5. 0 \in T BY <1>0, <1>2
<1>6. 0..N \subseteq T BY <1>0, <1>4, <1>5, UpTo
<1>7. Quiet(N) BY <1>0, <1>6
<1>. QED BY <1>7 DEF Quiet, Mismatches

LEMMA MatchHolds == ThreeWayTypeOK => MatchIsRight
BY NothingListed, BackedIsSilent DEF MatchIsRight

\* A dispatch adds a delivery without lines, and a receipt fills one in.
LEMMA ArrivalTypes ==
  ThreeWayTypeOK /\ [ThreeWayNext]_threeWayVars => ThreeWayTypeOK'
<1>. DEFINE Got == [DOMAIN ordered -> Nat]
<1>. SUFFICES ASSUME ThreeWayTypeOK, [ThreeWayNext]_threeWayVars PROVE ThreeWayTypeOK'
  OBVIOUS
<1>1. UNCHANGED <<ordered, fee, billed>> /\ arrived \in Seq(Got)
  BY DEF ThreeWayNext, DispatchGoods, ReceiveGoods, threeWayVars, ThreeWayTypeOK
<1>2. arrived' \in Seq(Got)
  <2>1. CASE UNCHANGED threeWayVars BY <1>1, <2>1 DEF threeWayVars
  <2>2. CASE DispatchGoods
    <3>1. [j \in DOMAIN ordered |-> 0] \in Got OBVIOUS
    <3>2. arrived' = Append(arrived, [j \in DOMAIN ordered |-> 0])
      BY <2>2 DEF DispatchGoods
    <3>. HIDE DEF Got
    <3>. QED BY <1>1, <3>1, <3>2
  <2>3. ASSUME NEW d \in DOMAIN arrived, ReceiveGoods(d) PROVE arrived' \in Seq(Got)
    <3>1. PICK got \in [DOMAIN ordered -> Qtys \cup {0}] :
            arrived' = [arrived EXCEPT ![d] = got]
      BY <2>3 DEF ReceiveGoods
    <3>2. got \in Got BY <3>1, ThreeWayAssumption
    <3>. HIDE DEF Got
    <3>. QED BY <1>1, <3>1, <3>2
  <2>. QED BY <2>1, <2>2, <2>3 DEF ThreeWayNext
<1>. QED BY <1>1, <1>2 DEF ThreeWayTypeOK

\* An invoice and an order have goods, fees and quantities for lines.
LEMMA MatchInitTypes == ThreeWayInit => ThreeWayTypeOK
<1>. SUFFICES ASSUME ThreeWayInit PROVE ThreeWayTypeOK OBVIOUS
<1>1. \A S, n : n \in Nat => BoundedSeq(S, n) \subseteq Seq(S)
  BY SeqDef DEF BoundedSeq, SeqOf
<1>2. ordered \in Seq(GoodsLine) /\ billed \in Seq(BillLine)
  BY <1>1, ThreeWayAssumption DEF ThreeWayInit
<1>3. fee \in Nat /\ arrived \in Seq([DOMAIN ordered -> Nat])
  BY ThreeWayAssumption DEF ThreeWayInit
<1>. QED BY <1>2, <1>3 DEF ThreeWayTypeOK

\* Deliveries arrive under the order they belong to, line by line.
THEOREM ThreeWayTypeCorrect == ThreeWaySpec => []ThreeWayTypeOK
BY MatchInitTypes, ArrivalTypes, PTL DEF ThreeWaySpec

\* For any invoice, order and deliveries: a match that lists nothing is right,
\* and an invoice that is right has nothing listed, if the order names its
\* lines apart (matchThreeWay).
THEOREM MatchIsAlwaysRight == ThreeWaySpec => []MatchIsRight
BY ThreeWayTypeCorrect, MatchHolds, PTL

-----------------------------------------------------------------------------
(* All of them side by side.                                               *)

\* A step of the whole is a step of each component, or leaves it alone.
LEMMA OfficeSteps ==
  ASSUME [MCNext]_officeVars
  PROVE  /\ [Next]_vars /\ [StoreNext]_storeVars /\ [VariationNext]_variationVars
         /\ [RateNext]_rateVars /\ [LockoutNext]_lockoutVars /\ [TablesNext]_tablesVars
         /\ [ThreeWayNext]_threeWayVars
<1>1. CASE MCNext
  <2>1. focus = "procurement" \/ UNCHANGED vars BY <1>1 DEF MCNext, Stays
  <2>2. focus = "store" \/ UNCHANGED storeVars BY <1>1 DEF MCNext, Stays
  <2>3. focus = "variations" \/ UNCHANGED variationVars BY <1>1 DEF MCNext, Stays
  <2>4. focus = "rate" \/ UNCHANGED rateVars BY <1>1 DEF MCNext, Stays
  <2>5. focus = "lockout" \/ UNCHANGED lockoutVars BY <1>1 DEF MCNext, Stays
  <2>6. focus = "tables" \/ UNCHANGED tablesVars BY <1>1 DEF MCNext, Stays
  <2>7. focus = "match" \/ UNCHANGED threeWayVars BY <1>1 DEF MCNext, Stays
  <2>8. /\ focus = "procurement" => Next
        /\ focus = "store" => StoreNext
        /\ focus = "variations" => VariationNext
        /\ focus = "rate" => RateNext
        /\ focus = "lockout" => LockoutNext
        /\ focus = "tables" => TablesNext
        /\ focus = "match" => ThreeWayNext
    BY <1>1 DEF MCNext
  <2>. QED BY <2>1, <2>2, <2>3, <2>4, <2>5, <2>6, <2>7, <2>8
<1>2. CASE UNCHANGED officeVars BY <1>2 DEF officeVars
<1>. QED BY <1>1, <1>2

\* What is not in focus has nothing to match, and that is of its type.
LEMMA StillTypes == Still => ThreeWayTypeOK
BY DEF Still, ThreeWayTypeOK

\* Seen from a component, a behaviour of the whole is one of its own; the match,
\* which may also have nothing to do, keeps its types.
LEMMA OfficeRunsEach ==
  MCSpec => /\ Spec /\ StoreSpec /\ VariationSpec /\ RateSpec /\ LockoutSpec /\ TablesSpec
            /\ []ThreeWayTypeOK
<1>1. MCInit => /\ Init /\ StoreInit /\ VariationInit /\ RateInit /\ LockoutInit /\ TablesInit
                /\ ThreeWayTypeOK
  BY MatchInitTypes, StillTypes DEF MCInit
<1>. QED
  BY <1>1, OfficeSteps, ArrivalTypes, PTL
  DEF MCSpec, Spec, StoreSpec, VariationSpec, RateSpec, LockoutSpec, TablesSpec

\* The components keep their types side by side: each keeps its own, and no
\* step of one touches a variable of another.
THEOREM OfficeTypeCorrect == MCSpec => []BackOfficeTypeOK
<1>. QED
  BY OfficeRunsEach, ProcurementTypes, StoreTypeCorrect, VariationTypeCorrect,
     RateTypeCorrect, LockoutTypeCorrect, TablesTypeCorrect, PTL DEF BackOfficeTypeOK

\* What the run asks of the composition holds for any number of requests,
\* orders, items, accounts, requests in flight and lines: of the procurement if
\* claims overlap with claims only and the work on a request is one at a time,
\* and of the budgets if there is one decider (supply/service.ts, mjengo.ts,
\* money.ts, rate-limit-sqlite.ts, auth.ts, three-way.ts, migration 14).
THEOREM OfficeIsSafe ==
  ASSUME ClaimsApart, RequestsSerial, IsFiniteSet(VariationOrders), OneDecider
  PROVE  MCSpec => /\ [](CancelledNeverStocked /\ SignedOff /\ SubmittedIsDecidable)
                   /\ OrderPromise
                   /\ [](BookExplained /\ LowIsAnnounced)
                   /\ []BudgetIsApproved
                   /\ []BurstIsBounded
                   /\ []GuessesAreBounded /\ LockIsKept
                   /\ []RecordsBalance /\ HistoryIsFixed
                   /\ []MatchIsRight
<1>1. Spec => [](CancelledNeverStocked /\ SignedOff /\ SubmittedIsDecidable)
  BY CancelledAreNeverStocked, ApprovedAreSigned, SubmittedStaysDecidable, PTL
<1>2. Spec => OrderPromise BY OrdersKeepTheirPromise
<1>3. StoreSpec => [](BookExplained /\ LowIsAnnounced)
  BY BookAlwaysExplained, LowAlwaysAnnounced, PTL
<1>4. VariationSpec => []BudgetIsApproved BY BudgetIsAlwaysApproved
<1>5. []ThreeWayTypeOK => []MatchIsRight BY MatchHolds, PTL
<1>. QED
  BY <1>1, <1>2, <1>3, <1>4, <1>5, OfficeRunsEach, BurstsAlwaysBounded, GuessesAlwaysBounded,
     LocksAreKept, RecordsAlwaysBalance, HistoryIsAlwaysFixed, PTL
=============================================================================
