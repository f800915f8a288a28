------------------------------ MODULE Lockout ------------------------------
(***************************************************************************)
(* The login lockout (src/backend/lib/rate-limit.ts, createLoginLockout,   *)
(* and authorize in src/backend/lib/auth.ts).  Its three calls do not wait *)
(* and are one step each.                                                  *)
(*                                                                         *)
(* An attempt is checked, waits for the user row, and is recorded as a     *)
(* failure or clears the counts: two steps, between which others run.  An  *)
(* account is counted alone ("email") and with the source ("pair").        *)
(*                                                                         *)
(* The window and the lock have the same length in the code, and here.     *)
(***************************************************************************)
EXTENDS Integers, FiniteSets

CONSTANTS
  Emails, Sources,
  Anywhere,           \* the source in the key of an account's own tracker
  NoTracker,
  Logins,             \* attempts that can be in flight at once
  FailureLimit,       \* LOGIN_FAILURE_LIMIT
  LockTicks,          \* LOGIN_WINDOW_MS and LOGIN_LOCKOUT_MS
  MaxTime             \* bound: ticks of a behaviour

ASSUME LockoutAssumption ==
  /\ Anywhere \notin Sources
  /\ NoTracker \notin [failures : Nat, last : Nat, until : Nat]
  /\ IsFiniteSet(Logins)
  /\ FailureLimit \in Nat \ {0} /\ LockTicks \in Nat \ {0}
  /\ MaxTime \in Nat \ {0}

VARIABLES
  time,
  tracker,            \* per key: no row, or failures, last failure, lockedUntil
  login               \* per attempt in flight: the keys it is counted under

lockoutVars == <<time, tracker, login>>

KeyOf(e, s) == <<e, s>>
TrackerKeys == Emails \X (Sources \cup {Anywhere})

\* probes: the account's own key and the pair's.
Probes(e, s) == {KeyOf(e, Anywhere), KeyOf(e, s)}

Tracker == [failures : Nat, last : 0..MaxTime, until : Nat]

LockoutTypeOK ==
  /\ time \in 0..MaxTime
  /\ \A k \in TrackerKeys : tracker[k] # NoTracker => tracker[k] \in Tracker
  /\ login \in [Logins -> {{}} \cup {Probes(e, s) : e \in Emails, s \in Sources}]

LockoutInit ==
  /\ time = 1
  /\ tracker = [k \in TrackerKeys |-> NoTracker]
  /\ login = [a \in Logins |-> {}]

-----------------------------------------------------------------------------
Locked(k) == tracker[k] # NoTracker /\ tracker[k].until > time

\* A lock that has been set and is over.
Served(k) == tracker[k] # NoTracker /\ tracker[k].until \in 1..time

\* checkLoginLockout: served locks are deleted, the attempt goes on if no
\* lock is left.
Check(a, e, s) ==
  /\ login[a] = {}
  /\ tracker' = [k \in TrackerKeys |->
       IF k \in Probes(e, s) /\ Served(k) THEN NoTracker ELSE tracker[k]]
  /\ login' = [login EXCEPT ![a] =
       IF \E k \in Probes(e, s) : Locked(k) THEN {} ELSE Probes(e, s)]
  /\ UNCHANGED time

\* The failures counted once one more is recorded now.
Failures(k) ==
  IF tracker[k] = NoTracker \/ time - tracker[k].last > LockTicks THEN 1
  ELSE tracker[k].failures + 1

Until(k) == IF tracker[k] = NoTracker THEN 0 ELSE tracker[k].until

\* fault: the lock starts when the limit has been passed.
LockFromLate(k) ==
  IF Failures(k) > FailureLimit /\ Until(k) = 0 THEN time + LockTicks ELSE Until(k)

\* The lock starts at the failure that reaches the limit, and only then.
LockFrom(k) ==
  IF Failures(k) >= FailureLimit /\ Until(k) = 0 THEN time + LockTicks ELSE Until(k)

\* recordLoginFailure: both trackers in one transaction of the store.
Fail(a) ==
  /\ login[a] # {}
  /\ tracker' = [k \in TrackerKeys |->
       IF k \in login[a] THEN [failures |-> Failures(k), last |-> time,
                               until |-> LockFrom(k)]
       ELSE tracker[k]]
  /\ login' = [login EXCEPT ![a] = {}]
  /\ UNCHANGED time

\* clearLoginFailures.
Succeed(a) ==
  /\ login[a] # {}
  /\ tracker' = [k \in TrackerKeys |-> IF k \in login[a] THEN NoTracker ELSE tracker[k]]
  /\ login' = [login EXCEPT ![a] = {}]
  /\ UNCHANGED time

\* fault: whatever has not failed for a while goes, locked or not.
PrunableCold(k) == tracker[k] # NoTracker /\ time > tracker[k].last

\* The lock is served, or there is none, and the window is cold.
Prunable(k) ==
  /\ tracker[k] # NoTracker /\ ~Locked(k)
  /\ time - tracker[k].last > LockTicks

\* pruneTrackers.
Prune ==
  /\ tracker' = [k \in TrackerKeys |-> IF Prunable(k) THEN NoTracker ELSE tracker[k]]
  /\ UNCHANGED <<time, login>>

Pass ==
  /\ time < MaxTime
  /\ time' = time + 1
  /\ UNCHANGED <<tracker, login>>

LockoutNext ==
  \/ \E a \in Logins : \/ \E e \in Emails, s \in Sources : Check(a, e, s)
                       \/ Fail(a) \/ Succeed(a)
  \/ Prune \/ Pass

LockoutSpec == LockoutInit /\ [][LockoutNext]_lockoutVars

-----------------------------------------------------------------------------
\* No more failures are counted against an account than the limit and the
\* attempts that were in flight when it was reached, from whatever sources
\* they come and however they interleave with successes and pruning.
GuessesAreBounded ==
  \A k \in TrackerKeys : tracker[k] # NoTracker =>
    tracker[k].failures < FailureLimit + Cardinality(Logins)

\* A lock, once set, is kept: failures recorded during it make it no longer,
\* so that it ends on time, and before that it goes only when an attempt that
\* was let in before it was set succeeds; pruning leaves it alone.
LockStays(k) ==
  Locked(k) => \/ tracker'[k] # NoTracker /\ tracker'[k].until = tracker[k].until
               \/ /\ tracker'[k] = NoTracker
                  /\ \E a \in Logins : k \in login[a] /\ login'[a] = {}

LockIsKept == [][\A k \in TrackerKeys : LockStays(k)]_lockoutVars
=============================================================================
