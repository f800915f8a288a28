----------------------------- MODULE Settlement -----------------------------
(***************************************************************************)
(* What the M-Pesa rail promises of payment requests to those who approve  *)
(* them and to those who keep the books, whatever callbacks, sweeps and    *)
(* pay calls race, are repeated, or die halfway:                           *)
(*                                                                         *)
(*   - a request is decided once, and paid only as approved, only once,    *)
(*     for good;                                                           *)
(*   - a push is credited after its customer has paid it, to the request   *)
(*     it was made for;                                                    *)
(*   - a push is known to be dealt with only after it is credited.         *)
(*                                                                         *)
(* The detailed specification that implements it is DarajaRail, as long as *)
(* one decision is under way at a time.                                    *)
(***************************************************************************)
CONSTANTS
  Requests,
  Pushes,
  NoRequest           \* what a push that was not made is for

VARIABLES
  standing,           \* per request: pending, approved, rejected or paid
  for,                \* the request a push was made for
  taken,              \* the pushes whose customer has paid
  credited,           \* which pushes were booked for which requests
  direct,             \* the requests that were paid by other means
  known               \* the pushes that are dealt with

vars == <<standing, for, taken, credited, direct, known>>

Init ==
  /\ standing = [r \in Requests |-> "pending"]
  /\ for = [c \in Pushes |-> NoRequest]
  /\ taken = {} /\ credited = {} /\ direct = {} /\ known = {}

Decide(r) ==
  /\ standing[r] = "pending"
  /\ \E decision \in {"approved", "rejected"} :
       standing' = [standing EXCEPT ![r] = decision]
  /\ UNCHANGED <<for, taken, credited, direct, known>>

Push(c, r) ==
  /\ for[c] = NoRequest
  /\ for' = [for EXCEPT ![c] = r]
  /\ UNCHANGED <<standing, taken, credited, direct, known>>

Take(c) ==
  /\ for[c] \in Requests
  /\ taken' = taken \cup {c}
  /\ UNCHANGED <<standing, for, credited, direct, known>>

Settled(r) ==
  /\ standing[r] = "approved"
  /\ standing' = [standing EXCEPT ![r] = "paid"]

Credit(c) ==
  /\ c \in taken
  /\ Settled(for[c])
  /\ credited' = credited \cup {<<c, for[c]>>}
  /\ UNCHANGED <<for, taken, direct, known>>

PayDirect(r) ==
  /\ Settled(r)
  /\ direct' = direct \cup {r}
  /\ UNCHANGED <<for, taken, credited, known>>

Know(c) ==
  /\ \E r \in Requests : <<c, r>> \in credited
  /\ known' = known \cup {c}
  /\ UNCHANGED <<standing, for, taken, credited, direct>>

Next ==
  \/ \E r \in Requests : Decide(r) \/ PayDirect(r)
  \/ \E c \in Pushes : Take(c) \/ Credit(c) \/ Know(c) \/ \E r \in Requests : Push(c, r)

Spec == Init /\ [][Next]_vars
=============================================================================
