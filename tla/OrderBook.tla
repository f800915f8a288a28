----------------------------- MODULE OrderBook -----------------------------
(***************************************************************************)
(* What the supply chain promises of its purchase orders to those who pay  *)
(* for them and to the site store, whatever its operations do to one       *)
(* another on the way:                                                     *)
(*                                                                         *)
(*   - a request becomes one order at most, and is taken for good;         *)
(*   - an order is stocked once, with no more than it ordered, or it is    *)
(*     cancelled; it never is both, and neither is undone.                 *)
(*                                                                         *)
(* The detailed specification that implements it is Procurement, as long   *)
(* as its claims run beside claims only.                                   *)
(***************************************************************************)
EXTENDS Naturals

CONSTANTS
  Orders, Requests,
  Quantities,         \* quantities orders are placed for and stocked with
  NoRequest           \* what an order that is not placed stands on

VARIABLES
  entry,              \* per order: how far it is, its request, its quantities
  taken               \* the requests that became orders

vars == <<entry, taken>>

Unplaced == [stage |-> "none", of |-> NoRequest, qty |-> 0, stocked |-> 0]

Init ==
  /\ entry = [o \in Orders |-> Unplaced]
  /\ taken = {}

\* Order o is placed on r, for as much as the buyer asks.
Place(o, r) ==
  /\ r \notin taken
  /\ taken' = taken \cup {r}
  /\ entry[o].stage = "none"
  /\ \E q \in Quantities :
       entry' = [entry EXCEPT ![o] = [stage |-> "open", of |-> r, qty |-> q, stocked |-> 0]]

\* What arrived of it is in the store.
Stock(o) ==
  /\ entry[o].stage = "open"
  /\ \E q \in Quantities :
       /\ q <= entry[o].qty
       /\ entry' = [entry EXCEPT ![o] =
            [stage |-> "stocked", of |-> @.of, qty |-> @.qty, stocked |-> q]]
  /\ UNCHANGED taken

Cancel(o) ==
  /\ entry[o].stage = "open"
  /\ entry' = [entry EXCEPT ![o].stage = "cancelled"]
  /\ UNCHANGED taken

Next ==
  \E o \in Orders :
    \/ \E r \in Requests : Place(o, r)
    \/ Stock(o)
    \/ Cancel(o)

Spec == Init /\ [][Next]_vars
=============================================================================
