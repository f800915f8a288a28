-------------------------------- MODULE Stock --------------------------------
(***************************************************************************)
(* The stock equation and the low-stock rule, as pure operators            *)
(* (src/backend/modules/inventory/repository.ts and low-stock.ts).         *)
(*                                                                         *)
(* A definition marked "fault" is its neighbour with a plausible bug.  No  *)
(* specification uses it: it is there to show that the properties notice.  *)
(***************************************************************************)
EXTENDS Integers

CONSTANT NoLevel        \* no reorder level has been set for the item

Outflows == {"consumed", "damaged", "transferred_out"}

\* movementDelta: what a movement of quantity q does to closing stock.
Delta(type, q) == IF type \in Outflows THEN -q ELSE q

\* movementInflowQty: what it adds to everything that ever flowed in.
Inflow(type, q) == IF type \in {"opening", "received", "returned"} THEN q ELSE 0

\* isLowStock: the explicit level governs, else a tenth of the inflow.
Low(closing, in, level) ==
  IF level # NoLevel THEN closing <= level ELSE in > 0 /\ 10 * closing <= in
=============================================================================
