------------------------------ MODULE ThreeWay ------------------------------
(***************************************************************************)
(* The match of an invoice against its purchase order and the deliveries   *)
(* on it (src/backend/modules/invoices/three-way.ts, matchThreeWay), while *)
(* deliveries are dispatched and received.  invoice.pay asks for a human   *)
(* acknowledgement when the match lists anything.                          *)
(*                                                                         *)
(* A name is a normalised name; a fee line bills its amount, here its qty. *)
(***************************************************************************)
EXTENDS Integers, FiniteSetsExt, SequencesExt

CONSTANTS
  Goods,              \* names of things
  FeeNames,           \* names that isFeeLine recognises
  Qtys,               \* what a line may order or bill
  MaxOrderLines, MaxBilled, MaxDeliveries      \* bounds

ASSUME ThreeWayAssumption ==
  /\ Goods \cap FeeNames = {}
  /\ Qtys \subseteq Nat \ {0}
  /\ {MaxOrderLines, MaxBilled, MaxDeliveries} \subseteq Nat

VARIABLES
  ordered,            \* the order's lines
  fee,                \* its delivery fee
  billed,             \* the invoice's lines
  arrived             \* its deliveries, oldest first: received per order line

threeWayVars == <<ordered, fee, billed, arrived>>

GoodsLine == [name : Goods, qty : Qtys]
BillLine  == [name : Goods \cup FeeNames, qty : Qtys]

ThreeWayTypeOK ==
  /\ ordered \in Seq(GoodsLine) /\ billed \in Seq(BillLine) /\ fee \in Nat
  /\ arrived \in Seq([DOMAIN ordered -> Nat])

ThreeWayInit ==
  /\ ordered \in BoundedSeq(GoodsLine, MaxOrderLines) \ {<<>>}
  /\ billed \in BoundedSeq(BillLine, MaxBilled) \ {<<>>}
  /\ fee \in Qtys \cup {0}
  /\ arrived = <<>>

\* A delivery has no lines until it is received.
DispatchGoods ==
  /\ Len(arrived) < MaxDeliveries
  /\ arrived' = Append(arrived, [j \in DOMAIN ordered |-> 0])
  /\ UNCHANGED <<ordered, fee, billed>>

\* Receiving more than was ordered is refused, per delivery.
ReceiveGoods(d) ==
  /\ arrived[d] = [j \in DOMAIN ordered |-> 0]
  /\ \E got \in [DOMAIN ordered -> Qtys \cup {0}] :
       /\ \A j \in DOMAIN ordered : got[j] <= ordered[j].qty
       /\ arrived' = [arrived EXCEPT ![d] = got]
  /\ UNCHANGED <<ordered, fee, billed>>

ThreeWayNext == DispatchGoods \/ \E d \in DOMAIN arrived : ReceiveGoods(d)

ThreeWaySpec == ThreeWayInit /\ [][ThreeWayNext]_threeWayVars

-----------------------------------------------------------------------------
(* The match.                                                              *)

\* The order line an invoice line is compared with: the first free one of
\* its name, else the first free one, else none.
Partner(free, line) ==
  LET named == {j \in free : ordered[j].name = line.name} IN
  IF named # {} THEN Min(named) ELSE IF free # {} THEN Min(free) ELSE 0

\* fault: an order line can be paired again.
FreeAfterAll(free, j) == free

FreeAfter(free, j) == free \ {j}

\* latestDelivery: what it received of order line j.
Received(j) == Last(arrived)[j]

\* What the match says against invoice line line compared with order line j.
Issues(line, j) ==
  IF j = 0 THEN {"not ordered"} ELSE
    (IF ordered[j].name # line.name THEN {"by position"} ELSE {})
      \cup (IF ordered[j].qty # line.qty THEN {"quantity"} ELSE {})
      \cup (IF arrived = <<>> THEN {"no delivery"}
            ELSE IF Received(j) # line.qty THEN {"delivered"} ELSE {})

FeeIssues(line) == IF fee > 0 /\ line.qty # fee THEN {"fee"} ELSE {}

\* One more invoice line.
Match(acc, line) ==
  IF line.name \in FeeNames
    THEN [acc EXCEPT !.issues = @ \cup FeeIssues(line)]
    ELSE LET j == Partner(acc.free, line) IN
         [free |-> FreeAfter(acc.free, j), issues |-> acc.issues \cup Issues(line, j)]

\* The match once the first n invoice lines are looked at.
MatchedTo[n \in 0..Len(billed)] ==
  IF n = 0 THEN [free |-> DOMAIN ordered, issues |-> {}]
  ELSE Match(MatchedTo[n - 1], billed[n])

Mismatches == MatchedTo[Len(billed)].issues

-----------------------------------------------------------------------------
BilledGoods == {k \in DOMAIN billed : billed[k].name \in Goods}

\* Different lines of the invoice bill different lines of the order, each
\* exactly, and the latest delivery brought all of it.
Backing(pair) ==
  /\ \A k \in BilledGoods :
       /\ billed[k] = ordered[pair[k]]
       /\ arrived # <<>> /\ Received(pair[k]) = billed[k].qty
  /\ \A k, m \in BilledGoods : pair[k] = pair[m] => k = m

FeesAgree == \A k \in DOMAIN billed \ BilledGoods : fee = 0 \/ billed[k].qty = fee

Backed == FeesAgree /\ \E pair \in [BilledGoods -> DOMAIN ordered] : Backing(pair)

DistinctNames ==
  \A i, j \in DOMAIN ordered : ordered[i].name = ordered[j].name => i = j

\* A match that lists nothing is right: everything billed was ordered and
\* came with the latest delivery, and nothing is billed twice, whatever order
\* and names the lines have.  And nobody is accused of anything: if the order
\* names its lines apart, an invoice that is right has nothing listed.
MatchIsRight ==
  /\ Mismatches = {} => Backed
  /\ Backed /\ DistinctNames => Mismatches = {}
=============================================================================
