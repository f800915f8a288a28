------------------------------ MODULE SiteStore ------------------------------
(***************************************************************************)
(* The site store of one project (src/backend/modules/inventory/           *)
(* service.ts): stock movements, low-stock alerts, physical counts and     *)
(* their adjustments, and the receipts the supply module posts here        *)
(* (postDeliveryToInventory).                                              *)
(*                                                                         *)
(* An item is one material at one location.  Every operation is one        *)
(* db.$transaction; the alert is sent after it has committed, so a crash   *)
(* can come between.  Beside the book there is the shelf: what is really   *)
(* there, which no operation reads.                                        *)
(***************************************************************************)
EXTENDS Stock

CONSTANTS
  Items,
  Counts,             \* count sessions; one line each
  Quantities,         \* quantities people record
  Levels,             \* reorder levels people set
  MaxMoves            \* bound: movements a behaviour may record

ASSUME StoreAssumption ==
  /\ Quantities \subseteq Nat \ {0}
  /\ Levels \subseteq Nat
  /\ NoLevel \notin Int
  /\ MaxMoves \in Nat

VARIABLES
  book,               \* derived closing stock: the sum of the movements
  inflow,             \* what ever flowed in
  level,              \* InventoryItem.reorderLevel
  moved,              \* the item has a movement
  alert,              \* of the item's present low spell: none, owed, sent, lost
  count,              \* StockCount rows, and counts not yet recorded
  moves,
  shelf,              \* what is really there
  lost,               \* what left the shelf unrecorded since it was counted
  unsent,             \* what was used offline and is still to be recorded
  muddled,            \* counted over an unsettled count or an unsent use
  relevelled          \* its level changed after it was born

bookVars  == <<book, inflow, level, moved, alert, moves, relevelled>>
shelfVars == <<shelf, lost, unsent, muddled>>
storeVars == <<book, inflow, level, moved, alert, count, moves,
               shelf, lost, unsent, muddled, relevelled>>

AlertStatus == {"none", "owed", "sent", "lost"}

Uncounted == [status |-> "none"]

Session == [status : {"noted", "open", "posted"}, item : Items,
            counted : Int, asOf : Int]

\* Types; a count is about an item and a quantity once it exists.
StoreTypeOK ==
  /\ book \in [Items -> Int] /\ inflow \in [Items -> Nat]
  /\ level \in [Items -> Nat \cup {NoLevel}]
  /\ moved \in [Items -> BOOLEAN] /\ relevelled \in [Items -> BOOLEAN]
  /\ alert \in [Items -> AlertStatus]
  /\ count \in [Counts -> Session \cup {Uncounted}]
  /\ moves \in 0..MaxMoves
  /\ shelf \in [Items -> Nat] /\ unsent \in [Items -> Nat]
  /\ lost \in [Items -> Int] /\ muddled \in [Items -> BOOLEAN]

StoreInit ==
  /\ book = [i \in Items |-> 0] /\ inflow = [i \in Items |-> 0]
  /\ level = [i \in Items |-> NoLevel]
  /\ moved = [i \in Items |-> FALSE] /\ relevelled = [i \in Items |-> FALSE]
  /\ alert = [i \in Items |-> "none"]
  /\ count = [c \in Counts |-> Uncounted]
  /\ moves = 0
  /\ shelf = [i \in Items |-> 0] /\ unsent = [i \in Items |-> 0]
  /\ lost = [i \in Items |-> 0] /\ muddled = [i \in Items |-> FALSE]

-----------------------------------------------------------------------------
(* One movement.                                                           *)

\* fault: only the state after the movement is looked at, once alerted.
AlertAfterOnce(i, b, f, l) ==
  IF moved[i] /\ Low(b, f, l) /\ ~Low(book[i], inflow[i], l)
    THEN "owed" ELSE alert[i]

\* crossedIntoLowStock: both sides are judged by the level now stored.
AlertAfter(i, b, f, l) ==
  LET before == moved[i] /\ Low(book[i], inflow[i], l) IN
  IF ~Low(b, f, l) THEN "none" ELSE IF before THEN alert[i] ELSE "owed"

\* The level an upsert leaves: the payload's, or what is stored.
LevelAfter(i, l) == IF l = NoLevel THEN level[i] ELSE l

\* Item i gets a movement of type and quantity q, and level l if given.
Record(i, type, q, l) ==
  LET b == book[i] + Delta(type, q)
      f == inflow[i] + Inflow(type, q) IN
  /\ moves < MaxMoves
  /\ moves' = moves + 1
  /\ book' = [book EXCEPT ![i] = b]
  /\ inflow' = [inflow EXCEPT ![i] = f]
  /\ level' = [level EXCEPT ![i] = LevelAfter(i, l)]
  /\ alert' = [alert EXCEPT ![i] = AlertAfter(i, b, f, LevelAfter(i, l))]
  /\ moved' = [moved EXCEPT ![i] = TRUE]
  /\ relevelled' = [relevelled EXCEPT ![i] =
                      @ \/ (moved[i] /\ LevelAfter(i, l) # level[i])]

ShelfChanges(i, by) ==
  /\ shelf' = [shelf EXCEPT ![i] = @ + by]
  /\ UNCHANGED <<lost, unsent, muddled>>

\* openStock, receiveStock.
Receive(i, q, l) ==
  /\ Record(i, "received", q, l)
  /\ ShelfChanges(i, q)
  /\ UNCHANGED count

\* The projection of consume and transfer, inside their transaction.
Enough(i, q) == book[i] - q >= 0

\* consumeStock, recorded as it happens.
Consume(i, q) ==
  /\ moved[i] /\ Enough(i, q) /\ shelf[i] >= q
  /\ Record(i, "consumed", q, NoLevel)
  /\ ShelfChanges(i, -q)
  /\ UNCHANGED count

\* returnStock: unused goods come back to the store.
Return(i, q) ==
  /\ moved[i]
  /\ Record(i, "returned", q, NoLevel)
  /\ ShelfChanges(i, q)
  /\ UNCHANGED count

\* damageStock does not look at the closing stock.
Damage(i, q) ==
  /\ moved[i] /\ shelf[i] >= q
  /\ Record(i, "damaged", q, NoLevel)
  /\ ShelfChanges(i, -q)
  /\ UNCHANGED count

\* adjustStock: the book is corrected by hand, the shelf stays.
Adjust(i, q) ==
  /\ moved[i]
  /\ Record(i, "adjusted", q, NoLevel)
  /\ lost' = [lost EXCEPT ![i] = @ + q]
  /\ UNCHANGED <<count, shelf, unsent, muddled>>

\* fault: the second leg of a transfer is lost.
TransferInNothing(j, q) == book[j]

\* The closing of the destination after the second leg.
TransferIn(j, q) == book[j] + Delta("transferred_in", q)

\* transferStock: both legs in one transaction.  The destination gets the
\* source's level whenever the source has one, also when it has its own.
\* A transfer to where the item already is has no case here.
Transfer(i, j, q) ==
  LET out == book[i] + Delta("transferred_out", q)
      in  == TransferIn(j, q)
      l   == LevelAfter(j, level[i]) IN
  /\ i # j /\ moved[i] /\ Enough(i, q) /\ shelf[i] >= q
  /\ moves + 2 <= MaxMoves
  /\ moves' = moves + 2
  /\ book' = [book EXCEPT ![i] = out, ![j] = in]
  /\ level' = [level EXCEPT ![j] = l]
  /\ alert' = [alert EXCEPT ![i] = AlertAfter(i, out, inflow[i], level[i]),
                            ![j] = AlertAfter(j, in, inflow[j], l)]
  /\ moved' = [moved EXCEPT ![j] = TRUE]
  /\ relevelled' = [relevelled EXCEPT ![j] = @ \/ (moved[j] /\ l # level[j])]
  /\ shelf' = [shelf EXCEPT ![i] = @ - q, ![j] = @ + q]
  /\ UNCHANGED <<inflow, count, lost, unsent, muddled>>

\* notifyLowStockCrossing, after the transaction has committed.
SendAlert(i) ==
  /\ alert[i] = "owed"
  /\ alert' = [alert EXCEPT ![i] = "sent"]
  /\ UNCHANGED <<book, inflow, level, moved, moves, relevelled, count, shelfVars>>

\* The process dies before the alerts it owes are sent.
StoreCrash ==
  /\ \E i \in Items : alert[i] = "owed"
  /\ alert' = [i \in Items |-> IF alert[i] = "owed" THEN "lost" ELSE alert[i]]
  /\ UNCHANGED <<book, inflow, level, moved, moves, relevelled, count, shelfVars>>

-----------------------------------------------------------------------------
(* What happens on the ground, and is recorded later or never.             *)

\* Something leaves the shelf and nobody says so.
Vanish(i, q) ==
  /\ shelf[i] >= q
  /\ shelf' = [shelf EXCEPT ![i] = @ - q]
  /\ lost' = [lost EXCEPT ![i] = @ + q]
  /\ UNCHANGED <<bookVars, count, unsent, muddled>>

\* Goods are used while the device is offline.
UseOffline(i, q) ==
  /\ moved[i] /\ unsent[i] = 0 /\ shelf[i] >= q
  /\ shelf' = [shelf EXCEPT ![i] = @ - q]
  /\ unsent' = [unsent EXCEPT ![i] = q]
  /\ UNCHANGED <<bookVars, count, lost, muddled>>

\* The device reconnects and the consumption is applied ...
SyncUse(i) ==
  /\ unsent[i] > 0 /\ Enough(i, unsent[i])
  /\ Record(i, "consumed", unsent[i], NoLevel)
  /\ unsent' = [unsent EXCEPT ![i] = 0]
  /\ UNCHANGED <<count, shelf, lost, muddled>>

\* ... or refused, and given up.
DropUse(i) ==
  /\ unsent[i] > 0 /\ ~Enough(i, unsent[i])
  /\ lost' = [lost EXCEPT ![i] = @ + unsent[i]]
  /\ unsent' = [unsent EXCEPT ![i] = 0]
  /\ UNCHANGED <<bookVars, count, shelf, muddled>>

-----------------------------------------------------------------------------
(* Physical counts.                                                        *)

Unsettled(i) ==
  {c \in Counts : count[c].status \in {"noted", "open"} /\ count[c].item = i}

\* Somebody counts the shelf (countedAt), maybe offline.  What the book says
\* at that moment is what recordStockCount will derive: movements up to then.
NoteCount(c, i) ==
  /\ count[c].status = "none" /\ moved[i]
  /\ count' = [count EXCEPT ![c] = [status |-> "noted", item |-> i,
                                    counted |-> shelf[i], asOf |-> book[i]]]
  /\ lost' = [lost EXCEPT ![i] = 0]
  /\ muddled' = [muddled EXCEPT ![i] = @ \/ Unsettled(i) # {} \/ unsent[i] > 0]
  /\ UNCHANGED <<bookVars, shelf, unsent>>

\* expectedQty: the closing as of countedAt.
Expected(c) == count[c].asOf

\* recordStockCount.
RecordCount(c) ==
  /\ count[c].status = "noted"
  /\ count' = [count EXCEPT ![c].status = "open", ![c].asOf = Expected(c)]
  /\ UNCHANGED <<bookVars, shelfVars>>

Postable(c) == count[c].status = "open"

\* postCountAdjustments: no movement for a line without variance.
PostCount(c) ==
  LET by == count[c].counted - count[c].asOf IN
  /\ Postable(c)
  /\ count' = [count EXCEPT ![c].status = "posted"]
  /\ IF by = 0 THEN UNCHANGED bookVars
               ELSE Record(count[c].item, "adjusted", by, NoLevel)
  /\ UNCHANGED shelfVars

-----------------------------------------------------------------------------
(* Receipts of the supply module.                                          *)

\* postDeliveryToInventory: q arrived, of which j were rejected.  The net is
\* "received"; the rejected part, never put on the shelf, is a movement of
\* its own, "damaged" or "returned".  No alert is raised on this path.
PostDelivery(i, q, j, type) ==
  LET net == q - j IN
  /\ type \in {"damaged", "returned"} /\ j <= q
  /\ moves + 2 <= MaxMoves
  /\ moves' = moves + 2
  /\ book' = [book EXCEPT ![i] = @ + Delta("received", net) + Delta(type, j)]
  /\ inflow' = [inflow EXCEPT ![i] = @ + net + Inflow(type, j)]
  /\ moved' = [moved EXCEPT ![i] = TRUE]
  /\ relevelled' = [relevelled EXCEPT ![i] = TRUE]
  /\ shelf' = [shelf EXCEPT ![i] = @ + net]
  /\ lost' = [lost EXCEPT ![i] = @ + Delta(type, j)]
  /\ UNCHANGED <<level, alert, count, unsent, muddled>>

StoreNext ==
  \/ \E i \in Items, q \in Quantities :
       \/ \E l \in Levels \cup {NoLevel} : Receive(i, q, l)
       \/ Consume(i, q) \/ Return(i, q) \/ Damage(i, q)
       \/ Adjust(i, q) \/ Adjust(i, -q)
       \/ \E j \in Items : Transfer(i, j, q)
       \/ Vanish(i, q) \/ UseOffline(i, q)
       \/ \E j \in Quantities \cup {0}, type \in Outflows \cup {"returned"} :
            PostDelivery(i, q, j, type)
  \/ \E i \in Items : SendAlert(i) \/ SyncUse(i) \/ DropUse(i)
  \/ \E c \in Counts : \/ \E i \in Items : NoteCount(c, i)
                       \/ RecordCount(c) \/ PostCount(c)
  \/ StoreCrash

StoreSpec == StoreInit /\ [][StoreNext]_storeVars

-----------------------------------------------------------------------------
\* What the unsettled count of an item has found to be missing.
Variance(i) ==
  IF Unsettled(i) = {} THEN 0
  ELSE LET c == CHOOSE c \in Unsettled(i) : TRUE IN
       count[c].asOf - count[c].counted

\* The book exceeds the shelf by exactly what is known to be missing: lost
\* since the last count, used and not yet sent, or found by the count still
\* to be posted - however counts, late records and movements interleave
\* (EXPECTED IS A SNAPSHOT, service.ts:370).  Unless the shelf was counted
\* over an unsettled count or an unsent use: those are adjusted twice.
BookExplained ==
  \A i \in Items :
    ~muddled[i] => book[i] = shelf[i] + lost[i] + unsent[i] + Variance(i)

\* An item that is low has its alert: sent, about to be, or lost with the
\* process (one notification per crossing, low-stock.ts:32).  Unless its
\* level changed under it, or a delivery was posted past the rule.
LowIsAnnounced ==
  \A i \in Items :
    moved[i] /\ ~relevelled[i] /\ Low(book[i], inflow[i], level[i])
      => alert[i] # "none"
=============================================================================
