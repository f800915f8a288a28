-------------------------- MODULE SiteStore_proofs --------------------------
(***************************************************************************)
(* What holds of the site store for any items, quantities, levels and      *)
(* number of counts.  What makes stock low is not looked into: an alert is *)
(* owed when the rule turns, whatever the rule.                            *)
(***************************************************************************)
EXTENDS SiteStore, TLAPS

\* A movement changes the closing stock by its quantity, up or down.
LEMMA DeltaIsInt ==
  ASSUME NEW type, NEW q \in Int
  PROVE  Delta(type, q) \in Int /\ (q \in Nat => Inflow(type, q) \in Nat)
BY DEF Delta, Inflow

\* What an upsert leaves for a level is a level.
LEMMA LevelIsThere ==
  ASSUME StoreTypeOK, NEW i \in Items, NEW l \in Nat \cup {NoLevel}
  PROVE  LevelAfter(i, l) \in Nat \cup {NoLevel}
BY DEF LevelAfter, StoreTypeOK

\* The alert of an item is one after any movement.
LEMMA AlertIsThere ==
  ASSUME StoreTypeOK, NEW i \in Items, NEW b, NEW f, NEW l
  PROVE  AlertAfter(i, b, f, l) \in AlertStatus
BY DEF AlertAfter, StoreTypeOK, AlertStatus

-----------------------------------------------------------------------------
(* Types.                                                                  *)

\* The part of the types that a movement touches.
BookTypeOK ==
  /\ book \in [Items -> Int] /\ inflow \in [Items -> Nat]
  /\ level \in [Items -> Nat \cup {NoLevel}]
  /\ moved \in [Items -> BOOLEAN] /\ relevelled \in [Items -> BOOLEAN]
  /\ alert \in [Items -> AlertStatus]
  /\ moves \in 0..MaxMoves

\* One movement leaves the book well typed.
LEMMA RecordTypes ==
  ASSUME StoreTypeOK, NEW i \in Items, NEW type, NEW q \in Int, NEW l \in Nat \cup {NoLevel},
         q \in Nat \/ type = "adjusted", Record(i, type, q, l)
  PROVE  BookTypeOK'
<1>1. Delta(type, q) \in Int BY DeltaIsInt
<1>2. Inflow(type, q) \in Nat BY DEF Inflow
<1>3. LevelAfter(i, l) \in Nat \cup {NoLevel} BY LevelIsThere
<1>4. book' \in [Items -> Int] BY <1>1 DEF Record, StoreTypeOK
<1>5. inflow' \in [Items -> Nat] BY <1>2 DEF Record, StoreTypeOK
<1>6. level' \in [Items -> Nat \cup {NoLevel}] BY <1>3 DEF Record, StoreTypeOK
<1>7. moved' \in [Items -> BOOLEAN] BY Zenon DEF Record, StoreTypeOK
<1>8. relevelled' \in [Items -> BOOLEAN]
  <2>1. (relevelled[i] \/ (moved[i] /\ LevelAfter(i, l) # level[i])) \in BOOLEAN
    OBVIOUS
  <2>. QED BY <2>1, Zenon DEF Record, StoreTypeOK
<1>9. alert' \in [Items -> AlertStatus] BY AlertIsThere DEF Record, StoreTypeOK
<1>10. moves' \in 0..MaxMoves BY StoreAssumption DEF Record, StoreTypeOK
<1>. QED BY <1>4, <1>5, <1>6, <1>7, <1>8, <1>9, <1>10 DEF BookTypeOK

\* A session is not the value for none.
LEMMA SessionFields ==
  ASSUME StoreTypeOK, NEW c \in Counts, count[c].status # "none"
  PROVE  /\ count[c] \in Session /\ count[c].item \in Items
         /\ count[c].counted \in Int /\ count[c].asOf \in Int
BY DEF StoreTypeOK, Session, Uncounted

\* Book, shelf, counts and alerts keep their types.
THEOREM StoreTypeCorrect == StoreSpec => []StoreTypeOK
<1>1. StoreInit => StoreTypeOK
  BY StoreAssumption DEF StoreInit, StoreTypeOK, AlertStatus
<1>2. StoreTypeOK /\ [StoreNext]_storeVars => StoreTypeOK'
  <2>. SUFFICES ASSUME StoreTypeOK, [StoreNext]_storeVars PROVE StoreTypeOK'
    OBVIOUS
  <2>. DEFINE ShelfTypeOK ==
         /\ count \in [Counts -> Session \cup {Uncounted}]
         /\ shelf \in [Items -> Nat] /\ unsent \in [Items -> Nat]
         /\ lost \in [Items -> Int] /\ muddled \in [Items -> BOOLEAN]
  <2>0. BookTypeOK' /\ ShelfTypeOK' => StoreTypeOK' BY DEF BookTypeOK, StoreTypeOK
  <2>00. /\ NoLevel \in Nat \cup {NoLevel} /\ Levels \cup {NoLevel} \subseteq Nat \cup {NoLevel}
         /\ Quantities \subseteq Nat \ {0}
    BY StoreAssumption
  <2>000. UNCHANGED bookVars => BookTypeOK' BY DEF bookVars, BookTypeOK, StoreTypeOK
  <2>1. ASSUME NEW i \in Items, NEW q \in Quantities, NEW l \in Levels \cup {NoLevel},
               Receive(i, q, l)
        PROVE  StoreTypeOK'
    <3>0. q \in Nat /\ q \in Int /\ l \in Nat \cup {NoLevel} BY <2>00
    <3>1. BookTypeOK' BY <3>0, <2>1, RecordTypes DEF Receive
    <3>2. ShelfTypeOK' BY <2>00, <2>1 DEF Receive, ShelfChanges, StoreTypeOK
    <3>. QED BY <2>0, <3>1, <3>2
  <2>2. ASSUME NEW i \in Items, NEW q \in Quantities, Consume(i, q)
        PROVE  StoreTypeOK'
    <3>0. q \in Nat /\ q \in Int /\ NoLevel \in Nat \cup {NoLevel} BY <2>00
    <3>1. BookTypeOK' BY <3>0, <2>2, RecordTypes DEF Consume
    <3>2. ShelfTypeOK' BY <2>00, <2>2 DEF Consume, ShelfChanges, StoreTypeOK
    <3>. QED BY <2>0, <3>1, <3>2
  <2>3. ASSUME NEW i \in Items, NEW q \in Quantities, Return(i, q)
        PROVE  StoreTypeOK'
    <3>0. q \in Nat /\ q \in Int /\ NoLevel \in Nat \cup {NoLevel} BY <2>00
    <3>1. BookTypeOK' BY <3>0, <2>3, RecordTypes DEF Return
    <3>2. ShelfTypeOK' BY <2>00, <2>3 DEF Return, ShelfChanges, StoreTypeOK
    <3>. QED BY <2>0, <3>1, <3>2
  <2>4. ASSUME NEW i \in Items, NEW q \in Quantities, Damage(i, q)
        PROVE  StoreTypeOK'
    <3>0. q \in Nat /\ q \in Int /\ NoLevel \in Nat \cup {NoLevel} BY <2>00
    <3>1. BookTypeOK' BY <3>0, <2>4, RecordTypes DEF Damage
    <3>2. ShelfTypeOK' BY <2>00, <2>4 DEF Damage, ShelfChanges, StoreTypeOK
    <3>. QED BY <2>0, <3>1, <3>2
  <2>5. ASSUME NEW i \in Items, NEW q \in Int, Adjust(i, q)
        PROVE  StoreTypeOK'
    <3>1. BookTypeOK' BY <2>00, <2>5, RecordTypes DEF Adjust
    <3>2. ShelfTypeOK' BY <2>00, <2>5 DEF Adjust, StoreTypeOK
    <3>. QED BY <2>0, <3>1, <3>2
  <2>6. ASSUME NEW i \in Items, NEW j \in Items, NEW q \in Quantities, Transfer(i, j, q)
        PROVE  StoreTypeOK'
    <3>. DEFINE l == LevelAfter(j, level[i])
    <3>0. level[i] \in Nat \cup {NoLevel} BY DEF StoreTypeOK
    <3>1. l \in Nat \cup {NoLevel} BY <3>0, LevelIsThere
    <3>2. /\ book[i] + Delta("transferred_out", q) \in Int /\ TransferIn(j, q) \in Int
      BY <2>00, DeltaIsInt DEF TransferIn, StoreTypeOK
    <3>3. book' \in [Items -> Int] BY <2>6, <3>2 DEF Transfer, StoreTypeOK
    <3>4. level' \in [Items -> Nat \cup {NoLevel}] BY <2>6, <3>1 DEF Transfer, StoreTypeOK
    <3>5. moved' \in [Items -> BOOLEAN] BY <2>6, Zenon DEF Transfer, StoreTypeOK
    <3>6. relevelled' \in [Items -> BOOLEAN]
      <4>1. (relevelled[j] \/ (moved[j] /\ l # level[j])) \in BOOLEAN OBVIOUS
      <4>. QED BY <2>6, <4>1, Zenon DEF Transfer, StoreTypeOK
    <3>7. alert' \in [Items -> AlertStatus] BY <2>6, AlertIsThere DEF Transfer, StoreTypeOK
    <3>8. moves' \in 0..MaxMoves /\ inflow' = inflow
      BY <2>6, StoreAssumption DEF Transfer, StoreTypeOK
    <3>9. shelf' \in [Items -> Nat]
      BY <2>00, <2>6 DEF Transfer, StoreTypeOK
    <3>10. ShelfTypeOK' BY <2>6, <3>9 DEF Transfer, StoreTypeOK
    <3>11. BookTypeOK' BY <3>3, <3>4, <3>5, <3>6, <3>7, <3>8 DEF BookTypeOK, StoreTypeOK
    <3>. QED BY <2>0, <3>10, <3>11
  <2>7. ASSUME NEW i \in Items, NEW q \in Quantities, Vanish(i, q) \/ UseOffline(i, q)
        PROVE  StoreTypeOK'
    <3>1. BookTypeOK' BY <2>000, <2>7 DEF Vanish, UseOffline
    <3>2. ShelfTypeOK' BY <2>00, <2>7 DEF Vanish, UseOffline, StoreTypeOK
    <3>. QED BY <2>0, <3>1, <3>2
  <2>8. ASSUME NEW i \in Items, NEW q \in Quantities, NEW j \in Quantities \cup {0},
               NEW type, PostDelivery(i, q, j, type)
        PROVE  StoreTypeOK'
    <3>1. q \in Nat /\ j \in Nat /\ q - j \in Nat BY <2>00, <2>8 DEF PostDelivery
    <3>2. Delta("received", q - j) \in Int /\ Delta(type, j) \in Int /\ Inflow(type, j) \in Nat
      BY <3>1, DeltaIsInt
    <3>3. book' \in [Items -> Int] /\ inflow' \in [Items -> Nat] /\ moves' \in 0..MaxMoves
      BY <2>8, <3>1, <3>2, StoreAssumption DEF PostDelivery, StoreTypeOK
    <3>4. moved' \in [Items -> BOOLEAN] /\ relevelled' \in [Items -> BOOLEAN]
      BY <2>8, Zenon DEF PostDelivery, StoreTypeOK
    <3>5. BookTypeOK' BY <2>8, <3>3, <3>4 DEF PostDelivery, BookTypeOK, StoreTypeOK
    <3>6. ShelfTypeOK' BY <2>8, <3>1, <3>2 DEF PostDelivery, StoreTypeOK
    <3>. QED BY <2>0, <3>5, <3>6
  <2>9. ASSUME NEW i \in Items, SendAlert(i) PROVE StoreTypeOK'
    BY <2>9 DEF SendAlert, StoreTypeOK, AlertStatus, shelfVars
  <2>10. ASSUME NEW i \in Items, SyncUse(i) PROVE StoreTypeOK'
    <3>1. unsent[i] \in Nat /\ unsent[i] \in Int BY DEF StoreTypeOK
    <3>2. BookTypeOK' BY <2>00, <2>10, <3>1, RecordTypes DEF SyncUse
    <3>3. ShelfTypeOK' BY <2>10 DEF SyncUse, StoreTypeOK
    <3>. QED BY <2>0, <3>2, <3>3
  <2>11. ASSUME NEW i \in Items, DropUse(i) PROVE StoreTypeOK'
    <3>1. BookTypeOK' BY <2>000, <2>11 DEF DropUse
    <3>2. ShelfTypeOK' BY <2>11 DEF DropUse, StoreTypeOK
    <3>. QED BY <2>0, <3>1, <3>2
  <2>12. ASSUME NEW c \in Counts, NEW i \in Items, NoteCount(c, i) PROVE StoreTypeOK'
    <3>1. BookTypeOK' BY <2>000, <2>12 DEF NoteCount
    <3>2. [status |-> "noted", item |-> i, counted |-> shelf[i], asOf |-> book[i]] \in Session
      BY DEF Session, StoreTypeOK
    <3>3. count' \in [Counts -> Session \cup {Uncounted}]
      BY <2>12, <3>2 DEF NoteCount, StoreTypeOK
    <3>4. (muddled[i] \/ Unsettled(i) # {} \/ unsent[i] > 0) \in BOOLEAN OBVIOUS
    <3>5. muddled' \in [Items -> BOOLEAN] BY <2>12, <3>4, Zenon DEF NoteCount, StoreTypeOK
    <3>6. ShelfTypeOK' BY <2>12, <3>3, <3>5 DEF NoteCount, StoreTypeOK
    <3>. QED BY <2>0, <3>1, <3>6
  <2>13. ASSUME NEW c \in Counts, RecordCount(c) PROVE StoreTypeOK'
    <3>1. BookTypeOK' BY <2>000, <2>13 DEF RecordCount
    <3>2. count[c] \in Session BY <2>13, SessionFields DEF RecordCount
    <3>3. [count[c] EXCEPT !.status = "open", !.asOf = Expected(c)] \in Session
      BY <3>2 DEF Session, Expected
    <3>4. count' \in [Counts -> Session \cup {Uncounted}]
      BY <2>13, <3>3 DEF RecordCount, StoreTypeOK
    <3>5. ShelfTypeOK' BY <2>13, <3>4 DEF RecordCount, shelfVars, StoreTypeOK
    <3>. QED BY <2>0, <3>1, <3>5
  <2>14. ASSUME NEW c \in Counts, PostCount(c) PROVE StoreTypeOK'
    <3>1. /\ count[c] \in Session /\ count[c].item \in Items
          /\ count[c].counted - count[c].asOf \in Int
      BY <2>14, SessionFields DEF PostCount, Postable
    <3>2. BookTypeOK' BY <2>00, <2>000, <2>14, <3>1, RecordTypes DEF PostCount
    <3>3. [count[c] EXCEPT !.status = "posted"] \in Session BY <3>1 DEF Session
    <3>4. count' \in [Counts -> Session \cup {Uncounted}]
      BY <2>14, <3>3 DEF PostCount, StoreTypeOK
    <3>5. ShelfTypeOK' BY <2>14, <3>4 DEF PostCount, shelfVars, StoreTypeOK
    <3>. QED BY <2>0, <3>2, <3>5
  <2>15. ASSUME StoreCrash PROVE StoreTypeOK'
    BY <2>15 DEF StoreCrash, StoreTypeOK, AlertStatus, shelfVars
  <2>16. ASSUME UNCHANGED storeVars PROVE StoreTypeOK'
    BY <2>16 DEF storeVars, StoreTypeOK
  <2>. QED
    <3>1. \A q \in Quantities : q \in Int /\ -q \in Int BY <2>00
    <3>. QED BY <3>1, <2>1, <2>2, <2>3, <2>4, <2>5, <2>6, <2>7, <2>8, <2>9, <2>10, <2>11,
                <2>12, <2>13, <2>14, <2>15, <2>16 DEF StoreNext
<1>. QED BY <1>1, <1>2, PTL DEF StoreSpec

-----------------------------------------------------------------------------
(* The book and the shelf.                                                 *)

\* The unsettled counts of item i in the sessions cnt, and what one found.
UnsettledIn(cnt, i) == {c \in Counts : cnt[c].status \in {"noted", "open"} /\ cnt[c].item = i}
VarianceIn(cnt, i) ==
  IF UnsettledIn(cnt, i) = {} THEN 0
  ELSE LET c == CHOOSE c \in UnsettledIn(cnt, i) : TRUE IN cnt[c].asOf - cnt[c].counted

\* An item has at most one unsettled count as long as it is not muddled.
AtMostOne(cnt, i) == \A c, d \in UnsettledIn(cnt, i) : c = d

\* The book of one item, as BookExplained has it.
Explained(i) == book[i] = shelf[i] + lost[i] + unsent[i] + VarianceIn(count, i)

BookInv == \A i \in Items : ~muddled[i] => AtMostOne(count, i) /\ Explained(i)

\* What an item's only unsettled count has found is its variance.
LEMMA VarianceOfOne ==
  ASSUME NEW cnt, NEW i, NEW c \in UnsettledIn(cnt, i), AtMostOne(cnt, i)
  PROVE  VarianceIn(cnt, i) = cnt[c].asOf - cnt[c].counted
<1>. DEFINE d == CHOOSE d \in UnsettledIn(cnt, i) : TRUE
<1>1. d \in UnsettledIn(cnt, i) OBVIOUS
<1>2. d = c BY <1>1 DEF AtMostOne
<1>3. UnsettledIn(cnt, i) # {} OBVIOUS
<1>4. VarianceIn(cnt, i) = cnt[d].asOf - cnt[d].counted BY <1>3, Zenon DEF VarianceIn
<1>. QED BY <1>2, <1>4

\* A variance is a difference of quantities.
LEMMA VarianceIsInt ==
  ASSUME StoreTypeOK, NEW i \in Items
  PROVE  VarianceIn(count, i) \in Int
<1>1. CASE UnsettledIn(count, i) = {} BY <1>1 DEF VarianceIn
<1>2. CASE UnsettledIn(count, i) # {}
  <2>. DEFINE c == CHOOSE c \in UnsettledIn(count, i) : TRUE
  <2>1. c \in UnsettledIn(count, i) BY <1>2
  <2>2. c \in Counts /\ count[c].status # "none" BY <2>1 DEF UnsettledIn
  <2>3. count[c].asOf - count[c].counted \in Int BY <2>2, SessionFields
  <2>4. VarianceIn(count, i) = count[c].asOf - count[c].counted
    BY <1>2, Zenon DEF VarianceIn
  <2>. QED BY <2>3, <2>4
<1>. QED BY <1>1, <1>2

\* A step that leaves the counts alone and moves the book as far as what it
\* is explained by keeps the invariant.
LEMMA MovedAlike ==
  ASSUME StoreTypeOK, StoreTypeOK', BookInv, count' = count, muddled' = muddled,
         \A k \in Items : book'[k] - (shelf'[k] + lost'[k] + unsent'[k])
                            = book[k] - (shelf[k] + lost[k] + unsent[k])
  PROVE  BookInv'
<1>. SUFFICES ASSUME NEW k \in Items, ~muddled'[k]
              PROVE  AtMostOne(count', k) /\ Explained(k)'
  BY DEF BookInv
<1>1. AtMostOne(count, k) /\ Explained(k) BY DEF BookInv
<1>2. VarianceIn(count, k) \in Int BY VarianceIsInt
<1>3. /\ book[k] \in Int /\ shelf[k] \in Int /\ lost[k] \in Int /\ unsent[k] \in Int
      /\ book'[k] \in Int /\ shelf'[k] \in Int /\ lost'[k] \in Int /\ unsent'[k] \in Int
  BY DEF StoreTypeOK
<1>4. Explained(k)' BY <1>1, <1>2, <1>3 DEF Explained
<1>. QED BY <1>1, <1>4

\* What a movement does to the book.
LEMMA RecordMoves ==
  ASSUME StoreTypeOK, NEW i \in Items, NEW type, NEW q \in Int, NEW l,
         Record(i, type, q, l)
  PROVE  /\ book'[i] = book[i] + Delta(type, q)
         /\ \A k \in Items \ {i} : book'[k] = book[k]
BY DEF Record, StoreTypeOK

\* The counts of other items are the same when one count, of item i before
\* and after, is rewritten.
LEMMA OtherCounts ==
  ASSUME StoreTypeOK, NEW c \in Counts, NEW i \in Items, NEW k \in Items, k # i, NEW s,
         s.item = i, count[c].status \in {"noted", "open"} => count[c].item = i,
         count' = [count EXCEPT ![c] = s]
  PROVE  /\ UnsettledIn(count', k) = UnsettledIn(count, k)
         /\ VarianceIn(count', k) = VarianceIn(count, k)
<1>1. \A d \in Counts : d # c => count'[d] = count[d] BY DEF StoreTypeOK
<1>2. count'[c] = s BY DEF StoreTypeOK
<1>3. c \notin UnsettledIn(count, k) /\ c \notin UnsettledIn(count', k)
  BY <1>2 DEF UnsettledIn
<1>4. UnsettledIn(count', k) = UnsettledIn(count, k) BY <1>1, <1>3 DEF UnsettledIn
<1>5. VarianceIn(count', k) = VarianceIn(count, k)
  <2>1. CASE UnsettledIn(count, k) = {} BY <2>1, <1>4 DEF VarianceIn
  <2>2. CASE UnsettledIn(count, k) # {}
    <3>. DEFINE d == CHOOSE d \in UnsettledIn(count, k) : TRUE
    <3>1. d \in UnsettledIn(count, k) BY <2>2
    <3>2. count'[d] = count[d] BY <1>1, <1>3, <3>1 DEF UnsettledIn
    <3>3. VarianceIn(count, k) = count[d].asOf - count[d].counted
      BY <2>2, Zenon DEF VarianceIn
    <3>4. VarianceIn(count', k) = count'[d].asOf - count'[d].counted
      BY <2>2, <1>4, Zenon DEF VarianceIn
    <3>. QED BY <3>2, <3>3, <3>4
  <2>. QED BY <2>1, <2>2
<1>. QED BY <1>4, <1>5

\* Counting an item with nothing unsettled explains its book afresh.
LEMMA NoteExplains ==
  ASSUME StoreTypeOK, StoreTypeOK', BookInv, NEW c \in Counts, NEW i \in Items, NoteCount(c, i)
  PROVE  BookInv'
<1>. DEFINE s == [status |-> "noted", item |-> i, counted |-> shelf[i], asOf |-> book[i]]
<1>1. count' = [count EXCEPT ![c] = s] /\ count[c].status = "none" BY DEF NoteCount
<1>. SUFFICES ASSUME NEW k \in Items, ~muddled'[k]
              PROVE  AtMostOne(count', k) /\ Explained(k)'
  BY DEF BookInv
<1>2. /\ book' = book /\ shelf' = shelf /\ unsent' = unsent
      /\ lost' = [lost EXCEPT ![i] = 0]
  BY DEF NoteCount, bookVars
<1>3. CASE k # i
  <2>1. muddled'[k] = muddled[k] BY <1>3 DEF NoteCount, StoreTypeOK
  <2>2. AtMostOne(count, k) /\ Explained(k) BY <2>1 DEF BookInv
  <2>3. /\ UnsettledIn(count', k) = UnsettledIn(count, k)
        /\ VarianceIn(count', k) = VarianceIn(count, k)
    BY <1>1, <1>3, OtherCounts
  <2>4. lost'[k] = lost[k] BY <1>2, <1>3 DEF StoreTypeOK
  <2>. QED BY <1>2, <2>2, <2>3, <2>4 DEF AtMostOne, Explained
<1>4. CASE k = i
  <2>1. ~(muddled[i] \/ Unsettled(i) # {} \/ unsent[i] > 0)
    BY <1>4 DEF NoteCount, StoreTypeOK
  <2>2. unsent[i] = 0 BY <2>1 DEF StoreTypeOK
  <2>3. UnsettledIn(count, i) = {} BY <2>1 DEF Unsettled, UnsettledIn
  <2>4. \A d \in Counts : d # c => count'[d] = count[d] BY <1>1 DEF StoreTypeOK
  <2>5. count'[c] = s BY <1>1 DEF StoreTypeOK
  <2>6. UnsettledIn(count', i) = {c} BY <2>3, <2>4, <2>5 DEF UnsettledIn
  <2>7. AtMostOne(count', i) BY <2>6 DEF AtMostOne
  <2>8. VarianceIn(count', i) = book[i] - shelf[i]
    BY <2>5, <2>6, <2>7, VarianceOfOne
  <2>9. lost'[i] = 0 BY <1>2 DEF StoreTypeOK
  <2>10. book[i] \in Int /\ shelf[i] \in Int BY DEF StoreTypeOK
  <2>11. Explained(i)' BY <1>2, <2>2, <2>8, <2>9, <2>10 DEF Explained
  <2>. QED BY <1>4, <2>7, <2>11
<1>. QED BY <1>3, <1>4

\* Recording a count that was noted changes nothing of what it found.
LEMMA RecordingExplains ==
  ASSUME StoreTypeOK, StoreTypeOK', BookInv, NEW c \in Counts, RecordCount(c)
  PROVE  BookInv'
<1>1. \A d \in Counts : d # c => count'[d] = count[d] BY DEF RecordCount, StoreTypeOK
<1>2. count[c] \in Session BY SessionFields DEF RecordCount
<1>3. /\ count'[c].item = count[c].item /\ count'[c].counted = count[c].counted
      /\ count'[c].asOf = count[c].asOf
      /\ count[c].status = "noted" /\ count'[c].status = "open"
  BY <1>2 DEF RecordCount, Expected, Session, StoreTypeOK
<1>4. ASSUME NEW k \in Items
      PROVE  /\ UnsettledIn(count', k) = UnsettledIn(count, k)
             /\ VarianceIn(count', k) = VarianceIn(count, k)
  <2>1. UnsettledIn(count', k) = UnsettledIn(count, k) BY <1>1, <1>3 DEF UnsettledIn
  <2>2. CASE UnsettledIn(count, k) = {} BY <2>1, <2>2 DEF VarianceIn
  <2>3. CASE UnsettledIn(count, k) # {}
    <3>. DEFINE d == CHOOSE d \in UnsettledIn(count, k) : TRUE
    <3>1. d \in Counts BY <2>3 DEF UnsettledIn
    <3>2. count'[d].asOf = count[d].asOf /\ count'[d].counted = count[d].counted
      BY <1>1, <1>3, <3>1
    <3>3. VarianceIn(count, k) = count[d].asOf - count[d].counted
      BY <2>3, Zenon DEF VarianceIn
    <3>4. VarianceIn(count', k) = count'[d].asOf - count'[d].counted
      BY <2>1, <2>3, Zenon DEF VarianceIn
    <3>. QED BY <2>1, <3>2, <3>3, <3>4
  <2>. QED BY <2>2, <2>3
<1>5. /\ book' = book /\ shelf' = shelf /\ lost' = lost /\ unsent' = unsent
      /\ muddled' = muddled
  BY DEF RecordCount, bookVars, shelfVars
<1>. QED BY <1>4, <1>5 DEF BookInv, AtMostOne, Explained

\* Posting an item's only unsettled count moves the book by what it found.
LEMMA PostingExplains ==
  ASSUME StoreTypeOK, StoreTypeOK', BookInv, NEW c \in Counts, PostCount(c)
  PROVE  BookInv'
<1>. DEFINE i == count[c].item
            by == count[c].counted - count[c].asOf
            s == [count[c] EXCEPT !.status = "posted"]
<1>1. /\ count[c] \in Session /\ i \in Items
      /\ count[c].counted \in Int /\ count[c].asOf \in Int /\ by \in Int
  BY SessionFields DEF PostCount, Postable
<1>2. count' = [count EXCEPT ![c] = s] /\ count[c].status = "open" BY DEF PostCount, Postable
<1>3. s.item = i /\ s.status = "posted" BY <1>1 DEF Session
<1>4. book'[i] = book[i] + by /\ \A k \in Items \ {i} : book'[k] = book[k]
  <2>1. CASE by = 0 BY <1>1, <2>1 DEF PostCount, bookVars, StoreTypeOK
  <2>2. CASE by # 0
    <3>1. Record(i, "adjusted", by, NoLevel) BY <2>2 DEF PostCount
    <3>2. Delta("adjusted", by) = by BY DEF Delta, Outflows
    <3>. HIDE DEF i, by
    <3>. QED BY <1>1, <3>1, <3>2, RecordMoves
  <2>. QED BY <2>1, <2>2
<1>5. shelf' = shelf /\ lost' = lost /\ unsent' = unsent /\ muddled' = muddled
  BY DEF PostCount, shelfVars
<1>. SUFFICES ASSUME NEW k \in Items, ~muddled'[k]
              PROVE  AtMostOne(count', k) /\ Explained(k)'
  BY DEF BookInv
<1>6. AtMostOne(count, k) /\ Explained(k) BY <1>5 DEF BookInv
<1>7. CASE k # i
  <2>1. /\ UnsettledIn(count', k) = UnsettledIn(count, k)
        /\ VarianceIn(count', k) = VarianceIn(count, k)
    <3>. HIDE DEF s
    <3>. QED BY <1>1, <1>2, <1>3, <1>7, OtherCounts
  <2>. QED BY <1>4, <1>5, <1>6, <1>7, <2>1 DEF AtMostOne, Explained
<1>8. CASE k = i
  <2>1. c \in UnsettledIn(count, i) BY <1>2 DEF UnsettledIn
  <2>2. VarianceIn(count, i) = count[c].asOf - count[c].counted
    BY <1>6, <1>8, <2>1, VarianceOfOne
  <2>3. count'[c].status = "posted" BY <1>2, <1>3 DEF StoreTypeOK
  <2>4. \A d \in Counts : d # c => count'[d] = count[d] BY <1>2 DEF StoreTypeOK
  <2>5. \A d \in UnsettledIn(count, i) : d = c BY <1>6, <1>8, <2>1 DEF AtMostOne
  <2>6. UnsettledIn(count', i) = {} BY <2>3, <2>4, <2>5 DEF UnsettledIn
  <2>7. VarianceIn(count', i) = 0 /\ AtMostOne(count', i)
    BY <2>6 DEF VarianceIn, AtMostOne
  <2>8. book[i] \in Int /\ shelf[i] \in Int /\ lost[i] \in Int /\ unsent[i] \in Int
    BY <1>1 DEF StoreTypeOK
  <2>9. book[i] = shelf[i] + lost[i] + unsent[i] + VarianceIn(count, i)
    BY <1>6, <1>8 DEF Explained
  <2>10. book'[i] = shelf'[i] + lost'[i] + unsent'[i] + VarianceIn(count', i)
    BY <1>1, <1>4, <1>5, <2>2, <2>7, <2>8, <2>9
  <2>. QED BY <1>8, <2>7, <2>10 DEF Explained
<1>. QED BY <1>7, <1>8

\* Every step keeps each item's book explained.
LEMMA StepExplains ==
  ASSUME StoreTypeOK, StoreTypeOK', BookInv, [StoreNext]_storeVars
  PROVE  BookInv'
<1>. DEFINE Shift(k) == shelf'[k] + lost'[k] + unsent'[k] - (shelf[k] + lost[k] + unsent[k])
<1>0. \A k \in Items :
        /\ book[k] \in Int /\ shelf[k] \in Int /\ lost[k] \in Int /\ unsent[k] \in Int
        /\ book'[k] \in Int /\ shelf'[k] \in Int /\ lost'[k] \in Int /\ unsent'[k] \in Int
  BY DEF StoreTypeOK
<1>00. /\ \A q \in Quantities : q \in Nat /\ q \in Int /\ -q \in Int
  BY StoreAssumption
<1>000. ASSUME count' = count, muddled' = muddled,
               \A k \in Items : book'[k] - book[k] = Shift(k)
        PROVE  BookInv'
  <2>1. \A k \in Items : book'[k] - (shelf'[k] + lost'[k] + unsent'[k])
                           = book[k] - (shelf[k] + lost[k] + unsent[k])
    BY <1>0, <1>000
  <2>. QED BY <1>000, <2>1, MovedAlike
<1>1. ASSUME NEW i \in Items, NEW q \in Quantities, NEW l,
             Receive(i, q, l) \/ Return(i, q)
      PROVE  BookInv'
  <2>1. \E type \in {"received", "returned"} : \E m : Record(i, type, q, m)
    BY <1>1 DEF Receive, Return
  <2>2. \A type \in {"received", "returned"} : Delta(type, q) = q BY DEF Delta, Outflows
  <2>3. book'[i] = book[i] + q /\ \A k \in Items \ {i} : book'[k] = book[k]
    BY <1>00, <2>1, <2>2, RecordMoves
  <2>4. ShelfChanges(i, q) /\ count' = count BY <1>1 DEF Receive, Return
  <2>5. /\ shelf'[i] = shelf[i] + q /\ \A k \in Items \ {i} : shelf'[k] = shelf[k]
        /\ lost' = lost /\ unsent' = unsent /\ muddled' = muddled
    BY <2>4 DEF ShelfChanges, StoreTypeOK
  <2>6. \A k \in Items : book'[k] - book[k] = Shift(k) BY <1>0, <1>00, <2>3, <2>5
  <2>. QED BY <1>000, <2>4, <2>5, <2>6
<1>2. ASSUME NEW i \in Items, NEW q \in Quantities, Consume(i, q) \/ Damage(i, q)
      PROVE  BookInv'
  <2>1. \E type \in {"consumed", "damaged"} : Record(i, type, q, NoLevel)
    BY <1>2 DEF Consume, Damage
  <2>2. \A type \in {"consumed", "damaged"} : Delta(type, q) = -q BY DEF Delta, Outflows
  <2>3. book'[i] = book[i] - q /\ \A k \in Items \ {i} : book'[k] = book[k]
    BY <1>0, <1>00, <2>1, <2>2, RecordMoves
  <2>4. ShelfChanges(i, -q) /\ count' = count BY <1>2 DEF Consume, Damage
  <2>5. /\ shelf'[i] = shelf[i] - q /\ \A k \in Items \ {i} : shelf'[k] = shelf[k]
        /\ lost' = lost /\ unsent' = unsent /\ muddled' = muddled
    BY <1>0, <1>00, <2>4 DEF ShelfChanges, StoreTypeOK
  <2>6. \A k \in Items : book'[k] - book[k] = Shift(k) BY <1>0, <1>00, <2>3, <2>5
  <2>. QED BY <1>000, <2>4, <2>5, <2>6
<1>3. ASSUME NEW i \in Items, NEW q \in Int, Adjust(i, q)
      PROVE  BookInv'
  <2>1. Delta("adjusted", q) = q BY DEF Delta, Outflows
  <2>2. book'[i] = book[i] + q /\ \A k \in Items \ {i} : book'[k] = book[k]
    BY <1>3, <2>1, RecordMoves DEF Adjust
  <2>3. /\ lost'[i] = lost[i] + q /\ \A k \in Items \ {i} : lost'[k] = lost[k]
        /\ shelf' = shelf /\ unsent' = unsent /\ muddled' = muddled /\ count' = count
    BY <1>3 DEF Adjust, StoreTypeOK
  <2>4. \A k \in Items : book'[k] - book[k] = Shift(k) BY <1>0, <2>2, <2>3
  <2>. QED BY <1>000, <2>3, <2>4
<1>4. ASSUME NEW i \in Items, NEW j \in Items, NEW q \in Quantities, Transfer(i, j, q)
      PROVE  BookInv'
  <2>1. Delta("transferred_out", q) = -q /\ TransferIn(j, q) = book[j] + q
    BY DEF Delta, TransferIn, Outflows
  <2>2. /\ i # j /\ book' = [book EXCEPT ![i] = book[i] + Delta("transferred_out", q),
                                         ![j] = TransferIn(j, q)]
        /\ shelf' = [shelf EXCEPT ![i] = @ - q, ![j] = @ + q]
        /\ lost' = lost /\ unsent' = unsent /\ muddled' = muddled /\ count' = count
    BY <1>4 DEF Transfer
  <2>3. /\ book'[i] = book[i] - q /\ book'[j] = book[j] + q
        /\ \A k \in Items \ {i, j} : book'[k] = book[k]
    BY <1>0, <1>00, <2>1, <2>2 DEF StoreTypeOK
  <2>4. /\ shelf'[i] = shelf[i] - q /\ shelf'[j] = shelf[j] + q
        /\ \A k \in Items \ {i, j} : shelf'[k] = shelf[k]
    BY <2>2 DEF StoreTypeOK
  <2>5. q \in Int BY <1>00
  <2>6. ASSUME NEW k \in Items PROVE book'[k] - book[k] = Shift(k)
    <3>0. /\ book[k] \in Int /\ shelf[k] \in Int /\ lost[k] \in Int /\ unsent[k] \in Int
          /\ lost'[k] = lost[k] /\ unsent'[k] = unsent[k]
      BY <1>0, <2>2
    <3>1. CASE k = i
      <4>1. book'[k] = book[k] - q /\ shelf'[k] = shelf[k] - q BY <2>3, <2>4, <3>1
      <4>. QED BY <2>5, <3>0, <4>1
    <3>2. CASE k = j
      <4>1. book'[k] = book[k] + q /\ shelf'[k] = shelf[k] + q BY <2>3, <2>4, <3>2
      <4>. QED BY <2>5, <3>0, <4>1
    <3>3. CASE k \notin {i, j} BY <2>3, <2>4, <3>0, <3>3
    <3>. QED BY <3>1, <3>2, <3>3
  <2>. QED BY <1>000, <2>2, <2>6
<1>5. ASSUME NEW i \in Items, NEW q \in Quantities, Vanish(i, q) \/ UseOffline(i, q)
      PROVE  BookInv'
  <2>1. book' = book /\ count' = count /\ muddled' = muddled
    BY <1>5 DEF Vanish, UseOffline, bookVars
  <2>2. CASE Vanish(i, q)
    <3>1. /\ shelf'[i] = shelf[i] - q /\ lost'[i] = lost[i] + q /\ unsent' = unsent
          /\ \A k \in Items \ {i} : shelf'[k] = shelf[k] /\ lost'[k] = lost[k]
      BY <2>2 DEF Vanish, StoreTypeOK
    <3>2. \A k \in Items : book'[k] - book[k] = Shift(k) BY <1>0, <1>00, <2>1, <3>1
    <3>. QED BY <1>000, <2>1, <3>2
  <2>3. CASE UseOffline(i, q)
    <3>1. /\ shelf'[i] = shelf[i] - q /\ unsent[i] = 0 /\ unsent'[i] = q /\ lost' = lost
          /\ \A k \in Items \ {i} : shelf'[k] = shelf[k] /\ unsent'[k] = unsent[k]
      BY <2>3 DEF UseOffline, StoreTypeOK
    <3>2. \A k \in Items : book'[k] - book[k] = Shift(k) BY <1>0, <1>00, <2>1, <3>1
    <3>. QED BY <1>000, <2>1, <3>2
  <2>. QED BY <1>5, <2>2, <2>3
<1>6. ASSUME NEW i \in Items, NEW q \in Quantities, NEW j \in Quantities \cup {0},
             NEW type, PostDelivery(i, q, j, type)
      PROVE  BookInv'
  <2>1. q - j \in Int /\ j \in Int BY <1>00
  <2>2. Delta("received", q - j) = q - j /\ Delta(type, j) \in Int
    BY <2>1, DeltaIsInt DEF Delta, Outflows
  <2>3. /\ book'[i] = book[i] + (q - j) + Delta(type, j)
        /\ \A k \in Items \ {i} : book'[k] = book[k]
    BY <1>6, <2>2 DEF PostDelivery, StoreTypeOK
  <2>4. /\ shelf'[i] = shelf[i] + (q - j) /\ lost'[i] = lost[i] + Delta(type, j)
        /\ \A k \in Items \ {i} : shelf'[k] = shelf[k] /\ lost'[k] = lost[k]
        /\ unsent' = unsent /\ muddled' = muddled /\ count' = count
    BY <1>6 DEF PostDelivery, StoreTypeOK
  <2>5. \A k \in Items : book'[k] - book[k] = Shift(k)
    BY <1>0, <2>1, <2>2, <2>3, <2>4
  <2>. QED BY <1>000, <2>4, <2>5
<1>7. ASSUME NEW i \in Items, SyncUse(i) \/ DropUse(i)
      PROVE  BookInv'
  <2>1. unsent[i] \in Int BY <1>0
  <2>2. CASE SyncUse(i)
    <3>1. Delta("consumed", unsent[i]) = -unsent[i] BY DEF Delta, Outflows
    <3>2. book'[i] = book[i] - unsent[i] /\ \A k \in Items \ {i} : book'[k] = book[k]
      BY <1>0, <2>1, <2>2, <3>1, RecordMoves DEF SyncUse
    <3>3. /\ unsent'[i] = 0 /\ \A k \in Items \ {i} : unsent'[k] = unsent[k]
          /\ shelf' = shelf /\ lost' = lost /\ muddled' = muddled /\ count' = count
      BY <2>2 DEF SyncUse, StoreTypeOK
    <3>4. \A k \in Items : book'[k] - book[k] = Shift(k) BY <1>0, <3>2, <3>3
    <3>. QED BY <1>000, <3>3, <3>4
  <2>3. CASE DropUse(i)
    <3>1. /\ lost'[i] = lost[i] + unsent[i] /\ unsent'[i] = 0
          /\ \A k \in Items \ {i} : lost'[k] = lost[k] /\ unsent'[k] = unsent[k]
          /\ book' = book /\ shelf' = shelf /\ muddled' = muddled /\ count' = count
      BY <2>3 DEF DropUse, bookVars, StoreTypeOK
    <3>2. \A k \in Items : book'[k] - book[k] = Shift(k) BY <1>0, <3>1
    <3>. QED BY <1>000, <3>1, <3>2
  <2>. QED BY <1>7, <2>2, <2>3
<1>8. ASSUME (\E i \in Items : SendAlert(i)) \/ StoreCrash \/ UNCHANGED storeVars
      PROVE  BookInv'
  <2>1. /\ book' = book /\ shelf' = shelf /\ lost' = lost /\ unsent' = unsent
        /\ muddled' = muddled /\ count' = count
    BY <1>8 DEF SendAlert, StoreCrash, shelfVars, storeVars
  <2>. QED BY <2>1 DEF BookInv, Explained
<1>9. ASSUME NEW c \in Counts, RecordCount(c) \/ PostCount(c) \/ \E i \in Items : NoteCount(c, i)
      PROVE  BookInv'
  BY <1>9, NoteExplains, RecordingExplains, PostingExplains
<1>. QED BY <1>00, <1>1, <1>2, <1>3, <1>4, <1>5, <1>6, <1>7, <1>8, <1>9 DEF StoreNext

\* The invariant starts true and says what the run checks.
LEMMA InvExplains ==
  /\ StoreInit => BookInv
  /\ BookInv => BookExplained
<1>1. ASSUME StoreInit PROVE BookInv
  <2>1. \A i \in Items : UnsettledIn(count, i) = {}
    BY <1>1 DEF StoreInit, UnsettledIn, Uncounted
  <2>. QED BY <1>1, <2>1 DEF StoreInit, BookInv, AtMostOne, Explained, VarianceIn
<1>2. \A i \in Items : Variance(i) = VarianceIn(count, i)
  BY Zenon DEF Variance, VarianceIn, Unsettled, UnsettledIn
<1>. QED BY <1>1, <1>2 DEF BookInv, Explained, BookExplained

\* However movements, deliveries, late records, counts and their adjustments
\* interleave, the book of an item that was not muddled differs from the
\* shelf by what is known to be missing (postCountAdjustments).
THEOREM BookAlwaysExplained == StoreSpec => []BookExplained
<1>1. StoreInit => BookInv BY InvExplains
<1>2. StoreTypeOK /\ StoreTypeOK' /\ BookInv /\ [StoreNext]_storeVars => BookInv'
  BY StepExplains
<1>3. BookInv => BookExplained BY InvExplains
<1>. QED BY <1>1, <1>2, <1>3, StoreTypeCorrect, PTL DEF StoreSpec

-----------------------------------------------------------------------------
(* Alerts.                                                                 *)

\* Item i, if low by a level it had from birth, has its alert.
Announced(i) ==
  moved[i] /\ ~relevelled[i] /\ Low(book[i], inflow[i], level[i]) => alert[i] # "none"

\* A movement that makes an item low, or finds it low, leaves it an alert.
LEMMA MovementAnnounces ==
  ASSUME NEW i, NEW b, NEW f, NEW l, Announced(i), Low(b, f, l),
         moved[i] => ~relevelled[i] /\ l = level[i]
  PROVE  AlertAfter(i, b, f, l) # "none"
BY DEF Announced, AlertAfter

\* A movement leaves every item its alert.
LEMMA RecordAnnounces ==
  ASSUME StoreTypeOK, LowIsAnnounced, NEW i \in Items, NEW type, NEW q, NEW l,
         Record(i, type, q, l)
  PROVE  LowIsAnnounced'
<1>. DEFINE b == book[i] + Delta(type, q)
            f == inflow[i] + Inflow(type, q)
            m == LevelAfter(i, l)
<1>1. /\ book' = [book EXCEPT ![i] = b] /\ inflow' = [inflow EXCEPT ![i] = f]
      /\ level' = [level EXCEPT ![i] = m]
      /\ alert' = [alert EXCEPT ![i] = AlertAfter(i, b, f, m)]
      /\ moved' = [moved EXCEPT ![i] = TRUE]
      /\ relevelled' = [relevelled EXCEPT ![i] = @ \/ (moved[i] /\ m # level[i])]
  BY DEF Record
<1>. HIDE DEF b, f, m
<1>2. \A k \in Items : Announced(k) BY DEF LowIsAnnounced, Announced
<1>. SUFFICES ASSUME NEW k \in Items PROVE Announced(k)'
  BY DEF LowIsAnnounced, Announced
<1>3. CASE k # i
  <2>1. /\ book'[k] = book[k] /\ inflow'[k] = inflow[k] /\ level'[k] = level[k]
        /\ alert'[k] = alert[k]
    BY <1>1, <1>3 DEF StoreTypeOK
  <2>2. moved'[k] = moved[k] /\ relevelled'[k] = relevelled[k]
    BY <1>1, <1>3, Zenon DEF StoreTypeOK
  <2>. QED BY <1>2, <2>1, <2>2 DEF Announced
<1>4. CASE k = i
  <2>1. /\ book'[i] = b /\ inflow'[i] = f /\ level'[i] = m
        /\ alert'[i] = AlertAfter(i, b, f, m)
    BY <1>1 DEF StoreTypeOK
  <2>2. relevelled'[i] = (relevelled[i] \/ (moved[i] /\ m # level[i]))
    BY <1>1, Zenon DEF StoreTypeOK
  <2>3. ~relevelled'[i] /\ moved[i] => ~relevelled[i] /\ m = level[i] BY <2>2
  <2>4. ~relevelled'[i] /\ Low(b, f, m) => AlertAfter(i, b, f, m) # "none"
    BY <1>2, <2>3, MovementAnnounces
  <2>. QED BY <1>4, <2>1, <2>4 DEF Announced
<1>. QED BY <1>3, <1>4

\* Both legs of a transfer leave their item its alert.
LEMMA TransferAnnounces ==
  ASSUME StoreTypeOK, LowIsAnnounced, NEW i \in Items, NEW j \in Items, NEW q,
         Transfer(i, j, q)
  PROVE  LowIsAnnounced'
<1>. DEFINE out == book[i] + Delta("transferred_out", q)
            into == TransferIn(j, q)
            m == LevelAfter(j, level[i])
<1>1. /\ i # j /\ book' = [book EXCEPT ![i] = out, ![j] = into] /\ inflow' = inflow
      /\ level' = [level EXCEPT ![j] = m]
      /\ alert' = [alert EXCEPT ![i] = AlertAfter(i, out, inflow[i], level[i]),
                                ![j] = AlertAfter(j, into, inflow[j], m)]
      /\ moved[i] /\ moved' = [moved EXCEPT ![j] = TRUE]
      /\ relevelled' = [relevelled EXCEPT ![j] = @ \/ (moved[j] /\ m # level[j])]
  BY DEF Transfer
<1>. HIDE DEF out, into, m
<1>2. \A k \in Items : Announced(k) BY DEF LowIsAnnounced, Announced
<1>. SUFFICES ASSUME NEW k \in Items PROVE Announced(k)'
  BY DEF LowIsAnnounced, Announced
<1>3. CASE k \notin {i, j}
  <2>1. book'[k] = book[k] /\ level'[k] = level[k] /\ alert'[k] = alert[k]
    BY <1>1, <1>3 DEF StoreTypeOK
  <2>2. moved'[k] = moved[k] /\ relevelled'[k] = relevelled[k]
    BY <1>1, <1>3, Zenon DEF StoreTypeOK
  <2>. QED BY <1>1, <1>2, <2>1, <2>2 DEF Announced
<1>4. CASE k = i
  <2>1. /\ book'[i] = out /\ level'[i] = level[i]
        /\ alert'[i] = AlertAfter(i, out, inflow[i], level[i])
    BY <1>1 DEF StoreTypeOK
  <2>2. relevelled'[i] = relevelled[i] BY <1>1, Zenon DEF StoreTypeOK
  <2>3. ~relevelled[i] /\ Low(out, inflow[i], level[i])
          => AlertAfter(i, out, inflow[i], level[i]) # "none"
    BY <1>2, MovementAnnounces
  <2>. QED BY <1>1, <1>4, <2>1, <2>2, <2>3 DEF Announced
<1>5. CASE k = j
  <2>1. /\ book'[j] = into /\ level'[j] = m /\ alert'[j] = AlertAfter(j, into, inflow[j], m)
    BY <1>1 DEF StoreTypeOK
  <2>2. relevelled'[j] = (relevelled[j] \/ (moved[j] /\ m # level[j]))
    BY <1>1, Zenon DEF StoreTypeOK
  <2>3. ~relevelled'[j] /\ moved[j] => ~relevelled[j] /\ m = level[j] BY <2>2
  <2>4. ~relevelled'[j] /\ Low(into, inflow[j], m) => AlertAfter(j, into, inflow[j], m) # "none"
    BY <1>2, <2>3, MovementAnnounces
  <2>. QED BY <1>1, <1>5, <2>1, <2>4 DEF Announced
<1>. QED BY <1>3, <1>4, <1>5

\* An item that is low has its alert, whatever its quantities and its level,
\* unless the level changed under it or a delivery went past the rule
\* (crossedIntoLowStock, judged on both sides of every movement).
THEOREM LowAlwaysAnnounced == StoreSpec => []LowIsAnnounced
<1>1. StoreInit => LowIsAnnounced BY DEF StoreInit, LowIsAnnounced
<1>2. StoreTypeOK /\ LowIsAnnounced /\ [StoreNext]_storeVars => LowIsAnnounced'
  <2>. SUFFICES ASSUME StoreTypeOK, LowIsAnnounced, [StoreNext]_storeVars
                PROVE  LowIsAnnounced'
    OBVIOUS
  <2>0. ASSUME UNCHANGED bookVars PROVE LowIsAnnounced'
    BY <2>0 DEF bookVars, LowIsAnnounced
  <2>1. ASSUME NEW i \in Items, NEW type, NEW q, NEW l, Record(i, type, q, l)
        PROVE  LowIsAnnounced'
    BY <2>1, RecordAnnounces
  <2>2. ASSUME NEW i \in Items, NEW q, NEW l,
               Receive(i, q, l) \/ Consume(i, q) \/ Return(i, q) \/ Damage(i, q)
                 \/ Adjust(i, q) \/ SyncUse(i)
        PROVE  LowIsAnnounced'
    BY <2>1, <2>2 DEF Receive, Consume, Return, Damage, Adjust, SyncUse
  <2>3. ASSUME NEW i \in Items, NEW j \in Items, NEW q, Transfer(i, j, q)
        PROVE  LowIsAnnounced'
    BY <2>3, TransferAnnounces
  <2>4. ASSUME NEW i \in Items, NEW q, Vanish(i, q) \/ UseOffline(i, q) \/ DropUse(i)
        PROVE  LowIsAnnounced'
    BY <2>0, <2>4 DEF Vanish, UseOffline, DropUse
  <2>5. ASSUME NEW i \in Items, NEW q, NEW j, NEW type, PostDelivery(i, q, j, type)
        PROVE  LowIsAnnounced'
    <3>. SUFFICES ASSUME NEW k \in Items PROVE Announced(k)'
      BY DEF LowIsAnnounced, Announced
    <3>1. CASE k # i
      <4>1. book'[k] = book[k] /\ inflow'[k] = inflow[k] /\ level' = level /\ alert' = alert
        BY <2>5, <3>1 DEF PostDelivery, StoreTypeOK
      <4>2. moved'[k] = moved[k] /\ relevelled'[k] = relevelled[k]
        BY <2>5, <3>1, Zenon DEF PostDelivery, StoreTypeOK
      <4>. QED BY <4>1, <4>2 DEF LowIsAnnounced, Announced
    <3>2. CASE k = i
      <4>1. relevelled'[k] BY <2>5, <3>2, Zenon DEF PostDelivery, StoreTypeOK
      <4>. QED BY <4>1 DEF Announced
    <3>. QED BY <3>1, <3>2
  <2>6. ASSUME (\E i \in Items : SendAlert(i)) \/ StoreCrash
        PROVE  LowIsAnnounced'
    <3>1. /\ book' = book /\ inflow' = inflow /\ level' = level /\ moved' = moved
          /\ relevelled' = relevelled
      BY <2>6 DEF SendAlert, StoreCrash
    <3>2. \A k \in Items : alert[k] # "none" => alert'[k] # "none"
      BY <2>6 DEF SendAlert, StoreCrash, StoreTypeOK
    <3>. QED BY <3>1, <3>2 DEF LowIsAnnounced
  <2>7. ASSUME NEW c \in Counts, RecordCount(c) \/ \E i \in Items : NoteCount(c, i)
        PROVE  LowIsAnnounced'
    BY <2>0, <2>7 DEF RecordCount, NoteCount
  <2>8. ASSUME NEW c \in Counts, PostCount(c)
        PROVE  LowIsAnnounced'
    <3>1. count[c].item \in Items BY <2>8, SessionFields DEF PostCount, Postable
    <3>2. \/ UNCHANGED bookVars
          \/ \E by : Record(count[c].item, "adjusted", by, NoLevel)
      BY <2>8, Zenon DEF PostCount
    <3>. QED BY <2>0, <2>1, <3>1, <3>2
  <2>9. ASSUME UNCHANGED storeVars PROVE LowIsAnnounced'
    BY <2>0, <2>9 DEF storeVars, bookVars
  <2>. QED
    BY <2>2, <2>3, <2>4, <2>5, <2>6, <2>7, <2>8, <2>9 DEF StoreNext
<1>. QED BY <1>1, <1>2, StoreTypeCorrect, PTL DEF StoreSpec
=============================================================================
