---------------------------- MODULE Money_proofs ----------------------------
(***************************************************************************)
(* Proofs about Money: what a posting does to a ledger that project flows, *)
(* invoices and wallets share, which of its transactions are the           *)
(* project's, the wallets' solvency, what is refused, what invoices are    *)
(* paid, and of all of it together: that it keeps the promise of the       *)
(* ledger, that the ledger backs the cached escrow balance, and that the   *)
(* report rows and the decisions go with what is posted.                   *)
(***************************************************************************)
EXTENDS Money, SequenceTheorems, TLAPS

\* Manual journals name no wallet's account.
JournalsApart == JournalAccounts \cap Wallets = {}

\* Whatever posts under a key.
DepositKeys ==
  {DepositKey(w, n, ref) :
     w \in Wallets, n \in WalletAmounts, ref \in DepositRefs \cup {NoReference}}
MoneyKeys ==
  Keys \cup {NoKey} \cup {InvoiceKey(i) : i \in Invoices} \cup Movements \cup DepositKeys

LedgerRow == [key : MoneyKeys, dr : Accounts, cr : Accounts, debit : Nat,
              credit : Nat, reverses : Nat, status : {"posted", "reversed"}]

BooksOK == ledger \in Seq(LedgerRow) /\ sums \in [Accounts -> Int]

-----------------------------------------------------------------------------
(* Postings.                                                               *)

\* Transaction i of the ledger is kept but for its status.
SameRow(i) ==
  /\ i \in 1..Len(ledger')
  /\ ledger'[i].key = ledger[i].key /\ ledger'[i].debit = ledger[i].debit
  /\ ledger'[i].dr = ledger[i].dr /\ ledger'[i].cr = ledger[i].cr

\* Transaction i is what legs l were posted as under key.
NewRow(i, key, l) ==
  /\ ledger'[i].key = key /\ ledger'[i].debit = l.debit
  /\ ledger'[i].dr = l.dr /\ ledger'[i].cr = l.cr

\* Marking an original touches its status only.
LEMMA MarkedIsKept ==
  ASSUME ledger \in Seq(LedgerRow), NEW of
  PROVE  /\ MarkReversed(of) \in Seq(LedgerRow)
         /\ Len(MarkReversed(of)) = Len(ledger)
         /\ \A i \in 1..Len(ledger) :
              /\ MarkReversed(of)[i].key = ledger[i].key
              /\ MarkReversed(of)[i].debit = ledger[i].debit
              /\ MarkReversed(of)[i].dr = ledger[i].dr
              /\ MarkReversed(of)[i].cr = ledger[i].cr
<1>. DEFINE n == Len(ledger)
<1>1. n \in Nat /\ DOMAIN ledger = 1..n /\ \A i \in 1..n : ledger[i] \in LedgerRow
  BY LenProperties, ElementOfSeq
<1>2. \A t \in LedgerRow :
        /\ [t EXCEPT !.status = "reversed"] \in LedgerRow
        /\ [t EXCEPT !.status = "reversed"].key = t.key
        /\ [t EXCEPT !.status = "reversed"].debit = t.debit
        /\ [t EXCEPT !.status = "reversed"].dr = t.dr
        /\ [t EXCEPT !.status = "reversed"].cr = t.cr
  BY DEF LedgerRow
<1>3. MarkReversed(of) \in [1..n -> LedgerRow] BY <1>1, <1>2 DEF MarkReversed
<1>4. MarkReversed(of) \in Seq(LedgerRow) BY <1>1, <1>3, SeqDef
<1>5. Len(MarkReversed(of)) = n BY <1>1, <1>3, <1>4, LenProperties
<1>. QED BY <1>1, <1>2, <1>4, <1>5 DEF MarkReversed

\* What everybody who posts relies on: nothing recorded is lost or changed
\* but for its status, there is at most one new transaction, and the answer
\* names the transaction of the key (postLedgerTransactionInTx).
LEMMA PostEffect ==
  ASSUME BooksOK, NEW key \in MoneyKeys, NEW l \in Lines, NEW of \in Nat,
         Post(key, l, of)
  PROVE  /\ BooksOK'
         /\ Len(ledger) \in Nat /\ Len(ledger') \in Nat /\ Len(ledger) <= Len(ledger')
         /\ DOMAIN ledger = 1..Len(ledger) /\ DOMAIN ledger' = 1..Len(ledger')
         /\ \A i \in 1..Len(ledger) : SameRow(i)
         /\ TxnId(key) \in 1..Len(ledger')
         /\ \A i \in 1..Len(ledger') : i \notin 1..Len(ledger) =>
              ~Replays(key) /\ i = TxnId(key) /\ NewRow(i, key, l)
         /\ Replays(key) =>
              TxnId(key) \in PriorTxns(key) /\ ledger' = ledger /\ sums' = sums
         /\ ~Replays(key) =>
              /\ TxnId(key) \notin 1..Len(ledger) /\ NewRow(TxnId(key), key, l)
              /\ \A a \in Accounts : sums'[a] = sums[a] + Effect(l, a)
<1>1. /\ Len(ledger) \in Nat /\ DOMAIN ledger = 1..Len(ledger)
      /\ \A i \in 1..Len(ledger) : ledger[i] \in LedgerRow
  BY LenProperties, ElementOfSeq DEF BooksOK
<1>2. CASE Replays(key)
  <2>1. ledger' = ledger /\ sums' = sums BY <1>2 DEF Post, ledgerVars
  <2>2. TxnId(key) \in PriorTxns(key) BY <1>2 DEF TxnId, Replays
  <2>3. TxnId(key) \in 1..Len(ledger) BY <1>1, <2>2 DEF PriorTxns
  <2>. QED BY <1>1, <1>2, <2>1, <2>2, <2>3 DEF SameRow, BooksOK
<1>3. CASE ~Replays(key)
  <2>. DEFINE M == MarkReversed(of)
              t == NewTxn(key, l, of)
              k == Len(ledger) + 1
  <2>1. ledger' = Append(M, t) /\ sums' = [a \in Accounts |-> sums[a] + Effect(l, a)]
    BY <1>3 DEF Post
  <2>2. t \in LedgerRow BY DEF NewTxn, LedgerRow, Lines
  <2>3. /\ M \in Seq(LedgerRow) /\ Len(M) = Len(ledger)
        /\ \A i \in 1..Len(ledger) :
             M[i].key = ledger[i].key /\ M[i].debit = ledger[i].debit
             /\ M[i].dr = ledger[i].dr /\ M[i].cr = ledger[i].cr
    BY MarkedIsKept DEF BooksOK
  <2>4. t.key = key /\ t.debit = l.debit /\ t.dr = l.dr /\ t.cr = l.cr BY DEF NewTxn
  <2>. HIDE DEF M, t
  <2>5. /\ ledger' \in Seq(LedgerRow) /\ Len(ledger') = k /\ ledger'[k] = t
        /\ \A i \in 1..Len(ledger) : ledger'[i] = M[i]
    BY <1>1, <2>1, <2>2, <2>3
  <2>6. DOMAIN ledger' = 1..k BY <2>5, LenProperties
  <2>7. TxnId(key) = k BY <1>3 DEF TxnId
  <2>8. \A a \in Accounts : Effect(l, a) \in Int BY DEF Effect, Lines
  <2>9. /\ sums' \in [Accounts -> Int]
        /\ \A a \in Accounts : sums'[a] = sums[a] + Effect(l, a)
    BY <2>1, <2>8 DEF BooksOK
  <2>10. \A i \in 1..Len(ledger) : SameRow(i) BY <1>1, <2>3, <2>5 DEF SameRow
  <2>11. NewRow(k, key, l) BY <2>4, <2>5 DEF NewRow
  <2>12. /\ k \in 1..k /\ k \notin 1..Len(ledger) /\ Len(ledger) <= k /\ k \in Nat
         /\ \A i \in 1..k : i \notin 1..Len(ledger) => i = k
    BY <1>1
  <2>. QED
    BY <1>1, <1>3, <2>5, <2>6, <2>7, <2>9, <2>10, <2>11, <2>12 DEF BooksOK
<1>. QED BY <1>2, <1>3

-----------------------------------------------------------------------------
(* Kinds of keys.                                                          *)

WalletKinds == {"wallet.deposit", "wallet.withdraw", "wallet.transfer"}

\* A key under which no wallet moves.
OfProject(key) == key # NoKey /\ key[1] \notin WalletKinds

\* What escrow flows and journals post under.
ProjectKeys == Keys \cup {NoKey}

LEMMA KeyKinds ==
  /\ \A ref \in TopupRefs : TopupKey(ref) \in MoneyKeys /\ TopupKey(ref)[1] = "escrow.topup"
  /\ \A m \in Milestones :
       ReleaseKey(m) \in MoneyKeys /\ ReleaseKey(m)[1] = "milestone.release"
  /\ \A r \in Requests : PayKey(r) \in MoneyKeys /\ PayKey(r)[1] = "payment.request"
  /\ \A i \in Invoices : InvoiceKey(i) \in MoneyKeys /\ InvoiceKey(i)[1] = "invoice.pay"
<1>1. \A ref \in TopupRefs : TopupKey(ref) \in MoneyKeys /\ TopupKey(ref)[1] = "escrow.topup"
  BY DEF MoneyKeys, Keys, TopupKey
<1>2. \A m \in Milestones :
        ReleaseKey(m) \in MoneyKeys /\ ReleaseKey(m)[1] = "milestone.release"
  BY DEF MoneyKeys, Keys, ReleaseKey
<1>3. \A r \in Requests : PayKey(r) \in MoneyKeys /\ PayKey(r)[1] = "payment.request"
  BY DEF MoneyKeys, Keys, PayKey
<1>4. \A i \in Invoices : InvoiceKey(i) \in MoneyKeys /\ InvoiceKey(i)[1] = "invoice.pay"
  BY DEF MoneyKeys, InvoiceKey
<1>. QED BY <1>1, <1>2, <1>3, <1>4

LEMMA WalletKeyKinds ==
  ASSUME NEW w \in Wallets, NEW n \in WalletAmounts
  PROVE  /\ \A ref \in DepositRefs \cup {NoReference} :
              /\ DepositKey(w, n, ref) \in MoneyKeys
              /\ DepositKey(w, n, ref) = NoKey \/ DepositKey(w, n, ref)[1] = "wallet.deposit"
         /\ \A note \in Notes :
              /\ WithdrawKey(w, n, note) \in Movements
              /\ WithdrawKey(w, n, note)[1] = "wallet.withdraw"
              /\ \A v \in Wallets : /\ TransferKey(v, w, n, note) \in Movements
                                    /\ TransferKey(v, w, n, note)[1] = "wallet.transfer"
<1>1. \A ref \in DepositRefs \cup {NoReference} :
        /\ DepositKey(w, n, ref) \in MoneyKeys
        /\ DepositKey(w, n, ref) = NoKey \/ DepositKey(w, n, ref)[1] = "wallet.deposit"
  <2>. SUFFICES ASSUME NEW ref \in DepositRefs \cup {NoReference}
                PROVE  /\ DepositKey(w, n, ref) \in MoneyKeys
                       /\ DepositKey(w, n, ref) = NoKey
                            \/ DepositKey(w, n, ref)[1] = "wallet.deposit"
    OBVIOUS
  <2>1. DepositKey(w, n, ref) \in MoneyKeys BY DEF MoneyKeys, DepositKeys
  <2>2. CASE ref = NoReference BY <2>1, <2>2 DEF DepositKey
  <2>3. CASE ref # NoReference
    <3>1. DepositKey(w, n, ref) = <<"wallet.deposit", w, n, ref>> BY <2>3 DEF DepositKey
    <3>. QED BY <2>1, <3>1
  <2>. QED BY <2>2, <2>3
<1>2. \A note \in Notes :
        /\ WithdrawKey(w, n, note) \in Movements
        /\ WithdrawKey(w, n, note)[1] = "wallet.withdraw"
  BY DEF Movements, WithdrawKey
<1>3. \A note \in Notes, v \in Wallets :
        /\ TransferKey(v, w, n, note) \in Movements
        /\ TransferKey(v, w, n, note)[1] = "wallet.transfer"
  BY DEF Movements, TransferKey
<1>. QED BY <1>1, <1>2, <1>3

\* The project's own accounts are no wallet's.
LEMMA AccountsApart ==
  /\ {"CASH", "ESCROW", "EXPENSE"} \subseteq Accounts /\ Wallets \subseteq Accounts
  /\ "CASH" \notin Wallets /\ "ESCROW" \notin Wallets /\ "EXPENSE" \notin Wallets
BY WalletAssumption DEF Accounts

-----------------------------------------------------------------------------
(* The transactions of the project, and what points at them.               *)

\* Neither leg of transaction i of ledger L is on a wallet's account.
IsProject(L, i) == L[i].dr \notin Wallets /\ L[i].cr \notin Wallets

\* Legs l are on the project's accounts.
ProjectLines(l) == l.dr \notin Wallets /\ l.cr \notin Wallets

\* What is posted under a key of the project's is on its accounts, and so is
\* what a report row names.
ProjectOK ==
  /\ \A i \in 1..Len(ledger) : OfProject(ledger[i].key) => IsProject(ledger, i)
  /\ rows \in Seq(1..Len(ledger))
  /\ \A k \in DOMAIN rows : IsProject(ledger, rows[k])
  /\ \A j, k \in DOMAIN rows : rows[j] = rows[k] => j = k

\* A request in flight has a target of its kind; a reversal, a transaction of
\* the project's.
CallsOK ==
  /\ DOMAIN call = Procs
  /\ \A p \in Procs :
       /\ call[p].op \in MilestoneOps => call[p].id \in Milestones
       /\ call[p].op \in RequestOps => call[p].id \in Requests
       /\ call[p].op = "reverse" =>
            call[p].id \in 1..Len(ledger) /\ IsProject(ledger, call[p].id)

\* The wallets' accounts hold nothing negative: debits - credits <= 0.
Solvent == \A w \in Wallets : sums[w] <= 0

\* Transaction t has a row in the end, and the old rows stay.
LEMMA RowHeld ==
  ASSUME NEW S, rows \in Seq(S), NEW t
  PROVE  /\ \A j \in DOMAIN rows : j \in DOMAIN RowsWith(t) /\ RowsWith(t)[j] = rows[j]
         /\ \E j \in DOMAIN RowsWith(t) : RowsWith(t)[j] = t
<1>1. CASE \E j \in DOMAIN rows : rows[j] = t BY <1>1 DEF RowsWith
<1>2. CASE ~\E j \in DOMAIN rows : rows[j] = t
  <2>1. RowsWith(t) = Append(rows, t) BY <1>2 DEF RowsWith
  <2>2. Len(rows) \in Nat /\ DOMAIN rows = 1..Len(rows) BY LenProperties
  <2>3. Append(rows, t) \in Seq(S \cup {t}) BY SeqMonotonic, AppendProperties
  <2>4. DOMAIN Append(rows, t) = 1..Len(rows) + 1 BY <2>2, <2>3, LenProperties
  <2>. QED BY <2>1, <2>2, <2>4
<1>. QED BY <1>1, <1>2

\* Rows that get one for transaction t: the old ones stay.
LEMMA RowAdded ==
  ASSUME NEW n \in Nat, NEW k \in Nat, n <= k, rows \in Seq(1..n), NEW t \in 1..k
  PROVE  /\ RowsWith(t) \in Seq(1..k)
         /\ \A j \in DOMAIN RowsWith(t) :
              RowsWith(t)[j] = t \/ (j \in DOMAIN rows /\ RowsWith(t)[j] = rows[j])
         /\ \A j \in DOMAIN rows : j \in DOMAIN RowsWith(t) /\ RowsWith(t)[j] = rows[j]
         /\ (\A i, j \in DOMAIN rows : rows[i] = rows[j] => i = j) =>
              \A i, j \in DOMAIN RowsWith(t) : RowsWith(t)[i] = RowsWith(t)[j] => i = j
<1>1. rows \in Seq(1..k) BY SeqMonotonic
<1>2. Len(rows) \in Nat /\ DOMAIN rows = 1..Len(rows) BY <1>1, LenProperties
<1>3. CASE \E j \in DOMAIN rows : rows[j] = t BY <1>1, <1>3 DEF RowsWith
<1>4. CASE ~\E j \in DOMAIN rows : rows[j] = t
  <2>1. RowsWith(t) = Append(rows, t) BY <1>4 DEF RowsWith
  <2>2. /\ Append(rows, t) \in Seq(1..k)
        /\ Len(Append(rows, t)) = Len(rows) + 1
        /\ Append(rows, t)[Len(rows) + 1] = t
        /\ \A j \in 1..Len(rows) : Append(rows, t)[j] = rows[j]
    BY <1>1, <1>2
  <2>3. DOMAIN Append(rows, t) = 1..Len(rows) + 1 BY <1>2, <2>2, LenProperties
  <2>4. \A j \in 1..Len(rows) : Append(rows, t)[j] # t BY <1>2, <1>4, <2>2
  <2>5. ASSUME \A i, j \in DOMAIN rows : rows[i] = rows[j] => i = j,
               NEW i \in 1..Len(rows) + 1, NEW j \in 1..Len(rows) + 1,
               Append(rows, t)[i] = Append(rows, t)[j]
        PROVE  i = j
    <3>1. i \in 1..Len(rows) \/ i = Len(rows) + 1 BY <1>2
    <3>2. j \in 1..Len(rows) \/ j = Len(rows) + 1 BY <1>2
    <3>. QED BY <1>2, <2>2, <2>4, <2>5, <3>1, <3>2
  <2>6. /\ \A j \in DOMAIN Append(rows, t) :
             Append(rows, t)[j] = t \/ (j \in DOMAIN rows /\ Append(rows, t)[j] = rows[j])
        /\ \A j \in DOMAIN rows : j \in DOMAIN Append(rows, t) /\ Append(rows, t)[j] = rows[j]
    BY <1>2, <2>2, <2>3
  <2>. QED BY <2>1, <2>2, <2>3, <2>5, <2>6
<1>. QED BY <1>3, <1>4

\* A row that stays keeps its accounts and its key.
LEMMA ProjectStays ==
  ASSUME NEW i \in 1..Len(ledger), SameRow(i)
  PROVE  /\ IsProject(ledger', i) <=> IsProject(ledger, i)
         /\ OfProject(ledger'[i].key) <=> OfProject(ledger[i].key)
BY DEF SameRow, IsProject, OfProject

\* A step keeps the ledger's transactions and the report's rows, and adds
\* transactions under keys of K only.
Grows(K) ==
  /\ \A i \in 1..Len(ledger) : SameRow(i)
  /\ \A i \in 1..Len(ledger') : i \notin 1..Len(ledger) => ledger'[i].key \in K
  /\ \A j \in DOMAIN rows : j \in DOMAIN rows' /\ rows'[j] = rows[j]

LEMMA GrowsMore ==
  ASSUME NEW K, NEW L, K \subseteq L, Grows(K) PROVE Grows(L)
BY DEF Grows

\* A posting on the project's accounts, under a key of its own or none, with
\* or without a report row.
LEMMA ProjectPosting ==
  ASSUME BooksOK, ProjectOK, Solvent, NEW key \in MoneyKeys, NEW l \in Lines, NEW of \in Nat,
         Post(key, l, of), ProjectLines(l), key = NoKey \/ OfProject(key),
         rows' = rows \/ rows' = RowsWith(TxnId(key))
  PROVE  BooksOK' /\ ProjectOK' /\ Solvent' /\ Grows({key})
<1>. DEFINE t == TxnId(key)
            n == Len(ledger)
            m == Len(ledger')
<1>1. /\ BooksOK' /\ n \in Nat /\ m \in Nat /\ n <= m /\ t \in 1..m
      /\ \A i \in 1..n : SameRow(i)
      /\ \A i \in 1..m : i \notin 1..n => i = t /\ NewRow(i, key, l)
      /\ Replays(key) => t \in PriorTxns(key) /\ ledger' = ledger /\ sums' = sums
      /\ ~Replays(key) => t \notin 1..n /\ NewRow(t, key, l)
                          /\ \A a \in Accounts : sums'[a] = sums[a] + Effect(l, a)
      /\ DOMAIN ledger = 1..n
  BY PostEffect
<1>. HIDE DEF t, n, m
<1>2. IsProject(ledger', t)
  <2>1. CASE Replays(key)
    <3>1. t \in 1..n /\ key # NoKey /\ ledger[t].key = key BY <1>1, <2>1 DEF PriorTxns
    <3>2. IsProject(ledger, t) BY <3>1 DEF ProjectOK, n
    <3>. QED BY <1>1, <2>1, <3>2 DEF IsProject
  <2>2. CASE ~Replays(key) BY <1>1, <2>2 DEF NewRow, ProjectLines, IsProject
  <2>. QED BY <2>1, <2>2
<1>3. \A i \in 1..n : IsProject(ledger', i) <=> IsProject(ledger, i) BY <1>1, ProjectStays DEF n
<1>4. ASSUME NEW i \in 1..m, OfProject(ledger'[i].key) PROVE IsProject(ledger', i)
  <2>1. CASE i \in 1..n BY <1>1, <1>3, <1>4, <2>1, ProjectStays DEF ProjectOK, n
  <2>2. CASE i \notin 1..n BY <1>1, <1>2, <2>2
  <2>. QED BY <2>1, <2>2
<1>5. /\ rows' \in Seq(1..m) /\ \A k \in DOMAIN rows' : IsProject(ledger', rows'[k])
      /\ \A j, k \in DOMAIN rows' : rows'[j] = rows'[k] => j = k
      /\ \A j \in DOMAIN rows : j \in DOMAIN rows' /\ rows'[j] = rows[j]
  <2>1. /\ rows \in Seq(1..n) /\ Len(rows) \in Nat /\ DOMAIN rows = 1..Len(rows)
        /\ \A k \in DOMAIN rows : rows[k] \in 1..n /\ IsProject(ledger, rows[k])
        /\ \A j, k \in DOMAIN rows : rows[j] = rows[k] => j = k
    BY LenProperties, ElementOfSeq DEF ProjectOK, n
  <2>2. CASE rows' = rows
    <3>1. rows \in Seq(1..m) BY <1>1, <2>1, SeqMonotonic
    <3>. QED BY <1>3, <2>1, <2>2, <3>1
  <2>3. CASE rows' = RowsWith(t)
    <3>1. /\ RowsWith(t) \in Seq(1..m)
          /\ \A j \in DOMAIN RowsWith(t) :
               RowsWith(t)[j] = t \/ (j \in DOMAIN rows /\ RowsWith(t)[j] = rows[j])
          /\ \A j \in DOMAIN rows : j \in DOMAIN RowsWith(t) /\ RowsWith(t)[j] = rows[j]
          /\ \A i, j \in DOMAIN RowsWith(t) : RowsWith(t)[i] = RowsWith(t)[j] => i = j
      BY <1>1, <2>1, RowAdded
    <3>. QED BY <1>2, <1>3, <2>1, <2>3, <3>1
  <2>. QED BY <2>2, <2>3 DEF t
<1>6. Solvent'
  <2>1. \A w \in Wallets : Effect(l, w) = 0 BY DEF Effect, ProjectLines
  <2>2. \A w \in Wallets : sums'[w] = sums[w]
    <3>1. \A w \in Wallets : sums[w] \in Int BY AccountsApart DEF BooksOK
    <3>. QED BY <1>1, <2>1, <3>1, AccountsApart
  <2>. QED BY <2>2 DEF Solvent
<1>7. ProjectOK' BY <1>4, <1>5 DEF ProjectOK, m
<1>8. Grows({key}) BY <1>1, <1>5 DEF Grows, NewRow, n, m
<1>. QED BY <1>1, <1>6, <1>7, <1>8

-----------------------------------------------------------------------------
(* The escrow flows.                                                       *)

AccountsOK == BooksOK /\ ProjectOK /\ Solvent

\* A call that ends, or none, leaves the others their targets.
LEMMA CallsStay ==
  ASSUME CallsOK, \A i \in 1..Len(ledger) : SameRow(i),
         call' = call \/ \E p \in Procs : Answer(p)
  PROVE  CallsOK'
<1>1. /\ DOMAIN call' = Procs
      /\ \A q \in Procs : call'[q] = call[q] \/ call'[q] = NoCall
  BY DEF CallsOK, Answer
<1>2. NoCall.op \notin MilestoneOps \cup RequestOps \cup {"reverse"}
  BY DEF NoCall, MilestoneOps, RequestOps
<1>3. \A i \in 1..Len(ledger) :
        i \in 1..Len(ledger') /\ (IsProject(ledger, i) => IsProject(ledger', i))
  BY DEF SameRow, IsProject
<1>. QED BY <1>1, <1>2, <1>3 DEF CallsOK

\* A call that starts brings a target of its kind.
LEMMA CallStarts ==
  ASSUME CallsOK, ledger' = ledger, NEW p \in Procs, NEW op, NEW id, NEW seen,
         Suspend(p, op, id, seen),
         op \in MilestoneOps => id \in Milestones,
         op \in RequestOps => id \in Requests,
         op = "reverse" => id \in 1..Len(ledger) /\ IsProject(ledger, id)
  PROVE  CallsOK'
<1>1. /\ DOMAIN call' = Procs
      /\ \A q \in Procs \ {p} : call'[q] = call[q]
      /\ call'[p].op = op /\ call'[p].id = id
  BY DEF CallsOK, Suspend
<1>. QED BY <1>1 DEF CallsOK

\* Books and rows that stay keep everything said of them.
LEMMA BooksStay ==
  ASSUME AccountsOK, UNCHANGED <<ledger, sums, rows>>, NEW K
  PROVE  AccountsOK' /\ Grows(K) /\ \A i \in 1..Len(ledger) : SameRow(i)
<1>1. AccountsOK' BY DEF AccountsOK, BooksOK, ProjectOK, Solvent
<1>2. \A i \in 1..Len(ledger) : SameRow(i) BY DEF SameRow
<1>. QED BY <1>1, <1>2 DEF Grows

LEMMA PostedRowsStay ==
  ASSUME BooksOK, NEW key \in MoneyKeys, NEW l \in Lines, NEW of \in Nat, Post(key, l, of)
  PROVE  \A i \in 1..Len(ledger) : SameRow(i)
BY PostEffect

\* The legs every flow of the project posts.
LEMMA ProjectLegs ==
  ASSUME NEW n \in Nat
  PROVE  /\ TwoLegs("CASH", "ESCROW", n) \in Lines /\ ProjectLines(TwoLegs("CASH", "ESCROW", n))
         /\ TwoLegs("ESCROW", "EXPENSE", n) \in Lines
         /\ ProjectLines(TwoLegs("ESCROW", "EXPENSE", n))
         /\ TwoLegs("EXPENSE", "CASH", n) \in Lines /\ ProjectLines(TwoLegs("EXPENSE", "CASH", n))
BY AccountsApart DEF TwoLegs, Lines, ProjectLines

\* A spend of the project, whatever its rows.
LEMMA SpendKeeps ==
  ASSUME AccountsOK, NEW key \in MoneyKeys, key = NoKey \/ OfProject(key), NEW n \in Nat,
         SpendEscrow(key, n) \/ SpendExternal(key, n), rows' = RowsWith(TxnId(key))
  PROVE  AccountsOK' /\ Grows({key}) /\ \A i \in 1..Len(ledger) : SameRow(i)
<1>1. \E l \in Lines : ProjectLines(l) /\ Post(key, l, 0)
  BY ProjectLegs DEF SpendEscrow, SpendExternal
<1>2. PICK l \in Lines : ProjectLines(l) /\ Post(key, l, 0) BY <1>1
<1>. QED BY <1>2, ProjectPosting, PostedRowsStay DEF AccountsOK

\* The escrow flows leave the wallets alone and know what they work on.
LEMMA EscrowStep ==
  ASSUME JournalsApart, AccountsOK, CallsOK, [Next]_vars
  PROVE  AccountsOK' /\ CallsOK' /\ Grows(ProjectKeys)
<1>1. ASSUME NEW ref \in TopupRefs, NEW n \in TopupAmounts, Topup(ref, n)
      PROVE  AccountsOK' /\ CallsOK' /\ Grows(ProjectKeys)
  <2>1. n \in Nat BY TargetsAssumption
  <2>2. /\ Post(TopupKey(ref), TwoLegs("CASH", "ESCROW", n), 0)
        /\ rows' = rows /\ call' = call
    BY <1>1 DEF Topup
  <2>3. TopupKey(ref) \in MoneyKeys /\ {TopupKey(ref)} \subseteq ProjectKeys
         /\ (TopupKey(ref) = NoKey \/ OfProject(TopupKey(ref)))
    BY KeyKinds DEF OfProject, WalletKinds, ProjectKeys, Keys
  <2>4. /\ TwoLegs("CASH", "ESCROW", n) \in Lines
        /\ ProjectLines(TwoLegs("CASH", "ESCROW", n))
    BY <2>1, ProjectLegs
  <2>. QED BY <2>2, <2>3, <2>4, ProjectPosting, PostedRowsStay, CallsStay, GrowsMore DEF AccountsOK
<1>2. ASSUME NEW dr \in JournalAccounts, NEW cr \in JournalAccounts,
             NEW n \in JournalAmounts, NEW k \in JournalAmounts, Journal(dr, cr, n, k)
      PROVE  AccountsOK' /\ CallsOK' /\ Grows(ProjectKeys)
  <2>. DEFINE l == [dr |-> dr, cr |-> cr, debit |-> n, credit |-> k]
  <2>1. l \in Lines /\ ProjectLines(l)
    BY TargetsAssumption DEF Lines, ProjectLines, JournalsApart
  <2>2. Post(NoKey, l, 0) /\ rows' = rows /\ call' = call BY <1>2 DEF Journal
  <2>3. NoKey \in MoneyKeys /\ {NoKey} \subseteq ProjectKeys BY DEF MoneyKeys, ProjectKeys
  <2>. HIDE DEF l
  <2>. QED BY <2>1, <2>2, <2>3, ProjectPosting, PostedRowsStay, CallsStay, GrowsMore DEF AccountsOK
<1>3. ASSUME NEW m \in Milestones, CreateMilestone(m)
      PROVE  AccountsOK' /\ CallsOK' /\ Grows(ProjectKeys)
  BY <1>3, BooksStay, CallsStay DEF CreateMilestone
<1>4. ASSUME NEW r \in Requests, CreateRequest(r)
      PROVE  AccountsOK' /\ CallsOK' /\ Grows(ProjectKeys)
  BY <1>4, BooksStay, CallsStay DEF CreateRequest
<1>5. ASSUME NEW p \in Procs, NEW m \in Milestones,
             \/ ReadEvidence(p, m) \/ ReadRequestRelease(p, m)
             \/ ReadApprove(p, m) \/ ReadReject(p, m)
      PROVE  AccountsOK' /\ CallsOK' /\ Grows(ProjectKeys)
  <2>1. PICK op \in MilestoneOps, expected \in SUBSET MilestoneStatus :
          ReadMilestone(p, m, op, expected)
    BY <1>5 DEF ReadEvidence, ReadRequestRelease, ReadApprove, ReadReject, MilestoneOps,
                MilestoneStatus
  <2>2. /\ Suspend(p, op, m, milestone[m]) /\ UNCHANGED <<ledger, sums, rows>>
        /\ op \notin RequestOps /\ op # "reverse"
    BY <2>1 DEF ReadMilestone, MilestoneOps, RequestOps
  <2>3. CallsOK' BY <2>2, CallStarts
  <2>. QED BY <2>2, <2>3, BooksStay
<1>6. ASSUME NEW p \in Procs,
             WriteEvidence(p) \/ WriteRequestRelease(p) \/ WriteReject(p) \/ WriteDecision(p)
      PROVE  AccountsOK' /\ CallsOK' /\ Grows(ProjectKeys)
  <2>1. Answer(p) /\ UNCHANGED <<ledger, sums, rows>>
    BY <1>6 DEF WriteEvidence, WriteRequestRelease, WriteReject, WriteMilestone, WriteDecision
  <2>. QED BY <2>1, BooksStay, CallsStay
<1>7. ASSUME NEW p \in Procs, ReleaseRefused(p) \/ PayRefused(p) \/ ReverseRefused(p)
      PROVE  AccountsOK' /\ CallsOK' /\ Grows(ProjectKeys)
  <2>1. Answer(p) /\ UNCHANGED <<ledger, sums, rows>>
    BY <1>7 DEF ReleaseRefused, PayRefused, ReverseRefused, Throw
  <2>. QED BY <2>1, BooksStay, CallsStay
<1>8. ASSUME NEW p \in Procs, NEW r \in Requests, ReadDecision(p, r) \/ ReadPay(p, r)
      PROVE  AccountsOK' /\ CallsOK' /\ Grows(ProjectKeys)
  <2>1. PICK op \in RequestOps, expected \in RequestStatus : ReadRequest(p, r, op, expected)
    BY <1>8 DEF ReadDecision, ReadPay, RequestOps, RequestStatus
  <2>2. /\ Suspend(p, op, r, request[r]) /\ UNCHANGED <<ledger, sums, rows>>
        /\ op \notin MilestoneOps /\ op # "reverse"
    BY <2>1 DEF ReadRequest, MilestoneOps, RequestOps
  <2>3. CallsOK' BY <2>2, CallStarts
  <2>. QED BY <2>2, <2>3, BooksStay
<1>9. ASSUME NEW p \in Procs, NEW k \in DOMAIN rows, ReadReversal(p, k)
      PROVE  AccountsOK' /\ CallsOK' /\ Grows(ProjectKeys)
  <2>1. rows[k] \in 1..Len(ledger) /\ IsProject(ledger, rows[k])
    BY LenProperties, ElementOfSeq DEF AccountsOK, ProjectOK
  <2>2. /\ Suspend(p, "reverse", rows[k], ledger[rows[k]].status)
        /\ UNCHANGED <<ledger, sums, rows>>
    BY <1>9 DEF ReadReversal
  <2>3. CallsOK' BY <2>1, <2>2, CallStarts DEF MilestoneOps, RequestOps
  <2>. QED BY <2>2, <2>3, BooksStay
<1>10. ASSUME NEW p \in Procs, Release(p)
       PROVE  AccountsOK' /\ CallsOK' /\ Grows(ProjectKeys)
  <2>. DEFINE m == call[p].id
  <2>1. m \in Milestones BY <1>10 DEF Release, Resume, CallsOK, MilestoneOps
  <2>2. /\ SpendEscrow(ReleaseKey(m), Price[m]) /\ Answer(p)
        /\ rows' = RowsWith(TxnId(ReleaseKey(m)))
    BY <1>10 DEF Release
  <2>. HIDE DEF m
  <2>3. Price[m] \in Nat BY <2>1, TargetsAssumption
  <2>4. ReleaseKey(m) \in MoneyKeys /\ {ReleaseKey(m)} \subseteq ProjectKeys /\ OfProject(ReleaseKey(m))
    BY <2>1, KeyKinds, NoKeyAssumption DEF OfProject, WalletKinds, ProjectKeys, Keys
  <2>. QED BY <2>2, <2>3, <2>4, SpendKeeps, CallsStay, GrowsMore
<1>11. ASSUME NEW p \in Procs, Pay(p)
       PROVE  AccountsOK' /\ CallsOK' /\ Grows(ProjectKeys)
  <2>. DEFINE r == call[p].id
  <2>1. r \in Requests BY <1>11 DEF Pay, Resume, CallsOK, RequestOps
  <2>2. /\ SpendEscrow(PayKey(r), Price[r]) \/ SpendExternal(PayKey(r), Price[r])
        /\ rows' = RowsWith(TxnId(PayKey(r))) /\ Answer(p)
    BY <1>11 DEF Pay
  <2>. HIDE DEF r
  <2>3. Price[r] \in Nat BY <2>1, TargetsAssumption
  <2>4. PayKey(r) \in MoneyKeys /\ {PayKey(r)} \subseteq ProjectKeys /\ OfProject(PayKey(r))
    BY <2>1, KeyKinds, NoKeyAssumption DEF OfProject, WalletKinds, ProjectKeys, Keys
  <2>. QED BY <2>2, <2>3, <2>4, SpendKeeps, CallsStay, GrowsMore
<1>12. ASSUME NEW p \in Procs, ReverseTransaction(p)
       PROVE  AccountsOK' /\ CallsOK' /\ Grows(ProjectKeys)
  <2>. DEFINE t == call[p].id
              l == Mirrored(ledger[t])
  <2>1. t \in 1..Len(ledger) /\ IsProject(ledger, t)
    BY <1>12 DEF ReverseTransaction, Resume, CallsOK
  <2>2. ledger[t] \in LedgerRow /\ t \in Nat
    BY <2>1, ElementOfSeq, LenProperties DEF AccountsOK, BooksOK
  <2>3. l \in Lines /\ ProjectLines(l)
    BY <2>1, <2>2 DEF Mirrored, LedgerRow, Lines, ProjectLines, IsProject
  <2>4. Post(NoKey, l, t) /\ rows' = RowsWith(TxnId(NoKey)) /\ Answer(p)
    BY <1>12 DEF ReverseTransaction
  <2>5. NoKey \in MoneyKeys /\ {NoKey} \subseteq ProjectKeys BY DEF MoneyKeys, ProjectKeys
  <2>. HIDE DEF t, l
  <2>. QED BY <2>2, <2>3, <2>4, <2>5, ProjectPosting, PostedRowsStay, CallsStay, GrowsMore DEF AccountsOK
<1>13. CASE UNCHANGED vars BY <1>13, BooksStay, CallsStay DEF vars
<1>. QED
  BY <1>1, <1>2, <1>3, <1>4, <1>5, <1>6, <1>7, <1>8, <1>9, <1>10, <1>11, <1>12, <1>13 DEF Next

-----------------------------------------------------------------------------
(* Invoices.                                                               *)

InvoicesOK == InvoiceTypeOK /\ DOMAIN bill = Procs

\* A bill that is opened or closed keeps the types.
LEMMA BillsStay ==
  ASSUME InvoicesOK, NEW p \in Procs, NEW b,
         b = NoBill \/ (b.op \in InvoiceOps /\ b.id \in Invoices /\ b.amount \in Nat),
         bill' = [bill EXCEPT ![p] = b],
         invoice' \in [Invoices -> InvoiceStatus], total' \in [Invoices -> Nat],
         approved' \in [Invoices -> SUBSET Nat]
  PROVE  InvoicesOK'
<1>1. DOMAIN bill' = Procs /\ bill'[p] = b /\ \A q \in Procs \ {p} : bill'[q] = bill[q]
  BY DEF InvoicesOK
<1>2. \A q \in Procs : bill'[q] = NoBill \/
        (bill'[q].op \in InvoiceOps /\ bill'[q].id \in Invoices /\ bill'[q].amount \in Nat)
  BY <1>1 DEF InvoicesOK, InvoiceTypeOK
<1>. QED BY <1>1, <1>2 DEF InvoicesOK, InvoiceTypeOK

\* A read opens a bill of its kind.
LEMMA BillOpens ==
  ASSUME InvoicesOK, NEW p \in Procs, NEW i \in Invoices, NEW op \in InvoiceOps,
         NEW n \in Nat, ReadInvoice(p, op, i, n)
  PROVE  InvoicesOK'
<1>. DEFINE b == [op |-> op, id |-> i, amount |-> n]
<1>1. /\ bill' = [bill EXCEPT ![p] = b] /\ UNCHANGED <<invoice, total, approved>>
      /\ b.op \in InvoiceOps /\ b.id \in Invoices /\ b.amount \in Nat
  BY DEF ReadInvoice
<1>. HIDE DEF b
<1>2. /\ invoice' \in [Invoices -> InvoiceStatus] /\ total' \in [Invoices -> Nat]
      /\ approved' \in [Invoices -> SUBSET Nat]
  BY <1>1 DEF InvoicesOK, InvoiceTypeOK
<1>. QED BY <1>1, <1>2, BillsStay

\* Invoices keep their types.
LEMMA InvoiceSteps ==
  ASSUME InvoicesOK, InvoiceStep \/ (\E p \in Procs : PayInvoice(p)) \/ UNCHANGED invoiceVars
  PROVE  InvoicesOK'
<1>0. /\ invoice \in [Invoices -> InvoiceStatus] /\ total \in [Invoices -> Nat]
      /\ approved \in [Invoices -> SUBSET Nat] /\ Totals \subseteq Nat
  BY InvoiceAssumption DEF InvoicesOK, InvoiceTypeOK
<1>1. ASSUME NEW i \in Invoices, NEW n \in Totals, CreateInvoice(i, n) PROVE InvoicesOK'
  <2>1. /\ invoice' \in [Invoices -> InvoiceStatus] /\ total' \in [Invoices -> Nat]
        /\ approved' = approved /\ bill' = bill
    BY <1>0, <1>1 DEF CreateInvoice, InvoiceStatus
  <2>. QED BY <1>0, <2>1 DEF InvoicesOK, InvoiceTypeOK
<1>2. ASSUME NEW p \in Procs, NEW i \in Invoices,
             \/ \E n \in Totals : ReadInvoiceEdit(p, i, n)
             \/ ReadTransition(p, i) \/ ReadInvoicePay(p, i)
      PROVE  InvoicesOK'
  <2>1. total[i] \in Nat BY <1>0
  <2>2. \E op \in InvoiceOps, n \in Nat : ReadInvoice(p, op, i, n)
    BY <1>0, <1>2, <2>1
    DEF ReadInvoiceEdit, ReadTransition, ReadInvoicePay, InvoiceOps
  <2>. QED BY <2>2, BillOpens
<1>3. ASSUME NEW p \in Procs, \/ WriteInvoiceEdit(p) \/ WriteTransition(p)
                              \/ PayInvoiceRefused(p) \/ PayInvoice(p)
      PROVE  InvoicesOK'
  <2>1. /\ bill[p].op \in InvoiceOps => bill[p].id \in Invoices /\ bill[p].amount \in Nat
        /\ bill' = [bill EXCEPT ![p] = NoBill]
    BY <1>3 DEF WriteInvoiceEdit, WriteTransition, PayInvoiceRefused, PayInvoice, Reply,
                InvoicesOK, InvoiceTypeOK, NoBill, InvoiceOps
  <2>2. /\ invoice' \in [Invoices -> InvoiceStatus] /\ total' \in [Invoices -> Nat]
        /\ approved' \in [Invoices -> SUBSET Nat]
    <3>1. CASE WriteInvoiceEdit(p) BY <1>0, <2>1, <3>1 DEF WriteInvoiceEdit, InvoiceOps
    <3>2. CASE WriteTransition(p)
      <4>1. StatusAfter(bill[p].op) \in InvoiceStatus
        BY <3>2 DEF WriteTransition, StatusAfter, InvoiceStatus
      <4>. QED BY <1>0, <2>1, <3>2, <4>1 DEF WriteTransition, InvoiceOps
    <3>3. CASE PayInvoiceRefused(p) BY <1>0, <3>3 DEF PayInvoiceRefused
    <3>4. CASE PayInvoice(p) BY <1>0, <3>4 DEF PayInvoice, InvoiceStatus
    <3>. QED BY <1>3, <3>1, <3>2, <3>3, <3>4
  <2>. QED BY <2>1, <2>2, BillsStay
<1>4. CASE UNCHANGED invoiceVars BY <1>4 DEF invoiceVars, InvoicesOK, InvoiceTypeOK
<1>. QED BY <1>1, <1>2, <1>3, <1>4 DEF InvoiceStep

\* Paying an invoice is a spend of the project.
LEMMA InvoiceIsSpend ==
  ASSUME AccountsOK, CallsOK, InvoicesOK, NEW p \in Procs, PayInvoice(p)
  PROVE  AccountsOK' /\ CallsOK' /\ Grows({InvoiceKey(bill[p].id)})
<1>. DEFINE i == bill[p].id
<1>1. i \in Invoices /\ total[i] \in Nat
  BY DEF PayInvoice, InvoicesOK, InvoiceTypeOK, NoBill
<1>2. /\ SpendEscrow(InvoiceKey(i), total[i]) \/ SpendExternal(InvoiceKey(i), total[i])
      /\ rows' = RowsWith(TxnId(InvoiceKey(i))) /\ call' = call
  BY DEF PayInvoice, InvoiceRows
<1>. HIDE DEF i
<1>3. InvoiceKey(i) \in MoneyKeys /\ (InvoiceKey(i) = NoKey \/ OfProject(InvoiceKey(i)))
  BY <1>1, KeyKinds DEF OfProject, WalletKinds
<1>4. AccountsOK' /\ Grows({InvoiceKey(i)}) /\ \A t \in 1..Len(ledger) : SameRow(t)
  BY <1>1, <1>2, <1>3, SpendKeeps
<1>5. CallsOK' BY <1>2, <1>4, CallsStay
<1>. QED BY <1>4, <1>5 DEF i

-----------------------------------------------------------------------------
(* Wallets.                                                                *)

\* What wallets post under.
WalletKeys == {k \in MoneyKeys : k = NoKey \/ k[1] \in WalletKinds}

\* A movement that was refused has no transaction.
RefusedOK ==
  /\ refused \subseteq Movements
  /\ \A key \in refused, i \in 1..Len(ledger) : key # NoKey => ledger[i].key # key

LEMMA MovementKinds ==
  ASSUME NEW key \in Movements
  PROVE  key[1] \in {"wallet.withdraw", "wallet.transfer"} /\ key \in MoneyKeys
<1>1. key[1] \in {"wallet.withdraw", "wallet.transfer"}
  BY DEF Movements, WithdrawKey, TransferKey
<1>. QED BY <1>1 DEF MoneyKeys

\* No movement is asked for under a key of the project's.
LEMMA ProjectApart == ProjectKeys \cap Movements \subseteq {NoKey}
<1>1. \A key \in Keys : key[1] \notin {"wallet.withdraw", "wallet.transfer"}
  BY DEF Keys, TopupKey, ReleaseKey, PayKey
<1>. QED BY <1>1, MovementKinds DEF ProjectKeys

\* The project's steps move no wallet's money under the wallet's keys.
LEMMA RefusedStay ==
  ASSUME RefusedOK, NEW K, Grows(K), K \cap Movements \subseteq {NoKey}, UNCHANGED walletVars
  PROVE  RefusedOK'
<1>1. refused' = refused BY DEF walletVars
<1>2. ASSUME NEW key \in refused, NEW i \in 1..Len(ledger'), key # NoKey
      PROVE  ledger'[i].key # key
  BY <1>2 DEF RefusedOK, Grows, SameRow
<1>. QED BY <1>1, <1>2 DEF RefusedOK

\* A wallet's posting leaves what is said of the project.
LEMMA WalletPosting ==
  ASSUME AccountsOK, CallsOK, NEW key \in MoneyKeys, NEW l \in Lines, Post(key, l, 0),
         key = NoKey \/ key[1] \in WalletKinds, rows' = rows, call' = call
  PROVE  BooksOK' /\ ProjectOK' /\ CallsOK' /\ Grows({key})
<1>1. /\ BooksOK' /\ Len(ledger) \in Nat /\ Len(ledger') \in Nat
      /\ Len(ledger) <= Len(ledger')
      /\ \A i \in 1..Len(ledger) : SameRow(i)
      /\ \A i \in 1..Len(ledger') : i \notin 1..Len(ledger) => ledger'[i].key = key
  BY PostEffect DEF AccountsOK, NewRow
<1>2. ~OfProject(key) BY DEF OfProject
<1>3. \A i \in 1..Len(ledger') : OfProject(ledger'[i].key) => IsProject(ledger', i)
  BY <1>1, <1>2, ProjectStays DEF AccountsOK, ProjectOK
<1>4. rows \in Seq(1..Len(ledger)) /\ \A k \in DOMAIN rows : rows[k] \in 1..Len(ledger)
  BY LenProperties, ElementOfSeq DEF AccountsOK, ProjectOK
<1>5. rows' \in Seq(1..Len(ledger')) BY <1>1, <1>4, SeqMonotonic
<1>6. \A k \in DOMAIN rows' : IsProject(ledger', rows'[k])
  BY <1>1, <1>4, ProjectStays DEF AccountsOK, ProjectOK
<1>7. Grows({key}) BY <1>1 DEF Grows
<1>8. \A j, k \in DOMAIN rows' : rows'[j] = rows'[k] => j = k
  BY DEF AccountsOK, ProjectOK
<1>. QED BY <1>1, <1>3, <1>5, <1>6, <1>7, <1>8, CallsStay DEF ProjectOK

\* A refused movement other than the one a posting is made under stays without
\* a transaction.
LEMMA RefusedApart ==
  ASSUME BooksOK, RefusedOK, NEW key \in MoneyKeys, NEW l \in Lines, Post(key, l, 0),
         key = NoKey \/ key \notin refused',
         refused' \subseteq refused
  PROVE  RefusedOK'
<1>1. /\ \A i \in 1..Len(ledger) : SameRow(i)
      /\ \A i \in 1..Len(ledger') : i \notin 1..Len(ledger) => ledger'[i].key = key
  BY PostEffect DEF NewRow
<1>2. ASSUME NEW k \in refused', NEW i \in 1..Len(ledger'), k # NoKey
      PROVE  ledger'[i].key # k
  BY <1>1, <1>2 DEF RefusedOK, SameRow
<1>. QED BY <1>2 DEF RefusedOK

\* Deposits.
LEMMA DepositStep ==
  ASSUME AccountsOK, CallsOK, RefusedOK, NEW w \in Wallets, NEW n \in WalletAmounts,
         NEW ref \in DepositRefs \cup {NoReference}, Deposit(w, n, ref),
         rows' = rows, call' = call
  PROVE  AccountsOK' /\ CallsOK' /\ RefusedOK' /\ Grows(WalletKeys)
<1>. DEFINE key == DepositKey(w, n, ref)
            l == TwoLegs("CASH", w, n)
<1>0. n \in Nat BY WalletAssumption
<1>1. key \in MoneyKeys /\ (key = NoKey \/ key[1] = "wallet.deposit") BY WalletKeyKinds
<1>2. l \in Lines BY <1>0, AccountsApart DEF TwoLegs, Lines
<1>3. Post(key, l, 0) /\ refused' = refused BY DEF Deposit, walletVars
<1>4. \A v \in Wallets : Effect(l, v) \in Int /\ Effect(l, v) <= 0
  BY <1>0, AccountsApart DEF Effect, TwoLegs
<1>. HIDE DEF key, l
<1>5. BooksOK' /\ ProjectOK' /\ CallsOK' /\ Grows({key})
  BY <1>1, <1>2, <1>3, WalletPosting DEF WalletKinds
<1>9. Grows(WalletKeys) BY <1>1, <1>5, GrowsMore DEF WalletKeys, WalletKinds
<1>6. Solvent'
  <2>1. \A v \in Wallets : sums[v] \in Int /\ sums[v] <= 0
    BY AccountsApart DEF AccountsOK, BooksOK, Solvent
  <2>2. \A v \in Wallets : sums'[v] = sums[v] \/ sums'[v] = sums[v] + Effect(l, v)
    BY <1>1, <1>2, <1>3, PostEffect, AccountsApart DEF AccountsOK
  <2>. QED BY <1>4, <2>1, <2>2 DEF Solvent
<1>7. key = NoKey \/ key \notin refused'
  <2>1. refused \subseteq Movements BY DEF RefusedOK
  <2>. QED BY <1>1, <1>3, <2>1, MovementKinds
<1>8. RefusedOK' BY <1>1, <1>2, <1>3, <1>7, RefusedApart DEF AccountsOK
<1>. QED BY <1>5, <1>6, <1>8, <1>9 DEF AccountsOK

\* Withdrawals and transfers: what is taken is there, or was taken before.
LEMMA TakeStep ==
  ASSUME AccountsOK, CallsOK, RefusedOK, NEW w \in Wallets, NEW key \in Movements,
         NEW to \in Accounts, NEW n \in WalletAmounts, TakeFrom(w, key, to, n),
         rows' = rows, call' = call
  PROVE  AccountsOK' /\ CallsOK' /\ RefusedOK' /\ Grows(WalletKeys)
<1>. DEFINE l == TwoLegs(w, to, n)
<1>0. n \in Nat /\ \A v \in Wallets : sums[v] \in Int /\ sums[v] <= 0
  BY WalletAssumption, AccountsApart DEF AccountsOK, BooksOK, Solvent
<1>1. key \in MoneyKeys /\ key[1] \in WalletKinds BY MovementKinds DEF WalletKinds
<1>2. l \in Lines BY <1>0, AccountsApart DEF TwoLegs, Lines
<1>3. CASE Sufficient(key, w, n)
  <2>1. Post(key, l, 0) /\ refused' = refused \ {key} BY <1>3 DEF TakeFrom
  <2>2. \A v \in Wallets : /\ Effect(l, v) \in Int
                           /\ v # w => Effect(l, v) <= 0
                           /\ Effect(l, v) <= n
    BY <1>0 DEF Effect, TwoLegs
  <2>3. ~Replays(key) => - sums[w] >= n BY <1>3 DEF Sufficient, WalletBalance
  <2>. HIDE DEF l
  <2>4. BooksOK' /\ ProjectOK' /\ CallsOK' /\ Grows({key})
    BY <1>1, <1>2, <2>1, WalletPosting
  <2>7. Grows(WalletKeys) BY <1>1, <2>4, GrowsMore DEF WalletKeys
  <2>5. Solvent'
    <3>1. CASE Replays(key)
      <4>1. sums' = sums BY <1>1, <1>2, <2>1, <3>1, PostEffect DEF AccountsOK
      <4>. QED BY <1>0, <4>1 DEF Solvent
    <3>2. CASE ~Replays(key)
      <4>1. \A v \in Wallets : sums'[v] = sums[v] + Effect(l, v)
        BY <1>1, <1>2, <2>1, <3>2, PostEffect, AccountsApart DEF AccountsOK
      <4>. QED BY <1>0, <2>2, <2>3, <3>2, <4>1 DEF Solvent
    <3>. QED BY <3>1, <3>2
  <2>6. RefusedOK' BY <1>1, <1>2, <2>1, RefusedApart DEF AccountsOK
  <2>. QED BY <2>4, <2>5, <2>6, <2>7 DEF AccountsOK
<1>4. CASE ~Sufficient(key, w, n)
  <2>1. refused' = {key} /\ UNCHANGED <<ledger, sums, rows>>
    BY <1>4 DEF TakeFrom, ledgerVars
  <2>2. PriorTxns(key) = {} BY <1>4 DEF Sufficient, Replays
  <2>3. DOMAIN ledger = 1..Len(ledger) BY LenProperties DEF AccountsOK, BooksOK
  <2>4. RefusedOK' BY <2>1, <2>2, <2>3 DEF RefusedOK, PriorTxns
  <2>. QED BY <2>1, <2>4, BooksStay, CallsStay
<1>. QED BY <1>3, <1>4

\* Wallets leave the project's calls and rows alone and stay solvent.
LEMMA WalletSteps ==
  ASSUME AccountsOK, CallsOK, RefusedOK, WalletStep, rows' = rows, call' = call
  PROVE  AccountsOK' /\ CallsOK' /\ RefusedOK' /\ Grows(WalletKeys)
<1>1. PICK w \in Wallets :
        \/ CreateWallet(w)
        \/ \E amount \in WalletAmounts :
             \/ \E ref \in DepositRefs \cup {NoReference} : Deposit(w, amount, ref)
             \/ \E note \in Notes : \/ Withdraw(w, amount, note)
                                    \/ \E v \in Wallets : TransferMoney(v, w, amount, note)
  BY DEF WalletStep
<1>2. CASE CreateWallet(w)
  <2>1. refused' = refused /\ UNCHANGED <<ledger, sums, rows>>
    BY <1>2 DEF CreateWallet, ledgerVars
  <2>2. RefusedOK' BY <2>1 DEF RefusedOK
  <2>. QED BY <2>1, <2>2, BooksStay, CallsStay
<1>3. ASSUME NEW n \in WalletAmounts, NEW ref \in DepositRefs \cup {NoReference},
             Deposit(w, n, ref)
      PROVE  AccountsOK' /\ CallsOK' /\ RefusedOK' /\ Grows(WalletKeys)
  BY <1>3, DepositStep
<1>4. ASSUME NEW n \in WalletAmounts, NEW note \in Notes, Withdraw(w, n, note)
      PROVE  AccountsOK' /\ CallsOK' /\ RefusedOK' /\ Grows(WalletKeys)
  <2>1. WithdrawKey(w, n, note) \in Movements BY WalletKeyKinds
  <2>2. TakeFrom(w, WithdrawKey(w, n, note), "CASH", n) BY <1>4 DEF Withdraw
  <2>. QED BY <2>1, <2>2, TakeStep, AccountsApart
<1>5. ASSUME NEW n \in WalletAmounts, NEW note \in Notes, NEW v \in Wallets,
             TransferMoney(v, w, n, note)
      PROVE  AccountsOK' /\ CallsOK' /\ RefusedOK' /\ Grows(WalletKeys)
  <2>1. TransferKey(v, w, n, note) \in Movements BY WalletKeyKinds
  <2>2. TakeFrom(v, TransferKey(v, w, n, note), w, n) BY <1>5 DEF TransferMoney
  <2>3. w \in Accounts BY AccountsApart
  <2>. QED BY <2>1, <2>2, <2>3, TakeStep
<1>. QED BY <1>1, <1>2, <1>3, <1>4, <1>5

-----------------------------------------------------------------------------
(* What is paid for an invoice.                                            *)

\* A draft is not edited while anything else is under way, and invoices' keys
\* are keys.
EditsAlone ==
  /\ \A group \in InvoiceOverlap : "edit" \in group => group = {"edit"}
  /\ \A i \in Invoices : InvoiceKey(i) # NoKey

\* A draft under edit is still one, nothing else is under way beside it, and an
\* approval under way approves what the invoice adds up to.
BillsOK ==
  \A p \in Procs : bill[p] # NoBill =>
    /\ invoice[bill[p].id] # "none"
    /\ bill[p].op = "edit" =>
         /\ invoice[bill[p].id] = "draft"
         /\ \A q \in Procs : bill[q].op \in {"idle", "edit"}
    /\ bill[p].op = "approve" => bill[p].amount = total[bill[p].id]

\* What may be paid is what was approved.
ApprovalOK == \A i \in Invoices : invoice[i] = "approved" => total[i] \in approved[i]

\* What was paid was approved, and has a row.
PaidOK ==
  \A i \in Invoices :
    /\ invoice[i] = "paid" => \E t \in 1..Len(ledger) : ledger[t].key = InvoiceKey(i)
    /\ \A t \in 1..Len(ledger) : ledger[t].key = InvoiceKey(i) =>
         /\ ledger[t].debit \in approved[i]
         /\ \E k \in DOMAIN rows : rows[k] = t

\* A handler that has read an invoice.
LEMMA OpenedBills ==
  ASSUME EditsAlone, InvoicesOK, BillsOK, ApprovalOK, NEW p \in Procs, NEW i \in Invoices,
         NEW op \in InvoiceOps, NEW n \in Nat, ReadInvoice(p, op, i, n), invoice[i] # "none",
         op = "edit" => invoice[i] = "draft", op = "approve" => n = total[i]
  PROVE  BillsOK' /\ ApprovalOK'
<1>. DEFINE b == [op |-> op, id |-> i, amount |-> n]
<1>1. /\ bill'[p] = b /\ \A q \in Procs \ {p} : bill'[q] = bill[q]
      /\ UNCHANGED <<invoice, total, approved>>
      /\ b.op = op /\ b.id = i /\ b.amount = n
      /\ \A q \in Procs : MayRunBeside(op, bill[q].op)
  BY DEF ReadInvoice, InvoicesOK
<1>. HIDE DEF b
<1>2. \A q \in Procs : bill[q].op = "idle" \/ bill[q].op \in InvoiceOps
  BY DEF InvoicesOK, InvoiceTypeOK, NoBill
<1>3. op = "edit" => \A q \in Procs : bill'[q].op \in {"idle", "edit"}
  BY <1>1 DEF MayRunBeside, EditsAlone
<1>4. op # "edit" => \A q \in Procs : bill[q].op # "edit"
  BY <1>1 DEF MayRunBeside, EditsAlone
<1>5. \A q \in Procs : bill[q].op = "edit" => bill[q] # NoBill BY DEF NoBill
<1>6. BillsOK' BY <1>1, <1>3, <1>4, <1>5 DEF BillsOK
<1>. QED BY <1>1, <1>6 DEF ApprovalOK

\* A handler that writes statuses and closes its bill, while no draft is edited.
LEMMA ClosedBills ==
  ASSUME InvoicesOK, BillsOK, NEW p \in Procs, Reply(p),
         total' = total, \A i \in Invoices : invoice[i] # "none" => invoice'[i] # "none",
         (\A q \in Procs : bill[q].op # "edit") \/ invoice' = invoice
  PROVE  BillsOK'
<1>1. bill'[p] = NoBill /\ \A q \in Procs \ {p} : bill'[q] = bill[q]
  BY DEF Reply, InvoicesOK
<1>2. NoBill.op = "idle" BY DEF NoBill
<1>3. \A q \in Procs : bill[q] # NoBill => bill[q].id \in Invoices
  BY DEF InvoicesOK, InvoiceTypeOK
<1>4. ASSUME NEW q \in Procs, bill'[q] # NoBill
      PROVE  bill'[q] = bill[q] /\ bill[q] # NoBill /\ bill[q].id \in Invoices
  BY <1>1, <1>3, <1>4
<1>5. \A r \in Procs : bill'[r].op = bill[r].op \/ bill'[r].op = "idle" BY <1>1, <1>2
<1>6. ASSUME NEW q \in Procs, bill'[q] # NoBill
      PROVE  /\ invoice'[bill'[q].id] # "none"
             /\ bill'[q].op = "edit" =>
                  /\ invoice'[bill'[q].id] = "draft"
                  /\ \A r \in Procs : bill'[r].op \in {"idle", "edit"}
             /\ bill'[q].op = "approve" => bill'[q].amount = total'[bill'[q].id]
  BY <1>4, <1>5, <1>6 DEF BillsOK
<1>. QED BY <1>6 DEF BillsOK

\* Nothing is paid that was not, and no approval is taken back.
ApprovalsGrow ==
  \A i \in Invoices : approved[i] \subseteq approved'[i]

LEMMA ApprovalSteps ==
  ASSUME EditsAlone, InvoicesOK, BillsOK, ApprovalOK,
         InvoiceStep \/ (\E p \in Procs : PayInvoice(p)) \/ UNCHANGED invoiceVars
  PROVE  /\ BillsOK' /\ ApprovalOK' /\ ApprovalsGrow
         /\ (\E p \in Procs : PayInvoice(p))
              \/ \A i \in Invoices : invoice'[i] = "paid" => invoice[i] = "paid"
<1>. DEFINE Unpaid == \A i \in Invoices : invoice'[i] = "paid" => invoice[i] = "paid"
<1>0. /\ invoice \in [Invoices -> InvoiceStatus] /\ total \in [Invoices -> Nat]
      /\ approved \in [Invoices -> SUBSET Nat] /\ Totals \subseteq Nat
      /\ \A p \in Procs : bill[p] # NoBill => bill[p].id \in Invoices
  BY InvoiceAssumption DEF InvoicesOK, InvoiceTypeOK
<1>1. ASSUME NEW i \in Invoices, NEW n \in Totals, CreateInvoice(i, n)
      PROVE  BillsOK' /\ ApprovalOK' /\ ApprovalsGrow /\ Unpaid
  <2>1. /\ invoice[i] = "none" /\ invoice'[i] = "draft" /\ bill' = bill /\ approved' = approved
        /\ \A j \in Invoices \ {i} : invoice'[j] = invoice[j] /\ total'[j] = total[j]
    BY <1>0, <1>1 DEF CreateInvoice
  <2>2. \A p \in Procs : bill[p] # NoBill => bill[p].id \in Invoices \ {i}
    BY <1>0, <2>1 DEF BillsOK
  <2>3. BillsOK' BY <2>1, <2>2 DEF BillsOK
  <2>4. ApprovalOK' /\ ApprovalsGrow /\ Unpaid BY <2>1 DEF ApprovalOK, ApprovalsGrow
  <2>. QED BY <2>3, <2>4
<1>2. ASSUME NEW p \in Procs, NEW i \in Invoices,
             \/ \E n \in Totals : ReadInvoiceEdit(p, i, n)
             \/ ReadTransition(p, i) \/ ReadInvoicePay(p, i)
      PROVE  BillsOK' /\ ApprovalOK' /\ ApprovalsGrow /\ Unpaid
  <2>1. total[i] \in Nat BY <1>0
  <2>2. \E op \in InvoiceOps, n \in Nat :
          /\ ReadInvoice(p, op, i, n) /\ invoice[i] # "none"
          /\ op = "edit" => invoice[i] = "draft"
          /\ op = "approve" => n = total[i]
    BY <1>0, <1>2, <2>1
    DEF ReadInvoiceEdit, ReadTransition, ReadInvoicePay, InvoiceOps
  <2>3. BillsOK' /\ ApprovalOK' BY <2>2, OpenedBills
  <2>4. ApprovalsGrow /\ Unpaid BY <2>2 DEF ReadInvoice, ApprovalsGrow
  <2>. QED BY <2>3, <2>4
<1>3. ASSUME NEW p \in Procs, WriteInvoiceEdit(p)
      PROVE  BillsOK' /\ ApprovalOK' /\ ApprovalsGrow /\ Unpaid
  <2>. DEFINE j == bill[p].id
  <2>1. bill[p].op = "edit" /\ bill[p] # NoBill BY <1>3 DEF WriteInvoiceEdit, NoBill
  <2>2. j \in Invoices /\ invoice[j] = "draft" BY <1>0, <2>1 DEF BillsOK
  <2>3. /\ invoice' = invoice /\ approved' = approved
        /\ \A i \in Invoices \ {j} : total'[i] = total[i]
        /\ bill'[p] = NoBill /\ \A q \in Procs \ {p} : bill'[q] = bill[q]
    BY <1>0, <1>3 DEF WriteInvoiceEdit, Reply, InvoicesOK
  <2>4. \A q \in Procs : bill[q].op \in {"idle", "edit"} BY <2>1 DEF BillsOK
  <2>5. NoBill.op = "idle" BY DEF NoBill
  <2>. HIDE DEF j
  <2>6. \A q \in Procs : bill'[q].op \in {"idle", "edit"} BY <2>3, <2>4, <2>5
  <2>7. BillsOK' BY <2>3, <2>6 DEF BillsOK
  <2>8. ApprovalOK' /\ ApprovalsGrow /\ Unpaid
    BY <2>2, <2>3 DEF ApprovalOK, ApprovalsGrow
  <2>. QED BY <2>7, <2>8
<1>4. ASSUME NEW p \in Procs, WriteTransition(p)
      PROVE  BillsOK' /\ ApprovalOK' /\ ApprovalsGrow /\ Unpaid
  <2>. DEFINE j == bill[p].id
              op == bill[p].op
  <2>1. op \in {"submit", "dispute", "approve", "reject"} /\ bill[p] # NoBill
    BY <1>4 DEF WriteTransition, NoBill
  <2>2. j \in Invoices /\ \A q \in Procs : bill[q].op # "edit"
    <3>1. j \in Invoices BY <1>0, <2>1
    <3>2. \A q \in Procs : bill[q].op = "edit" => bill[q] # NoBill BY DEF NoBill
    <3>. QED BY <2>1, <3>1, <3>2 DEF BillsOK
  <2>3. /\ total' = total /\ Reply(p)
        /\ invoice'[j] = StatusAfter(op)
        /\ \A i \in Invoices \ {j} : invoice'[i] = invoice[i] /\ approved'[i] = approved[i]
        /\ op = "approve" => approved'[j] = approved[j] \cup {bill[p].amount}
        /\ op # "approve" => approved'[j] = approved[j]
    BY <1>0, <1>4, <2>2 DEF WriteTransition
  <2>4. /\ StatusAfter(op) \notin {"none", "paid"}
        /\ StatusAfter(op) = "approved" => op = "approve"
    BY <2>1 DEF StatusAfter
  <2>5. op = "approve" => bill[p].amount = total[j] BY <2>1 DEF BillsOK
  <2>. HIDE DEF j, op
  <2>6. BillsOK' BY <2>2, <2>3, <2>4, ClosedBills
  <2>7. ApprovalOK' /\ ApprovalsGrow /\ Unpaid
    BY <2>2, <2>3, <2>4, <2>5 DEF ApprovalOK, ApprovalsGrow
  <2>. QED BY <2>6, <2>7
<1>5. ASSUME NEW p \in Procs, PayInvoiceRefused(p)
      PROVE  BillsOK' /\ ApprovalOK' /\ ApprovalsGrow /\ Unpaid
  <2>1. Reply(p) /\ UNCHANGED <<invoice, total, approved>> BY <1>5 DEF PayInvoiceRefused
  <2>. QED BY <2>1, ClosedBills DEF ApprovalOK, ApprovalsGrow
<1>6. ASSUME NEW p \in Procs, PayInvoice(p)
      PROVE  BillsOK' /\ ApprovalOK' /\ ApprovalsGrow
  <2>. DEFINE j == bill[p].id
  <2>1. bill[p].op \notin {"edit", "idle"} /\ bill[p] # NoBill BY <1>6 DEF PayInvoice, NoBill
  <2>2. j \in Invoices /\ \A q \in Procs : bill[q].op # "edit"
    <3>1. j \in Invoices BY <1>0, <2>1
    <3>2. \A q \in Procs : bill[q].op = "edit" => bill[q] # NoBill BY DEF NoBill
    <3>. QED BY <2>1, <3>1, <3>2 DEF BillsOK
  <2>3. /\ total' = total /\ approved' = approved /\ Reply(p)
        /\ \A i \in Invoices : invoice'[i] = invoice[i] \/ invoice'[i] = "paid"
    BY <1>0, <1>6, <2>2 DEF PayInvoice
  <2>. HIDE DEF j
  <2>6. BillsOK' BY <2>2, <2>3, ClosedBills
  <2>. QED BY <2>3, <2>6 DEF ApprovalOK, ApprovalsGrow
<1>7. CASE UNCHANGED invoiceVars
  BY <1>7 DEF invoiceVars, BillsOK, ApprovalOK, ApprovalsGrow
<1>. QED BY <1>1, <1>2, <1>3, <1>4, <1>5, <1>6, <1>7 DEF InvoiceStep

\* Whatever posts under keys that are no invoice's leaves what was paid alone.
LEMMA PaidStays ==
  ASSUME AccountsOK, PaidOK, ApprovalsGrow, NEW K, Grows(K),
         \A i \in Invoices : InvoiceKey(i) \notin K,
         \A i \in Invoices : invoice'[i] = "paid" => invoice[i] = "paid"
  PROVE  PaidOK'
<1>1. /\ \A t \in 1..Len(ledger) : SameRow(t)
      /\ \A t \in 1..Len(ledger') : t \notin 1..Len(ledger) => ledger'[t].key \in K
      /\ \A k \in DOMAIN rows : k \in DOMAIN rows' /\ rows'[k] = rows[k]
  BY DEF Grows
<1>2. ASSUME NEW i \in Invoices, invoice'[i] = "paid"
      PROVE  \E t \in 1..Len(ledger') : ledger'[t].key = InvoiceKey(i)
  BY <1>1, <1>2 DEF PaidOK, SameRow
<1>3. ASSUME NEW i \in Invoices, NEW t \in 1..Len(ledger'), ledger'[t].key = InvoiceKey(i)
      PROVE  /\ ledger'[t].debit \in approved'[i]
             /\ \E k \in DOMAIN rows' : rows'[k] = t
  <2>1. t \in 1..Len(ledger) BY <1>1, <1>3
  <2>2. ledger[t].key = InvoiceKey(i) /\ ledger'[t].debit = ledger[t].debit
    BY <1>1, <1>3, <2>1 DEF SameRow
  <2>. QED BY <1>1, <2>1, <2>2 DEF PaidOK, ApprovalsGrow
<1>. QED BY <1>2, <1>3 DEF PaidOK

\* A payment pays what was approved, and gets a row.
LEMMA PaymentPaid ==
  ASSUME EditsAlone, AccountsOK, InvoicesOK, ApprovalOK, ApprovalsGrow, PaidOK,
         NEW p \in Procs, PayInvoice(p)
  PROVE  PaidOK'
<1>. DEFINE j == bill[p].id
            key == InvoiceKey(j)
            t == TxnId(key)
<1>1. j \in Invoices /\ total[j] \in Nat /\ invoice \in [Invoices -> InvoiceStatus]
  BY DEF PayInvoice, InvoicesOK, InvoiceTypeOK, NoBill
<1>2. /\ SpendEscrow(key, total[j]) \/ SpendExternal(key, total[j])
      /\ invoice[j] = "approved" /\ rows' = RowsWith(t)
      /\ invoice' = [invoice EXCEPT ![j] = "paid"]
  BY DEF PayInvoice, InvoiceRows, StillPayable
<1>3. key \in MoneyKeys /\ key # NoKey /\ \A i \in Invoices : InvoiceKey(i) = key => i = j
  BY <1>1, KeyKinds DEF EditsAlone, InvoiceKey
<1>. HIDE DEF j, key
<1>4. \E l \in Lines : l.debit = total[j] /\ Post(key, l, 0)
  <2>1. total[j] \in Nat BY <1>1
  <2>2. /\ TwoLegs("ESCROW", "EXPENSE", total[j]).debit = total[j]
        /\ TwoLegs("EXPENSE", "CASH", total[j]).debit = total[j]
    BY DEF TwoLegs
  <2>. QED BY <1>2, <2>1, <2>2, ProjectLegs DEF SpendEscrow, SpendExternal
<1>5. PICK l \in Lines : l.debit = total[j] /\ Post(key, l, 0) BY <1>4
<1>6. /\ Len(ledger) \in Nat /\ Len(ledger') \in Nat /\ Len(ledger) <= Len(ledger')
      /\ \A i \in 1..Len(ledger) : SameRow(i)
      /\ t \in 1..Len(ledger') /\ ledger'[t].key = key
      /\ t \in 1..Len(ledger) => ledger[t].key = key
      /\ \A i \in 1..Len(ledger') : i \notin 1..Len(ledger) =>
           i = t /\ ledger'[i].key = key /\ ledger'[i].debit = total[j]
  <2>1. CASE Replays(key)
    <3>1. t \in PriorTxns(key) /\ ledger' = ledger /\ DOMAIN ledger = 1..Len(ledger)
      BY <1>3, <1>5, <2>1, PostEffect DEF AccountsOK
    <3>2. t \in 1..Len(ledger) /\ ledger[t].key = key BY <3>1 DEF PriorTxns
    <3>. QED BY <1>3, <1>5, <3>1, <3>2, PostEffect DEF AccountsOK
  <2>2. CASE ~Replays(key)
    BY <1>3, <1>5, <2>2, PostEffect DEF AccountsOK, NewRow
  <2>. QED BY <2>1, <2>2
<1>. HIDE DEF t
<1>7. /\ \A k \in DOMAIN rows : k \in DOMAIN rows' /\ rows'[k] = rows[k]
      /\ \E k \in DOMAIN rows' : rows'[k] = t
  <2>1. rows \in Seq(1..Len(ledger)) BY DEF AccountsOK, ProjectOK
  <2>2. /\ \A k \in DOMAIN rows : k \in DOMAIN RowsWith(t) /\ RowsWith(t)[k] = rows[k]
        /\ \E k \in DOMAIN RowsWith(t) : RowsWith(t)[k] = t
    BY <2>1, RowHeld
  <2>. QED BY <1>2, <2>2 DEF t
<1>8. total[j] \in approved'[j] BY <1>1, <1>2 DEF ApprovalOK, ApprovalsGrow
<1>9. ASSUME NEW i \in Invoices, invoice'[i] = "paid"
      PROVE  \E r \in 1..Len(ledger') : ledger'[r].key = InvoiceKey(i)
  <2>1. CASE i = j BY <1>6, <2>1 DEF key
  <2>2. CASE i # j
    <3>1. invoice[i] = "paid" BY <1>1, <1>2, <1>9, <2>2
    <3>. QED BY <1>6, <3>1 DEF PaidOK, SameRow
  <2>. QED BY <2>1, <2>2
<1>10. ASSUME NEW i \in Invoices, NEW r \in 1..Len(ledger'), ledger'[r].key = InvoiceKey(i)
       PROVE  /\ ledger'[r].debit \in approved'[i]
              /\ \E k \in DOMAIN rows' : rows'[k] = r
  <2>1. CASE r \in 1..Len(ledger)
    <3>1. ledger[r].key = InvoiceKey(i) /\ ledger'[r].debit = ledger[r].debit
      BY <1>6, <1>10, <2>1 DEF SameRow
    <3>. QED BY <1>7, <2>1, <3>1 DEF PaidOK, ApprovalsGrow
  <2>2. CASE r \notin 1..Len(ledger)
    <3>1. r = t /\ ledger'[r].key = key /\ ledger'[r].debit = total[j] BY <1>6, <2>2
    <3>2. i = j BY <1>3, <1>10, <3>1
    <3>. QED BY <1>7, <1>8, <3>1, <3>2
  <2>. QED BY <2>1, <2>2
<1>. QED BY <1>9, <1>10 DEF PaidOK

-----------------------------------------------------------------------------
(* What holds of every behaviour.                                          *)

MoneyInv == AccountsOK /\ CallsOK /\ InvoicesOK /\ RefusedOK

LEMMA MoneyStarts ==
  ASSUME MoneyInit PROVE MoneyInv
<1>1. ledger = <<>> /\ rows = <<>> /\ sums = [a \in Accounts |-> 0] /\ Len(ledger) = 0
  BY DEF MoneyInit, Init, LedgerInit
<1>2. BooksOK BY <1>1 DEF BooksOK
<1>3. ProjectOK
  <2>1. 1..Len(ledger) = {} BY <1>1
  <2>2. rows \in Seq(1..Len(ledger)) /\ DOMAIN rows = {} BY <1>1
  <2>. QED BY <2>1, <2>2 DEF ProjectOK
<1>4. Solvent BY <1>1, AccountsApart DEF Solvent
<1>5. CallsOK
  BY DEF MoneyInit, Init, CallsOK, NoCall, MilestoneOps, RequestOps
<1>6. InvoicesOK
  BY DEF MoneyInit, InvoiceInit, InvoicesOK, InvoiceTypeOK, InvoiceStatus
<1>7. RefusedOK BY DEF MoneyInit, WalletInit, RefusedOK
<1>. QED BY <1>2, <1>3, <1>4, <1>5, <1>6, <1>7 DEF MoneyInv, AccountsOK

LEMMA MoneyKeeps ==
  ASSUME JournalsApart, MoneyInv, [MoneyNext]_moneyVars PROVE MoneyInv'
<1>1. CASE Next /\ UNCHANGED <<invoiceVars, walletVars>>
  <2>1. AccountsOK' /\ CallsOK' /\ Grows(ProjectKeys) BY <1>1, EscrowStep DEF MoneyInv
  <2>. QED BY <1>1, <2>1, RefusedStay, ProjectApart, InvoiceSteps DEF MoneyInv
<1>2. CASE InvoiceStep /\ UNCHANGED <<vars, walletVars>>
  <2>1. AccountsOK' /\ CallsOK' /\ Grows(ProjectKeys) BY <1>2, EscrowStep DEF MoneyInv
  <2>. QED BY <1>2, <2>1, RefusedStay, ProjectApart, InvoiceSteps DEF MoneyInv
<1>3. ASSUME NEW p \in Procs, PayInvoice(p) /\ UNCHANGED walletVars PROVE MoneyInv'
  <2>. DEFINE K == {InvoiceKey(bill[p].id)}
  <2>1. AccountsOK' /\ CallsOK' /\ Grows(K) BY <1>3, InvoiceIsSpend DEF MoneyInv
  <2>2. K \cap Movements \subseteq {NoKey}
    <3>1. InvoiceKey(bill[p].id)[1] = "invoice.pay" BY DEF InvoiceKey
    <3>. QED BY <3>1, MovementKinds
  <2>3. RefusedOK' BY <1>3, <2>1, <2>2, RefusedStay DEF MoneyInv
  <2>. HIDE DEF K
  <2>. QED BY <1>3, <2>1, <2>3, InvoiceSteps DEF MoneyInv
<1>4. CASE /\ WalletStep
           /\ UNCHANGED <<invoiceVars, milestone, request, paidRow, balance, rows, call>>
  <2>1. AccountsOK' /\ CallsOK' /\ RefusedOK' BY <1>4, WalletSteps DEF MoneyInv
  <2>. QED BY <1>4, <2>1, InvoiceSteps DEF MoneyInv
<1>5. CASE UNCHANGED moneyVars
  <2>1. UNCHANGED vars /\ UNCHANGED invoiceVars /\ UNCHANGED walletVars
    BY <1>5 DEF moneyVars
  <2>2. AccountsOK' /\ CallsOK' /\ Grows(ProjectKeys) BY <2>1, EscrowStep DEF MoneyInv
  <2>. QED BY <2>1, <2>2, RefusedStay, ProjectApart, InvoiceSteps DEF MoneyInv
<1>. QED BY <1>1, <1>2, <1>3, <1>4, <1>5 DEF MoneyNext

\* Withdrawals, transfers, deposits and whatever the project does beside them
\* leave no wallet overdrawn, as long as no manual journal names a wallet's
\* account (the balance is derived in the transaction that posts).
THEOREM WalletsAlwaysSolvent ==
  ASSUME JournalsApart PROVE MoneySpec => []WalletsSolvent
<1>1. MoneyInit => MoneyInv BY MoneyStarts
<1>2. MoneyInv /\ [MoneyNext]_moneyVars => MoneyInv' BY MoneyKeeps
<1>3. MoneyInv => WalletsSolvent
  <2>1. AccountsOK => \A w \in Wallets : sums[w] \in Int /\ sums[w] <= 0
    BY AccountsApart DEF AccountsOK, BooksOK, Solvent
  <2>. QED BY <2>1 DEF MoneyInv, WalletsSolvent, WalletBalance
<1>. QED BY <1>1, <1>2, <1>3, PTL DEF MoneySpec

\* A withdrawal or transfer whose money has moved is not answered
\* "insufficient" when it is asked for again (replay before the balance check).
THEOREM MovedIsNeverRefused ==
  ASSUME JournalsApart PROVE MoneySpec => []NoRefusalAfterMoving
<1>1. MoneyInit => MoneyInv BY MoneyStarts
<1>2. MoneyInv /\ [MoneyNext]_moneyVars => MoneyInv' BY MoneyKeeps
<1>3. MoneyInv => NoRefusalAfterMoving
  <2>1. BooksOK => DOMAIN ledger = 1..Len(ledger) BY LenProperties DEF BooksOK
  <2>. QED BY <2>1 DEF MoneyInv, AccountsOK, RefusedOK, NoRefusalAfterMoving, PriorTxns
<1>. QED BY <1>1, <1>2, <1>3, PTL DEF MoneySpec

\* The part of the state that says what invoices are paid.
PaymentsInv == MoneyInv /\ BillsOK /\ ApprovalOK /\ PaidOK

\* Nobody else posts under an invoice's key.
LEMMA InvoiceKeysApart ==
  ASSUME EditsAlone, NEW i \in Invoices
  PROVE  InvoiceKey(i) \notin ProjectKeys /\ InvoiceKey(i) \notin WalletKeys
<1>1. InvoiceKey(i)[1] = "invoice.pay" /\ InvoiceKey(i) # NoKey BY DEF InvoiceKey, EditsAlone
<1>2. \A key \in Keys : key[1] # "invoice.pay" BY DEF Keys, TopupKey, ReleaseKey, PayKey
<1>. QED BY <1>1, <1>2 DEF ProjectKeys, WalletKeys, WalletKinds

LEMMA PaymentsStart ==
  ASSUME MoneyInit PROVE PaymentsInv
<1>1. MoneyInv BY MoneyStarts
<1>2. Len(ledger) = 0 BY DEF MoneyInit, Init, LedgerInit
<1>3. BillsOK /\ ApprovalOK /\ PaidOK
  BY <1>2 DEF MoneyInit, InvoiceInit, BillsOK, ApprovalOK, PaidOK
<1>. QED BY <1>1, <1>3 DEF PaymentsInv

LEMMA PaymentsKeep ==
  ASSUME JournalsApart, EditsAlone, PaymentsInv, [MoneyNext]_moneyVars PROVE PaymentsInv'
<1>1. MoneyInv' BY MoneyKeeps DEF PaymentsInv
<1>. USE DEF PaymentsInv, MoneyInv
<1>2. CASE Next /\ UNCHANGED <<invoiceVars, walletVars>>
  <2>1. Grows(ProjectKeys) BY <1>2, EscrowStep
  <2>2. BillsOK' /\ ApprovalOK' /\ ApprovalsGrow BY <1>2, ApprovalSteps
  <2>3. invoice' = invoice BY <1>2 DEF invoiceVars
  <2>. QED BY <1>1, <2>1, <2>2, <2>3, InvoiceKeysApart, PaidStays
<1>3. CASE InvoiceStep /\ UNCHANGED <<vars, walletVars>>
  <2>1. Grows(ProjectKeys) BY <1>3, EscrowStep
  <2>2. BillsOK' /\ ApprovalOK' /\ ApprovalsGrow BY <1>3, ApprovalSteps
  <2>3. CASE \E p \in Procs : PayInvoice(p)
    <3>1. PaidOK' BY <2>2, <2>3, PaymentPaid
    <3>. QED BY <1>1, <2>2, <3>1
  <2>4. CASE \A i \in Invoices : invoice'[i] = "paid" => invoice[i] = "paid"
    <3>1. PaidOK' BY <2>1, <2>2, <2>4, InvoiceKeysApart, PaidStays
    <3>. QED BY <1>1, <2>2, <3>1
  <2>. QED BY <1>3, <2>3, <2>4, ApprovalSteps
<1>4. ASSUME NEW p \in Procs, PayInvoice(p) /\ UNCHANGED walletVars PROVE PaymentsInv'
  <2>1. BillsOK' /\ ApprovalOK' /\ ApprovalsGrow BY <1>4, ApprovalSteps
  <2>2. PaidOK' BY <1>4, <2>1, PaymentPaid
  <2>. QED BY <1>1, <2>1, <2>2
<1>5. CASE /\ WalletStep
           /\ UNCHANGED <<invoiceVars, milestone, request, paidRow, balance, rows, call>>
  <2>1. Grows(WalletKeys) BY <1>5, WalletSteps
  <2>2. BillsOK' /\ ApprovalOK' /\ ApprovalsGrow BY <1>5, ApprovalSteps
  <2>3. invoice' = invoice BY <1>5 DEF invoiceVars
  <2>. QED BY <1>1, <2>1, <2>2, <2>3, InvoiceKeysApart, PaidStays
<1>6. CASE UNCHANGED moneyVars
  <2>1. UNCHANGED vars /\ UNCHANGED invoiceVars BY <1>6 DEF moneyVars
  <2>2. Grows(ProjectKeys) BY <2>1, EscrowStep
  <2>3. BillsOK' /\ ApprovalOK' /\ ApprovalsGrow BY <2>1, ApprovalSteps
  <2>4. invoice' = invoice BY <2>1 DEF invoiceVars
  <2>. QED BY <1>1, <2>2, <2>3, <2>4, InvoiceKeysApart, PaidStays
<1>. QED BY <1>2, <1>3, <1>4, <1>5, <1>6 DEF MoneyNext

\* What is paid for an invoice is a total its client approved, and it is paid
\* by one transaction with one row, whatever handlers are under way together -
\* submissions, decisions, disputes, payments - but an edit of a draft.
THEOREM InvoicesPaidAsApproved ==
  ASSUME JournalsApart, EditsAlone PROVE MoneySpec => []PaidAsApproved
<1>1. MoneyInit => PaymentsInv BY PaymentsStart
<1>2. PaymentsInv /\ [MoneyNext]_moneyVars => PaymentsInv' BY PaymentsKeep
<1>3. PaymentsInv => PaidAsApproved
  <2>. SUFFICES ASSUME PaymentsInv PROVE PaidAsApproved OBVIOUS
  <2>1. DOMAIN ledger = 1..Len(ledger)
    BY LenProperties DEF PaymentsInv, MoneyInv, AccountsOK, BooksOK
  <2>2. ASSUME NEW i \in Invoices, invoice[i] = "paid" PROVE PriorTxns(InvoiceKey(i)) # {}
    BY <2>1, <2>2 DEF PaymentsInv, PaidOK, PriorTxns, EditsAlone
  <2>3. ASSUME NEW i \in Invoices, NEW t \in PriorTxns(InvoiceKey(i))
        PROVE  ledger[t].debit \in approved[i] /\ \E k \in DOMAIN rows : rows[k] = t
    BY <2>1, <2>3 DEF PaymentsInv, PaidOK, PriorTxns
  <2>4. \A j, k \in DOMAIN rows : rows[j] = rows[k] => j = k
    BY DEF PaymentsInv, MoneyInv, AccountsOK, ProjectOK
  <2>. QED BY <2>2, <2>3, <2>4 DEF PaidAsApproved
<1>. QED BY <1>1, <1>2, <1>3, PTL DEF MoneySpec

-----------------------------------------------------------------------------
(* Everything that posts, on the ledger's promise.                         *)

\* A request in flight has a target of its kind.
TargetsOK ==
  /\ DOMAIN call = Procs
  /\ \A p \in Procs :
       /\ call[p].op \in MilestoneOps => call[p].id \in Milestones
       /\ call[p].op \in RequestOps => call[p].id \in Requests
       /\ call[p].op = "reverse" => call[p].id \in 1..Len(ledger)

RecordOK == BooksOK /\ rows \in Seq(1..Len(ledger)) /\ TargetsOK /\ InvoicesOK

\* What the reports count as spending is posted under a key of its own.
SpendKeys == {ReleaseKey(m) : m \in Milestones} \cup {PayKey(r) : r \in Requests}
               \cup {InvoiceKey(i) : i \in Invoices}
OtherKeys == MoneyKeys \ SpendKeys

\* Manual journals leave the escrow account alone.
JournalsOffEscrow == "ESCROW" \notin JournalAccounts

\* What a step may do to the ledger, the cached balance and the rows: spend, ...
Spends ==
  \E key \in SpendKeys, n \in Nat :
    /\ SpendEscrow(key, n) \/ SpendExternal(key, n)
    /\ rows' = RowsWith(TxnId(key))

\* ... top up, ...
ToppedUp ==
  \E key \in OtherKeys, n \in Nat :
    /\ ~Replays(key)
    /\ Post(key, TwoLegs("CASH", "ESCROW", n), 0)
    /\ balance' = balance + n
    /\ rows' = rows

\* ... move money elsewhere, ...
MovedAside ==
  \E key \in OtherKeys, l \in Lines :
    /\ Post(key, l, 0)
    /\ JournalsOffEscrow => l.dr # "ESCROW" /\ l.cr # "ESCROW"
    /\ UNCHANGED <<balance, rows>>

\* ... reverse, ...
Reverses ==
  \E of \in 1..Len(ledger) :
    /\ Post(NoKey, Mirrored(ledger[of]), of)
    /\ RestoreProjection(Mirrored(ledger[of]))
    /\ rows' = RowsWith(TxnId(NoKey))

\* ... or nothing.
Still == UNCHANGED <<ledger, sums, balance, rows>>

Flow == Spends \/ ToppedUp \/ MovedAside \/ Reverses \/ Still

\* A posting, or the mirror of a transaction, with or without a report row.
Posting ==
  \E key \in MoneyKeys, l \in Lines, of \in Nat :
    /\ Post(key, l, of)
    /\ of = 0 \/ (of \in 1..Len(ledger) /\ l = Mirrored(ledger[of]))
    /\ rows' = rows \/ rows' = RowsWith(TxnId(key))

LEMMA OtherKinds ==
  /\ \A ref \in TopupRefs : TopupKey(ref) \in OtherKeys
  /\ NoKey \in OtherKeys /\ Movements \subseteq OtherKeys
  /\ \A w \in Wallets, n \in WalletAmounts, ref \in DepositRefs \cup {NoReference} :
       DepositKey(w, n, ref) \in OtherKeys
  /\ SpendKeys \subseteq MoneyKeys
<1>1. /\ SpendKeys \subseteq MoneyKeys /\ NoKey \in MoneyKeys /\ NoKey \notin SpendKeys
  <2>1. SpendKeys \subseteq MoneyKeys BY KeyKinds DEF SpendKeys
  <2>2. /\ \A m \in Milestones : ReleaseKey(m) # NoKey
        /\ \A r \in Requests : PayKey(r) # NoKey
    BY NoKeyAssumption DEF Keys
  <2>3. \A key \in SpendKeys : key # NoKey BY <2>2, InvoiceKeyAssumption DEF SpendKeys
  <2>4. NoKey \in MoneyKeys BY DEF MoneyKeys
  <2>. QED BY <2>1, <2>3, <2>4
<1>2. \A key \in SpendKeys : key[1] \in {"milestone.release", "payment.request", "invoice.pay"}
  BY KeyKinds DEF SpendKeys
<1>3. ASSUME NEW ref \in TopupRefs PROVE TopupKey(ref) \in OtherKeys
  BY <1>2, KeyKinds DEF OtherKeys
<1>4. ASSUME NEW key \in Movements PROVE key \in OtherKeys
  BY <1>2, MovementKinds DEF OtherKeys
<1>5. ASSUME NEW w \in Wallets, NEW n \in WalletAmounts,
             NEW ref \in DepositRefs \cup {NoReference}
      PROVE  DepositKey(w, n, ref) \in OtherKeys
  <2>1. /\ DepositKey(w, n, ref) \in MoneyKeys
        /\ DepositKey(w, n, ref) = NoKey \/ DepositKey(w, n, ref)[1] = "wallet.deposit"
    BY WalletKeyKinds
  <2>. QED BY <1>1, <1>2, <2>1 DEF OtherKeys
<1>. QED BY <1>1, <1>3, <1>4, <1>5 DEF OtherKeys

\* The legs that flows post.
LEMMA FlowLegs ==
  ASSUME NEW n \in Nat
  PROVE  /\ TwoLegs("ESCROW", "EXPENSE", n) \in Lines
         /\ TwoLegs("EXPENSE", "CASH", n) \in Lines
         /\ TwoLegs("CASH", "ESCROW", n) \in Lines
BY AccountsApart DEF TwoLegs, Lines

LEMMA MirroredLegs ==
  ASSUME BooksOK, NEW of \in 1..Len(ledger)
  PROVE  ledger[of] \in LedgerRow /\ Mirrored(ledger[of]) \in Lines /\ of \in Nat /\ of # 0
<1>1. ledger[of] \in LedgerRow /\ of \in Nat /\ of # 0
  BY ElementOfSeq, LenProperties DEF BooksOK
<1>. QED BY <1>1 DEF Mirrored, LedgerRow, Lines

\* A flow posts once or not at all.
LEMMA FlowPosts ==
  ASSUME RecordOK, Flow PROVE Posting \/ Still
<1>1. CASE Spends
  <2>1. PICK key \in SpendKeys, n \in Nat :
          /\ SpendEscrow(key, n) \/ SpendExternal(key, n)
          /\ rows' = RowsWith(TxnId(key))
    BY <1>1 DEF Spends
  <2>2. key \in MoneyKeys /\ \E l \in Lines : Post(key, l, 0)
    BY <2>1, OtherKinds, FlowLegs DEF SpendEscrow, SpendExternal
  <2>. QED BY <2>1, <2>2 DEF Posting
<1>2. CASE ToppedUp BY <1>2, FlowLegs DEF ToppedUp, Posting, OtherKeys
<1>3. CASE MovedAside BY <1>3 DEF MovedAside, Posting, OtherKeys
<1>4. CASE Reverses
  <2>1. PICK of \in 1..Len(ledger) :
          Post(NoKey, Mirrored(ledger[of]), of) /\ rows' = RowsWith(TxnId(NoKey))
    BY <1>4 DEF Reverses
  <2>. DEFINE l == Mirrored(ledger[of])
  <2>2. l \in Lines /\ of \in Nat /\ NoKey \in MoneyKeys
    BY MirroredLegs, OtherKinds DEF RecordOK, OtherKeys
  <2>3. Post(NoKey, l, of) /\ l = Mirrored(ledger[of]) BY <2>1
  <2>. HIDE DEF l
  <2>. QED BY <2>1, <2>2, <2>3 DEF Posting
<1>. QED BY <1>1, <1>2, <1>3, <1>4 DEF Flow

LEMMA RecordGrows ==
  ASSUME RecordOK, Posting \/ Still
  PROVE  BooksOK' /\ (rows \in Seq(1..Len(ledger)))' /\ 1..Len(ledger) \subseteq 1..Len(ledger')
<1>1. CASE Still BY <1>1 DEF Still, RecordOK, BooksOK
<1>2. CASE Posting
  <2>1. PICK key \in MoneyKeys, l \in Lines, of \in Nat :
          Post(key, l, of) /\ (rows' = rows \/ rows' = RowsWith(TxnId(key)))
    BY <1>2 DEF Posting
  <2>2. /\ BooksOK' /\ Len(ledger) \in Nat /\ Len(ledger') \in Nat
        /\ Len(ledger) <= Len(ledger') /\ TxnId(key) \in 1..Len(ledger')
    BY <2>1, PostEffect DEF RecordOK
  <2>3. RowsWith(TxnId(key)) \in Seq(1..Len(ledger')) BY <2>2, RowAdded DEF RecordOK
  <2>4. 1..Len(ledger) \subseteq 1..Len(ledger') BY <2>2
  <2>5. rows \in Seq(1..Len(ledger')) BY <2>2, <2>4, SeqMonotonic DEF RecordOK
  <2>. QED BY <2>1, <2>2, <2>3, <2>4, <2>5
<1>. QED BY <1>1, <1>2

LEMMA TargetsStay ==
  ASSUME TargetsOK, 1..Len(ledger) \subseteq 1..Len(ledger'),
         call' = call \/ \E p \in Procs : Answer(p)
  PROVE  TargetsOK'
<1>1. /\ DOMAIN call' = Procs
      /\ \A q \in Procs : call'[q] = call[q] \/ call'[q] = NoCall
  BY DEF TargetsOK, Answer
<1>2. NoCall.op \notin MilestoneOps \cup RequestOps \cup {"reverse"}
  BY DEF NoCall, MilestoneOps, RequestOps
<1>. QED BY <1>1, <1>2 DEF TargetsOK

LEMMA TargetStarts ==
  ASSUME TargetsOK, ledger' = ledger, NEW p \in Procs, NEW op, NEW id, NEW seen,
         Suspend(p, op, id, seen),
         op \in MilestoneOps => id \in Milestones,
         op \in RequestOps => id \in Requests,
         op = "reverse" => id \in 1..Len(ledger)
  PROVE  TargetsOK'
<1>1. /\ DOMAIN call' = Procs
      /\ \A q \in Procs \ {p} : call'[q] = call[q]
      /\ call'[p].op = op /\ call'[p].id = id
  BY DEF TargetsOK, Suspend
<1>. QED BY <1>1 DEF TargetsOK

\* A step of one flow, whose call ends or was none.
LEMMA FlowEnds ==
  ASSUME RecordOK, Flow, call' = call \/ \E p \in Procs : Answer(p)
  PROVE  TargetsOK'
BY FlowPosts, RecordGrows, TargetsStay DEF RecordOK

\* The escrow flows.
LEMMA EscrowFlows ==
  ASSUME RecordOK, [Next]_vars
  PROVE  Flow /\ TargetsOK'
<1>1. ASSUME NEW ref \in TopupRefs, NEW n \in TopupAmounts, Topup(ref, n)
      PROVE  Flow /\ TargetsOK'
  <2>1. /\ ~Replays(TopupKey(ref)) /\ Post(TopupKey(ref), TwoLegs("CASH", "ESCROW", n), 0)
        /\ balance' = balance + n /\ rows' = rows /\ call' = call
    BY <1>1 DEF Topup
  <2>2. TopupKey(ref) \in OtherKeys /\ n \in Nat BY OtherKinds, TargetsAssumption
  <2>3. Flow BY <2>1, <2>2 DEF ToppedUp, Flow
  <2>. QED BY <2>1, <2>3, FlowEnds
<1>2. ASSUME NEW dr \in JournalAccounts, NEW cr \in JournalAccounts,
             NEW n \in JournalAmounts, NEW k \in JournalAmounts, Journal(dr, cr, n, k)
      PROVE  Flow /\ TargetsOK'
  <2>. DEFINE l == [dr |-> dr, cr |-> cr, debit |-> n, credit |-> k]
  <2>1. l \in Lines /\ l.dr = dr /\ l.cr = cr BY TargetsAssumption DEF Lines
  <2>2. Post(NoKey, l, 0) /\ UNCHANGED <<balance, rows, call>> BY <1>2 DEF Journal
  <2>. HIDE DEF l
  <2>3. JournalsOffEscrow => l.dr # "ESCROW" /\ l.cr # "ESCROW"
    BY <2>1 DEF JournalsOffEscrow
  <2>4. Flow BY <2>1, <2>2, <2>3, OtherKinds DEF MovedAside, Flow
  <2>. QED BY <2>2, <2>4, FlowEnds
<1>3. CASE \/ \E m \in Milestones : CreateMilestone(m)
           \/ \E r \in Requests : CreateRequest(r)
           \/ UNCHANGED vars
  <2>1. Still /\ call' = call BY <1>3 DEF CreateMilestone, CreateRequest, vars, Still
  <2>. QED BY <2>1, FlowEnds DEF Flow
<1>4. ASSUME NEW p \in Procs, NEW m \in Milestones,
             \/ ReadEvidence(p, m) \/ ReadRequestRelease(p, m)
             \/ ReadApprove(p, m) \/ ReadReject(p, m)
      PROVE  Flow /\ TargetsOK'
  <2>1. PICK op \in MilestoneOps, expected \in SUBSET MilestoneStatus :
          ReadMilestone(p, m, op, expected)
    BY <1>4 DEF ReadEvidence, ReadRequestRelease, ReadApprove, ReadReject, MilestoneOps,
                MilestoneStatus
  <2>2. /\ Suspend(p, op, m, milestone[m]) /\ Still
        /\ op \notin RequestOps /\ op # "reverse"
    BY <2>1 DEF ReadMilestone, MilestoneOps, RequestOps, Still
  <2>. QED BY <2>2, TargetStarts DEF RecordOK, Still, Flow
<1>5. ASSUME NEW p \in Procs, NEW r \in Requests, ReadDecision(p, r) \/ ReadPay(p, r)
      PROVE  Flow /\ TargetsOK'
  <2>1. PICK op \in RequestOps, expected \in RequestStatus : ReadRequest(p, r, op, expected)
    BY <1>5 DEF ReadDecision, ReadPay, RequestOps, RequestStatus
  <2>2. /\ Suspend(p, op, r, request[r]) /\ Still
        /\ op \notin MilestoneOps /\ op # "reverse"
    BY <2>1 DEF ReadRequest, MilestoneOps, RequestOps, Still
  <2>. QED BY <2>2, TargetStarts DEF RecordOK, Still, Flow
<1>6. ASSUME NEW p \in Procs, NEW k \in DOMAIN rows, ReadReversal(p, k)
      PROVE  Flow /\ TargetsOK'
  <2>1. rows[k] \in 1..Len(ledger) BY LenProperties, ElementOfSeq DEF RecordOK
  <2>2. Suspend(p, "reverse", rows[k], ledger[rows[k]].status) /\ Still
    BY <1>6 DEF ReadReversal, Still
  <2>. QED BY <2>1, <2>2, TargetStarts DEF RecordOK, Still, Flow, MilestoneOps, RequestOps
<1>7. ASSUME NEW p \in Procs,
             \/ WriteEvidence(p) \/ WriteRequestRelease(p) \/ WriteReject(p) \/ WriteDecision(p)
             \/ ReleaseRefused(p) \/ PayRefused(p) \/ ReverseRefused(p)
      PROVE  Flow /\ TargetsOK'
  <2>1. Answer(p) /\ Still
    BY <1>7 DEF WriteEvidence, WriteRequestRelease, WriteReject, WriteMilestone, WriteDecision,
                ReleaseRefused, PayRefused, ReverseRefused, Throw, Still
  <2>. QED BY <2>1, FlowEnds DEF Flow
<1>8. ASSUME NEW p \in Procs, Release(p) PROVE Flow /\ TargetsOK'
  <2>. DEFINE m == call[p].id
  <2>1. m \in Milestones BY <1>8 DEF Release, Resume, RecordOK, TargetsOK, MilestoneOps
  <2>2. /\ SpendEscrow(ReleaseKey(m), Price[m]) /\ Answer(p)
        /\ rows' = RowsWith(TxnId(ReleaseKey(m)))
    BY <1>8 DEF Release
  <2>. HIDE DEF m
  <2>3. Price[m] \in Nat /\ ReleaseKey(m) \in SpendKeys
    BY <2>1, TargetsAssumption DEF SpendKeys
  <2>4. Flow BY <2>2, <2>3 DEF Spends, Flow
  <2>. QED BY <2>2, <2>4, FlowEnds
<1>9. ASSUME NEW p \in Procs, Pay(p) PROVE Flow /\ TargetsOK'
  <2>. DEFINE r == call[p].id
  <2>1. r \in Requests BY <1>9 DEF Pay, Resume, RecordOK, TargetsOK, RequestOps
  <2>2. /\ SpendEscrow(PayKey(r), Price[r]) \/ SpendExternal(PayKey(r), Price[r])
        /\ rows' = RowsWith(TxnId(PayKey(r))) /\ Answer(p)
    BY <1>9 DEF Pay
  <2>. HIDE DEF r
  <2>3. Price[r] \in Nat /\ PayKey(r) \in SpendKeys
    BY <2>1, TargetsAssumption DEF SpendKeys
  <2>4. Flow BY <2>2, <2>3 DEF Spends, Flow
  <2>. QED BY <2>2, <2>4, FlowEnds
<1>10. ASSUME NEW p \in Procs, ReverseTransaction(p) PROVE Flow /\ TargetsOK'
  <2>. DEFINE t == call[p].id
  <2>1. t \in 1..Len(ledger) BY <1>10 DEF ReverseTransaction, Resume, RecordOK, TargetsOK
  <2>2. /\ Post(NoKey, Mirrored(ledger[t]), t) /\ RestoreProjection(Mirrored(ledger[t]))
        /\ rows' = RowsWith(TxnId(NoKey)) /\ Answer(p)
    BY <1>10 DEF ReverseTransaction
  <2>. HIDE DEF t
  <2>3. Flow BY <2>1, <2>2 DEF Reverses, Flow
  <2>. QED BY <2>2, <2>3, FlowEnds
<1>. QED BY <1>1, <1>2, <1>3, <1>4, <1>5, <1>6, <1>7, <1>8, <1>9, <1>10 DEF Next

\* Wallets move money beside the escrow account.
LEMMA WalletFlows ==
  ASSUME RecordOK, WalletStep, UNCHANGED <<balance, rows, call>>
  PROVE  Flow /\ TargetsOK'
<1>1. PICK w \in Wallets :
        \/ CreateWallet(w)
        \/ \E amount \in WalletAmounts :
             \/ \E ref \in DepositRefs \cup {NoReference} : Deposit(w, amount, ref)
             \/ \E note \in Notes : \/ Withdraw(w, amount, note)
                                    \/ \E v \in Wallets : TransferMoney(v, w, amount, note)
  BY DEF WalletStep
<1>2. CASE CreateWallet(w)
  <2>1. Still BY <1>2 DEF CreateWallet, ledgerVars, Still
  <2>. QED BY <2>1, FlowEnds DEF Flow
<1>3. ASSUME NEW dr \in Wallets \cup {"CASH"}, NEW cr \in Wallets \cup {"CASH"},
             NEW n \in WalletAmounts, NEW key \in OtherKeys, Post(key, TwoLegs(dr, cr, n), 0)
      PROVE  Flow /\ TargetsOK'
  <2>. DEFINE l == TwoLegs(dr, cr, n)
  <2>1. l \in Lines /\ l.dr # "ESCROW" /\ l.cr # "ESCROW"
    BY WalletAssumption, AccountsApart DEF TwoLegs, Lines
  <2>. HIDE DEF l
  <2>2. Flow BY <1>3, <2>1 DEF MovedAside, Flow, l
  <2>. QED BY <2>2, FlowEnds
<1>4. ASSUME NEW n \in WalletAmounts, NEW ref \in DepositRefs \cup {NoReference},
             Deposit(w, n, ref)
      PROVE  Flow /\ TargetsOK'
  <2>1. Post(DepositKey(w, n, ref), TwoLegs("CASH", w, n), 0) BY <1>4 DEF Deposit
  <2>. QED BY <1>3, <2>1, OtherKinds
<1>5. ASSUME NEW v \in Wallets, NEW key \in Movements, NEW to \in Wallets \cup {"CASH"},
             NEW n \in WalletAmounts, TakeFrom(v, key, to, n)
      PROVE  Flow /\ TargetsOK'
  <2>1. Post(key, TwoLegs(v, to, n), 0) \/ Still BY <1>5 DEF TakeFrom, ledgerVars, Still
  <2>2. CASE Still BY <2>2, FlowEnds DEF Flow
  <2>3. CASE Post(key, TwoLegs(v, to, n), 0) BY <1>3, <2>3, OtherKinds
  <2>. QED BY <2>1, <2>2, <2>3
<1>6. ASSUME NEW n \in WalletAmounts, NEW note \in Notes,
             Withdraw(w, n, note) \/ \E v \in Wallets : TransferMoney(v, w, n, note)
      PROVE  Flow /\ TargetsOK'
  BY <1>5, <1>6, WalletKeyKinds DEF Withdraw, TransferMoney
<1>. QED BY <1>1, <1>2, <1>4, <1>6

\* Every step of the composition is one flow.
LEMMA MoneyFlows ==
  ASSUME RecordOK, [MoneyNext]_moneyVars
  PROVE  Flow /\ RecordOK'
<1>1. Flow /\ TargetsOK' /\ InvoicesOK'
  <2>1. CASE Next /\ UNCHANGED <<invoiceVars, walletVars>>
    BY <2>1, EscrowFlows, InvoiceSteps DEF RecordOK
  <2>2. CASE InvoiceStep /\ UNCHANGED <<vars, walletVars>>
    BY <2>2, EscrowFlows, InvoiceSteps DEF RecordOK
  <2>3. ASSUME NEW p \in Procs, PayInvoice(p)
        PROVE  Flow /\ TargetsOK' /\ InvoicesOK'
    <3>. DEFINE i == bill[p].id
    <3>1. i \in Invoices /\ total[i] \in Nat
      BY <2>3 DEF PayInvoice, RecordOK, InvoicesOK, InvoiceTypeOK, NoBill
    <3>2. /\ SpendEscrow(InvoiceKey(i), total[i]) \/ SpendExternal(InvoiceKey(i), total[i])
          /\ rows' = RowsWith(TxnId(InvoiceKey(i))) /\ call' = call
      BY <2>3 DEF PayInvoice, InvoiceRows
    <3>. HIDE DEF i
    <3>3. InvoiceKey(i) \in SpendKeys BY <3>1 DEF SpendKeys
    <3>4. Flow BY <3>1, <3>2, <3>3 DEF Spends, Flow
    <3>. QED BY <2>3, <3>2, <3>4, FlowEnds, InvoiceSteps DEF RecordOK
  <2>4. CASE /\ WalletStep
             /\ UNCHANGED <<invoiceVars, milestone, request, paidRow, balance, rows, call>>
    BY <2>4, WalletFlows, InvoiceSteps DEF RecordOK
  <2>5. CASE UNCHANGED moneyVars
    <3>1. UNCHANGED vars /\ UNCHANGED invoiceVars BY <2>5 DEF moneyVars
    <3>. QED BY <3>1, EscrowFlows, InvoiceSteps DEF RecordOK
  <2>. QED BY <2>1, <2>2, <2>3, <2>4, <2>5 DEF MoneyNext
<1>. QED BY <1>1, FlowPosts, RecordGrows DEF RecordOK

LEMMA RecordStarts == MoneyInit => RecordOK
<1>. SUFFICES ASSUME MoneyInit PROVE RecordOK
  OBVIOUS
<1>1. ledger = <<>> /\ rows = <<>> /\ sums = [a \in Accounts |-> 0]
      /\ call = [p \in Procs |-> NoCall]
  BY DEF MoneyInit, Init, LedgerInit
<1>2. BooksOK /\ rows \in Seq(1..Len(ledger)) BY <1>1 DEF BooksOK
<1>3. TargetsOK BY <1>1 DEF TargetsOK, NoCall, MilestoneOps, RequestOps
<1>4. InvoicesOK BY DEF MoneyInit, InvoiceInit, InvoicesOK, InvoiceTypeOK, InvoiceStatus
<1>. QED BY <1>2, <1>3, <1>4 DEF RecordOK

-----------------------------------------------------------------------------
(* The refinement.                                                         *)

LEMMA SameInterval ==
  ASSUME NEW a \in Nat, NEW b \in Nat, 1..a = 1..b
  PROVE  a = b
<1>1. a < b => b \in 1..b /\ b \notin 1..a OBVIOUS
<1>2. b < a => a \in 1..a /\ a \notin 1..b OBVIOUS
<1>. QED BY <1>1, <1>2

\* The book has one entry per transaction.
LEMMA BookEntries ==
  ASSUME NEW L \in Seq(LedgerRow)
  PROVE  /\ Len(BookOf(L)) = Len(L) /\ Len(L) \in Nat
         /\ DOMAIN BookOf(L) = 1..Len(L) /\ DOMAIN L = 1..Len(L)
         /\ \A i \in 1..Len(L) : BookOf(L)[i] = Entry(L[i]) /\ L[i] \in LedgerRow
<1>. DEFINE E == {Entry(t) : t \in LedgerRow}
            B == BookOf(L)
<1>1. /\ Len(L) \in Nat /\ DOMAIN L = 1..Len(L)
      /\ \A i \in 1..Len(L) : L[i] \in LedgerRow
  BY LenProperties, ElementOfSeq
<1>2. B \in [1..Len(L) -> E] /\ \A i \in 1..Len(L) : B[i] = Entry(L[i])
  BY <1>1 DEF BookOf
<1>. HIDE DEF E, B
<1>3. B \in Seq(E) BY <1>1, <1>2, SeqDef
<1>4. DOMAIN B = 1..Len(B) /\ Len(B) \in Nat /\ DOMAIN B = 1..Len(L)
  BY <1>2, <1>3, LenProperties
<1>5. Len(B) = Len(L) BY <1>1, <1>4, SameInterval
<1>. QED BY <1>1, <1>2, <1>4, <1>5 DEF B

\* A new posting: what is recorded stays but for the original's status.
LEMMA PostAppends ==
  ASSUME BooksOK, NEW key \in MoneyKeys, NEW l \in Lines, NEW of \in Nat,
         Post(key, l, of), ~Replays(key)
  PROVE  /\ ledger' \in Seq(LedgerRow) /\ Len(ledger') = Len(ledger) + 1
         /\ ledger'[Len(ledger) + 1] = NewTxn(key, l, of)
         /\ \A i \in 1..Len(ledger) :
              /\ Entry(ledger'[i]) = Entry(ledger[i])
              /\ ledger'[i].status = IF i = of THEN "reversed" ELSE ledger[i].status
         /\ of # 0 => ledger[of].status = "posted"
<1>. DEFINE M == MarkReversed(of)
            t == NewTxn(key, l, of)
<1>1. /\ Len(ledger) \in Nat /\ DOMAIN ledger = 1..Len(ledger)
      /\ \A i \in 1..Len(ledger) : ledger[i] \in LedgerRow
  BY LenProperties, ElementOfSeq DEF BooksOK
<1>2. ledger' = Append(M, t) /\ (of # 0 => ledger[of].status = "posted")
  BY DEF Post, MayReverse
<1>3. t \in LedgerRow BY DEF NewTxn, LedgerRow, Lines
<1>4. M \in Seq(LedgerRow) /\ Len(M) = Len(ledger) BY MarkedIsKept DEF BooksOK
<1>5. \A i \in 1..Len(ledger) :
        M[i] = IF i = of THEN [ledger[i] EXCEPT !.status = "reversed"] ELSE ledger[i]
  BY <1>1 DEF MarkReversed
<1>6. \A x \in LedgerRow :
        /\ [x EXCEPT !.status = "reversed"].status = "reversed"
        /\ Entry([x EXCEPT !.status = "reversed"]) = Entry(x)
  BY DEF LedgerRow, Entry
<1>. HIDE DEF M, t
<1>7. /\ ledger' \in Seq(LedgerRow) /\ Len(ledger') = Len(ledger) + 1
      /\ ledger'[Len(ledger) + 1] = t
      /\ \A i \in 1..Len(ledger) : ledger'[i] = M[i]
  BY <1>1, <1>2, <1>3, <1>4
<1>8. ASSUME NEW i \in 1..Len(ledger)
      PROVE  /\ Entry(ledger'[i]) = Entry(ledger[i])
             /\ ledger'[i].status = IF i = of THEN "reversed" ELSE ledger[i].status
  <2>1. ledger'[i] = M[i] /\ ledger[i] \in LedgerRow BY <1>1, <1>7
  <2>. QED BY <1>5, <1>6, <2>1
<1>. QED BY <1>2, <1>7, <1>8 DEF t

\* One posting is one step of the book: a new entry, or a correction.
LEMMA PostingRecords ==
  ASSUME BooksOK, Posting
  PROVE  Promise!Next \/ UNCHANGED <<Book, Corrected>>
<1>. PICK key \in MoneyKeys, l \in Lines, of \in Nat :
       /\ Post(key, l, of)
       /\ of = 0 \/ (of \in 1..Len(ledger) /\ l = Mirrored(ledger[of]))
  BY DEF Posting
<1>. DEFINE n == Len(ledger)
            e == Book'[n + 1]
<1>1. CASE Replays(key)
  <2>1. UNCHANGED ledger BY <1>1 DEF Post, ledgerVars
  <2>. QED BY <2>1 DEF Book, BookOf, Corrected
<1>2. CASE ~Replays(key)
  <2>1. /\ ledger' \in Seq(LedgerRow) /\ Len(ledger') = n + 1
        /\ ledger'[n + 1] = NewTxn(key, l, of)
        /\ \A i \in 1..n :
             /\ Entry(ledger'[i]) = Entry(ledger[i])
             /\ ledger'[i].status = IF i = of THEN "reversed" ELSE ledger[i].status
        /\ of # 0 => ledger[of].status = "posted"
    BY <1>2, PostAppends
  <2>2. /\ Len(Book) = n /\ n \in Nat /\ DOMAIN Book = 1..n /\ DOMAIN ledger = 1..n
        /\ \A i \in 1..n : Book[i] = Entry(ledger[i])
    BY BookEntries DEF Book, BooksOK
  <2>3. /\ Len(Book') = n + 1 /\ DOMAIN ledger' = 1..(n + 1)
        /\ \A i \in 1..(n + 1) : Book'[i] = Entry(ledger'[i])
    <3>1. PICK L \in Seq(LedgerRow) : L = ledger' BY <2>1
    <3>2. Book' = BookOf(L) BY <3>1 DEF Book, BookOf, Entry
    <3>. QED BY <2>1, <3>1, <3>2, BookEntries
  <2>4. \A i \in 1..n : Book'[i] = Book[i] BY <2>1, <2>2, <2>3
  <2>5. Promise!GrowsByOne BY <2>2, <2>3, <2>4 DEF Promise!GrowsByOne
  <2>6. /\ e.key = key /\ e.dr = l.dr /\ e.cr = l.cr /\ e.debit = l.debit
        /\ e.credit = l.credit /\ e.reverses = of
    BY <2>1, <2>2, <2>3 DEF Entry, NewTxn
  <2>7. e.debit > 0 /\ e.debit = e.credit BY <2>6 DEF Post, ValidLines
  <2>8. e.key = NoKey \/ \A i \in DOMAIN Book : Book[i].key # e.key
    BY <1>2, <2>2, <2>6 DEF Replays, PriorTxns, Entry
  <2>9. ledger'[n + 1].status = "posted" BY <2>1 DEF NewTxn
  <2>. HIDE DEF e
  <2>10. CASE of = 0
    <3>1. Corrected' = Corrected BY <2>1, <2>2, <2>3, <2>9, <2>10 DEF Corrected
    <3>2. Promise!Record
      BY <2>2, <2>5, <2>6, <2>7, <2>8, <2>10, <3>1
      DEF Promise!Record, Promise!Balances, Promise!KeyIsFresh, e
    <3>. QED BY <3>2 DEF Promise!Next
  <2>11. CASE of # 0
    <3>1. of \in 1..n /\ l = Mirrored(ledger[of]) /\ ledger[of].status = "posted"
      BY <2>1, <2>11
    <3>2. Corrected' = Corrected \cup {of}
      BY <2>1, <2>2, <2>3, <2>9, <3>1 DEF Corrected
    <3>3. of \in DOMAIN Book \ Corrected BY <2>2, <3>1 DEF Corrected
    <3>4. /\ e.dr = Book[of].cr /\ e.cr = Book[of].dr
          /\ e.debit = Book[of].credit /\ e.credit = Book[of].debit
      BY <2>2, <2>6, <3>1 DEF Mirrored, Entry
    <3>5. Promise!Correct
      BY <2>2, <2>5, <2>6, <2>7, <2>8, <3>2, <3>3, <3>4
      DEF Promise!Correct, Promise!Balances, Promise!KeyIsFresh, Promise!Mirrors, e
    <3>. QED BY <3>5 DEF Promise!Next
  <2>. QED BY <2>10, <2>11
<1>. QED BY <1>1, <1>2

\* Whatever posts beside whatever - escrow flows, journals, reversals,
\* invoices, deposits, withdrawals, transfers - the one ledger of the project
\* keeps its promise (postLedgerTransactionInTx and its callers).
THEOREM MoneyKeepsThePromise == MoneySpec => LedgerPromise
<1>1. MoneyInit => RecordOK /\ Promise!Init
  <2>1. MoneyInit => ledger = <<>> BY DEF MoneyInit, Init, LedgerInit
  <2>2. ledger = <<>> => Promise!Init BY DEF Promise!Init, Book, BookOf, Corrected
  <2>. QED BY <2>1, <2>2, RecordStarts
<1>2. RecordOK /\ [MoneyNext]_moneyVars => RecordOK' /\ [Promise!Next]_(Promise!vars)
  <2>. SUFFICES ASSUME RecordOK, [MoneyNext]_moneyVars
                PROVE  RecordOK' /\ [Promise!Next]_(Promise!vars)
    OBVIOUS
  <2>1. (Posting \/ Still) /\ RecordOK' BY MoneyFlows, FlowPosts
  <2>2. Still => UNCHANGED <<Book, Corrected>> BY DEF Still, Book, BookOf, Corrected
  <2>3. BooksOK BY DEF RecordOK
  <2>. QED BY <2>1, <2>2, <2>3, PostingRecords DEF Promise!vars
<1>. QED BY <1>1, <1>2, PTL DEF MoneySpec, LedgerPromise, Promise!Spec

-----------------------------------------------------------------------------
(* The escrow account among everything else that posts.                    *)

\* A transaction that was not there before is the one just posted.
LEMMA NewIsPosted ==
  ASSUME BooksOK, NEW key \in MoneyKeys, NEW l \in Lines, NEW of \in Nat,
         Post(key, l, of), NEW i \in DOMAIN ledger' \ DOMAIN ledger
  PROVE  ~Replays(key) /\ ledger'[i] = NewTxn(key, l, of)
<1>1. /\ Len(ledger) \in Nat /\ DOMAIN ledger = 1..Len(ledger)
      /\ DOMAIN ledger' = 1..Len(ledger') /\ (Replays(key) => ledger' = ledger)
  BY PostEffect
<1>2. ~Replays(key) BY <1>1
<1>3. /\ Len(ledger') = Len(ledger) + 1
      /\ ledger'[Len(ledger) + 1] = NewTxn(key, l, of)
  BY <1>2, PostAppends
<1>4. i = Len(ledger) + 1 BY <1>1, <1>3
<1>. QED BY <1>2, <1>3, <1>4

\* What a flow finds recorded it leaves, but for the status.
LEMMA EntriesStay ==
  ASSUME RecordOK, Flow, NEW i \in DOMAIN ledger
  PROVE  i \in DOMAIN ledger' /\ Entry(ledger'[i]) = Entry(ledger[i])
<1>1. CASE Still BY <1>1 DEF Still
<1>2. CASE Posting
  <2>1. PICK key \in MoneyKeys, l \in Lines, of \in Nat : Post(key, l, of)
    BY <1>2 DEF Posting
  <2>2. BooksOK BY DEF RecordOK
  <2>3. /\ DOMAIN ledger = 1..Len(ledger) /\ DOMAIN ledger' = 1..Len(ledger')
        /\ \A j \in 1..Len(ledger) : SameRow(j)
        /\ Replays(key) => ledger' = ledger
    BY <2>1, <2>2, PostEffect
  <2>4. i \in DOMAIN ledger' BY <2>3 DEF SameRow
  <2>5. ~Replays(key) => Entry(ledger'[i]) = Entry(ledger[i])
    BY <2>1, <2>2, <2>3, PostAppends
  <2>. QED BY <2>3, <2>4, <2>5
<1>. QED BY <1>1, <1>2, FlowPosts

\* A posting moves the escrow account by what its legs say, a replay not at all.
LEMMA PostMovesEscrow ==
  ASSUME BooksOK, NEW key \in MoneyKeys, NEW l \in Lines, NEW of \in Nat, Post(key, l, of)
  PROVE  /\ EscrowBalance \in Int /\ EscrowBalance' \in Int /\ Effect(l, "ESCROW") \in Int
         /\ Replays(key) => EscrowBalance' = EscrowBalance
         /\ ~Replays(key) => EscrowBalance' = EscrowBalance - Effect(l, "ESCROW")
<1>1. "ESCROW" \in Accounts BY AccountsApart
<1>2. sums["ESCROW"] \in Int BY <1>1 DEF BooksOK
<1>3. Effect(l, "ESCROW") \in Int BY DEF Effect, Lines
<1>4. /\ Replays(key) => sums'["ESCROW"] = sums["ESCROW"]
      /\ ~Replays(key) => sums'["ESCROW"] = sums["ESCROW"] + Effect(l, "ESCROW")
  BY <1>1, PostEffect
<1>. QED BY <1>2, <1>3, <1>4 DEF EscrowBalance

LEMMA TwoLegsMove ==
  ASSUME NEW n \in Nat
  PROVE  /\ Effect(TwoLegs("ESCROW", "EXPENSE", n), "ESCROW") = n
         /\ Effect(TwoLegs("EXPENSE", "CASH", n), "ESCROW") = 0
         /\ Effect(TwoLegs("CASH", "ESCROW", n), "ESCROW") = -n
BY DEF Effect, TwoLegs

\* The cached balance gains nothing on the ledger's: a flow moves both by as
\* much, or, as a replayed spend, only the cache, and down.  The ledger's goes
\* down by a spend, which leaves the cache at 0 or more, or by a reversal.
LEMMA FlowBalances ==
  ASSUME RecordOK, balance \in Int, JournalsOffEscrow, Flow
  PROVE  /\ EscrowBalance \in Int /\ EscrowBalance' \in Int /\ balance' \in Int
         /\ balance' - EscrowBalance' <= balance - EscrowBalance
         /\ EscrowBalance' < EscrowBalance => balance' >= 0 \/ Reverses
<1>. BooksOK BY DEF RecordOK
<1>1. CASE Spends
  <2>1. PICK key \in SpendKeys, n \in Nat : SpendEscrow(key, n) \/ SpendExternal(key, n)
    BY <1>1 DEF Spends
  <2>2. key \in MoneyKeys BY OtherKinds
  <2>3. CASE SpendEscrow(key, n)
    <3>1. /\ Post(key, TwoLegs("ESCROW", "EXPENSE", n), 0)
          /\ balance >= n /\ balance' = balance - n
      BY <2>3 DEF SpendEscrow, CanSpendEscrow
    <3>2. /\ EscrowBalance \in Int /\ EscrowBalance' \in Int
          /\ EscrowBalance' = EscrowBalance \/ EscrowBalance' = EscrowBalance - n
      BY <2>2, <3>1, FlowLegs, TwoLegsMove, PostMovesEscrow
    <3>3. balance' \in Int /\ balance' >= 0 BY <3>1
    <3>4. CASE EscrowBalance' = EscrowBalance BY <3>1, <3>2, <3>3, <3>4
    <3>5. CASE EscrowBalance' = EscrowBalance - n
      <4>1. balance' - EscrowBalance' <= balance - EscrowBalance BY <3>1, <3>2, <3>5
      <4>. QED BY <3>2, <3>3, <4>1
    <3>. QED BY <3>2, <3>4, <3>5
  <2>4. CASE SpendExternal(key, n)
    <3>1. Post(key, TwoLegs("EXPENSE", "CASH", n), 0) /\ balance' = balance
      BY <2>4 DEF SpendExternal
    <3>2. EscrowBalance \in Int /\ EscrowBalance' = EscrowBalance
      BY <2>2, <3>1, FlowLegs, TwoLegsMove, PostMovesEscrow
    <3>. QED BY <3>1, <3>2
  <2>. QED BY <2>1, <2>3, <2>4
<1>2. CASE ToppedUp
  <2>1. PICK key \in OtherKeys, n \in Nat :
          /\ ~Replays(key) /\ Post(key, TwoLegs("CASH", "ESCROW", n), 0)
          /\ balance' = balance + n
    BY <1>2 DEF ToppedUp
  <2>2. EscrowBalance \in Int /\ EscrowBalance' \in Int /\ EscrowBalance' = EscrowBalance + n
    BY <2>1, FlowLegs, TwoLegsMove, PostMovesEscrow DEF OtherKeys
  <2>. QED BY <2>1, <2>2
<1>3. CASE MovedAside
  <2>1. PICK key \in OtherKeys, l \in Lines :
          /\ Post(key, l, 0) /\ l.dr # "ESCROW" /\ l.cr # "ESCROW" /\ balance' = balance
    BY <1>3 DEF MovedAside
  <2>2. Effect(l, "ESCROW") = 0 BY <2>1 DEF Effect
  <2>3. EscrowBalance \in Int /\ EscrowBalance' = EscrowBalance
    BY <2>1, <2>2, PostMovesEscrow DEF OtherKeys
  <2>. QED BY <2>1, <2>3
<1>4. CASE Reverses
  <2>1. PICK of \in 1..Len(ledger) :
          Post(NoKey, Mirrored(ledger[of]), of) /\ RestoreProjection(Mirrored(ledger[of]))
    BY <1>4 DEF Reverses
  <2>. DEFINE l == Mirrored(ledger[of])
  <2>2. l \in Lines /\ of \in Nat /\ NoKey \in MoneyKeys
    BY MirroredLegs, OtherKinds DEF OtherKeys
  <2>3. Post(NoKey, l, of) /\ balance' = balance - Effect(l, "ESCROW")
    BY <2>1 DEF RestoreProjection
  <2>4. ~Replays(NoKey) BY DEF Replays, PriorTxns
  <2>. HIDE DEF l
  <2>5. /\ EscrowBalance \in Int /\ EscrowBalance' \in Int /\ Effect(l, "ESCROW") \in Int
        /\ EscrowBalance' = EscrowBalance - Effect(l, "ESCROW")
    BY <2>2, <2>3, <2>4, PostMovesEscrow
  <2>. QED BY <1>4, <2>3, <2>5
<1>5. CASE Still
  <2>1. sums["ESCROW"] \in Int BY AccountsApart DEF BooksOK
  <2>2. EscrowBalance \in Int /\ EscrowBalance' = EscrowBalance /\ balance' = balance
    BY <1>5, <2>1 DEF Still, EscrowBalance
  <2>. QED BY <2>2
<1>. QED BY <1>1, <1>2, <1>3, <1>4, <1>5 DEF Flow

BackedOK == RecordOK /\ balance \in Int /\ ProjectionBacked

LEMMA BackedStarts == MoneyInit => BackedOK
<1>1. MoneyInit => balance = 0 /\ EscrowBalance = 0
  <2>1. MoneyInit => balance = 0 /\ sums = [a \in Accounts |-> 0]
    BY DEF MoneyInit, Init, LedgerInit
  <2>2. sums = [a \in Accounts |-> 0] => sums["ESCROW"] = 0 BY AccountsApart
  <2>. QED BY <2>1, <2>2 DEF EscrowBalance
<1>2. balance = 0 /\ EscrowBalance = 0 => balance \in Int /\ ProjectionBacked
  BY DEF ProjectionBacked
<1>. QED BY <1>1, <1>2, RecordStarts DEF BackedOK

LEMMA BackedKeeps ==
  ASSUME JournalsOffEscrow, BackedOK, [MoneyNext]_moneyVars
  PROVE  BackedOK'
<1>1. Flow /\ RecordOK' BY MoneyFlows DEF BackedOK
<1>. QED BY <1>1, FlowBalances DEF BackedOK, ProjectionBacked

\* With invoices paid from the same account, and wallets on the same ledger,
\* the stored escrow balance still never exceeds what the ledger holds
\* (spendEscrowInTx, postEscrowTopup, reverseTransaction).
THEOREM MoneyStaysBacked ==
  ASSUME JournalsOffEscrow
  PROVE  MoneySpec => []ProjectionBacked
<1>1. BackedOK /\ [MoneyNext]_moneyVars => BackedOK' BY BackedKeeps
<1>2. BackedOK => ProjectionBacked BY DEF BackedOK
<1>. QED BY <1>1, <1>2, BackedStarts, PTL DEF MoneySpec

\* A spend leaves the ledger's escrow account at 0 or more.
LEMMA SpendLeavesMoney ==
  ASSUME JournalsOffEscrow, BackedOK, Flow,
         NEW i \in DOMAIN ledger' \ DOMAIN ledger,
         ledger'[i].dr = "ESCROW", ledger'[i].reverses = 0
  PROVE  EscrowBalance' >= 0
<1>. RecordOK /\ BooksOK /\ balance \in Int /\ balance <= EscrowBalance
  BY DEF BackedOK, RecordOK, ProjectionBacked
<1>1. \A key \in MoneyKeys, l \in Lines, of \in Nat :
        Post(key, l, of) => l.dr = "ESCROW" /\ of = 0
  BY NewIsPosted DEF NewTxn
<1>2. CASE Spends
  <2>1. PICK key \in SpendKeys, n \in Nat : SpendEscrow(key, n) \/ SpendExternal(key, n)
    BY <1>2 DEF Spends
  <2>2. CASE SpendEscrow(key, n)
    <3>1. balance >= n /\ balance' = balance - n
      BY <2>2 DEF SpendEscrow, CanSpendEscrow
    <3>. QED BY <3>1, FlowBalances
  <2>3. CASE SpendExternal(key, n)
    <3>1. TwoLegs("EXPENSE", "CASH", n).dr = "ESCROW"
      BY <1>1, <2>3, OtherKinds, FlowLegs DEF SpendExternal
    <3>. QED BY <3>1 DEF TwoLegs
  <2>. QED BY <2>1, <2>2, <2>3
<1>3. CASE ToppedUp
  <2>1. PICK key \in OtherKeys, n \in Nat : Post(key, TwoLegs("CASH", "ESCROW", n), 0)
    BY <1>3 DEF ToppedUp
  <2>2. TwoLegs("CASH", "ESCROW", n).dr = "ESCROW" BY <1>1, <2>1, FlowLegs DEF OtherKeys
  <2>. QED BY <2>2 DEF TwoLegs
<1>4. CASE MovedAside BY <1>1, <1>4 DEF MovedAside, OtherKeys
<1>5. CASE Reverses
  <2>1. PICK of \in 1..Len(ledger) : Post(NoKey, Mirrored(ledger[of]), of)
    BY <1>5 DEF Reverses
  <2>. QED BY <1>1, <2>1, MirroredLegs, OtherKinds DEF OtherKeys
<1>6. CASE Still BY <1>6 DEF Still
<1>. QED BY <1>2, <1>3, <1>4, <1>5, <1>6 DEF Flow

\* No spend overdraws the ledger's escrow account, whichever of a release, a
\* payment request and an invoice is paid when, although each checks the
\* stored balance only (spendEscrowInTx).
THEOREM MoneySpendsAreBacked ==
  ASSUME JournalsOffEscrow
  PROVE  MoneySpec => SpendsAreBacked
<1>. DEFINE Covered ==
       \A i \in DOMAIN ledger' \ DOMAIN ledger :
         ledger'[i].dr = "ESCROW" /\ ledger'[i].reverses = 0 => EscrowBalance' >= 0
<1>1. BackedOK /\ [MoneyNext]_moneyVars => BackedOK' /\ [Covered]_vars
  <2>. SUFFICES ASSUME BackedOK, [MoneyNext]_moneyVars PROVE BackedOK' /\ Covered
    OBVIOUS
  <2>1. Flow BY MoneyFlows DEF BackedOK
  <2>. QED BY <2>1, BackedKeeps, SpendLeavesMoney
<1>. HIDE DEF Covered
<1>2. MoneySpec => [][Covered]_vars BY <1>1, BackedStarts, PTL DEF MoneySpec
<1>. QED BY <1>2 DEF SpendsAreBacked, Covered

\* Only the reversal of a reversal, which checks no balance, can drive the
\* escrow account below zero, whatever else posts to the ledger.
THEOREM MoneyStaysSolvent ==
  ASSUME JournalsOffEscrow
  PROVE  MoneySpec => []EscrowSolvent
<1>1. MoneyInit => EscrowSolvent
  BY AccountsApart DEF MoneyInit, Init, LedgerInit, EscrowBalance, EscrowSolvent
<1>2. ASSUME BackedOK, EscrowSolvent, [MoneyNext]_moneyVars PROVE EscrowSolvent'
  <2>. SUFFICES ASSUME EscrowBalance' < 0
                PROVE  \E i \in DOMAIN ledger' :
                         ledger'[i].reverses # 0 /\ ledger'[i].dr = "ESCROW"
    BY DEF EscrowSolvent
  <2>. RecordOK /\ BooksOK /\ balance \in Int /\ balance <= EscrowBalance
    BY <1>2 DEF BackedOK, RecordOK, ProjectionBacked
  <2>1. Flow BY <1>2, MoneyFlows
  <2>2. CASE EscrowBalance < 0
    <3>1. PICK i \in DOMAIN ledger : ledger[i].reverses # 0 /\ ledger[i].dr = "ESCROW"
      BY <1>2, <2>2 DEF EscrowSolvent
    <3>2. i \in DOMAIN ledger' /\ Entry(ledger'[i]) = Entry(ledger[i])
      BY <2>1, EntriesStay
    <3>3. ledger'[i].reverses = ledger[i].reverses /\ ledger'[i].dr = ledger[i].dr
      BY <3>2 DEF Entry
    <3>. QED BY <3>1, <3>2, <3>3
  <2>3. CASE ~(EscrowBalance < 0)
    <3>1. Reverses /\ EscrowBalance' < EscrowBalance
      BY <2>1, <2>3, FlowBalances
    <3>2. PICK of \in 1..Len(ledger) : Post(NoKey, Mirrored(ledger[of]), of)
      BY <3>1 DEF Reverses
    <3>. DEFINE l == Mirrored(ledger[of])
                n == Len(ledger)
    <3>3. /\ l \in Lines /\ of \in Nat /\ of # 0 /\ NoKey \in MoneyKeys
          /\ Post(NoKey, l, of) /\ ~Replays(NoKey)
      BY <3>2, MirroredLegs, OtherKinds DEF OtherKeys, Replays, PriorTxns
    <3>. HIDE DEF l
    <3>4. EscrowBalance \in Int /\ Effect(l, "ESCROW") \in Int
          /\ EscrowBalance' = EscrowBalance - Effect(l, "ESCROW")
      BY <3>3, PostMovesEscrow
    <3>5. l.dr = "ESCROW"
      <4>1. Effect(l, "ESCROW") > 0 BY <3>1, <3>4
      <4>2. l.credit \in Nat BY <3>3 DEF Lines
      <4>. QED BY <4>1, <4>2 DEF Effect
    <3>6. /\ n \in Nat /\ Len(ledger') = n + 1 /\ ledger'[n + 1] = NewTxn(NoKey, l, of)
          /\ DOMAIN ledger' = 1..Len(ledger')
      BY <3>3, PostAppends, PostEffect
    <3>. QED BY <3>3, <3>5, <3>6 DEF NewTxn
  <2>. QED BY <2>2, <2>3
<1>3. BackedOK /\ EscrowSolvent /\ [MoneyNext]_moneyVars => BackedOK' /\ EscrowSolvent'
  BY <1>2, BackedKeeps
<1>. QED BY <1>1, <1>3, BackedStarts, PTL DEF MoneySpec

-----------------------------------------------------------------------------
(* What the reports add up.                                                *)

\* What the reports count as spending shows in a transaction's entry.
LEMMA SpendingShows ==
  ASSUME NEW t
  PROVE  IsSpending(t) <=> t.reverses # 0 \/ t.key \in SpendKeys
BY DEF IsSpending, Reported, SpendKeys

\* The rows name what the reports count, and each of it once.
SpendingTxns == {i \in DOMAIN ledger : IsSpending(ledger[i])}
RowSet == {rows[k] : k \in DOMAIN rows}

LEMMA SpendingStays ==
  ASSUME RecordOK, Flow, NEW i \in DOMAIN ledger
  PROVE  i \in SpendingTxns' <=> i \in SpendingTxns
<1>1. i \in DOMAIN ledger' /\ Entry(ledger'[i]) = Entry(ledger[i]) BY EntriesStay
<1>2. ledger'[i].reverses = ledger[i].reverses /\ ledger'[i].key = ledger[i].key
  BY <1>1 DEF Entry
<1>. QED BY <1>1, <1>2, SpendingShows DEF SpendingTxns

\* A posting that the reports count gets the row it needs: a replay has it,
\* and a new transaction has none yet.
LEMMA CountedPosting ==
  ASSUME RecordOK, SpendingIsReported, Flow,
         NEW key \in MoneyKeys, NEW l \in Lines, NEW of \in Nat, Post(key, l, of),
         rows' = RowsWith(TxnId(key)),
         key \in SpendKeys \/ of # 0, key = NoKey \/ key \in SpendKeys
  PROVE  SpendingIsReported'
<1>. DEFINE n == Len(ledger)
            t == TxnId(key)
<1>. BooksOK BY DEF RecordOK
<1>1. /\ n \in Nat /\ DOMAIN ledger = 1..n /\ RowSet = SpendingTxns
      /\ \A j, k \in DOMAIN rows : rows[j] = rows[k] => j = k
  BY PostEffect DEF SpendingIsReported, RowSet, SpendingTxns
<1>2. CASE Replays(key)
  <2>1. ledger' = ledger /\ t \in PriorTxns(key) /\ key # NoKey
    BY <1>2, PostEffect DEF PriorTxns
  <2>2. t \in DOMAIN ledger /\ ledger[t].key \in SpendKeys BY <2>1 DEF PriorTxns
  <2>3. t \in RowSet BY <1>1, <2>2, SpendingShows DEF SpendingTxns
  <2>4. rows' = rows BY <2>3 DEF RowSet, RowsWith
  <2>. QED BY <2>1, <2>4 DEF SpendingIsReported
<1>3. CASE ~Replays(key)
  <2>1. /\ t = n + 1 /\ Len(ledger') = n + 1 /\ DOMAIN ledger' = 1..(n + 1)
        /\ ledger'[t] = NewTxn(key, l, of)
    BY <1>3, PostAppends, PostEffect DEF TxnId
  <2>2. t \in SpendingTxns'
    <3>1. ledger'[t].key = key /\ ledger'[t].reverses = of BY <2>1 DEF NewTxn
    <3>. QED BY <1>1, <2>1, <3>1, SpendingShows DEF SpendingTxns
  <2>3. SpendingTxns' = SpendingTxns \cup {t}
    <3>1. \A i \in 1..n : i \in SpendingTxns' <=> i \in SpendingTxns BY <1>1, SpendingStays
    <3>2. SpendingTxns \subseteq 1..n /\ SpendingTxns' \subseteq 1..(n + 1)
      BY <1>1, <2>1 DEF SpendingTxns
    <3>3. 1..(n + 1) = 1..n \cup {n + 1} BY <1>1
    <3>. HIDE DEF n, t
    <3>. QED BY <2>1, <2>2, <3>1, <3>2, <3>3
  <2>4. /\ \A j \in DOMAIN rows' : rows'[j] = t \/ (j \in DOMAIN rows /\ rows'[j] = rows[j])
        /\ \A j \in DOMAIN rows : j \in DOMAIN rows' /\ rows'[j] = rows[j]
        /\ \A i, j \in DOMAIN rows' : rows'[i] = rows'[j] => i = j
    <3>1. n + 1 \in Nat /\ n <= n + 1 /\ t \in 1..(n + 1) /\ rows \in Seq(1..n)
      BY <1>1, <2>1 DEF RecordOK
    <3>. HIDE DEF n, t
    <3>. QED BY <1>1, <3>1, RowAdded DEF t
  <2>5. \E j \in DOMAIN rows' : rows'[j] = t BY RowHeld DEF RecordOK
  <2>. HIDE DEF t, n
  <2>6. RowSet' = RowSet \cup {t} BY <2>4, <2>5 DEF RowSet
  <2>7. RowSet' = SpendingTxns' BY <1>1, <2>3, <2>6
  <2>. QED BY <2>4, <2>7 DEF SpendingIsReported, RowSet, SpendingTxns
<1>. QED BY <1>2, <1>3

\* A posting that the reports do not count gets no row.
LEMMA UncountedPosting ==
  ASSUME RecordOK, SpendingIsReported, Flow,
         NEW key \in OtherKeys, NEW l \in Lines, Post(key, l, 0), rows' = rows
  PROVE  SpendingIsReported'
<1>. BooksOK /\ key \in MoneyKeys BY DEF RecordOK, OtherKeys
<1>1. DOMAIN ledger \subseteq DOMAIN ledger' BY EntriesStay
<1>2. ASSUME NEW i \in DOMAIN ledger' \ DOMAIN ledger PROVE i \notin SpendingTxns'
  <2>1. ledger'[i].key = key /\ ledger'[i].reverses = 0 BY NewIsPosted DEF NewTxn
  <2>. QED BY <2>1, SpendingShows DEF SpendingTxns, OtherKeys
<1>3. SpendingTxns' = SpendingTxns
  <2>1. SpendingTxns' \subseteq DOMAIN ledger' /\ SpendingTxns \subseteq DOMAIN ledger
    BY DEF SpendingTxns
  <2>. QED BY <1>1, <1>2, <2>1, SpendingStays
<1>. QED BY <1>3 DEF SpendingIsReported, SpendingTxns

LEMMA ReportKeeps ==
  ASSUME RecordOK, SpendingIsReported, Flow
  PROVE  SpendingIsReported'
<1>1. CASE Spends
  <2>1. PICK key \in SpendKeys, n \in Nat :
          /\ SpendEscrow(key, n) \/ SpendExternal(key, n)
          /\ rows' = RowsWith(TxnId(key))
    BY <1>1 DEF Spends
  <2>2. key \in MoneyKeys /\ \E l \in Lines : Post(key, l, 0)
    BY <2>1, OtherKinds, FlowLegs DEF SpendEscrow, SpendExternal
  <2>. QED BY <2>1, <2>2, CountedPosting
<1>2. CASE ToppedUp BY <1>2, FlowLegs, UncountedPosting DEF ToppedUp
<1>3. CASE MovedAside BY <1>3, UncountedPosting DEF MovedAside
<1>4. CASE Reverses
  <2>1. PICK of \in 1..Len(ledger) :
          Post(NoKey, Mirrored(ledger[of]), of) /\ rows' = RowsWith(TxnId(NoKey))
    BY <1>4 DEF Reverses
  <2>2. /\ Mirrored(ledger[of]) \in Lines /\ of \in Nat /\ of # 0 /\ NoKey \in MoneyKeys
    BY MirroredLegs, OtherKinds DEF RecordOK, OtherKeys
  <2>. QED BY <2>1, <2>2, CountedPosting
<1>5. CASE Still BY <1>5 DEF Still, SpendingIsReported
<1>. QED BY <1>1, <1>2, <1>3, <1>4, <1>5 DEF Flow

\* The rows the reports add up name each release, payment and reversal of the
\* shared ledger exactly once, and no movement of anything else (the
\* transaction.findFirst and create of spendEscrowInTx, reverseTransaction).
THEOREM MoneySpendingIsReported == MoneySpec => []SpendingIsReported
<1>1. MoneyInit => SpendingIsReported
  BY DEF MoneyInit, Init, LedgerInit, SpendingIsReported
<1>2. RecordOK /\ SpendingIsReported /\ [MoneyNext]_moneyVars => RecordOK' /\ SpendingIsReported'
  BY MoneyFlows, ReportKeeps
<1>. QED BY <1>1, <1>2, RecordStarts, PTL DEF MoneySpec

-----------------------------------------------------------------------------
(* Decisions and their money.                                              *)

\* What is posted stays posted, and the rows stay where they are.
LEMMA PostedStays ==
  ASSUME RecordOK, Flow
  PROVE  /\ \A key : PriorTxns(key) \subseteq PriorTxns(key)'
         /\ \A k \in DOMAIN rows : k \in DOMAIN rows' /\ rows'[k] = rows[k]
<1>1. ASSUME NEW key, NEW i \in PriorTxns(key) PROVE i \in PriorTxns(key)'
  <2>1. i \in DOMAIN ledger /\ key # NoKey /\ ledger[i].key = key BY DEF PriorTxns
  <2>2. i \in DOMAIN ledger' /\ ledger'[i].key = ledger[i].key BY <2>1, EntriesStay DEF Entry
  <2>. QED BY <2>1, <2>2 DEF PriorTxns
<1>2. rows \in Seq(1..Len(ledger)) BY DEF RecordOK
<1>3. rows' = rows \/ \E t : rows' = RowsWith(t)
  BY DEF Flow, Spends, ToppedUp, MovedAside, Reverses, Still
<1>4. \A k \in DOMAIN rows : k \in DOMAIN rows' /\ rows'[k] = rows[k]
  BY <1>2, <1>3, RowHeld
<1>. QED BY <1>1, <1>4

\* A spend is on the ledger and has its row.
LEMMA SpendIsPosted ==
  ASSUME BooksOK, rows \in Seq(1..Len(ledger)), NEW key \in SpendKeys, NEW n \in Nat,
         SpendEscrow(key, n) \/ SpendExternal(key, n),
         rows' = RowsWith(TxnId(key))
  PROVE  /\ TxnId(key) \in PriorTxns(key)'
         /\ \E k \in DOMAIN rows' : rows'[k] = TxnId(key)
<1>1. key \in MoneyKeys /\ key # NoKey BY OtherKinds DEF OtherKeys
<1>2. PICK l \in Lines : Post(key, l, 0)
  BY FlowLegs DEF SpendEscrow, SpendExternal
<1>3. TxnId(key) \in DOMAIN ledger' /\ ledger'[TxnId(key)].key = key
  <2>1. CASE Replays(key)
    <3>1. TxnId(key) \in PriorTxns(key) /\ ledger' = ledger BY <1>1, <1>2, <2>1, PostEffect
    <3>. QED BY <3>1 DEF PriorTxns
  <2>2. CASE ~Replays(key) BY <1>1, <1>2, <2>2, PostEffect DEF NewRow
  <2>. QED BY <2>1, <2>2
<1>4. TxnId(key) \in PriorTxns(key)' BY <1>1, <1>3 DEF PriorTxns
<1>. QED BY <1>4, RowHeld

\* Each decision has a status, and each request a place for its row.
StatusesOK ==
  DOMAIN milestone = Milestones /\ DOMAIN request = Requests /\ DOMAIN paidRow = Requests

DecidedOK == RecordOK /\ StatusesOK /\ DecisionsHaveMoney

\* A step of the escrow flows: a milestone reads released by a release only,
\* and a request paid by a payment only.
LEMMA NewDecisions ==
  ASSUME RecordOK, StatusesOK, [Next]_vars
  PROVE  /\ StatusesOK'
         /\ \A m \in Milestones : milestone'[m] = "released" =>
              milestone[m] = "released" \/ PriorTxns(ReleaseKey(m))' # {}
         /\ \A r \in Requests : request'[r] = "paid" =>
              \/ request[r] = "paid" /\ paidRow'[r] = paidRow[r]
              \/ paidRow'[r] \in DOMAIN rows' /\ rows'[paidRow'[r]] \in PriorTxns(PayKey(r))'
<1>1. ASSUME NEW p \in Procs, Release(p)
      PROVE  /\ StatusesOK' /\ UNCHANGED <<request, paidRow>>
             /\ \A m \in Milestones : milestone'[m] = "released" =>
                  milestone[m] = "released" \/ PriorTxns(ReleaseKey(m))' # {}
  <2>1. PICK m \in Milestones : m = call[p].id
    BY <1>1 DEF Release, Resume, RecordOK, TargetsOK, MilestoneOps
  <2>2. /\ SpendEscrow(ReleaseKey(m), Price[m]) /\ UNCHANGED <<request, paidRow>>
        /\ rows' = RowsWith(TxnId(ReleaseKey(m)))
        /\ milestone' = [milestone EXCEPT ![m] = "released"]
    BY <1>1, <2>1 DEF Release
  <2>3. Price[m] \in Nat /\ ReleaseKey(m) \in SpendKeys
    BY <2>1, TargetsAssumption DEF SpendKeys
  <2>4. PriorTxns(ReleaseKey(m))' # {}
    <3>1. BooksOK /\ rows \in Seq(1..Len(ledger)) BY DEF RecordOK
    <3>. QED BY <2>2, <2>3, <3>1, SpendIsPosted
  <2>5. /\ DOMAIN milestone' = Milestones
        /\ \A x \in Milestones \ {m} : milestone'[x] = milestone[x]
    BY <2>2 DEF StatusesOK
  <2>6. StatusesOK' BY <2>2, <2>5 DEF StatusesOK
  <2>7. ASSUME NEW x \in Milestones, milestone'[x] = "released"
        PROVE  milestone[x] = "released" \/ PriorTxns(ReleaseKey(x))' # {}
    <3>1. CASE x = m BY <2>4, <3>1
    <3>2. CASE x # m BY <2>5, <2>7, <3>2
    <3>. QED BY <3>1, <3>2
  <2>. QED BY <2>2, <2>6, <2>7
<1>2. ASSUME NEW p \in Procs, Pay(p)
      PROVE  /\ StatusesOK' /\ UNCHANGED milestone
             /\ \A r \in Requests : request'[r] = "paid" =>
                  \/ request[r] = "paid" /\ paidRow'[r] = paidRow[r]
                  \/ paidRow'[r] \in DOMAIN rows' /\ rows'[paidRow'[r]] \in PriorTxns(PayKey(r))'
  <2>1. PICK r \in Requests : r = call[p].id
    BY <1>2 DEF Pay, Resume, RecordOK, TargetsOK, RequestOps
  <2>2. /\ SpendEscrow(PayKey(r), Price[r]) \/ SpendExternal(PayKey(r), Price[r])
        /\ rows' = RowsWith(TxnId(PayKey(r))) /\ UNCHANGED milestone
        /\ request' = [request EXCEPT ![r] = "paid"]
        /\ paidRow' = [paidRow EXCEPT ![r] = RowOf(rows', TxnId(PayKey(r)))]
    BY <1>2, <2>1 DEF Pay
  <2>3. Price[r] \in Nat /\ PayKey(r) \in SpendKeys
    BY <2>1, TargetsAssumption DEF SpendKeys
  <2>. DEFINE t == TxnId(PayKey(r))
  <2>4. t \in PriorTxns(PayKey(r))' /\ \E k \in DOMAIN rows' : rows'[k] = t
    <3>1. BooksOK /\ rows \in Seq(1..Len(ledger)) BY DEF RecordOK
    <3>. QED BY <2>2, <2>3, <3>1, SpendIsPosted
  <2>. HIDE DEF t
  <2>5. RowOf(rows', t) \in DOMAIN rows' /\ rows'[RowOf(rows', t)] = t BY <2>4 DEF RowOf
  <2>6. /\ DOMAIN request' = Requests /\ DOMAIN paidRow' = Requests
        /\ paidRow'[r] = RowOf(rows', t)
        /\ \A x \in Requests \ {r} : request'[x] = request[x] /\ paidRow'[x] = paidRow[x]
    BY <2>1, <2>2 DEF StatusesOK, t
  <2>7. StatusesOK' BY <2>2, <2>6 DEF StatusesOK
  <2>8. ASSUME NEW x \in Requests, request'[x] = "paid"
        PROVE  \/ request[x] = "paid" /\ paidRow'[x] = paidRow[x]
               \/ paidRow'[x] \in DOMAIN rows' /\ rows'[paidRow'[x]] \in PriorTxns(PayKey(x))'
    <3>1. CASE x = r
      <4>1. paidRow'[x] \in DOMAIN rows' /\ rows'[paidRow'[x]] = t BY <2>5, <2>6, <3>1
      <4>. QED BY <2>4, <3>1, <4>1
    <3>2. CASE x # r BY <2>6, <2>8, <3>2
    <3>. QED BY <3>1, <3>2
  <2>. QED BY <2>2, <2>7, <2>8
<1>3. ASSUME NEW x, NEW s \in {"locked", "evidence_submitted", "release_requested", "rejected"},
             milestone' = [milestone EXCEPT ![x] = s]
      PROVE  /\ DOMAIN milestone' = Milestones
             /\ \A m \in Milestones : milestone'[m] = "released" => milestone[m] = "released"
  BY <1>3 DEF StatusesOK
<1>4. ASSUME NEW x, NEW s \in {"pending", "approved", "rejected"},
             request' = [request EXCEPT ![x] = s]
      PROVE  /\ DOMAIN request' = Requests
             /\ \A r \in Requests : request'[r] = "paid" => request[r] = "paid"
  BY <1>4 DEF StatusesOK
<1>5. CASE \/ \E m \in Milestones : CreateMilestone(m)
           \/ \E p \in Procs : WriteEvidence(p) \/ WriteRequestRelease(p) \/ WriteReject(p)
  <2>1. PICK s \in {"locked", "evidence_submitted", "release_requested", "rejected"} :
          \E x : milestone' = [milestone EXCEPT ![x] = s]
    <3>1. ASSUME NEW m \in Milestones, CreateMilestone(m)
          PROVE  milestone' = [milestone EXCEPT ![m] = "locked"]
      BY <3>1 DEF CreateMilestone
    <3>2. ASSUME NEW p \in Procs, NEW op, NEW s, WriteMilestone(p, op, s)
          PROVE  \E x : milestone' = [milestone EXCEPT ![x] = s]
      BY <3>2 DEF WriteMilestone
    <3>3. \A p \in Procs :
            WriteEvidence(p) \/ WriteRequestRelease(p) \/ WriteReject(p) =>
              \E s \in {"evidence_submitted", "release_requested", "rejected"} :
                \E x : milestone' = [milestone EXCEPT ![x] = s]
      BY <3>2 DEF WriteEvidence, WriteRequestRelease, WriteReject
    <3>. QED BY <1>5, <3>1, <3>3
  <2>2. UNCHANGED <<request, paidRow>>
    BY <1>5 DEF CreateMilestone, WriteEvidence, WriteRequestRelease, WriteReject, WriteMilestone
  <2>. QED BY <1>3, <2>1, <2>2 DEF StatusesOK
<1>6. CASE (\E r \in Requests : CreateRequest(r)) \/ \E p \in Procs : WriteDecision(p)
  <2>1. PICK s \in {"pending", "approved", "rejected"} :
          \E x : request' = [request EXCEPT ![x] = s]
    <3>1. ASSUME NEW r \in Requests, CreateRequest(r)
          PROVE  request' = [request EXCEPT ![r] = "pending"]
      BY <3>1 DEF CreateRequest
    <3>2. ASSUME NEW p \in Procs, WriteDecision(p)
          PROVE  \E s \in {"approved", "rejected"} :
                   request' = [request EXCEPT ![call[p].id] = s]
      BY <3>2 DEF WriteDecision
    <3>. QED BY <1>6, <3>1, <3>2
  <2>2. UNCHANGED <<milestone, paidRow>> BY <1>6 DEF CreateRequest, WriteDecision
  <2>. QED BY <1>4, <2>1, <2>2 DEF StatusesOK
<1>7. CASE UNCHANGED <<milestone, request, paidRow>> BY <1>7 DEF StatusesOK
<1>8. ASSUME Next
      PROVE  \/ UNCHANGED <<milestone, request, paidRow>>
             \/ \E m \in Milestones : CreateMilestone(m)
             \/ \E r \in Requests : CreateRequest(r)
             \/ \E p \in Procs : \/ WriteEvidence(p) \/ WriteRequestRelease(p) \/ WriteReject(p)
                                 \/ WriteDecision(p) \/ Release(p) \/ Pay(p)
  BY <1>8
  DEF Next, Topup, Journal, ReadEvidence, ReadRequestRelease, ReadApprove, ReadReject,
      ReadMilestone, ReadDecision, ReadPay, ReadRequest, ReadReversal, ReverseTransaction,
      ReleaseRefused, PayRefused, ReverseRefused, Throw
<1>9. UNCHANGED vars => UNCHANGED <<milestone, request, paidRow>> BY DEF vars
<1>. QED BY <1>1, <1>2, <1>5, <1>6, <1>7, <1>8, <1>9

\* A milestone that reads released and a request that reads paid have their
\* money on the shared ledger, and the request names the row of exactly that
\* transaction (releaseMilestoneAtomic, payPaymentRequest).
THEOREM MoneyDecisionsHaveMoney == MoneySpec => []DecisionsHaveMoney
<1>1. MoneyInit => DecidedOK
  <2>. SUFFICES ASSUME MoneyInit PROVE StatusesOK /\ DecisionsHaveMoney
    BY RecordStarts DEF DecidedOK
  <2>1. /\ milestone = [m \in Milestones |-> "none"]
        /\ request = [r \in Requests |-> "none"]
        /\ paidRow = [r \in Requests |-> 0]
    BY DEF MoneyInit, Init
  <2>. QED BY <2>1 DEF StatusesOK, DecisionsHaveMoney
<1>2. ASSUME DecidedOK, [MoneyNext]_moneyVars PROVE DecidedOK'
  <2>1. RecordOK /\ Flow /\ RecordOK' BY <1>2, MoneyFlows DEF DecidedOK
  <2>2. /\ StatusesOK'
        /\ \A m \in Milestones : milestone'[m] = "released" =>
             milestone[m] = "released" \/ PriorTxns(ReleaseKey(m))' # {}
        /\ \A r \in Requests : request'[r] = "paid" =>
             \/ request[r] = "paid" /\ paidRow'[r] = paidRow[r]
             \/ paidRow'[r] \in DOMAIN rows' /\ rows'[paidRow'[r]] \in PriorTxns(PayKey(r))'
    <3>1. CASE Next BY <1>2, <3>1, NewDecisions DEF DecidedOK
    <3>2. CASE UNCHANGED <<milestone, request, paidRow>> BY <1>2, <3>2 DEF DecidedOK, StatusesOK
    <3>3. Next \/ UNCHANGED <<milestone, request, paidRow>>
      BY <1>2 DEF MoneyNext, moneyVars, vars, PayInvoice
    <3>. QED BY <3>1, <3>2, <3>3
  <2>3. DecisionsHaveMoney'
    <3>1. ASSUME NEW m \in Milestones, milestone'[m] = "released"
          PROVE  PriorTxns(ReleaseKey(m))' # {}
      <4>1. milestone[m] = "released" => PriorTxns(ReleaseKey(m)) # {}
        BY <1>2 DEF DecidedOK, DecisionsHaveMoney, Posted
      <4>. QED BY <2>1, <2>2, <3>1, <4>1, PostedStays
    <3>2. ASSUME NEW r \in Requests, request'[r] = "paid"
          PROVE  paidRow'[r] \in DOMAIN rows' /\ rows'[paidRow'[r]] \in PriorTxns(PayKey(r))'
      <4>1. request[r] = "paid" =>
              paidRow[r] \in DOMAIN rows /\ rows[paidRow[r]] \in PriorTxns(PayKey(r))
        BY <1>2 DEF DecidedOK, DecisionsHaveMoney
      <4>. QED BY <2>1, <2>2, <3>2, <4>1, PostedStays
    <3>. QED BY <3>1, <3>2 DEF DecisionsHaveMoney, Posted
  <2>. QED BY <2>1, <2>2, <2>3 DEF DecidedOK
<1>3. DecidedOK => DecisionsHaveMoney BY DEF DecidedOK
<1>. QED BY <1>1, <1>2, <1>3, PTL DEF MoneySpec

=============================================================================
