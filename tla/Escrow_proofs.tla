---------------------------- MODULE Escrow_proofs ----------------------------
(***************************************************************************)
(* Proofs about Escrow, in the order they rest on each other: what a       *)
(* posting does (Post...), type correctness, the escrow account against    *)
(* the stored balance, decisions against the ledger, the refinement of     *)
(* AppendOnlyLedger, the report rows, the account's solvency, and what     *)
(* holds when requests are served one at a time.                           *)
(***************************************************************************)
EXTENDS SerialEscrow, TLAPS, SequenceTheorems

\* Transaction i, once the original of a reversal of is marked.
Kept(of, i) ==
  IF i = of THEN [ledger[i] EXCEPT !.status = "reversed"] ELSE ledger[i]

(* Marking an original reversed touches that transaction's status only. *)
LEMMA MarkReversedType ==
  ASSUME ledger \in Seq(Txn), NEW of
  PROVE  /\ MarkReversed(of) \in Seq(Txn)
         /\ Len(MarkReversed(of)) = Len(ledger)
         /\ \A i \in 1..Len(ledger) : MarkReversed(of)[i] = Kept(of, i)
<1> DEFINE n == Len(ledger)
<1>1. n \in Nat /\ DOMAIN ledger = 1..n /\ \A i \in 1..n : ledger[i] \in Txn
  BY LenProperties, ElementOfSeq
<1>2. \A t \in Txn : [t EXCEPT !.status = "reversed"] \in Txn
  BY DEF Txn
<1>3. MarkReversed(of) \in [1..n -> Txn]
  BY <1>1, <1>2 DEF MarkReversed
<1>4. MarkReversed(of) \in Seq(Txn)
  BY <1>1, <1>3, SeqDef
<1>5. Len(MarkReversed(of)) = n
  BY <1>1, <1>3, <1>4, LenProperties
<1>6. QED
  BY <1>1, <1>4, <1>5 DEF MarkReversed, Kept

LEMMA KeptFields ==
  ASSUME NEW i, ledger[i] \in Txn, NEW of
  PROVE  /\ Kept(of, i).key = ledger[i].key
         /\ Kept(of, i).dr = ledger[i].dr
         /\ Kept(of, i).cr = ledger[i].cr
         /\ Kept(of, i).debit = ledger[i].debit
         /\ Kept(of, i).credit = ledger[i].credit
         /\ Kept(of, i).reverses = ledger[i].reverses
         /\ Kept(of, i).status =
              IF i = of THEN "reversed" ELSE ledger[i].status
BY DEF Kept, Txn

(* A posting under a new key adds one transaction to the book.              *)
LEMMA NewPosting ==
  ASSUME ledger \in Seq(Txn), sums \in [Accounts -> Int],
         NEW key \in Keys \cup {NoKey}, NEW l \in Lines,
         NEW of \in Nat,
         Post(key, l, of), ~Replays(key)
  PROVE  /\ ledger' \in Seq(Txn)
         /\ Len(ledger') = Len(ledger) + 1
         /\ ledger'[Len(ledger) + 1] = NewTxn(key, l, of)
         /\ \A i \in 1..Len(ledger) : ledger'[i] = Kept(of, i)
         /\ of # 0 => MayReverse(of)
         /\ sums' = [a \in Accounts |-> sums[a] + Effect(l, a)]
<1>1. NewTxn(key, l, of) \in Txn
  BY DEF NewTxn, Txn, Lines
<1>2. /\ ledger' = Append(MarkReversed(of), NewTxn(key, l, of))
      /\ of # 0 => MayReverse(of)
      /\ sums' = [a \in Accounts |-> sums[a] + Effect(l, a)]
  BY DEF Post
<1> DEFINE M == MarkReversed(of)
<1>3. /\ M \in Seq(Txn) /\ Len(M) = Len(ledger) /\ Len(ledger) \in Nat
      /\ \A i \in 1..Len(ledger) : M[i] = Kept(of, i)
  BY MarkReversedType, LenProperties
<1>4. ledger' = Append(M, NewTxn(key, l, of))
  BY <1>2 DEF M
<1> HIDE DEF M
<1>5. /\ ledger' \in Seq(Txn) /\ Len(ledger') = Len(ledger) + 1
      /\ ledger'[Len(ledger) + 1] = NewTxn(key, l, of)
  BY <1>1, <1>3, <1>4
<1>6. \A i \in 1..Len(ledger) : ledger'[i] = M[i]
  BY <1>1, <1>3, <1>4
<1>7. QED
  BY <1>2, <1>3, <1>5, <1>6

(* Posting under a key that has posted changes nothing.                     *)
LEMMA Replay ==
  ASSUME NEW key, NEW l, NEW of, Post(key, l, of), Replays(key)
  PROVE  UNCHANGED <<ledger, sums>>
BY DEF Post, ledgerVars

LEMMA PostType ==
  ASSUME ledger \in Seq(Txn), sums \in [Accounts -> Int],
         NEW key \in Keys \cup {NoKey}, NEW l \in Lines,
         NEW of \in Nat,
         Post(key, l, of)
  PROVE  ledger' \in Seq(Txn) /\ sums' \in [Accounts -> Int]
<1>1. CASE Replays(key)
  BY <1>1, Replay
<1>2. CASE ~Replays(key)
  <2>1. \A a \in Accounts : Effect(l, a) \in Int
    BY DEF Effect, Lines
  <2>2. ledger' \in Seq(Txn)
    BY <1>2, NewPosting
  <2>3. sums' = [a \in Accounts |-> sums[a] + Effect(l, a)]
    BY <1>2 DEF Post
  <2>4. QED
    BY <2>1, <2>2, <2>3
<1>3. QED
  BY <1>1, <1>2

(* What every caller of Post relies on afterwards: no transaction is lost   *)
(* or changed but for its status, and the id it goes on with names a        *)
(* transaction that carries its key.                                        *)
LEMMA PostKeeps ==
  ASSUME ledger \in Seq(Txn), sums \in [Accounts -> Int],
         NEW key \in Keys \cup {NoKey}, NEW l \in Lines,
         NEW of \in Nat,
         Post(key, l, of)
  PROVE  /\ Len(ledger) \in Nat
         /\ Len(ledger') \in Nat
         /\ Len(ledger) <= Len(ledger')
         /\ \A i \in 1..Len(ledger) :
              /\ i \in 1..Len(ledger')
              /\ ledger'[i].key = ledger[i].key
              /\ ledger'[i].dr = ledger[i].dr
              /\ ledger'[i].reverses = ledger[i].reverses
         /\ TxnId(key) \in 1..Len(ledger')
         /\ ledger'[TxnId(key)].key = key
<1>1. /\ Len(ledger) \in Nat /\ DOMAIN ledger = 1..Len(ledger)
      /\ \A i \in 1..Len(ledger) : ledger[i] \in Txn
  BY LenProperties, ElementOfSeq
<1>2. CASE Replays(key)
  <2>1. ledger' = ledger
    BY <1>2 DEF Post, ledgerVars
  <2>2. TxnId(key) \in PriorTxns(key)
    BY <1>2 DEF TxnId, Replays
  <2>3. QED
    BY <1>1, <2>1, <2>2 DEF PriorTxns
<1>3. CASE ~Replays(key)
  <2>1. /\ Len(ledger') = Len(ledger) + 1
        /\ ledger'[Len(ledger) + 1] = NewTxn(key, l, of)
        /\ \A i \in 1..Len(ledger) : ledger'[i] = Kept(of, i)
    BY <1>3, NewPosting
  <2>2. TxnId(key) = Len(ledger) + 1
    BY <1>3 DEF TxnId
  <2>3. ledger'[Len(ledger) + 1].key = key
    BY <2>1 DEF NewTxn
  <2>4. \A i \in 1..Len(ledger) :
              /\ ledger'[i].key = ledger[i].key
              /\ ledger'[i].dr = ledger[i].dr
              /\ ledger'[i].reverses = ledger[i].reverses
    BY <1>1, <2>1, KeptFields
  <2>5. QED
    BY <1>1, <2>1, <2>2, <2>3, <2>4
<1>4. QED
  BY <1>2, <1>3

(* The Transaction rows after findFirst ?? create: the old ones in place,   *)
(* and one that links to t.                                                 *)
LEMMA RowsEffect ==
  ASSUME NEW n \in Nat, NEW k \in Nat, n <= k,
         rows \in Seq(1..n), NEW t \in 1..k
  PROVE  /\ RowsWith(t) \in Seq(1..k)
         /\ Len(rows) \in Nat
         /\ Len(rows) <= Len(RowsWith(t))
         /\ \A j \in 1..Len(rows) : RowsWith(t)[j] = rows[j]
         /\ RowOf(RowsWith(t), t) \in 1..Len(RowsWith(t))
         /\ RowsWith(t)[RowOf(RowsWith(t), t)] = t
<1>1. rows \in Seq(1..k)
  BY SeqMonotonic
<1>2. Len(rows) \in Nat /\ DOMAIN rows = 1..Len(rows)
  BY <1>1, LenProperties
<1>3. CASE \E j \in DOMAIN rows : rows[j] = t
  <2>1. RowsWith(t) = rows
    BY <1>3 DEF RowsWith
  <2>2. QED
    BY <1>1, <1>2, <1>3, <2>1 DEF RowOf
<1>4. CASE ~\E j \in DOMAIN rows : rows[j] = t
  <2>1. RowsWith(t) = Append(rows, t)
    BY <1>4 DEF RowsWith
  <2>2. /\ Append(rows, t) \in Seq(1..k)
        /\ Len(Append(rows, t)) = Len(rows) + 1
        /\ Append(rows, t)[Len(rows) + 1] = t
        /\ \A j \in 1..Len(rows) : Append(rows, t)[j] = rows[j]
    BY <1>1, <1>2
  <2>3. DOMAIN Append(rows, t) = 1..Len(rows) + 1
    BY <1>2, <2>2, LenProperties
  <2>4. QED
    BY <1>2, <2>1, <2>2, <2>3 DEF RowOf
<1>5. QED
  BY <1>3, <1>4

-----------------------------------------------------------------------------
(* Calls in flight stay well formed as the ledger grows under them.         *)
LEMMA AnswerType ==
  ASSUME TypeOK, Len(ledger) \in Nat, Len(ledger') \in Nat,
         Len(ledger) <= Len(ledger'), NEW p \in Procs, Answer(p)
  PROVE  DOMAIN call' = Procs /\ \A q \in Procs : CallOK(call[q])'
<1>1. \A q \in Procs : call'[q] = IF q = p THEN NoCall ELSE call[q]
  BY DEF TypeOK, Answer
<1>2. CallOK(NoCall)'
  BY DEF CallOK, NoCall, Ops, MilestoneOps, RequestOps
<1>3. \A q \in Procs : call'[q] = call[q] => CallOK(call[q])'
  BY DEF TypeOK, CallOK
<1>4. \A q \in Procs : call'[q] = NoCall => CallOK(call[q])'
  BY <1>2 DEF CallOK
<1>5. QED
  BY <1>1, <1>3, <1>4 DEF TypeOK, Answer

LEMMA KeptCallsType ==
  ASSUME TypeOK, Len(ledger) \in Nat, Len(ledger') \in Nat,
         Len(ledger) <= Len(ledger'), UNCHANGED call
  PROVE  DOMAIN call' = Procs /\ \A q \in Procs : CallOK(call[q])'
  BY DEF TypeOK, CallOK

LEMMA SuspendType ==
  ASSUME TypeOK, UNCHANGED ledger, NEW p \in Procs, NEW op \in Ops,
         NEW id, NEW seen, Suspend(p, op, id, seen),
         op \in MilestoneOps => id \in Milestones,
         op \in RequestOps => id \in Requests,
         op = "reverse" =>
           id \in 1..Len(ledger) /\ seen \in {"posted", "reversed"}
  PROVE  DOMAIN call' = Procs /\ \A q \in Procs : CallOK(call[q])'
<1> DEFINE c == [op |-> op, id |-> id, seen |-> seen]
<1>1. \A q \in Procs : call'[q] = IF q = p THEN c ELSE call[q]
  BY DEF TypeOK, Suspend
<1>2. CallOK(c)
  BY DEF CallOK
<1>3. \A q \in Procs : CallOK(call[q])
  BY DEF TypeOK
<1> HIDE DEF c
<1>4. \A q \in Procs : CallOK(call'[q])
  BY <1>1, <1>2, <1>3
<1>5. \A q \in Procs : CallOK(call[q])'
  BY <1>4 DEF CallOK
<1>6. QED
  BY <1>5 DEF TypeOK, Suspend

-----------------------------------------------------------------------------
LEMMA PriceType == \A x \in Milestones \cup Requests : Price[x] \in Nat \ {0}
  BY TargetsAssumption

LEMMA TwoLegsType ==
  ASSUME NEW dr \in Accounts, NEW cr \in Accounts, NEW n \in Nat
  PROVE  TwoLegs(dr, cr, n) \in Lines
  BY DEF TwoLegs, Lines

LEMMA MirroredType == \A t \in Txn : Mirrored(t) \in Lines
  BY DEF Mirrored, Lines, Txn

LEMMA EffectType ==
  ASSUME NEW l \in Lines, NEW a
  PROVE  Effect(l, a) \in Int
  BY DEF Effect, Lines

LEMMA LedgerType ==
  ASSUME TypeOK
  PROVE  /\ Len(ledger) \in Nat
         /\ DOMAIN ledger = 1..Len(ledger)
         /\ \A i \in 1..Len(ledger) : ledger[i] \in Txn
         /\ Len(rows) \in Nat
         /\ DOMAIN rows = 1..Len(rows)
         /\ \A k \in 1..Len(rows) : rows[k] \in 1..Len(ledger)
<1>1. ledger \in Seq(Txn) /\ rows \in Seq(1..Len(ledger))
  BY DEF TypeOK
<1>2. QED
  BY <1>1, LenProperties, ElementOfSeq

LEMMA LedgerVarsType ==
  ASSUME TypeOK
  PROVE  ledger \in Seq(Txn) /\ sums \in [Accounts -> Int]
BY DEF TypeOK

(* The rows of an unchanged list still link into a ledger that has grown.   *)
LEMMA KeptRowsType ==
  ASSUME TypeOK, Len(ledger) \in Nat, Len(ledger') \in Nat,
         Len(ledger) <= Len(ledger'), UNCHANGED rows
  PROVE  rows' \in Seq(1..Len(ledger'))
<1>1. rows \in Seq(1..Len(ledger)) /\ 1..Len(ledger) \subseteq 1..Len(ledger')
  BY DEF TypeOK
<1>2. QED
  BY <1>1, SeqMonotonic

LEMMA InitType == Init => TypeOK
<1>1. SUFFICES ASSUME Init PROVE TypeOK
  OBVIOUS
<1>2. /\ ledger = <<>> /\ rows = <<>>
      /\ sums = [a \in Accounts |-> 0] /\ balance = 0
      /\ milestone = [m \in Milestones |-> "none"]
      /\ request = [r \in Requests |-> "none"]
      /\ paidRow = [r \in Requests |-> 0]
      /\ call = [p \in Procs |-> NoCall]
  BY <1>1 DEF Init, LedgerInit
<1>3. ledger \in Seq(Txn)
  BY <1>2
<1>4. rows \in Seq(1..Len(ledger))
  BY <1>2
<1>5. CallOK(NoCall)
  BY DEF CallOK, NoCall, Ops, MilestoneOps, RequestOps
<1>6. DOMAIN call = Procs /\ \A p \in Procs : CallOK(call[p])
  BY <1>2, <1>5
<1>7. /\ milestone \in [Milestones -> MilestoneStatus]
      /\ request \in [Requests -> RequestStatus]
      /\ paidRow \in [Requests -> Nat]
      /\ sums \in [Accounts -> Int]
      /\ balance \in Int
  BY <1>2 DEF MilestoneStatus, RequestStatus
<1>8. QED
  BY <1>3, <1>4, <1>6, <1>7 DEF TypeOK

(* The reading half of a handler, and a handler that throws.                *)
LEMMA ReadType ==
  ASSUME TypeOK, NEW p \in Procs, NEW op \in Ops, NEW id, NEW seen,
         Suspend(p, op, id, seen),
         UNCHANGED <<ledger, sums, milestone, request, paidRow, balance, rows>>,
         op \in MilestoneOps => id \in Milestones,
         op \in RequestOps => id \in Requests,
         op = "reverse" =>
           id \in 1..Len(ledger) /\ seen \in {"posted", "reversed"}
  PROVE  TypeOK'
<1>1. DOMAIN call' = Procs /\ \A q \in Procs : CallOK(call[q])'
  BY SuspendType
<1>2. QED
  BY <1>1 DEF TypeOK

LEMMA ThrowType ==
  ASSUME TypeOK, NEW p \in Procs, Throw(p)
  PROVE  TypeOK'
<1>1. Len(ledger) \in Nat /\ UNCHANGED ledger
  BY LedgerType DEF Throw
<1>2. DOMAIN call' = Procs /\ \A q \in Procs : CallOK(call[q])'
  BY <1>1, AnswerType DEF Throw
<1>3. QED
  BY <1>2 DEF TypeOK, Throw

(* The keys of the flows, and the legs they post.                           *)
LEMMA KeysType ==
  /\ \A ref \in TopupRefs : TopupKey(ref) \in Keys
  /\ \A m \in Milestones : ReleaseKey(m) \in Keys
  /\ \A r \in Requests : PayKey(r) \in Keys
  BY DEF Keys

LEMMA SpendType ==
  ASSUME TypeOK, NEW key \in Keys, NEW amount \in Nat,
         \/ SpendEscrow(key, amount)
         \/ SpendExternal(key, amount)
  PROVE  /\ \E l \in Lines : Post(key, l, 0)
         /\ balance' \in Int
<1>1. /\ TwoLegs("ESCROW", "EXPENSE", amount) \in Lines
      /\ TwoLegs("EXPENSE", "CASH", amount) \in Lines
  BY TwoLegsType DEF Accounts
<1>2. QED
  BY <1>1 DEF SpendEscrow, SpendExternal, TypeOK

LEMMA TypeStep == TypeOK /\ [Next]_vars => TypeOK'
<1> SUFFICES ASSUME TypeOK, [Next]_vars PROVE TypeOK'
  OBVIOUS
<1>1. ASSUME NEW ref \in TopupRefs, NEW amount \in TopupAmounts,
             Topup(ref, amount)
      PROVE  TypeOK'
  <2>1. /\ TopupKey(ref) \in Keys \cup {NoKey} /\ amount \in Nat
        /\ TwoLegs("CASH", "ESCROW", amount) \in Lines
    BY KeysType, TargetsAssumption, TwoLegsType DEF Accounts
  <2>2. /\ Post(TopupKey(ref), TwoLegs("CASH", "ESCROW", amount), 0)
        /\ ledger \in Seq(Txn) /\ sums \in [Accounts -> Int]
    BY <1>1 DEF Topup, TypeOK
  <2>3. /\ ledger' \in Seq(Txn) /\ sums' \in [Accounts -> Int]
        /\ Len(ledger) \in Nat /\ Len(ledger') \in Nat
        /\ Len(ledger) <= Len(ledger')
    BY <2>1, <2>2, PostType, PostKeeps
  <2>4. /\ DOMAIN call' = Procs /\ \A q \in Procs : CallOK(call[q])'
        /\ rows' \in Seq(1..Len(ledger'))
    BY <1>1, <2>3, KeptCallsType, KeptRowsType DEF Topup
  <2>5. QED
    BY <1>1, <2>1, <2>3, <2>4 DEF Topup, TypeOK
<1>2. ASSUME NEW dr \in JournalAccounts, NEW cr \in JournalAccounts,
             NEW debit \in JournalAmounts, NEW credit \in JournalAmounts,
             Journal(dr, cr, debit, credit)
      PROVE  TypeOK'
  <2> DEFINE l == [dr |-> dr, cr |-> cr, debit |-> debit, credit |-> credit]
  <2>1. NoKey \in Keys \cup {NoKey} /\ l \in Lines
    BY TargetsAssumption DEF Lines
  <2>2. /\ Post(NoKey, l, 0)
        /\ ledger \in Seq(Txn) /\ sums \in [Accounts -> Int]
    BY <1>2 DEF Journal, TypeOK
  <2> HIDE DEF l
  <2>3. /\ ledger' \in Seq(Txn) /\ sums' \in [Accounts -> Int]
        /\ Len(ledger) \in Nat /\ Len(ledger') \in Nat
        /\ Len(ledger) <= Len(ledger')
    BY <2>1, <2>2, PostType, PostKeeps
  <2>4. /\ DOMAIN call' = Procs /\ \A q \in Procs : CallOK(call[q])'
        /\ rows' \in Seq(1..Len(ledger'))
    BY <1>2, <2>3, KeptCallsType, KeptRowsType DEF Journal
  <2>5. QED
    BY <1>2, <2>3, <2>4 DEF Journal, TypeOK
<1>3. ASSUME NEW m \in Milestones, CreateMilestone(m)
      PROVE  TypeOK'
  BY <1>3 DEF CreateMilestone, TypeOK, MilestoneStatus, CallOK
<1>4. ASSUME NEW r \in Requests, CreateRequest(r)
      PROVE  TypeOK'
  BY <1>4 DEF CreateRequest, TypeOK, RequestStatus, CallOK
<1>5. ASSUME NEW p \in Procs, NEW m \in Milestones,
             \/ ReadEvidence(p, m) \/ ReadRequestRelease(p, m)
             \/ ReadApprove(p, m)  \/ ReadReject(p, m)
      PROVE  TypeOK'
  <2>1. PICK op \in MilestoneOps :
          /\ Suspend(p, op, m, milestone[m])
          /\ UNCHANGED <<ledger, sums, milestone, request, paidRow, balance, rows>>
    BY <1>5 DEF ReadEvidence, ReadRequestRelease, ReadApprove, ReadReject,
                ReadMilestone, MilestoneOps
  <2>2. op \in Ops /\ op \notin RequestOps /\ op # "reverse"
    BY DEF Ops, MilestoneOps, RequestOps
  <2>3. QED
    BY <2>1, <2>2, ReadType
<1>6. ASSUME NEW p \in Procs,
             WriteEvidence(p) \/ WriteRequestRelease(p) \/ WriteReject(p)
      PROVE  TypeOK'
  <2>1. PICK s \in MilestoneStatus :
          milestone' = [milestone EXCEPT ![call[p].id] = s]
    BY <1>6 DEF WriteEvidence, WriteRequestRelease, WriteReject, WriteMilestone,
                MilestoneStatus
  <2>2. /\ UNCHANGED <<ledger, sums, request, paidRow, balance, rows>>
        /\ Answer(p)
    BY <1>6 DEF WriteEvidence, WriteRequestRelease, WriteReject, WriteMilestone
  <2>3. DOMAIN call' = Procs /\ \A q \in Procs : CallOK(call[q])'
    BY <2>2, LedgerType, AnswerType
  <2>4. QED
    BY <2>1, <2>2, <2>3 DEF TypeOK
<1>7. ASSUME NEW p \in Procs, Release(p)
      PROVE  TypeOK'
  <2> DEFINE m == call[p].id
             key == ReleaseKey(m)
  <2>1. m \in Milestones
    BY <1>7 DEF Release, Resume, TypeOK, CallOK, MilestoneOps
  <2>2. key \in Keys /\ Price[m] \in Nat
    BY <2>1, KeysType, PriceType
  <2>3. PICK l \in Lines : Post(key, l, 0)
    BY <1>7, <2>2, SpendType DEF Release
  <2>4. balance' \in Int /\ rows' = RowsWith(TxnId(key)) /\ Answer(p)
    BY <1>7, <2>2, SpendType DEF Release
  <2>5. milestone' = [milestone EXCEPT ![m] = "released"]
    BY <1>7 DEF Release
  <2> HIDE DEF key
  <2>6. ledger \in Seq(Txn) /\ sums \in [Accounts -> Int]
    BY DEF TypeOK
  <2>7. /\ ledger' \in Seq(Txn) /\ sums' \in [Accounts -> Int]
        /\ Len(ledger) \in Nat /\ Len(ledger') \in Nat
        /\ Len(ledger) <= Len(ledger') /\ TxnId(key) \in 1..Len(ledger')
    BY <2>2, <2>3, <2>6, PostType, PostKeeps
  <2>8. rows' \in Seq(1..Len(ledger'))
    BY <2>4, <2>7, RowsEffect DEF TypeOK
  <2>9. DOMAIN call' = Procs /\ \A q \in Procs : CallOK(call[q])'
    BY <2>4, <2>7, AnswerType
  <2>10. QED
    BY <1>7, <2>1, <2>4, <2>5, <2>7, <2>8, <2>9
    DEF Release, TypeOK, MilestoneStatus
<1>8. ASSUME NEW p \in Procs,
             ReleaseRefused(p) \/ PayRefused(p) \/ ReverseRefused(p)
      PROVE  TypeOK'
  BY <1>8, ThrowType DEF ReleaseRefused, PayRefused, ReverseRefused
<1>9. ASSUME NEW p \in Procs, NEW r \in Requests,
             ReadDecision(p, r) \/ ReadPay(p, r)
      PROVE  TypeOK'
  <2>1. PICK op \in RequestOps :
          /\ Suspend(p, op, r, request[r])
          /\ UNCHANGED <<ledger, sums, milestone, request, paidRow, balance, rows>>
    BY <1>9 DEF ReadDecision, ReadPay, ReadRequest, RequestOps
  <2>2. op \in Ops /\ op \notin MilestoneOps /\ op # "reverse"
    BY DEF Ops, MilestoneOps, RequestOps
  <2>3. QED
    BY <2>1, <2>2, ReadType
<1>10. ASSUME NEW p \in Procs, WriteDecision(p)
       PROVE  TypeOK'
  <2>1. PICK s \in RequestStatus : request' = [request EXCEPT ![call[p].id] = s]
    BY <1>10 DEF WriteDecision, RequestStatus
  <2>2. /\ UNCHANGED <<ledger, sums, milestone, paidRow, balance, rows>>
        /\ Answer(p)
    BY <1>10 DEF WriteDecision
  <2>3. DOMAIN call' = Procs /\ \A q \in Procs : CallOK(call[q])'
    BY <2>2, LedgerType, AnswerType
  <2>4. QED
    BY <2>1, <2>2, <2>3 DEF TypeOK
<1>11. ASSUME NEW p \in Procs, Pay(p)
       PROVE  TypeOK'
  <2> DEFINE r == call[p].id
             key == PayKey(r)
  <2>1. r \in Requests
    BY <1>11 DEF Pay, Resume, TypeOK, CallOK, RequestOps
  <2>2. key \in Keys /\ Price[r] \in Nat
    BY <2>1, KeysType, PriceType
  <2>3. PICK l \in Lines : Post(key, l, 0)
    BY <1>11, <2>2, SpendType DEF Pay
  <2>4. balance' \in Int /\ rows' = RowsWith(TxnId(key)) /\ Answer(p)
    BY <1>11, <2>2, SpendType DEF Pay
  <2>5. /\ request' = [request EXCEPT ![r] = "paid"]
        /\ paidRow' = [paidRow EXCEPT ![r] = RowOf(rows', TxnId(key))]
    BY <1>11 DEF Pay
  <2> HIDE DEF key
  <2>6. ledger \in Seq(Txn) /\ sums \in [Accounts -> Int]
    BY DEF TypeOK
  <2>7. /\ ledger' \in Seq(Txn) /\ sums' \in [Accounts -> Int]
        /\ Len(ledger) \in Nat /\ Len(ledger') \in Nat
        /\ Len(ledger) <= Len(ledger') /\ TxnId(key) \in 1..Len(ledger')
    BY <2>2, <2>3, <2>6, PostType, PostKeeps
  <2>8. /\ rows' \in Seq(1..Len(ledger'))
        /\ RowOf(rows', TxnId(key)) \in 1..Len(rows')
    BY <2>4, <2>7, RowsEffect DEF TypeOK
  <2>9. DOMAIN call' = Procs /\ \A q \in Procs : CallOK(call[q])'
    BY <2>4, <2>7, AnswerType
  <2>10. QED
    BY <1>11, <2>1, <2>4, <2>5, <2>7, <2>8, <2>9 DEF Pay, TypeOK, RequestStatus
<1>12. ASSUME NEW p \in Procs, NEW k \in DOMAIN rows, ReadReversal(p, k)
       PROVE  TypeOK'
  <2>1. rows[k] \in 1..Len(ledger) /\ ledger[rows[k]] \in Txn
    BY LedgerType
  <2>2. ledger[rows[k]].status \in {"posted", "reversed"}
    BY <2>1 DEF Txn
  <2>3. "reverse" \in Ops /\ "reverse" \notin MilestoneOps
        /\ "reverse" \notin RequestOps
    BY DEF Ops, MilestoneOps, RequestOps
  <2>4. QED
    BY <1>12, <2>1, <2>2, <2>3, ReadType DEF ReadReversal
<1>13. ASSUME NEW p \in Procs, ReverseTransaction(p)
       PROVE  TypeOK'
  <2> DEFINE t == call[p].id
             l == Mirrored(ledger[t])
  <2>1. t \in 1..Len(ledger)
    BY <1>13 DEF ReverseTransaction, Resume, TypeOK, CallOK
  <2>2. l \in Lines /\ Effect(l, "ESCROW") \in Int
    BY <2>1, LedgerType, MirroredType, EffectType
  <2>3. /\ Post(NoKey, l, t) /\ Answer(p)
        /\ balance' = balance - Effect(l, "ESCROW")
        /\ rows' = RowsWith(TxnId(NoKey))
        /\ UNCHANGED <<milestone, request, paidRow>>
    BY <1>13 DEF ReverseTransaction, RestoreProjection
  <2> HIDE DEF l
  <2>4. ledger \in Seq(Txn) /\ sums \in [Accounts -> Int] /\ t \in Nat
    BY <2>1, LedgerType DEF TypeOK
  <2>5. /\ ledger' \in Seq(Txn) /\ sums' \in [Accounts -> Int]
        /\ Len(ledger) \in Nat /\ Len(ledger') \in Nat
        /\ Len(ledger) <= Len(ledger') /\ TxnId(NoKey) \in 1..Len(ledger')
    BY <2>2, <2>3, <2>4, PostType, PostKeeps
  <2>6. rows' \in Seq(1..Len(ledger'))
    BY <2>3, <2>5, RowsEffect DEF TypeOK
  <2>7. DOMAIN call' = Procs /\ \A q \in Procs : CallOK(call[q])'
    BY <2>3, <2>5, AnswerType
  <2>8. QED
    BY <2>2, <2>3, <2>5, <2>6, <2>7 DEF TypeOK
<1>14. CASE UNCHANGED vars
  BY <1>14 DEF vars, TypeOK, CallOK
<1>15. QED
  BY <1>1, <1>2, <1>3, <1>4, <1>5, <1>6, <1>7, <1>8, <1>9, <1>10, <1>11,
     <1>12, <1>13, <1>14 DEF Next

(* Type correctness: whatever the interleaving, the ledger stays a list of  *)
(* well formed transactions, every Transaction row links into it, and every *)
(* call in flight names a row of the table it works on.                     *)
THEOREM TypeCorrect == Spec => []TypeOK
<1>1. QED
  BY InitType, TypeStep, PTL DEF Spec

-----------------------------------------------------------------------------
(* The projection and the ledger's escrow balance.                          *)

LEMMA PostBalance ==
  ASSUME TypeOK, NEW key \in Keys \cup {NoKey}, NEW l \in Lines,
         NEW of \in Nat, Post(key, l, of)
  PROVE  /\ EscrowBalance \in Int /\ EscrowBalance' \in Int
         /\ Effect(l, "ESCROW") \in Int
         /\ Replays(key) => EscrowBalance' = EscrowBalance
         /\ ~Replays(key) =>
              EscrowBalance' = EscrowBalance - Effect(l, "ESCROW")
<1>1. /\ "ESCROW" \in Accounts /\ sums \in [Accounts -> Int]
      /\ ledger \in Seq(Txn)
  BY DEF Accounts, TypeOK
<1>2. Effect(l, "ESCROW") \in Int
  BY EffectType
<1>3. CASE Replays(key)
  <2>1. sums' = sums
    BY <1>3, Replay
  <2>2. QED
    BY <1>1, <1>2, <1>3, <2>1 DEF EscrowBalance
<1>4. CASE ~Replays(key)
  <2>1. sums' = [a \in Accounts |-> sums[a] + Effect(l, a)]
    BY <1>4 DEF Post
  <2>2. sums'["ESCROW"] = sums["ESCROW"] + Effect(l, "ESCROW")
    BY <1>1, <2>1
  <2>3. sums["ESCROW"] \in Int
    BY <1>1
  <2>4. QED
    BY <1>2, <1>4, <2>2, <2>3 DEF EscrowBalance
<1>5. QED
  BY <1>3, <1>4

(* The legs of the flows, on the escrow account.                            *)
LEMMA TwoLegsEffect ==
  \A n \in Nat : /\ Effect(TwoLegs("CASH", "ESCROW", n), "ESCROW") = -n
                 /\ Effect(TwoLegs("ESCROW", "EXPENSE", n), "ESCROW") = n
                 /\ Effect(TwoLegs("EXPENSE", "CASH", n), "ESCROW") = 0
  BY DEF Effect, TwoLegs

(* How a step moves money: not at all, by a top-up, by a journal, by a      *)
(* spend from escrow or from outside, or by a reversal.                     *)
LEMMA MoneySteps ==
  ASSUME TypeOK, [Next]_vars
  PROVE  \/ UNCHANGED <<ledger, sums, balance, rows>>
         \/ \E ref \in TopupRefs, n \in TopupAmounts : Topup(ref, n)
         \/ \E dr, cr \in JournalAccounts, n, k \in JournalAmounts :
              Journal(dr, cr, n, k)
         \/ \E key \in Keys, n \in Nat :
              /\ SpendEscrow(key, n) \/ SpendExternal(key, n)
              /\ \/ \E m \in Milestones : key = ReleaseKey(m)
                 \/ \E r \in Requests : key = PayKey(r)
              /\ rows' = RowsWith(TxnId(key))
         \/ \E p \in Procs : ReverseTransaction(p) /\ call[p].id \in 1..Len(ledger)
<1>1. CASE UNCHANGED vars
  BY <1>1 DEF vars
<1>2. CASE \E p \in Procs : Release(p)
  <2>1. PICK p \in Procs : Release(p)
    BY <1>2
  <2>2. call[p].id \in Milestones
    BY <2>1 DEF Release, Resume, TypeOK, CallOK, MilestoneOps
  <2>3. Price[call[p].id] \in Nat /\ ReleaseKey(call[p].id) \in Keys
    BY <2>2, PriceType, KeysType
  <2>4. /\ SpendEscrow(ReleaseKey(call[p].id), Price[call[p].id])
        /\ rows' = RowsWith(TxnId(ReleaseKey(call[p].id)))
    BY <2>1 DEF Release
  <2>5. QED
    BY <2>2, <2>3, <2>4
<1>3. CASE \E p \in Procs : Pay(p)
  <2>1. PICK p \in Procs : Pay(p)
    BY <1>3
  <2>2. call[p].id \in Requests
    BY <2>1 DEF Pay, Resume, TypeOK, CallOK, RequestOps
  <2>3. Price[call[p].id] \in Nat /\ PayKey(call[p].id) \in Keys
    BY <2>2, PriceType, KeysType
  <2>4. /\ \/ SpendEscrow(PayKey(call[p].id), Price[call[p].id])
           \/ SpendExternal(PayKey(call[p].id), Price[call[p].id])
        /\ rows' = RowsWith(TxnId(PayKey(call[p].id)))
    BY <2>1 DEF Pay
  <2>5. QED
    BY <2>2, <2>3, <2>4
<1>4. CASE \E p \in Procs : ReverseTransaction(p)
  <2>1. \A p \in Procs : ReverseTransaction(p) => call[p].id \in 1..Len(ledger)
    BY DEF ReverseTransaction, Resume, TypeOK, CallOK
  <2>2. QED
    BY <1>4, <2>1
<1>5. CASE \E ref \in TopupRefs, n \in TopupAmounts : Topup(ref, n)
  BY <1>5
<1>6. CASE \E dr, cr \in JournalAccounts, n, k \in JournalAmounts :
             Journal(dr, cr, n, k)
  BY <1>6
<1>7. ASSUME NEW p \in Procs,
             \/ \E m \in Milestones : \/ ReadEvidence(p, m)
                                      \/ ReadRequestRelease(p, m)
                                      \/ ReadApprove(p, m)
                                      \/ ReadReject(p, m)
             \/ WriteEvidence(p) \/ WriteRequestRelease(p) \/ WriteReject(p)
             \/ ReleaseRefused(p) \/ PayRefused(p) \/ ReverseRefused(p)
             \/ \E r \in Requests : ReadDecision(p, r) \/ ReadPay(p, r)
             \/ WriteDecision(p)
             \/ \E k \in DOMAIN rows : ReadReversal(p, k)
      PROVE  UNCHANGED <<ledger, sums, balance, rows>>
  BY <1>7 DEF ReadEvidence, ReadRequestRelease, ReadApprove, ReadReject,
    ReadMilestone, WriteEvidence, WriteRequestRelease, WriteReject,
    WriteMilestone, ReleaseRefused, PayRefused, ReverseRefused, Throw,
    ReadDecision, ReadPay, ReadRequest, WriteDecision, ReadReversal
<1>8. ASSUME \/ \E m \in Milestones : CreateMilestone(m)
             \/ \E r \in Requests : CreateRequest(r)
      PROVE  UNCHANGED <<ledger, sums, balance, rows>>
  BY <1>8 DEF CreateMilestone, CreateRequest
<1>9. QED
  BY <1>1, <1>2, <1>3, <1>4, <1>5, <1>6, <1>7, <1>8 DEF Next

(* A reversal posts the mirror of a recorded transaction under no key.      *)
LEMMA ReversalStep ==
  ASSUME TypeOK, NEW p \in Procs, ReverseTransaction(p),
         call[p].id \in 1..Len(ledger)
  PROVE  \E l \in Lines :
           /\ l = Mirrored(ledger[call[p].id])
           /\ Post(NoKey, l, call[p].id)
           /\ ~Replays(NoKey)
           /\ balance' = balance - Effect(l, "ESCROW")
           /\ rows' = RowsWith(TxnId(NoKey))
<1>1. Mirrored(ledger[call[p].id]) \in Lines
  BY LedgerType, MirroredType
<1>2. ~Replays(NoKey)
  BY DEF Replays, PriorTxns
<1>3. QED
  BY <1>1, <1>2 DEF ReverseTransaction, RestoreProjection

LEMMA JournalLeavesEscrow ==
  ASSUME "ESCROW" \notin JournalAccounts,
         NEW dr \in JournalAccounts, NEW cr \in JournalAccounts,
         NEW n \in JournalAmounts, NEW k \in JournalAmounts
  PROVE  LET l == [dr |-> dr, cr |-> cr, debit |-> n, credit |-> k]
         IN  l \in Lines /\ Effect(l, "ESCROW") = 0
  BY TargetsAssumption DEF Lines, Effect

LEMMA BackedStep ==
  ASSUME "ESCROW" \notin JournalAccounts, TypeOK, [Next]_vars,
         ProjectionBacked
  PROVE  ProjectionBacked'
<1>1. CASE UNCHANGED <<ledger, sums, balance, rows>>
  BY <1>1 DEF ProjectionBacked, EscrowBalance
<1>2. ASSUME NEW ref \in TopupRefs, NEW n \in TopupAmounts, Topup(ref, n)
      PROVE  ProjectionBacked'
  <2> DEFINE l == TwoLegs("CASH", "ESCROW", n)
  <2>1. /\ TopupKey(ref) \in Keys \cup {NoKey} /\ n \in Nat
        /\ l \in Lines /\ Effect(l, "ESCROW") = -n
    BY KeysType, TargetsAssumption, TwoLegsType, TwoLegsEffect DEF Accounts
  <2>2. /\ Post(TopupKey(ref), l, 0) /\ ~Replays(TopupKey(ref))
        /\ balance' = balance + n
    BY <1>2 DEF Topup
  <2> HIDE DEF l
  <2>3. /\ EscrowBalance \in Int
        /\ EscrowBalance' = EscrowBalance - Effect(l, "ESCROW")
    BY <2>1, <2>2, PostBalance
  <2>4. QED
    BY <2>1, <2>2, <2>3 DEF ProjectionBacked, TypeOK
<1>3. ASSUME NEW dr \in JournalAccounts, NEW cr \in JournalAccounts,
             NEW n \in JournalAmounts, NEW k \in JournalAmounts,
             Journal(dr, cr, n, k)
      PROVE  ProjectionBacked'
  <2> DEFINE l == [dr |-> dr, cr |-> cr, debit |-> n, credit |-> k]
  <2>1. l \in Lines /\ Effect(l, "ESCROW") = 0
    BY JournalLeavesEscrow
  <2>2. Post(NoKey, l, 0) /\ balance' = balance
    BY <1>3 DEF Journal
  <2> HIDE DEF l
  <2>3. EscrowBalance \in Int /\ EscrowBalance' = EscrowBalance
    BY <2>1, <2>2, PostBalance
  <2>4. QED
    BY <2>2, <2>3 DEF ProjectionBacked
<1>4. ASSUME NEW key \in Keys, NEW n \in Nat, SpendEscrow(key, n)
      PROVE  ProjectionBacked'
  <2> DEFINE l == TwoLegs("ESCROW", "EXPENSE", n)
  <2>1. l \in Lines /\ Effect(l, "ESCROW") = n
    BY TwoLegsType, TwoLegsEffect DEF Accounts
  <2>2. Post(key, l, 0) /\ balance' = balance - n
    BY <1>4 DEF SpendEscrow
  <2> HIDE DEF l
  <2>3. /\ EscrowBalance \in Int
        /\ \/ EscrowBalance' = EscrowBalance
           \/ EscrowBalance' = EscrowBalance - n
    BY <2>1, <2>2, PostBalance
  <2>4. QED
    BY <2>2, <2>3 DEF ProjectionBacked, TypeOK
<1>5. ASSUME NEW key \in Keys, NEW n \in Nat, SpendExternal(key, n)
      PROVE  ProjectionBacked'
  <2> DEFINE l == TwoLegs("EXPENSE", "CASH", n)
  <2>1. l \in Lines /\ Effect(l, "ESCROW") = 0
    BY TwoLegsType, TwoLegsEffect DEF Accounts
  <2>2. Post(key, l, 0) /\ balance' = balance
    BY <1>5 DEF SpendExternal
  <2> HIDE DEF l
  <2>3. EscrowBalance \in Int /\ EscrowBalance' = EscrowBalance
    BY <2>1, <2>2, PostBalance
  <2>4. QED
    BY <2>2, <2>3 DEF ProjectionBacked
<1>6. ASSUME NEW p \in Procs, ReverseTransaction(p), call[p].id \in 1..Len(ledger)
      PROVE  ProjectionBacked'
  <2>1. PICK l \in Lines : /\ Post(NoKey, l, call[p].id) /\ ~Replays(NoKey)
                           /\ balance' = balance - Effect(l, "ESCROW")
    BY <1>6, ReversalStep
  <2>2. call[p].id \in Nat
    BY <1>6, LedgerType
  <2>3. /\ EscrowBalance \in Int /\ Effect(l, "ESCROW") \in Int
        /\ EscrowBalance' = EscrowBalance - Effect(l, "ESCROW")
    BY <2>1, <2>2, PostBalance
  <2>4. QED
    BY <2>1, <2>3 DEF ProjectionBacked, TypeOK
<1>7. QED
  BY <1>1, <1>2, <1>3, <1>4, <1>5, <1>6, MoneySteps

(* As long as the manual journals leave the escrow account alone, the       *)
(* stored escrow balance never exceeds what the ledger holds: every race    *)
(* of two handlers errs on the side of the project.                         *)
THEOREM ProjectionAlwaysBacked ==
  ASSUME "ESCROW" \notin JournalAccounts
  PROVE  Spec => []ProjectionBacked
<1>1. Init => ProjectionBacked
  BY DEF Init, LedgerInit, ProjectionBacked, EscrowBalance, Accounts
<1>2. TypeOK /\ ProjectionBacked /\ [Next]_vars => ProjectionBacked'
  BY BackedStep
<1>3. QED
  BY <1>1, <1>2, TypeCorrect, PTL DEF Spec

(* A step that posts an escrow spend leaves a ledger balance of at least 0. *)
LEMMA SpendStep ==
  ASSUME "ESCROW" \notin JournalAccounts, TypeOK, ProjectionBacked,
         ProjectionBacked', [Next]_vars,
         NEW i \in DOMAIN ledger' \ DOMAIN ledger,
         ledger'[i].dr = "ESCROW", ledger'[i].reverses = 0
  PROVE  EscrowBalance' >= 0
<1> DEFINE Grows(key, l, of) == Post(key, l, of) /\ l \in Lines /\ of \in Nat
                                /\ key \in Keys \cup {NoKey}
<1>1. ASSUME NEW key, NEW l, NEW of, Grows(key, l, of)
      PROVE  l.dr = "ESCROW" /\ of = 0
  <2>1. ledger \in Seq(Txn) /\ sums \in [Accounts -> Int]
    BY DEF TypeOK
  <2>2. ~Replays(key)
    BY <1>1, Replay
  <2>3. /\ ledger' \in Seq(Txn)
        /\ Len(ledger') = Len(ledger) + 1
        /\ ledger'[Len(ledger) + 1] = NewTxn(key, l, of)
    BY <1>1, <2>1, <2>2, NewPosting
  <2>4. DOMAIN ledger' = 1..Len(ledger') /\ DOMAIN ledger = 1..Len(ledger)
        /\ Len(ledger) \in Nat
    BY <2>1, <2>3, LenProperties
  <2>5. i = Len(ledger) + 1
    BY <2>3, <2>4
  <2>6. QED
    BY <2>3, <2>5 DEF NewTxn
<1>2. CASE UNCHANGED <<ledger, sums, balance, rows>>
  BY <1>2
<1>3. ASSUME NEW ref \in TopupRefs, NEW n \in TopupAmounts, Topup(ref, n)
      PROVE  FALSE
  <2>1. /\ TopupKey(ref) \in Keys /\ n \in Nat
        /\ TwoLegs("CASH", "ESCROW", n) \in Lines
    BY KeysType, TargetsAssumption, TwoLegsType DEF Accounts
  <2>2. Grows(TopupKey(ref), TwoLegs("CASH", "ESCROW", n), 0)
    BY <1>3, <2>1 DEF Topup
  <2>3. TwoLegs("CASH", "ESCROW", n).dr = "ESCROW"
    BY <1>1, <2>2
  <2>4. QED
    BY <2>3 DEF TwoLegs
<1>4. ASSUME NEW dr \in JournalAccounts, NEW cr \in JournalAccounts,
             NEW n \in JournalAmounts, NEW k \in JournalAmounts,
             Journal(dr, cr, n, k)
      PROVE  FALSE
  <2> DEFINE l == [dr |-> dr, cr |-> cr, debit |-> n, credit |-> k]
  <2>1. Grows(NoKey, l, 0)
    BY <1>4, JournalLeavesEscrow DEF Journal
  <2>2. l.dr = "ESCROW"
    BY <1>1, <2>1
  <2>3. QED
    BY <2>2
<1>5. ASSUME NEW key \in Keys, NEW n \in Nat, SpendEscrow(key, n)
      PROVE  EscrowBalance' >= 0
  <2>1. balance' \in Int /\ balance' >= 0
    BY <1>5 DEF SpendEscrow, CanSpendEscrow, TypeOK
  <2>2. TwoLegs("ESCROW", "EXPENSE", n) \in Lines
    BY TwoLegsType DEF Accounts
  <2>3. EscrowBalance' \in Int
    BY <1>5, <2>2, PostBalance DEF SpendEscrow
  <2>4. QED
    BY <2>1, <2>3 DEF ProjectionBacked
<1>6. ASSUME NEW key \in Keys, NEW n \in Nat, SpendExternal(key, n)
      PROVE  FALSE
  <2>1. TwoLegs("EXPENSE", "CASH", n) \in Lines
    BY TwoLegsType DEF Accounts
  <2>2. Grows(key, TwoLegs("EXPENSE", "CASH", n), 0)
    BY <1>6, <2>1 DEF SpendExternal
  <2>3. TwoLegs("EXPENSE", "CASH", n).dr = "ESCROW"
    BY <1>1, <2>2
  <2>4. QED
    BY <2>3 DEF TwoLegs
<1>7. ASSUME NEW p \in Procs, ReverseTransaction(p), call[p].id \in 1..Len(ledger)
      PROVE  FALSE
  <2>1. PICK l \in Lines : Post(NoKey, l, call[p].id)
    BY <1>7, ReversalStep
  <2>2. Grows(NoKey, l, call[p].id)
    BY <1>7, <2>1, LedgerType
  <2>3. call[p].id = 0
    BY <1>1, <2>2
  <2>4. QED
    BY <1>7, <2>3, LedgerType
<1> HIDE DEF Grows
<1>8. QED
  BY <1>2, <1>3, <1>4, <1>5, <1>6, <1>7, MoneySteps

(* No spend overdraws the ledger's escrow account, under any interleaving.  *)
THEOREM SpendsAlwaysBacked ==
  ASSUME "ESCROW" \notin JournalAccounts
  PROVE  Spec => SpendsAreBacked
<1>1. TypeOK /\ ProjectionBacked /\ ProjectionBacked' /\ [Next]_vars =>
        [ \A i \in DOMAIN ledger' \ DOMAIN ledger :
            ledger'[i].dr = "ESCROW" /\ ledger'[i].reverses = 0
              => EscrowBalance' >= 0 ]_vars
  BY SpendStep
<1>2. QED
  BY <1>1, TypeCorrect, ProjectionAlwaysBacked, PTL DEF Spec, SpendsAreBacked

-----------------------------------------------------------------------------
(* Every step that posts is one call of Post; nothing else moves the book.  *)
LEMMA PostingSteps ==
  ASSUME TypeOK, [Next]_vars
  PROVE  \/ UNCHANGED ledger
         \/ \E key \in Keys \cup {NoKey}, l \in Lines : Post(key, l, 0)
         \/ \E i \in 1..Len(ledger), l \in Lines :
              l = Mirrored(ledger[i]) /\ Post(NoKey, l, i)
<1>1. ASSUME NEW ref \in TopupRefs, NEW n \in TopupAmounts, Topup(ref, n)
      PROVE  \E l \in Lines : Post(TopupKey(ref), l, 0)
  <2>1. TwoLegs("CASH", "ESCROW", n) \in Lines
    BY TargetsAssumption, TwoLegsType DEF Accounts
  <2>2. QED
    BY <1>1, <2>1 DEF Topup
<1>2. ASSUME NEW dr \in JournalAccounts, NEW cr \in JournalAccounts,
             NEW n \in JournalAmounts, NEW k \in JournalAmounts,
             Journal(dr, cr, n, k)
      PROVE  \E l \in Lines : Post(NoKey, l, 0)
  <2>1. [dr |-> dr, cr |-> cr, debit |-> n, credit |-> k] \in Lines
    BY TargetsAssumption DEF Lines
  <2>2. QED
    BY <1>2, <2>1 DEF Journal
<1>3. ASSUME NEW key \in Keys, NEW n \in Nat,
             SpendEscrow(key, n) \/ SpendExternal(key, n)
      PROVE  \E l \in Lines : Post(key, l, 0)
  BY <1>3, SpendType
<1>4. ASSUME NEW p \in Procs, ReverseTransaction(p), call[p].id \in 1..Len(ledger)
      PROVE  \E l \in Lines : /\ l = Mirrored(ledger[call[p].id])
                             /\ Post(NoKey, l, call[p].id)
  BY <1>4, ReversalStep
<1>5. QED
  BY <1>1, <1>2, <1>3, <1>4, MoneySteps, KeysType

(* A key that has posted stays posted, by the same transaction.             *)
LEMMA PostedStays ==
  ASSUME TypeOK, [Next]_vars
  PROVE  /\ \A key : PriorTxns(key) \subseteq PriorTxns(key)'
         /\ Len(ledger) \in Nat /\ Len(ledger') \in Nat
         /\ Len(ledger) <= Len(ledger')
<1>1. /\ ledger \in Seq(Txn) /\ sums \in [Accounts -> Int]
      /\ Len(ledger) \in Nat /\ DOMAIN ledger = 1..Len(ledger)
  BY LedgerType DEF TypeOK
<1>2. ASSUME UNCHANGED ledger
      PROVE  /\ \A key : PriorTxns(key) \subseteq PriorTxns(key)'
             /\ Len(ledger') \in Nat /\ Len(ledger) <= Len(ledger')
  BY <1>1, <1>2 DEF PriorTxns
<1>3. ASSUME NEW k \in Keys \cup {NoKey}, NEW l \in Lines, NEW of \in Nat,
             Post(k, l, of)
      PROVE  /\ \A key : PriorTxns(key) \subseteq PriorTxns(key)'
             /\ Len(ledger') \in Nat /\ Len(ledger) <= Len(ledger')
  <2>1. /\ Len(ledger') \in Nat /\ Len(ledger) <= Len(ledger')
        /\ \A i \in 1..Len(ledger) :
             i \in 1..Len(ledger') /\ ledger'[i].key = ledger[i].key
    BY <1>1, <1>3, PostKeeps
  <2>2. DOMAIN ledger' = 1..Len(ledger')
    BY <1>1, <1>3, PostType, LenProperties
  <2>3. QED
    BY <1>1, <2>1, <2>2 DEF PriorTxns
<1>4. \A i \in 1..Len(ledger) : i \in Nat
  BY <1>1
<1>5. CASE UNCHANGED ledger
  BY <1>1, <1>2, <1>5
<1>6. CASE \E k \in Keys \cup {NoKey}, l \in Lines : Post(k, l, 0)
  BY <1>1, <1>3, <1>6
<1>7. CASE \E i \in 1..Len(ledger), l \in Lines :
             l = Mirrored(ledger[i]) /\ Post(NoKey, l, i)
  BY <1>1, <1>3, <1>4, <1>7
<1>8. QED
  BY <1>5, <1>6, <1>7, PostingSteps

LEMMA RowsStay ==
  ASSUME TypeOK, [Next]_vars
  PROVE  /\ Len(rows) \in Nat /\ Len(rows') \in Nat /\ Len(rows) <= Len(rows')
         /\ DOMAIN rows = 1..Len(rows) /\ DOMAIN rows' = 1..Len(rows')
         /\ \A k \in 1..Len(rows) : rows'[k] = rows[k]
<1>1. /\ Len(rows) \in Nat /\ DOMAIN rows = 1..Len(rows)
      /\ rows \in Seq(1..Len(ledger))
      /\ ledger \in Seq(Txn) /\ sums \in [Accounts -> Int]
  BY LedgerType DEF TypeOK
<1>2. CASE UNCHANGED rows
  BY <1>1, <1>2
<1>3. ASSUME NEW key \in Keys \cup {NoKey}, NEW l \in Lines, NEW of \in Nat,
             Post(key, l, of), rows' = RowsWith(TxnId(key))
      PROVE  /\ Len(rows') \in Nat /\ Len(rows) <= Len(rows')
             /\ DOMAIN rows' = 1..Len(rows')
             /\ \A k \in 1..Len(rows) : rows'[k] = rows[k]
  <2>1. /\ Len(ledger) \in Nat /\ Len(ledger') \in Nat
        /\ Len(ledger) <= Len(ledger') /\ TxnId(key) \in 1..Len(ledger')
    BY <1>1, <1>3, PostKeeps
  <2>2. /\ rows' \in Seq(1..Len(ledger')) /\ Len(rows) <= Len(rows')
        /\ \A k \in 1..Len(rows) : rows'[k] = rows[k]
    BY <1>1, <1>3, <2>1, RowsEffect
  <2>3. QED
    BY <2>2, LenProperties
<1>4. ASSUME NEW key \in Keys, NEW n \in Nat,
             SpendEscrow(key, n) \/ SpendExternal(key, n)
      PROVE  \E l \in Lines : Post(key, l, 0)
  BY <1>4, SpendType
<1>5. ASSUME NEW p \in Procs, ReverseTransaction(p), call[p].id \in 1..Len(ledger)
      PROVE  \E l \in Lines : /\ Post(NoKey, l, call[p].id)
                             /\ rows' = RowsWith(TxnId(NoKey))
                             /\ call[p].id \in Nat
  BY <1>5, ReversalStep, LedgerType
<1>6. QED
  BY <1>1, <1>2, <1>3, <1>4, <1>5, MoneySteps DEF Topup, Journal

-----------------------------------------------------------------------------
LEMMA DecisionsStep ==
  ASSUME TypeOK, [Next]_vars, DecisionsHaveMoney
  PROVE  DecisionsHaveMoney'
<1>1. \A key : Posted(key) => Posted(key)'
  BY PostedStays DEF Posted
<1>2. /\ ledger \in Seq(Txn) /\ sums \in [Accounts -> Int]
      /\ rows \in Seq(1..Len(ledger))
  BY DEF TypeOK
<1>3. ASSUME NEW m \in Milestones, milestone'[m] = "released",
             milestone[m] # "released"
      PROVE  Posted(ReleaseKey(m))'
  <2>1. PICK p \in Procs : Release(p) /\ call[p].id = m
    BY <1>3 DEF Next, vars, Topup, Journal, CreateMilestone, CreateRequest,
       ReadEvidence, ReadRequestRelease, ReadApprove, ReadReject, ReadMilestone,
       WriteEvidence, WriteRequestRelease, WriteReject, WriteMilestone, Release,
       ReleaseRefused, PayRefused, ReverseRefused, Throw, ReadDecision, ReadPay,
       ReadRequest, WriteDecision, Pay, ReadReversal, ReverseTransaction, TypeOK
  <2>2. SpendEscrow(ReleaseKey(m), Price[m])
    BY <2>1 DEF Release
  <2>3. ReleaseKey(m) \in Keys /\ Price[m] \in Nat
    BY KeysType, PriceType
  <2>4. PICK l \in Lines : Post(ReleaseKey(m), l, 0)
    BY <2>2, <2>3, SpendType
  <2>5. /\ TxnId(ReleaseKey(m)) \in 1..Len(ledger')
        /\ ledger'[TxnId(ReleaseKey(m))].key = ReleaseKey(m)
        /\ ledger' \in Seq(Txn)
    BY <1>2, <2>3, <2>4, PostKeeps, PostType
  <2>6. TxnId(ReleaseKey(m)) \in PriorTxns(ReleaseKey(m))'
    <3>1. DOMAIN ledger' = 1..Len(ledger')
      BY <2>5, LenProperties
    <3>2. ReleaseKey(m) # NoKey
      BY <2>3, NoKeyAssumption
    <3>3. QED
      BY <2>5, <3>1, <3>2 DEF PriorTxns
  <2>7. QED
    BY <2>6 DEF Posted
<1>4. ASSUME NEW r \in Requests, request'[r] = "paid",
             ~(request[r] = "paid" /\ paidRow'[r] = paidRow[r])
      PROVE  /\ paidRow'[r] \in DOMAIN rows'
             /\ rows'[paidRow'[r]] \in PriorTxns(PayKey(r))'
  <2>1. PICK p \in Procs : Pay(p) /\ call[p].id = r
    BY <1>4 DEF Next, vars, Topup, Journal, CreateMilestone, CreateRequest,
       ReadEvidence, ReadRequestRelease, ReadApprove, ReadReject, ReadMilestone,
       WriteEvidence, WriteRequestRelease, WriteReject, WriteMilestone, Release,
       ReleaseRefused, PayRefused, ReverseRefused, Throw, ReadDecision, ReadPay,
       ReadRequest, WriteDecision, Pay, ReadReversal, ReverseTransaction, TypeOK
  <2> DEFINE key == PayKey(r)
  <2>2. key \in Keys /\ Price[r] \in Nat
    BY KeysType, PriceType
  <2>3. PICK l \in Lines : Post(key, l, 0)
    BY <2>1, <2>2, SpendType DEF Pay
  <2>4. /\ rows' = RowsWith(TxnId(key))
        /\ paidRow'[r] = RowOf(rows', TxnId(key))
    BY <2>1 DEF Pay, TypeOK
  <2> HIDE DEF key
  <2>5. /\ Len(ledger) \in Nat /\ Len(ledger') \in Nat
        /\ Len(ledger) <= Len(ledger')
        /\ TxnId(key) \in 1..Len(ledger')
        /\ ledger'[TxnId(key)].key = key
        /\ ledger' \in Seq(Txn)
    BY <1>2, <2>2, <2>3, PostKeeps, PostType
  <2>6. /\ paidRow'[r] \in 1..Len(rows')
        /\ rows'[paidRow'[r]] = TxnId(key)
    BY <1>2, <2>4, <2>5, RowsEffect
  <2>7. TxnId(key) \in PriorTxns(key)'
    <3>1. DOMAIN ledger' = 1..Len(ledger')
      BY <2>5, LenProperties
    <3>2. key # NoKey
      BY <2>2, NoKeyAssumption
    <3>3. QED
      BY <2>5, <3>1, <3>2 DEF PriorTxns
  <2>8. QED
    BY <2>6, <2>7, RowsStay DEF key
<1>5. ASSUME NEW r \in Requests, request[r] = "paid", paidRow'[r] = paidRow[r]
      PROVE  /\ paidRow'[r] \in DOMAIN rows'
             /\ rows'[paidRow'[r]] \in PriorTxns(PayKey(r))'
  <2>1. /\ paidRow[r] \in DOMAIN rows
        /\ rows[paidRow[r]] \in PriorTxns(PayKey(r))
    BY <1>5 DEF DecisionsHaveMoney
  <2>2. PriorTxns(PayKey(r)) \subseteq PriorTxns(PayKey(r))'
    BY PostedStays
  <2>3. paidRow[r] \in DOMAIN rows' /\ rows'[paidRow[r]] = rows[paidRow[r]]
    BY <2>1, RowsStay
  <2>4. QED
    BY <1>5, <2>1, <2>2, <2>3
<1>6. QED
  BY <1>1, <1>3, <1>4, <1>5 DEF DecisionsHaveMoney

(* A released milestone and a paid request have their money on the ledger,  *)
(* and the request names the row of that transaction.                       *)
THEOREM DecisionsAlwaysHaveMoney == Spec => []DecisionsHaveMoney
<1>1. Init => DecisionsHaveMoney
  BY DEF Init, DecisionsHaveMoney
<1>2. TypeOK /\ DecisionsHaveMoney /\ [Next]_vars => DecisionsHaveMoney'
  BY DecisionsStep
<1>3. QED
  BY <1>1, <1>2, TypeCorrect, PTL DEF Spec

-----------------------------------------------------------------------------
(* The refinement: Escrow implements AppendOnlyLedger.                      *)

LEMMA IntervalEnd ==
  ASSUME NEW a \in Nat, NEW b \in Nat, 1..a = 1..b
  PROVE  a = b
<1>1. a < b => b \in 1..b /\ b \notin 1..a
  OBVIOUS
<1>2. b < a => a \in 1..a /\ a \notin 1..b
  OBVIOUS
<1>3. QED
  BY <1>1, <1>2

LEMMA BookShape ==
  ASSUME NEW L \in Seq(Txn)
  PROVE  /\ Len(BookOf(L)) = Len(L) /\ Len(L) \in Nat
         /\ DOMAIN BookOf(L) = 1..Len(L)
         /\ \A i \in 1..Len(L) : BookOf(L)[i] = Entry(L[i])
<1> DEFINE E == {Entry(t) : t \in Txn}
           B == BookOf(L)
<1>1. /\ Len(L) \in Nat /\ DOMAIN L = 1..Len(L)
      /\ \A i \in 1..Len(L) : L[i] \in Txn
  BY LenProperties, ElementOfSeq
<1>2. B \in [1..Len(L) -> E] /\ \A i \in 1..Len(L) : B[i] = Entry(L[i])
  BY <1>1 DEF BookOf
<1> HIDE DEF E, B
<1>3. B \in Seq(E)
  BY <1>1, <1>2, SeqDef
<1>4. DOMAIN B = 1..Len(B) /\ Len(B) \in Nat
  BY <1>3, LenProperties
<1>5. DOMAIN B = 1..Len(L)
  BY <1>2
<1>6. Len(B) = Len(L)
  BY <1>1, <1>4, <1>5, IntervalEnd
<1>7. QED
  BY <1>1, <1>2, <1>5, <1>6 DEF B

(* A posting whose key is new adds one transaction.                         *)
(* One posting is one step of the book: a new entry, or a correction.       *)
LEMMA PostRefines ==
  ASSUME TypeOK, NEW key \in Keys \cup {NoKey}, NEW l \in Lines, NEW of \in Nat,
         Post(key, l, of),
         \/ of = 0
         \/ of \in 1..Len(ledger) /\ l = Mirrored(ledger[of])
  PROVE  Promise!Next \/ UNCHANGED <<Book, Corrected>>
<1> DEFINE n == Len(ledger)
           e == Book'[n + 1]
<1>1. /\ ledger \in Seq(Txn) /\ sums \in [Accounts -> Int]
      /\ n \in Nat /\ DOMAIN ledger = 1..n
      /\ \A i \in 1..n : ledger[i] \in Txn
  BY LedgerType DEF TypeOK
<1>2. CASE Replays(key)
  <2>1. UNCHANGED ledger
    BY <1>2 DEF Post, ledgerVars
  <2>2. QED
    BY <2>1 DEF Book, BookOf, Corrected
<1>3. CASE ~Replays(key)
  <2>1. /\ ledger' \in Seq(Txn) /\ Len(ledger') = n + 1
        /\ ledger'[n + 1] = NewTxn(key, l, of)
        /\ \A i \in 1..n : ledger'[i] = Kept(of, i)
        /\ of # 0 => ledger[of].status = "posted"
    <3>1. /\ ledger' \in Seq(Txn) /\ Len(ledger') = Len(ledger) + 1
          /\ ledger'[Len(ledger) + 1] = NewTxn(key, l, of)
          /\ \A i \in 1..Len(ledger) : ledger'[i] = Kept(of, i)
          /\ of # 0 => MayReverse(of)
      BY <1>3, NewPosting, LedgerVarsType
    <3>2. QED
      BY <3>1 DEF MayReverse
  <2>2. /\ Len(Book) = n /\ DOMAIN Book = 1..n
        /\ \A i \in 1..n : Book[i] = Entry(ledger[i])
    BY <1>1, BookShape DEF Book
  <2>3. /\ Len(Book') = n + 1
        /\ \A i \in 1..(n + 1) : Book'[i] = Entry(ledger'[i])
    <3>1. /\ Len(Book') = Len(ledger')
          /\ \A i \in 1..Len(ledger') : Book'[i] = Entry(ledger'[i])
      BY <2>1, BookShape DEF Book
    <3>2. QED
      BY <2>1, <3>1
  <2>4. \A i \in 1..n : Book'[i] = Book[i]
    <3>1. \A i \in 1..n : Entry(ledger'[i]) = Entry(ledger[i])
      <4> SUFFICES ASSUME NEW i \in 1..n
                   PROVE  Entry(ledger'[i]) = Entry(ledger[i])
        OBVIOUS
      <4>1. ledger'[i] = Kept(of, i) /\ ledger[i] \in Txn
        BY <1>1, <2>1
      <4>2. QED
        BY <4>1, KeptFields DEF Entry
    <3>2. QED
      BY <1>1, <2>2, <2>3, <3>1
  <2>5. Promise!GrowsByOne
    BY <2>2, <2>3, <2>4 DEF Promise!GrowsByOne
  <2>6. /\ e.key = key /\ e.dr = l.dr /\ e.cr = l.cr /\ e.debit = l.debit
        /\ e.credit = l.credit /\ e.reverses = of
    BY <1>1, <2>1, <2>3 DEF Entry, NewTxn
  <2>7. e.debit > 0 /\ e.debit = e.credit
    BY <2>6 DEF Post, ValidLines
  <2>8. e.key = NoKey \/ \A i \in DOMAIN Book : Book[i].key # e.key
    BY <1>1, <1>3, <2>2, <2>6 DEF Replays, PriorTxns, Entry
  <2>9. DOMAIN ledger' = 1..(n + 1) /\ ledger'[n + 1].status = "posted"
    BY <2>1, LenProperties DEF NewTxn
  <2>10. \A i \in 1..n : ledger'[i].status =
           IF i = of THEN "reversed" ELSE ledger[i].status
    BY <1>1, <2>1, KeptFields
  <2> HIDE DEF e
  <2>11. CASE of = 0
    <3>1. Corrected' = Corrected
      BY <1>1, <2>9, <2>10, <2>11 DEF Corrected
    <3>2. Promise!Record
      BY <2>2, <2>5, <2>6, <2>7, <2>8, <2>11, <3>1
      DEF Promise!Record, Promise!Balances, Promise!KeyIsFresh, e
    <3>3. QED
      BY <3>2 DEF Promise!Next
  <2>12. CASE of # 0
    <3>1. of \in 1..n /\ l = Mirrored(ledger[of]) /\ ledger[of].status = "posted"
      BY <2>1, <2>12
    <3>2. Corrected' = Corrected \cup {of}
      BY <1>1, <2>9, <2>10, <3>1 DEF Corrected
    <3>3. of \in DOMAIN Book \ Corrected
      BY <2>2, <3>1 DEF Corrected
    <3>4. /\ e.dr = Book[of].cr /\ e.cr = Book[of].dr
          /\ e.debit = Book[of].credit /\ e.credit = Book[of].debit
      BY <2>2, <2>6, <3>1 DEF Mirrored, Entry
    <3>5. Promise!Correct
      BY <2>2, <2>5, <2>6, <2>7, <2>8, <3>2, <3>3, <3>4
      DEF Promise!Correct, Promise!Balances, Promise!KeyIsFresh, Promise!Mirrors, e
    <3>6. QED
      BY <3>5 DEF Promise!Next
  <2>13. QED
    BY <2>11, <2>12
<1>4. QED
  BY <1>2, <1>3

(* The ledger keeps its promise under every interleaving: transactions      *)
(* balance and are never edited, an idempotency key posts at most once, and *)
(* a transaction is reversed at most once, by its mirror.                   *)
THEOREM LedgerKeepsItsPromise == Spec => LedgerPromise
<1>1. Init => Promise!Init
  <2>1. SUFFICES ASSUME Init PROVE Book = <<>> /\ Corrected = {}
    BY DEF Promise!Init
  <2>2. ledger = <<>>
    BY <2>1 DEF Init, LedgerInit
  <2>3. QED
    BY <2>2 DEF Book, BookOf, Corrected
<1>2. TypeOK /\ [Next]_vars => Promise!Next \/ UNCHANGED <<Book, Corrected>>
  <2> SUFFICES ASSUME TypeOK, [Next]_vars
               PROVE  Promise!Next \/ UNCHANGED <<Book, Corrected>>
    OBVIOUS
  <2>1. CASE UNCHANGED ledger
    BY <2>1 DEF Book, BookOf, Corrected
  <2>2. CASE \E key \in Keys \cup {NoKey}, l \in Lines : Post(key, l, 0)
    BY <2>2, PostRefines
  <2>3. CASE \E i \in 1..Len(ledger), l \in Lines :
               l = Mirrored(ledger[i]) /\ Post(NoKey, l, i)
    <3>1. \A i \in 1..Len(ledger) : i \in Nat
      BY LedgerType
    <3>2. QED
      BY <2>3, <3>1, PostRefines
  <2>4. QED
    BY <2>1, <2>2, <2>3, PostingSteps
<1>3. TypeOK /\ [Next]_vars => [Promise!Next]_(Promise!vars)
  BY <1>2 DEF Promise!vars
<1>4. QED
  BY <1>1, <1>3, TypeCorrect, PTL DEF Spec, LedgerPromise, Promise!Spec

-----------------------------------------------------------------------------
(* The Transaction rows against the ledger.                                 *)

RowSet(rs) == {rs[k] : k \in DOMAIN rs}
OneRowEach(rs) == \A j, k \in DOMAIN rs : rs[j] = rs[k] => j = k
ReportedTxns == {i \in DOMAIN ledger : Reported(ledger[i])}

LEMMA RowsWithSet ==
  ASSUME NEW n \in Nat, rows \in Seq(Nat), NEW t \in Nat, OneRowEach(rows)
  PROVE  OneRowEach(RowsWith(t)) /\ RowSet(RowsWith(t)) = RowSet(rows) \cup {t}
<1>1. CASE \E k \in DOMAIN rows : rows[k] = t
  BY <1>1 DEF RowsWith, RowSet
<1>2. CASE ~\E k \in DOMAIN rows : rows[k] = t
  <2>1. /\ Len(rows) \in Nat /\ DOMAIN rows = 1..Len(rows)
        /\ \A k \in 1..Len(rows) : rows[k] \in Nat
    BY LenProperties, ElementOfSeq
  <2> DEFINE A == Append(rows, t)
  <2>2. /\ A \in Seq(Nat) /\ Len(A) = Len(rows) + 1
        /\ A[Len(rows) + 1] = t
        /\ \A k \in 1..Len(rows) : A[k] = rows[k]
    BY <2>1
  <2> HIDE DEF A
  <2>3. DOMAIN A = 1..(Len(rows) + 1)
    BY <2>2, LenProperties
  <2>4. RowSet(A) = RowSet(rows) \cup {t}
    BY <2>1, <2>2, <2>3 DEF RowSet
  <2>5. OneRowEach(A)
    <3> SUFFICES ASSUME NEW j \in DOMAIN A, NEW k \in DOMAIN A, A[j] = A[k]
                 PROVE  j = k
      BY DEF OneRowEach
    <3>1. CASE j \in 1..Len(rows) /\ k \in 1..Len(rows)
      BY <2>1, <2>2, <3>1 DEF OneRowEach
    <3>2. CASE j = Len(rows) + 1 \/ k = Len(rows) + 1
      <4>1. \A i \in 1..Len(rows) : A[i] # t
        BY <1>2, <2>1, <2>2
      <4>2. QED
        BY <2>1, <2>2, <2>3, <3>2, <4>1
    <3>3. QED
      BY <2>1, <2>3, <3>1, <3>2
  <2>6. RowsWith(t) = A
    BY <1>2 DEF RowsWith, A
  <2>7. QED
    BY <2>4, <2>5, <2>6
<1>3. QED
  BY <1>1, <1>2

SpendKey(key) == \/ \E m \in Milestones : key = ReleaseKey(m)
                 \/ \E r \in Requests : key = PayKey(r)

(* What a posting adds to the transactions the reports should name.         *)
LEMMA PostReported ==
  ASSUME TypeOK, NEW key \in Keys \cup {NoKey}, NEW l \in Lines,
         NEW of \in Nat, Post(key, l, of)
  PROVE  /\ Replays(key) => ReportedTxns' = ReportedTxns
         /\ ~Replays(key) => ReportedTxns' =
              ReportedTxns \cup
                (IF of # 0 \/ SpendKey(key) THEN {Len(ledger) + 1} ELSE {})
<1>1. CASE Replays(key)
  BY <1>1 DEF Post, ledgerVars, ReportedTxns
<1>2. CASE ~Replays(key)
  <2>1. /\ Len(ledger) \in Nat /\ DOMAIN ledger = 1..Len(ledger)
        /\ \A i \in 1..Len(ledger) : ledger[i] \in Txn
    BY LedgerType
  <2>2. /\ ledger' \in Seq(Txn) /\ Len(ledger') = Len(ledger) + 1
        /\ ledger'[Len(ledger) + 1] = NewTxn(key, l, of)
        /\ \A i \in 1..Len(ledger) : ledger'[i] = Kept(of, i)
    BY <1>2, NewPosting, LedgerVarsType
  <2>3. DOMAIN ledger' = 1..(Len(ledger) + 1)
    BY <2>2, LenProperties
  <2>4. \A i \in 1..Len(ledger) : Reported(ledger'[i]) <=> Reported(ledger[i])
    <3> SUFFICES ASSUME NEW i \in 1..Len(ledger)
                 PROVE  Reported(ledger'[i]) <=> Reported(ledger[i])
      OBVIOUS
    <3>1. ledger'[i].key = ledger[i].key /\ ledger'[i].reverses = ledger[i].reverses
      BY <2>1, <2>2, KeptFields
    <3>2. QED
      BY <3>1 DEF Reported
  <2>5. Reported(ledger'[Len(ledger) + 1]) <=> of # 0 \/ SpendKey(key)
    BY <2>2 DEF Reported, NewTxn, SpendKey
  <2>6. ReportedTxns' = {i \in 1..(Len(ledger) + 1) : Reported(ledger'[i])}
    BY <2>3 DEF ReportedTxns, Reported
  <2>7. QED
    BY <1>2, <2>1, <2>4, <2>5, <2>6 DEF ReportedTxns
<1>3. QED
  BY <1>1, <1>2

LEMMA NotSpendKeys ==
  /\ \A ref \in TopupRefs : ~SpendKey(TopupKey(ref))
  /\ ~SpendKey(NoKey)
<1>1. \A ref \in TopupRefs : ~SpendKey(TopupKey(ref))
  BY DEF SpendKey, TopupKey, ReleaseKey, PayKey
<1>2. ~SpendKey(NoKey)
  BY KeysType, NoKeyAssumption DEF SpendKey
<1>3. QED
  BY <1>1, <1>2

LEMMA RowsStep ==
  ASSUME TypeOK, [Next]_vars, OneRowEach(rows), RowSet(rows) = ReportedTxns
  PROVE  OneRowEach(rows') /\ RowSet(rows') = ReportedTxns'
<1>1. /\ Len(ledger) \in Nat /\ DOMAIN ledger = 1..Len(ledger)
      /\ rows \in Seq(Nat)
  <2>1. 1..Len(ledger) \subseteq Nat /\ rows \in Seq(1..Len(ledger))
    BY LedgerType DEF TypeOK
  <2>2. QED
    BY <2>1, LedgerType, SeqMonotonic
<1>2. CASE UNCHANGED <<ledger, sums, balance, rows>>
  <2>1. ReportedTxns' = ReportedTxns
    BY <1>2 DEF ReportedTxns
  <2>2. QED
    BY <1>2, <2>1
<1>3. ASSUME NEW ref \in TopupRefs, NEW n \in TopupAmounts, Topup(ref, n)
      PROVE  UNCHANGED rows /\ ReportedTxns' = ReportedTxns
  <2>1. /\ TopupKey(ref) \in Keys \cup {NoKey}
        /\ TwoLegs("CASH", "ESCROW", n) \in Lines
    BY KeysType, TargetsAssumption, TwoLegsType DEF Accounts
  <2>2. Post(TopupKey(ref), TwoLegs("CASH", "ESCROW", n), 0) /\ UNCHANGED rows
    BY <1>3 DEF Topup
  <2>3. QED
    BY <2>1, <2>2, PostReported, NotSpendKeys
<1>4. ASSUME NEW dr \in JournalAccounts, NEW cr \in JournalAccounts,
             NEW n \in JournalAmounts, NEW k \in JournalAmounts,
             Journal(dr, cr, n, k)
      PROVE  UNCHANGED rows /\ ReportedTxns' = ReportedTxns
  <2> DEFINE l == [dr |-> dr, cr |-> cr, debit |-> n, credit |-> k]
  <2>1. l \in Lines
    BY TargetsAssumption DEF Lines
  <2>2. Post(NoKey, l, 0) /\ UNCHANGED rows
    BY <1>4 DEF Journal
  <2> HIDE DEF l
  <2>3. QED
    BY <2>1, <2>2, PostReported, NotSpendKeys
<1>5. ASSUME NEW key \in Keys, NEW n \in Nat, SpendKey(key),
             SpendEscrow(key, n) \/ SpendExternal(key, n),
             rows' = RowsWith(TxnId(key))
      PROVE  OneRowEach(rows') /\ RowSet(rows') = ReportedTxns'
  <2>1. PICK l \in Lines : Post(key, l, 0)
    BY <1>5, SpendType
  <2>2. CASE Replays(key)
    <3>1. TxnId(key) \in PriorTxns(key)
      BY <2>2 DEF TxnId, Replays
    <3>2. TxnId(key) \in ReportedTxns /\ TxnId(key) \in Nat
      BY <1>1, <1>5, <3>1 DEF ReportedTxns, Reported, PriorTxns, SpendKey
    <3>3. ReportedTxns' = ReportedTxns
      BY <2>1, <2>2, PostReported
    <3>4. OneRowEach(rows') /\ RowSet(rows') = RowSet(rows) \cup {TxnId(key)}
      BY <1>1, <1>5, <3>2, RowsWithSet
    <3>5. QED
      BY <3>2, <3>3, <3>4
  <2>3. CASE ~Replays(key)
    <3>1. TxnId(key) = Len(ledger) + 1
      BY <2>3 DEF TxnId
    <3>2. ReportedTxns' = ReportedTxns \cup {Len(ledger) + 1}
      BY <1>5, <2>1, <2>3, PostReported
    <3>3. OneRowEach(rows') /\ RowSet(rows') = RowSet(rows) \cup {TxnId(key)}
      BY <1>1, <1>5, <3>1, RowsWithSet
    <3>4. QED
      BY <3>1, <3>2, <3>3
  <2>4. QED
    BY <2>2, <2>3
<1>6. ASSUME NEW p \in Procs, ReverseTransaction(p), call[p].id \in 1..Len(ledger)
      PROVE  OneRowEach(rows') /\ RowSet(rows') = ReportedTxns'
  <2>1. PICK l \in Lines : /\ Post(NoKey, l, call[p].id) /\ ~Replays(NoKey)
                           /\ rows' = RowsWith(TxnId(NoKey))
    BY <1>6, ReversalStep
  <2>2. TxnId(NoKey) = Len(ledger) + 1
    BY <2>1 DEF TxnId
  <2>3. call[p].id \in Nat /\ call[p].id # 0
    BY <1>1, <1>6
  <2>4. ReportedTxns' = ReportedTxns \cup {Len(ledger) + 1}
    BY <2>1, <2>3, PostReported
  <2>5. OneRowEach(rows') /\ RowSet(rows') = RowSet(rows) \cup {TxnId(NoKey)}
    BY <1>1, <2>1, <2>2, RowsWithSet
  <2>6. QED
    BY <2>2, <2>4, <2>5
<1>7. QED
  BY <1>2, <1>3, <1>4, <1>5, <1>6, MoneySteps DEF SpendKey

(* The Transaction rows name each release, payment and reversal of the      *)
(* ledger exactly once, so a replayed payment is never reported twice.      *)
THEOREM RowsAlwaysMatchLedger == Spec => []RowsMatchLedger
<1> DEFINE Inv == OneRowEach(rows) /\ RowSet(rows) = ReportedTxns
<1>1. Init => Inv
  <2> SUFFICES ASSUME Init PROVE Inv
    OBVIOUS
  <2>1. rows = <<>> /\ ledger = <<>>
    BY DEF Init, LedgerInit
  <2>2. QED
    BY <2>1 DEF OneRowEach, RowSet, ReportedTxns
<1>2. TypeOK /\ Inv /\ [Next]_vars => Inv'
  <2> SUFFICES ASSUME TypeOK, Inv, [Next]_vars PROVE Inv'
    OBVIOUS
  <2>1. OneRowEach(rows') /\ RowSet(rows') = ReportedTxns'
    BY RowsStep
  <2>2. QED
    BY <2>1 DEF OneRowEach, RowSet
<1>3. Inv => RowsMatchLedger
  BY DEF OneRowEach, RowSet, ReportedTxns, RowsMatchLedger
<1> HIDE DEF Inv
<1>4. QED
  BY <1>1, <1>2, <1>3, TypeCorrect, PTL DEF Spec

(* A posting keeps the account solvent unless it takes from it, and then    *)
(* only a reversal may leave it short.                                      *)
LEMMA PostSolvent ==
  ASSUME TypeOK, EscrowSolvent,
         NEW key \in Keys \cup {NoKey}, NEW l \in Lines, NEW of \in Nat,
         Post(key, l, of),
         \/ Effect(l, "ESCROW") <= 0
         \/ of # 0
         \/ EscrowBalance' >= 0
  PROVE  EscrowSolvent'
<1> DEFINE Short(L) == \E i \in DOMAIN L : L[i].reverses # 0 /\ L[i].dr = "ESCROW"
<1>1. /\ ledger \in Seq(Txn) /\ sums \in [Accounts -> Int]
      /\ Len(ledger) \in Nat /\ DOMAIN ledger = 1..Len(ledger)
  BY LedgerType DEF TypeOK
<1>2. ledger' \in Seq(Txn) /\ DOMAIN ledger' = 1..Len(ledger')
  BY <1>1, PostType, LenProperties
<1>3. \A i \in 1..Len(ledger) :
        /\ i \in 1..Len(ledger')
        /\ ledger'[i].dr = ledger[i].dr
        /\ ledger'[i].reverses = ledger[i].reverses
  BY <1>1, PostKeeps
<1>4. Short(ledger) => Short(ledger')
  BY <1>1, <1>2, <1>3
<1>5. /\ EscrowBalance \in Int /\ EscrowBalance' \in Int
      /\ Effect(l, "ESCROW") \in Int
      /\ Replays(key) => EscrowBalance' = EscrowBalance
      /\ ~Replays(key) => EscrowBalance' = EscrowBalance - Effect(l, "ESCROW")
  BY PostBalance
<1>6. CASE Short(ledger) \/ EscrowBalance' >= 0
  BY <1>4, <1>5, <1>6 DEF EscrowSolvent
<1>7. CASE ~Short(ledger) /\ EscrowBalance' < 0
  <2>1. EscrowBalance >= 0
    BY <1>5, <1>7 DEF EscrowSolvent
  <2>2. ~Replays(key) /\ Effect(l, "ESCROW") > 0
    BY <1>5, <1>7, <2>1
  <2>3. of # 0
    BY <1>5, <1>7, <2>2
  <2>4. l.dr = "ESCROW"
    BY <2>2 DEF Effect, Lines
  <2>5. /\ Len(ledger') = Len(ledger) + 1
        /\ ledger'[Len(ledger) + 1] = NewTxn(key, l, of)
    BY <1>1, <2>2, NewPosting
  <2>6. Short(ledger')
    BY <1>1, <1>2, <2>3, <2>4, <2>5 DEF NewTxn
  <2>7. QED
    BY <2>6 DEF EscrowSolvent
<1>8. QED
  BY <1>5, <1>6, <1>7

LEMMA SolventStep ==
  ASSUME "ESCROW" \notin JournalAccounts, TypeOK, ProjectionBacked,
         ProjectionBacked', [Next]_vars, EscrowSolvent
  PROVE  EscrowSolvent'
<1>1. CASE UNCHANGED <<ledger, sums, balance, rows>>
  BY <1>1 DEF EscrowSolvent, EscrowBalance
<1>2. ASSUME NEW ref \in TopupRefs, NEW n \in TopupAmounts, Topup(ref, n)
      PROVE  EscrowSolvent'
  <2> DEFINE l == TwoLegs("CASH", "ESCROW", n)
  <2>1. /\ TopupKey(ref) \in Keys \cup {NoKey} /\ n \in Nat
        /\ l \in Lines /\ Effect(l, "ESCROW") = -n
    BY KeysType, TargetsAssumption, TwoLegsType, TwoLegsEffect DEF Accounts
  <2>2. Post(TopupKey(ref), l, 0) /\ Effect(l, "ESCROW") <= 0
    BY <1>2, <2>1 DEF Topup
  <2> HIDE DEF l
  <2>3. QED
    BY <2>1, <2>2, PostSolvent
<1>3. ASSUME NEW dr \in JournalAccounts, NEW cr \in JournalAccounts,
             NEW n \in JournalAmounts, NEW k \in JournalAmounts,
             Journal(dr, cr, n, k)
      PROVE  EscrowSolvent'
  <2> DEFINE l == [dr |-> dr, cr |-> cr, debit |-> n, credit |-> k]
  <2>1. l \in Lines /\ Effect(l, "ESCROW") = 0
    BY JournalLeavesEscrow
  <2>2. Post(NoKey, l, 0)
    BY <1>3 DEF Journal
  <2> HIDE DEF l
  <2>3. QED
    BY <2>1, <2>2, PostSolvent
<1>4. ASSUME NEW key \in Keys, NEW n \in Nat, SpendEscrow(key, n)
      PROVE  EscrowSolvent'
  <2> DEFINE l == TwoLegs("ESCROW", "EXPENSE", n)
  <2>1. l \in Lines
    BY TwoLegsType DEF Accounts
  <2>2. Post(key, l, 0) /\ balance' \in Int /\ balance' >= 0
    BY <1>4 DEF SpendEscrow, CanSpendEscrow, TypeOK
  <2> HIDE DEF l
  <2>3. EscrowBalance' \in Int
    BY <2>1, <2>2, PostBalance
  <2>4. EscrowBalance' >= 0
    BY <2>2, <2>3 DEF ProjectionBacked
  <2>5. QED
    BY <2>1, <2>2, <2>4, PostSolvent
<1>5. ASSUME NEW key \in Keys, NEW n \in Nat, SpendExternal(key, n)
      PROVE  EscrowSolvent'
  <2> DEFINE l == TwoLegs("EXPENSE", "CASH", n)
  <2>1. l \in Lines /\ Effect(l, "ESCROW") = 0
    BY TwoLegsType, TwoLegsEffect DEF Accounts
  <2>2. Post(key, l, 0)
    BY <1>5 DEF SpendExternal
  <2> HIDE DEF l
  <2>3. QED
    BY <2>1, <2>2, PostSolvent
<1>6. ASSUME NEW p \in Procs, ReverseTransaction(p), call[p].id \in 1..Len(ledger)
      PROVE  EscrowSolvent'
  <2>1. PICK l \in Lines : Post(NoKey, l, call[p].id)
    BY <1>6, ReversalStep
  <2>2. call[p].id \in Nat /\ call[p].id # 0
    BY <1>6, LedgerType
  <2>3. QED
    BY <2>1, <2>2, PostSolvent
<1>7. QED
  BY <1>1, <1>2, <1>3, <1>4, <1>5, <1>6, MoneySteps

(* The ledger's escrow account goes below zero only after a reversal has    *)
(* taken from it: spends never do it.                                       *)
THEOREM EscrowStaysSolvent ==
  ASSUME "ESCROW" \notin JournalAccounts
  PROVE  Spec => []EscrowSolvent
<1>1. Init => EscrowSolvent
  BY DEF Init, LedgerInit, EscrowSolvent, EscrowBalance, Accounts
<1>2. /\ TypeOK /\ ProjectionBacked /\ ProjectionBacked' /\ EscrowSolvent
      /\ [Next]_vars
      => EscrowSolvent'
  BY SolventStep
<1>3. QED
  BY <1>1, <1>2, TypeCorrect, ProjectionAlwaysBacked, PTL DEF Spec

-----------------------------------------------------------------------------
(* Requests served one at a time.                                          *)

\* What a handler has read, while nothing else is under way.
ReadHolds(c) ==
  /\ c.op = "evidence" => milestone[c.id] \in {"locked", "evidence_submitted"}
  /\ c.op = "requestRelease" => milestone[c.id] = "evidence_submitted"
  /\ c.op \in {"approve", "reject"} => milestone[c.id] = "release_requested"
  /\ c.op \in {"approveRequest", "rejectRequest"} => request[c.id] = "pending"
  /\ c.op \in {"payWallet", "payExternal"} => request[c.id] = "approved"

ReadsHold == \A p \in Procs : ReadHolds(call[p])

\* Money is spent at most on what is released or paid by now.
SpentIsDecided ==
  /\ \A m \in Milestones : Posted(ReleaseKey(m)) => milestone[m] = "released"
  /\ \A r \in Requests : Posted(PayKey(r)) => request[r] = "paid"

Alone == OneAtATime /\ ReadsHold /\ SpentIsDecided

\* A handler that resumes; what it leaves behind.
Resumes(p) ==
  \/ WriteEvidence(p) \/ WriteRequestRelease(p) \/ WriteReject(p)
  \/ Release(p) \/ WriteDecision(p) \/ Pay(p) \/ ReverseTransaction(p)
  \/ ReleaseRefused(p) \/ PayRefused(p) \/ ReverseRefused(p)

\* A handler that suspends: it has read what it goes on with.
Suspends(p) ==
  /\ UNCHANGED <<ledger, sums, milestone, request, balance, rows>>
  /\ call[p].op = "idle"
  /\ \E c : ReadHolds(c) /\ call' = [call EXCEPT ![p] = c]

\* What goes on beside the handlers.
Aside ==
  /\ UNCHANGED call
  /\ \/ \E ref \in TopupRefs, n \in TopupAmounts : Topup(ref, n)
     \/ \E dr, cr \in JournalAccounts, n, k \in JournalAmounts : Journal(dr, cr, n, k)
     \/ \E m \in Milestones : CreateMilestone(m)
     \/ \E r \in Requests : CreateRequest(r)
     \/ UNCHANGED vars

LEMMA HandlerSteps ==
  ASSUME [Next]_vars
  PROVE  Aside \/ \E p \in Procs : Suspends(p) \/ Resumes(p)
<1>1. ASSUME NEW p \in Procs, NEW m \in Milestones,
             \/ ReadEvidence(p, m) \/ ReadRequestRelease(p, m)
             \/ ReadApprove(p, m) \/ ReadReject(p, m)
      PROVE  Suspends(p)
  <2>1. PICK op, S : ReadMilestone(p, m, op, S) /\
               \/ op = "evidence" /\ S = {"locked", "evidence_submitted"}
               \/ op = "requestRelease" /\ S = {"evidence_submitted"}
               \/ op = "approve" /\ S = {"release_requested"}
               \/ op = "reject" /\ S = {"release_requested"}
    BY <1>1 DEF ReadEvidence, ReadRequestRelease, ReadApprove, ReadReject
  <2>2. /\ milestone[m] \in S /\ Suspend(p, op, m, milestone[m])
        /\ UNCHANGED <<ledger, sums, milestone, request, paidRow, balance, rows>>
    BY <2>1 DEF ReadMilestone
  <2> DEFINE c == [op |-> op, id |-> m, seen |-> milestone[m]]
  <2>3. ReadHolds(c)
    BY <2>1, <2>2 DEF ReadHolds
  <2>4. call[p].op = "idle" /\ call' = [call EXCEPT ![p] = c]
    BY <2>2 DEF Suspend
  <2>5. QED
    BY <2>2, <2>3, <2>4 DEF Suspends
<1>2. ASSUME NEW p \in Procs, NEW r \in Requests, ReadDecision(p, r) \/ ReadPay(p, r)
      PROVE  Suspends(p)
  <2>1. PICK op, s : ReadRequest(p, r, op, s) /\
               \/ op \in {"approveRequest", "rejectRequest"} /\ s = "pending"
               \/ op \in {"payWallet", "payExternal"} /\ s = "approved"
    BY <1>2 DEF ReadDecision, ReadPay
  <2>2. /\ request[r] = s /\ Suspend(p, op, r, request[r])
        /\ UNCHANGED <<ledger, sums, milestone, request, paidRow, balance, rows>>
    BY <2>1 DEF ReadRequest
  <2> DEFINE c == [op |-> op, id |-> r, seen |-> request[r]]
  <2>3. ReadHolds(c)
    BY <2>1, <2>2 DEF ReadHolds
  <2>4. call[p].op = "idle" /\ call' = [call EXCEPT ![p] = c]
    BY <2>2 DEF Suspend
  <2>5. QED
    BY <2>2, <2>3, <2>4 DEF Suspends
<1>3. ASSUME NEW p \in Procs, NEW k \in DOMAIN rows, ReadReversal(p, k)
      PROVE  Suspends(p)
  <2> DEFINE c == [op |-> "reverse", id |-> rows[k], seen |-> ledger[rows[k]].status]
  <2>1. ReadHolds(c)
    BY DEF ReadHolds
  <2>2. /\ call[p].op = "idle" /\ call' = [call EXCEPT ![p] = c]
        /\ UNCHANGED <<ledger, sums, milestone, request, balance, rows>>
    BY <1>3 DEF ReadReversal, Suspend
  <2>3. QED
    BY <2>1, <2>2 DEF Suspends
<1>4. CASE \/ \E ref \in TopupRefs, n \in TopupAmounts : Topup(ref, n)
           \/ \E dr, cr \in JournalAccounts, n, k \in JournalAmounts :
                Journal(dr, cr, n, k)
           \/ \E m \in Milestones : CreateMilestone(m)
           \/ \E r \in Requests : CreateRequest(r)
           \/ UNCHANGED vars
  BY <1>4 DEF Aside, Topup, Journal, CreateMilestone, CreateRequest, vars
<1>5. ASSUME NEW p \in Procs,
             \/ WriteEvidence(p) \/ WriteRequestRelease(p) \/ WriteReject(p)
             \/ Release(p) \/ WriteDecision(p) \/ Pay(p) \/ ReverseTransaction(p)
             \/ ReleaseRefused(p) \/ PayRefused(p) \/ ReverseRefused(p)
      PROVE  Resumes(p)
  BY <1>5 DEF Resumes
<1>6. QED
  BY <1>1, <1>2, <1>3, <1>4, <1>5 DEF Next

\* A handler that resumes is the only one, and ends.
LEMMA ThenNobody ==
  ASSUME TypeOK, OneAtATime, NEW p \in Procs, Resumes(p)
  PROVE  call[p].op # "idle" /\ \A q \in Procs : call'[q].op = "idle"
<1>1. call[p].op # "idle" /\ Answer(p)
  BY DEF Resumes, WriteEvidence, WriteRequestRelease, WriteReject, WriteMilestone,
    Release, WriteDecision, Pay, ReverseTransaction, ReleaseRefused, PayRefused,
    ReverseRefused, Throw, Resume
<1>2. \A q \in Procs : q # p => call[q].op = "idle"
  BY <1>1 DEF OneAtATime
<1>3. \A q \in Procs : call'[q] = IF q = p THEN NoCall ELSE call[q]
  BY <1>1 DEF Answer, TypeOK
<1>4. QED
  BY <1>1, <1>2, <1>3 DEF NoCall

\* A posting makes no key posted but its own.
LEMMA PostedBy ==
  ASSUME TypeOK, NEW key \in Keys \cup {NoKey}, NEW l \in Lines, NEW of \in Nat,
         Post(key, l, of), NEW k \in Keys, Posted(k)'
  PROVE  Posted(k) \/ k = key
<1>1. /\ Len(ledger) \in Nat /\ DOMAIN ledger = 1..Len(ledger)
      /\ \A i \in 1..Len(ledger) : ledger[i] \in Txn
  BY LedgerType
<1>2. CASE Replays(key)
  BY <1>2, Replay DEF Posted, PriorTxns
<1>3. CASE ~Replays(key)
  <2>1. /\ ledger' \in Seq(Txn) /\ Len(ledger') = Len(ledger) + 1
        /\ ledger'[Len(ledger) + 1] = NewTxn(key, l, of)
        /\ \A i \in 1..Len(ledger) : ledger'[i] = Kept(of, i)
    BY <1>3, NewPosting, LedgerVarsType
  <2>2. PICK i \in DOMAIN ledger' : k # NoKey /\ ledger'[i].key = k
    BY DEF Posted, PriorTxns
  <2>3. i \in 1..(Len(ledger) + 1)
    BY <2>1, <2>2, LenProperties
  <2>4. CASE i = Len(ledger) + 1
    BY <2>1, <2>2, <2>4 DEF NewTxn
  <2>5. CASE i \in 1..Len(ledger)
    <3>1. ledger[i].key = k
      BY <1>1, <2>1, <2>2, <2>5, KeptFields
    <3>2. QED
      BY <1>1, <2>2, <2>5, <3>1 DEF Posted, PriorTxns
  <2>6. QED
    BY <1>1, <2>3, <2>4, <2>5
<1>4. QED
  BY <1>2, <1>3

\* Keys of one kind and target are one key, and no key of another.
LEMMA SpendKeysDiffer ==
  /\ \A m \in Milestones : ReleaseKey(m) \in Keys /\ ReleaseKey(m) # NoKey
  /\ \A r \in Requests : PayKey(r) \in Keys /\ PayKey(r) # NoKey
  /\ \A m, n \in Milestones : ReleaseKey(m) = ReleaseKey(n) => m = n
  /\ \A r, s \in Requests : PayKey(r) = PayKey(s) => r = s
  /\ \A m \in Milestones, r \in Requests : ReleaseKey(m) # PayKey(r)
<1>1. /\ \A m \in Milestones : ReleaseKey(m) \in Keys
      /\ \A r \in Requests : PayKey(r) \in Keys
  BY DEF Keys
<1>2. QED
  BY <1>1, NoKeyAssumption DEF ReleaseKey, PayKey

LEMMA DecisionsStayAlone ==
  ASSUME TypeOK, Alone, [Next]_vars
  PROVE  DecisionStays
<1>1. CASE Aside
  BY <1>1 DEF Aside, Topup, Journal, CreateMilestone, CreateRequest, vars, DecisionStays,
    TypeOK
<1>2. CASE \E p \in Procs : Suspends(p)
  BY <1>2 DEF Suspends, DecisionStays
<1>3. ASSUME NEW p \in Procs, Resumes(p)
      PROVE  DecisionStays
  <2>1. ReadHolds(call[p]) /\ CallOK(call[p])
    BY DEF Alone, ReadsHold, TypeOK
  <2>2. CASE WriteEvidence(p) \/ WriteRequestRelease(p) \/ WriteReject(p)
    BY <2>1, <2>2 DEF WriteEvidence, WriteRequestRelease, WriteReject, WriteMilestone,
      Resume, ReadHolds, DecisionStays, TypeOK
  <2>3. CASE WriteDecision(p)
    BY <2>1, <2>3 DEF WriteDecision, Resume, ReadHolds, DecisionStays, TypeOK
  <2>4. CASE Release(p)
    BY <2>1, <2>4 DEF Release, DecisionStays, TypeOK
  <2>5. CASE Pay(p)
    BY <2>1, <2>5 DEF Pay, DecisionStays, TypeOK
  <2>6. CASE ReverseTransaction(p) \/ ReleaseRefused(p) \/ PayRefused(p) \/ ReverseRefused(p)
    BY <2>6 DEF ReverseTransaction, ReleaseRefused, PayRefused, ReverseRefused, Throw,
      DecisionStays
  <2>7. QED
    BY <1>3, <2>2, <2>3, <2>4, <2>5, <2>6 DEF Resumes
<1>4. QED
  BY <1>1, <1>2, <1>3, HandlerSteps

LEMMA ReadsHoldStep ==
  ASSUME TypeOK, Alone, [Next]_vars
  PROVE  ReadsHold'
<1>1. CASE Aside
  <2>1. /\ \A m \in Milestones : milestone[m] # "none" => milestone'[m] = milestone[m]
        /\ \A r \in Requests : request[r] # "none" => request'[r] = request[r]
        /\ UNCHANGED call
    BY <1>1 DEF Aside, Topup, Journal, CreateMilestone, CreateRequest, vars, TypeOK
  <2>2. ASSUME NEW p \in Procs, NEW c, c = call[p]
        PROVE  /\ ReadHolds(c)
               /\ c.op \in MilestoneOps => c.id \in Milestones
               /\ c.op \in RequestOps => c.id \in Requests
    BY <2>2 DEF Alone, ReadsHold, TypeOK, CallOK
  <2>3. ASSUME NEW p \in Procs, NEW c, c = call[p]
        PROVE  ReadHolds(c)'
    BY <2>1, <2>2, <2>3 DEF ReadHolds, MilestoneOps, RequestOps
  <2>4. QED
    BY <2>1, <2>3 DEF ReadsHold, ReadHolds
<1>2. ASSUME NEW p \in Procs, Suspends(p)
      PROVE  ReadsHold'
  <2>1. PICK c : ReadHolds(c) /\ call' = [call EXCEPT ![p] = c]
    BY <1>2 DEF Suspends
  <2>2. UNCHANGED <<milestone, request>>
    BY <1>2 DEF Suspends
  <2>3. ASSUME NEW q \in Procs PROVE ReadHolds(call'[q])
    BY <2>1 DEF Alone, ReadsHold, TypeOK
  <2>4. QED
    BY <2>2, <2>3 DEF ReadsHold, ReadHolds
<1>3. ASSUME NEW p \in Procs, Resumes(p)
      PROVE  ReadsHold'
  <2>1. \A q \in Procs : call'[q].op = "idle"
    BY <1>3, ThenNobody DEF Alone
  <2>2. QED
    BY <2>1 DEF ReadsHold, ReadHolds
<1>4. QED
  BY <1>1, <1>2, <1>3, HandlerSteps

\* What is posted under a spend's key is posted by the spend, which decides.
LEMMA SpentStep ==
  ASSUME TypeOK, Alone, [Next]_vars
  PROVE  SpentIsDecided'
<1> DEFINE SpendKeys == {ReleaseKey(m) : m \in Milestones} \cup {PayKey(r) : r \in Requests}
<1>1. ASSUME \A k \in SpendKeys : Posted(k)' => Posted(k)
      PROVE  SpentIsDecided'
  BY <1>1, DecisionsStayAlone DEF SpentIsDecided, Alone, DecisionStays
<1>2. SpendKeys \subseteq Keys /\ NoKey \notin SpendKeys
  BY SpendKeysDiffer
<1> HIDE DEF SpendKeys
<1>3. ASSUME NEW key \in (Keys \cup {NoKey}) \ SpendKeys, NEW l \in Lines, NEW of \in Nat,
             Post(key, l, of)
      PROVE  SpentIsDecided'
  BY <1>1, <1>2, <1>3, PostedBy
<1>4. CASE UNCHANGED ledger
  BY <1>1, <1>4 DEF Posted, PriorTxns
<1>5. CASE Aside
  <2>1. ASSUME NEW ref \in TopupRefs, NEW n \in TopupAmounts, Topup(ref, n)
        PROVE  SpentIsDecided'
    <3>1. TopupKey(ref) \in Keys \ SpendKeys
      BY DEF Keys, SpendKeys, TopupKey, ReleaseKey, PayKey
    <3>2. TwoLegs("CASH", "ESCROW", n) \in Lines
      BY TargetsAssumption, TwoLegsType DEF Accounts
    <3>3. QED
      BY <1>3, <2>1, <3>1, <3>2 DEF Topup
  <2>2. ASSUME NEW dr \in JournalAccounts, NEW cr \in JournalAccounts,
               NEW n \in JournalAmounts, NEW k \in JournalAmounts, Journal(dr, cr, n, k)
        PROVE  SpentIsDecided'
    <3>1. [dr |-> dr, cr |-> cr, debit |-> n, credit |-> k] \in Lines
      BY TargetsAssumption DEF Lines
    <3>2. QED
      BY <1>2, <1>3, <2>2, <3>1 DEF Journal
  <2>3. CASE \/ \E m \in Milestones : CreateMilestone(m)
             \/ \E r \in Requests : CreateRequest(r)
             \/ UNCHANGED vars
    BY <1>4, <2>3 DEF CreateMilestone, CreateRequest, vars
  <2>4. QED
    BY <1>5, <2>1, <2>2, <2>3 DEF Aside
<1>6. CASE \E p \in Procs : Suspends(p)
  BY <1>4, <1>6 DEF Suspends
<1>7. ASSUME NEW p \in Procs, Resumes(p)
      PROVE  SpentIsDecided'
  <2>1. CallOK(call[p])
    BY DEF TypeOK
  <2>2. CASE Release(p)
    <3> DEFINE m == call[p].id
    <3>1. m \in Milestones /\ milestone'[m] = "released"
      BY <2>1, <2>2 DEF Release, Resume, CallOK, MilestoneOps, TypeOK
    <3>2. PICK l \in Lines : Post(ReleaseKey(m), l, 0)
      BY <2>2, <3>1, PriceType, SpendKeysDiffer, SpendType DEF Release
    <3>3. \A k \in Keys : Posted(k)' => Posted(k) \/ k = ReleaseKey(m)
      BY <3>1, <3>2, SpendKeysDiffer, PostedBy
    <3>4. QED
      BY <3>1, <3>3, SpendKeysDiffer, DecisionsStayAlone
      DEF SpentIsDecided, Alone, DecisionStays
  <2>3. CASE Pay(p)
    <3> DEFINE r == call[p].id
    <3>1. r \in Requests /\ request'[r] = "paid"
      BY <2>1, <2>3 DEF Pay, Resume, CallOK, RequestOps, TypeOK
    <3>2. PICK l \in Lines : Post(PayKey(r), l, 0)
      BY <2>3, <3>1, PriceType, SpendKeysDiffer, SpendType DEF Pay
    <3>3. \A k \in Keys : Posted(k)' => Posted(k) \/ k = PayKey(r)
      BY <3>1, <3>2, SpendKeysDiffer, PostedBy
    <3>4. QED
      BY <3>1, <3>3, SpendKeysDiffer, DecisionsStayAlone
      DEF SpentIsDecided, Alone, DecisionStays
  <2>4. CASE ReverseTransaction(p)
    <3>1. call[p].id \in 1..Len(ledger) /\ call[p].id \in Nat
      BY <2>1, <2>4, LedgerType DEF ReverseTransaction, Resume, CallOK
    <3>2. PICK l \in Lines : Post(NoKey, l, call[p].id)
      BY <2>4, <3>1, ReversalStep
    <3>3. QED
      BY <1>2, <1>3, <3>1, <3>2
  <2>5. CASE \/ WriteEvidence(p) \/ WriteRequestRelease(p) \/ WriteReject(p)
             \/ WriteDecision(p) \/ ReleaseRefused(p) \/ PayRefused(p) \/ ReverseRefused(p)
    BY <1>4, <2>5 DEF WriteEvidence, WriteRequestRelease, WriteReject, WriteMilestone,
      WriteDecision, ReleaseRefused, PayRefused, ReverseRefused, Throw
  <2>6. QED
    BY <1>7, <2>2, <2>3, <2>4, <2>5 DEF Resumes
<1>8. QED
  BY <1>5, <1>6, <1>7, HandlerSteps

\* A spend of a handler that is alone is no replay: what it spends on is not
\* decided yet, so its money has not moved.
LEMMA InSyncStep ==
  ASSUME "ESCROW" \notin JournalAccounts, TypeOK, Alone, ProjectionInSync, [Next]_vars
  PROVE  ProjectionInSync'
<1>1. CASE UNCHANGED <<sums, balance>>
  BY <1>1 DEF ProjectionInSync, EscrowBalance
<1>2. ASSUME NEW key \in Keys \cup {NoKey}, NEW l \in Lines, NEW of \in Nat,
             Post(key, l, of), ~Replays(key),
             balance' = balance - Effect(l, "ESCROW")
      PROVE  ProjectionInSync'
  BY <1>2, PostBalance DEF ProjectionInSync
<1>3. CASE Aside
  <2>1. ASSUME NEW ref \in TopupRefs, NEW n \in TopupAmounts, Topup(ref, n)
        PROVE  ProjectionInSync'
    <3> DEFINE l == TwoLegs("CASH", "ESCROW", n)
    <3>1. /\ TopupKey(ref) \in Keys /\ n \in Nat /\ l \in Lines
          /\ Effect(l, "ESCROW") = -n
      BY TargetsAssumption, KeysType, TwoLegsType, TwoLegsEffect DEF Accounts
    <3>2. Post(TopupKey(ref), l, 0) /\ ~Replays(TopupKey(ref)) /\ balance' = balance + n
      BY <2>1 DEF Topup
    <3> HIDE DEF l
    <3>3. balance + n = balance - Effect(l, "ESCROW")
      BY <3>1 DEF TypeOK
    <3>4. QED
      BY <1>2, <3>1, <3>2, <3>3
  <2>2. ASSUME NEW dr \in JournalAccounts, NEW cr \in JournalAccounts,
               NEW n \in JournalAmounts, NEW k \in JournalAmounts, Journal(dr, cr, n, k)
        PROVE  ProjectionInSync'
    <3> DEFINE l == [dr |-> dr, cr |-> cr, debit |-> n, credit |-> k]
    <3>1. l \in Lines /\ Effect(l, "ESCROW") = 0
      BY JournalLeavesEscrow
    <3>2. Post(NoKey, l, 0) /\ balance' = balance
      BY <2>2 DEF Journal
    <3> HIDE DEF l
    <3>3. balance' = balance - Effect(l, "ESCROW") /\ ~Replays(NoKey)
      BY <3>1, <3>2 DEF TypeOK, Replays, PriorTxns
    <3>4. QED
      BY <1>2, <3>1, <3>2, <3>3
  <2>3. CASE \/ \E m \in Milestones : CreateMilestone(m)
             \/ \E r \in Requests : CreateRequest(r)
             \/ UNCHANGED vars
    BY <1>1, <2>3 DEF CreateMilestone, CreateRequest, vars
  <2>4. QED
    BY <1>3, <2>1, <2>2, <2>3 DEF Aside
<1>4. CASE \E p \in Procs : Suspends(p)
  BY <1>1, <1>4 DEF Suspends
<1>5. ASSUME NEW key \in Keys, NEW n \in Nat, SpendEscrow(key, n) \/ SpendExternal(key, n),
             ~Posted(key)
      PROVE  ProjectionInSync'
  <2>1. ~Replays(key)
    BY <1>5 DEF Posted, Replays
  <2>2. CASE SpendEscrow(key, n)
    <3> DEFINE l == TwoLegs("ESCROW", "EXPENSE", n)
    <3>1. l \in Lines /\ Effect(l, "ESCROW") = n
      BY TwoLegsType, TwoLegsEffect DEF Accounts
    <3>2. Post(key, l, 0) /\ balance' = balance - n
      BY <2>2 DEF SpendEscrow
    <3> HIDE DEF l
    <3>3. QED
      BY <1>2, <2>1, <3>1, <3>2
  <2>3. CASE SpendExternal(key, n)
    <3> DEFINE l == TwoLegs("EXPENSE", "CASH", n)
    <3>1. l \in Lines /\ Effect(l, "ESCROW") = 0
      BY TwoLegsType, TwoLegsEffect DEF Accounts
    <3>2. Post(key, l, 0) /\ balance' = balance
      BY <2>3 DEF SpendExternal
    <3> HIDE DEF l
    <3>3. balance' = balance - Effect(l, "ESCROW")
      BY <3>1, <3>2 DEF TypeOK
    <3>4. QED
      BY <1>2, <2>1, <3>1, <3>2, <3>3
  <2>4. QED
    BY <1>5, <2>2, <2>3
<1>6. ASSUME NEW p \in Procs, Resumes(p)
      PROVE  ProjectionInSync'
  <2>1. CallOK(call[p]) /\ ReadHolds(call[p]) /\ SpentIsDecided
    BY DEF TypeOK, Alone, ReadsHold
  <2>2. CASE Release(p)
    <3>1. call[p].id \in Milestones /\ milestone[call[p].id] = "release_requested"
      BY <2>1, <2>2 DEF Release, Resume, CallOK, MilestoneOps, ReadHolds
    <3>2. ~Posted(ReleaseKey(call[p].id))
      BY <2>1, <3>1 DEF SpentIsDecided
    <3>3. /\ SpendEscrow(ReleaseKey(call[p].id), Price[call[p].id])
          /\ ReleaseKey(call[p].id) \in Keys /\ Price[call[p].id] \in Nat
      BY <2>2, <3>1, PriceType, SpendKeysDiffer DEF Release
    <3>4. QED
      BY <1>5, <3>2, <3>3
  <2>3. CASE Pay(p)
    <3>1. call[p].id \in Requests /\ request[call[p].id] = "approved"
      BY <2>1, <2>3 DEF Pay, Resume, CallOK, RequestOps, StillApproved
    <3>2. ~Posted(PayKey(call[p].id))
      BY <2>1, <3>1 DEF SpentIsDecided
    <3>3. /\ \/ SpendEscrow(PayKey(call[p].id), Price[call[p].id])
             \/ SpendExternal(PayKey(call[p].id), Price[call[p].id])
          /\ PayKey(call[p].id) \in Keys /\ Price[call[p].id] \in Nat
      BY <2>3, <3>1, PriceType, SpendKeysDiffer DEF Pay
    <3>4. QED
      BY <1>5, <3>2, <3>3
  <2>4. CASE ReverseTransaction(p)
    <3>1. call[p].id \in 1..Len(ledger) /\ call[p].id \in Nat
      BY <2>1, <2>4, LedgerType DEF ReverseTransaction, Resume, CallOK
    <3>2. PICK l \in Lines : /\ Post(NoKey, l, call[p].id) /\ ~Replays(NoKey)
                             /\ balance' = balance - Effect(l, "ESCROW")
      BY <2>4, <3>1, ReversalStep
    <3>3. QED
      BY <1>2, <3>1, <3>2
  <2>5. CASE \/ WriteEvidence(p) \/ WriteRequestRelease(p) \/ WriteReject(p)
             \/ WriteDecision(p) \/ ReleaseRefused(p) \/ PayRefused(p) \/ ReverseRefused(p)
    BY <1>1, <2>5 DEF WriteEvidence, WriteRequestRelease, WriteReject, WriteMilestone,
      WriteDecision, ReleaseRefused, PayRefused, ReverseRefused, Throw
  <2>6. QED
    BY <1>6, <2>2, <2>3, <2>4, <2>5 DEF Resumes
<1>7. QED
  BY <1>3, <1>4, <1>6, HandlerSteps

\* A behaviour that serves one request at a time stays what it is.
LEMMA SerialTypes == SerialSpec => []TypeOK
<1>1. SerialInit => TypeOK
  BY InitType DEF SerialInit
<1>2. TypeOK /\ [SerialNext]_<<vars, serial>> => TypeOK'
  BY TypeStep DEF SerialNext, vars
<1>3. QED
  BY <1>1, <1>2, PTL DEF SerialSpec

LEMMA SerialIsAlone == SerialSpec => [](serial => Alone)
<1>1. SerialInit => (serial => Alone)
  <2> SUFFICES ASSUME SerialInit PROVE Alone
    OBVIOUS
  <2>1. (\A p \in Procs : call[p] = NoCall) /\ ledger = <<>>
    BY DEF SerialInit, Init, LedgerInit
  <2>2. QED
    BY <2>1 DEF Alone, OneAtATime, ReadsHold, ReadHolds, SpentIsDecided, NoCall, Posted,
      PriorTxns
<1>2. TypeOK /\ (serial => Alone) /\ [SerialNext]_<<vars, serial>> => (serial => Alone)'
  <2> SUFFICES ASSUME TypeOK, serial => Alone, [SerialNext]_<<vars, serial>>, serial'
               PROVE  Alone'
    OBVIOUS
  <2>1. serial /\ [Next]_vars
    BY DEF SerialNext, vars
  <2>2. OneAtATime'
    BY <2>1 DEF SerialNext, vars, Alone, OneAtATime
  <2>3. QED
    BY <2>1, <2>2, ReadsHoldStep, SpentStep DEF Alone
<1>3. QED
  BY <1>1, <1>2, SerialTypes, PTL DEF SerialSpec

\* While requests are served one at a time and manual journals leave the escrow
\* account alone, the stored escrow balance is what the ledger holds, after
\* any top-ups, releases, payments and reversals of reversals: "keeps the
\* stored balance consistent" (wallet/service.ts:13) is true of each helper
\* alone.
THEOREM SerialProjectionStaysInSync ==
  ASSUME "ESCROW" \notin JournalAccounts
  PROVE  SerialSpec => []SerialProjectionInSync
<1>1. SerialInit => SerialProjectionInSync
  <2> SUFFICES ASSUME SerialInit PROVE ProjectionInSync
    BY DEF SerialProjectionInSync
  <2>1. balance = 0 /\ sums["ESCROW"] = 0
    BY DEF SerialInit, Init, LedgerInit, Accounts
  <2>2. \A n \in Int : n + (-n) = 0
    OBVIOUS
  <2>3. \A n \in Int : -n \in Int
    OBVIOUS
  <2>4. sums["ESCROW"] \in Int
    BY <2>1
  <2>5. EscrowBalance \in Int /\ 0 <= EscrowBalance /\ EscrowBalance <= 0
    BY <2>1, <2>2, <2>3, <2>4 DEF EscrowBalance
  <2>6. QED
    BY <2>1, <2>5 DEF ProjectionInSync
<1>2. /\ TypeOK /\ (serial => Alone) /\ SerialProjectionInSync
      /\ [SerialNext]_<<vars, serial>>
      => SerialProjectionInSync'
  <2>1. [SerialNext]_<<vars, serial>> => [Next]_vars /\ UNCHANGED serial
    BY DEF SerialNext, vars
  <2>2. QED
    BY <2>1, InSyncStep DEF SerialProjectionInSync
<1>3. QED
  BY <1>1, <1>2, SerialTypes, SerialIsAlone, PTL DEF SerialSpec

\* While requests are served one at a time, a released milestone and a paid
\* request are never decided again (actions/money.ts, wallet/service.ts).
THEOREM SerialDecisionsStay == SerialSpec => SerialDecisionsAreFinal
<1>1. /\ TypeOK /\ (serial => Alone) /\ [SerialNext]_<<vars, serial>>
      => [serial => DecisionStays]_<<vars, serial>>
  <2>1. [SerialNext]_<<vars, serial>> => [Next]_vars
    BY DEF SerialNext, vars
  <2>2. QED
    BY <2>1, DecisionsStayAlone
<1>2. QED
  BY <1>1, SerialTypes, SerialIsAlone, PTL DEF SerialSpec, SerialDecisionsAreFinal
=============================================================================
