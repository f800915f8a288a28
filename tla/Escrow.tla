------------------------------- MODULE Escrow -------------------------------
(***************************************************************************)
(* The money flows of one project: escrow top-ups, milestone releases,     *)
(* payment requests, reversals and manual journals                         *)
(* (src/backend/actions/money.ts, src/backend/modules/wallet/service.ts),  *)
(* over the posting core of Ledger.                                        *)
(*                                                                         *)
(* One Node process serves every request, and requests interleave at each  *)
(* await.  A handler that reads a row and later writes it is therefore two *)
(* actions: the read, which checks the status it saw, and the write, which *)
(* for most handlers trusts that reading.  A db.$transaction is one action *)
(* (SQLite serialises writers); when a check inside it throws, the call    *)
(* ends and nothing has changed.                                           *)
(***************************************************************************)
EXTENDS Ledger

CONSTANTS
  Procs,              \* requests that can be in flight at once
  NoProc,             \* no target (an idle request)
  Milestones,
  Requests,           \* payment requests
  Price,              \* the amount of each milestone and request
  TopupRefs,          \* references top-ups are made (and retried) with
  TopupAmounts,
  JournalAccounts,    \* accounts finance names in manual journals
  JournalAmounts      \* amounts finance types in them, balanced or not

ASSUME TargetsAssumption ==
  /\ Milestones \cap Requests = {}
  /\ Price \in [Milestones \cup Requests -> Nat \ {0}]
  /\ TopupAmounts \subseteq Nat \ {0}
  /\ JournalAccounts \subseteq Accounts
  /\ JournalAmounts \subseteq Nat

TopupKey(ref)  == <<"escrow.topup", ref>>
ReleaseKey(m)  == <<"milestone.release", m>>
PayKey(r)      == <<"payment.request", r>>

Keys == {TopupKey(ref) : ref \in TopupRefs}
          \cup {ReleaseKey(m) : m \in Milestones}
          \cup {PayKey(r) : r \in Requests}

ASSUME NoKeyAssumption == NoKey \notin Keys

VARIABLES
  milestone,          \* Milestone.status
  request,            \* PaymentRequest.status
  paidRow,            \* PaymentRequest.paidTxnId: a position of rows, 0 for null
  balance,            \* EscrowWallet.balance, the projection
  rows,               \* Transaction rows: the ledger transaction each links to
  call                \* per request in flight: what it is doing, what it read

vars == <<ledger, sums, milestone, request, paidRow, balance, rows, call>>

-----------------------------------------------------------------------------
MilestoneStatus == {"none", "locked", "evidence_submitted",
                    "release_requested", "released", "rejected"}

RequestStatus == {"none", "pending", "approved", "rejected", "paid"}

MilestoneOps == {"evidence", "requestRelease", "approve", "reject"}
RequestOps   == {"approveRequest", "rejectRequest", "payWallet", "payExternal"}
Ops == MilestoneOps \cup RequestOps \cup {"idle", "reverse"}

Txn == [key : Keys \cup {NoKey}, dr : Accounts, cr : Accounts, debit : Nat,
        credit : Nat, reverses : Nat, status : {"posted", "reversed"}]

NoCall == [op |-> "idle", id |-> NoProc, seen |-> "none"]

\* A call names a target of the kind its operation works on.
CallOK(c) ==
  /\ c = [op |-> c.op, id |-> c.id, seen |-> c.seen]
  /\ c.op \in Ops
  /\ c.op \in MilestoneOps => c.id \in Milestones
  /\ c.op \in RequestOps => c.id \in Requests
  /\ c.op = "reverse" =>
       c.id \in 1..Len(ledger) /\ c.seen \in {"posted", "reversed"}

TypeOK ==
  /\ ledger \in Seq(Txn)
  /\ sums \in [Accounts -> Int]
  /\ milestone \in [Milestones -> MilestoneStatus]
  /\ request \in [Requests -> RequestStatus]
  /\ paidRow \in [Requests -> Nat]
  /\ balance \in Int
  /\ rows \in Seq(1..Len(ledger))
  /\ DOMAIN call = Procs
  /\ \A p \in Procs : CallOK(call[p])

Init ==
  /\ LedgerInit
  /\ milestone = [m \in Milestones |-> "none"]
  /\ request = [r \in Requests |-> "none"]
  /\ paidRow = [r \in Requests |-> 0]
  /\ balance = 0
  /\ rows = <<>>
  /\ call = [p \in Procs |-> NoCall]

-----------------------------------------------------------------------------
(* The two halves of a handler: what it read, and its answer.              *)

Suspend(p, op, id, seen) ==
  /\ call[p].op = "idle"
  /\ call' = [call EXCEPT ![p] = [op |-> op, id |-> id, seen |-> seen]]

Resume(p, op) == call[p].op = op

Answer(p) == call' = [call EXCEPT ![p] = NoCall]

\* A check of a db.$transaction threw: everything it did is rolled back.
Throw(p) ==
  /\ Answer(p)
  /\ UNCHANGED <<ledger, sums, milestone, request, paidRow, balance, rows>>

\* fault: a row is created without looking for the one that is there.
RowsWithDuplicate(t) == Append(rows, t)

\* The Transaction rows once ledger transaction t has one.
RowsWith(t) ==
  IF \E k \in DOMAIN rows : rows[k] = t THEN rows ELSE Append(rows, t)

\* fault: the newest row is taken for the payment's own.
RowOfNewest(rs, t) == Len(rs)

\* The row of ledger transaction t, in rs.
RowOf(rs, t) == CHOOSE k \in DOMAIN rs : rs[k] = t

-----------------------------------------------------------------------------
(* Spending (the two helpers every payment goes through).                  *)

\* fault: the balance is not checked inside the transaction.
CanSpendUnchecked(amount) == TRUE

\* spendEscrowInTx checks the projection, not the ledger.
CanSpendEscrow(amount) == balance >= amount

SpendEscrow(key, amount) ==
  /\ CanSpendEscrow(amount)
  /\ Post(key, TwoLegs("ESCROW", "EXPENSE", amount), 0)
  /\ balance' = balance - amount

SpendExternal(key, amount) ==
  /\ Post(key, TwoLegs("EXPENSE", "CASH", amount), 0)
  /\ UNCHANGED balance

-----------------------------------------------------------------------------
(* Top-ups and journals: one transaction, no reading before it.            *)

\* fault: the projection is incremented on a replay too.
TopupOnReplay(ref, amount) ==
  /\ Post(TopupKey(ref), TwoLegs("CASH", "ESCROW", amount), 0)
  /\ balance' = balance + amount
  /\ UNCHANGED <<milestone, request, paidRow, rows, call>>

\* postEscrowTopup: a retry with the same reference changes nothing.
Topup(ref, amount) ==
  /\ ~Replays(TopupKey(ref))
  /\ Post(TopupKey(ref), TwoLegs("CASH", "ESCROW", amount), 0)
  /\ balance' = balance + amount
  /\ UNCHANGED <<milestone, request, paidRow, rows, call>>

\* postJournal: legs as typed; validateLines refuses the unbalanced ones.
Journal(dr, cr, debit, credit) ==
  /\ Post(NoKey, [dr |-> dr, cr |-> cr, debit |-> debit, credit |-> credit], 0)
  /\ UNCHANGED <<milestone, request, paidRow, balance, rows, call>>

-----------------------------------------------------------------------------
(* Milestones: locked -> evidence_submitted -> release_requested ->        *)
(* released | rejected.                                                    *)

CreateMilestone(m) ==
  /\ milestone[m] = "none"
  /\ milestone' = [milestone EXCEPT ![m] = "locked"]
  /\ UNCHANGED <<ledger, sums, request, paidRow, balance, rows, call>>

\* fault: the status is not looked at.
ReadMilestoneUnchecked(p, m, op, expected) ==
  /\ Suspend(p, op, m, milestone[m])
  /\ UNCHANGED <<ledger, sums, milestone, request, paidRow, balance, rows>>

ReadMilestone(p, m, op, expected) ==
  /\ milestone[m] \in expected
  /\ Suspend(p, op, m, milestone[m])
  /\ UNCHANGED <<ledger, sums, milestone, request, paidRow, balance, rows>>

WriteMilestone(p, op, status) ==
  /\ Resume(p, op)
  /\ milestone' = [milestone EXCEPT ![call[p].id] = status]
  /\ Answer(p)
  /\ UNCHANGED <<ledger, sums, request, paidRow, balance, rows>>

ReadEvidence(p, m) ==
  ReadMilestone(p, m, "evidence", {"locked", "evidence_submitted"})
WriteEvidence(p) == WriteMilestone(p, "evidence", "evidence_submitted")

ReadRequestRelease(p, m) ==
  ReadMilestone(p, m, "requestRelease", {"evidence_submitted"})
WriteRequestRelease(p) ==
  WriteMilestone(p, "requestRelease", "release_requested")

ReadApprove(p, m) == ReadMilestone(p, m, "approve", {"release_requested"})
ReadReject(p, m)  == ReadMilestone(p, m, "reject", {"release_requested"})
WriteReject(p)    == WriteMilestone(p, "reject", "rejected")

\* releaseMilestoneAtomic: status, escrow spend and Transaction row at once.
Release(p) ==
  /\ Resume(p, "approve")
  /\ LET m == call[p].id IN
       /\ milestone' = [milestone EXCEPT ![m] = "released"]
       /\ SpendEscrow(ReleaseKey(m), Price[m])
       /\ rows' = RowsWith(TxnId(ReleaseKey(m)))
  /\ Answer(p)
  /\ UNCHANGED <<request, paidRow>>

ReleaseRefused(p) ==
  /\ Resume(p, "approve")
  /\ ~CanSpendEscrow(Price[call[p].id])
  /\ Throw(p)

-----------------------------------------------------------------------------
(* Payment requests: pending -> approved | rejected, approved -> paid.     *)

CreateRequest(r) ==
  /\ request[r] = "none"
  /\ request' = [request EXCEPT ![r] = "pending"]
  /\ UNCHANGED <<ledger, sums, milestone, paidRow, balance, rows, call>>

ReadRequest(p, r, op, expected) ==
  /\ request[r] = expected
  /\ Suspend(p, op, r, request[r])
  /\ UNCHANGED <<ledger, sums, milestone, request, paidRow, balance, rows>>

ReadDecision(p, r) ==
  \E op \in {"approveRequest", "rejectRequest"} : ReadRequest(p, r, op, "pending")

\* decidePaymentRequest writes the decision without looking again.
WriteDecision(p) ==
  /\ \/ /\ Resume(p, "approveRequest")
        /\ request' = [request EXCEPT ![call[p].id] = "approved"]
     \/ /\ Resume(p, "rejectRequest")
        /\ request' = [request EXCEPT ![call[p].id] = "rejected"]
  /\ Answer(p)
  /\ UNCHANGED <<ledger, sums, milestone, paidRow, balance, rows>>

\* payPaymentRequest up to the provider's synchronous success.
ReadPay(p, r) ==
  \E op \in {"payWallet", "payExternal"} : ReadRequest(p, r, op, "approved")

\* ... and its transaction, which looks at the status again.
StillApproved(r) == request[r] = "approved"

Pay(p) ==
  LET r == call[p].id IN
  /\ \/ Resume(p, "payWallet")   /\ SpendEscrow(PayKey(r), Price[r])
     \/ Resume(p, "payExternal") /\ SpendExternal(PayKey(r), Price[r])
  /\ StillApproved(r)
  /\ rows' = RowsWith(TxnId(PayKey(r)))
  /\ request' = [request EXCEPT ![r] = "paid"]
  /\ paidRow' = [paidRow EXCEPT ![r] = RowOf(rows', TxnId(PayKey(r)))]
  /\ Answer(p)
  /\ UNCHANGED milestone

PayRefused(p) ==
  LET r == call[p].id IN
  /\ \/ Resume(p, "payWallet") /\ ~CanSpendEscrow(Price[r])
     \/ Resume(p, "payWallet") /\ ~StillApproved(r)
     \/ Resume(p, "payExternal") /\ ~StillApproved(r)
  /\ Throw(p)

-----------------------------------------------------------------------------
(* Reversals: any Transaction row that links to a ledger transaction.      *)

ReadReversal(p, k) ==
  /\ Suspend(p, "reverse", rows[k], ledger[rows[k]].status)
  /\ UNCHANGED <<ledger, sums, milestone, request, paidRow, balance, rows>>

\* fault: the ledger is mirrored and the projection is left alone.
RestoreNothing(l) == UNCHANGED balance

\* The projection moves by the negated escrow effect of the original legs.
RestoreProjection(l) == balance' = balance - Effect(l, "ESCROW")

\* reverseTransaction: mirrored post, projection restore and compensating
\* row in one transaction; the status it checks is the one it read before.
ReverseTransaction(p) ==
  LET t == call[p].id
      l == Mirrored(ledger[t])
  IN
  /\ Resume(p, "reverse")
  /\ call[p].seen # "reversed"
  /\ Post(NoKey, l, t)
  /\ RestoreProjection(l)
  /\ rows' = RowsWith(TxnId(NoKey))
  /\ Answer(p)
  /\ UNCHANGED <<milestone, request, paidRow>>

ReverseRefused(p) ==
  /\ Resume(p, "reverse")
  /\ call[p].seen = "reversed" \/ ~MayReverse(call[p].id)
  /\ Throw(p)

-----------------------------------------------------------------------------
Next ==
  \/ \E ref \in TopupRefs, amount \in TopupAmounts : Topup(ref, amount)
  \/ \E dr, cr \in JournalAccounts, debit, credit \in JournalAmounts :
       Journal(dr, cr, debit, credit)
  \/ \E m \in Milestones : CreateMilestone(m)
  \/ \E r \in Requests : CreateRequest(r)
  \/ \E p \in Procs :
       \/ \E m \in Milestones :
            \/ ReadEvidence(p, m)
            \/ ReadRequestRelease(p, m)
            \/ ReadApprove(p, m)
            \/ ReadReject(p, m)
       \/ WriteEvidence(p)
       \/ WriteRequestRelease(p)
       \/ WriteReject(p)
       \/ Release(p)
       \/ ReleaseRefused(p)
       \/ \E r \in Requests : ReadDecision(p, r) \/ ReadPay(p, r)
       \/ WriteDecision(p)
       \/ Pay(p)
       \/ PayRefused(p)
       \/ \E k \in DOMAIN rows : ReadReversal(p, k)
       \/ ReverseTransaction(p)
       \/ ReverseRefused(p)

Spec == Init /\ [][Next]_vars

-----------------------------------------------------------------------------
(* Properties.                                                             *)

Posted(key) == PriorTxns(key) # {}

\* A release, a payment or a reversal: what the reports count as spending.
Reported(t) ==
  \/ t.reverses # 0
  \/ \E m \in Milestones : t.key = ReleaseKey(m)
  \/ \E r \in Requests : t.key = PayKey(r)

\* The ledger, seen as the append-only book it promises to be.
Entry(t) == [key |-> t.key, dr |-> t.dr, cr |-> t.cr, debit |-> t.debit,
             credit |-> t.credit, reverses |-> t.reverses]
BookOf(L) == [i \in DOMAIN L |-> Entry(L[i])]
Book == BookOf(ledger)
Corrected == {i \in DOMAIN ledger : ledger[i].status = "reversed"}

Promise == INSTANCE AppendOnlyLedger WITH book <- Book, corrected <- Corrected

\* However requests interleave, the ledger keeps its promise: balanced,
\* append-only, one transaction per idempotency key, one reversal per
\* transaction - although reverseTransaction checks a status it read before
\* its transaction, and two approvals of one milestone may both get through.
LedgerPromise == Promise!Spec

\* The stored escrow balance never exceeds what the ledger holds, so what
\* spendEscrowInTx lets through is money the project has.  (It needs the
\* manual journals to leave the escrow account alone.)
ProjectionBacked == balance <= EscrowBalance

\* A spend never overdraws the ledger's escrow account, though it checks the
\* projection only, and though another spend may have committed since its
\* handler read the request.
SpendsAreBacked ==
  [][ \A i \in DOMAIN ledger' \ DOMAIN ledger :
        ledger'[i].dr = "ESCROW" /\ ledger'[i].reverses = 0
          => EscrowBalance' >= 0 ]_vars

\* Only the reversal of a reversal, which checks no balance, can drive the
\* ledger's escrow account below zero.
EscrowSolvent ==
  EscrowBalance < 0 =>
    \E i \in DOMAIN ledger : ledger[i].reverses # 0 /\ ledger[i].dr = "ESCROW"

\* A milestone that reads released and a request that reads paid have their
\* money on the ledger, and the request names the row of exactly that
\* transaction - also when its payment was a replay.
DecisionsHaveMoney ==
  /\ \A m \in Milestones : milestone[m] = "released" => Posted(ReleaseKey(m))
  /\ \A r \in Requests : request[r] = "paid" =>
       /\ paidRow[r] \in DOMAIN rows
       /\ rows[paidRow[r]] \in PriorTxns(PayKey(r))

\* The Transaction rows the reports add up name each release, payment and
\* reversal of the ledger exactly once, and nothing else.
RowsMatchLedger ==
  /\ \A j, k \in DOMAIN rows : rows[j] = rows[k] => j = k
  /\ {rows[k] : k \in DOMAIN rows} = {i \in DOMAIN ledger : Reported(ledger[i])}

\* The projection equals the ledger's escrow balance.  Holds of requests
\* served one at a time; two approvals in flight, or a journal, break it.
ProjectionInSync == balance = EscrowBalance

\* Released milestones stay released and paid requests stay paid.  Holds of
\* requests served one at a time; a late decision breaks it.
DecisionStays ==
  /\ \A m \in Milestones :
       milestone[m] = "released" => milestone'[m] = "released"
  /\ \A r \in Requests : request[r] = "paid" => request'[r] = "paid"

DecisionsAreFinal == [][DecisionStays]_vars
=============================================================================
