------------------------------- MODULE Ledger -------------------------------
(***************************************************************************)
(* The posting core of src/backend/modules/ledger/service.ts together with *)
(* the triggers of migration 14 that guard its tables.  Every operator     *)
(* here runs inside a transaction its caller owns: the money flows that    *)
(* call them are the actions of Escrow.                                    *)
(*                                                                         *)
(* A transaction has one debit leg and one credit leg, which is what every *)
(* caller but the manual journal posts; a journal of more legs is          *)
(* represented by its two-leg case.  "pending" is not a state another      *)
(* request can see: the row is born pending and posted in one database     *)
(* transaction.                                                            *)
(*                                                                         *)
(* A definition marked "fault" is its neighbour with a plausible bug.  No  *)
(* specification uses it: it is there to show that the properties notice.  *)
(***************************************************************************)
EXTENDS Integers, Sequences

CONSTANTS
  NoKey,              \* a posting without an idempotency key
  Wallets,            \* wallets, each with a liability account of its own
  MaxTxns             \* bound: transactions a behaviour may post

ASSUME MaxTxnsAssumption == MaxTxns \in Nat

VARIABLES
  ledger,             \* LedgerTransaction rows with their legs, oldest first
  sums                \* per account, the SQL sum of its debits - credits

ledgerVars == <<ledger, sums>>

-----------------------------------------------------------------------------
(* The chart of accounts of one project.  The two cash pools (M-Pesa and   *)
(* bank) are one account here: no flow of the module tells them apart.  A  *)
(* wallet stands for its account WALLET:<code>.                            *)

Accounts == {"CASH", "ESCROW", "EXPENSE"} \cup Wallets

Lines == [dr : Accounts, cr : Accounts, debit : Nat, credit : Nat]

TwoLegs(dr, cr, amount) ==
  [dr |-> dr, cr |-> cr, debit |-> amount, credit |-> amount]

\* validateLines, and the posting gate of migration 14 behind it.
ValidLines(l) == l.debit > 0 /\ l.credit > 0 /\ l.debit = l.credit

\* The legs of the reversal of a transaction.
Mirrored(t) ==
  [dr |-> t.cr, cr |-> t.dr, debit |-> t.credit, credit |-> t.debit]

\* How much legs l move account a, debits counted positive.
Effect(l, a) ==
  (IF l.dr = a THEN l.debit ELSE 0) - (IF l.cr = a THEN l.credit ELSE 0)

-----------------------------------------------------------------------------
\* The transactions an idempotency-key lookup finds.
PriorTxns(key) ==
  {i \in DOMAIN ledger : key # NoKey /\ ledger[i].key = key}

Replays(key) == PriorTxns(key) # {}

\* fault: a replay answers as if it had posted.
TxnIdNew(key) == Len(ledger) + 1

\* The id a posting under key answers with: the prior one, else a new one.
TxnId(key) ==
  IF Replays(key) THEN CHOOSE i \in PriorTxns(key) : TRUE ELSE Len(ledger) + 1

\* fault: the database lets a row be marked reversed twice.
MayReverseAgain(of) == TRUE

\* The update guard of migration 14: only a posted row may become reversed.
MayReverse(of) == ledger[of].status = "posted"

\* The ledger rows once transaction of (0: none) is marked reversed.
MarkReversed(of) ==
  [i \in DOMAIN ledger |->
     IF i = of THEN [ledger[i] EXCEPT !.status = "reversed"] ELSE ledger[i]]

NewTxn(key, l, of) ==
  [key |-> key, dr |-> l.dr, cr |-> l.cr, debit |-> l.debit,
   credit |-> l.credit, reverses |-> of, status |-> "posted"]

\* postLedgerTransactionInTx: a prior transaction with the key is answered
\* again, anything else is posted (and its original, if any, marked).
Post(key, l, of) ==
  /\ ValidLines(l)
  /\ IF Replays(key)
       THEN UNCHANGED ledgerVars
       ELSE /\ Len(ledger) < MaxTxns
            /\ of # 0 => MayReverse(of)
            /\ ledger' = Append(MarkReversed(of), NewTxn(key, l, of))
            /\ sums' = [a \in Accounts |-> sums[a] + Effect(l, a)]

LedgerInit ==
  /\ ledger = <<>>
  /\ sums = [a \in Accounts |-> 0]

\* derivedBalance of a liability account: credits - debits.
EscrowBalance == - sums["ESCROW"]
=============================================================================
