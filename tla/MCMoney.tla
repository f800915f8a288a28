------------------------------ MODULE MCMoney ------------------------------
(* Small instances of Money for TLC. *)
EXTENDS Money, TLC

CONSTANTS p1, p2, i1, t1, t2, w1, w2, n1, n2, e1, ref

\* Which half of Money a behaviour moves: both keep to the same ledger, and
\* neither reads what the other writes.
VARIABLE half

mcVars == <<moneyVars, half>>

MCPrice == [x \in {} |-> 1]

\* Everything overlaps but the edit of a draft.
MCInvoiceOverlap == {InvoiceOps \ {"edit"}}

MCInit == MoneyInit /\ half \in {"invoices", "wallets"}

MCNext ==
  /\ UNCHANGED half
  /\ MoneyNext
  /\ half = "invoices" => UNCHANGED walletVars /\ UNCHANGED [w \in Wallets |-> sums[w]]
  /\ half = "wallets" => UNCHANGED <<invoiceVars, balance, rows, call>>

MCSpec == MCInit /\ [][MCNext]_mcVars

Symmetry == Permutations(Procs) \cup Permutations(Wallets)
=============================================================================
