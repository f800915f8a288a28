------------------------------- MODULE Money -------------------------------
(***************************************************************************)
(* Everything that posts to the ledger of a project, at once: the escrow   *)
(* flows, invoices and wallets share one ledger, one escrow projection and *)
(* one table of Transaction rows.                                          *)
(***************************************************************************)
EXTENDS Invoices, Wallets

moneyVars == <<vars, invoiceVars, walletVars>>

MoneyTypeOK == InvoiceTypeOK /\ WalletTypeOK

MoneyInit == Init /\ InvoiceInit /\ WalletInit

MoneyNext ==
  \/ Next /\ UNCHANGED <<invoiceVars, walletVars>>
  \/ InvoiceStep /\ UNCHANGED <<vars, walletVars>>
  \/ \E p \in Procs : PayInvoice(p) /\ UNCHANGED walletVars
  \/ /\ WalletStep
     /\ UNCHANGED <<invoiceVars, milestone, request, paidRow, balance, rows, call>>

MoneySpec == MoneyInit /\ [][MoneyNext]_moneyVars

-----------------------------------------------------------------------------
\* What the reports of a project with invoices count as spending.
IsSpending(t) == Reported(t) \/ \E i \in Invoices : t.key = InvoiceKey(i)

\* The Transaction rows the reports add up name each release, payment of a
\* request or an invoice, and reversal of either exactly once, and nothing
\* else - although wallets, top-ups and journals post to the same ledger, a
\* payment may be a replay.
SpendingIsReported ==
  /\ \A j, k \in DOMAIN rows : rows[j] = rows[k] => j = k
  /\ {rows[k] : k \in DOMAIN rows} = {i \in DOMAIN ledger : IsSpending(ledger[i])}
=============================================================================
