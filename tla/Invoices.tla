------------------------------ MODULE Invoices ------------------------------
(***************************************************************************)
(* Supplier invoices (src/backend/modules/invoices/service.ts): drafted,   *)
(* edited, submitted, decided or disputed by the client, and paid through  *)
(* the spending helpers of Escrow.                                         *)
(*                                                                         *)
(* A handler reads the invoice and checks its status, awaits the role of   *)
(* the caller, and writes by id.  Only payment looks again, inside its     *)
(* transaction.  A suspended handler is bill[p].  The     *)
(* operations that may be under way together are named by InvoiceOverlap.  *)
(*                                                                         *)
(* The three-way match is not here: it warns, and the payer may overrule.  *)
(***************************************************************************)
EXTENDS Escrow

CONSTANTS
  Invoices,
  Totals,             \* totals suppliers invoice
  InvoiceOverlap      \* groups of operations that may be in flight together

InvoiceOps == {"edit", "submit", "dispute", "approve", "reject", "payWallet",
               "payExternal"}

ASSUME InvoiceAssumption ==
  /\ Totals \subseteq Nat \ {0}
  /\ InvoiceOverlap \subseteq SUBSET InvoiceOps
  /\ NoProc \notin Invoices

VARIABLES
  invoice,            \* Invoice.status
  total,              \* Invoice.total, what its lines add up to
  approved,           \* the totals its client has approved
  bill                \* per request in flight: what it is doing, what it read

invoiceVars == <<invoice, total, approved, bill>>

InvoiceStatus == {"none", "draft", "submitted", "disputed", "approved",
                  "rejected", "paid"}

NoBill == [op |-> "idle", id |-> NoProc, amount |-> 0]

InvoiceKey(i) == <<"invoice.pay", i>>

ASSUME InvoiceKeyAssumption == \A i \in Invoices : InvoiceKey(i) # NoKey

InvoiceTypeOK ==
  /\ invoice \in [Invoices -> InvoiceStatus]
  /\ total \in [Invoices -> Nat]
  /\ approved \in [Invoices -> SUBSET Nat]
  /\ \A p \in Procs : bill[p] = NoBill \/
       (bill[p].op \in InvoiceOps /\ bill[p].id \in Invoices /\ bill[p].amount \in Nat)

InvoiceInit ==
  /\ invoice = [i \in Invoices |-> "none"]
  /\ total = [i \in Invoices |-> 0]
  /\ approved = [i \in Invoices |-> {}]
  /\ bill = [p \in Procs |-> NoBill]

-----------------------------------------------------------------------------
\* createInvoice.
CreateInvoice(i, n) ==
  /\ invoice[i] = "none"
  /\ invoice' = [invoice EXCEPT ![i] = "draft"]
  /\ total' = [total EXCEPT ![i] = n]
  /\ UNCHANGED <<approved, bill>>

MayRunBeside(op, other) ==
  other = "idle" \/ \E group \in InvoiceOverlap : {op, other} \subseteq group

\* The handler of op has read invoice i, and n for what it will write.
ReadInvoice(p, op, i, n) ==
  /\ bill[p] = NoBill
  /\ \A q \in Procs : MayRunBeside(op, bill[q].op)
  /\ bill' = [bill EXCEPT ![p] =
       [op |-> op, id |-> i, amount |-> n]]
  /\ UNCHANGED <<invoice, total, approved>>

Reply(p) == bill' = [bill EXCEPT ![p] = NoBill]

\* updateInvoice of a draft: its lines are replaced, then the total is
\* written, by id.
ReadInvoiceEdit(p, i, n) == invoice[i] = "draft" /\ ReadInvoice(p, "edit", i, n)

WriteInvoiceEdit(p) ==
  /\ bill[p].op = "edit"
  /\ total' = [total EXCEPT ![bill[p].id] = bill[p].amount]
  /\ Reply(p)
  /\ UNCHANGED <<invoice, approved>>

\* submitInvoice, a dispute (updateInvoice), decideInvoice.
ReadTransition(p, i) ==
  \/ invoice[i] = "draft" /\ ReadInvoice(p, "submit", i, total[i])
  \/ /\ invoice[i] \in {"submitted", "approved"}
     /\ ReadInvoice(p, "dispute", i, total[i])
  \/ /\ invoice[i] \in {"submitted", "disputed"}
     /\ \E op \in {"approve", "reject"} : ReadInvoice(p, op, i, total[i])

StatusAfter(op) == CASE op = "submit" -> "submitted" [] op = "dispute" -> "disputed"
                     [] op = "approve" -> "approved" [] op = "reject" -> "rejected"

\* Written by id, whatever the invoice has become.  What the client approved
\* is the total the handler read.
WriteTransition(p) ==
  LET b == bill[p] IN
  /\ b.op \in {"submit", "dispute", "approve", "reject"}
  /\ invoice' = [invoice EXCEPT ![b.id] = StatusAfter(b.op)]
  /\ approved' = IF b.op = "approve" THEN [approved EXCEPT ![b.id] = @ \cup {b.amount}]
                                     ELSE approved
  /\ Reply(p)
  /\ UNCHANGED total

-----------------------------------------------------------------------------
\* payInvoice: read and gate, then the provider's synchronous success ...
ReadInvoicePay(p, i) ==
  /\ invoice[i] = "approved"
  /\ \E op \in {"payWallet", "payExternal"} : ReadInvoice(p, op, i, total[i])

\* ... then one transaction that looks at the invoice again.
StillPayable(i) == invoice[i] = "approved"

\* fault: the row of the payment is not looked for.
InvoiceRowsAlways(t) == Append(rows, t)

InvoiceRows(t) == RowsWith(t)

PayInvoice(p) ==
  LET i == bill[p].id IN
  /\ \/ bill[p].op = "payWallet"   /\ SpendEscrow(InvoiceKey(i), total[i])
     \/ bill[p].op = "payExternal" /\ SpendExternal(InvoiceKey(i), total[i])
  /\ StillPayable(i)
  /\ rows' = InvoiceRows(TxnId(InvoiceKey(i)))
  /\ invoice' = [invoice EXCEPT ![i] = "paid"]
  /\ Reply(p)
  /\ UNCHANGED <<total, approved, milestone, request, paidRow, call>>

PayInvoiceRefused(p) ==
  LET i == bill[p].id IN
  /\ \/ bill[p].op = "payWallet" /\ ~(StillPayable(i) /\ CanSpendEscrow(total[i]))
     \/ bill[p].op = "payExternal" /\ ~StillPayable(i)
  /\ Reply(p)
  /\ UNCHANGED <<invoice, total, approved>>

\* The steps that leave the money alone, and the one that does not.
InvoiceStep ==
  \/ \E i \in Invoices, n \in Totals : CreateInvoice(i, n)
  \/ \E p \in Procs :
       \/ \E i \in Invoices : \/ \E n \in Totals : ReadInvoiceEdit(p, i, n)
                              \/ ReadTransition(p, i) \/ ReadInvoicePay(p, i)
       \/ WriteInvoiceEdit(p)
       \/ WriteTransition(p) \/ PayInvoiceRefused(p)

-----------------------------------------------------------------------------
\* What was paid for an invoice is a total its client approved, and it was
\* paid once: one ledger transaction, one row - also when the invoice was
\* disputed while its payment was out, approved again and paid again.
PaidAsApproved ==
  \A i \in Invoices :
    /\ invoice[i] = "paid" => PriorTxns(InvoiceKey(i)) # {}
    /\ \A t \in PriorTxns(InvoiceKey(i)) :
         /\ ledger[t].debit \in approved[i]
         /\ \E k \in DOMAIN rows : rows[k] = t
         /\ \A j, k \in DOMAIN rows : rows[j] = t /\ rows[k] = t => j = k
=============================================================================
