\* One invoice paid from the escrow account or outside it, and two wallets.
SPECIFICATION MCSpec
CONSTANTS
  p1 = p1  p2 = p2  i1 = i1  t1 = t1  t2 = t2  w1 = w1  w2 = w2
  n1 = n1  n2 = n2  e1 = e1  ref = ref
  NoKey = NoKey
  NoProc = NoProc
  NoReference = NoReference
  Procs = {p1, p2}
  Milestones = {}
  Requests = {}
  Price <- MCPrice
  TopupRefs = {t1}
  TopupAmounts = {2}
  JournalAccounts = {}
  JournalAmounts = {}
  MaxTxns = 4
  Wallets = {w1, w2}
  DepositRefs = {ref}
  WalletAmounts = {1, 2}
  Notes = {n1}
  Invoices = {i1}
  Totals = {1, 2}
  InvoiceOverlap <- MCInvoiceOverlap
SYMMETRY Symmetry
INVARIANTS
  
  WalletsSolvent
  NoRefusalAfterMoving
  
PROPERTIES
  LedgerPromise
CHECK_DEADLOCK FALSE
