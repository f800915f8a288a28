\* Two requests in flight over one milestone and one payment request; and
\* one at a time, with manual journals.
SPECIFICATION MCSpec
CONSTANTS
  m1 = m1  r1 = r1  p1 = p1  p2 = p2  t1 = t1
  NoKey = NoKey
  NoProc = NoProc
  Wallets = {}
  Procs = {p1, p2}
  Milestones = {m1}
  Requests = {r1}
  Price <- MCPrice
  TopupRefs = {t1}
  TopupAmounts = {2, 4}
  JournalAccounts = {"CASH", "EXPENSE"}
  JournalAmounts = {1, 2}
  MaxTxns = 5
  MaxSerialTxns = 4
SYMMETRY Symmetry
INVARIANTS
  TypeOK
  ProjectionBacked
  DecisionsHaveMoney
  
  SerialProjectionInSync
PROPERTIES
  LedgerPromise
  SpendsAreBacked
  SerialDecisionsAreFinal
CHECK_DEADLOCK FALSE
