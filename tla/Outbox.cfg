\* Two payments of one request, or an edit of a task that others edit too,
\* in up to two requests at once.
SPECIFICATION Spec
CONSTANTS
  log = log  pay = pay  pay2 = pay2  done = done  done2 = done2
  invoice = invoice  mpesa = mpesa  cash = cash  c1 = c1  c2 = c2
  NoMethod = NoMethod
  Actions = {pay, pay2, done}
  Kind <- MCKind
  Payment <- MCPayment
  Method <- MCMethod
  Calls = {c1, c2}
  MaxVersion = 2
  MaxAttempts = 0
  MaxBreaks = 1
SYMMETRY PaymentSymmetry
CONSTRAINT OneJob
INVARIANTS
  TypeOK
  PaidOnce
  OneDrainAtATime
  SyncedIsOnServer
  MarkedIsApplied
CHECK_DEADLOCK FALSE
