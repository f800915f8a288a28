\* README.md:94: what is queued is synced on reconnect.
SPECIFICATION Spec
CONSTANTS
  log = log  pay = pay  pay2 = pay2  done = done  done2 = done2
  invoice = invoice  mpesa = mpesa  cash = cash  c1 = c1  c2 = c2
  NoMethod = NoMethod
  Actions = {log}
  Kind <- MCKind
  Payment <- MCPayment
  Method <- MCMethod
  Calls = {c1}
  MaxVersion = 1
  MaxAttempts = 0
  MaxBreaks = 1
PROPERTIES
  ReconnectSyncs
