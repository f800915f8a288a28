\* Procurement, the site store, variation orders, the limits on hits and
\* logins, the ledger tables and the invoice match, each by itself.
SPECIFICATION MCSpec
CONSTANTS
  p1 = p1  p2 = p2  p3 = p3  r1 = r1  o1 = o1  o2 = o2  d1 = d1  d2 = d2  d3 = d3
  NoTarget = NoTarget
  Procs = {p1, p2}
  Requests = {r1}
  Orders = {o1, o2}
  Deliveries = {d1, d2}
  Requesters = {"contractor", "client"}
  MaxLines = 2
  Bands <- MCBands
  MaxCrashes = 1
  Overlap <- MCClaims
  NoLevel = NoLevel
  Items = {cement, steel}
  Counts = {count1}
  Quantities = {1}
  Levels = {1}
  MaxMoves = 4
  VariationOrders = {v1, v2}
  Deciders = {q1}
  NoVariation = NoVariation
  Impacts <- MCImpacts
  Budget = 100
  Spends = {45, 60}
  MaxSpent = 210
  Buckets = {b1}
  Limit = 2
  Window = 3
  MaxTicks = 8
  Emails = {e1}
  Sources = {s1, s2}
  Anywhere = Anywhere
  NoTracker = NoTracker
  Logins = {l1, l2}
  FailureLimit = 2
  LockTicks = 2
  MaxTime = 6
  TxnIds = {t1, t2}
  LegIds = {g1, g2, g3}
  Facts = {f1, f2}
  Amounts = {0, 1}
  Goods = {n1, n2}
  FeeNames = {n3}
  Qtys = {1, 2}
  MaxOrderLines = 2
  MaxBilled = 2
  MaxDeliveries = 2
SYMMETRY Symmetry
INVARIANTS
  BackOfficeTypeOK
  CancelledNeverStocked
  
  
  BookExplained
  LowIsAnnounced
  
  BurstIsBounded
  GuessesAreBounded
  RecordsBalance
  MatchIsRight
PROPERTIES
  
  LockIsKept
  HistoryIsFixed
CHECK_DEADLOCK FALSE
