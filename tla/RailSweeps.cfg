\* One push, its callback missed or not, two faults.
SPECIFICATION FairSpec
CONSTANTS
  j1 = j1  j2 = j2  d1 = d1  d2 = d2  r1 = r1  k1 = k1  k2 = k2  p1 = p1  p2 = p2
  a1 = a1  a2 = a2  h1 = h1  s1 = s1  s2 = s2
  NoRow = NoRow  NoRequest = NoRequest  NoDrain = NoDrain  NoCheckout = NoCheckout
  Rows = {j1, j2}
  Drains = {d1}
  MaxAttempts = 2
  Requests = {r1}
  Checkouts = {k1}
  Payers = {p1}
  Deciders = {a1}
  Handlers = {h1}
  Sweeps = {s1, s2}
  MaxProbe = 1
  MaxFaults = 2
CHECK_DEADLOCK FALSE
INVARIANTS
  MarkedIsPosted
  ChainHolds
PROPERTIES
  MissedCallbackSettles
