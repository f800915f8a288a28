\* A driver leg, read before a receipt and written after it.
SPECIFICATION Spec
CONSTANTS
  p1 = p1  p2 = p2  p3 = p3  r1 = r1  o1 = o1  o2 = o2  d1 = d1  d2 = d2  d3 = d3
  NoTarget = NoTarget
  Procs = {p1, p2}
  Requests = {r1}
  Orders = {o1}
  Deliveries = {d1}
  Requesters = {"contractor", "client"}
  MaxLines = 2
  Bands <- MCBands
  MaxCrashes = 0
  Overlap <- MCAll
SYMMETRY Symmetry
INVARIANT StockedOnce
CHECK_DEADLOCK FALSE
