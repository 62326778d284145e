SPECIFICATION FairSpec
CONSTANTS
  A = A
  B = B
  Feeds = {f1, f2}
  Symbols = {A, B}
  OrderKinds <- Kinds
  Quotes <- Ticks
  Latency = 1
  BadQty = BadQty
  BadPrice = BadPrice
  None = None
  MaxOrders = 2
  MaxTicks = 2
  MaxTime = 1
INVARIANTS OrdersLeaveOnceInOrder PositionsMatchTrades LogMatchesTrades LatencyHonouredUnlessFeedsOverlap
PROPERTY LockIsReleased
