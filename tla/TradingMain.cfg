SPECIFICATION FairSpec
CONSTANTS
  NumOrders = 3
  Quantities = {0, 1}
  Prices <- LegPrices
  TickSeries <- UpToFourTicks
  Verdicts = {TRUE, FALSE}
  Manager = Manager
  NoOrder = NoOrder
INVARIANTS ExitCodeIsTrue ExitLosesOnlyQueue CompleteMeansHedged ErrorMeansPrefix ZScoreIsBounded
PROPERTIES EndsUnlessWorkerSleeps MonitorSeesProgress
