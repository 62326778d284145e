SPECIFICATION UnitsSpec
CONSTANTS
  Traders = {t1, t2}
  Capital = 100
  Sizes = {3, 6}
  Volatilities = {80, 120}
  PnLChanges <- Changes
  MaxPnL = 6
  Quantities <- UpToTwo
  Prices <- DivisiblePrices
  MaxFills = 4
  Regimes = {calm, trending, volatile}
  MaxGenerators = 3
  MaxRuns = 2
  MaxUpdates = 2
  MaxChanges = 5
INVARIANTS AlertMeansBreach NoAllClearAfterBreach ValueReadIsNetCost BooksAgreeUntilReduced VotesAreCurrent ConfidenceIsOfTheDirection
PROPERTIES BreachIsAlerted FailureIsNoticed
