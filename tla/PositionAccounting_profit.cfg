SPECIFICATION Spec
CONSTANTS
  Quantities <- UpToTwo
  Prices <- DivisiblePrices
  MaxFills = 4
INVARIANT RealizedIsProfit
