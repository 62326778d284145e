SPECIFICATION ReplaySpec
CONSTANTS
  Timestamps = {1, 2}
  Prices = {1, 2, 3, 4}
  Missing = Missing
  Null = Null
  NoLevels = NoLevels
  DataSets <- Data
  liquidity_shock = liquidity_shock
  adjust_for_high_asks = adjust_for_high_asks
  copy = copy
  high_ask_trigger = high_ask_trigger
  Functions <- Repository
  Effect <- Effects
  Triggers <- HighAsk
  Fires <- Firings
  Static = {shock}
  Dynamic = {dip, rally}
  MaxRegistrations = 3
  MaxRuns = 2
INVARIANTS CrossedForAReason RunsAreRepeatable
