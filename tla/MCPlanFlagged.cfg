SPECIFICATION FairSpec
CONSTANTS
  t1 = t1
  t2 = t2
  s1 = s1
  s2 = s2
  None = None
  Tickers <- TwoTickers
  Prices <- OnePrice
  Allocations <- FourOnly
  ManualOrders <- Nothing
  InitialCapital = 8
  Capitals <- Nothing
  FormCash <- Nothing
  Portfolios <- Nothing
  MinStockPrice = 2
  MaxPositionValue = 6
  MaxPositions = 2
  Sessions <- TwoSessions
  MaxPlans = 1
  MaxBuys = 2
  MayAbandon = FALSE
PROPERTIES NoTradeFromFlaggedPlan
CHECK_DEADLOCK FALSE
