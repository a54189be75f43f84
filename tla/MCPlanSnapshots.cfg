SPECIFICATION FairSpec
CONSTANTS
  t1 = t1
  t2 = t2
  s1 = s1
  s2 = s2
  None = None
  Tickers <- OneTicker
  Prices <- OnePrice
  Allocations <- FourOnly
  ManualOrders <- FourOnly
  InitialCapital = 8
  Capitals <- EightOnly
  FormCash <- CashForms
  Portfolios <- TwoHoldings
  MinStockPrice = 2
  MaxPositionValue = 6
  MaxPositions = 3
  Sessions <- TwoSessions
  MaxPlans = 1
  MaxBuys = 0
  MayAbandon = FALSE
INVARIANTS ExitClosesReviewedLot
PROPERTIES ExecutionStartsOnPlannedBook ClaimsSettle
CHECK_DEADLOCK FALSE
