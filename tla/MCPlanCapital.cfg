SPECIFICATION Spec
CONSTANTS
  t1 = t1
  t2 = t2
  s1 = s1
  s2 = s2
  None = None
  Tickers <- OneTicker
  Prices <- OnePrice
  Allocations <- FourOnly
  ManualOrders <- Nothing
  InitialCapital = 8
  Capitals <- TwelveOnly
  FormCash <- CashForms
  Portfolios <- OneHolding
  MinStockPrice = 2
  MaxPositionValue = 6
  MaxPositions = 2
  Sessions <- TwoSessions
  MaxPlans = 1
  MaxBuys = 0
  MayAbandon = FALSE
INVARIANTS FreshPlanHasLedgerCapital
CHECK_DEADLOCK FALSE
