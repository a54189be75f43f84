SPECIFICATION LedgerSpec
CONSTANTS
  t1 = t1
  t2 = t2
  Tickers <- MCTickers
  Prices <- MCPrices
  Allocations <- MCAllocations
  InitialCapital = 8
  Capitals <- MCCapitals
  FormCash <- MCFormCash
  Portfolios <- MCPortfolios
  MinStockPrice = 2
  MaxPositionValue = 6
  MaxPositions = 3
INVARIANTS LedgerTypeOK PreviewPredictsAudit CloseNeverRefused EquityIdentity
PROPERTIES OnlyShortLossOverdraws HistoryKept
CHECK_DEADLOCK FALSE
