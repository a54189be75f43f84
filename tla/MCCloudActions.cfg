SPECIFICATION Spec
CONSTANTS
  None = None
  a1 = a1
  a2 = a2
  r1 = r1
  w1 = w1
  w2 = w2
  k1 = k1
  k2 = k2
  t1 = t1
  t2 = t2
  Accounts <- OneAccount
  Requests <- OneRequest
  Writers <- OneWriter
  Keys <- TwoKeys
  Tickers <- TwoTickers
  Quantities <- OneOrTwo
  Proposals <- Both
  Forms <- AllForms
  Fine = 2
  MinStockPrice = 5
  PurchaseCap = 16
  MaxPortfolios = 1
  MaxVersion = 3
  MaxPlans = 2
SYMMETRY KeySwaps
CHECK_DEADLOCK FALSE
INVARIANTS TypeOK CurrentPlanMatchesAccount RecordedOnce ShownSnapshotIsCurrent
PROPERTIES VersionNamesBook PurchaseFitsCapacity ActionConservesBasis
