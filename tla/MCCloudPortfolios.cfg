SPECIFICATION Spec
CONSTANTS
  None = None
  a1 = a1
  a2 = a2
  r1 = r1
  w1 = w1
  w2 = w2
  k1 = k1
  k2 = k2
  t1 = t1
  t2 = t2
  Accounts <- TwoAccounts
  Requests <- OneRequest
  Writers <- OneWriter
  Keys <- TwoKeys
  Tickers <- OneTicker
  Quantities <- OneOnly
  Proposals <- BuyOnly
  Forms <- EmptyForm
  Fine = 2
  MinStockPrice = 5
  PurchaseCap = 16
  MaxPortfolios = 2
  MaxVersion = 2
  MaxPlans = 3
SYMMETRY KeySwaps
CHECK_DEADLOCK FALSE
PROPERTIES AccountsAreSeparate ImplementsOffers
