CONSTANTS
  stock = stock
  put = put
  Instrument = {stock, put}
  terms <- Terms
  Submission = {}
  StartingCash = 10
  CashDelta <- SellOrTopUp
  Mark = {1, 2}
  Mid = {1}
  MaxQuoteAge = 0
  NoSnapshot = NoSnapshot
  MaxLength = 6
  MaxQuantity = 1
  MaxTime = 0
SPECIFICATION Spec
INVARIANT PeakIsHighest
CHECK_DEADLOCK FALSE
