CONSTANTS
  stock = stock
  put = put
  Instrument = {stock, put}
  terms <- Terms
  Submission <- OneSubmission
  StartingCash = 10
  CashDelta <- SellOrTopUp
  Mark = {0, 7}
  Mid = {2}
  MaxQuoteAge = 0
  NoSnapshot = NoSnapshot
  MaxLength = 8
  MaxQuantity = 1
  MaxTime = 1
SPECIFICATION Spec
INVARIANT TypeOK
PROPERTY RecordedPeakKept
CHECK_DEADLOCK FALSE
