CONSTANTS
  acme = acme
  lowCall = lowCall
  highCall = highCall
  bobPut = bobPut
  fundPut = fundPut
  Instrument = {acme, fundPut}
  terms <- Terms
  Submission = {}
  StartingCash = 100
  CashDelta = {}
  Mark = {1}
  Mid = {}
  MaxQuoteAge = 0
  NoSnapshot = NoSnapshot
  MaxLength = 0
  MaxQuantity = 70
  MaxTime = 0
  Order <- SellFundPut
  Rate = 1
  Premium = 1
  CloseHeldOnly = TRUE
  Purchase = {70}
  MaxTrades = 2
  MaxOutstanding = 1
SPECIFICATION LoopSpec
INVARIANT NoNakedShort
CHECK_DEADLOCK FALSE
