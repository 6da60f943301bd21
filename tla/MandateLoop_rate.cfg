CONSTANTS
  acme = acme
  lowCall = lowCall
  highCall = highCall
  bobPut = bobPut
  fundPut = fundPut
  Instrument = {bobPut}
  terms <- Terms
  Submission = {}
  StartingCash = 200
  CashDelta = {}
  Mark = {1}
  Mid = {}
  MaxQuoteAge = 0
  NoSnapshot = NoSnapshot
  MaxLength = 0
  MaxQuantity = 8
  MaxTime = 0
  Order <- SellPut
  Rate = 2
  Premium = 1
  CloseHeldOnly = TRUE
  Purchase = {}
  MaxTrades = 3
  MaxOutstanding = 1
SPECIFICATION LoopSpec
INVARIANT CollateralConverted
CHECK_DEADLOCK FALSE
