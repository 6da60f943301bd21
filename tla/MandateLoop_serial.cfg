CONSTANTS
  acme = acme
  lowCall = lowCall
  highCall = highCall
  bobPut = bobPut
  fundPut = fundPut
  Instrument = {acme, lowCall, highCall, bobPut}
  terms <- Terms
  Submission = {}
  StartingCash = 100
  CashDelta = {}
  Mark = {1, 5}
  Mid = {}
  MaxQuoteAge = 0
  NoSnapshot = NoSnapshot
  MaxLength = 0
  MaxQuantity = 8
  MaxTime = 0
  Order <- OpenAndClose
  Rate = 1
  Premium = 1
  CloseHeldOnly = TRUE
  Purchase = {4}
  MaxTrades = 4
  MaxOutstanding = 1
SPECIFICATION LoopSpec
INVARIANTS
  LoopTypeOK
  ApprovedImportable
  CoverWithinFraction
  PeakIsHighest
PROPERTY DrawdownStopsNewRisk
CHECK_DEADLOCK FALSE
