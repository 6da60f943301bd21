CONSTANTS
  share = share
  optionOnShare = optionOnShare
  Instrument = {share, optionOnShare}
  Share = share
  Option = optionOnShare
  NoInstrument = NoInstrument
  NoDate = NoDate
  NoCalendar = NoCalendar
  StartingCash = 450
  Strike = 100
  Multiplier = 2
  Expiry = 1
  SaleFloor = {100, 101}
  Premium = 2
  DayLength = 4
  CloseAt = 2
  Instants = {0, 4, 5, 6, 7, 12}
  Sessions = {0, 1, 3, 4, 5}
  Calendar <- Calendars
  Spot = {98, 99, 101, 102}
  Spread = 1
  Extrinsic = {2, 6}
  Dividend = {0, 4}
  Secured = TRUE
  Altered = FALSE
  MaxFills = 3
  MaxInterrupts = 1
SPECIFICATION Spec
INVARIANTS
  TypeOK
  SettledSolvent
  AssignmentsSettle
  BasisBounded
  EffectiveIsNextSession
  CleanReconcile
CHECK_DEADLOCK FALSE
