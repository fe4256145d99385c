SPECIFICATION Spec
CONSTANTS
  sa = sa
  sb = sb
  Symbols <- OneSymbol
  Rank <- FirstA
  Bars <- DailyDays
  Days = 3
  Capital = 20
  LotSize = 2
  Commission = 25
  MinCommission = 1
  StampTax = 6250
  Slippage = 1000
  Configs <- PlainOnly
  Off = off
INVARIANT
  NoForesight
CHECK_DEADLOCK FALSE
