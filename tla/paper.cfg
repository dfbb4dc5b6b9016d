\* Two ticks at a time, of two runs with different order sizes, on one account
\* and two instruments with a history of two bars each.
CONSTANTS
  i1 = i1
  i2 = i2
  Instruments <- MCInstruments
  Accounts = {"a"}
  t1 = t1
  t2 = t2
  Tickers   <- MCTickers
  r1 = r1
  r2 = r2
  Runs      <- MCRuns
  Config    <- MCConfig
  MaxOrderValue <- MCMaxOrderValue
  ColumnUnit = 100
  RateUnit = 10
  SlippageRate = 1
  CommissionRate = 1
  InitialCash = 97049
  Dates = {3, 4, 5}
  Closes = {203, 307}
  MaxStores = 3
  History <- MCTwoBars
SPECIFICATION Spec
SYMMETRY MCSymmetry
CHECK_DEADLOCK FALSE
INVARIANTS TypeOK LedgerChains NeverOverdrawn BooksBalance HoldingsMatchFills DateProcessedOnce NoPyramid AgreesWithBacktest
