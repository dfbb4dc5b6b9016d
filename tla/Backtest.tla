------------------------------ MODULE Backtest ------------------------------
(***************************************************************************)
(* BacktestEngine.run (backtest/engine.py): the MA cross strategy over all *)
(* stored bars of an instrument, with the simulated broker and apply_fill  *)
(* but without the risk rules.  It is one transaction that reads the bars  *)
(* once, so its result is a function of their closes (as the column has    *)
(* them).  Its portfolio stays in memory and is never rounded; the rows of *)
(* its fills are.                                                          *)
(***************************************************************************)
EXTENDS Accounting, MACross, Sequences

\* The Portfolio the run starts from.
StartingBook(cash) ==
  [cash |-> cash, qty |-> [i \in Instruments |-> 0],
   cost |-> [i \in Instruments |-> 0], realized |-> 0]

\* Faulty variant: the strategy sees the bar after the one it trades at.
RunBacktestAhead(closes, i, s, cash) ==
  LET Trade(x, n) ==
        LET intents == OnBar(s, SubSeq(closes, 1, n + 1), x.book.qty[i])
            f       == ExecuteMarketOrder(CHOOSE o \in intents : TRUE,
                                          InMemory(closes[n]))
        IN  IF intents = {} \/ InsufficientCash(x.book, f) THEN x
            ELSE [book  |-> ApplyFill(x.book, i, f),
                  fills |-> Append(x.fills, RecordFill(f))]
      after[n \in 0 .. Len(closes)] ==
        IF n = 0 THEN [book |-> StartingBook(cash), fills |-> <<>>]
        ELSE IF n = Len(closes) THEN after[n - 1] ELSE Trade(after[n - 1], n)
  IN  after[Len(closes)]

\* One iteration of the loop; closes are those of the history so far.
TradeBar(x, closes, i, s) ==
  LET intents == OnBar(s, closes, x.book.qty[i])
      f       == ExecuteMarketOrder(CHOOSE o \in intents : TRUE,
                                    InMemory(closes[Len(closes)]))
  IN  IF intents = {} \/ InsufficientCash(x.book, f) THEN x
      ELSE [book  |-> ApplyFill(x.book, i, f),
            fills |-> Append(x.fills, RecordFill(f))]

\* The portfolio and the fills after all bars.
RunBacktest(closes, i, s, cash) ==
  LET after[n \in 0 .. Len(closes)] ==
        IF n = 0 THEN [book |-> StartingBook(cash), fills |-> <<>>]
        ELSE TradeBar(after[n - 1], SubSeq(closes, 1, n), i, s)
  IN  after[Len(closes)]
=============================================================================
