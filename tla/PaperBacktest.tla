---------------------------- MODULE PaperBacktest ---------------------------
(***************************************************************************)
(* Paper trading beside backtests of the same strategy: the two engines    *)
(* share on_bar, the broker and apply_fill but have loops of their own,    *)
(* one in memory over all bars, one persisted and resumed at every tick.   *)
(***************************************************************************)
EXTENDS PaperTrading, Backtest

\* No stored bar was corrected.
Uncorrected ==
  stores = SumOver([i \in Instruments |-> Len(bars[i]) - Len(History[i])])

\* The run was ticked once after each of the bars there are, in their order, but
\* for the first of its history, on which the strategy cannot act.
FollowedEveryBar(r) ==
  LET b == bars[run[r].instrument]
      h == History[run[r].instrument]
  IN  /\ \A n \in 2 .. Len(b) : b[n - 1].at < b[n].at
      /\ \E k \in 0 .. Config[r].long :
           /\ k <= Len(h) /\ k <= Len(b) /\ \A n \in 1 .. k : b[n] = h[n]
           /\ snapshots[r] = [n \in 1 .. Len(b) - k |-> b[n + k].at]

AloneOnAccount(r) ==
  \A q \in Runs \ {r} : Started(q) => run[q].account # run[r].account

NothingRejected(r) ==
  \A n \in DOMAIN orders[r] : orders[r][n].status # "risk_rejected"

\* The fills of the orders that were filled.
FillsIn(os) ==
  LET fills[n \in 0 .. Len(os)] ==
        IF n = 0 THEN <<>>
        ELSE IF os[n].status = "filled" THEN Append(fills[n - 1], os[n].fill)
        ELSE fills[n - 1]
  IN  fills[Len(os)]

\* Half a digit for the deposit and for each fill is how far rounding may have
\* taken the balance.
CashSlack(fills) == ColumnUnit * (1 + Len(fills))

\* Every purchase the backtest met was covered by its cash, or was not, by more
\* than that.
NoCloseCall(closes, i, s, cash) ==
  \A n \in DOMAIN closes :
    LET before == RunBacktest(SubSeq(closes, 1, n - 1), i, s, cash)
    IN  \A o \in OnBar(s, SubSeq(closes, 1, n), before.book.qty[i]) :
          o.side = "buy" =>
            2 * Abs(before.book.cash
                      + CashFlow(ExecuteMarketOrder(o, InMemory(closes[n]))))
              > CashSlack(before.fills)

\* Half a digit for the amount and for the avg_cost of each share sold.
SaleSlack(fills) ==
  ColumnUnit * SumOver([n \in DOMAIN fills |->
    IF fills[n].side = "sell" THEN fills[n].qty + 1 ELSE 0])

(***************************************************************************)
(* A paper run that was ticked after every bar, alone on its account and   *)
(* without a rejection by the risk rules, has recorded the fills of a      *)
(* backtest over the same bars, although a tick decides on a balance that  *)
(* went through the columns of the database and the backtest on one that   *)
(* did not, unless one of those decisions is closer than the rounding.     *)
(* Its account then holds the shares of the backtest's portfolio, and its  *)
(* cash, cost and realized profit are the backtest's up to half a digit    *)
(* for each amount and each share that was rounded.                        *)
(***************************************************************************)
AgreesWithBacktest ==
  \A r \in Runs :
    LET a == run[r].account
        i == run[r].instrument
        closes == [n \in DOMAIN bars[i] |-> bars[i][n].close]
        result == RunBacktest(closes, i, Config[r], InitialCash)
        book   == result.book
    IN  Started(r) /\ Uncorrected /\ FollowedEveryBar(r)
          /\ AloneOnAccount(r) /\ NothingRejected(r)
          /\ NoCloseCall(closes, i, Config[r], InitialCash)
        => /\ FillsIn(orders[r]) = result.fills
           /\ position[a].qty = book.qty
           /\ 2 * Abs(InMemory(LatestCash(a)) - book.cash)
                <= CashSlack(result.fills)
           /\ \A j \in Instruments :
                2 * Abs(HeldCost(position[a])[j] - book.cost[j])
                  <= ColumnUnit * book.qty[j]
           /\ 2 * Abs(InMemory(SumOver(realized[a])) - book.realized)
                <= SaleSlack(result.fills)
=============================================================================
