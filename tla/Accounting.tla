----------------------------- MODULE Accounting -----------------------------
(***************************************************************************)
(* What happens to one order: the risk engine of the paper workflows       *)
(* (risk/rules.py as configured in workflows/operations.py), the simulated *)
(* broker (execution/simulator.py), and apply_fill (portfolio/             *)
(* accounting.py).                                                         *)
(*                                                                         *)
(* Amounts in memory are integers of a unit in which slippage and         *)
(* commission come out exact; the Numeric(18, 6) columns of the database   *)
(* (storage/models.py) keep a whole number of digits of ColumnUnit such    *)
(* units each, and round what is written to them, every column on its own. *)
(* A position in memory is its quantity and its cost, which is avg_cost    *)
(* times the quantity; market prices only enter equity and drawdown, which *)
(* no decision of these workflows reads, and are left out.                 *)
(***************************************************************************)
EXTENDS Integers, FiniteSets

CONSTANTS
  Instruments,
  ColumnUnit,     \* what the last digit of a column is worth in memory
  RateUnit,       \* what a rate of one is written as
  SlippageRate, CommissionRate

ASSUME InstrumentsAssumption == IsFiniteSet(Instruments)
ASSUME ColumnAssumption == ColumnUnit \in Nat \ {0}
ASSUME RatesAssumption ==
  /\ RateUnit \in Nat \ {0}
  /\ SlippageRate \in 0 .. RateUnit /\ CommissionRate \in 0 .. RateUnit

(***************************************************************************)
(* A Numeric(18, 6) column: what is written to it is rounded to the        *)
(* nearest digit, and what is read is that digit again.                    *)
(***************************************************************************)
\* The integer nearest to n / d, ties away from zero.
Nearest(n, d) ==
  IF n >= 0 THEN (2 * n + d) \div (2 * d) ELSE -((d - 2 * n) \div (2 * d))

ToColumn(x)   == Nearest(x, ColumnUnit)
InMemory(col) == ColumnUnit * col

Side == {"buy", "sell"}
Fill == [side : Side, qty : Nat \ {0}, price : Nat, commission : Nat]

\* In memory; realized is the sum over the account's position rows.
Portfolio == [cash : Int, qty : [Instruments -> Nat],
              cost : [Instruments -> Int], realized : Int]

(***************************************************************************)
(* RiskEngine: the strategy is approved, the close is positive, and the    *)
(* value of the order at the close is within the limit of the run.         *)
(***************************************************************************)
RiskApproves(o, close, approved, limit) ==
  approved /\ close > 0 /\ close * o.qty <= limit

(***************************************************************************)
(* SimulatedBroker.execute_market_order.                                   *)
(***************************************************************************)
Slipped(close, side) ==
  LET slippage == (close * SlippageRate) \div RateUnit
  IN  IF side = "buy" THEN close + slippage ELSE close - slippage

ExecuteMarketOrder(o, close) ==
  LET price == Slipped(close, o.side)
  IN  [side |-> o.side, qty |-> o.qty, price |-> price,
       commission |-> (price * o.qty * CommissionRate) \div RateUnit]

\* record_fill, and the row of a backtest's fill: both columns are rounded.
RecordFill(f) ==
  [f EXCEPT !.price = ToColumn(@), !.commission = ToColumn(@)]

Notional(f) == f.price * f.qty

\* The two amounts of a fill in the cash ledger.
NotionalAmount(f)   == IF f.side = "buy" THEN -Notional(f) ELSE Notional(f)
CommissionAmount(f) == -f.commission
CashFlow(f)         == NotionalAmount(f) + CommissionAmount(f)

(***************************************************************************)
(* apply_fill: when it raises, and what it returns otherwise.              *)
(***************************************************************************)
\* Faulty variant: the commission is forgotten.
InsufficientCashForNotional(p, f) ==
  f.side = "buy" /\ Notional(f) > p.cash

InsufficientCash(p, f) ==
  f.side = "buy" /\ Notional(f) + f.commission > p.cash

Oversold(p, i, f) == f.side = "sell" /\ p.qty[i] < f.qty

\* The part of the cost of a position that goes with the shares sold.
CostOfSold(p, i, f) == (p.cost[i] * f.qty) \div p.qty[i]

\* Faulty variant: a purchase makes the position cheaper.
ApplyFillCheaper(p, i, f) ==
  IF f.side = "buy"
  THEN [p EXCEPT !.cash = @ + CashFlow(f), !.qty[i] = @ + f.qty,
                 !.cost[i] = @ + CashFlow(f)]
  ELSE [p EXCEPT !.cash = @ + CashFlow(f), !.qty[i] = @ - f.qty,
                 !.cost[i] = @ - CostOfSold(p, i, f),
                 !.realized = @ + CashFlow(f) - CostOfSold(p, i, f)]

ApplyFill(p, i, f) ==
  IF f.side = "buy"
  THEN [p EXCEPT !.cash = @ + CashFlow(f), !.qty[i] = @ + f.qty,
                 !.cost[i] = @ - CashFlow(f)]
  ELSE [p EXCEPT !.cash = @ + CashFlow(f), !.qty[i] = @ - f.qty,
                 !.cost[i] = @ - CostOfSold(p, i, f),
                 !.realized = @ + CashFlow(f) - CostOfSold(p, i, f)]
=============================================================================
