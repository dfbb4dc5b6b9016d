---------------------------- MODULE PaperTrading ----------------------------
(***************************************************************************)
(* Paper trading (paper/engine.py, paper/repositories.py): accounts, runs  *)
(* of the MA cross strategy on them, and run_one_tick, which several API   *)
(* requests and workers may execute at once, while bars are being stored.  *)
(*                                                                         *)
(* A tick is one transaction.  It locks the row of the run, then the row   *)
(* of the account (SELECT ... FOR UPDATE, as PostgreSQL executes it),      *)
(* reads the bars, the positions and the last cash_after, and commits      *)
(* orders, fills, ledger rows, positions, the snapshot and                 *)
(* last_processed_at together, or nothing.  The tables hold amounts as     *)
(* their columns round them; a tick works with what it read of them, in    *)
(* the unit of memory.                                                     *)
(***************************************************************************)
EXTENDS Accounting, MACross, Sums, SequencesExt

CONSTANTS
  Accounts, Runs,
  Tickers,      \* requests and jobs that execute a tick
  Config,       \* strategy_config of each run
  MaxOrderValue,  \* of the risk_config of each run
  InitialCash,  \* of every account
  Dates, Closes,  \* of the bars that may be stored
  History,      \* the bars of each instrument when trading begins
  MaxStores     \* bound on the number of bars stored or corrected

ASSUME RunsAssumption  == IsFiniteSet(Runs)
ASSUME ConfigAssumption ==
  /\ Config \in [Runs -> Strategy] /\ MaxOrderValue \in [Runs -> Nat \ {0}]
ASSUME CashAssumption  == InitialCash \in Nat \ {0}
ASSUME BarsAssumption  == Dates \subseteq Nat \ {0} /\ Closes \subseteq Nat
ASSUME HistoryAssumption ==
  /\ History \in [Instruments -> Seq([at : Nat \ {0}, close : Nat])]
  /\ \A i \in Instruments : \A m, n \in DOMAIN History[i] :
       m < n => History[i][m].at <= History[i][n].at
ASSUME BoundAssumption == MaxStores \in Nat

VARIABLES
  bars,       \* what list_bars returns for each instrument
  stores,     \* number of times a bar was stored or corrected
  run,        \* paper_runs
  ledger,     \* cash_ledger of each account, in order of the ids
  position,   \* paper_positions: quantity and avg_cost
  realized,   \* paper_positions.realized_pnl
  orders,     \* paper_orders of each run, each with its fill
  snapshots,  \* dates of the portfolio_snapshots of each run
  tick        \* the ticks in progress

market  == <<bars, stores>>
account == <<ledger, position, realized>>
journal == <<orders, snapshots>>
vars    == <<market, account, journal, run, tick>>

None == "none"

Bar      == [at : Nat \ {0}, close : Nat]
Run      == [account : Accounts, instrument : Instruments, last : Nat]
Entry    == [amount : Int, after : Int]
\* fill: the row the order got, or would have got.
Order    == [at : Nat, status : {"filled", "skipped", "risk_rejected"},
             fill : Fill]
Position == [qty : [Instruments -> Nat], avg : [Instruments -> Nat]]

\* last: last_processed_at as read, 0 when it is NULL.
Tick == [pc : {"idle", "run", "account", "bars", "portfolio"},
         run : Runs \cup {None}, last : Nat, bars : Seq(Bar), book : Portfolio]

NoBook == [cash |-> 0, qty |-> [i \in Instruments |-> 0],
           cost |-> [i \in Instruments |-> 0], realized |-> 0]
NoTick == [pc |-> "idle", run |-> None, last |-> 0, bars |-> <<>>,
           book |-> NoBook]

LatestCash(a) == Last(ledger[a]).after

\* The cost of what a row of paper_positions holds, at its avg_cost.
HeldCost(p) == [i \in Instruments |-> p.qty[i] * InMemory(p.avg[i])]

NoRun      == [account |-> None, instrument |-> None, last |-> 0]
Started(r) == run[r] # NoRun

\* The row locks of the transactions in progress.
RunLocked(r) == \E t \in Tickers : tick[t].pc # "idle" /\ tick[t].run = r
AccountLocked(a) ==
  \E t \in Tickers : /\ tick[t].pc \in {"account", "bars", "portfolio"}
                     /\ run[tick[t].run].account = a

Init ==
  /\ bars      = History
  /\ stores    = 0
  /\ run       = [r \in Runs |-> NoRun]
  /\ ledger    = [a \in Accounts |-> <<>>]
  /\ position  = [a \in Accounts |-> [qty |-> NoBook.qty, avg |-> NoBook.cost]]
  /\ realized  = [a \in Accounts |-> [i \in Instruments |-> 0]]
  /\ orders    = [r \in Runs |-> <<>>]
  /\ snapshots = [r \in Runs |-> <<>>]
  /\ tick      = [t \in Tickers |-> NoTick]

-----------------------------------------------------------------------------
(***************************************************************************)
(* MarketDataRepository.upsert_daily_bar, by a sync or an import.  Bars of *)
(* another source or adjustment may share their date with others; the      *)
(* order of list_bars among them is arbitrary.                             *)
(***************************************************************************)
StoreBar(i, b) ==
  /\ stores < MaxStores
  /\ stores' = stores + 1
  /\ \E k \in 1 .. Len(bars[i]) + 1 :
       /\ \A n \in 1 .. Len(bars[i]) :
            IF n < k THEN bars[i][n].at <= b.at ELSE b.at <= bars[i][n].at
       /\ bars' = [bars EXCEPT ![i] = InsertAt(@, k, b)]
  /\ UNCHANGED <<account, journal, run, tick>>

\* The row that is rewritten may also change places with one of its date.
CorrectBar(i, k, c) ==
  /\ stores < MaxStores
  /\ stores' = stores + 1
  /\ k \in DOMAIN bars[i]
  /\ \E m \in DOMAIN bars[i] :
       /\ bars[i][m].at = bars[i][k].at
       /\ bars' = [bars EXCEPT ![i][k].close = bars[i][m].close,
                              ![i][m].close = c]
  /\ UNCHANGED <<account, journal, run, tick>>

(***************************************************************************)
(* create_account and start_run.                                           *)
(***************************************************************************)
CreateAccount(a) ==
  /\ ledger[a] = <<>>
  /\ ledger' = [ledger EXCEPT ![a] =
                  <<[amount |-> ToColumn(InitialCash),
                    after  |-> ToColumn(InitialCash)]>>]
  /\ UNCHANGED <<market, position, realized, journal, run, tick>>

StartRun(r, a, i) ==
  /\ ~Started(r)
  /\ ledger[a] # <<>> /\ ~AccountLocked(a)
  /\ run' = [run EXCEPT ![r] = [account |-> a, instrument |-> i, last |-> 0]]
  /\ UNCHANGED <<market, account, journal, tick>>

(***************************************************************************)
(* run_one_tick.                                                           *)
(***************************************************************************)
\* Faulty variant: the run is read without FOR UPDATE.
LoadRunUnlocked(t, r) ==
  /\ tick[t].pc = "idle"
  /\ Started(r)
  /\ tick' = [tick EXCEPT ![t].pc = "run", ![t].run = r, ![t].last = run[r].last]
  /\ UNCHANGED <<market, account, journal, run>>

LoadRun(t, r) ==
  /\ tick[t].pc = "idle"
  /\ Started(r) /\ ~RunLocked(r)
  /\ tick' = [tick EXCEPT ![t].pc = "run", ![t].run = r, ![t].last = run[r].last]
  /\ UNCHANGED <<market, account, journal, run>>

\* Faulty variant: the account is read without FOR UPDATE.
LoadAccountUnlocked(t) ==
  /\ tick[t].pc = "run"
  /\ tick' = [tick EXCEPT ![t].pc = "account"]
  /\ UNCHANGED <<market, account, journal, run>>

LoadAccount(t) ==
  /\ tick[t].pc = "run"
  /\ ~AccountLocked(run[tick[t].run].account)
  /\ tick' = [tick EXCEPT ![t].pc = "account"]
  /\ UNCHANGED <<market, account, journal, run>>

\* No bars: it raises.  The latest one was processed: it returns.
ListBars(t) ==
  LET b == bars[run[tick[t].run].instrument]
  IN  /\ tick[t].pc = "account"
      /\ tick' = [tick EXCEPT ![t] =
                    IF b = <<>> \/ @.last = Last(b).at THEN NoTick
                    ELSE [@ EXCEPT !.pc = "bars", !.bars = b]]
      /\ UNCHANGED <<market, account, journal, run>>

LoadPortfolio(t) ==
  LET a == run[tick[t].run].account
  IN  /\ tick[t].pc = "bars"
      /\ tick' = [tick EXCEPT
           ![t].pc   = "portfolio",
           ![t].book = [cash     |-> InMemory(LatestCash(a)),
                        qty      |-> position[a].qty,
                        cost     |-> HeldCost(position[a]),
                        realized |-> InMemory(SumOver(realized[a]))]]
      /\ UNCHANGED <<market, account, journal, run>>

\* The status an intent ends with; apply_fill raises if shares are missing.
OrderStatus(book, i, o, close, limit) ==
  LET f == ExecuteMarketOrder(o, close)
  IN  IF ~RiskApproves(o, close, TRUE, limit) THEN "risk_rejected"
      ELSE IF InsufficientCash(book, f) THEN "skipped"
      ELSE IF Oversold(book, i, f) THEN "raises"
      ELSE "filled"

\* _append_fill_cash_ledger: one row for the notional, one for the commission.
LedgerRows(cash, f) ==
  <<[amount |-> ToColumn(NotionalAmount(f)),
     after  |-> ToColumn(cash + NotionalAmount(f))],
    [amount |-> ToColumn(CommissionAmount(f)),
     after  |-> ToColumn(cash + CashFlow(f))]>>

\* avg_cost of what the book holds; a row left with nothing keeps its own.
AverageCosts(a, book) ==
  [j \in Instruments |->
     IF book.qty[j] = 0 THEN position[a].avg[j]
     ELSE Nearest(book.cost[j], book.qty[j] * ColumnUnit)]

\* Faulty variant: the change is taken against the row of i alone.
UpsertPositionsOwnRow(a, i, book) ==
  /\ position' = [position EXCEPT ![a] = [qty |-> book.qty,
                                         avg |-> AverageCosts(a, book)]]
  /\ realized' = [realized EXCEPT ![a][i] = ToColumn(book.realized)]

\* upsert_positions: the change of the realized profit goes to instrument i.
UpsertPositions(a, i, book) ==
  /\ position' = [position EXCEPT ![a] = [qty |-> book.qty,
                                         avg |-> AverageCosts(a, book)]]
  /\ realized' = [realized EXCEPT
       ![a][i] = ToColumn(InMemory(@) + book.realized
                            - InMemory(SumOver(realized[a])))]

RunTick(t) ==
  LET x      == tick[t]
      r      == x.run
      a      == run[r].account
      i      == run[r].instrument
      latest == Last(x.bars)
      closes == [n \in DOMAIN x.bars |-> x.bars[n].close]
      Done(os, rows, book) ==
        /\ orders' = [orders EXCEPT ![r] = @ \o os]
        /\ ledger' = [ledger EXCEPT ![a] = @ \o rows]
        /\ UpsertPositions(a, i, book)
  IN
  /\ x.pc = "portfolio"
  /\ \/ /\ OnBar(Config[r], closes, x.book.qty[i]) = {}
        /\ Done(<<>>, <<>>, x.book)
     \/ \E o \in OnBar(Config[r], closes, x.book.qty[i]) :
          LET close == InMemory(latest.close)
              f == ExecuteMarketOrder(o, close)
              s == OrderStatus(x.book, i, o, close, MaxOrderValue[r])
              order == [at |-> latest.at, status |-> s, fill |-> RecordFill(f)]
          IN  \/ /\ s \in {"risk_rejected", "skipped"}
                 /\ Done(<<order>>, <<>>, x.book)
              \/ /\ s = "filled"
                 /\ Done(<<order>>, LedgerRows(x.book.cash, f),
                         ApplyFill(x.book, i, f))
  /\ snapshots' = [snapshots EXCEPT ![r] = Append(@, latest.at)]
  /\ run' = [run EXCEPT ![r].last = latest.at]
  /\ tick' = [tick EXCEPT ![t] = NoTick]
  /\ UNCHANGED market

\* An exception or a crash: the transaction is rolled back.
AbortTick(t) ==
  /\ tick[t].pc # "idle"
  /\ tick' = [tick EXCEPT ![t] = NoTick]
  /\ UNCHANGED <<market, account, journal, run>>

TickStep(t) ==
  LoadAccount(t) \/ ListBars(t) \/ LoadPortfolio(t) \/ RunTick(t)

Next ==
  \/ \E i \in Instruments, d \in Dates, c \in Closes :
       StoreBar(i, [at |-> d, close |-> c])
  \/ \E i \in Instruments, c \in Closes :
       \E k \in DOMAIN bars[i] : CorrectBar(i, k, c)
  \/ \E a \in Accounts : CreateAccount(a)
  \/ \E r \in Runs, a \in Accounts, i \in Instruments : StartRun(r, a, i)
  \/ \E t \in Tickers, r \in Runs : LoadRun(t, r)
  \/ \E t \in Tickers : TickStep(t) \/ AbortTick(t)

Spec == Init /\ [][Next]_vars

-----------------------------------------------------------------------------
TypeOK ==
  /\ bars      \in [Instruments -> Seq(Bar)]
  /\ stores    \in 0 .. MaxStores
  /\ run       \in [Runs -> Run \cup {NoRun}]
  /\ ledger    \in [Accounts -> Seq(Entry)]
  /\ position  \in [Accounts -> Position]
  /\ realized  \in [Accounts -> [Instruments -> Int]]
  /\ orders    \in [Runs -> Seq(Order)]
  /\ snapshots \in [Runs -> Seq(Nat)]
  /\ tick      \in [Tickers -> Tick]

Abs(x) == IF x < 0 THEN -x ELSE x

(***************************************************************************)
(* The cash ledger of an account is a chain: every row's cash_after is the *)
(* one of the row before plus its own amount, to the last digit of the     *)
(* columns, each of which is rounded on its own, although cash_after is    *)
(* computed from a balance read earlier in the transaction.                *)
(***************************************************************************)
LedgerChains ==
  \A a \in Accounts : \A n \in DOMAIN ledger[a] :
    IF n = 1 THEN ledger[a][n].after = ledger[a][n].amount
    ELSE Abs(ledger[a][n].after - ledger[a][n - 1].after
               - ledger[a][n].amount) <= 1

(***************************************************************************)
(* No row of the ledger shows a negative balance: a buy is filled only if  *)
(* the cash there is covers it with its commission.                        *)
(***************************************************************************)
NeverOverdrawn ==
  \A a \in Accounts : \A n \in DOMAIN ledger[a] : ledger[a][n].after >= 0

(***************************************************************************)
(* The shares an account holds are those its fills bought less those they  *)
(* sold, whichever runs the fills belong to.                               *)
(***************************************************************************)
Shares(o) == IF o.status # "filled" THEN 0
             ELSE IF o.fill.side = "buy" THEN o.fill.qty ELSE -o.fill.qty

Traded(r) == SumOver([n \in DOMAIN orders[r] |-> Shares(orders[r][n])])

RunsOn(a, i) == {r \in Runs : Started(r) /\ run[r].account = a
                                         /\ run[r].instrument = i}

HoldingsMatchFills ==
  \A a \in Accounts, i \in Instruments :
    position[a].qty[i] = SumOver([r \in RunsOn(a, i) |-> Traded(r)])

(***************************************************************************)
(* The books balance against the fills, to half a digit for each amount    *)
(* that is rounded and each share of a rounded price or avg_cost: an       *)
(* account's cash is its deposit and the flow of the fills of its runs;    *)
(* and for every instrument the realized profit less the cost of what is   *)
(* held is the flow of the fills on that instrument alone.                 *)
(***************************************************************************)
Flow(o)  == IF o.status = "filled" THEN CashFlow(o.fill) ELSE 0
Slack(o) == IF o.status = "filled" THEN 2 * o.fill.qty + 1 ELSE 0

FlowOf(r)  == SumOver([n \in DOMAIN orders[r] |-> Flow(orders[r][n])])
SlackOf(r) == SumOver([n \in DOMAIN orders[r] |-> Slack(orders[r][n])])

RunsOf(a) == {r \in Runs : Started(r) /\ run[r].account = a}

BooksBalance ==
  \A a \in Accounts : ledger[a] # <<>> =>
    /\ 2 * Abs(LatestCash(a) - ledger[a][1].amount
                 - SumOver([r \in RunsOf(a) |-> FlowOf(r)]))
         <= SumOver([r \in RunsOf(a) |-> SlackOf(r)])
    /\ \A i \in Instruments :
         2 * Abs(realized[a][i] - position[a].qty[i] * position[a].avg[i]
                   - SumOver([r \in RunsOn(a, i) |-> FlowOf(r)]))
           <= SumOver([r \in RunsOn(a, i) |-> SlackOf(r)])

(***************************************************************************)
(* A run processes a date at most once and never goes back, however many   *)
(* ticks race and whatever bars arrive late: its snapshots have increasing *)
(* dates, and at most one order was made on each of them.                  *)
(***************************************************************************)
DateProcessedOnce ==
  \A r \in Runs :
    /\ \A n \in 2 .. Len(snapshots[r]) : snapshots[r][n - 1] < snapshots[r][n]
    /\ \A m, n \in DOMAIN orders[r] :
         m < n => orders[r][m].at < orders[r][n].at

(***************************************************************************)
(* The runs of an account never pyramid: a position is what one order of   *)
(* one of them bought, also when several trade the same instrument.        *)
(***************************************************************************)
NoPyramid ==
  \A a \in Accounts, i \in Instruments :
    position[a].qty[i] \in {0} \cup
      {Config[r].size : r \in RunsOf(a)}
=============================================================================
