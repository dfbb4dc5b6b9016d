------------------------- MODULE PaperTradingProofs --------------------------
(***************************************************************************)
(* Proofs about PaperTrading, for every set of accounts, runs, tickers and *)
(* instruments, every history of bars, and any number of bars stored.      *)
(* The first part is about locks, dates and cash; the second adds costs,   *)
(* profits and holdings, whose sums InductionTheorems reasons about.       *)
(***************************************************************************)
EXTENDS PaperTrading, InductionTheorems, SequenceTheorems, TLAPS

-----------------------------------------------------------------------------
(***************************************************************************)
(* The types of the first part: all but costs and realized profits.        *)
(***************************************************************************)
Pcs     == {"idle", "run", "account", "bars", "portfolio"}
Holding == {"account", "bars", "portfolio"}

TickTyped(x) ==
  /\ DOMAIN x = {"pc", "run", "last", "bars", "book"}
  /\ DOMAIN x.book = {"cash", "qty", "cost", "realized"}
  /\ x.pc \in Pcs
  /\ x.last \in Nat /\ x.bars \in Seq(Bar)
  /\ x.book.cash \in Int /\ x.book.qty \in [Instruments -> Nat]
  /\ x.pc # "idle" => x.run \in Runs

TypeInv ==
  /\ bars \in [Instruments -> Seq(Bar)]
  /\ run \in [Runs -> Run \cup {NoRun}]
  /\ ledger \in [Accounts -> Seq(Entry)]
  /\ DOMAIN position = Accounts
  /\ \A a \in Accounts : position[a].qty \in [Instruments -> Nat]
  /\ orders \in [Runs -> Seq(Order)]
  /\ snapshots \in [Runs -> Seq(Nat)]
  /\ DOMAIN tick = Tickers
  /\ \A t \in Tickers : TickTyped(tick[t])

(***************************************************************************)
(* The locks: a tick in progress is the only one of its run, the only one  *)
(* of its account once it has locked that, and what it has read is what    *)
(* the rows still say.                                                     *)
(***************************************************************************)
AccountOf(x) == run[x.run].account

Alone ==
  \A t, u \in Tickers : t # u /\ tick[t].pc # "idle" /\ tick[u].pc # "idle" =>
    /\ tick[t].run # tick[u].run
    /\ tick[t].pc \in Holding /\ tick[u].pc \in Holding
         => AccountOf(tick[t]) # AccountOf(tick[u])

\* Bars may have been stored since a tick read them, but none deleted.
Behind(x) ==
  LET now == bars[run[x.run].instrument]
  IN  now # <<>> /\ Last(x.bars).at <= Last(now).at

Fresh(x) ==
  x.pc # "idle" =>
    /\ Started(x.run) /\ x.last = run[x.run].last
    /\ x.pc \in {"bars", "portfolio"} =>
         x.bars # <<>> /\ x.last < Last(x.bars).at /\ Behind(x)
    /\ x.pc = "portfolio" =>
         /\ x.book.cash = InMemory(LatestCash(AccountOf(x)))
         /\ x.book.qty = position[AccountOf(x)].qty

LockInv ==
  /\ Alone
  /\ \A t \in Tickers : Fresh(tick[t])
  /\ \A r \in Runs : Started(r) => ledger[run[r].account] # <<>>

(***************************************************************************)
(* The history of a run is before last_processed_at, which is not after    *)
(* the latest of its bars.                                                 *)
(***************************************************************************)
Sorted(s) == \A m, n \in DOMAIN s : m < n => s[m].at <= s[n].at

DateInv ==
  /\ \A i \in Instruments : Sorted(bars[i])
  /\ \A r \in Runs : Started(r) /\ run[r].last # 0 =>
       /\ bars[run[r].instrument] # <<>>
       /\ run[r].last <= Last(bars[run[r].instrument]).at
  /\ \A r \in Runs : \A n \in DOMAIN snapshots[r] : snapshots[r][n] <= run[r].last
  /\ \A r \in Runs : \A n \in DOMAIN orders[r] : orders[r][n].at <= run[r].last
  /\ DateProcessedOnce

IInv == /\ TypeInv /\ LockInv /\ DateInv
        /\ LedgerChains /\ NeverOverdrawn /\ NoPyramid

-----------------------------------------------------------------------------
(***************************************************************************)
(* Division, and what is rounded with it.                                  *)
(***************************************************************************)
LEMMA DivBounds ==
  ASSUME NEW n \in Nat, NEW d \in Nat \ {0}
  PROVE  n \div d \in Nat /\ n \div d <= n
<1>1. n = d * (n \div d) + (n % d) /\ n % d \in 0 .. d - 1 /\ n \div d \in Int
  OBVIOUS
<1>2. n \div d >= 0
  BY <1>1
<1>. QED
  BY <1>1, <1>2

(***************************************************************************)
(* Rounding: the nearest whole number of digits is half a digit away.      *)
(***************************************************************************)
\* x is s/2 from y at most.
Near(x, y, s) == 2 * (x - y) <= s /\ 2 * (y - x) <= s

LEMMA RoundUp ==
  ASSUME NEW n \in Nat, NEW d \in Nat \ {0}, NEW q, q = (2 * n + d) \div (2 * d)
  PROVE  q \in Nat /\ Near(d * q, n, d)
<1>. DEFINE e == 2 * d
            m == 2 * n + d
            r == m % e
<1>1. e \in Nat \ {0} /\ m \in Nat
  OBVIOUS
<1>2. q \in Nat
  BY <1>1, DivBounds
<1>. HIDE DEF e, m
<1>3. m = e * (m \div e) + r /\ r \in 0 .. e - 1
  BY <1>1
<1>4. q = m \div e
  BY DEF e, m
<1>5. m = e * q + r
  BY <1>3, <1>4
<1>6. e * q = 2 * (d * q) /\ d * q \in Int
  BY <1>2 DEF e
<1>. HIDE DEF r
<1>7. 2 * n + d = 2 * (d * q) + r /\ r \in 0 .. 2 * d - 1
  BY <1>3, <1>5, <1>6 DEF e, m
<1>. QED
  BY <1>2, <1>6, <1>7 DEF Near

LEMMA NearestBounds ==
  ASSUME NEW n \in Int, NEW d \in Nat \ {0}
  PROVE  /\ Nearest(n, d) \in Int
         /\ n >= 0 => Nearest(n, d) \in Nat
         /\ d * Nearest(n, d) \in Int /\ Near(d * Nearest(n, d), n, d)
<1>1. CASE n >= 0
  <2>. DEFINE q == (2 * n + d) \div (2 * d)
  <2>1. n \in Nat /\ Nearest(n, d) = q
    BY <1>1 DEF Nearest
  <2>2. q \in Nat /\ Near(d * q, n, d)
    BY <2>1, RoundUp
  <2>. HIDE DEF q
  <2>3. d * q \in Int
    BY <2>2
  <2>. QED
    BY <2>1, <2>2, <2>3
<1>2. CASE n < 0
  <2>. DEFINE m == -n
              q == (2 * m + d) \div (2 * d)
  <2>1. m \in Nat /\ 2 * m + d = d - 2 * n
    BY <1>2
  <2>2. Nearest(n, d) = -q
    BY <1>2, <2>1 DEF Nearest
  <2>. HIDE DEF m
  <2>3. q \in Nat /\ Near(d * q, m, d)
    BY <2>1, RoundUp
  <2>. HIDE DEF q
  <2>4. d * (-q) = -(d * q) /\ d * q \in Int
    BY <2>3
  <2>. QED
    BY <1>2, <2>2, <2>3, <2>4 DEF Near, m
<1>. QED
  BY <1>1, <1>2

LEMMA Cancel ==
  ASSUME NEW d \in Nat \ {0}, NEW x \in Int, NEW y \in Int, d * x <= d * y
  PROVE  x <= y
<1>. SUFFICES ASSUME y + 1 <= x PROVE FALSE
  OBVIOUS
<1>1. d * x = d * y + d * (x - y) /\ d * y \in Int
  OBVIOUS
<1>2. d * (x - y) >= d
  OBVIOUS
<1>. QED
  BY <1>1, <1>2

LEMMA NearestExact ==
  ASSUME NEW k \in Int, NEW d \in Nat \ {0}
  PROVE  Nearest(d * k, d) = k
<1>. DEFINE c == Nearest(d * k, d)
<1>1. c \in Int /\ d * k \in Int /\ d * c \in Int /\ Near(d * c, d * k, d)
  BY NearestBounds
<1>. HIDE DEF c
<1>2. c - k <= 0
  <2>1. d * (2 * (c - k)) = 2 * (d * c - d * k) /\ d * 1 = d
        /\ 2 * (c - k) \in Int
    BY <1>1
  <2>2. d * (2 * (c - k)) <= d * 1
    BY <1>1, <2>1 DEF Near
  <2>3. 2 * (c - k) <= 1
    BY <1>1, <2>2, Cancel
  <2>. QED
    BY <1>1, <2>3
<1>3. k - c <= 0
  <2>1. d * (2 * (k - c)) = 2 * (d * k - d * c) /\ d * 1 = d
        /\ 2 * (k - c) \in Int
    BY <1>1
  <2>2. d * (2 * (k - c)) <= d * 1
    BY <1>1, <2>1 DEF Near
  <2>3. 2 * (k - c) <= 1
    BY <1>1, <2>2, Cancel
  <2>. QED
    BY <1>1, <2>3
<1>. QED
  BY <1>1, <1>2, <1>3 DEF c

LEMMA ColumnFacts ==
  /\ \A x \in Int : /\ ToColumn(x) \in Int
                    /\ x >= 0 => ToColumn(x) \in Nat
                    /\ InMemory(ToColumn(x)) \in Int
                    /\ Near(InMemory(ToColumn(x)), x, ColumnUnit)
  /\ \A c \in Int : InMemory(c) \in Int /\ ToColumn(InMemory(c)) = c
  /\ \A c \in Nat : InMemory(c) \in Nat
BY ColumnAssumption, NearestBounds, NearestExact DEF ToColumn, InMemory

\* Three roundings are worth one and a half digits, so one.
LEMMA ThreeRoundings ==
  ASSUME NEW x \in Int, NEW y \in Int
  PROVE  Abs(ToColumn(x + y) - ToColumn(x) - ToColumn(y)) <= 1
<1>. DEFINE U == ColumnUnit
            a == ToColumn(x)
            b == ToColumn(x + y)
            c == ToColumn(y)
            e == b - a - c
<1>1. /\ a \in Int /\ b \in Int /\ c \in Int
      /\ Near(InMemory(a), x, U) /\ Near(InMemory(b), x + y, U)
      /\ Near(InMemory(c), y, U)
  BY ColumnFacts
<1>2. U \in Nat \ {0} /\ U * a \in Int /\ U * b \in Int /\ U * c \in Int
  BY <1>1, ColumnAssumption
<1>. HIDE DEF U, a, b, c
<1>3. InMemory(a) = U * a /\ InMemory(b) = U * b /\ InMemory(c) = U * c
  BY DEF InMemory, U
<1>4. /\ 2 * (U * b - U * a - U * c) <= 3 * U
      /\ 2 * (U * a + U * c - U * b) <= 3 * U
  BY <1>1, <1>2, <1>3 DEF Near
<1>5. U * (2 * e) = 2 * (U * b - U * a - U * c)
      /\ U * (-2 * e) = 2 * (U * a + U * c - U * b) /\ U * 3 = 3 * U
  BY <1>1, <1>2
<1>6. U * (2 * e) <= U * 3 /\ U * (-2 * e) <= U * 3
  BY <1>4, <1>5
<1>7. e \in Int
  BY <1>1
<1>. HIDE DEF e
<1>8. 2 * e <= 3 /\ -2 * e <= 3
  BY <1>2, <1>6, <1>7, Cancel
<1>9. Abs(e) <= 1
  BY <1>7, <1>8 DEF Abs
<1>. QED
  BY <1>9 DEF a, b, c, e

LEMMA RateBounds ==
  ASSUME NEW n \in Nat, NEW rate \in 0 .. RateUnit
  PROVE  (n * rate) \div RateUnit \in Nat /\ (n * rate) \div RateUnit <= n
<1>. DEFINE q == (n * rate) \div RateUnit
<1>1. RateUnit \in Nat \ {0} /\ n * rate \in Nat /\ n * rate <= RateUnit * n
  BY RatesAssumption
<1>2. q \in Nat /\ RateUnit * q <= n * rate
  <2>. DEFINE m == n * rate
  <2>1. m \in Nat
    BY <1>1
  <2>. HIDE DEF m
  <2>2. m = RateUnit * (m \div RateUnit) + (m % RateUnit)
        /\ m % RateUnit \in 0 .. RateUnit - 1 /\ m \div RateUnit \in Nat
    BY <1>1, <2>1, DivBounds
  <2>3. RateUnit * (m \div RateUnit) <= m /\ m \div RateUnit \in Nat
    BY <1>1, <2>1, <2>2
  <2>. QED
    BY <2>3 DEF m
<1>. HIDE DEF q
<1>3. RateUnit * q <= RateUnit * n
  BY <1>1, <1>2
<1>4. q <= n
  BY <1>1, <1>2, <1>3, Cancel
<1>. QED
  BY <1>2, <1>4 DEF q

(***************************************************************************)
(* What the simulated broker makes of an order.                            *)
(***************************************************************************)
LEMMA FillFacts ==
  ASSUME NEW o \in [side : Side, qty : Nat \ {0}], NEW close \in Nat,
         NEW f, f = ExecuteMarketOrder(o, close)
  PROVE  /\ f \in Fill /\ f.side = o.side /\ f.qty = o.qty
         /\ Notional(f) \in Nat /\ f.commission <= Notional(f)
<1>. DEFINE s == (close * SlippageRate) \div RateUnit
            p == Slipped(close, o.side)
<1>1. s \in Nat /\ s <= close
  BY RateBounds, RatesAssumption
<1>2. p \in Nat
  BY <1>1 DEF Slipped
<1>3. p * o.qty \in Nat
  BY <1>2
<1>4. (p * o.qty * CommissionRate) \div RateUnit \in Nat
      /\ (p * o.qty * CommissionRate) \div RateUnit <= p * o.qty
  BY <1>3, RateBounds, RatesAssumption
<1>5. f = [side |-> o.side, qty |-> o.qty, price |-> p,
           commission |-> (p * o.qty * CommissionRate) \div RateUnit]
  BY DEF ExecuteMarketOrder
<1>. QED
  BY <1>2, <1>3, <1>4, <1>5 DEF Fill, Notional

(***************************************************************************)
(* What a tick that commits adds to the tables: at most one order, at most *)
(* the two ledger rows of its fill, and a change of one position.          *)
(***************************************************************************)
ChainsFrom(cash, entries) ==
  \/ entries = <<>>
  \/ \E e1, e2 \in Entry :
       /\ entries = <<e1, e2>>
       /\ Abs(e1.after - cash - e1.amount) <= 1
       /\ Abs(e2.after - e1.after - e2.amount) <= 1
       /\ e1.after >= 0 /\ e2.after >= 0

Outcome(x, os, entries, qty) ==
  /\ os = <<>> \/ \E o \in Order : os = <<o>> /\ o.at = Last(x.bars).at
  /\ ChainsFrom(LatestCash(AccountOf(x)), entries)
  /\ \E n \in Nat :
       /\ n \in {x.book.qty[run[x.run].instrument], 0, Config[x.run].size}
       /\ qty = [x.book.qty EXCEPT ![run[x.run].instrument] = n]

Commits(x, os, entries, qty) ==
  /\ orders' = [orders EXCEPT ![x.run] = orders[x.run] \o os]
  /\ ledger' = [ledger EXCEPT ![AccountOf(x)] = ledger[AccountOf(x)] \o entries]
  /\ \E c : position' = [position EXCEPT ![AccountOf(x)] = [qty |-> qty, avg |-> c]]

LEMMA LatestTyped ==
  ASSUME NEW s \in Seq(Bar), s # <<>>
  PROVE  Last(s) \in Bar /\ Last(s).at \in Nat \ {0} /\ Last(s).close \in Nat
<1>1. Len(s) \in 1 .. Len(s)
  BY EmptySeq
<1>2. s[Len(s)] \in Bar
  BY <1>1, ElementOfSeq
<1>. QED
  BY <1>2 DEF Last, Bar

\* The row of a fill.
LEMMA RecordedFill ==
  ASSUME NEW f \in Fill
  PROVE  /\ RecordFill(f) \in Fill
         /\ RecordFill(f).side = f.side /\ RecordFill(f).qty = f.qty
         /\ RecordFill(f).price = ToColumn(f.price)
         /\ RecordFill(f).commission = ToColumn(f.commission)
<1>1. ToColumn(f.price) \in Nat /\ ToColumn(f.commission) \in Nat
  BY ColumnFacts DEF Fill
<1>. QED
  BY <1>1 DEF RecordFill, Fill

\* An intent and its fill: the cash never goes below zero.
LEMMA FillKeepsCash ==
  ASSUME NEW o \in [side : Side, qty : Nat \ {0}], NEW close \in Nat,
         NEW f, f = ExecuteMarketOrder(o, close), NEW col \in Nat,
         NEW book, book.cash = InMemory(col), ~InsufficientCash(book, f)
  PROVE  ChainsFrom(col, LedgerRows(book.cash, f))
<1>. DEFINE c == book.cash
            u == NotionalAmount(f)
            v == CommissionAmount(f)
            e1 == [amount |-> ToColumn(u), after |-> ToColumn(c + u)]
            e2 == [amount |-> ToColumn(v), after |-> ToColumn(c + CashFlow(f))]
<1>1. /\ Notional(f) \in Nat /\ f.commission \in Nat
      /\ f.commission <= Notional(f) /\ f.side \in Side
  BY FillFacts DEF Fill
<1>2. c \in Nat /\ ToColumn(c) = col
  BY ColumnFacts
<1>3. u \in Int /\ v \in Int /\ CashFlow(f) = u + v
  BY <1>1 DEF NotionalAmount, CommissionAmount, CashFlow
<1>4. c + u >= 0 /\ c + u + v >= 0
  <2>1. CASE f.side = "buy"
    BY <1>1, <1>2, <2>1 DEF InsufficientCash, NotionalAmount, CommissionAmount
  <2>2. CASE f.side = "sell"
    BY <1>1, <1>2, <2>2 DEF NotionalAmount, CommissionAmount
  <2>. QED
    BY <1>1, <2>1, <2>2 DEF Side
<1>. HIDE DEF c, u, v
<1>5. c + u \in Nat /\ c + u + v \in Nat
  BY <1>2, <1>3, <1>4
<1>6. /\ ToColumn(u) \in Int /\ ToColumn(v) \in Int
      /\ ToColumn(c + u) \in Nat /\ ToColumn(c + u + v) \in Nat
  BY <1>3, <1>5, ColumnFacts
<1>7. /\ Abs(ToColumn(c + u) - ToColumn(c) - ToColumn(u)) <= 1
      /\ Abs(ToColumn(c + u + v) - ToColumn(c + u) - ToColumn(v)) <= 1
  <2>1. \A y, z \in Int : Abs(ToColumn(y + z) - ToColumn(y) - ToColumn(z)) <= 1
    BY ThreeRoundings
  <2>2. c \in Int /\ c + u \in Int
    BY <1>2, <1>5
  <2>. QED
    BY <1>3, <2>1, <2>2
<1>8. CashFlow(f) = u + v /\ c + CashFlow(f) = c + u + v
  BY <1>2, <1>3
<1>9. /\ e1 \in Entry /\ e2 \in Entry
      /\ Abs(e1.after - col - e1.amount) <= 1
      /\ Abs(e2.after - e1.after - e2.amount) <= 1
      /\ e1.after >= 0 /\ e2.after >= 0
  BY <1>2, <1>6, <1>7, <1>8 DEF Entry
<1>10. LedgerRows(book.cash, f) = <<e1, e2>>
  BY DEF LedgerRows, c, u, v
<1>. HIDE DEF e1, e2
<1>. QED
  BY <1>9, <1>10 DEF ChainsFrom

LEMMA IntentFacts ==
  ASSUME NEW s \in Strategy, NEW closes, NEW held \in Nat,
         NEW o \in OnBar(s, closes, held)
  PROVE  /\ o \in [side : Side, qty : Nat \ {0}]
         /\ \/ o.side = "buy" /\ held = 0 /\ o.qty = s.size
            \/ o.side = "sell" /\ o.qty = held
BY DEF OnBar, Side, Strategy

\* A fill opens a position of the given size, or closes the one there is.
Turns(i, size, book, f) ==
  /\ i \in Instruments /\ size \in Nat \ {0}
  /\ book.qty \in [Instruments -> Nat]
  /\ DOMAIN book = {"cash", "qty", "cost", "realized"}
  /\ \/ f.side = "buy" /\ book.qty[i] = 0 /\ f.qty = size
     \/ f.side = "sell" /\ f.qty = book.qty[i]

LEMMA FilledHolding ==
  ASSUME NEW i, NEW size, NEW book, NEW f, Turns(i, size, book, f)
  PROVE  \E n \in Nat : /\ n \in {book.qty[i], 0, size}
                        /\ ApplyFill(book, i, f).qty = [book.qty EXCEPT ![i] = n]
<1>1. CASE f.side = "buy"
  <2>1. ApplyFill(book, i, f).qty = [book.qty EXCEPT ![i] = book.qty[i] + f.qty]
    BY <1>1 DEF ApplyFill, Turns
  <2>. QED
    BY <1>1, <2>1 DEF Turns
<1>2. CASE f.side = "sell"
  <2>1. ApplyFill(book, i, f).qty = [book.qty EXCEPT ![i] = book.qty[i] - f.qty]
    BY <1>2 DEF ApplyFill, Turns
  <2>. QED
    BY <1>2, <2>1 DEF Turns
<1>. QED
  BY <1>1, <1>2 DEF Turns

(***************************************************************************)
(* A tick that commits has an outcome.                                     *)
(***************************************************************************)
LEMMA TickOutcome ==
  ASSUME IInv, NEW t \in Tickers, RunTick(t)
  PROVE  /\ tick[t].pc = "portfolio"
         /\ \E os, entries, qty : /\ Outcome(tick[t], os, entries, qty)
                                 /\ Commits(tick[t], os, entries, qty)
<1>. DEFINE x      == tick[t]
            i      == run[x.run].instrument
            a      == run[x.run].account
            latest == Last(x.bars)
            closes == [n \in DOMAIN x.bars |-> x.bars[n].close]
            config == Config[x.run]
            size   == config.size
            close  == InMemory(latest.close)
            limit  == MaxOrderValue[x.run]
            Fate(os, entries, qty) == /\ Outcome(x, os, entries, qty)
                                      /\ Commits(x, os, entries, qty)
<1>1. /\ x.pc = "portfolio" /\ x.run \in Runs
      /\ config \in Strategy /\ size \in Nat \ {0}
  BY ConfigAssumption DEF RunTick, IInv, TypeInv, TickTyped, Strategy
<1>2. /\ x.bars \in Seq(Bar) /\ x.book.cash \in Int
      /\ x.book.qty \in [Instruments -> Nat]
      /\ DOMAIN x.book = {"cash", "qty", "cost", "realized"}
  BY DEF IInv, TypeInv, TickTyped
<1>3. Fresh(x) /\ Started(x.run) /\ run[x.run] \in Run
  BY <1>1 DEF IInv, LockInv, Fresh, TypeInv, Started
<1>4. i \in Instruments /\ a \in Accounts
  BY <1>3 DEF Run
<1>5. latest \in Bar /\ latest.at \in Nat /\ close \in Nat
  BY <1>1, <1>2, <1>3, LatestTyped, ColumnFacts DEF Fresh
<1>6. LatestCash(a) \in Nat /\ x.book.cash = InMemory(LatestCash(a))
  <2>1. ledger[a] \in Seq(Entry) /\ ledger[a] # <<>>
    BY <1>1, <1>3, <1>4 DEF IInv, TypeInv, LockInv
  <2>2. Len(ledger[a]) \in DOMAIN ledger[a] /\ ledger[a][Len(ledger[a])] \in Entry
    BY <2>1, EmptySeq, ElementOfSeq
  <2>3. LatestCash(a) = ledger[a][Len(ledger[a])].after
    BY DEF LatestCash, Last
  <2>4. LatestCash(a) >= 0
    BY <2>2, <2>3, <1>4 DEF IInv, NeverOverdrawn
  <2>5. LatestCash(a) \in Nat
    BY <2>2, <2>3, <2>4 DEF Entry
  <2>6. x.book.cash = InMemory(LatestCash(a))
    BY <1>1, <1>3 DEF Fresh, AccountOf
  <2>. QED
    BY <2>5, <2>6
<1>7. ASSUME NEW book, UpsertPositions(a, i, book)
      PROVE  \E c : position' =
               [position EXCEPT ![AccountOf(x)] = [qty |-> book.qty, avg |-> c]]
  BY <1>7 DEF UpsertPositions, AccountOf
<1>8. ASSUME NEW os, orders' = [orders EXCEPT ![x.run] = @ \o os],
             ledger' = [ledger EXCEPT ![a] = @ \o <<>>],
             UpsertPositions(a, i, x.book),
             os = <<>> \/ \E o \in Order : os = <<o>> /\ o.at = latest.at
      PROVE  \E entries, qty : Fate(os, entries, qty)
  <2>1. x.book.qty = [x.book.qty EXCEPT ![i] = x.book.qty[i]] /\ x.book.qty[i] \in Nat
    BY <1>2, <1>4
  <2>2. Outcome(x, os, <<>>, x.book.qty)
    BY <1>8, <2>1 DEF Outcome, ChainsFrom
  <2>3. Commits(x, os, <<>>, x.book.qty)
    BY <1>7, <1>8 DEF Commits, AccountOf
  <2>. QED
    BY <2>2, <2>3
<1>9. ASSUME NEW o \in OnBar(config, closes, x.book.qty[i]),
             NEW f, f = ExecuteMarketOrder(o, close),
             NEW s \in {"filled", "skipped", "risk_rejected"}
      PROVE  [at |-> latest.at, status |-> s, fill |-> RecordFill(f)] \in Order
  <2>1. o \in [side : Side, qty : Nat \ {0}]
    BY <1>1, <1>2, <1>4, IntentFacts
  <2>2. RecordFill(f) \in Fill
    BY <2>1, <1>5, <1>9, FillFacts, RecordedFill
  <2>. QED
    BY <2>2, <1>5 DEF Order
<1>10. ASSUME NEW o \in OnBar(config, closes, x.book.qty[i]),
              NEW f, f = ExecuteMarketOrder(o, close),
              OrderStatus(x.book, i, o, close, limit) = "filled",
              NEW os, os = <<[at |-> latest.at, status |-> "filled", fill |-> RecordFill(f)]>>,
              orders' = [orders EXCEPT ![x.run] = @ \o os],
              ledger' = [ledger EXCEPT ![a] = @ \o LedgerRows(x.book.cash, f)],
              UpsertPositions(a, i, ApplyFill(x.book, i, f))
       PROVE  \E entries, qty : Fate(os, entries, qty)
  <2>1. /\ o \in [side : Side, qty : Nat \ {0}]
        /\ \/ o.side = "buy" /\ x.book.qty[i] = 0 /\ o.qty = size
           \/ o.side = "sell" /\ o.qty = x.book.qty[i]
    BY <1>1, <1>2, <1>4, IntentFacts
  <2>7. f.side = o.side /\ f.qty = o.qty
    BY <2>1, <1>5, <1>10, FillFacts
  <2>2. ~InsufficientCash(x.book, f)
    BY <1>10 DEF OrderStatus
  <2>3. ChainsFrom(LatestCash(a), LedgerRows(x.book.cash, f))
    BY <2>1, <2>2, <1>2, <1>5, <1>6, <1>10, FillKeepsCash
  <2>4. \E n \in Nat : /\ n \in {x.book.qty[i], 0, size}
                      /\ ApplyFill(x.book, i, f).qty = [x.book.qty EXCEPT ![i] = n]
    <3>. DEFINE book == x.book
    <3>1. Turns(i, size, book, f)
      BY <1>1, <1>2, <1>4, <2>1, <2>7 DEF Turns
    <3>. HIDE DEF x, i, a, latest, closes, size, config, close, limit, book
    <3>3. \E n \in Nat : /\ n \in {book.qty[i], 0, size}
                        /\ ApplyFill(book, i, f).qty = [book.qty EXCEPT ![i] = n]
      BY ONLY <3>1, FilledHolding
    <3>. QED
      BY <3>3 DEF book
  <2>. DEFINE q     == ApplyFill(x.book, i, f).qty
              order == [at |-> latest.at, status |-> "filled", fill |-> RecordFill(f)]
  <2>5. Outcome(x, os, LedgerRows(x.book.cash, f), q)
    <3>1. order \in Order /\ order.at = latest.at /\ os = <<order>>
      BY <1>9, <1>10
    <3>. HIDE DEF order
    <3>2. os = <<>> \/ \E od \in Order : os = <<od>> /\ od.at = Last(x.bars).at
      BY <3>1
    <3>. QED
      BY <2>3, <2>4, <3>2 DEF Outcome, AccountOf
  <2>6. Commits(x, os, LedgerRows(x.book.cash, f), q)
    BY <1>7, <1>10 DEF Commits, AccountOf
  <2>. QED
    BY <2>5, <2>6
<1>11. CASE /\ orders' = [orders EXCEPT ![x.run] = @ \o <<>>]
            /\ ledger' = [ledger EXCEPT ![a] = @ \o <<>>]
            /\ UpsertPositions(a, i, x.book)
  BY <1>1, <1>8, <1>11
<1>12. CASE \E o \in OnBar(config, closes, x.book.qty[i]) :
              LET f == ExecuteMarketOrder(o, close)
                  s == OrderStatus(x.book, i, o, close, limit)
                  order == [at |-> latest.at, status |-> s, fill |-> RecordFill(f)]
              IN  /\ s \in {"risk_rejected", "skipped"}
                  /\ orders' = [orders EXCEPT ![x.run] = @ \o <<order>>]
                  /\ ledger' = [ledger EXCEPT ![a] = @ \o <<>>]
                  /\ UpsertPositions(a, i, x.book)
  <2>1. PICK o \in OnBar(config, closes, x.book.qty[i]) :
          LET f == ExecuteMarketOrder(o, close)
              s == OrderStatus(x.book, i, o, close, limit)
              order == [at |-> latest.at, status |-> s, fill |-> RecordFill(f)]
          IN  /\ s \in {"risk_rejected", "skipped"}
              /\ orders' = [orders EXCEPT ![x.run] = @ \o <<order>>]
              /\ ledger' = [ledger EXCEPT ![a] = @ \o <<>>]
              /\ UpsertPositions(a, i, x.book)
    BY <1>12
  <2>. DEFINE order == [at     |-> latest.at,
                        status |-> OrderStatus(x.book, i, o, close, limit),
                        fill   |-> RecordFill(ExecuteMarketOrder(o, close))]
  <2>2. order \in Order /\ order.at = latest.at
    BY <2>1, <1>9
  <2>3. orders' = [orders EXCEPT ![x.run] = @ \o <<order>>]
    BY <2>1
  <2>. HIDE DEF order
  <2>. QED
    BY <2>1, <2>2, <2>3, <1>1, <1>8
<1>13. CASE \E o \in OnBar(config, closes, x.book.qty[i]) :
              LET f == ExecuteMarketOrder(o, close)
                  s == OrderStatus(x.book, i, o, close, limit)
                  order == [at |-> latest.at, status |-> s, fill |-> RecordFill(f)]
              IN  /\ s = "filled"
                  /\ orders' = [orders EXCEPT ![x.run] = @ \o <<order>>]
                  /\ ledger' = [ledger EXCEPT ![a] = @ \o LedgerRows(x.book.cash, f)]
                  /\ UpsertPositions(a, i, ApplyFill(x.book, i, f))
  BY <1>1, <1>10, <1>13
<1>. QED
  BY <1>1, <1>11, <1>12, <1>13 DEF RunTick

-----------------------------------------------------------------------------
(***************************************************************************)
(* The initial state.                                                      *)
(***************************************************************************)
LEMMA NoTickTyped == TickTyped(NoTick) /\ NoTick.pc = "idle"
BY DEF TickTyped, NoTick, NoBook, Pcs

LEMMA InitInv == Init => IInv
<1>. SUFFICES ASSUME Init PROVE IInv
  OBVIOUS
<1>1. TypeInv
  BY NoTickTyped, HistoryAssumption DEF Init, TypeInv, NoBook, Bar
<1>2. LockInv
  BY NoTickTyped DEF Init, LockInv, Alone, Fresh, Started
<1>3. DateInv
  BY HistoryAssumption DEF Init, DateInv, Sorted, DateProcessedOnce, Started
<1>4. LedgerChains /\ NeverOverdrawn
  BY DEF Init, LedgerChains, NeverOverdrawn
<1>5. NoPyramid
  BY DEF Init, NoPyramid, NoBook
<1>. QED
  BY <1>1, <1>2, <1>3, <1>4, <1>5 DEF IInv

-----------------------------------------------------------------------------
(***************************************************************************)
(* Bars are stored and corrected: the latest bar of an instrument never    *)
(* becomes an earlier one.                                                 *)
(***************************************************************************)
LEMMA BarsStep ==
  ASSUME IInv, UNCHANGED <<account, journal, run, tick>>,
         bars' \in [Instruments -> Seq(Bar)],
         \A i \in Instruments : Sorted(bars'[i]),
         \A i \in Instruments : bars[i] # <<>> =>
           bars'[i] # <<>> /\ Last(bars[i]).at <= Last(bars'[i]).at
  PROVE  IInv'
<1>1. TypeInv'
  BY DEF IInv, TypeInv, account, journal
<1>2. LockInv'
  <2>1. ASSUME NEW t \in Tickers, tick[t].pc \in {"bars", "portfolio"}
        PROVE  Behind(tick[t])'
    <3>. DEFINE x == tick[t]
                i == run[x.run].instrument
    <3>1. Fresh(x) /\ x.pc # "idle" /\ TickTyped(x) /\ x.run \in Runs
      BY <2>1 DEF IInv, LockInv, TypeInv, TickTyped
    <3>2. Started(x.run) /\ x.bars # <<>> /\ Behind(x)
      BY <2>1, <3>1 DEF Fresh
    <3>3. i \in Instruments
      BY <3>1, <3>2 DEF IInv, TypeInv, Started, Run
    <3>4. bars[i] # <<>> /\ bars'[i] # <<>> /\ Last(x.bars).at <= Last(bars[i]).at
          /\ Last(bars[i]).at <= Last(bars'[i]).at
      BY <3>2, <3>3 DEF Behind
    <3>5. Last(x.bars).at \in Nat /\ Last(bars[i]).at \in Nat
          /\ Last(bars'[i]).at \in Nat
      BY <3>1, <3>2, <3>3, <3>4, LatestTyped DEF IInv, TypeInv, TickTyped
    <3>6. Last(x.bars).at <= Last(bars'[i]).at
      BY <3>4, <3>5
    <3>. QED
      BY <3>4, <3>6 DEF Behind
  <2>2. ASSUME NEW t \in Tickers PROVE Fresh(tick[t])'
    BY <2>1 DEF IInv, LockInv, Fresh, Started, AccountOf, LatestCash, account
  <2>. QED
    BY <2>2 DEF IInv, LockInv, Alone, Started, AccountOf, account
<1>3. DateInv'
  <2>1. ASSUME NEW r \in Runs, Started(r)', run'[r].last # 0
        PROVE  /\ bars'[run'[r].instrument] # <<>>
               /\ run'[r].last <= Last(bars'[run'[r].instrument]).at
    <3>. DEFINE i == run[r].instrument
                l == run[r].last
    <3>1. run'[r] = run[r] /\ Started(r) /\ run[r] \in Run
      BY <2>1 DEF IInv, TypeInv, Started
    <3>2. i \in Instruments /\ l \in Nat
      BY <3>1 DEF Run
    <3>3. bars[i] # <<>> /\ l <= Last(bars[i]).at
      BY <2>1, <3>1 DEF IInv, DateInv
    <3>4. bars'[i] # <<>> /\ Last(bars[i]).at <= Last(bars'[i]).at
      BY <3>2, <3>3
    <3>5. Last(bars[i]).at \in Nat /\ Last(bars'[i]).at \in Nat
      BY <3>2, <3>3, <3>4, LatestTyped DEF IInv, TypeInv
    <3>. QED
      BY <3>1, <3>2, <3>3, <3>4, <3>5
  <2>. QED
    BY <2>1 DEF IInv, DateInv, DateProcessedOnce, journal
<1>. QED
  BY <1>1, <1>2, <1>3
  DEF IInv, LedgerChains, NeverOverdrawn, NoPyramid, RunsOf, account, Started

\* w is s with b at place k.
Inserted(s, k, b, w) ==
  /\ w \in Seq(Bar) /\ Len(w) = Len(s) + 1
  /\ \A j \in 1 .. Len(s) + 1 : w[j] = IF j < k THEN s[j]
                                       ELSE IF j = k THEN b ELSE s[j - 1]

LEMMA InsertElements ==
  ASSUME NEW s \in Seq(Bar), NEW b \in Bar, NEW k \in 1 .. Len(s) + 1
  PROVE  Inserted(s, k, b, InsertAt(s, k, b))
<1>. DEFINE n  == Len(s)
            l  == SubSeq(s, 1, k - 1)
            r  == SubSeq(s, k, n)
            lb == l \o <<b>>
            w  == InsertAt(s, k, b)
<1>1. n \in Nat /\ k \in Nat /\ \A j \in 1 .. n : s[j] \in Bar
  BY ElementOfSeq
<1>2. /\ l \in Seq(Bar) /\ Len(l) = k - 1
      /\ \A j \in 1 .. k - 1 : l[j] = s[j]
  BY <1>1, SubSeqProperties
<1>3. /\ r \in Seq(Bar) /\ Len(r) = n - k + 1
      /\ \A j \in 1 .. n - k + 1 : r[j] = s[k + j - 1]
  BY <1>1, SubSeqProperties
<1>4. /\ lb \in Seq(Bar) /\ Len(lb) = k
      /\ \A j \in 1 .. k : lb[j] = IF j = k THEN b ELSE s[j]
  <2>1. <<b>> \in Seq(Bar) /\ Len(<<b>>) = 1 /\ <<b>>[1] = b
    OBVIOUS
  <2>. HIDE DEF l
  <2>. QED
    BY <1>1, <1>2, <2>1, ConcatProperties
<1>5. /\ w \in Seq(Bar) /\ Len(w) = n + 1
      /\ \A j \in 1 .. n + 1 : w[j] = IF j < k THEN s[j]
                                      ELSE IF j = k THEN b ELSE s[j - 1]
  <2>1. w = lb \o r
    BY DEF InsertAt
  <2>. HIDE DEF lb, r, w
  <2>2. w \in Seq(Bar) /\ Len(w) = n + 1
    <3>1. w \in Seq(Bar) /\ Len(w) = Len(lb) + Len(r)
      BY <1>3, <1>4, <2>1, ConcatProperties
    <3>. QED
      BY <1>1, <1>3, <1>4, <3>1
  <2>3. ASSUME NEW j \in 1 .. n + 1
        PROVE  w[j] = IF j < k THEN s[j] ELSE IF j = k THEN b ELSE s[j - 1]
    <3>1. w[j] = IF j <= k THEN lb[j] ELSE r[j - k]
      BY <1>1, <1>3, <1>4, <2>1, ConcatProperties
    <3>. QED
      BY <1>1, <1>3, <1>4, <3>1
  <2>. QED
    BY <2>2, <2>3
<1>. HIDE DEF w
<1>. QED
  BY <1>5 DEF Inserted, w, n

LEMMA InsertFacts ==
  ASSUME NEW s \in Seq(Bar), NEW b \in Bar, NEW k \in 1 .. Len(s) + 1,
         Sorted(s),
         \A n \in 1 .. Len(s) : IF n < k THEN s[n].at <= b.at ELSE b.at <= s[n].at
  PROVE  /\ InsertAt(s, k, b) \in Seq(Bar) /\ Sorted(InsertAt(s, k, b))
         /\ InsertAt(s, k, b) # <<>>
         /\ s # <<>> => Last(s).at <= Last(InsertAt(s, k, b)).at
<1>. DEFINE n  == Len(s)
            w  == InsertAt(s, k, b)
<1>1. n \in Nat /\ k \in Nat /\ b.at \in Nat
      /\ \A j \in 1 .. n : s[j] \in Bar /\ s[j].at \in Nat
  <2>1. \A j \in 1 .. n : s[j] \in Bar
    BY ElementOfSeq
  <2>. QED
    BY <2>1 DEF Bar
<1>5. /\ w \in Seq(Bar) /\ Len(w) = n + 1
      /\ \A j \in 1 .. n + 1 : w[j] = IF j < k THEN s[j]
                                      ELSE IF j = k THEN b ELSE s[j - 1]
  <2>1. Inserted(s, k, b, w)
    BY InsertElements
  <2>. HIDE DEF w
  <2>. QED
    BY <2>1 DEF Inserted
<1>. HIDE DEF w
<1>6. Sorted(w)
  <2>. SUFFICES ASSUME NEW i \in 1 .. n + 1, NEW j \in 1 .. n + 1, i < j
                PROVE  w[i].at <= w[j].at
    BY <1>5 DEF Sorted
  <2>1. \A p, q \in 1 .. n : p < q => s[p].at <= s[q].at
    BY DEF Sorted
  <2>2. CASE j < k
    BY <1>1, <1>5, <2>1, <2>2
  <2>3. CASE j = k
    BY <1>1, <1>5, <2>3
  <2>4. CASE j > k
    <3>1. w[j] = s[j - 1] /\ j - 1 \in 1 .. n
      BY <1>1, <1>5, <2>4
    <3>2. b.at <= s[j - 1].at /\ s[j - 1].at \in Nat
      BY <1>1, <2>4, <3>1
    <3>3. CASE i < k
      <4>1. w[i] = s[i] /\ i \in 1 .. n /\ i < j - 1
        BY <1>1, <1>5, <2>4, <3>3
      <4>. QED
        BY <2>1, <3>1, <4>1
    <3>4. CASE i = k
      BY <1>5, <3>1, <3>2, <3>4
    <3>5. CASE i > k
      <4>1. w[i] = s[i - 1] /\ i - 1 \in 1 .. n /\ i - 1 < j - 1
        BY <1>1, <1>5, <3>5
      <4>. QED
        BY <2>1, <3>1, <4>1
    <3>. QED
      BY <1>1, <3>3, <3>4, <3>5
  <2>. QED
    BY <1>1, <2>2, <2>3, <2>4
<1>7. s # <<>> => Last(s).at <= Last(w).at
  <2>. SUFFICES ASSUME s # <<>> PROVE s[n].at <= w[n + 1].at
    BY <1>5 DEF Last
  <2>1. n \in 1 .. n
    BY EmptySeq
  <2>2. CASE k = n + 1
    <3>1. w[n + 1] = b /\ s[n].at <= b.at
      BY <1>1, <1>5, <2>1, <2>2
    <3>. QED
      BY <3>1
  <2>3. CASE k # n + 1
    <3>1. w[n + 1] = s[n]
      BY <1>1, <1>5, <2>1, <2>3
    <3>. QED
      BY <1>1, <2>1, <3>1
  <2>. QED
    BY <2>2, <2>3
<1>8. w # <<>>
  BY <1>1, <1>5
<1>. QED
  BY <1>5, <1>6, <1>7, <1>8 DEF w

LEMMA MarketStep ==
  ASSUME IInv, NEW i \in Instruments,
         \/ \E d \in Dates, c \in Closes : StoreBar(i, [at |-> d, close |-> c])
         \/ \E c \in Closes : \E k \in DOMAIN bars[i] : CorrectBar(i, k, c)
  PROVE  IInv'
<1>. DEFINE s == bars[i]
<1>1. s \in Seq(Bar) /\ Sorted(s)
  BY DEF IInv, TypeInv, DateInv
<1>2. ASSUME NEW w \in Seq(Bar), Sorted(w), bars' = [bars EXCEPT ![i] = w],
             s # <<>> => w # <<>> /\ Last(s).at <= Last(w).at,
             UNCHANGED <<account, journal, run, tick>>
      PROVE  IInv'
  <2>1. bars' \in [Instruments -> Seq(Bar)]
    BY <1>2 DEF IInv, TypeInv
  <2>2. bars'[i] = w /\ \A j \in Instruments \ {i} : bars'[j] = bars[j]
    BY <1>2 DEF IInv, TypeInv
  <2>3. \A j \in Instruments : Sorted(bars'[j])
    BY <1>2, <2>2 DEF IInv, DateInv
  <2>4. ASSUME NEW j \in Instruments, bars[j] # <<>>
        PROVE  bars'[j] # <<>> /\ Last(bars[j]).at <= Last(bars'[j]).at
    <3>1. CASE j = i
      BY <1>2, <2>2, <2>4, <3>1
    <3>2. CASE j # i
      <4>1. Last(bars[j]).at \in Nat
        BY <2>4, LatestTyped DEF IInv, TypeInv
      <4>. QED
        BY <2>2, <2>4, <3>2, <4>1
    <3>. QED
      BY <3>1, <3>2
  <2>. QED
    BY <1>2, <2>1, <2>3, <2>4, BarsStep
<1>3. ASSUME NEW d \in Dates, NEW c \in Closes, StoreBar(i, [at |-> d, close |-> c])
      PROVE  IInv'
  <2>. DEFINE b == [at |-> d, close |-> c]
  <2>1. b \in Bar
    BY BarsAssumption DEF Bar
  <2>2. PICK k \in 1 .. Len(s) + 1 :
          /\ \A n \in 1 .. Len(s) : IF n < k THEN s[n].at <= b.at ELSE b.at <= s[n].at
          /\ bars' = [bars EXCEPT ![i] = InsertAt(bars[i], k, b)]
    BY <1>3 DEF StoreBar
  <2>. HIDE DEF b
  <2>3. /\ InsertAt(s, k, b) \in Seq(Bar) /\ Sorted(InsertAt(s, k, b))
        /\ InsertAt(s, k, b) # <<>>
        /\ s # <<>> => Last(s).at <= Last(InsertAt(s, k, b)).at
    BY <1>1, <2>1, <2>2, InsertFacts
  <2>4. UNCHANGED <<account, journal, run, tick>>
    BY <1>3 DEF StoreBar
  <2>. QED
    BY <1>2, <2>2, <2>3, <2>4
<1>4. ASSUME NEW c \in Closes, NEW k \in DOMAIN bars[i], CorrectBar(i, k, c)
      PROVE  IInv'
  <2>1. PICK m \in DOMAIN s :
          /\ s[m].at = s[k].at
          /\ bars' = [bars EXCEPT ![i][k].close = s[m].close, ![i][m].close = c]
    BY <1>4 DEF CorrectBar
  <2>. DEFINE v == [s EXCEPT ![k].close = s[m].close]
              w == [v EXCEPT ![m].close = c]
  <2>2. k \in 1 .. Len(s) /\ m \in 1 .. Len(s) /\ c \in Nat
        /\ s[k] \in Bar /\ s[m] \in Bar
    BY <1>1, ElementOfSeq, BarsAssumption
  <2>3. /\ v \in Seq(Bar) /\ Len(v) = Len(s)
        /\ \A n \in 1 .. Len(s) : v[n].at = s[n].at
    <3>. DEFINE y == [s[k] EXCEPT !.close = s[m].close]
    <3>1. y \in Bar /\ y.at = s[k].at
      BY <2>2 DEF Bar
    <3>. HIDE DEF y
    <3>2. v = [s EXCEPT ![k] = y]
      BY DEF y
    <3>. QED
      BY <1>1, <2>2, <3>1, <3>2, ExceptSeq
  <2>. HIDE DEF v
  <2>4. /\ w \in Seq(Bar) /\ Len(w) = Len(s)
        /\ \A n \in 1 .. Len(s) : w[n].at = s[n].at
    <3>. DEFINE y == [v[m] EXCEPT !.close = c]
    <3>1. v[m] \in Bar
      BY <2>2, <2>3, ElementOfSeq
    <3>2. y \in Bar /\ y.at = v[m].at
      BY <2>2, <3>1 DEF Bar
    <3>. HIDE DEF y
    <3>3. w = [v EXCEPT ![m] = y]
      BY DEF y
    <3>. HIDE DEF w
    <3>4. m \in 1 .. Len(v)
      BY <2>2, <2>3
    <3>5. [v EXCEPT ![m] = y] \in Seq(Bar) /\ Len([v EXCEPT ![m] = y]) = Len(v)
          /\ \A n \in 1 .. Len(v) : [v EXCEPT ![m] = y][n].at = v[n].at
      BY <2>3, <3>2, <3>4, ExceptSeq
    <3>. QED
      BY <2>3, <3>3, <3>5
  <2>7. bars' = [bars EXCEPT ![i] = w]
    BY <2>1 DEF v
  <2>8. UNCHANGED <<account, journal, run, tick>>
    BY <1>4 DEF CorrectBar
  <2>. HIDE DEF w
  <2>5. Sorted(w)
    BY <1>1, <2>4 DEF Sorted
  <2>6. s # <<>> => w # <<>> /\ Last(s).at <= Last(w).at
    <3>. SUFFICES ASSUME s # <<>> PROVE w # <<>> /\ Last(s).at <= Last(w).at
      OBVIOUS
    <3>1. Len(s) \in 1 .. Len(s) /\ Last(s).at \in Nat
      BY <1>1, EmptySeq, LatestTyped
    <3>. QED
      BY <2>4, <3>1 DEF Last
  <2>. QED
    BY <1>2, <2>4, <2>5, <2>6, <2>7, <2>8
<1>. QED
  BY <1>3, <1>4

-----------------------------------------------------------------------------
(***************************************************************************)
(* Accounts and runs are created: nothing in progress refers to them.      *)
(***************************************************************************)
LEMMA AccountStep ==
  ASSUME IInv, NEW a \in Accounts, CreateAccount(a)
  PROVE  IInv'
<1>. DEFINE d == ToColumn(InitialCash)
            s == <<[amount |-> d, after |-> d]>>
<1>1. /\ ledger[a] = <<>> /\ ledger' = [ledger EXCEPT ![a] = s]
      /\ UNCHANGED <<market, position, realized, journal, run, tick>>
  BY DEF CreateAccount, d
<1>0. d \in Nat
  BY CashAssumption, ColumnFacts
<1>. HIDE DEF d
<1>2. s \in Seq(Entry) /\ s # <<>> /\ DOMAIN s = {1}
      /\ s[1].after = d /\ s[1].amount = d
  BY <1>0 DEF Entry
<1>. HIDE DEF s
<1>3. ledger' \in [Accounts -> Seq(Entry)] /\ ledger'[a] = s
      /\ \A b \in Accounts \ {a} : ledger'[b] = ledger[b]
  BY <1>1, <1>2 DEF IInv, TypeInv
<1>4. TypeInv'
  BY <1>1, <1>3 DEF IInv, TypeInv, market, journal
<1>5. \A r \in Runs : Started(r) => run[r].account \in Accounts \ {a}
  BY <1>1 DEF IInv, TypeInv, LockInv, Started, Run
<1>6. LockInv'
  <2>1. ASSUME NEW t \in Tickers PROVE Fresh(tick[t])'
    <3>. SUFFICES ASSUME tick[t].pc # "idle" PROVE Fresh(tick[t])'
      BY <1>1 DEF Fresh
    <3>1. Started(tick[t].run) /\ tick[t].run \in Runs /\ Fresh(tick[t])
      BY DEF IInv, LockInv, Fresh, TypeInv, TickTyped
    <3>2. ledger'[AccountOf(tick[t])] = ledger[AccountOf(tick[t])]
      BY <1>3, <1>5, <3>1 DEF AccountOf
    <3>. QED
      BY <1>1, <3>1, <3>2 DEF Fresh, Behind, Started, AccountOf, LatestCash, market
  <2>2. Alone'
    BY <1>1 DEF IInv, LockInv, Alone, AccountOf
  <2>3. ASSUME NEW r \in Runs, Started(r)' PROVE ledger'[run'[r].account] # <<>>
    BY <1>1, <1>3, <1>5, <2>3 DEF IInv, LockInv, Started
  <2>. QED
    BY <2>1, <2>2, <2>3 DEF LockInv
<1>7. DateInv'
  BY <1>1 DEF IInv, DateInv, DateProcessedOnce, Started, market, journal
<1>8. LedgerChains' /\ NeverOverdrawn'
  <2>1. ASSUME NEW b \in Accounts, NEW n \in DOMAIN ledger'[b]
        PROVE  /\ ledger'[b][n].after >= 0
               /\ IF n = 1 THEN ledger'[b][n].after = ledger'[b][n].amount
                  ELSE Abs(ledger'[b][n].after - ledger'[b][n - 1].after
                             - ledger'[b][n].amount) <= 1
    <3>1. CASE b = a
      <4>1. ledger'[b] = s /\ n = 1
        BY <1>2, <1>3, <2>1, <3>1
      <4>. QED
        BY <1>0, <1>2, <4>1
    <3>2. CASE b # a
      <4>1. ledger'[b] = ledger[b]
        BY <1>3, <3>2
      <4>. QED
        BY <2>1, <4>1 DEF IInv, LedgerChains, NeverOverdrawn
    <3>. QED
      BY <3>1, <3>2
  <2>. QED
    BY <2>1 DEF LedgerChains, NeverOverdrawn
<1>9. NoPyramid'
  BY <1>1 DEF IInv, NoPyramid, RunsOf, Started
<1>. QED
  BY <1>4, <1>6, <1>7, <1>8, <1>9 DEF IInv

LEMMA RunStep ==
  ASSUME IInv, NEW r \in Runs, NEW a \in Accounts, NEW i \in Instruments,
         StartRun(r, a, i)
  PROVE  IInv'
<1>. DEFINE n == [account |-> a, instrument |-> i, last |-> 0]
<1>1. /\ ~Started(r) /\ ledger[a] # <<>> /\ run' = [run EXCEPT ![r] = n]
      /\ UNCHANGED <<market, account, journal, tick>>
  BY DEF StartRun
<1>2. n \in Run /\ n.account = a /\ n.instrument = i /\ n.last = 0
  BY DEF Run
<1>3. run[r] = NoRun /\ run[r].last = 0
  BY <1>1 DEF Started, NoRun
<1>. HIDE DEF n
<1>4. run' \in [Runs -> Run \cup {NoRun}] /\ run'[r] = n
      /\ \A q \in Runs \ {r} : run'[q] = run[q]
  BY <1>1, <1>2 DEF IInv, TypeInv
<1>5. TypeInv'
  BY <1>1, <1>4 DEF IInv, TypeInv, market, account, journal
<1>6. \A t \in Tickers : tick[t].pc # "idle" => tick[t].run \in Runs \ {r}
  BY <1>1 DEF IInv, TypeInv, TickTyped, LockInv, Fresh
<1>7. LockInv'
  <2>1. ASSUME NEW t \in Tickers PROVE Fresh(tick[t])'
    BY <1>1, <1>4, <1>6
    DEF IInv, LockInv, Fresh, Behind, Started, AccountOf, LatestCash, account, market
  <2>2. Alone'
    BY <1>1, <1>4, <1>6 DEF IInv, LockInv, Alone, AccountOf
  <2>3. ASSUME NEW q \in Runs, Started(q)' PROVE ledger'[run'[q].account] # <<>>
    BY <1>1, <1>2, <1>4, <2>3 DEF IInv, LockInv, Started, account
  <2>. QED
    BY <2>1, <2>2, <2>3 DEF LockInv
<1>8. DateInv'
  BY <1>1, <1>2, <1>3, <1>4
  DEF IInv, DateInv, DateProcessedOnce, Started, market, journal
<1>9. LedgerChains' /\ NeverOverdrawn'
  BY <1>1 DEF IInv, LedgerChains, NeverOverdrawn, account
<1>10. NoPyramid'
  BY <1>1, <1>4 DEF IInv, NoPyramid, RunsOf, Started, account
<1>. QED
  BY <1>5, <1>7, <1>8, <1>9, <1>10 DEF IInv

-----------------------------------------------------------------------------
(***************************************************************************)
(* The steps of a tick before it commits, and its end without a commit:    *)
(* only the tick itself changes.                                           *)
(***************************************************************************)
LEMMA ReadStep ==
  ASSUME IInv, NEW t \in Tickers, UNCHANGED <<market, account, journal, run>>,
         NEW y, tick' = [tick EXCEPT ![t] = y], TickTyped(y), Fresh(y),
         y.pc # "idle" =>
           \A u \in Tickers \ {t} : tick[u].pc # "idle" =>
             /\ y.run # tick[u].run
             /\ y.pc \in Holding /\ tick[u].pc \in Holding
                  => AccountOf(y) # AccountOf(tick[u])
  PROVE  IInv'
<1>1. DOMAIN tick' = Tickers /\ tick'[t] = y
      /\ \A u \in Tickers \ {t} : tick'[u] = tick[u]
  BY DEF IInv, TypeInv
<1>2. TypeInv'
  BY <1>1 DEF IInv, TypeInv, market, account, journal
<1>3. Alone'
  BY <1>1 DEF IInv, LockInv, Alone, AccountOf
<1>4. ASSUME NEW u \in Tickers PROVE Fresh(tick[u])'
  <2>1. Fresh(tick'[u])
    BY <1>1 DEF IInv, LockInv
  <2>. QED
    BY <2>1 DEF Fresh, Behind, Started, AccountOf, LatestCash, account, market
<1>5. LockInv'
  BY <1>3, <1>4 DEF IInv, LockInv, Started, account
<1>6. DateInv'
  BY DEF IInv, DateInv, DateProcessedOnce, Started, market, journal
<1>7. LedgerChains' /\ NeverOverdrawn' /\ NoPyramid'
  BY DEF IInv, LedgerChains, NeverOverdrawn, NoPyramid, RunsOf, Started, account
<1>. QED
  BY <1>2, <1>5, <1>6, <1>7 DEF IInv

LEMMA AbortStep ==
  ASSUME IInv, NEW t \in Tickers, UNCHANGED <<market, account, journal, run>>,
         tick' = [tick EXCEPT ![t] = NoTick]
  PROVE  IInv'
<1>1. TickTyped(NoTick) /\ NoTick.pc = "idle" /\ Fresh(NoTick)
  BY NoTickTyped DEF Fresh
<1>. HIDE DEF NoTick
<1>. QED
  BY <1>1, ReadStep

LEMMA LoadRunStep ==
  ASSUME IInv, NEW t \in Tickers, NEW r \in Runs, LoadRun(t, r)
  PROVE  IInv'
<1>. DEFINE x == tick[t]
            y == [x EXCEPT !.pc = "run", !.run = r, !.last = run[r].last]
<1>1. TickTyped(x) /\ Started(r) /\ run[r] \in Run
  BY DEF LoadRun, IInv, TypeInv, Started
<1>2. /\ y.pc = "run" /\ y.run = r /\ y.last = run[r].last /\ y.bars = x.bars
      /\ y.book = x.book /\ DOMAIN y = DOMAIN x
  BY <1>1 DEF TickTyped
<1>3. tick' = [tick EXCEPT ![t] = y]
  BY <1>1 DEF LoadRun, IInv, TypeInv, TickTyped
<1>4. UNCHANGED <<market, account, journal, run>>
  BY DEF LoadRun
<1>5. \A u \in Tickers : tick[u].pc # "idle" => tick[u].run # r
  BY DEF LoadRun, RunLocked
<1>. HIDE DEF y
<1>6. TickTyped(y)
  BY <1>1, <1>2 DEF TickTyped, Run, Pcs
<1>7. Fresh(y)
  BY <1>1, <1>2 DEF Fresh
<1>8. y.pc \notin Holding
  BY <1>2 DEF Holding
<1>. QED
  BY <1>2, <1>3, <1>4, <1>5, <1>6, <1>7, <1>8, ReadStep

(***************************************************************************)
(* A tick in progress that goes on to another place with the same run.     *)
(***************************************************************************)
LEMMA GoOn ==
  ASSUME IInv, NEW t \in Tickers, tick[t].pc # "idle",
         UNCHANGED <<market, account, journal, run>>,
         NEW y, tick' = [tick EXCEPT ![t] = y], TickTyped(y), Fresh(y),
         y.run = tick[t].run,
         y.pc \in Holding => tick[t].pc \in Holding \/ ~AccountLocked(AccountOf(y))
  PROVE  IInv'
<1>1. ASSUME NEW u \in Tickers \ {t}, tick[u].pc # "idle"
      PROVE  /\ y.run # tick[u].run
             /\ y.pc \in Holding /\ tick[u].pc \in Holding
                  => AccountOf(y) # AccountOf(tick[u])
  <2>1. tick[t].run # tick[u].run
    BY <1>1 DEF IInv, LockInv, Alone
  <2>2. ASSUME y.pc \in Holding, tick[u].pc \in Holding
        PROVE  AccountOf(y) # AccountOf(tick[u])
    <3>1. CASE tick[t].pc \in Holding
      BY <1>1, <2>2, <3>1 DEF IInv, LockInv, Alone, AccountOf
    <3>2. CASE ~AccountLocked(AccountOf(y))
      BY <1>1, <2>2, <3>2 DEF AccountLocked, AccountOf, Holding
    <3>. QED
      BY <2>2, <3>1, <3>2
  <2>. QED
    BY <2>1, <2>2
<1>. QED
  BY <1>1, ReadStep

LEMMA LoadAccountStep ==
  ASSUME IInv, NEW t \in Tickers, LoadAccount(t)
  PROVE  IInv'
<1>. DEFINE x == tick[t]
            y == [x EXCEPT !.pc = "account"]
<1>1. TickTyped(x) /\ x.pc = "run" /\ Fresh(x) /\ ~AccountLocked(AccountOf(x))
  BY DEF LoadAccount, IInv, TypeInv, LockInv, AccountOf
<1>2. /\ y.pc = "account" /\ y.run = x.run /\ y.last = x.last /\ y.bars = x.bars
      /\ y.book = x.book /\ DOMAIN y = DOMAIN x
  BY <1>1 DEF TickTyped
<1>3. tick' = [tick EXCEPT ![t] = y] /\ UNCHANGED <<market, account, journal, run>>
  BY DEF LoadAccount, IInv, TypeInv
<1>. HIDE DEF y
<1>4. TickTyped(y) /\ AccountOf(y) = AccountOf(x)
  BY <1>1, <1>2 DEF TickTyped, Pcs, AccountOf
<1>5. Fresh(y)
  BY <1>1, <1>2 DEF Fresh
<1>. QED
  BY <1>1, <1>2, <1>3, <1>4, <1>5, GoOn

LEMMA ListBarsStep ==
  ASSUME IInv, NEW t \in Tickers, ListBars(t)
  PROVE  IInv'
<1>. DEFINE x == tick[t]
            b == bars[run[x.run].instrument]
            y == [x EXCEPT !.pc = "bars", !.bars = b]
<1>1. TickTyped(x) /\ x.pc = "account" /\ Fresh(x) /\ x.run \in Runs
  BY DEF ListBars, IInv, TypeInv, LockInv, TickTyped
<1>2. UNCHANGED <<market, account, journal, run>>
  BY DEF ListBars
<1>3. CASE b = <<>> \/ x.last = Last(b).at
  <2>1. tick' = [tick EXCEPT ![t] = NoTick]
    BY <1>3 DEF ListBars
  <2>. QED
    BY <1>2, <2>1, AbortStep
<1>4. CASE ~(b = <<>> \/ x.last = Last(b).at)
  <2>1. run[x.run] \in Run /\ b \in Seq(Bar) /\ x.last = run[x.run].last
    BY <1>1 DEF Fresh, Started, IInv, TypeInv, Run
  <2>2. Last(b).at \in Nat \ {0} /\ x.last \in Nat
    BY <1>1, <1>4, <2>1, LatestTyped DEF TickTyped
  <2>3. x.last < Last(b).at
    <3>1. CASE x.last = 0
      BY <2>2, <3>1
    <3>2. CASE x.last # 0
      <4>1. x.last <= Last(b).at
        BY <1>1, <2>1, <3>2 DEF Fresh, IInv, DateInv
      <4>. QED
        BY <1>4, <2>2, <4>1
    <3>. QED
      BY <3>1, <3>2
  <2>4. /\ y.pc = "bars" /\ y.run = x.run /\ y.last = x.last /\ y.bars = b
        /\ y.book = x.book /\ DOMAIN y = DOMAIN x
    BY <1>1 DEF TickTyped
  <2>5. tick' = [tick EXCEPT ![t] = y]
    BY <1>4 DEF ListBars, IInv, TypeInv
  <2>. HIDE DEF y
  <2>6. TickTyped(y) /\ AccountOf(y) = AccountOf(x)
    BY <1>1, <2>1, <2>4 DEF TickTyped, Pcs, AccountOf
  <2>7. Fresh(y)
    BY <1>1, <1>4, <2>2, <2>3, <2>4 DEF Fresh, Behind
  <2>8. x.pc \in Holding
    BY <1>1 DEF Holding
  <2>. QED
    BY <1>1, <1>2, <2>4, <2>5, <2>6, <2>7, <2>8, GoOn
<1>. QED
  BY <1>3, <1>4

LEMMA LoadPortfolioStep ==
  ASSUME IInv, NEW t \in Tickers, LoadPortfolio(t)
  PROVE  IInv'
<1>. DEFINE x == tick[t]
            a == AccountOf(x)
            k == [cash |-> InMemory(LatestCash(a)), qty |-> position[a].qty,
                  cost |-> HeldCost(position[a]),
                  realized |-> InMemory(SumOver(realized[a]))]
            y == [x EXCEPT !.pc = "portfolio", !.book = k]
<1>1. TickTyped(x) /\ x.pc = "bars" /\ Fresh(x) /\ x.run \in Runs
  BY DEF LoadPortfolio, IInv, TypeInv, LockInv, TickTyped
<1>2. a \in Accounts /\ ledger[a] \in Seq(Entry) /\ ledger[a] # <<>>
  BY <1>1 DEF Fresh, Started, AccountOf, IInv, TypeInv, LockInv, Run
<1>3. k.cash \in Int /\ k.qty \in [Instruments -> Nat]
      /\ DOMAIN k = {"cash", "qty", "cost", "realized"}
  <2>1. ledger[a][Len(ledger[a])] \in Entry
    BY <1>2, EmptySeq, ElementOfSeq
  <2>. QED
    BY <1>2, <2>1, ColumnFacts DEF LatestCash, Last, Entry, IInv, TypeInv
<1>4. k.cash = InMemory(LatestCash(a)) /\ k.qty = position[a].qty
  OBVIOUS
<1>5. tick' = [tick EXCEPT ![t] = y] /\ UNCHANGED <<market, account, journal, run>>
  BY DEF LoadPortfolio, AccountOf, IInv, TypeInv
<1>. HIDE DEF k
<1>6. /\ y.pc = "portfolio" /\ y.run = x.run /\ y.last = x.last /\ y.bars = x.bars
      /\ y.book = k /\ DOMAIN y = DOMAIN x
  BY <1>1 DEF TickTyped
<1>. HIDE DEF y
<1>7. TickTyped(y) /\ AccountOf(y) = a
  BY <1>1, <1>3, <1>6 DEF TickTyped, Pcs, AccountOf
<1>8. Fresh(y)
  BY <1>1, <1>4, <1>6, <1>7 DEF Fresh, Behind
<1>9. x.pc \in Holding
  BY <1>1 DEF Holding
<1>. QED
  BY <1>1, <1>5, <1>6, <1>7, <1>8, <1>9, GoOn

-----------------------------------------------------------------------------
(***************************************************************************)
(* The commit of a tick.                                                   *)
(***************************************************************************)
LEMMA TwoMore ==
  ASSUME NEW S, NEW s \in Seq(S), s # <<>>, NEW e1 \in S, NEW e2 \in S,
         NEW w, w = s \o <<e1, e2>>, NEW l, l = Len(s)
  PROVE  /\ l \in Nat \ {0} /\ DOMAIN s = 1 .. l /\ Last(s) = s[l]
         /\ w \in Seq(S) /\ Len(w) = l + 2 /\ DOMAIN w = 1 .. l + 2
         /\ w[l + 1] = e1 /\ w[l + 2] = e2 /\ \A n \in 1 .. l : w[n] = s[n]
<1>. DEFINE new == <<e1, e2>>
<1>1. new \in Seq(S) /\ Len(new) = 2 /\ new[1] = e1 /\ new[2] = e2
  OBVIOUS
<1>2. l \in Nat \ {0} /\ DOMAIN s = 1 .. l /\ Last(s) = s[l]
  BY EmptySeq DEF Last
<1>. HIDE DEF new
<1>3. /\ w \in Seq(S) /\ Len(w) = l + 2
      /\ \A n \in 1 .. l + 2 : w[n] = IF n <= l THEN s[n] ELSE new[n - l]
  BY <1>1, ConcatProperties DEF new
<1>. QED
  BY <1>1, <1>2, <1>3

ChainOK(s) ==
  \A n \in DOMAIN s :
    /\ s[n].after >= 0
    /\ IF n = 1 THEN s[n].after = s[n].amount
       ELSE Abs(s[n].after - s[n - 1].after - s[n].amount) <= 1

LEMMA ChainLedger ==
  ASSUME NEW s \in Seq(Entry), s # <<>>, NEW new, ChainsFrom(Last(s).after, new),
         ChainOK(s), NEW w, w = s \o new
  PROVE  w \in Seq(Entry) /\ w # <<>> /\ ChainOK(w)
<1>1. CASE new = <<>>
  <2>1. w = s
    BY <1>1
  <2>. QED
    BY <2>1
<1>2. ASSUME NEW e1 \in Entry, NEW e2 \in Entry, new = <<e1, e2>>,
             Abs(e1.after - Last(s).after - e1.amount) <= 1,
             Abs(e2.after - e1.after - e2.amount) <= 1,
             e1.after >= 0, e2.after >= 0
      PROVE  w \in Seq(Entry) /\ w # <<>> /\ ChainOK(w)
  <2>. DEFINE l == Len(s)
  <2>2. l \in Nat \ {0} /\ DOMAIN s = 1 .. l /\ Last(s) = s[l]
    BY ONLY s \in Seq(Entry), s # <<>>, EmptySeq DEF Last
  <2>3. w \in Seq(Entry) /\ Len(w) = l + 2 /\ DOMAIN w = 1 .. l + 2
    BY <1>2, TwoMore
  <2>5. w[l + 1] = e1 /\ w[l + 2] = e2 /\ \A n \in 1 .. l : w[n] = s[n]
    BY <1>2, TwoMore
  <2>. HIDE DEF l
  <2>6. ASSUME NEW n \in 1 .. l + 2
        PROVE  /\ w[n].after >= 0
               /\ IF n = 1 THEN w[n].after = w[n].amount
                  ELSE Abs(w[n].after - w[n - 1].after - w[n].amount) <= 1
    <3>1. CASE n \in 1 .. l
      <4>1. w[n] = s[n] /\ (n # 1 => w[n - 1] = s[n - 1])
        BY <2>2, <2>5, <3>1
      <4>. QED
        BY <2>2, <3>1, <4>1 DEF ChainOK
    <3>2. CASE n = l + 1
      <4>1. n # 1 /\ n - 1 = l /\ l \in 1 .. l
        BY ONLY <2>2, <3>2
      <4>2. w[n] = e1 /\ w[n - 1] = Last(s)
        BY ONLY <2>2, <2>5, <3>2, <4>1
      <4>. QED
        BY <1>2, <4>1, <4>2
    <3>3. CASE n = l + 2
      <4>1. n # 1 /\ n - 1 = l + 1
        BY ONLY <2>2, <3>3
      <4>2. w[n] = e2 /\ w[n - 1] = e1
        BY ONLY <2>2, <2>5, <3>3, <4>1
      <4>. QED
        BY <1>2, <4>1, <4>2
    <3>4. n \in 1 .. l \/ n = l + 1 \/ n = l + 2
      BY ONLY <2>2, n \in 1 .. l + 2
    <3>. QED
      BY <3>1, <3>2, <3>3, <3>4
  <2>7. w # <<>>
    BY <2>2, <2>3
  <2>. QED
    BY <2>3, <2>6, <2>7 DEF ChainOK
<1>. QED
  BY <1>1, <1>2 DEF ChainsFrom

LEMMA DatedOrders ==
  ASSUME NEW s \in Seq(Order), NEW last \in Nat, NEW at \in Nat, last < at,
         \A n \in DOMAIN s : s[n].at <= last,
         \A m, n \in DOMAIN s : m < n => s[m].at < s[n].at,
         NEW new, new = <<>> \/ \E o \in Order : new = <<o>> /\ o.at = at,
         NEW w, w = s \o new
  PROVE  /\ w \in Seq(Order)
         /\ \A n \in DOMAIN w : w[n].at <= at
         /\ \A m, n \in DOMAIN w : m < n => w[m].at < w[n].at
<1>. DEFINE l == Len(s)
<1>1. \A n \in 1 .. l : s[n].at \in Nat /\ s[n].at <= last
  <2>1. \A n \in 1 .. l : s[n] \in Order
    BY ElementOfSeq
  <2>. QED
    BY <2>1 DEF Order
<1>2. CASE new = <<>>
  <2>1. w = s
    BY <1>2
  <2>. QED
    BY <1>1, <2>1
<1>3. ASSUME NEW o \in Order, new = <<o>>, o.at = at
      PROVE  /\ w \in Seq(Order)
             /\ \A n \in DOMAIN w : w[n].at <= at
             /\ \A m, n \in DOMAIN w : m < n => w[m].at < w[n].at
  <2>1. new \in Seq(Order) /\ Len(new) = 1 /\ new[1] = o
    BY <1>3
  <2>2. /\ w \in Seq(Order) /\ Len(w) = l + 1 /\ l \in Nat
        /\ \A n \in 1 .. l + 1 : w[n] = IF n <= l THEN s[n] ELSE new[n - l]
    <3>1. /\ s \o new \in Seq(Order)
          /\ Len(s \o new) = Len(s) + Len(new)
          /\ \A n \in 1 .. Len(s) + Len(new) :
               (s \o new)[n] = IF n <= Len(s) THEN s[n] ELSE new[n - Len(s)]
      BY <2>1, ConcatProperties, Zenon
    <3>2. Len(s) \in Nat
      BY LenProperties
    <3>. QED
      BY <2>1, <3>1, <3>2
  <2>3. \A m, n \in 1 .. l : m < n => s[m].at < s[n].at
    OBVIOUS
  <2>. HIDE DEF l
  <2>4. w[l + 1] = o /\ \A n \in 1 .. l : w[n] = s[n]
    BY <2>1, <2>2
  <2>5. DOMAIN w = 1 .. l + 1
    BY <2>2
  <2>6. \A n \in 1 .. l + 1 : w[n].at <= at
    BY <1>1, <1>3, <2>2, <2>4
  <2>7. \A m, n \in 1 .. l + 1 : m < n => w[m].at < w[n].at
    BY <1>1, <1>3, <2>2, <2>3, <2>4
  <2>. QED
    BY <2>2, <2>5, <2>6, <2>7
<1>. QED
  BY <1>2, <1>3

LEMMA DatedSnapshots ==
  ASSUME NEW s \in Seq(Nat), NEW last \in Nat, NEW at \in Nat, last < at,
         \A n \in DOMAIN s : s[n] <= last,
         \A n \in 2 .. Len(s) : s[n - 1] < s[n],
         NEW w, w = Append(s, at)
  PROVE  /\ w \in Seq(Nat)
         /\ \A n \in DOMAIN w : w[n] <= at
         /\ \A n \in 2 .. Len(w) : w[n - 1] < w[n]
<1>. DEFINE l == Len(s)
<1>1. /\ w \in Seq(Nat) /\ Len(w) = l + 1 /\ l \in Nat /\ w[l + 1] = at
      /\ \A n \in 1 .. l : w[n] = s[n]
  BY AppendProperties
<1>2. \A n \in 1 .. l : s[n] \in Nat /\ s[n] <= last
  BY ElementOfSeq
<1>3. DOMAIN w = 1 .. l + 1
  BY <1>1
<1>4. \A n \in 2 .. l : s[n - 1] < s[n]
  OBVIOUS
<1>. HIDE DEF l
<1>5. \A n \in 1 .. l + 1 : w[n] <= at
  BY <1>1, <1>2
<1>6. \A n \in 2 .. l + 1 : w[n - 1] < w[n]
  BY <1>1, <1>2, <1>4
<1>. QED
  BY <1>1, <1>3, <1>5, <1>6

LEMMA CommitStep ==
  ASSUME IInv, NEW t \in Tickers, RunTick(t)
  PROVE  IInv'
<1>. DEFINE x  == tick[t]
            r  == x.run
            a  == AccountOf(x)
            i  == run[r].instrument
            at == Last(x.bars).at
<1>1. PICK os, entries, qty :
        Outcome(x, os, entries, qty) /\ Commits(x, os, entries, qty)
  BY TickOutcome
<1>2. /\ x.pc = "portfolio" /\ TickTyped(x) /\ Fresh(x) /\ Started(r)
      /\ r \in Runs /\ run[r] \in Run
  BY DEF RunTick, IInv, TypeInv, LockInv, TickTyped, Fresh, Started
<1>3. a \in Accounts /\ i \in Instruments /\ run[r].last \in Nat
      /\ x.last = run[r].last
  BY <1>2 DEF Run, AccountOf, Fresh
<1>4. at \in Nat \ {0} /\ run[r].last < at
  BY <1>2, <1>3, LatestTyped DEF Fresh, TickTyped
<1>5. /\ orders' = [orders EXCEPT ![r] = orders[r] \o os]
      /\ ledger' = [ledger EXCEPT ![a] = ledger[a] \o entries]
      /\ snapshots' = [snapshots EXCEPT ![r] = Append(snapshots[r], at)]
      /\ run' = [run EXCEPT ![r] = [run[r] EXCEPT !.last = at]]
      /\ tick' = [tick EXCEPT ![t] = NoTick]
      /\ UNCHANGED market
  BY <1>1 DEF Commits, RunTick
<1>6. PICK c : position' = [position EXCEPT ![a] = [qty |-> qty, avg |-> c]]
  BY <1>1 DEF Commits
<1>7. PICK n \in Nat : /\ n \in {x.book.qty[i], 0, Config[r].size}
                       /\ qty = [x.book.qty EXCEPT ![i] = n]
  BY <1>1 DEF Outcome
<1>8. x.book.qty = position[a].qty
  BY <1>2 DEF Fresh
<1>9. os = <<>> \/ \E o \in Order : os = <<o>> /\ o.at = at
  BY <1>1 DEF Outcome
<1>10. ChainsFrom(Last(ledger[a]).after, entries)
  BY <1>1 DEF Outcome, LatestCash
<1>11. ledger[a] \in Seq(Entry) /\ ledger[a] # <<>> /\ orders[r] \in Seq(Order)
       /\ snapshots[r] \in Seq(Nat)
  BY <1>2, <1>3 DEF IInv, TypeInv, LockInv, AccountOf
<1>. HIDE DEF x, r, a, i, at

<1>12. /\ run' \in [Runs -> Run \cup {NoRun}]
       /\ run'[r].account = run[r].account /\ run'[r].instrument = i
       /\ run'[r].last = at /\ run'[r] \in Run
       /\ \A q \in Runs \ {r} : run'[q] = run[q]
  <2>. DEFINE new == [run[r] EXCEPT !.last = at]
  <2>1. new \in Run /\ new.account = run[r].account /\ new.last = at
        /\ new.instrument = run[r].instrument
    BY <1>2, <1>4 DEF Run
  <2>. HIDE DEF new
  <2>2. run' = [run EXCEPT ![r] = new]
    BY <1>5 DEF new
  <2>. QED
    BY <1>2, <2>1, <2>2 DEF IInv, TypeInv, i
<1>13. \A q \in Runs : Started(q)' => Started(q) /\ run'[q].account = run[q].account
                                     /\ run'[q].instrument = run[q].instrument
  BY <1>2, <1>12 DEF Started, i
<1>14. /\ ledger'[a] = ledger[a] \o entries
       /\ \A b \in Accounts \ {a} : ledger'[b] = ledger[b]
       /\ DOMAIN ledger' = Accounts
  BY <1>3, <1>5 DEF IInv, TypeInv
<1>15. \A b \in Accounts : ChainOK(ledger[b])
  BY DEF IInv, LedgerChains, NeverOverdrawn, ChainOK
<1>16. ledger'[a] \in Seq(Entry) /\ ledger'[a] # <<>> /\ ChainOK(ledger'[a])
  BY <1>3, <1>10, <1>11, <1>14, <1>15, ChainLedger
<1>17. LedgerChains' /\ NeverOverdrawn'
  <2>1. \A b \in Accounts : ChainOK(ledger'[b])
    BY <1>14, <1>15, <1>16
  <2>. QED
    BY <2>1 DEF LedgerChains, NeverOverdrawn, ChainOK
<1>18. ledger' \in [Accounts -> Seq(Entry)] /\ \A b \in Accounts :
         ledger[b] # <<>> => ledger'[b] # <<>>
  <2>1. ledger' = [b \in Accounts |-> ledger'[b]]
    BY <1>5, <1>14
  <2>. QED
    BY <1>14, <1>16, <2>1 DEF IInv, TypeInv

<1>19. /\ DOMAIN position' = Accounts /\ position'[a].qty = qty
       /\ \A b \in Accounts \ {a} : position'[b] = position[b]
       /\ qty \in [Instruments -> Nat] /\ qty[i] = n
       /\ \A j \in Instruments \ {i} : qty[j] = position[a].qty[j]
  BY <1>3, <1>6, <1>7, <1>8 DEF IInv, TypeInv
<1>20. NoPyramid'
  <2>. SUFFICES ASSUME NEW b \in Accounts, NEW j \in Instruments,
                       position'[b].qty[j] # 0
                PROVE  \E q \in Runs : Started(q)' /\ run'[q].account = b
                                       /\ position'[b].qty[j] = Config[q].size
    BY DEF NoPyramid, RunsOf
  <2>1. \A q \in Runs : Started(q) => Started(q)' /\ run'[q].account = run[q].account
    <3>1. run'[r].last # NoRun.last
      BY <1>4, <1>12 DEF NoRun
    <3>. QED
      BY <1>12, <3>1 DEF Started
  <2>2. CASE position'[b].qty[j] = position[b].qty[j]
    BY <2>1, <2>2 DEF IInv, NoPyramid, RunsOf
  <2>3. CASE position'[b].qty[j] # position[b].qty[j]
    <3>1. b = a /\ j = i /\ n # 0 /\ n # position[a].qty[i]
      BY <1>19, <2>3
    <3>2. n = Config[r].size
      BY <1>7, <1>8, <3>1
    <3>. QED
      BY <1>2, <1>12, <1>19, <2>1, <3>1, <3>2 DEF a, r, AccountOf
  <2>. QED
    BY <2>2, <2>3

<1>21. /\ orders' \in [Runs -> Seq(Order)]
       /\ \A m \in DOMAIN orders'[r] : orders'[r][m].at <= at
       /\ \A m, k \in DOMAIN orders'[r] : m < k => orders'[r][m].at < orders'[r][k].at
       /\ \A q \in Runs \ {r} : orders'[q] = orders[q]
  <2>. DEFINE s == orders[r]
              w == s \o os
  <2>1. /\ \A m \in DOMAIN s : s[m].at <= run[r].last
        /\ \A m, k \in DOMAIN s : m < k => s[m].at < s[k].at
    BY <1>2 DEF IInv, DateInv, DateProcessedOnce, r
  <2>. HIDE DEF s
  <2>2. /\ w \in Seq(Order) /\ \A m \in DOMAIN w : w[m].at <= at
        /\ \A m, k \in DOMAIN w : m < k => w[m].at < w[k].at
    BY <1>3, <1>4, <1>9, <1>11, <2>1, DatedOrders DEF s
  <2>3. orders' = [orders EXCEPT ![r] = w]
    BY <1>5 DEF s
  <2>. HIDE DEF w
  <2>. QED
    BY <1>2, <2>2, <2>3 DEF IInv, TypeInv, r
<1>22. /\ snapshots' \in [Runs -> Seq(Nat)]
       /\ \A m \in DOMAIN snapshots'[r] : snapshots'[r][m] <= at
       /\ \A m \in 2 .. Len(snapshots'[r]) : snapshots'[r][m - 1] < snapshots'[r][m]
       /\ \A q \in Runs \ {r} : snapshots'[q] = snapshots[q]
  <2>. DEFINE s == snapshots[r]
              w == Append(s, at)
  <2>1. /\ \A m \in DOMAIN s : s[m] <= run[r].last
        /\ \A m \in 2 .. Len(s) : s[m - 1] < s[m]
    BY <1>2 DEF IInv, DateInv, DateProcessedOnce, r
  <2>. HIDE DEF s
  <2>2. /\ w \in Seq(Nat) /\ \A m \in DOMAIN w : w[m] <= at
        /\ \A m \in 2 .. Len(w) : w[m - 1] < w[m]
    BY <1>3, <1>4, <1>11, <2>1, DatedSnapshots DEF s
  <2>3. snapshots' = [snapshots EXCEPT ![r] = w]
    BY <1>5 DEF s
  <2>. HIDE DEF w
  <2>. QED
    BY <1>2, <2>2, <2>3 DEF IInv, TypeInv, r
<1>23. DateInv'
  <2>1. DateProcessedOnce'
    BY <1>21, <1>22 DEF IInv, DateInv, DateProcessedOnce
  <2>2. \A q \in Runs : /\ \A m \in DOMAIN snapshots'[q] : snapshots'[q][m] <= run'[q].last
                        /\ \A m \in DOMAIN orders'[q] : orders'[q][m].at <= run'[q].last
    BY <1>12, <1>21, <1>22 DEF IInv, DateInv
  <2>3. bars' = bars
    BY <1>5 DEF market
  <2>4. bars[i] # <<>> /\ at <= Last(bars[i]).at
    BY <1>2 DEF Fresh, Behind, i, r, at
  <2>5. ASSUME NEW q \in Runs, Started(q)', run'[q].last # 0
        PROVE  bars'[run'[q].instrument] # <<>>
               /\ run'[q].last <= Last(bars'[run'[q].instrument]).at
    BY <1>12, <1>13, <2>3, <2>4, <2>5 DEF IInv, DateInv
  <2>. QED
    BY <2>1, <2>2, <2>3, <2>5 DEF IInv, DateInv

<1>24. TypeInv'
  <2>1. \A u \in Tickers : TickTyped(tick'[u])
    BY <1>5, NoTickTyped DEF IInv, TypeInv
  <2>2. DOMAIN tick' = Tickers /\ bars' = bars
    BY <1>5 DEF IInv, TypeInv, market
  <2>3. \A b \in Accounts : position'[b].qty \in [Instruments -> Nat]
    BY <1>19 DEF IInv, TypeInv
  <2>. QED
    BY <1>12, <1>18, <1>19, <1>21, <1>22, <2>1, <2>2, <2>3 DEF IInv, TypeInv
<1>25. LockInv'
  <2>1. tick'[t] = NoTick /\ \A u \in Tickers \ {t} : tick'[u] = tick[u]
    BY <1>5 DEF IInv, TypeInv
  <2>2. ASSUME NEW u \in Tickers, tick'[u].pc # "idle"
        PROVE  /\ u # t /\ tick'[u] = tick[u] /\ tick[u].run \in Runs \ {r}
               /\ run'[tick[u].run] = run[tick[u].run]
               /\ tick[u].pc \in Holding => AccountOf(tick[u]) \in Accounts \ {a}
    <3>1. u # t /\ tick'[u] = tick[u] /\ tick[u].run \in Runs
      BY <2>1, <2>2, NoTickTyped DEF IInv, TypeInv, TickTyped
    <3>2. tick[u].run # r /\ (tick[u].pc \in Holding => AccountOf(tick[u]) # a)
      BY <1>2, <2>2, <3>1 DEF IInv, LockInv, Alone, Holding, x, r, a
    <3>3. AccountOf(tick[u]) \in Accounts
      BY <2>2, <3>1 DEF IInv, TypeInv, LockInv, Fresh, Started, AccountOf, Run
    <3>. QED
      BY <1>12, <3>1, <3>2, <3>3
  <2>3. Alone'
    BY <2>2 DEF IInv, LockInv, Alone, AccountOf
  <2>4. ASSUME NEW u \in Tickers PROVE Fresh(tick[u])'
    <3>. SUFFICES ASSUME tick'[u].pc # "idle" PROVE Fresh(tick[u])'
      BY DEF Fresh
    <3>1. Fresh(tick[u]) /\ tick'[u] = tick[u] /\ run'[tick[u].run] = run[tick[u].run]
      BY <2>2 DEF IInv, LockInv
    <3>2. tick[u].pc \in Holding => /\ ledger'[AccountOf(tick[u])] = ledger[AccountOf(tick[u])]
                                    /\ position'[AccountOf(tick[u])] = position[AccountOf(tick[u])]
      BY <1>14, <1>19, <2>2
    <3>. QED
      BY <1>5, <3>1, <3>2
      DEF Fresh, Behind, Started, AccountOf, LatestCash, Holding, market
  <2>5. \A q \in Runs : Started(q)' => ledger'[run'[q].account] # <<>>
    <3>1. \A q \in Runs : Started(q) => run[q].account \in Accounts
      BY DEF IInv, TypeInv, Started, Run
    <3>. QED
      BY <1>13, <1>18, <3>1 DEF IInv, LockInv
  <2>. QED
    BY <2>3, <2>4, <2>5 DEF LockInv
<1>. QED
  BY <1>17, <1>20, <1>23, <1>24, <1>25 DEF IInv

-----------------------------------------------------------------------------
(***************************************************************************)
(* Every step keeps the invariant.                                         *)
(***************************************************************************)
LEMMA NextStep == IInv /\ [Next]_vars => IInv'
<1>. SUFFICES ASSUME IInv, [Next]_vars PROVE IInv'
  OBVIOUS
<1>1. CASE UNCHANGED vars
  <2>1. UNCHANGED <<bars, run, ledger, position, orders, snapshots, tick>>
    BY <1>1 DEF vars, market, account, journal
  <2>. QED
    BY <2>1
    DEF IInv, TypeInv, LockInv, Alone, Fresh, Behind, Started, AccountOf, LatestCash,
        DateInv, DateProcessedOnce, LedgerChains, NeverOverdrawn, NoPyramid, RunsOf
<1>2. CASE \E i \in Instruments :
             \/ \E d \in Dates, c \in Closes : StoreBar(i, [at |-> d, close |-> c])
             \/ \E c \in Closes : \E k \in DOMAIN bars[i] : CorrectBar(i, k, c)
  BY <1>2, MarketStep
<1>3. CASE \E a \in Accounts : CreateAccount(a)
  BY <1>3, AccountStep
<1>4. CASE \E r \in Runs, a \in Accounts, i \in Instruments : StartRun(r, a, i)
  BY <1>4, RunStep
<1>5. CASE \E t \in Tickers, r \in Runs : LoadRun(t, r)
  BY <1>5, LoadRunStep
<1>6. ASSUME NEW t \in Tickers, TickStep(t) \/ AbortTick(t)
      PROVE  IInv'
  <2>1. CASE LoadAccount(t)
    BY <2>1, LoadAccountStep
  <2>2. CASE ListBars(t)
    BY <2>2, ListBarsStep
  <2>3. CASE LoadPortfolio(t)
    BY <2>3, LoadPortfolioStep
  <2>4. CASE RunTick(t)
    BY <2>4, CommitStep
  <2>5. CASE AbortTick(t)
    BY <2>5, AbortStep DEF AbortTick
  <2>. QED
    BY <1>6, <2>1, <2>2, <2>3, <2>4, <2>5 DEF TickStep
<1>. QED
  BY <1>1, <1>2, <1>3, <1>4, <1>5, <1>6 DEF Next

LEMMA AlwaysIInv == Spec => []IInv
BY InitInv, NextStep, PTL DEF Spec

(***************************************************************************)
(* LedgerChains (PaperTrading): however many ticks, runs and requests work *)
(* on an account, its cash_after column is the running sum of its amounts, *)
(* to the digit by which three roundings may disagree.                     *)
(***************************************************************************)
THEOREM LedgersChain == Spec => []LedgerChains
<1>1. IInv => LedgerChains
  BY DEF IInv
<1>. QED
  BY <1>1, AlwaysIInv, PTL

(***************************************************************************)
(* NeverOverdrawn (PaperTrading): the check in apply_fill, made on cash    *)
(* read earlier in the transaction, keeps every balance from going below   *)
(* zero, for any prices and rates.                                         *)
(***************************************************************************)
THEOREM AccountsNeverOverdrawn == Spec => []NeverOverdrawn
<1>1. IInv => NeverOverdrawn
  BY DEF IInv
<1>. QED
  BY <1>1, AlwaysIInv, PTL

(***************************************************************************)
(* DateProcessedOnce (PaperTrading): run_one_tick is idempotent for a date *)
(* and never goes back, whatever bars are stored or corrected meanwhile.   *)
(***************************************************************************)
THEOREM DatesProcessedOnce == Spec => []DateProcessedOnce
<1>1. IInv => DateProcessedOnce
  BY DEF IInv, DateInv
<1>. QED
  BY <1>1, AlwaysIInv, PTL

(***************************************************************************)
(* NoPyramid (PaperTrading): MACrossStrategy buys only what is not held    *)
(* and sells all of it, also when several runs share the position.         *)
(***************************************************************************)
THEOREM PositionsNeverPyramid == Spec => []NoPyramid
<1>1. IInv => NoPyramid
  BY DEF IInv
<1>. QED
  BY <1>1, AlwaysIInv, PTL

-----------------------------------------------------------------------------
(***************************************************************************)
(* The sums of the books: of what each order of a run is worth, v, and of  *)
(* these sums over the runs R.                                             *)
(***************************************************************************)
Worth == [Order -> Int]

SharesOf == [o \in Order |-> Shares(o)]
FlowIn   == [o \in Order |-> Flow(o)]
SlackIn  == [o \in Order |-> Slack(o)]

Sum(v, s)      == SumOver([n \in DOMAIN s |-> v[s[n]]])
Total(v, s, R) == SumOver([r \in R |-> Sum(v, s[r])])

Balanced(x, R) ==
  2 * Abs(x - Total(FlowIn, orders, R)) <= Total(SlackIn, orders, R)

\* What an instrument has brought an account, at cost.
Gain(a, i) == realized[a][i] - position[a].qty[i] * position[a].avg[i]

Books(a) ==
  /\ Balanced(LatestCash(a) - ledger[a][1].amount, RunsOf(a))
  /\ \A i \in Instruments : Balanced(Gain(a, i), RunsOn(a, i))

Holds(a, i) == position[a].qty[i] = Total(SharesOf, orders, RunsOn(a, i))

(***************************************************************************)
(* Costs, profits and holdings: what a tick has loaded is what the rows    *)
(* still say, in the unit of memory.                                       *)
(***************************************************************************)
BookOf(a) == [cash     |-> InMemory(LatestCash(a)),
              qty      |-> position[a].qty,
              cost     |-> HeldCost(position[a]),
              realized |-> InMemory(SumOver(realized[a]))]

FreshBook(x) == x.pc = "portfolio" => x.book = BookOf(AccountOf(x))

BookInv ==
  /\ TypeOK
  /\ \A t \in Tickers : FreshBook(tick[t])
  /\ \A r \in Runs : ~Started(r) => orders[r] = <<>>
  /\ \A a \in Accounts : ledger[a] = <<>> =>
       \A i \in Instruments : position[a].qty[i] = 0 /\ realized[a][i] = 0
  /\ \A a \in Accounts : ledger[a] # <<>> => Books(a)
  /\ \A a \in Accounts, i \in Instruments : Holds(a, i)

\* Shares cost something or nothing, and none cost nothing.
Valued(bk) ==
  /\ bk \in Portfolio
  /\ \A j \in Instruments : /\ bk.cost[j] \in Nat
                            /\ bk.qty[j] = 0 => bk.cost[j] = 0

\* The orders a tick adds, and the portfolio it leaves.
Trades(x, os, bk) ==
  LET i       == run[x.run].instrument
      latest  == Last(x.bars)
      close   == InMemory(latest.close)
      closes  == [n \in DOMAIN x.bars |-> x.bars[n].close]
      intents == OnBar(Config[x.run], closes, x.book.qty[i])
  IN  \/ intents = {} /\ os = <<>> /\ bk = x.book
      \/ \E o \in intents, st \in {"filled", "skipped", "risk_rejected"} :
           LET f == ExecuteMarketOrder(o, close)
           IN  /\ st = OrderStatus(x.book, i, o, close, MaxOrderValue[x.run])
               /\ os = <<[at |-> latest.at, status |-> st, fill |-> RecordFill(f)]>>
               /\ bk = IF st = "filled" THEN ApplyFill(x.book, i, f) ELSE x.book

LEMMA DivExact ==
  ASSUME NEW c \in Nat, NEW q \in Nat \ {0}, NEW n, n = c * q
  PROVE  n \div q = c
<1>. DEFINE e == c - (n \div q)
<1>1. n \in Int
  OBVIOUS
<1>2. n = q * (n \div q) + (n % q) /\ n % q \in 0 .. q - 1 /\ n \div q \in Int
  BY <1>1
<1>3. e \in Int /\ q * e = n % q /\ n \div q = c - e
  BY <1>2
<1>. HIDE DEF e
<1>4. q * e >= 0 /\ q * e < q
  BY <1>2, <1>3
<1>5. e < 1
  BY <1>3, <1>4
<1>6. e > -1
  BY <1>3, <1>4
<1>7. e = 0
  BY <1>3, <1>5, <1>6
<1>. QED
  BY <1>3, <1>7

(***************************************************************************)
(* What a fill that is made does to the portfolio, and rounding to what is *)
(* recorded of it.                                                         *)
(***************************************************************************)
Moved(book, bk, i, f) ==
  /\ f \in Fill /\ Valued(bk)
  /\ bk.cash = book.cash + CashFlow(f)
  /\ \A j \in Instruments \ {i} : /\ bk.qty[j] = book.qty[j]
                                 /\ bk.cost[j] = book.cost[j]
  /\ \/ /\ f.side = "buy" /\ book.qty[i] = 0 /\ bk.qty[i] = f.qty
        /\ bk.cost[i] = -CashFlow(f) /\ bk.realized = book.realized
     \/ /\ f.side = "sell" /\ book.qty[i] = f.qty
        /\ bk.qty[i] = 0 /\ bk.cost[i] = 0
        /\ bk.realized = book.realized + CashFlow(f) - book.cost[i]

LEMMA FlowTyped ==
  ASSUME NEW f \in Fill
  PROVE  /\ CashFlow(f) \in Int /\ Notional(f) \in Nat /\ f.commission \in Nat
         /\ f.side = "buy" => -CashFlow(f) \in Nat
<1>1. Notional(f) \in Nat /\ f.commission \in Nat
  BY DEF Notional, Fill
<1>. QED
  BY <1>1 DEF CashFlow, NotionalAmount, CommissionAmount

\* A purchase of what is not held, or a sale of all that is.
LEMMA AppliedFill ==
  ASSUME NEW book, Valued(book), NEW i \in Instruments,
         NEW f \in Fill, NEW bk, bk = ApplyFill(book, i, f),
         \/ f.side = "buy" /\ book.qty[i] = 0
         \/ f.side = "sell" /\ f.qty = book.qty[i]
  PROVE  Moved(book, bk, i, f)
<1>1. /\ book \in Portfolio /\ book.cash \in Int /\ book.realized \in Int
      /\ book.qty \in [Instruments -> Nat] /\ book.cost \in [Instruments -> Int]
      /\ book.qty[i] \in Nat /\ book.cost[i] \in Nat
      /\ \A j \in Instruments : /\ book.cost[j] \in Nat
                                /\ book.qty[j] = 0 => book.cost[j] = 0
  BY DEF Portfolio, Valued
<1>2. /\ f.qty \in Nat \ {0} /\ CashFlow(f) \in Int
      /\ f.side = "buy" => -CashFlow(f) \in Nat
  BY FlowTyped DEF Fill
<1>3. ASSUME NEW c \in Int, NEW q \in Nat, NEW k \in Nat, NEW z \in Int,
             q = 0 => k = 0,
             bk = [cash     |-> book.cash + c,
                   qty      |-> [book.qty EXCEPT ![i] = q],
                   cost     |-> [book.cost EXCEPT ![i] = k],
                   realized |-> z]
      PROVE  /\ Valued(bk) /\ bk.cash = book.cash + c /\ bk.realized = z
             /\ bk.qty[i] = q /\ bk.cost[i] = k
             /\ \A j \in Instruments \ {i} : /\ bk.qty[j] = book.qty[j]
                                            /\ bk.cost[j] = book.cost[j]
  BY <1>1, <1>3 DEF Portfolio, Valued
<1>4. CASE f.side = "buy"
  <2>. DEFINE c == CashFlow(f)
              q == f.qty
              k == -CashFlow(f)
              z == book.realized
  <2>1. book.qty[i] = 0 /\ book.cost[i] = 0
    BY <1>1, <1>4
  <2>2. /\ book.qty[i] + f.qty = q /\ book.cost[i] - CashFlow(f) = k
        /\ q \in Nat \ {0} /\ k \in Nat /\ z \in Int /\ c \in Int
    BY <1>1, <1>2, <1>4, <2>1
  <2>3. bk = [cash     |-> book.cash + CashFlow(f),
              qty      |-> [book.qty EXCEPT ![i] = book.qty[i] + f.qty],
              cost     |-> [book.cost EXCEPT ![i] = book.cost[i] - CashFlow(f)],
              realized |-> z]
    BY <1>1, <1>4 DEF ApplyFill, Portfolio
  <2>4. bk = [cash     |-> book.cash + c,
              qty      |-> [book.qty EXCEPT ![i] = q],
              cost     |-> [book.cost EXCEPT ![i] = k],
              realized |-> z]
    BY <2>2, <2>3
  <2>. HIDE DEF c, q, k, z
  <2>5. /\ Valued(bk) /\ bk.cash = book.cash + c /\ bk.realized = z
        /\ bk.qty[i] = q /\ bk.cost[i] = k
        /\ \A j \in Instruments \ {i} : /\ bk.qty[j] = book.qty[j]
                                       /\ bk.cost[j] = book.cost[j]
    BY <1>3, <2>2, <2>4
  <2>. QED
    BY <1>4, <2>1, <2>5 DEF Moved, c, q, k, z
<1>5. CASE f.side = "sell"
  <2>. DEFINE c == CashFlow(f)
              z == book.realized + CashFlow(f) - book.cost[i]
  <2>1. CostOfSold(book, i, f) = book.cost[i]
    <3>. DEFINE m == book.qty[i]
                k == book.cost[i]
                n == k * m
    <3>1. m \in Nat \ {0} /\ k \in Nat /\ n = k * m /\ f.qty = m
      BY <1>1, <1>2, <1>5
    <3>2. CostOfSold(book, i, f) = n \div m
      BY <3>1 DEF CostOfSold
    <3>. HIDE DEF m, k, n
    <3>3. n \div m = k
      BY <3>1, DivExact
    <3>. QED
      BY <3>2, <3>3 DEF k
  <2>2. bk = [cash     |-> book.cash + CashFlow(f),
              qty      |-> [book.qty EXCEPT ![i] = book.qty[i] - f.qty],
              cost     |-> [book.cost EXCEPT ![i] = book.cost[i] - book.cost[i]],
              realized |-> z]
    BY <1>1, <1>5, <2>1 DEF ApplyFill, Portfolio
  <2>3. book.cost[i] - book.cost[i] = 0 /\ book.qty[i] - f.qty = 0
        /\ z \in Int /\ c \in Int
    BY <1>1, <1>2, <1>5
  <2>4. bk = [cash     |-> book.cash + c,
              qty      |-> [book.qty EXCEPT ![i] = 0],
              cost     |-> [book.cost EXCEPT ![i] = 0],
              realized |-> z]
    BY <2>2, <2>3
  <2>. HIDE DEF c, z
  <2>5. /\ Valued(bk) /\ bk.cash = book.cash + c /\ bk.realized = z
        /\ bk.qty[i] = 0 /\ bk.cost[i] = 0
        /\ \A j \in Instruments \ {i} : /\ bk.qty[j] = book.qty[j]
                                       /\ bk.cost[j] = book.cost[j]
    BY <1>3, <2>3, <2>4
  <2>. QED
    BY <1>5, <2>5 DEF Moved, c, z
<1>. QED
  BY <1>4, <1>5

\* The flow of the row of a fill, against that of the fill.
LEMMA RecordedFlow ==
  ASSUME NEW f \in Fill, NEW g, g = RecordFill(f), NEW u, u = ColumnUnit
  PROVE  /\ CashFlow(f) \in Int /\ CashFlow(g) \in Int /\ f.qty \in Nat \ {0}
         /\ u \in Nat \ {0} /\ u * CashFlow(g) \in Int /\ u * f.qty \in Int
         /\ Near(u * CashFlow(g), CashFlow(f), u * f.qty + u)
<1>1. g \in Fill /\ g.side = f.side /\ g.qty = f.qty
      /\ g.price = ToColumn(f.price) /\ g.commission = ToColumn(f.commission)
  BY RecordedFill
<1>. DEFINE p == f.price
            q == f.qty
            k == f.commission
            P == g.price
            K == g.commission
<1>2. /\ p \in Nat /\ q \in Nat \ {0} /\ k \in Nat /\ P \in Nat /\ K \in Nat
      /\ f.side \in Side /\ u \in Nat \ {0}
  BY <1>1, ColumnAssumption DEF Fill
<1>3. Near(u * P, p, u) /\ Near(u * K, k, u)
  BY <1>1, <1>2, ColumnFacts DEF InMemory
<1>4. /\ f.side = "buy" =>  CashFlow(f) = -(p * q) - k /\ CashFlow(g) = -(P * q) - K
      /\ f.side = "sell" => CashFlow(f) = p * q - k /\ CashFlow(g) = P * q - K
  BY <1>1, <1>2 DEF CashFlow, NotionalAmount, CommissionAmount, Notional
<1>. HIDE DEF p, q, k, P, K
<1>5. /\ u * P \in Int /\ u * K \in Int /\ P * q \in Int /\ p * q \in Int
      /\ u * q \in Int
      /\ u * (P * q) = q * (u * P) /\ u * (P * q) \in Int
      /\ u * (-(P * q) - K) = -(u * (P * q)) - u * K
      /\ u * (P * q - K) = u * (P * q) - u * K
  BY <1>2
<1>6. Near(u * (P * q), p * q, u * q)
  <2>. DEFINE e == u * P - p
  <2>1. e \in Int /\ 2 * e <= u /\ -2 * e <= u
    BY <1>2, <1>3, <1>5 DEF Near
  <2>2. q * (2 * e) <= q * u /\ q * (-2 * e) <= q * u
    BY <1>2, <2>1
  <2>3. q * (2 * e) = 2 * (u * (P * q) - p * q)
        /\ q * (-2 * e) = 2 * (p * q - u * (P * q)) /\ q * u = u * q
    BY <1>2, <1>5
  <2>. QED
    BY <2>2, <2>3 DEF Near
<1>7. CASE f.side = "buy"
  BY <1>2, <1>3, <1>4, <1>5, <1>6, <1>7 DEF Near, q
<1>8. CASE f.side = "sell"
  BY <1>2, <1>3, <1>4, <1>5, <1>6, <1>8 DEF Near, q
<1>. QED
  BY <1>2, <1>7, <1>8 DEF Side

\* Half a digit for an amount that is rounded, or a whole number of them.
LEMMA Digits ==
  ASSUME NEW u \in Nat \ {0}, NEW x \in Int, NEW n \in Int,
         2 * (u * x) <= u * n, -2 * (u * x) <= u * n
  PROVE  2 * Abs(x) <= n
<1>1. u * (2 * x) = 2 * (u * x) /\ u * (-2 * x) = -2 * (u * x)
  OBVIOUS
<1>2. u * (2 * x) <= u * n /\ u * (-2 * x) <= u * n
      /\ 2 * x \in Int /\ -2 * x \in Int
  BY <1>1
<1>3. 2 * x <= n /\ -2 * x <= n
  BY <1>2, Cancel
<1>. QED
  BY <1>3 DEF Abs

\* The balance after a fill.
LEMMA CashMoves ==
  ASSUME NEW c \in Int, NEW f \in Fill,
         NEW d, d = ToColumn(InMemory(c) + CashFlow(f))
  PROVE  d \in Int
         /\ 2 * Abs((d - c) - CashFlow(RecordFill(f))) <= 2 * f.qty + 1
<1>. DEFINE u == ColumnUnit
            F == CashFlow(f)
            G == CashFlow(RecordFill(f))
            q == f.qty
            x == (d - c) - G
<1>1. /\ F \in Int /\ G \in Int /\ q \in Nat \ {0} /\ u \in Nat \ {0}
      /\ u * G \in Int /\ u * q \in Int /\ Near(u * G, F, u * q + u)
  BY RecordedFlow
<1>2. d \in Int /\ Near(u * d, u * c + F, u) /\ u * c \in Int /\ u * d \in Int
  <2>1. InMemory(c) + F \in Int /\ InMemory(c) = u * c /\ u * c \in Int
    BY <1>1 DEF InMemory
  <2>. HIDE DEF F, u
  <2>2. d \in Int /\ Near(InMemory(d), InMemory(c) + F, u)
    BY <2>1, ColumnFacts DEF F, u
  <2>3. InMemory(d) = u * d /\ u * d \in Int
    BY <1>1, <2>2 DEF InMemory, u
  <2>. QED
    BY <2>1, <2>2, <2>3
<1>. HIDE DEF u, F, G, q
<1>3. x \in Int /\ u * x = u * d - u * c - u * G
      /\ u * (q + 2) = u * q + 2 * u
  BY <1>1, <1>2
<1>4. 2 * (u * x) <= u * (q + 2) /\ -2 * (u * x) <= u * (q + 2)
  BY <1>1, <1>2, <1>3 DEF Near
<1>. HIDE DEF x
<1>5. 2 * Abs(x) <= q + 2
  BY <1>1, <1>3, <1>4, Digits
<1>6. Abs(x) \in Int
  BY <1>3 DEF Abs
<1>7. 2 * Abs(x) <= 2 * q + 1
  BY <1>1, <1>5, <1>6
<1>. QED
  BY <1>2, <1>7 DEF x, q, G

\* The avg_cost of what was bought.
LEMMA BuyMoves ==
  ASSUME NEW f \in Fill, f.side = "buy",
         NEW v, v = Nearest(-CashFlow(f), f.qty * ColumnUnit)
  PROVE  v \in Nat
         /\ 2 * Abs(-(f.qty * v) - CashFlow(RecordFill(f))) <= 2 * f.qty + 1
<1>. DEFINE u == ColumnUnit
            F == CashFlow(f)
            G == CashFlow(RecordFill(f))
            q == f.qty
            w == q * u
            x == -(q * v) - G
<1>1. /\ F \in Int /\ G \in Int /\ q \in Nat \ {0} /\ u \in Nat \ {0}
      /\ u * G \in Int /\ u * q \in Int /\ Near(u * G, F, u * q + u)
  BY RecordedFlow
<1>2. -F \in Nat
  BY FlowTyped
<1>3. v = Nearest(-F, w)
  OBVIOUS
<1>. HIDE DEF u, F, G, q
<1>9. w \in Nat \ {0}
  BY <1>1
<1>. HIDE DEF w
<1>4. v \in Nat /\ w * v \in Int /\ Near(w * v, -F, w)
  BY <1>2, <1>3, <1>9, NearestBounds
<1>5. w * v = u * (q * v) /\ w = u * q /\ q * v \in Int
  BY <1>1, <1>4 DEF w
<1>6. x \in Int /\ u * x = -(u * (q * v)) - u * G
      /\ u * (2 * q + 1) = 2 * (u * q) + u
  BY <1>1, <1>4, <1>5
<1>7. 2 * (u * x) <= u * (2 * q + 1) /\ -2 * (u * x) <= u * (2 * q + 1)
  BY <1>1, <1>4, <1>5, <1>6 DEF Near
<1>. HIDE DEF x
<1>8. 2 * Abs(x) <= 2 * q + 1
  BY <1>1, <1>6, <1>7, Digits
<1>. QED
  BY <1>4, <1>8 DEF x, q, G

\* The realized profit of what was sold.
LEMMA SellMoves ==
  ASSUME NEW z \in Int, NEW v \in Nat, NEW f \in Fill,
         NEW y, y = ToColumn(InMemory(z) + CashFlow(f) - f.qty * InMemory(v))
  PROVE  y \in Int
         /\ 2 * Abs((y - z + f.qty * v) - CashFlow(RecordFill(f))) <= 2 * f.qty + 1
<1>. DEFINE u == ColumnUnit
            F == CashFlow(f)
            G == CashFlow(RecordFill(f))
            q == f.qty
            x == (y - z + q * v) - G
<1>1. /\ F \in Int /\ G \in Int /\ q \in Nat \ {0} /\ u \in Nat \ {0}
      /\ u * G \in Int /\ u * q \in Int /\ Near(u * G, F, u * q + u)
  BY RecordedFlow
<1>2. /\ InMemory(z) = u * z /\ u * z \in Int /\ q * v \in Int
      /\ q * InMemory(v) = u * (q * v) /\ u * (q * v) \in Int
  BY <1>1 DEF InMemory
<1>3. y \in Int /\ u * y \in Int /\ Near(u * y, u * z + F - u * (q * v), u)
  <2>. DEFINE s == InMemory(z) + F - q * InMemory(v)
  <2>1. s = u * z + F - u * (q * v) /\ s \in Int
    BY <1>1, <1>2
  <2>2. y = ToColumn(s)
    OBVIOUS
  <2>. HIDE DEF s
  <2>3. y \in Int /\ Near(InMemory(y), s, u)
    BY <2>1, <2>2, ColumnFacts
  <2>4. InMemory(y) = u * y /\ u * y \in Int
    BY <1>1, <2>3 DEF InMemory
  <2>. QED
    BY <2>1, <2>3, <2>4
<1>. HIDE DEF u, F, G, q
<1>4. x \in Int /\ u * x = u * y - u * z + u * (q * v) - u * G
      /\ u * (q + 2) = u * q + 2 * u
  BY <1>1, <1>2, <1>3
<1>5. 2 * (u * x) <= u * (q + 2) /\ -2 * (u * x) <= u * (q + 2)
  BY <1>1, <1>2, <1>3, <1>4 DEF Near
<1>. HIDE DEF x
<1>6. 2 * Abs(x) <= q + 2 /\ Abs(x) \in Int
  BY <1>1, <1>4, <1>5, Digits DEF Abs
<1>7. 2 * Abs(x) <= 2 * q + 1
  BY <1>1, <1>6
<1>. QED
  BY <1>3, <1>7 DEF x, q, G

\* What was rounded is not rounded again.
LEMMA AverageKept ==
  ASSUME NEW n \in Nat \ {0}, NEW v \in Nat
  PROVE  Nearest(n * InMemory(v), n * ColumnUnit) = v
<1>. DEFINE d == n * ColumnUnit
<1>1. d \in Nat \ {0} /\ n * InMemory(v) = d * v
  BY ColumnAssumption DEF InMemory
<1>. HIDE DEF d
<1>2. Nearest(d * v, d) = v
  BY <1>1, NearestExact
<1>. QED
  BY <1>1, <1>2 DEF d

(***************************************************************************)
(* What a tick that commits leaves in the rows.                            *)
(***************************************************************************)
LeavesCash(x, rows, bk) ==
  IF rows = <<>> THEN bk.cash = x.book.cash
  ELSE Last(rows).after = ToColumn(bk.cash)

Settles(x, os, bk) ==
  LET a == AccountOf(x)
      i == run[x.run].instrument
  IN  /\ Trades(x, os, bk)
      /\ orders' = [orders EXCEPT ![x.run] = orders[x.run] \o os]
      /\ \E rows \in Seq(Entry) :
           /\ ledger' = [ledger EXCEPT ![a] = ledger[a] \o rows]
           /\ LeavesCash(x, rows, bk)
      /\ UpsertPositions(a, i, bk)

\* What is known of a tick that is about to trade.
LEMMA TradingTick ==
  ASSUME IInv, BookInv, NEW t \in Tickers, tick[t].pc = "portfolio",
         NEW x, x = tick[t]
  PROVE  /\ x.run \in Runs /\ Started(x.run) /\ run[x.run] \in Run
         /\ AccountOf(x) \in Accounts /\ run[x.run].instrument \in Instruments
         /\ Config[x.run] \in Strategy
         /\ x.bars \in Seq(Bar) /\ x.bars # <<>>
         /\ Last(x.bars).close \in Nat /\ Last(x.bars).at \in Nat
         /\ InMemory(Last(x.bars).close) \in Nat
         /\ x.book \in Portfolio /\ Valued(x.book)
         /\ x.book = BookOf(AccountOf(x))
<1>1. x.run \in Runs /\ Fresh(x) /\ x.pc = "portfolio" /\ TickTyped(x)
  BY DEF IInv, TypeInv, LockInv, TickTyped
<1>2. Started(x.run) /\ x.bars # <<>> /\ run[x.run] \in Run
  BY <1>1 DEF Fresh, IInv, TypeInv, Started
<1>3. AccountOf(x) \in Accounts /\ run[x.run].instrument \in Instruments
  BY <1>2 DEF Run, AccountOf
<1>4. x.bars \in Seq(Bar)
  BY <1>1 DEF TickTyped
<1>5. Last(x.bars).close \in Nat /\ Last(x.bars).at \in Nat
      /\ InMemory(Last(x.bars).close) \in Nat
  BY <1>2, <1>4, LatestTyped, ColumnFacts
<1>6. Config[x.run] \in Strategy
  BY <1>1, ConfigAssumption
<1>7. x.book \in Portfolio /\ x.book = BookOf(AccountOf(x))
  BY <1>1 DEF BookInv, TypeOK, Tick, FreshBook
<1>8. Valued(x.book)
  <2>. DEFINE p == position[AccountOf(x)]
  <2>1. p.qty \in [Instruments -> Nat] /\ p.avg \in [Instruments -> Nat]
    BY <1>3 DEF BookInv, TypeOK, Position
  <2>2. x.book.qty = p.qty /\ x.book.cost = HeldCost(p)
    BY <1>7 DEF BookOf
  <2>. HIDE DEF p
  <2>3. ASSUME NEW j \in Instruments
        PROVE  x.book.cost[j] \in Nat /\ (x.book.qty[j] = 0 => x.book.cost[j] = 0)
    <3>1. x.book.cost[j] = p.qty[j] * InMemory(p.avg[j])
      BY <2>2 DEF HeldCost
    <3>2. p.qty[j] \in Nat /\ InMemory(p.avg[j]) \in Nat
      BY <2>1, ColumnFacts
    <3>. QED
      BY <2>2, <3>1, <3>2
  <2>. QED
    BY <1>7, <2>3 DEF Valued
<1>. QED
  BY <1>1, <1>2, <1>3, <1>4, <1>5, <1>6, <1>7, <1>8

LEMMA TickSettles ==
  ASSUME IInv, BookInv, NEW t \in Tickers, RunTick(t)
  PROVE  tick[t].pc = "portfolio" /\ \E os, bk : Settles(tick[t], os, bk)
<1>. DEFINE x      == tick[t]
            i      == run[x.run].instrument
            a      == AccountOf(x)
            latest == Last(x.bars)
            close  == InMemory(latest.close)
            limit  == MaxOrderValue[x.run]
            closes == [n \in DOMAIN x.bars |-> x.bars[n].close]
            intents == OnBar(Config[x.run], closes, x.book.qty[i])
            Order1(o) == [at     |-> latest.at,
                          status |-> OrderStatus(x.book, i, o, close, limit),
                          fill   |-> RecordFill(ExecuteMarketOrder(o, close))]
            Done(os, rows, bk) ==
              /\ orders' = [orders EXCEPT ![x.run] = orders[x.run] \o os]
              /\ ledger' = [ledger EXCEPT ![a] = ledger[a] \o rows]
              /\ UpsertPositions(a, i, bk)
<1>1. x.pc = "portfolio"
  BY DEF RunTick
<1>2. /\ x.run \in Runs /\ a \in Accounts /\ i \in Instruments
      /\ Config[x.run] \in Strategy /\ close \in Nat
      /\ x.book \in Portfolio
  BY <1>1, TradingTick
<1>3. \/ intents = {} /\ Done(<<>>, <<>>, x.book)
      \/ \E o \in intents :
           /\ OrderStatus(x.book, i, o, close, limit) \in {"risk_rejected", "skipped"}
           /\ Done(<<Order1(o)>>, <<>>, x.book)
      \/ \E o \in intents :
           /\ OrderStatus(x.book, i, o, close, limit) = "filled"
           /\ Done(<<Order1(o)>>,
                   LedgerRows(x.book.cash, ExecuteMarketOrder(o, close)),
                   ApplyFill(x.book, i, ExecuteMarketOrder(o, close)))
  BY DEF RunTick, AccountOf
<1>4. <<>> \in Seq(Entry)
  OBVIOUS
<1>5. CASE intents = {} /\ Done(<<>>, <<>>, x.book)
  <2>1. Trades(x, <<>>, x.book)
    BY <1>5 DEF Trades
  <2>. QED
    BY <1>1, <1>4, <1>5, <2>1 DEF Settles, LeavesCash
<1>6. ASSUME NEW o \in intents,
             OrderStatus(x.book, i, o, close, limit) \in {"risk_rejected", "skipped"},
             Done(<<Order1(o)>>, <<>>, x.book)
      PROVE  \E os, bk : Settles(x, os, bk)
  <2>1. Trades(x, <<Order1(o)>>, x.book)
    BY <1>6 DEF Trades
  <2>. QED
    BY <1>4, <1>6, <2>1 DEF Settles, LeavesCash
<1>7. ASSUME NEW o \in intents,
             OrderStatus(x.book, i, o, close, limit) = "filled",
             NEW f, f = ExecuteMarketOrder(o, close),
             Done(<<Order1(o)>>, LedgerRows(x.book.cash, f), ApplyFill(x.book, i, f))
      PROVE  \E os, bk : Settles(x, os, bk)
  <2>. DEFINE bk   == ApplyFill(x.book, i, f)
              rows == LedgerRows(x.book.cash, f)
  <2>1. Trades(x, <<Order1(o)>>, bk)
    BY <1>7 DEF Trades
  <2>2. f \in Fill /\ Notional(f) \in Nat
    <3>1. o \in [side : Side, qty : Nat \ {0}]
      BY <1>2, IntentFacts DEF Portfolio
    <3>. QED
      BY <1>2, <1>7, <3>1, FillFacts
  <2>3. CashFlow(f) \in Int /\ NotionalAmount(f) \in Int /\ CommissionAmount(f) \in Int
        /\ x.book.cash \in Int
    BY <1>2, <2>2 DEF CashFlow, NotionalAmount, CommissionAmount, Fill, Portfolio
  <2>4. rows \in Seq(Entry) /\ rows # <<>>
        /\ Last(rows).after = ToColumn(x.book.cash + CashFlow(f))
    <3>. DEFINE e1 == [amount |-> ToColumn(NotionalAmount(f)),
                       after  |-> ToColumn(x.book.cash + NotionalAmount(f))]
                e2 == [amount |-> ToColumn(CommissionAmount(f)),
                       after  |-> ToColumn(x.book.cash + CashFlow(f))]
    <3>1. e1 \in Entry /\ e2 \in Entry
          /\ e2.after = ToColumn(x.book.cash + CashFlow(f))
      <4>1. x.book.cash + NotionalAmount(f) \in Int /\ x.book.cash + CashFlow(f) \in Int
        BY <2>3
      <4>2. /\ ToColumn(NotionalAmount(f)) \in Int /\ ToColumn(CommissionAmount(f)) \in Int
            /\ ToColumn(x.book.cash + NotionalAmount(f)) \in Int
            /\ ToColumn(x.book.cash + CashFlow(f)) \in Int
        BY <2>3, <4>1, ColumnFacts
      <4>. QED
        BY <4>2 DEF Entry
    <3>2. rows = <<e1, e2>>
      BY DEF LedgerRows
    <3>. HIDE DEF e1, e2, rows
    <3>. QED
      BY <3>1, <3>2 DEF Last
  <2>5. bk.cash = x.book.cash + CashFlow(f)
    BY <1>2 DEF ApplyFill, Portfolio
  <2>. HIDE DEF rows, bk
  <2>6. /\ ledger' = [ledger EXCEPT ![a] = ledger[a] \o rows]
        /\ LeavesCash(x, rows, bk)
    BY <1>7, <2>4, <2>5 DEF rows, LeavesCash
  <2>7. orders' = [orders EXCEPT ![x.run] = orders[x.run] \o <<Order1(o)>>]
        /\ UpsertPositions(a, i, bk)
    BY <1>7 DEF bk
  <2>8. Settles(x, <<Order1(o)>>, bk)
    BY <2>1, <2>4, <2>6, <2>7 DEF Settles
  <2>. QED
    BY <2>8
<1>. QED
  BY <1>1, <1>3, <1>5, <1>6, <1>7

-----------------------------------------------------------------------------
(***************************************************************************)
(* The sums a step changes.                                                *)
(***************************************************************************)
LEMMA WorthTyped == SharesOf \in Worth /\ FlowIn \in Worth /\ SlackIn \in Worth
<1>1. ASSUME NEW o \in Order
      PROVE  Shares(o) \in Int /\ Flow(o) \in Int /\ Slack(o) \in Int
  <2>1. o.fill \in Fill /\ o.fill.qty \in Nat /\ CashFlow(o.fill) \in Int
    BY FlowTyped DEF Order, Fill
  <2>. QED
    BY <2>1 DEF Shares, Flow, Slack
<1>. QED
  BY <1>1 DEF SharesOf, FlowIn, SlackIn, Worth

LEMMA SumTyped ==
  ASSUME NEW v \in Worth, NEW s \in Seq(Order)
  PROVE  Sum(v, s) \in Int
<1>. DEFINE f == [n \in DOMAIN s |-> v[s[n]]]
<1>1. DOMAIN f = 1 .. Len(s) /\ Len(s) \in Nat
  OBVIOUS
<1>2. IsFiniteSet(DOMAIN f)
  BY <1>1, FS_Interval
<1>3. \A n \in DOMAIN f : f[n] \in Int
  <2>1. \A n \in 1 .. Len(s) : s[n] \in Order
    BY ElementOfSeq
  <2>. QED
    BY <1>1, <2>1 DEF Worth
<1>. HIDE DEF f
<1>4. SumOver(f) \in Int
  BY <1>2, <1>3, SumType
<1>. QED
  BY <1>4 DEF Sum, f

LEMMA SumMore ==
  ASSUME NEW v \in Worth, NEW s \in Seq(Order), NEW o \in Order
  PROVE  Sum(v, s \o <<o>>) = Sum(v, s) + v[o]
<1>. DEFINE f == [n \in DOMAIN s |-> v[s[n]]]
            w == s \o <<o>>
            g == [n \in DOMAIN w |-> v[w[n]]]
            l == Len(s)
<1>1. /\ w \in Seq(Order) /\ DOMAIN w = 1 .. l + 1 /\ l \in Nat /\ w[l + 1] = o
      /\ DOMAIN s = 1 .. l /\ \A n \in 1 .. l : w[n] = s[n]
  OBVIOUS
<1>0. l \in Nat
  OBVIOUS
<1>2. \A n \in 1 .. l : s[n] \in Order
  BY ElementOfSeq
<1>. HIDE DEF w, l
<1>3. DOMAIN f = 1 .. l /\ DOMAIN g = DOMAIN f \cup {l + 1} /\ l + 1 \notin DOMAIN f
  BY <1>1
<1>4. IsFiniteSet(DOMAIN f) /\ \A n \in DOMAIN f : f[n] \in Int
  <2>1. IsFiniteSet(1 .. l)
    BY <1>0, FS_Interval
  <2>2. \A n \in 1 .. l : v[s[n]] \in Int
    BY <1>2 DEF Worth
  <2>. QED
    BY <1>3, <2>1, <2>2
<1>5. g[l + 1] = v[o] /\ g[l + 1] \in Int /\ \A n \in DOMAIN f : g[n] = f[n]
  BY <1>1 DEF Worth
<1>. HIDE DEF f, g
<1>6. SumOver(g) = SumOver(f) + g[l + 1]
  <2>. DEFINE y == l + 1
  <2>1. y \notin DOMAIN f /\ DOMAIN g = DOMAIN f \cup {y} /\ g[y] \in Int
    BY <1>3, <1>5
  <2>. HIDE DEF y
  <2>2. SumOver(g) = SumOver(f) + g[y]
    BY <1>4, <1>5, <2>1, SumExtend
  <2>. QED
    BY <2>2 DEF y
<1>. QED
  BY <1>5, <1>6 DEF Sum, f, g, w

LEMMA SumNothing ==
  ASSUME NEW v
  PROVE  Sum(v, <<>>) = 0
<1>. DEFINE f == [n \in DOMAIN <<>> |-> v[<<>>[n]]]
<1>1. DOMAIN f = {}
  OBVIOUS
<1>. HIDE DEF f
<1>2. SumOver(f) = 0
  BY <1>1, SumNone
<1>. QED
  BY <1>2 DEF Sum, f

LEMMA SumOne ==
  ASSUME NEW v \in Worth, NEW o \in Order
  PROVE  Sum(v, <<o>>) = v[o]
<1>. DEFINE none == <<>>
            one  == <<o>>
<1>1. none \in Seq(Order) /\ none \o <<o>> = one
  OBVIOUS
<1>2. Sum(v, none) = 0 /\ v[o] \in Int
  BY SumNothing DEF Worth
<1>. HIDE DEF none, one
<1>4. Sum(v, none \o <<o>>) = Sum(v, none) + v[o]
  BY <1>1, SumMore
<1>5. Sum(v, none \o <<o>>) = v[o]
  BY <1>2, <1>4
<1>6. Sum(v, one) = v[o]
  BY <1>1, <1>5, Zenon
<1>. QED
  BY <1>6 DEF one

\* No order, or one.
AtMostOne(s) == s = <<>> \/ \E o \in Order : s = <<o>>

LEMMA SumJoined ==
  ASSUME NEW v \in Worth, NEW s \in Seq(Order), NEW new, AtMostOne(new)
  PROVE  Sum(v, s \o new) = Sum(v, s) + Sum(v, new) /\ Sum(v, new) \in Int
         /\ s \o new \in Seq(Order)
<1>0. Sum(v, s) \in Int
  BY SumTyped
<1>1. CASE new = <<>>
  <2>1. s \o new = s
    BY <1>1
  <2>. QED
    BY <1>0, <1>1, <2>1, SumNothing
<1>2. ASSUME NEW o \in Order, new = <<o>>
      PROVE  Sum(v, s \o new) = Sum(v, s) + Sum(v, new) /\ Sum(v, new) \in Int
             /\ s \o new \in Seq(Order)
  <2>1. s \o new \in Seq(Order)
    BY <1>2
  <2>. QED
    BY <1>2, <2>1, SumMore, SumOne DEF Worth
<1>. QED
  BY <1>1, <1>2 DEF AtMostOne

LEMMA TotalTyped ==
  ASSUME NEW v \in Worth, NEW s \in [Runs -> Seq(Order)],
         NEW R \in SUBSET Runs
  PROVE  /\ IsFiniteSet(R) /\ \A q \in R : Sum(v, s[q]) \in Int
         /\ Total(v, s, R) \in Int
<1>. DEFINE f == [r \in R |-> Sum(v, s[r])]
<1>1. IsFiniteSet(R) /\ \A q \in R : Sum(v, s[q]) \in Int
  BY RunsAssumption, FS_Subset, SumTyped
<1>2. DOMAIN f = R /\ \A q \in DOMAIN f : f[q] \in Int
  BY <1>1
<1>. HIDE DEF f
<1>3. SumOver(f) \in Int
  BY <1>1, <1>2, SumType
<1>. QED
  BY <1>1, <1>3 DEF Total, f

\* The orders of one run grow.
MoreOf(r, s, new, w) == w = [s EXCEPT ![r] = s[r] \o new]

LEMMA TotalGrows ==
  ASSUME NEW v \in Worth, NEW s \in [Runs -> Seq(Order)], NEW r \in Runs,
         NEW new, AtMostOne(new), NEW w, MoreOf(r, s, new, w),
         NEW R \in SUBSET Runs
  PROVE  Total(v, w, R) = Total(v, s, R) + (IF r \in R THEN Sum(v, new) ELSE 0)
<1>. DEFINE f == [q \in R |-> Sum(v, s[q])]
            g == [q \in R |-> Sum(v, w[q])]
<1>1. /\ s[r] \in Seq(Order) /\ w[r] = s[r] \o new
      /\ \A q \in Runs \ {r} : w[q] = s[q]
  BY DEF MoreOf
<1>2. /\ Sum(v, w[r]) = Sum(v, s[r]) + Sum(v, new)
      /\ Sum(v, s[r]) \in Int /\ Sum(v, new) \in Int
  BY <1>1, SumJoined, SumTyped
<1>3. /\ IsFiniteSet(R) /\ \A q \in R : Sum(v, s[q]) \in Int
      /\ Total(v, s, R) \in Int
  BY TotalTyped
<1>4. CASE r \in R
  <2>1. /\ DOMAIN f = R /\ DOMAIN g = DOMAIN f /\ r \in DOMAIN f
        /\ f[r] = Sum(v, s[r]) /\ g[r] = Sum(v, w[r])
        /\ \A q \in DOMAIN f : f[q] \in Int
        /\ \A q \in DOMAIN f \ {r} : g[q] = f[q]
    BY <1>1, <1>3, <1>4
  <2>. HIDE DEF f, g
  <2>2. SumOver(g) = SumOver(f) - f[r] + g[r] /\ SumOver(f) \in Int
    <3>1. g[r] \in Int /\ IsFiniteSet(DOMAIN f)
      BY <1>2, <1>3, <2>1
    <3>. QED
      BY <2>1, <3>1, SumUpdate, SumType
  <2>3. SumOver(g) = SumOver(f) + Sum(v, new)
    BY <1>2, <2>1, <2>2
  <2>. QED
    BY <1>4, <2>3 DEF Total, f, g
<1>5. CASE r \notin R
  <2>1. g = f
    BY <1>1, <1>5
  <2>. QED
    BY <1>3, <1>5, <2>1 DEF Total
<1>. QED
  BY <1>4, <1>5

\* A run without orders is one more, or is not.
LEMMA TotalJoined ==
  ASSUME NEW v \in Worth, NEW s \in [Runs -> Seq(Order)],
         NEW R \in SUBSET Runs, NEW r \in Runs \ R, s[r] = <<>>,
         NEW Q, Q \in {R, R \cup {r}}
  PROVE  Total(v, s, Q) = Total(v, s, R)
<1>. DEFINE f == [q \in R |-> Sum(v, s[q])]
            g == [q \in Q |-> Sum(v, s[q])]
<1>1. CASE Q = R
  BY <1>1
<1>2. CASE Q = R \cup {r}
  <2>1. IsFiniteSet(R) /\ \A q \in R : Sum(v, s[q]) \in Int
    BY TotalTyped
  <2>2. Sum(v, s[r]) = 0
    BY SumNothing
  <2>3. /\ DOMAIN f = R /\ DOMAIN g = DOMAIN f \cup {r} /\ r \notin DOMAIN f
        /\ IsFiniteSet(DOMAIN f) /\ \A q \in DOMAIN f : f[q] \in Int
        /\ g[r] = 0 /\ g[r] \in Int /\ \A q \in DOMAIN f : g[q] = f[q]
    BY <1>2, <2>1, <2>2
  <2>. HIDE DEF f, g
  <2>4. SumOver(g) = SumOver(f) + g[r] /\ SumOver(f) \in Int
    BY <2>3, SumExtend, SumType
  <2>5. SumOver(g) = SumOver(f)
    BY <2>3, <2>4
  <2>. QED
    BY <2>5 DEF Total, f, g
<1>. QED
  BY <1>1, <1>2

\* No runs.
LEMMA TotalNone ==
  ASSUME NEW v, NEW s
  PROVE  Total(v, s, {}) = 0
<1>. DEFINE f == [r \in {} |-> Sum(v, s[r])]
<1>1. DOMAIN f = {}
  OBVIOUS
<1>. HIDE DEF f
<1>2. SumOver(f) = 0
  BY <1>1, SumNone
<1>. QED
  BY <1>2 DEF Total, f

LEMMA RunsFinite ==
  ASSUME NEW a, NEW i
  PROVE  RunsOn(a, i) \in SUBSET Runs /\ RunsOf(a) \in SUBSET Runs
BY DEF RunsOn, RunsOf

\* The properties are about these sums.
LEMMA InTotals ==
  ASSUME BookInv
  PROVE  BooksBalance /\ HoldingsMatchFills
<1>1. orders \in [Runs -> Seq(Order)]
  BY DEF BookInv, TypeOK
<1>2. ASSUME NEW r \in Runs
      PROVE  /\ FlowOf(r) = Sum(FlowIn, orders[r])
             /\ SlackOf(r) = Sum(SlackIn, orders[r])
             /\ Traded(r) = Sum(SharesOf, orders[r])
  <2>. DEFINE s == orders[r]
  <2>1. \A n \in DOMAIN s : s[n] \in Order
    BY <1>1, ElementOfSeq
  <2>. HIDE DEF s
  <2>2. /\ [n \in DOMAIN s |-> Flow(s[n])] = [n \in DOMAIN s |-> FlowIn[s[n]]]
        /\ [n \in DOMAIN s |-> Slack(s[n])] = [n \in DOMAIN s |-> SlackIn[s[n]]]
        /\ [n \in DOMAIN s |-> Shares(s[n])] = [n \in DOMAIN s |-> SharesOf[s[n]]]
    BY <2>1 DEF FlowIn, SlackIn, SharesOf
  <2>. QED
    BY <2>2 DEF FlowOf, SlackOf, Traded, Sum, s
<1>3. ASSUME NEW R \in SUBSET Runs
      PROVE  /\ SumOver([r \in R |-> FlowOf(r)]) = Total(FlowIn, orders, R)
             /\ SumOver([r \in R |-> SlackOf(r)]) = Total(SlackIn, orders, R)
             /\ SumOver([r \in R |-> Traded(r)]) = Total(SharesOf, orders, R)
  <2>1. /\ [r \in R |-> FlowOf(r)] = [r \in R |-> Sum(FlowIn, orders[r])]
        /\ [r \in R |-> SlackOf(r)] = [r \in R |-> Sum(SlackIn, orders[r])]
        /\ [r \in R |-> Traded(r)] = [r \in R |-> Sum(SharesOf, orders[r])]
    BY <1>2
  <2>. QED
    BY <2>1 DEF Total
<1>4. BooksBalance
  <2>. SUFFICES ASSUME NEW a \in Accounts, ledger[a] # <<>>
       PROVE  /\ 2 * Abs(LatestCash(a) - ledger[a][1].amount
                           - SumOver([r \in RunsOf(a) |-> FlowOf(r)]))
                   <= SumOver([r \in RunsOf(a) |-> SlackOf(r)])
              /\ \A i \in Instruments :
                   2 * Abs(realized[a][i] - position[a].qty[i] * position[a].avg[i]
                             - SumOver([r \in RunsOn(a, i) |-> FlowOf(r)]))
                     <= SumOver([r \in RunsOn(a, i) |-> SlackOf(r)])
    BY DEF BooksBalance
  <2>1. Books(a)
    BY DEF BookInv
  <2>2. /\ SumOver([r \in RunsOf(a) |-> FlowOf(r)]) = Total(FlowIn, orders, RunsOf(a))
        /\ SumOver([r \in RunsOf(a) |-> SlackOf(r)]) = Total(SlackIn, orders, RunsOf(a))
    BY <1>3, RunsFinite
  <2>3. ASSUME NEW i \in Instruments
        PROVE  /\ SumOver([r \in RunsOn(a, i) |-> FlowOf(r)])
                    = Total(FlowIn, orders, RunsOn(a, i))
               /\ SumOver([r \in RunsOn(a, i) |-> SlackOf(r)])
                    = Total(SlackIn, orders, RunsOn(a, i))
    BY <1>3, RunsFinite
  <2>. QED
    BY <2>1, <2>2, <2>3 DEF Books, Balanced, Gain
<1>5. HoldingsMatchFills
  BY <1>3, RunsFinite DEF BookInv, Holds, HoldingsMatchFills
<1>. QED
  BY <1>4, <1>5

\* An order that is not filled is worth nothing.
LEMMA IdleSums ==
  ASSUME NEW os, AtMostOne(os), \A o \in Order : os = <<o>> => o.status # "filled"
  PROVE  /\ Sum(SharesOf, os) = 0 /\ Sum(FlowIn, os) = 0 /\ Sum(SlackIn, os) = 0
<1>1. CASE os = <<>>
  BY <1>1, SumNothing
<1>2. ASSUME NEW o \in Order, os = <<o>>
      PROVE  /\ Sum(SharesOf, os) = 0 /\ Sum(FlowIn, os) = 0 /\ Sum(SlackIn, os) = 0
  <2>1. o.status # "filled"
    BY <1>2
  <2>2. SharesOf[o] = 0 /\ FlowIn[o] = 0 /\ SlackIn[o] = 0
    BY <2>1 DEF SharesOf, FlowIn, SlackIn, Shares, Flow, Slack
  <2>. QED
    BY <1>2, <2>2, SumOne, WorthTyped
<1>. QED
  BY <1>1, <1>2 DEF AtMostOne

LEMMA FilledSums ==
  ASSUME NEW os, NEW o \in Order, os = <<o>>, o.status = "filled",
         NEW f \in Fill, o.fill = RecordFill(f)
  PROVE  /\ Sum(SharesOf, os) = IF f.side = "buy" THEN f.qty ELSE -f.qty
         /\ Sum(FlowIn, os) = CashFlow(RecordFill(f))
         /\ Sum(SlackIn, os) = 2 * f.qty + 1
<1>1. RecordFill(f).side = f.side /\ RecordFill(f).qty = f.qty
  BY RecordedFill
<1>2. /\ SharesOf[o] = IF f.side = "buy" THEN f.qty ELSE -f.qty
      /\ FlowIn[o] = CashFlow(RecordFill(f)) /\ SlackIn[o] = 2 * f.qty + 1
  BY <1>1 DEF SharesOf, FlowIn, SlackIn, Shares, Flow, Slack
<1>. QED
  BY <1>2, SumOne, WorthTyped

-----------------------------------------------------------------------------
(***************************************************************************)
(* The steps.                                                              *)
(***************************************************************************)
LEMMA BookInit == Init => BookInv
<1>. SUFFICES ASSUME Init PROVE BookInv
  OBVIOUS
<1>1. NoTick \in Tick
  BY DEF NoTick, NoBook, Tick, Portfolio
<1>2. [qty |-> NoBook.qty, avg |-> NoBook.cost] \in Position
  BY DEF NoBook, Position
<1>3. TypeOK
  <2>1. bars \in [Instruments -> Seq(Bar)] /\ stores \in 0 .. MaxStores
    BY HistoryAssumption, BoundAssumption DEF Init, Bar
  <2>2. tick \in [Tickers -> Tick] /\ position \in [Accounts -> Position]
    BY <1>1, <1>2 DEF Init
  <2>3. /\ run \in [Runs -> Run \cup {NoRun}] /\ ledger \in [Accounts -> Seq(Entry)]
        /\ realized \in [Accounts -> [Instruments -> Int]]
        /\ orders \in [Runs -> Seq(Order)] /\ snapshots \in [Runs -> Seq(Nat)]
    BY DEF Init
  <2>. QED
    BY <2>1, <2>2, <2>3 DEF TypeOK
<1>4. \A t \in Tickers : FreshBook(tick[t])
  BY NoTickTyped DEF Init, FreshBook
<1>5. \A a \in Accounts : \A i \in Instruments :
        position[a].qty[i] = 0 /\ realized[a][i] = 0
  BY DEF Init, NoBook
<1>6. \A a \in Accounts : ledger[a] = <<>>
  BY DEF Init
<1>7. ASSUME NEW a \in Accounts, NEW i \in Instruments PROVE Holds(a, i)
  <2>1. RunsOn(a, i) = {}
    BY DEF Init, RunsOn, Started
  <2>. QED
    BY <1>5, <2>1, TotalNone DEF Holds
<1>8. \A r \in Runs : orders[r] = <<>>
  BY DEF Init
<1>. QED
  BY <1>3, <1>4, <1>5, <1>6, <1>7, <1>8 DEF BookInv

\* Steps that leave the rows of accounts and runs alone.
LEMMA BookQuiet ==
  ASSUME IInv', BookInv, UNCHANGED <<account, journal, run>>,
         stores' \in 0 .. MaxStores, tick' \in [Tickers -> Tick],
         \A t \in Tickers : FreshBook(tick'[t])
  PROVE  BookInv'
<1>1. UNCHANGED <<ledger, position, realized, orders, snapshots, run>>
  BY DEF account, journal
<1>2. TypeOK'
  BY <1>1 DEF BookInv, TypeOK, IInv, TypeInv
<1>3. \A t \in Tickers : FreshBook(tick[t])'
  BY <1>1 DEF FreshBook, BookOf, AccountOf, LatestCash
<1>4. ASSUME NEW a \in Accounts, NEW i \in Instruments
      PROVE  RunsOn(a, i)' = RunsOn(a, i) /\ RunsOf(a)' = RunsOf(a)
             /\ LatestCash(a)' = LatestCash(a) /\ Gain(a, i)' = Gain(a, i)
  BY <1>1 DEF RunsOn, RunsOf, Started, LatestCash, Gain
<1>5. ASSUME NEW a \in Accounts, ledger'[a] # <<>> PROVE Books(a)'
  <2>1. Books(a)
    BY <1>1, <1>5 DEF BookInv
  <2>2. RunsOf(a)' = RunsOf(a) /\ LatestCash(a)' = LatestCash(a)
    BY <1>1 DEF RunsOf, Started, LatestCash
  <2>. QED
    BY <1>1, <1>4, <2>1, <2>2 DEF Books, Balanced
<1>6. ASSUME NEW a \in Accounts, NEW i \in Instruments PROVE Holds(a, i)'
  BY <1>1, <1>4 DEF BookInv, Holds
<1>. QED
  BY <1>1, <1>2, <1>3, <1>5, <1>6 DEF BookInv, Started

LEMMA BookMarket ==
  ASSUME IInv', BookInv, NEW i \in Instruments,
         \/ \E d \in Dates, c \in Closes : StoreBar(i, [at |-> d, close |-> c])
         \/ \E c \in Closes : \E k \in DOMAIN bars[i] : CorrectBar(i, k, c)
  PROVE  BookInv'
<1>1. UNCHANGED <<account, journal, run, tick>> /\ stores < MaxStores
      /\ stores' = stores + 1
  BY DEF StoreBar, CorrectBar
<1>2. stores' \in 0 .. MaxStores
  BY <1>1, BoundAssumption DEF BookInv, TypeOK
<1>3. tick' \in [Tickers -> Tick] /\ \A t \in Tickers : FreshBook(tick'[t])
  BY <1>1 DEF BookInv, TypeOK
<1>. QED
  BY <1>1, <1>2, <1>3, BookQuiet

\* Steps of a tick that do not commit.
LEMMA BookRead ==
  ASSUME IInv', BookInv, NEW t \in Tickers, UNCHANGED <<market, account, journal, run>>,
         NEW y \in Tick, tick' = [tick EXCEPT ![t] = y], FreshBook(y)
  PROVE  BookInv'
<1>1. tick' \in [Tickers -> Tick] /\ \A u \in Tickers : FreshBook(tick'[u])
  BY DEF BookInv, TypeOK
<1>2. stores' \in 0 .. MaxStores
  BY DEF BookInv, TypeOK, market
<1>. QED
  BY <1>1, <1>2, BookQuiet

LEMMA BookNoTick == NoTick \in Tick /\ FreshBook(NoTick)
BY DEF NoTick, NoBook, Tick, Portfolio, FreshBook

LEMMA BusyTick ==
  ASSUME IInv, NEW t \in Tickers, tick[t].pc # "idle", NEW x, x = tick[t]
  PROVE  /\ x.run \in Runs /\ Started(x.run) /\ run[x.run] \in Run
         /\ AccountOf(x) \in Accounts /\ run[x.run].instrument \in Instruments
         /\ bars[run[x.run].instrument] \in Seq(Bar)
         /\ ledger[AccountOf(x)] \in Seq(Entry) /\ ledger[AccountOf(x)] # <<>>
<1>1. TickTyped(x) /\ Fresh(x) /\ x.run \in Runs
  BY DEF IInv, TypeInv, LockInv, TickTyped
<1>2. Started(x.run) /\ run[x.run] \in Run
  BY <1>1 DEF Fresh, IInv, TypeInv, Started
<1>3. AccountOf(x) \in Accounts /\ run[x.run].instrument \in Instruments
  BY <1>2 DEF Run, AccountOf
<1>. QED
  BY <1>1, <1>2, <1>3 DEF IInv, TypeInv, LockInv, AccountOf

LEMMA BookTick ==
  ASSUME IInv, IInv', BookInv, NEW t \in Tickers,
         \/ \E r \in Runs : LoadRun(t, r)
         \/ LoadAccount(t) \/ ListBars(t) \/ LoadPortfolio(t) \/ AbortTick(t)
  PROVE  BookInv'
<1>. DEFINE x == tick[t]
<1>1. UNCHANGED <<market, account, journal, run>>
  BY DEF LoadRun, LoadAccount, ListBars, LoadPortfolio, AbortTick
<1>2. x \in Tick /\ DOMAIN tick = Tickers
  BY DEF BookInv, TypeOK
<1>3. ASSUME NEW r \in Runs, LoadRun(t, r)
      PROVE  BookInv'
  <2>. DEFINE y == [x EXCEPT !.pc = "run", !.run = r, !.last = run[r].last]
  <2>1. run[r] \in Run
    BY <1>3 DEF LoadRun, IInv, TypeInv, Started
  <2>2. y \in Tick /\ y.pc = "run" /\ tick' = [tick EXCEPT ![t] = y]
    BY <1>2, <1>3, <2>1 DEF LoadRun, Tick, Run
  <2>. HIDE DEF y
  <2>. QED
    BY <1>1, <2>2, BookRead DEF FreshBook
<1>4. CASE LoadAccount(t)
  <2>. DEFINE y == [x EXCEPT !.pc = "account"]
  <2>1. y \in Tick /\ y.pc = "account" /\ tick' = [tick EXCEPT ![t] = y]
    BY <1>2, <1>4 DEF LoadAccount, Tick
  <2>. HIDE DEF y
  <2>. QED
    BY <1>1, <2>1, BookRead DEF FreshBook
<1>5. CASE ListBars(t)
  <2>. DEFINE b == bars[run[x.run].instrument]
              y == [x EXCEPT !.pc = "bars", !.bars = b]
  <2>1. b \in Seq(Bar)
    <3>1. x.pc # "idle"
      BY <1>5 DEF ListBars
    <3>. QED
      BY <3>1, BusyTick
  <2>2. y \in Tick /\ y.pc = "bars"
    BY <1>2, <2>1 DEF Tick
  <2>3. tick' = [tick EXCEPT ![t] = NoTick] \/ tick' = [tick EXCEPT ![t] = y]
    BY <1>2, <1>5 DEF ListBars
  <2>. HIDE DEF y
  <2>4. FreshBook(y)
    BY <2>2 DEF FreshBook
  <2>. QED
    BY <1>1, <2>2, <2>3, <2>4, BookNoTick, BookRead
<1>6. CASE LoadPortfolio(t)
  <2>. DEFINE a == AccountOf(x)
              y == [x EXCEPT !.pc = "portfolio", !.book = BookOf(a)]
  <2>1. tick' = [tick EXCEPT ![t] = y]
    BY <1>2, <1>6 DEF LoadPortfolio, AccountOf, BookOf
  <2>2. a \in Accounts /\ ledger[a] \in Seq(Entry) /\ ledger[a] # <<>>
    <3>1. x.pc # "idle"
      BY <1>6 DEF LoadPortfolio
    <3>. QED
      BY <3>1, BusyTick
  <2>3. BookOf(a) \in Portfolio
    <3>1. ledger[a][Len(ledger[a])] \in Entry
      BY <2>2, EmptySeq, ElementOfSeq
    <3>2. InMemory(LatestCash(a)) \in Int
      BY <3>1, ColumnFacts DEF LatestCash, Last, Entry
    <3>3. position[a] \in Position
      BY <2>2 DEF BookInv, TypeOK
    <3>4. position[a].qty \in [Instruments -> Nat]
          /\ HeldCost(position[a]) \in [Instruments -> Int]
      <4>. DEFINE p == position[a]
      <4>1. p.qty \in [Instruments -> Nat] /\ p.avg \in [Instruments -> Nat]
        BY <3>3 DEF Position
      <4>. HIDE DEF p
      <4>2. \A j \in Instruments : p.qty[j] \in Nat /\ InMemory(p.avg[j]) \in Nat
        BY <4>1, ColumnFacts
      <4>3. HeldCost(p) \in [Instruments -> Int]
        BY <4>2 DEF HeldCost
      <4>. QED
        BY <4>1, <4>3 DEF p
    <3>5. realized[a] \in [Instruments -> Int]
      BY <2>2 DEF BookInv, TypeOK
    <3>6. InMemory(SumOver(realized[a])) \in Int
      <4>1. SumOver(realized[a]) \in Int
        BY <3>5, InstrumentsAssumption, SumType
      <4>. QED
        BY <4>1, ColumnFacts
    <3>. QED
      BY <3>2, <3>4, <3>6 DEF BookOf, Portfolio
  <2>4. y \in Tick /\ y.book = BookOf(a) /\ y.run = x.run
    BY <1>2, <2>3 DEF Tick
  <2>. HIDE DEF y
  <2>5. FreshBook(y)
    BY <2>4 DEF FreshBook, AccountOf
  <2>. QED
    BY <1>1, <2>1, <2>4, <2>5, BookRead
<1>7. CASE AbortTick(t)
  <2>1. tick' = [tick EXCEPT ![t] = NoTick]
    BY <1>7 DEF AbortTick
  <2>. QED
    BY <1>1, <2>1, BookNoTick, BookRead
<1>. QED
  BY <1>3, <1>4, <1>5, <1>6, <1>7

LEMMA BookAccount ==
  ASSUME IInv, IInv', BookInv, NEW a \in Accounts, CreateAccount(a)
  PROVE  BookInv'
<1>. DEFINE d == ToColumn(InitialCash)
            s == <<[amount |-> d, after |-> d]>>
<1>1. /\ ledger[a] = <<>> /\ ledger' = [ledger EXCEPT ![a] = s]
      /\ UNCHANGED <<bars, stores, position, realized, orders, snapshots, run, tick>>
  BY DEF CreateAccount, market, journal
<1>0. d \in Int
  BY CashAssumption, ColumnFacts
<1>. HIDE DEF d
<1>2. s # <<>> /\ Last(s).after = d /\ s[1].amount = d
  BY DEF Last
<1>. HIDE DEF s
<1>3. ledger'[a] = s /\ \A b \in Accounts \ {a} : ledger'[b] = ledger[b]
  BY <1>1 DEF IInv, TypeInv
<1>4. TypeOK'
  BY <1>1 DEF BookInv, TypeOK, IInv, TypeInv
<1>5. ASSUME NEW t \in Tickers PROVE FreshBook(tick[t])'
  <2>. SUFFICES ASSUME tick[t].pc = "portfolio" PROVE FreshBook(tick[t])'
    BY <1>1 DEF FreshBook
  <2>1. AccountOf(tick[t]) \in Accounts \ {a}
    BY <1>1 DEF IInv, TypeInv, LockInv, TickTyped, Fresh, Started, AccountOf, Run
  <2>2. ledger'[AccountOf(tick[t])] = ledger[AccountOf(tick[t])]
    BY <1>3, <2>1
  <2>3. FreshBook(tick[t])
    BY DEF BookInv
  <2>. QED
    BY <1>1, <2>2, <2>3 DEF FreshBook, BookOf, AccountOf, LatestCash
<1>6. ASSUME NEW b \in Accounts, NEW i \in Instruments
      PROVE  RunsOn(b, i)' = RunsOn(b, i) /\ Gain(b, i)' = Gain(b, i)
  BY <1>1 DEF RunsOn, Started, Gain
<1>7. ASSUME NEW b \in Accounts PROVE RunsOf(b)' = RunsOf(b)
  BY <1>1 DEF RunsOf, Started
<1>8. Books(a)'
  <2>1. RunsOf(a) = {} /\ \A i \in Instruments : RunsOn(a, i) = {}
    BY <1>1 DEF IInv, LockInv, RunsOf, RunsOn
  <2>2. LatestCash(a)' - ledger'[a][1].amount = 0
    BY <1>0, <1>2, <1>3 DEF LatestCash
  <2>3. ASSUME NEW i \in Instruments PROVE Gain(a, i) = 0
    <3>1. position[a].qty[i] = 0 /\ realized[a][i] = 0
      BY <1>1 DEF BookInv
    <3>2. position[a].avg[i] \in Nat
      BY DEF BookInv, TypeOK, Position
    <3>. QED
      BY <3>1, <3>2 DEF Gain
  <2>4. /\ Total(FlowIn, orders, {}) = 0 /\ Total(SlackIn, orders, {}) = 0
    BY TotalNone
  <2>5. 2 * Abs(0 - 0) <= 0
    BY DEF Abs
  <2>. QED
    BY <1>1, <1>6, <1>7, <2>1, <2>2, <2>3, <2>4, <2>5 DEF Books, Balanced
<1>9. ASSUME NEW b \in Accounts, ledger'[b] # <<>> PROVE Books(b)'
  <2>1. CASE b = a
    BY <1>8, <2>1
  <2>2. CASE b # a
    <3>1. ledger'[b] = ledger[b] /\ Books(b)
      BY <1>3, <1>9, <2>2 DEF BookInv
    <3>. QED
      BY <1>1, <1>6, <1>7, <3>1 DEF Books, Balanced, LatestCash
  <2>. QED
    BY <2>1, <2>2
<1>10. ASSUME NEW b \in Accounts, NEW i \in Instruments PROVE Holds(b, i)'
  BY <1>1, <1>6 DEF BookInv, Holds
<1>11. \A b \in Accounts : ledger'[b] = <<>> => ledger[b] = <<>>
  BY <1>1
<1>. QED
  BY <1>1, <1>4, <1>5, <1>9, <1>10, <1>11 DEF BookInv, Started

LEMMA BookRun ==
  ASSUME IInv, IInv', BookInv, NEW r \in Runs, NEW a \in Accounts,
         NEW i \in Instruments, StartRun(r, a, i)
  PROVE  BookInv'
<1>. DEFINE n == [account |-> a, instrument |-> i, last |-> 0]
<1>1. /\ ~Started(r) /\ run' = [run EXCEPT ![r] = n]
      /\ UNCHANGED <<bars, stores, position, realized, ledger, orders, snapshots, tick>>
  BY DEF StartRun, market, account, journal
<1>2. n.account = a /\ n.instrument = i
  OBVIOUS
<1>. HIDE DEF n
<1>3. run'[r] = n /\ \A q \in Runs \ {r} : run'[q] = run[q]
  BY <1>1 DEF IInv, TypeInv
<1>4. TypeOK'
  BY <1>1 DEF BookInv, TypeOK, IInv, TypeInv
<1>5. ASSUME NEW t \in Tickers PROVE FreshBook(tick[t])'
  <2>. SUFFICES ASSUME tick[t].pc = "portfolio" PROVE FreshBook(tick[t])'
    BY <1>1 DEF FreshBook
  <2>1. tick[t].run \in Runs \ {r}
    BY <1>1, BusyTick
  <2>2. AccountOf(tick[t])' = AccountOf(tick[t])
    BY <1>1, <1>3, <2>1 DEF AccountOf
  <2>3. BookOf(AccountOf(tick[t]))' = BookOf(AccountOf(tick[t]))
    BY <1>1, <2>2 DEF BookOf, LatestCash
  <2>4. tick[t].book = BookOf(AccountOf(tick[t]))
    BY DEF BookInv, FreshBook
  <2>. QED
    BY <1>1, <2>3, <2>4 DEF FreshBook
<1>6. orders \in [Runs -> Seq(Order)] /\ orders[r] = <<>> /\ orders' = orders
  BY <1>1 DEF BookInv, TypeOK
<1>7. ASSUME NEW v \in Worth, NEW b, NEW j
      PROVE  /\ Total(v, orders, RunsOf(b)') = Total(v, orders, RunsOf(b))
             /\ Total(v, orders, RunsOn(b, j)') = Total(v, orders, RunsOn(b, j))
  <2>1. /\ RunsOf(b) \in SUBSET Runs /\ r \in Runs \ RunsOf(b)
        /\ RunsOn(b, j) \in SUBSET Runs /\ r \in Runs \ RunsOn(b, j)
    BY <1>1, RunsFinite DEF RunsOf, RunsOn
  <2>2. RunsOf(b)' \in {RunsOf(b), RunsOf(b) \cup {r}}
    <3>1. CASE r \in RunsOf(b)'
      <4>1. RunsOf(b)' = RunsOf(b) \cup {r}
        BY <1>3, <3>1 DEF RunsOf, Started
      <4>. QED
        BY <4>1
    <3>2. CASE r \notin RunsOf(b)'
      <4>1. RunsOf(b)' = RunsOf(b)
        BY <1>1, <1>3, <3>2 DEF RunsOf, Started
      <4>. QED
        BY <4>1
    <3>. QED
      BY <3>1, <3>2
  <2>3. RunsOn(b, j)' \in {RunsOn(b, j), RunsOn(b, j) \cup {r}}
    <3>1. CASE r \in RunsOn(b, j)'
      <4>1. RunsOn(b, j)' = RunsOn(b, j) \cup {r}
        BY <1>3, <3>1 DEF RunsOn, Started
      <4>. QED
        BY <4>1
    <3>2. CASE r \notin RunsOn(b, j)'
      <4>1. RunsOn(b, j)' = RunsOn(b, j)
        BY <1>1, <1>3, <3>2 DEF RunsOn, Started
      <4>. QED
        BY <4>1
    <3>. QED
      BY <3>1, <3>2
  <2>. QED
    BY <1>6, <2>1, <2>2, <2>3, TotalJoined
<1>8. ASSUME NEW b \in Accounts, ledger'[b] # <<>> PROVE Books(b)'
  <2>1. Books(b) /\ LatestCash(b)' = LatestCash(b)
        /\ \A j \in Instruments : Gain(b, j)' = Gain(b, j)
    BY <1>1, <1>8 DEF BookInv, LatestCash, Gain
  <2>. QED
    BY <1>1, <1>6, <1>7, <2>1, WorthTyped DEF Books, Balanced
<1>9. ASSUME NEW b \in Accounts, NEW j \in Instruments PROVE Holds(b, j)'
  <2>1. Holds(b, j)
    BY DEF BookInv
  <2>. QED
    BY <1>1, <1>6, <1>7, <2>1, WorthTyped DEF Holds
<1>10. \A q \in Runs : ~Started(q)' => ~Started(q)
  BY <1>1, <1>3 DEF Started
<1>. QED
  BY <1>1, <1>4, <1>5, <1>8, <1>9, <1>10 DEF BookInv

\* A tick's new portfolio: the one it loaded, or what a fill makes of it.
Filled(o, f) == o.status = "filled" /\ o.fill = RecordFill(f)

TradeFacts(x, i, os, bk) ==
  /\ AtMostOne(os)
  /\ \/ bk = x.book /\ \A o \in Order : os = <<o>> => o.status # "filled"
     \/ \E o \in Order, f \in Fill :
          os = <<o>> /\ Filled(o, f) /\ Moved(x.book, bk, i, f)

LEMMA TradesFacts ==
  ASSUME IInv, BookInv, NEW t \in Tickers, tick[t].pc = "portfolio",
         NEW x, x = tick[t], NEW i, i = run[x.run].instrument,
         NEW os, NEW bk, Trades(x, os, bk)
  PROVE  TradeFacts(x, i, os, bk)
<1>. DEFINE latest  == Last(x.bars)
            close   == InMemory(latest.close)
            limit   == MaxOrderValue[x.run]
            closes  == [n \in DOMAIN x.bars |-> x.bars[n].close]
            config  == Config[x.run]
            intents == OnBar(config, closes, x.book.qty[i])
<1>1. /\ i \in Instruments /\ config \in Strategy
      /\ close \in Nat /\ latest.at \in Nat /\ x.book \in Portfolio
      /\ Valued(x.book)
  BY TradingTick
<1>2. x.book.qty[i] \in Nat
  BY <1>1 DEF Portfolio
<1>3. CASE os = <<>> /\ bk = x.book
  BY <1>3 DEF TradeFacts, AtMostOne
<1>4. ASSUME NEW o \in intents, NEW st \in {"filled", "skipped", "risk_rejected"},
             NEW f, f = ExecuteMarketOrder(o, close),
             os = <<[at |-> latest.at, status |-> st, fill |-> RecordFill(f)]>>,
             bk = IF st = "filled" THEN ApplyFill(x.book, i, f) ELSE x.book
      PROVE  TradeFacts(x, i, os, bk)
  <2>. DEFINE order == [at |-> latest.at, status |-> st, fill |-> RecordFill(f)]
              book  == x.book
  <2>1. /\ o \in [side : Side, qty : Nat \ {0}]
        /\ \/ o.side = "buy" /\ book.qty[i] = 0
           \/ o.side = "sell" /\ o.qty = book.qty[i]
    BY <1>1, <1>2, IntentFacts
  <2>2. f \in Fill /\ f.side = o.side /\ f.qty = o.qty
    BY <1>1, <1>4, <2>1, FillFacts
  <2>3. order \in Order /\ order.status = st /\ order.fill = RecordFill(f)
    BY <1>1, <2>2, RecordedFill DEF Order
  <2>4. os = <<order>>
    BY <1>4
  <2>5. AtMostOne(os) /\ \A q \in Order : os = <<q>> => q = order
    BY <2>3, <2>4 DEF AtMostOne
  <2>. HIDE DEF order
  <2>6. CASE st # "filled"
    BY <1>4, <2>3, <2>5, <2>6 DEF TradeFacts
  <2>7. CASE st = "filled"
    <3>1. /\ Valued(book) /\ i \in Instruments /\ bk = ApplyFill(book, i, f)
          /\ \/ f.side = "buy" /\ book.qty[i] = 0
             \/ f.side = "sell" /\ f.qty = book.qty[i]
      BY <1>1, <1>4, <2>1, <2>2, <2>7
    <3>. HIDE DEF book, latest, close, limit, closes, config, intents
    <3>2. Moved(book, bk, i, f)
      BY ONLY <2>2, <3>1, AppliedFill
    <3>3. Moved(x.book, bk, i, f)
      BY <3>2 DEF book
    <3>. QED
      BY <2>2, <2>3, <2>4, <2>5, <2>7, <3>3 DEF TradeFacts, Filled
  <2>. QED
    BY <2>6, <2>7
<1>5. \/ os = <<>> /\ bk = x.book
      \/ \E o \in intents, st \in {"filled", "skipped", "risk_rejected"} :
           LET f == ExecuteMarketOrder(o, close)
           IN  /\ st = OrderStatus(x.book, i, o, close, limit)
               /\ os = <<[at |-> latest.at, status |-> st, fill |-> RecordFill(f)]>>
               /\ bk = IF st = "filled" THEN ApplyFill(x.book, i, f) ELSE x.book
  BY DEF Trades
<1>6. ASSUME NEW o \in intents, NEW st \in {"filled", "skipped", "risk_rejected"},
             os = <<[at     |-> latest.at,
                     status |-> st,
                     fill   |-> RecordFill(ExecuteMarketOrder(o, close))]>>,
             bk = IF st = "filled"
                  THEN ApplyFill(x.book, i, ExecuteMarketOrder(o, close))
                  ELSE x.book
      PROVE  TradeFacts(x, i, os, bk)
  <2>1. PICK f : f = ExecuteMarketOrder(o, close)
    OBVIOUS
  <2>2. /\ os = <<[at |-> latest.at, status |-> st, fill |-> RecordFill(f)]>>
        /\ bk = IF st = "filled" THEN ApplyFill(x.book, i, f) ELSE x.book
    BY <1>6, <2>1
  <2>. QED
    BY <1>4, <2>1, <2>2, Zenon
<1>. HIDE DEF latest, close, limit, intents
<1>. QED
  BY <1>3, <1>5, <1>6
(***************************************************************************)
(* The rows a tick leaves.                                                 *)
(***************************************************************************)
\* A sum that moves with what is added to it, to the slack of the orders.
Within(y, os) == 2 * Abs(y - Sum(FlowIn, os)) <= Sum(SlackIn, os)

LEMMA BalanceStep ==
  ASSUME NEW x \in Int, NEW y \in Int, NEW F \in Int, NEW f \in Int,
         NEW S \in Int, NEW s \in Int,
         2 * Abs(x - F) <= S, 2 * Abs((y - x) - f) <= s
  PROVE  2 * Abs(y - (F + f)) <= S + s
<1>1. /\ 2 * (x - F) <= S /\ 2 * (F - x) <= S
      /\ 2 * ((y - x) - f) <= s /\ 2 * (f - (y - x)) <= s
  BY DEF Abs
<1>. QED
  BY <1>1 DEF Abs

\* p: the position rows, z: the realized profit on i, d: the balance.
RowsMoved(a, i, os, p, z, d) ==
  /\ p \in Position /\ z \in Int /\ d \in Int
  /\ Within(d - LatestCash(a), os)
  /\ Within(z - p.qty[i] * p.avg[i] - Gain(a, i), os)
  /\ \A j \in Instruments \ {i} : /\ p.qty[j] = position[a].qty[j]
                                 /\ p.avg[j] = position[a].avg[j]
  /\ p.qty[i] = position[a].qty[i] + Sum(SharesOf, os)

\* What a tick loads, and what of it is written back as it was.
LEMMA LoadedRows ==
  ASSUME BookInv, NEW a \in Accounts, ledger[a] \in Seq(Entry), ledger[a] # <<>>
  PROVE  /\ LatestCash(a) \in Int /\ SumOver(realized[a]) \in Int
         /\ ToColumn(InMemory(LatestCash(a))) = LatestCash(a)
         /\ \A j \in Instruments :
              /\ position[a].qty[j] \in Nat /\ position[a].avg[j] \in Nat
              /\ realized[a][j] \in Int
              /\ HeldCost(position[a])[j]
                   = position[a].qty[j] * InMemory(position[a].avg[j])
<1>1. ledger[a][Len(ledger[a])] \in Entry
  BY EmptySeq, ElementOfSeq
<1>2. LatestCash(a) \in Int
  BY <1>1 DEF LatestCash, Last, Entry
<1>3. position[a] \in Position /\ realized[a] \in [Instruments -> Int]
  BY DEF BookInv, TypeOK
<1>4. SumOver(realized[a]) \in Int
  BY <1>3, InstrumentsAssumption, SumType
<1>. QED
  BY <1>2, <1>3, <1>4, ColumnFacts DEF Position, HeldCost

LEMMA RowKept ==
  ASSUME BookInv, NEW a \in Accounts, NEW j \in Instruments,
         NEW bk, bk.qty[j] = position[a].qty[j],
         bk.cost[j] = HeldCost(position[a])[j]
  PROVE  AverageCosts(a, bk)[j] = position[a].avg[j]
<1>. DEFINE q == position[a].qty[j]
            v == position[a].avg[j]
<1>1. q \in Nat /\ v \in Nat
  BY DEF BookInv, TypeOK, Position
<1>2. bk.qty[j] = q /\ bk.cost[j] = q * InMemory(v)
  BY DEF HeldCost
<1>3. AverageCosts(a, bk)[j]
        = IF bk.qty[j] = 0 THEN v ELSE Nearest(bk.cost[j], bk.qty[j] * ColumnUnit)
  BY DEF AverageCosts
<1>. HIDE DEF q, v
<1>4. q # 0 => Nearest(q * InMemory(v), q * ColumnUnit) = v
  BY <1>1, AverageKept
<1>5. AverageCosts(a, bk)[j] = v
  BY <1>2, <1>3, <1>4
<1>. QED
  BY <1>5 DEF v

LEMMA AveragesTyped ==
  ASSUME BookInv, NEW a \in Accounts, NEW bk, Valued(bk)
  PROVE  [qty |-> bk.qty, avg |-> AverageCosts(a, bk)] \in Position
<1>1. bk.qty \in [Instruments -> Nat] /\ \A j \in Instruments : bk.cost[j] \in Nat
  BY DEF Valued, Portfolio
<1>2. ASSUME NEW j \in Instruments
      PROVE  AverageCosts(a, bk)[j] \in Nat
  <2>. DEFINE d == bk.qty[j] * ColumnUnit
              k == bk.cost[j]
  <2>1. position[a].avg[j] \in Nat
    BY DEF BookInv, TypeOK, Position
  <2>2. AverageCosts(a, bk)[j]
          = IF bk.qty[j] = 0 THEN position[a].avg[j] ELSE Nearest(k, d)
    BY DEF AverageCosts
  <2>3. k \in Nat /\ (bk.qty[j] # 0 => d \in Nat \ {0})
    BY <1>1, ColumnAssumption
  <2>. HIDE DEF d, k
  <2>4. bk.qty[j] # 0 => Nearest(k, d) \in Nat
    BY <2>3, NearestBounds
  <2>. QED
    BY <2>1, <2>2, <2>4
<1>3. AverageCosts(a, bk) \in [Instruments -> Nat]
  BY <1>2 DEF AverageCosts
<1>. QED
  BY <1>1, <1>3 DEF Position

LEMMA RowsMove ==
  ASSUME BookInv, NEW a \in Accounts, NEW i \in Instruments,
         ledger[a] \in Seq(Entry), ledger[a] # <<>>,
         NEW x, x.book = BookOf(a), Valued(x.book),
         NEW os, NEW bk, TradeFacts(x, i, os, bk),
         NEW p, p = [qty |-> bk.qty, avg |-> AverageCosts(a, bk)],
         NEW z, z = ToColumn(InMemory(realized[a][i]) + bk.realized
                               - InMemory(SumOver(realized[a]))),
         NEW d, d = ToColumn(bk.cash)
  PROVE  RowsMoved(a, i, os, p, z, d)
<1>. DEFINE q  == position[a].qty[i]
            v  == position[a].avg[i]
            rz == realized[a][i]
            R  == SumOver(realized[a])
            c  == LatestCash(a)
<1>1. /\ q \in Nat /\ v \in Nat /\ rz \in Int /\ R \in Int /\ c \in Int
      /\ ToColumn(InMemory(c)) = c /\ HeldCost(position[a])[i] = q * InMemory(v)
  BY LoadedRows
<1>2. /\ x.book.cash = InMemory(c) /\ x.book.qty = position[a].qty
      /\ x.book.cost = HeldCost(position[a]) /\ x.book.realized = InMemory(R)
  BY DEF BookOf
<1>3. InMemory(rz) \in Int /\ InMemory(R) \in Int /\ ToColumn(InMemory(rz)) = rz
      /\ InMemory(v) \in Nat
  BY <1>1, ColumnFacts
<1>4. Gain(a, i) = rz - q * v
  BY DEF Gain
<1>5. CASE bk = x.book /\ AtMostOne(os)
           /\ \A o \in Order : os = <<o>> => o.status # "filled"
  <2>1. p \in Position
    BY <1>5, AveragesTyped
  <2>2. ASSUME NEW j \in Instruments
        PROVE  p.qty[j] = position[a].qty[j] /\ p.avg[j] = position[a].avg[j]
    <3>1. AverageCosts(a, bk)[j] = position[a].avg[j]
      BY <1>2, <1>5, RowKept
    <3>. QED
      BY <1>2, <1>5, <3>1
  <2>3. z = rz
    BY <1>1, <1>2, <1>3, <1>5
  <2>4. d = c
    BY <1>1, <1>2, <1>5
  <2>5. p.qty[i] = q /\ p.avg[i] = v
    BY <2>2
  <2>6. Sum(SharesOf, os) = 0 /\ Sum(FlowIn, os) = 0 /\ Sum(SlackIn, os) = 0
    BY <1>5, IdleSums
  <2>7. Within(0, os)
    BY <2>6 DEF Within, Abs
  <2>. HIDE DEF q, v, rz, R, c
  <2>8. d - c = 0 /\ z - p.qty[i] * p.avg[i] - Gain(a, i) = 0
        /\ p.qty[i] = q + Sum(SharesOf, os)
    BY <1>1, <1>4, <2>3, <2>4, <2>5, <2>6
  <2>. QED
    BY <1>1, <2>1, <2>2, <2>3, <2>4, <2>7, <2>8 DEF RowsMoved, q, c
<1>6. ASSUME NEW o \in Order, NEW f \in Fill,
             os = <<o>>, Filled(o, f), Moved(x.book, bk, i, f)
      PROVE  RowsMoved(a, i, os, p, z, d)
  <2>. DEFINE F == CashFlow(f)
              G == CashFlow(RecordFill(f))
  <2>1. /\ F \in Int /\ G \in Int /\ f.qty \in Nat \ {0}
        /\ f.side = "buy" => -F \in Nat
    BY FlowTyped, RecordedFlow
  <2>2. /\ Sum(SharesOf, os) = IF f.side = "buy" THEN f.qty ELSE -f.qty
        /\ Sum(FlowIn, os) = G /\ Sum(SlackIn, os) = 2 * f.qty + 1
    BY <1>6, FilledSums DEF Filled
  <2>3. p \in Position
    BY <1>6, AveragesTyped DEF Moved
  <2>4. ASSUME NEW j \in Instruments \ {i}
        PROVE  p.qty[j] = position[a].qty[j] /\ p.avg[j] = position[a].avg[j]
    <3>1. bk.qty[j] = position[a].qty[j] /\ bk.cost[j] = HeldCost(position[a])[j]
      BY <1>2, <1>6 DEF Moved
    <3>2. AverageCosts(a, bk)[j] = position[a].avg[j]
      BY <3>1, RowKept
    <3>. QED
      BY <3>1, <3>2
  <2>5. d \in Int /\ Within(d - c, os)
    <3>1. d = ToColumn(InMemory(c) + F)
      BY <1>2, <1>6 DEF Moved
    <3>. QED
      BY <1>1, <2>2, <3>1, CashMoves DEF Within
  <2>6. p.qty[i] = bk.qty[i]
        /\ p.avg[i] = IF bk.qty[i] = 0 THEN v
                      ELSE Nearest(bk.cost[i], bk.qty[i] * ColumnUnit)
    BY DEF AverageCosts
  <2>7. CASE f.side = "buy"
    <3>1. /\ q = 0 /\ bk.qty[i] = f.qty /\ bk.cost[i] = -F
          /\ bk.realized = InMemory(R)
      BY <1>2, <1>6, <2>7 DEF Moved
    <3>2. p.avg[i] = Nearest(-F, f.qty * ColumnUnit)
      BY <2>1, <2>6, <3>1
    <3>3. p.avg[i] \in Nat /\ 2 * Abs(-(f.qty * p.avg[i]) - G) <= 2 * f.qty + 1
      BY <2>7, <3>2, BuyMoves
    <3>4. z = rz
      BY <1>3, <3>1
    <3>5. p.qty[i] = f.qty /\ Sum(SharesOf, os) = f.qty
      BY <2>2, <2>6, <2>7, <3>1
    <3>. HIDE DEF q, v, rz, R, c, F, G
    <3>6. p.qty[i] = q + Sum(SharesOf, os)
      BY <2>1, <3>1, <3>5
    <3>7. z - p.qty[i] * p.avg[i] - Gain(a, i) = -(f.qty * p.avg[i])
      BY <1>1, <1>4, <2>1, <3>1, <3>3, <3>4, <3>5
    <3>8. Within(z - p.qty[i] * p.avg[i] - Gain(a, i), os)
      BY <2>2, <3>3, <3>7 DEF Within
    <3>. QED
      BY <1>1, <2>3, <2>4, <2>5, <3>4, <3>6, <3>8 DEF RowsMoved, q, c
  <2>8. CASE f.side = "sell"
    <3>1. /\ q = f.qty /\ bk.qty[i] = 0
          /\ bk.realized = InMemory(R) + F - q * InMemory(v)
      BY <1>1, <1>2, <1>6, <2>8 DEF Moved
    <3>2. z = ToColumn(InMemory(rz) + F - f.qty * InMemory(v))
      <4>. DEFINE w == f.qty * InMemory(v)
      <4>1. w \in Int /\ bk.realized = InMemory(R) + F - w
        BY <1>3, <2>1, <3>1
      <4>. HIDE DEF w, F, rz, R
      <4>2. InMemory(rz) + bk.realized - InMemory(R) = InMemory(rz) + F - w
        BY <1>3, <2>1, <4>1
      <4>. QED
        BY <4>2 DEF w, rz, R
    <3>3. z \in Int /\ 2 * Abs((z - rz + f.qty * v) - G) <= 2 * f.qty + 1
      BY <1>1, <3>2, SellMoves
    <3>4. p.qty[i] = 0 /\ p.avg[i] = v /\ Sum(SharesOf, os) = -f.qty
      BY <2>2, <2>6, <2>8, <3>1
    <3>. HIDE DEF q, v, rz, R, c, F, G
    <3>5. p.qty[i] = q + Sum(SharesOf, os)
      BY <2>1, <3>1, <3>4
    <3>6. z - p.qty[i] * p.avg[i] - Gain(a, i) = z - rz + f.qty * v
      <4>0. 0 * v = 0
        BY <1>1
      <4>1. p.qty[i] * p.avg[i] = 0 /\ Gain(a, i) = rz - f.qty * v
        <5>1. p.qty[i] * p.avg[i] = 0
          BY ONLY <3>4, <4>0
        <5>. QED
          BY ONLY <1>4, <3>1, <5>1
      <4>. DEFINE w == f.qty * v
      <4>2. w \in Int
        BY <1>1, <2>1
      <4>. HIDE DEF w
      <4>3. z - 0 - (rz - w) = z - rz + w
        BY <1>1, <3>3, <4>2
      <4>. QED
        BY <4>1, <4>3 DEF w
    <3>7. Within(z - p.qty[i] * p.avg[i] - Gain(a, i), os)
      BY <2>2, <3>3, <3>6 DEF Within
    <3>. QED
      BY <2>3, <2>4, <2>5, <3>3, <3>5, <3>7 DEF RowsMoved, q, c
  <2>9. f.side \in Side
    BY DEF Fill
  <2>. QED
    BY <2>7, <2>8, <2>9 DEF Side
<1>. QED
  BY <1>5, <1>6 DEF TradeFacts

\* The step of a tick that commits, and the rows it leaves.
CommitsTo(x, r, a, i, os, bk) ==
  /\ x.pc = "portfolio" /\ r \in Runs /\ Started(r) /\ run[r] \in Run
  /\ a \in Accounts /\ i \in Instruments
  /\ x.book \in Portfolio /\ x.book = BookOf(a)
  /\ Trades(x, os, bk) /\ TradeFacts(x, i, os, bk)
  /\ orders' = [orders EXCEPT ![r] = orders[r] \o os]
  /\ snapshots' = [snapshots EXCEPT ![r] = Append(snapshots[r], Last(x.bars).at)]
  /\ position' = [position EXCEPT ![a] = [qty |-> bk.qty,
                                           avg |-> AverageCosts(a, bk)]]
  /\ realized' = [realized EXCEPT
                    ![a][i] = ToColumn(InMemory(@) + bk.realized
                                         - InMemory(SumOver(realized[a])))]
  /\ ledger[a] \in Seq(Entry) /\ ledger[a] # <<>> /\ ledger'[a] # <<>>
  /\ ledger'[a][1] = ledger[a][1] /\ LatestCash(a)' = ToColumn(bk.cash)
  /\ \A b \in Accounts \ {a} : ledger'[b] = ledger[b]
  /\ run' = [run EXCEPT ![r].last = Last(x.bars).at]
  /\ \A q \in Runs : /\ Started(q)' <=> Started(q)
                     /\ run'[q].account = run[q].account
                     /\ run'[q].instrument = run[q].instrument
  /\ UNCHANGED <<bars, stores>>

LEMMA CommitFacts ==
  ASSUME IInv, BookInv, NEW t \in Tickers, RunTick(t), NEW x, x = tick[t],
         NEW r, r = x.run, NEW a, a = run[r].account,
         NEW i, i = run[r].instrument, NEW os, NEW bk, Settles(x, os, bk)
  PROVE  CommitsTo(x, r, a, i, os, bk) /\ tick' = [tick EXCEPT ![t] = NoTick]
<1>1. x.pc = "portfolio"
  BY TickSettles
<1>2. AccountOf(x) = a
  BY DEF AccountOf
<1>3. /\ r \in Runs /\ Started(r) /\ run[r] \in Run
      /\ a \in Accounts /\ i \in Instruments
      /\ x.book \in Portfolio /\ x.book = BookOf(a)
  BY <1>1, <1>2, TradingTick
<1>4. PICK rows \in Seq(Entry) :
        /\ ledger' = [ledger EXCEPT ![a] = ledger[a] \o rows]
        /\ LeavesCash(x, rows, bk)
  BY <1>2 DEF Settles
<1>5. /\ orders' = [orders EXCEPT ![r] = orders[r] \o os]
      /\ position' = [position EXCEPT ![a] = [qty |-> bk.qty,
                                           avg |-> AverageCosts(a, bk)]]
      /\ realized' = [realized EXCEPT
                        ![a][i] = ToColumn(InMemory(@) + bk.realized
                                             - InMemory(SumOver(realized[a])))]
  BY <1>2 DEF Settles, UpsertPositions
<1>6. Trades(x, os, bk)
  BY DEF Settles
<1>7. TradeFacts(x, i, os, bk)
  <2>1. i = run[x.run].instrument /\ tick[t].pc = "portfolio"
    BY <1>1
  <2>. QED
    BY <1>6, <2>1, TradesFacts
<1>8. /\ run' = [run EXCEPT ![r].last = Last(x.bars).at]
      /\ snapshots' = [snapshots EXCEPT ![r] = Append(snapshots[r], Last(x.bars).at)]
      /\ tick' = [tick EXCEPT ![t] = NoTick]
      /\ UNCHANGED <<bars, stores>>
  BY DEF RunTick, market
<1>9. Last(x.bars).at # 0
  <2>1. Fresh(x) /\ x.last \in Nat
    BY DEF IInv, LockInv, TypeInv, TickTyped
  <2>2. Last(x.bars).at \in Nat
    BY <1>1, TradingTick
  <2>. QED
    BY <1>1, <2>1, <2>2 DEF Fresh
<1>10. \A q \in Runs : /\ Started(q)' <=> Started(q)
                       /\ run'[q].account = run[q].account
                       /\ run'[q].instrument = run[q].instrument
  <2>1. ASSUME NEW q \in Runs \ {r} PROVE run'[q] = run[q]
    BY <1>8 DEF IInv, TypeInv
  <2>2. run'[r] = [run[r] EXCEPT !.last = Last(x.bars).at]
    BY <1>3, <1>8 DEF IInv, TypeInv
  <2>3. run'[r].last # 0 /\ run'[r].account = run[r].account
        /\ run'[r].instrument = run[r].instrument
    BY <1>3, <1>9, <2>2 DEF Run
  <2>4. Started(r)'
    BY <2>3 DEF Started, NoRun
  <2>. QED
    BY <1>3, <2>1, <2>3, <2>4 DEF Started
<1>11. x.book.cash = InMemory(LatestCash(a))
  BY <1>3 DEF BookOf
<1>12. /\ ledger[a] \in Seq(Entry) /\ ledger[a] # <<>>
       /\ ledger'[a] = ledger[a] \o rows /\ ledger'[a] # <<>>
       /\ ledger'[a][1] = ledger[a][1]
       /\ \A b \in Accounts \ {a} : ledger'[b] = ledger[b]
  <2>1. ledger[a] \in Seq(Entry) /\ ledger[a] # <<>>
    BY <1>3 DEF IInv, LockInv, TypeInv
  <2>2. DOMAIN ledger = Accounts
    BY DEF IInv, TypeInv
  <2>. DEFINE w == ledger[a] \o rows
  <2>3. ledger' = [ledger EXCEPT ![a] = w]
    BY <1>4
  <2>4. w # <<>> /\ w[1] = ledger[a][1]
    <3>. DEFINE s == ledger[a]
    <3>1. s \in Seq(Entry) /\ rows \in Seq(Entry) /\ s # <<>>
      BY <1>4, <2>1
    <3>. HIDE DEF s
    <3>2. Len(s \o rows) = Len(s) + Len(rows) /\ Len(s) \in Nat \ {0}
          /\ Len(rows) \in Nat
      BY <3>1
    <3>3. s \o rows # <<>> /\ (s \o rows)[1] = s[1]
      BY <3>1, <3>2
    <3>. QED
      BY <3>3 DEF s
  <2>. HIDE DEF w
  <2>5. ledger'[a] = w /\ \A b \in Accounts \ {a} : ledger'[b] = ledger[b]
    <3>1. a \in DOMAIN ledger
      BY <1>3, <2>2
    <3>. QED
      BY <2>2, <2>3, <3>1, Zenon
  <2>. QED
    BY <2>1, <2>4, <2>5, Zenon DEF w
<1>13. LatestCash(a)' = ToColumn(bk.cash)
  <2>1. CASE rows = <<>>
    <3>. DEFINE s == ledger[a]
    <3>1. s \in Seq(Entry) /\ ledger'[a] = s \o rows
      BY <1>12
    <3>. HIDE DEF s
    <3>2. s \o rows = s
      BY <2>1, <3>1
    <3>3. ledger'[a] = ledger[a]
      BY <3>1, <3>2 DEF s
    <3>. QED
      <4>1. LatestCash(a)' = LatestCash(a)
        BY <3>3 DEF LatestCash
      <4>2. ToColumn(InMemory(LatestCash(a))) = LatestCash(a)
        BY <1>3, <1>12, LoadedRows
      <4>3. bk.cash = x.book.cash
        BY <1>4, <2>1 DEF LeavesCash
      <4>. QED
        BY <1>11, <4>1, <4>2, <4>3
  <2>2. CASE rows # <<>>
    <3>. DEFINE s == ledger[a]
    <3>1. s \in Seq(Entry) /\ rows \in Seq(Entry)
      BY <1>4, <1>12
    <3>. HIDE DEF s
    <3>2. Last(s \o rows) = Last(rows)
      <4>1. Len(rows) \in Nat \ {0}
        BY <2>2, <3>1
      <4>2. /\ Len(s \o rows) = Len(s) + Len(rows) /\ Len(s) \in Nat
            /\ (s \o rows)[Len(s) + Len(rows)] = rows[Len(rows)]
        BY <3>1, <4>1
      <4>. QED
        BY <4>2 DEF Last
    <3>. QED
      BY <1>4, <1>12, <2>2, <3>2 DEF LatestCash, LeavesCash, s
  <2>. QED
    BY <2>1, <2>2
<1>. QED
  BY <1>1, <1>3, <1>5, <1>6, <1>7, <1>8, <1>10, <1>12, <1>13 DEF CommitsTo

LEMMA BookCommit ==
  ASSUME IInv, IInv', BookInv, NEW t \in Tickers, RunTick(t)
  PROVE  BookInv'
<1>1. PICK x : x = tick[t]
  OBVIOUS
<1>2. PICK r : r = x.run
  OBVIOUS
<1>3. PICK a : a = run[r].account
  OBVIOUS
<1>4. PICK i : i = run[r].instrument
  OBVIOUS
<1>5. PICK os, bk : Settles(x, os, bk)
  BY <1>1, TickSettles
<1>6. CommitsTo(x, r, a, i, os, bk) /\ tick' = [tick EXCEPT ![t] = NoTick]
  BY <1>1, <1>2, <1>3, <1>4, <1>5, CommitFacts
<1>7. x.pc = "portfolio" /\ AccountOf(x) = a
  BY <1>2, <1>3, <1>6 DEF AccountOf, CommitsTo
<1>8. /\ r \in Runs /\ Started(r) /\ run[r] \in Run
      /\ a \in Accounts /\ i \in Instruments /\ TradeFacts(x, i, os, bk)
  BY <1>6 DEF CommitsTo
<1>9. /\ orders' = [orders EXCEPT ![r] = orders[r] \o os] /\ AtMostOne(os)
      /\ UNCHANGED <<bars, stores>>
  BY <1>6 DEF CommitsTo, TradeFacts
<1>10. \A q \in Runs : /\ Started(q)' <=> Started(q)
                       /\ run'[q].account = run[q].account
                       /\ run'[q].instrument = run[q].instrument
  BY <1>6 DEF CommitsTo
<1>11. /\ ledger[a] # <<>> /\ ledger'[a] # <<>> /\ ledger'[a][1] = ledger[a][1]
       /\ \A b \in Accounts \ {a} : ledger'[b] = ledger[b]
  BY <1>6 DEF CommitsTo
<1>12. PICK p : p = position'[a]
  OBVIOUS
<1>13. PICK z : z = realized'[a][i]
  OBVIOUS
<1>14. PICK d : d = LatestCash(a)'
  OBVIOUS
<1>15. /\ \A b \in Accounts \ {a} : position'[b] = position[b]
                                    /\ realized'[b] = realized[b]
       /\ \A j \in Instruments \ {i} : realized'[a][j] = realized[a][j]
       /\ p = [qty |-> bk.qty, avg |-> AverageCosts(a, bk)]
       /\ z = ToColumn(InMemory(realized[a][i]) + bk.realized
                         - InMemory(SumOver(realized[a])))
       /\ d = ToColumn(bk.cash)
  BY <1>6, <1>8, <1>12, <1>13, <1>14 DEF CommitsTo, BookInv, TypeOK
<1>16. RowsMoved(a, i, os, p, z, d)
  <2>1. ledger[a] \in Seq(Entry) /\ ledger[a] # <<>> /\ x.book = BookOf(a)
    BY <1>6 DEF CommitsTo
  <2>2. Valued(x.book)
    BY <1>1, <1>7, TradingTick
  <2>. QED
    BY <1>8, <1>15, <2>1, <2>2, RowsMove
<1>17. p \in Position /\ z \in Int /\ d \in Int
  BY <1>16 DEF RowsMoved
<1>18. TypeOK'
  <2>1. position' = [position EXCEPT ![a] = p] /\ DOMAIN realized' = Accounts
        /\ DOMAIN realized'[a] = Instruments
    BY <1>6, <1>8, <1>15 DEF CommitsTo, BookInv, TypeOK
  <2>2. position' \in [Accounts -> Position]
    BY <1>8, <1>17, <2>1 DEF BookInv, TypeOK
  <2>3. realized'[a] \in [Instruments -> Int]
    <3>1. ASSUME NEW j \in Instruments PROVE realized'[a][j] \in Int
      <4>1. realized[a][j] \in Int
        BY <1>8 DEF BookInv, TypeOK
      <4>2. j # i => realized'[a][j] = realized[a][j]
        BY <1>15
      <4>. QED
        BY <1>13, <1>17, <4>1, <4>2
    <3>2. \E w : realized'[a] = [realized[a] EXCEPT ![i] = w]
      BY <1>6, <1>8 DEF CommitsTo, BookInv, TypeOK
    <3>. QED
      BY <1>8, <2>1, <3>1, <3>2 DEF BookInv, TypeOK
  <2>4. realized' \in [Accounts -> [Instruments -> Int]]
    <3>1. \E w : realized' = [realized EXCEPT ![a] = w]
      BY <1>6 DEF CommitsTo
    <3>. QED
      BY <1>8, <1>15, <2>3, <3>1 DEF BookInv, TypeOK
  <2>5. tick' \in [Tickers -> Tick]
    BY <1>6, <1>9, BookNoTick DEF BookInv, TypeOK
  <2>6. stores' \in 0 .. MaxStores
    BY <1>9 DEF BookInv, TypeOK
  <2>. QED
    BY <2>2, <2>4, <2>5, <2>6 DEF TypeOK, IInv, TypeInv
<1>19. ASSUME NEW u \in Tickers PROVE FreshBook(tick[u])'
  <2>. SUFFICES ASSUME tick'[u].pc = "portfolio" PROVE FreshBook(tick[u])'
    BY DEF FreshBook
  <2>1. u # t /\ tick'[u] = tick[u]
    BY <1>6, BookNoTick DEF IInv, TypeInv, NoTick
  <2>2. PICK y : y = tick[u]
    OBVIOUS
  <2>3. y.pc = "portfolio"
    BY <2>1, <2>2
  <2>4. y.run \in Runs /\ AccountOf(y) \in Accounts /\ y.book = BookOf(AccountOf(y))
    BY <2>2, <2>3, TradingTick
  <2>5. AccountOf(y) # a
    BY <1>1, <1>7, <2>1, <2>2, <2>3 DEF IInv, LockInv, Alone, Holding
  <2>6. PICK b : b = AccountOf(y)
    OBVIOUS
  <2>7. AccountOf(y)' = b
    BY <1>10, <2>4, <2>6 DEF AccountOf
  <2>8. BookOf(b)' = BookOf(b)
    BY <1>11, <1>15, <2>4, <2>5, <2>6 DEF BookOf, LatestCash
  <2>9. tick'[u] = y
    BY <2>1, <2>2
  <2>. QED
    BY <2>4, <2>6, <2>7, <2>8, <2>9 DEF FreshBook, AccountOf
<1>20. ASSUME NEW q \in Runs, ~Started(q)' PROVE orders'[q] = <<>>
  <2>1. ~Started(q) /\ q # r
    BY <1>8, <1>10, <1>20
  <2>2. orders'[q] = orders[q]
    BY <1>9, <2>1 DEF BookInv, TypeOK
  <2>. QED
    BY <2>1, <2>2 DEF BookInv
<1>21. ASSUME NEW b \in Accounts, ledger'[b] = <<>>, NEW j \in Instruments
       PROVE  position'[b].qty[j] = 0 /\ realized'[b][j] = 0
  BY <1>11, <1>15, <1>21 DEF BookInv
<1>22. orders \in [Runs -> Seq(Order)]
  BY DEF BookInv, TypeOK
<1>23. ASSUME NEW v \in Worth, NEW R \in SUBSET Runs
       PROVE  /\ Total(v, orders', R)
                   = Total(v, orders, R) + (IF r \in R THEN Sum(v, os) ELSE 0)
              /\ Total(v, orders, R) \in Int /\ Sum(v, os) \in Int
  <2>1. Total(v, orders', R)
          = Total(v, orders, R) + (IF r \in R THEN Sum(v, os) ELSE 0)
    <3>1. PICK w : w = orders'
      OBVIOUS
    <3>2. PICK s : s = orders
      OBVIOUS
    <3>3. /\ MoreOf(r, s, os, w) /\ s \in [Runs -> Seq(Order)]
          /\ AtMostOne(os) /\ r \in Runs
      BY <1>8, <1>9, <1>22, <3>1, <3>2 DEF MoreOf
    <3>4. Total(v, w, R) = Total(v, s, R) + (IF r \in R THEN Sum(v, os) ELSE 0)
      BY ONLY <3>3, v \in Worth, R \in SUBSET Runs, TotalGrows
    <3>. QED
      BY <3>1, <3>2, <3>4
  <2>2. Total(v, orders, R) \in Int
    BY <1>22, TotalTyped
  <2>3. Sum(v, os) \in Int
    BY <1>8, <1>9, <1>22, SumJoined
  <2>. QED
    BY <2>1, <2>2, <2>3
<1>24. ASSUME NEW R \in SUBSET Runs, NEW y \in Int, NEW w \in Int, Balanced(y, R),
              IF r \in R THEN Within(w - y, os) ELSE w = y
       PROVE  Balanced(w, R)'
  <2>. DEFINE F == Total(FlowIn, orders, R)
              S == Total(SlackIn, orders, R)
              f == Sum(FlowIn, os)
              s == Sum(SlackIn, os)
  <2>1. F \in Int /\ S \in Int /\ f \in Int /\ s \in Int
    BY <1>23, WorthTyped
  <2>2. /\ Total(FlowIn, orders', R) = F + (IF r \in R THEN f ELSE 0)
        /\ Total(SlackIn, orders', R) = S + (IF r \in R THEN s ELSE 0)
    BY <1>23, WorthTyped
  <2>3. 2 * Abs(y - F) <= S
    BY <1>24 DEF Balanced
  <2>4. r \in R => 2 * Abs((w - y) - f) <= s
    BY <1>24 DEF Within
  <2>. HIDE DEF F, S, f, s
  <2>5. r \in R => 2 * Abs(w - (F + f)) <= S + s
    BY <2>1, <2>3, <2>4, BalanceStep
  <2>6. /\ r \in R => 2 * Abs(w - Total(FlowIn, orders', R))
                        <= Total(SlackIn, orders', R)
        /\ r \notin R => 2 * Abs(w - Total(FlowIn, orders', R))
                           <= Total(SlackIn, orders', R)
    BY <1>24, <2>1, <2>2, <2>3, <2>5
  <2>. QED
    BY <2>6 DEF Balanced
<1>25. ASSUME NEW b \in Accounts, ledger'[b] # <<>> PROVE Books(b)'
  <2>1. RunsOf(b)' = RunsOf(b)
        /\ \A j \in Instruments : RunsOn(b, j)' = RunsOn(b, j)
    BY <1>10 DEF RunsOf, RunsOn
  <2>2. /\ r \in RunsOf(b) <=> b = a
        /\ \A j \in Instruments : r \in RunsOn(b, j) <=> b = a /\ j = i
    BY <1>3, <1>4, <1>8 DEF RunsOf, RunsOn
  <2>3. ledger[b] # <<>> /\ Books(b)
    BY <1>11, <1>25 DEF BookInv
  <2>4. LatestCash(b) \in Int /\ ledger[b][1].amount \in Int
        /\ ledger'[b][1] = ledger[b][1]
    <3>1. ledger[b] \in Seq(Entry)
      BY DEF BookInv, TypeOK
    <3>2. ledger[b][1] \in Entry
      BY <2>3, <3>1, EmptySeq, ElementOfSeq
    <3>. QED
      BY <1>11, <2>3, <3>1, <3>2, LoadedRows DEF Entry
  <2>5. Balanced(LatestCash(b) - ledger[b][1].amount, RunsOf(b))'
    <3>a. PICK y : y = LatestCash(b) - ledger[b][1].amount
      OBVIOUS
    <3>b. PICK w : w = LatestCash(b)' - ledger[b][1].amount
      OBVIOUS
    <3>1. y \in Int /\ Balanced(y, RunsOf(b))
      BY <2>3, <2>4, <3>a DEF Books
    <3>2. CASE b = a
      <4>1. w \in Int /\ w - y = d - LatestCash(a)
        BY <1>14, <1>17, <2>4, <3>2, <3>a, <3>b
      <4>2. Within(w - y, os)
        BY <1>16, <4>1 DEF RowsMoved
      <4>3. Balanced(w, RunsOf(b))'
        BY <1>24, <2>1, <2>2, <3>1, <3>2, <4>1, <4>2, RunsFinite
      <4>. QED
        BY <2>4, <4>3, <3>b DEF Balanced
    <3>3. CASE b # a
      <4>1. w = y
        BY <1>11, <3>3, <3>a, <3>b DEF LatestCash
      <4>3. Balanced(w, RunsOf(b))'
        BY <1>24, <2>1, <2>2, <3>1, <3>3, <4>1, RunsFinite
      <4>. QED
        BY <2>4, <4>3, <3>b DEF Balanced
    <3>. QED
      BY <3>2, <3>3
  <2>6. ASSUME NEW j \in Instruments PROVE Balanced(Gain(b, j), RunsOn(b, j))'
    <3>1. PICK y : y = Gain(b, j)
      OBVIOUS
    <3>2. PICK w : w = Gain(b, j)'
      OBVIOUS
    <3>3. y \in Int /\ w \in Int
      <4>1. ASSUME NEW n \in Nat, NEW m \in Nat, NEW k \in Int
            PROVE  k - n * m \in Int
        OBVIOUS
      <4>2. /\ position[b].qty[j] \in Nat /\ position[b].avg[j] \in Nat
            /\ realized[b][j] \in Int
        BY DEF BookInv, TypeOK, Position
      <4>3. /\ position'[b].qty[j] \in Nat /\ position'[b].avg[j] \in Nat
            /\ realized'[b][j] \in Int
        BY <1>18 DEF TypeOK, Position
      <4>. QED
        BY <3>1, <3>2, <4>1, <4>2, <4>3 DEF Gain
    <3>4. Balanced(y, RunsOn(b, j))
      BY <2>3, <3>1 DEF Books
    <3>5. CASE b = a /\ j = i
      <4>1. w = z - p.qty[i] * p.avg[i]
        BY <1>12, <1>13, <3>2, <3>5 DEF Gain
      <4>2. Within(w - y, os)
        BY <1>16, <3>1, <3>5, <4>1 DEF RowsMoved
      <4>. QED
        BY <1>24, <2>1, <2>2, <3>2, <3>3, <3>4, <3>5, <4>2, RunsFinite DEF Balanced
    <3>6. CASE ~(b = a /\ j = i)
      <4>1. /\ position'[b].qty[j] = position[b].qty[j]
            /\ position'[b].avg[j] = position[b].avg[j]
            /\ realized'[b][j] = realized[b][j]
        BY <1>12, <1>15, <1>16, <3>6 DEF RowsMoved
      <4>2. w = y
        BY <3>1, <3>2, <4>1 DEF Gain
      <4>. QED
        BY <1>24, <2>1, <2>2, <3>2, <3>3, <3>4, <3>6, <4>2, RunsFinite DEF Balanced
    <3>. QED
      BY <3>5, <3>6
  <2>. QED
    BY <2>5, <2>6 DEF Books
<1>26. ASSUME NEW b \in Accounts, NEW j \in Instruments PROVE Holds(b, j)'
  <2>1. RunsOn(b, j)' = RunsOn(b, j) /\ (r \in RunsOn(b, j) <=> b = a /\ j = i)
    BY <1>3, <1>4, <1>8, <1>10 DEF RunsOn
  <2>2. Total(SharesOf, orders', RunsOn(b, j))
          = Total(SharesOf, orders, RunsOn(b, j))
              + (IF r \in RunsOn(b, j) THEN Sum(SharesOf, os) ELSE 0)
        /\ Total(SharesOf, orders, RunsOn(b, j)) \in Int
    BY <1>23, RunsFinite, WorthTyped
  <2>3. position[b].qty[j] = Total(SharesOf, orders, RunsOn(b, j))
    BY DEF BookInv, Holds
  <2>4. CASE b = a /\ j = i
    <3>1. position'[b].qty[j] = position[b].qty[j] + Sum(SharesOf, os)
      BY <1>12, <1>16, <2>4 DEF RowsMoved
    <3>. QED
      BY <2>1, <2>2, <2>3, <2>4, <3>1 DEF Holds
  <2>5. CASE ~(b = a /\ j = i)
    <3>1. position'[b].qty[j] = position[b].qty[j]
      BY <1>12, <1>15, <1>16, <2>5 DEF RowsMoved
    <3>. QED
      BY <2>1, <2>2, <2>3, <2>5, <3>1 DEF Holds
  <2>. QED
    BY <2>4, <2>5
<1>. QED
  BY <1>18, <1>19, <1>20, <1>21, <1>25, <1>26 DEF BookInv

LEMMA BookNext == IInv /\ IInv' /\ BookInv /\ [Next]_vars => BookInv'
<1>. SUFFICES ASSUME IInv, IInv', BookInv, [Next]_vars PROVE BookInv'
  OBVIOUS
<1>1. CASE UNCHANGED vars
  <2>1. /\ UNCHANGED <<account, journal, run>>
        /\ stores' \in 0 .. MaxStores /\ tick' \in [Tickers -> Tick]
        /\ \A t \in Tickers : FreshBook(tick'[t])
    BY <1>1 DEF vars, market, BookInv, TypeOK
  <2>. QED
    BY <2>1, BookQuiet
<1>2. ASSUME NEW i \in Instruments,
             \/ \E d \in Dates, c \in Closes : StoreBar(i, [at |-> d, close |-> c])
             \/ \E c \in Closes : \E k \in DOMAIN bars[i] : CorrectBar(i, k, c)
      PROVE  BookInv'
  BY <1>2, BookMarket
<1>3. ASSUME NEW a \in Accounts, CreateAccount(a) PROVE BookInv'
  BY <1>3, BookAccount
<1>4. ASSUME NEW r \in Runs, NEW a \in Accounts, NEW i \in Instruments,
             StartRun(r, a, i)
      PROVE  BookInv'
  BY <1>4, BookRun
<1>5. ASSUME NEW t \in Tickers, NEW r \in Runs, LoadRun(t, r) PROVE BookInv'
  BY <1>5, BookTick
<1>6. ASSUME NEW t \in Tickers, TickStep(t) \/ AbortTick(t) PROVE BookInv'
  <2>1. CASE LoadAccount(t) \/ ListBars(t) \/ LoadPortfolio(t) \/ AbortTick(t)
    BY <2>1, BookTick
  <2>2. CASE RunTick(t)
    BY <2>2, BookCommit
  <2>. QED
    BY <1>6, <2>1, <2>2 DEF TickStep
<1>. QED
  BY <1>1, <1>2, <1>3, <1>4, <1>5, <1>6 DEF Next

LEMMA AlwaysBookInv == Spec => []BookInv
<1>1. Init => BookInv
  BY BookInit
<1>2. IInv /\ IInv' /\ BookInv /\ [Next]_vars => BookInv'
  BY BookNext
<1>. QED
  BY <1>1, <1>2, AlwaysIInv, PTL DEF Spec

(***************************************************************************)
(* TypeOK (PaperTrading): the rows a tick writes, rounded, are again rows  *)
(* a tick can read; no quantity and no avg_cost is ever negative.          *)
(***************************************************************************)
THEOREM PaperTradingIsTyped == Spec => []TypeOK
<1>1. BookInv => TypeOK
  BY DEF BookInv
<1>. QED
  BY <1>1, AlwaysBookInv, PTL

(***************************************************************************)
(* BooksBalance (PaperTrading): what the columns lose by being rounded     *)
(* never builds up beyond half a digit for each rounded amount and share,  *)
(* on the balance or on any one instrument, although a tick computes from  *)
(* rounded rows and takes the change of the realized profit against the    *)
(* sum over all of them; for any prices, rates and runs.                   *)
(***************************************************************************)
THEOREM BooksAlwaysBalance == Spec => []BooksBalance
<1>1. BookInv => BooksBalance
  BY InTotals
<1>. QED
  BY <1>1, AlwaysBookInv, PTL

(***************************************************************************)
(* HoldingsMatchFills (PaperTrading): the rows of paper_positions, written *)
(* from a portfolio read earlier in the transaction, are the sum of the    *)
(* fills of all the runs that trade the instrument on the account.         *)
(***************************************************************************)
THEOREM HoldingsAlwaysMatchFills == Spec => []HoldingsMatchFills
<1>1. BookInv => HoldingsMatchFills
  BY InTotals
<1>. QED
  BY <1>1, AlwaysBookInv, PTL
=============================================================================
