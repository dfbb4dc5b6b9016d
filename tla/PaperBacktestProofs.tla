------------------------ MODULE PaperBacktestProofs ------------------------
(***************************************************************************)
(* A proof that a paper run which followed every bar has traded as the     *)
(* backtest does, for every strategy, history and rate, however many bars  *)
(* there are and whatever other runs do on other accounts in the meantime. *)
(* Book by book the two stay near (Tracks): what a tick writes and the     *)
(* next one loads moves each amount by at most half a digit (Stored), a    *)
(* fill adds that to the distance (TracksOn), and on amounts so near the   *)
(* two decide alike when the decision is clear (SameCall).                 *)
(***************************************************************************)
EXTENDS PaperBacktest, PaperTradingProofs

-----------------------------------------------------------------------------
(***************************************************************************)
(* The backtest: its loop, one bar at a time.                              *)
(***************************************************************************)
State    == {s \in [book : Portfolio, fills : Seq(Fill)] : Valued(s.book)}
Start(c) == [book |-> StartingBook(c), fills |-> <<>>]

LEMMA StartTyped ==
  ASSUME NEW cash \in Int
  PROVE  Start(cash) \in State
BY DEF Start, StartingBook, State, Portfolio, Valued

LEMMA OneIntent ==
  ASSUME NEW s \in Strategy, NEW closes, NEW held \in Nat,
         NEW o \in OnBar(s, closes, held)
  PROVE  OnBar(s, closes, held) = {o} /\ (CHOOSE x \in {o} : TRUE) = o
BY DEF OnBar, Strategy

\* The fill of the intent o for the latest of the closes c.
LatestFill(o, c) == ExecuteMarketOrder(o, InMemory(c[Len(c)]))

LEMMA LatestFillTyped ==
  ASSUME NEW s \in Strategy, NEW c \in Seq(Nat), c # <<>>, NEW book \in Portfolio,
         NEW i \in Instruments, NEW o \in OnBar(s, c, book.qty[i]),
         NEW f, f = LatestFill(o, c)
  PROVE  /\ f \in Fill /\ f.side = o.side
         /\ \/ f.side = "buy" /\ book.qty[i] = 0
            \/ f.side = "sell" /\ f.qty = book.qty[i]
<1>1. InMemory(c[Len(c)]) \in Nat
  <2>1. c[Len(c)] \in Nat
    BY EmptySeq, ElementOfSeq
  <2>. QED
    BY <2>1, ColumnFacts
<1>2. book.qty[i] \in Nat
  BY DEF Portfolio
<1>3. /\ o \in [side : Side, qty : Nat \ {0}]
      /\ \/ o.side = "buy" /\ book.qty[i] = 0
         \/ o.side = "sell" /\ o.qty = book.qty[i]
  BY <1>2, IntentFacts
<1>4. f \in Fill /\ f.side = o.side /\ f.qty = o.qty
  BY <1>1, <1>3, FillFacts DEF LatestFill
<1>. QED
  BY <1>3, <1>4

\* One bar of the loop: nothing, or the intent that there is.
LEMMA TradeBarCases ==
  ASSUME NEW s \in State, NEW c \in Seq(Nat), c # <<>>,
         NEW i \in Instruments, NEW strategy \in Strategy
  PROVE  \/ /\ OnBar(strategy, c, s.book.qty[i]) = {}
            /\ TradeBar(s, c, i, strategy) = s
         \/ \E o \in OnBar(strategy, c, s.book.qty[i]) :
              LET f == LatestFill(o, c)
              IN  \/ /\ InsufficientCash(s.book, f)
                     /\ TradeBar(s, c, i, strategy) = s
                  \/ /\ ~InsufficientCash(s.book, f)
                     /\ TradeBar(s, c, i, strategy)
                          = [book  |-> ApplyFill(s.book, i, f),
                             fills |-> Append(s.fills, RecordFill(f))]
                     /\ Moved(s.book, ApplyFill(s.book, i, f), i, f)
<1>. DEFINE intents == OnBar(strategy, c, s.book.qty[i])
<1>1. s.book \in Portfolio /\ Valued(s.book) /\ s.book.qty[i] \in Nat
  BY DEF State, Portfolio
<1>2. CASE intents = {}
  BY <1>2 DEF TradeBar
<1>3. ASSUME NEW o \in intents, NEW f, f = LatestFill(o, c)
      PROVE  /\ TradeBar(s, c, i, strategy)
                  = IF InsufficientCash(s.book, f) THEN s
                    ELSE [book  |-> ApplyFill(s.book, i, f),
                          fills |-> Append(s.fills, RecordFill(f))]
             /\ Moved(s.book, ApplyFill(s.book, i, f), i, f)
  <2>1. intents # {} /\ (CHOOSE x \in intents : TRUE) = o
    BY <1>1, OneIntent
  <2>2. TradeBar(s, c, i, strategy)
          = IF InsufficientCash(s.book, f) THEN s
            ELSE [book  |-> ApplyFill(s.book, i, f),
                  fills |-> Append(s.fills, RecordFill(f))]
    BY <1>3, <2>1 DEF TradeBar, LatestFill
  <2>3. /\ f \in Fill
        /\ \/ f.side = "buy" /\ s.book.qty[i] = 0
           \/ f.side = "sell" /\ f.qty = s.book.qty[i]
    BY <1>1, <1>3, LatestFillTyped
  <2>4. Moved(s.book, ApplyFill(s.book, i, f), i, f)
    BY <1>1, <2>3, AppliedFill
  <2>. QED
    BY <2>2, <2>4
<1>4. ASSUME NEW o \in intents
      PROVE  LET f == LatestFill(o, c)
             IN  \/ /\ InsufficientCash(s.book, f)
                    /\ TradeBar(s, c, i, strategy) = s
                 \/ /\ ~InsufficientCash(s.book, f)
                    /\ TradeBar(s, c, i, strategy)
                         = [book  |-> ApplyFill(s.book, i, f),
                            fills |-> Append(s.fills, RecordFill(f))]
                    /\ Moved(s.book, ApplyFill(s.book, i, f), i, f)
  <2>. DEFINE f == LatestFill(o, c)
  <2>1. /\ TradeBar(s, c, i, strategy)
             = IF InsufficientCash(s.book, f) THEN s
               ELSE [book  |-> ApplyFill(s.book, i, f),
                     fills |-> Append(s.fills, RecordFill(f))]
        /\ Moved(s.book, ApplyFill(s.book, i, f), i, f)
    BY <1>3
  <2>. QED
    BY <2>1
<1>. QED
  BY <1>2, <1>4

LEMMA TradeBarTyped ==
  ASSUME NEW s \in State, NEW c \in Seq(Nat), c # <<>>,
         NEW i \in Instruments, NEW strategy \in Strategy
  PROVE  TradeBar(s, c, i, strategy) \in State
<1>1. CASE TradeBar(s, c, i, strategy) = s
  BY <1>1
<1>2. ASSUME NEW f, NEW book, Moved(s.book, book, i, f),
             TradeBar(s, c, i, strategy)
               = [book |-> book, fills |-> Append(s.fills, RecordFill(f))]
      PROVE  TradeBar(s, c, i, strategy) \in State
  <2>1. f \in Fill /\ Valued(book) /\ s.fills \in Seq(Fill)
    BY <1>2 DEF Moved, State
  <2>2. RecordFill(f) \in Fill
    BY <2>1, RecordedFill
  <2>3. Append(s.fills, RecordFill(f)) \in Seq(Fill)
    BY <2>1, <2>2
  <2>. QED
    BY <1>2, <2>1, <2>3 DEF State, Valued
<1>. QED
  BY <1>1, <1>2, TradeBarCases

\* The states of the loop.
AfterBars(c, i, strategy, cash) ==
  CHOOSE after : after =
    [n \in 0 .. Len(c) |->
       IF n = 0 THEN Start(cash)
       ELSE TradeBar(after[n - 1], SubSeq(c, 1, n), i, strategy)]

LEMMA BacktestIsLast ==
  ASSUME NEW c, NEW i, NEW strategy, NEW cash
  PROVE  RunBacktest(c, i, strategy, cash) = AfterBars(c, i, strategy, cash)[Len(c)]
BY DEF RunBacktest, AfterBars, Start

LEMMA AfterBarsFacts ==
  ASSUME NEW c \in Seq(Nat), NEW i \in Instruments, NEW strategy \in Strategy,
         NEW cash \in Int, NEW h, h = AfterBars(c, i, strategy, cash)
  PROVE  /\ h[0] = Start(cash)
         /\ \A n \in 1 .. Len(c) : h[n] = TradeBar(h[n - 1], SubSeq(c, 1, n), i, strategy)
         /\ \A n \in 0 .. Len(c) : h[n] \in State
<1>. DEFINE N == Len(c)
            base == Start(cash)
            step == [n \in 1 .. N |-> [v \in State |->
                       TradeBar(v, SubSeq(c, 1, n), i, strategy)]]
<1>1. N \in Nat
  OBVIOUS
<1>2. base \in State
  BY StartTyped
<1>3. ASSUME NEW n \in 1 .. N, NEW v \in State
      PROVE  /\ step[n][v] = TradeBar(v, SubSeq(c, 1, n), i, strategy)
             /\ TradeBar(v, SubSeq(c, 1, n), i, strategy) \in State
  <2>. DEFINE p == SubSeq(c, 1, n)
  <2>1. p \in Seq(Nat) /\ Len(p) = n
    OBVIOUS
  <2>2. p # <<>>
    BY <2>1
  <2>. HIDE DEF p
  <2>3. TradeBar(v, p, i, strategy) \in State
    BY <2>1, <2>2, TradeBarTyped
  <2>. QED
    BY <2>3 DEF p
<1>4. StepsIn(State, N, step)
  BY <1>3 DEF StepsIn
<1>5. h = CHOOSE after : after =
            [n \in 0 .. N |-> IF n = 0 THEN base
                              ELSE TradeBar(after[n - 1], SubSeq(c, 1, n), i, strategy)]
  BY DEF AfterBars
<1>. HIDE DEF step, base, N
<1>6. PICK g \in [0 .. N -> State] : Recursion(g, base, N, step)
  BY <1>1, <1>2, <1>4, RecursionExists
<1>7. g = [n \in 0 .. N |-> IF n = 0 THEN base
                            ELSE TradeBar(g[n - 1], SubSeq(c, 1, n), i, strategy)]
  <2>1. ASSUME NEW n \in 1 .. N
        PROVE  step[n][g[n - 1]] = TradeBar(g[n - 1], SubSeq(c, 1, n), i, strategy)
    <3>1. g[n - 1] \in State
      BY <1>1, <1>6
    <3>. QED
      BY <1>3, <3>1
  <2>2. /\ DOMAIN g = 0 .. N /\ g[0] = base /\ g = [n \in 0 .. N |-> g[n]]
        /\ \A n \in 1 .. N : g[n] = step[n][g[n - 1]]
    BY <1>1, <1>6 DEF Recursion
  <2>3. \A n \in 0 .. N : g[n] = IF n = 0 THEN base
                            ELSE TradeBar(g[n - 1], SubSeq(c, 1, n), i, strategy)
    <3>1. ASSUME NEW n \in 0 .. N, n # 0
          PROVE  g[n] = TradeBar(g[n - 1], SubSeq(c, 1, n), i, strategy)
      <4>1. n \in 1 .. N
        BY <1>1, <3>1
      <4>. QED
        BY <2>1, <2>2, <4>1
    <3>. QED
      BY <2>2, <3>1
  <2>. QED
    BY <2>2, <2>3
<1>8. h = [n \in 0 .. N |-> IF n = 0 THEN base
                            ELSE TradeBar(h[n - 1], SubSeq(c, 1, n), i, strategy)]
  BY <1>5, <1>7
<1>9. h[0] = base /\ \A n \in 1 .. N : h[n] = TradeBar(h[n - 1], SubSeq(c, 1, n), i, strategy)
  BY <1>1, <1>8
<1>10. \A n \in 0 .. N : h[n] \in State
  <2>. DEFINE S == {n \in 0 .. N : h[n] \in State}
  <2>1. 0 \in S /\ \A n \in 1 .. N : n - 1 \in S => n \in S
    BY <1>1, <1>2, <1>3, <1>9
  <2>. HIDE DEF S
  <2>2. \A n \in 0 .. N : n \in S
    BY <1>1, <2>1, InductionUpTo
  <2>. QED
    BY <2>2 DEF S
<1>. QED
  BY <1>9, <1>10 DEF base, N

\* A bar more: the loop goes through the same states, and one more.
LEMMA BacktestStep ==
  ASSUME NEW c \in Seq(Nat), NEW e \in Nat, NEW i \in Instruments,
         NEW strategy \in Strategy, NEW cash \in Int
  PROVE  /\ RunBacktest(c, i, strategy, cash) \in State
         /\ RunBacktest(Append(c, e), i, strategy, cash)
              = TradeBar(RunBacktest(c, i, strategy, cash), Append(c, e), i, strategy)
<1>. DEFINE N == Len(c)
            w == Append(c, e)
            h == AfterBars(c, i, strategy, cash)
            g == AfterBars(w, i, strategy, cash)
<1>1. /\ N \in Nat /\ w \in Seq(Nat) /\ Len(w) = N + 1
      /\ SubSeq(w, 1, N + 1) = w
      /\ \A n \in 1 .. N : SubSeq(w, 1, n) = SubSeq(c, 1, n)
  <2>1. N \in Nat /\ w \in Seq(Nat) /\ Len(w) = N + 1
        /\ \A n \in 1 .. N : w[n] = c[n]
    OBVIOUS
  <2>2. SubSeq(w, 1, N + 1) = w
    BY <2>1, SubSeqFull
  <2>3. ASSUME NEW n \in 1 .. N PROVE SubSeq(w, 1, n) = SubSeq(c, 1, n)
    BY <2>1
  <2>. QED
    BY <2>1, <2>2, <2>3
<1>2. /\ h[0] = Start(cash)
      /\ \A n \in 1 .. N : h[n] = TradeBar(h[n - 1], SubSeq(c, 1, n), i, strategy)
      /\ \A n \in 0 .. N : h[n] \in State
  BY AfterBarsFacts
<1>3. /\ g[0] = Start(cash)
      /\ \A n \in 1 .. N + 1 : g[n] = TradeBar(g[n - 1], SubSeq(w, 1, n), i, strategy)
  <2>. HIDE DEF w
  <2>1. /\ g[0] = Start(cash)
        /\ \A n \in 1 .. Len(w) : g[n] = TradeBar(g[n - 1], SubSeq(w, 1, n), i, strategy)
    BY <1>1, AfterBarsFacts
  <2>. QED
    BY <1>1, <2>1
<1>4. RunBacktest(c, i, strategy, cash) = h[N] /\ RunBacktest(w, i, strategy, cash) = g[N + 1]
  BY <1>1, BacktestIsLast
<1>. HIDE DEF N, w, h, g
<1>5. \A n \in 0 .. N : g[n] = h[n]
  <2>1. g[0] = h[0] /\ N \in Nat
    BY <1>1, <1>2, <1>3
  <2>2. ASSUME NEW n \in 1 .. N, g[n - 1] = h[n - 1] PROVE g[n] = h[n]
    <3>1. n \in 1 .. N + 1
      BY <1>1
    <3>2. g[n] = TradeBar(g[n - 1], SubSeq(w, 1, n), i, strategy)
      BY <1>3, <3>1
    <3>3. h[n] = TradeBar(h[n - 1], SubSeq(c, 1, n), i, strategy)
      BY <1>2
    <3>4. SubSeq(w, 1, n) = SubSeq(c, 1, n)
      BY <1>1
    <3>. QED
      BY <2>2, <3>2, <3>3, <3>4
  <2>3. SameSteps(g, h, N)
    BY <2>1, <2>2 DEF SameSteps
  <2>. QED
    BY <2>1, <2>3, RecursionsAgree
<1>6. g[N + 1] = TradeBar(h[N], w, i, strategy)
  <2>1. N + 1 \in 1 .. N + 1 /\ N \in 0 .. N /\ (N + 1) - 1 = N
    BY <1>1
  <2>. QED
    BY <1>1, <1>3, <1>5, <2>1
<1>. QED
  BY <1>1, <1>2, <1>4, <1>6 DEF w

\* Before the strategy has a window of bars, nothing happens.
LEMMA BacktestIdle ==
  ASSUME NEW c \in Seq(Nat), NEW i \in Instruments, NEW strategy \in Strategy,
         NEW cash \in Int, Len(c) <= strategy.long
  PROVE  RunBacktest(c, i, strategy, cash) = Start(cash)
<1>. DEFINE N == Len(c)
            h == AfterBars(c, i, strategy, cash)
            S == {n \in 0 .. N : h[n] = Start(cash)}
<1>1. N \in Nat /\ N <= strategy.long
  OBVIOUS
<1>2. /\ h[0] = Start(cash)
      /\ \A n \in 1 .. N : h[n] = TradeBar(h[n - 1], SubSeq(c, 1, n), i, strategy)
  BY AfterBarsFacts
<1>3. ASSUME NEW n \in 1 .. N, NEW s PROVE TradeBar(s, SubSeq(c, 1, n), i, strategy) = s
  <2>1. Len(SubSeq(c, 1, n)) = n /\ ~(n >= strategy.long + 1)
    BY <1>1 DEF Strategy
  <2>2. OnBar(strategy, SubSeq(c, 1, n), s.book.qty[i]) = {}
    BY <2>1 DEF OnBar
  <2>. QED
    BY <2>2 DEF TradeBar
<1>. HIDE DEF h
<1>4. 0 \in S /\ \A n \in 1 .. N : n - 1 \in S => n \in S
  BY <1>1, <1>2, <1>3
<1>. HIDE DEF N, S
<1>5. \A n \in 0 .. N : n \in S
  BY <1>1, <1>4, InductionUpTo
<1>6. h[N] = Start(cash)
  BY <1>1, <1>5 DEF S
<1>. QED
  BY <1>6, BacktestIsLast DEF h, N

\* The latest decision of the loop was not close.
ClearCall(s, c, i, strategy) ==
  \A o \in OnBar(strategy, c, s.book.qty[i]) : o.side = "buy" =>
    2 * Abs(s.book.cash + CashFlow(LatestFill(o, c))) > CashSlack(s.fills)

LEMMA PrefixesKept ==
  ASSUME NEW c \in Seq(Nat), NEW e \in Nat, NEW w, w = Append(c, e),
         NEW N, N = Len(c)
  PROVE  /\ N \in Nat /\ w \in Seq(Nat) /\ Len(w) = N + 1
         /\ DOMAIN w = 1 .. N + 1 /\ DOMAIN c = 1 .. N /\ w[N + 1] = e
         /\ SubSeq(w, 1, N + 1) = w /\ SubSeq(w, 1, N) = c
         /\ \A n \in 1 .. N : w[n] = c[n]
         /\ \A n \in 0 .. N : SubSeq(w, 1, n) = SubSeq(c, 1, n)
<1>1. /\ N \in Nat /\ w \in Seq(Nat) /\ Len(w) = N + 1
      /\ DOMAIN w = 1 .. N + 1 /\ DOMAIN c = 1 .. N /\ w[N + 1] = e
      /\ \A n \in 1 .. N : w[n] = c[n]
  OBVIOUS
<1>2. ASSUME NEW n \in 0 .. N PROVE SubSeq(w, 1, n) = SubSeq(c, 1, n)
  BY <1>1
<1>3. SubSeq(w, 1, N + 1) = w /\ SubSeq(c, 1, N) = c
  BY <1>1, SubSeqFull
<1>4. SubSeq(w, 1, N) = SubSeq(c, 1, N)
  BY <1>1, <1>2
<1>. QED
  BY <1>1, <1>2, <1>3, <1>4

LEMMA NoCloseCallStep ==
  ASSUME NEW c \in Seq(Nat), NEW e \in Nat, NEW i, NEW strategy, NEW cash,
         NoCloseCall(Append(c, e), i, strategy, cash)
  PROVE  /\ NoCloseCall(c, i, strategy, cash)
         /\ ClearCall(RunBacktest(c, i, strategy, cash), Append(c, e), i, strategy)
<1>. DEFINE w == Append(c, e)
            N == Len(c)
            Call(s, n) ==
              LET before == RunBacktest(SubSeq(s, 1, n - 1), i, strategy, cash)
              IN  \A o \in OnBar(strategy, SubSeq(s, 1, n), before.book.qty[i]) :
                    o.side = "buy" =>
                      2 * Abs(before.book.cash
                                + CashFlow(ExecuteMarketOrder(o, InMemory(s[n]))))
                        > CashSlack(before.fills)
<1>1. /\ N \in Nat /\ Len(w) = N + 1
      /\ DOMAIN w = 1 .. N + 1 /\ DOMAIN c = 1 .. N /\ w[N + 1] = e
      /\ SubSeq(w, 1, N + 1) = w /\ SubSeq(w, 1, N) = c
      /\ \A n \in 1 .. N : w[n] = c[n]
      /\ \A n \in 0 .. N : SubSeq(w, 1, n) = SubSeq(c, 1, n)
  BY PrefixesKept
<1>. HIDE DEF w, N
<1>2. \A n \in 1 .. N + 1 : Call(w, n)
  BY <1>1 DEF NoCloseCall, w
<1>3. ASSUME NEW n \in 1 .. N PROVE Call(c, n)
  <2>1. Call(w, n)
    BY <1>1, <1>2
  <2>2. w[n] = c[n] /\ SubSeq(w, 1, n) = SubSeq(c, 1, n)
        /\ SubSeq(w, 1, n - 1) = SubSeq(c, 1, n - 1)
    BY <1>1
  <2>. QED
    BY <2>1, <2>2
<1>4. NoCloseCall(c, i, strategy, cash)
  BY <1>1, <1>3 DEF NoCloseCall
<1>5. Call(w, N + 1)
  BY <1>1, <1>2
<1>6. (N + 1) - 1 = N
  BY <1>1
<1>7. ClearCall(RunBacktest(c, i, strategy, cash), w, i, strategy)
  BY <1>1, <1>5, <1>6 DEF ClearCall, LatestFill
<1>. QED
  BY <1>4, <1>7 DEF w

-----------------------------------------------------------------------------
(***************************************************************************)
(* The slacks, one fill at a time.                                         *)
(***************************************************************************)
OfSale(f) == IF f.side = "sell" THEN f.qty + 1 ELSE 0

LEMMA SlackNone == CashSlack(<<>>) = ColumnUnit /\ SaleSlack(<<>>) = 0
<1>. DEFINE f == [n \in DOMAIN <<>> |-> OfSale(<<>>[n])]
<1>1. DOMAIN f = {}
  OBVIOUS
<1>. HIDE DEF f
<1>2. SumOver(f) = 0
  BY <1>1, SumNone
<1>3. SaleSlack(<<>>) = ColumnUnit * SumOver(f)
  BY DEF SaleSlack, OfSale, f
<1>. QED
  BY <1>2, <1>3, ColumnAssumption DEF CashSlack

LEMMA SlackMore ==
  ASSUME NEW s \in Seq(Fill), NEW e \in Fill, NEW w, w = Append(s, e)
  PROVE  /\ CashSlack(s) \in Int /\ CashSlack(w) = CashSlack(s) + ColumnUnit
         /\ SaleSlack(s) \in Int
         /\ SaleSlack(w) = SaleSlack(s) + ColumnUnit * OfSale(e)
<1>. DEFINE l == Len(s)
            f == [n \in DOMAIN s |-> OfSale(s[n])]
            g == [n \in DOMAIN w |-> OfSale(w[n])]
<1>1. /\ l \in Nat /\ Len(w) = l + 1 /\ DOMAIN w = 1 .. l + 1 /\ w[l + 1] = e
      /\ DOMAIN s = 1 .. l /\ \A n \in 1 .. l : w[n] = s[n]
  OBVIOUS
<1>2. \A n \in 1 .. l : s[n] \in Fill
  BY ElementOfSeq
<1>3. \A x \in Fill : OfSale(x) \in Int
  BY DEF OfSale, Fill
<1>4. CashSlack(s) \in Int /\ CashSlack(w) = CashSlack(s) + ColumnUnit
  <2>. DEFINE U == ColumnUnit
  <2>1. U \in Int /\ CashSlack(s) = U * (1 + l) /\ CashSlack(w) = U * (1 + (l + 1))
    BY <1>1, ColumnAssumption DEF CashSlack
  <2>. HIDE DEF U, l
  <2>2. U * (1 + (l + 1)) = U * (1 + l) + U /\ U * (1 + l) \in Int
    BY <1>1, <2>1
  <2>. QED
    BY <2>1, <2>2 DEF U
<1>. HIDE DEF l
<1>5. DOMAIN f = 1 .. l /\ DOMAIN g = DOMAIN f \cup {l + 1} /\ l + 1 \notin DOMAIN f
  BY <1>1
<1>6. IsFiniteSet(DOMAIN f) /\ \A n \in DOMAIN f : f[n] \in Int
  <2>1. IsFiniteSet(1 .. l)
    BY <1>1, FS_Interval
  <2>2. \A n \in 1 .. l : OfSale(s[n]) \in Int
    BY <1>2, <1>3
  <2>. QED
    BY <1>5, <2>1, <2>2
<1>7. /\ g[l + 1] = OfSale(e) /\ g[l + 1] \in Int
      /\ \A n \in DOMAIN f : g[n] = f[n]
  BY <1>1, <1>3
<1>8. SaleSlack(s) = ColumnUnit * SumOver(f) /\ SaleSlack(w) = ColumnUnit * SumOver(g)
  BY DEF SaleSlack, OfSale
<1>. HIDE DEF f, g
<1>9. SumOver(f) \in Int /\ SumOver(g) = SumOver(f) + g[l + 1]
  <2>. DEFINE y == l + 1
  <2>1. y \notin DOMAIN f /\ DOMAIN g = DOMAIN f \cup {y} /\ g[y] \in Int
    BY <1>5, <1>7
  <2>. HIDE DEF y
  <2>2. SumOver(g) = SumOver(f) + g[y]
    BY <1>6, <1>7, <2>1, SumExtend
  <2>3. SumOver(f) \in Int
    BY <1>6, SumType
  <2>. QED
    BY <2>2, <2>3 DEF y
<1>10. SaleSlack(s) \in Int /\ SaleSlack(w) = SaleSlack(s) + ColumnUnit * OfSale(e)
  <2>. DEFINE U == ColumnUnit
              x == SumOver(f)
              y == OfSale(e)
  <2>1. U \in Int /\ x \in Int /\ y \in Int
    BY <1>3, <1>9, ColumnAssumption
  <2>2. SumOver(g) = x + y
    BY <1>7, <1>9
  <2>. HIDE DEF U, x, y
  <2>3. U * (x + y) = U * x + U * y /\ U * x \in Int
    BY <2>1
  <2>. QED
    BY <1>8, <2>2, <2>3 DEF U, x, y
<1>. QED
  BY <1>4, <1>10

-----------------------------------------------------------------------------
(***************************************************************************)
(* The fills of a run, one order at a time.                                *)
(***************************************************************************)
NextFills(fills, o) == IF o.status = "filled" THEN Append(fills, o.fill) ELSE fills

AfterOrders(os) ==
  CHOOSE fills : fills =
    [n \in 0 .. Len(os) |-> IF n = 0 THEN <<>> ELSE NextFills(fills[n - 1], os[n])]

LEMMA FillsAreLast ==
  ASSUME NEW os
  PROVE  FillsIn(os) = AfterOrders(os)[Len(os)]
BY DEF FillsIn, AfterOrders, NextFills

LEMMA AfterOrdersFacts ==
  ASSUME NEW os \in Seq(Order), NEW h, h = AfterOrders(os)
  PROVE  /\ h[0] = <<>>
         /\ \A n \in 1 .. Len(os) : h[n] = NextFills(h[n - 1], os[n])
         /\ h[Len(os)] \in Seq(Fill)
<1>. DEFINE N == Len(os)
            T == Seq(Fill)
            none == <<>>
            step == [n \in 1 .. N |-> [v \in T |-> NextFills(v, os[n])]]
<1>1. N \in Nat /\ none \in T
  OBVIOUS
<1>2. ASSUME NEW n \in 1 .. N, NEW v \in T
      PROVE  step[n][v] = NextFills(v, os[n]) /\ NextFills(v, os[n]) \in T
  <2>1. os[n] \in Order
    BY ElementOfSeq
  <2>2. os[n].fill \in Fill
    BY <2>1 DEF Order
  <2>. QED
    BY <2>2 DEF NextFills
<1>3. StepsIn(T, N, step)
  BY <1>2 DEF StepsIn
<1>4. h = CHOOSE fills : fills =
            [n \in 0 .. N |-> IF n = 0 THEN none ELSE NextFills(fills[n - 1], os[n])]
  BY DEF AfterOrders
<1>. HIDE DEF step, N, T, none
<1>5. PICK g \in [0 .. N -> T] : Recursion(g, none, N, step)
  BY <1>1, <1>3, RecursionExists
<1>6. g = [n \in 0 .. N |-> IF n = 0 THEN none ELSE NextFills(g[n - 1], os[n])]
  <2>1. ASSUME NEW n \in 1 .. N
        PROVE  step[n][g[n - 1]] = NextFills(g[n - 1], os[n])
    <3>1. g[n - 1] \in T
      BY <1>1, <1>5
    <3>. QED
      BY <1>2, <3>1
  <2>. QED
    BY <1>1, <1>5, <2>1 DEF Recursion
<1>7. h = [n \in 0 .. N |-> IF n = 0 THEN none ELSE NextFills(h[n - 1], os[n])]
  BY <1>4, <1>6
<1>8. h[0] = none /\ \A n \in 1 .. N : h[n] = NextFills(h[n - 1], os[n])
  BY <1>1, <1>7
<1>9. \A n \in 0 .. N : h[n] \in T
  <2>. DEFINE S == {n \in 0 .. N : h[n] \in T}
  <2>1. 0 \in S
    BY <1>1, <1>8
  <2>3. ASSUME NEW n \in 1 .. N, n - 1 \in S PROVE n \in S
    <3>1. h[n - 1] \in T
      BY <2>3
    <3>2. h[n] \in T
      BY <1>2, <1>8, <3>1
    <3>. QED
      BY <1>1, <3>2
  <2>. HIDE DEF S
  <2>2. \A n \in 0 .. N : n \in S
    BY <1>1, <2>1, <2>3, InductionUpTo
  <2>. QED
    BY <2>2 DEF S
<1>10. h[N] \in T
  BY <1>1, <1>9
<1>. QED
  BY <1>8, <1>10 DEF N, T, none

LEMMA NoFills == FillsIn(<<>>) = <<>>
<1>. DEFINE os == <<>>
            h  == AfterOrders(os)
<1>1. os \in Seq(Order) /\ Len(os) = 0
  OBVIOUS
<1>2. FillsIn(os) = h[Len(os)]
  BY FillsAreLast
<1>. HIDE DEF os
<1>3. h[0] = <<>>
  BY <1>1, AfterOrdersFacts
<1>. QED
  BY <1>1, <1>2, <1>3 DEF os

LEMMA FillsStep ==
  ASSUME NEW os \in Seq(Order), NEW o \in Order
  PROVE  FillsIn(os \o <<o>>) = NextFills(FillsIn(os), o)
<1>. DEFINE N == Len(os)
            w == os \o <<o>>
            h == AfterOrders(os)
            g == AfterOrders(w)
<1>1. /\ N \in Nat /\ w \in Seq(Order) /\ Len(w) = N + 1 /\ w[N + 1] = o
      /\ \A n \in 1 .. N : w[n] = os[n]
  OBVIOUS
<1>2. h[0] = <<>> /\ \A n \in 1 .. N : h[n] = NextFills(h[n - 1], os[n])
  BY AfterOrdersFacts
<1>3. FillsIn(os) = h[N] /\ FillsIn(w) = g[N + 1]
  BY <1>1, FillsAreLast
<1>4. g[0] = <<>> /\ \A n \in 1 .. N + 1 : g[n] = NextFills(g[n - 1], w[n])
  <2>. HIDE DEF w
  <2>1. g[0] = <<>> /\ \A n \in 1 .. Len(w) : g[n] = NextFills(g[n - 1], w[n])
    BY <1>1, AfterOrdersFacts
  <2>. QED
    BY <1>1, <2>1
<1>. HIDE DEF N, w, h, g
<1>5. SameSteps(g, h, N)
  <2>1. ASSUME NEW n \in 1 .. N, g[n - 1] = h[n - 1] PROVE g[n] = h[n]
    <3>1. n \in 1 .. N + 1
      BY <1>1
    <3>2. g[n] = NextFills(g[n - 1], w[n]) /\ h[n] = NextFills(h[n - 1], os[n])
      BY <1>2, <1>4, <3>1
    <3>. QED
      BY <1>1, <2>1, <3>2
  <2>. QED
    BY <1>2, <1>4, <2>1 DEF SameSteps
<1>6. g[N] = h[N]
  <2>1. \A n \in 0 .. N : g[n] = h[n]
    BY <1>1, <1>5, RecursionsAgree
  <2>. QED
    BY <1>1, <2>1
<1>7. g[N + 1] = NextFills(h[N], o)
  <2>1. N + 1 \in 1 .. N + 1 /\ (N + 1) - 1 = N
    BY <1>1
  <2>. QED
    BY <1>1, <1>4, <1>6, <2>1
<1>. QED
  BY <1>3, <1>7 DEF w

-----------------------------------------------------------------------------
(***************************************************************************)
(* Sequences of bars with increasing dates.                                *)
(***************************************************************************)
Strict(s)   == \A n \in 2 .. Len(s) : s[n - 1].at < s[n].at
Dated(d, s) == \E n \in DOMAIN s : s[n].at = d
Among(s, w) == \A n \in DOMAIN s : \E m \in DOMAIN w : s[n] = w[m]

LEMMA StrictPairs ==
  ASSUME NEW s \in Seq(Bar), Sorted(s), Strict(s),
         NEW m \in DOMAIN s, NEW n \in DOMAIN s, m < n
  PROVE  s[m].at < s[n].at
<1>1. \A j \in DOMAIN s : s[j].at \in Nat
  <2>1. \A j \in 1 .. Len(s) : s[j] \in Bar
    BY ElementOfSeq
  <2>2. DOMAIN s = 1 .. Len(s)
    OBVIOUS
  <2>. QED
    BY <2>1, <2>2 DEF Bar
<1>2. n \in 2 .. Len(s) /\ n - 1 \in DOMAIN s /\ m \in Nat /\ n \in Nat
  OBVIOUS
<1>3. s[n - 1].at < s[n].at
  BY <1>2 DEF Strict
<1>4. CASE m = n - 1
  BY <1>3, <1>4
<1>5. CASE m < n - 1
  <2>1. s[m].at <= s[n - 1].at
    BY <1>2, <1>5 DEF Sorted
  <2>. QED
    BY <1>1, <1>2, <1>3, <2>1
<1>. QED
  BY <1>2, <1>4, <1>5

\* What a tick has read are the first bars, if it has read the dates of those.
LEMMA TickedBars ==
  ASSUME NEW s \in Seq(Bar), Sorted(s), Strict(s), s # <<>>,
         NEW b \in Seq(Bar), Sorted(b), Strict(b), Among(s, b),
         NEW l \in DOMAIN b, Last(s).at = b[l].at,
         \A n \in 1 .. l : Dated(b[n].at, s)
  PROVE  s = SubSeq(b, 1, l)
<1>. DEFINE N == Len(s)
            M == Len(b)
<1>1. /\ N \in Nat \ {0} /\ M \in Nat /\ l \in 1 .. M
      /\ DOMAIN s = 1 .. N /\ DOMAIN b = 1 .. M /\ Last(s) = s[N]
  BY DEF Last
<1>2. /\ \A j \in 1 .. N : s[j].at \in Nat
      /\ \A j \in 1 .. M : b[j].at \in Nat
  <2>1. (\A j \in 1 .. N : s[j] \in Bar) /\ (\A j \in 1 .. M : b[j] \in Bar)
    BY ElementOfSeq
  <2>. QED
    BY <2>1 DEF Bar
<1>3. \A m, n \in 1 .. N : m < n => s[m].at < s[n].at
  BY <1>1, StrictPairs
<1>4. \A m, n \in 1 .. M : m < n => b[m].at < b[n].at
  BY <1>1, StrictPairs
<1>5. \A n \in 1 .. N : \E m \in 1 .. M : s[n] = b[m]
  BY <1>1 DEF Among
<1>6. \A n \in 1 .. l : \E m \in 1 .. N : s[m].at = b[n].at
  BY <1>1 DEF Dated
<1>. HIDE DEF N, M
<1>7. \A n \in 1 .. N : n <= l => s[n] = b[n]
  <2>. DEFINE T == {n \in 1 .. N : n <= l /\ s[n] # b[n]}
  <2>. SUFFICES ASSUME T # {} PROVE FALSE
    OBVIOUS
  <2>1. PICK n \in T : \A m \in T : ~(m < n)
    <3>1. T \in SUBSET Nat
      OBVIOUS
    <3>. HIDE DEF T
    <3>. QED
      BY <3>1, LeastExists
  <2>2. n \in 1 .. N /\ n \in 1 .. l /\ n \in 1 .. M /\ s[n] # b[n]
    BY <1>1, <2>1
  <2>3. \A m \in 1 .. n - 1 : s[m] = b[m]
    BY <1>1, <2>1, <2>2
  <2>4. PICK q \in 1 .. M : s[n] = b[q]
    BY <1>5, <2>2
  <2>5. q > n
    <3>1. q # n
      BY <2>2, <2>4
    <3>2. CASE q < n
      <4>1. s[q] = b[q] /\ q \in 1 .. N
        BY <1>1, <2>2, <2>3, <2>4, <3>2
      <4>2. s[q].at < s[n].at
        BY <1>3, <2>2, <3>2, <4>1
      <4>. QED
        BY <1>2, <2>2, <2>4, <4>1, <4>2
    <3>. QED
      BY <2>2, <3>1, <3>2
  <2>6. b[n].at < s[n].at
    BY <1>4, <2>2, <2>4, <2>5
  <2>7. PICK j \in 1 .. N : s[j].at = b[n].at
    BY <1>6, <2>2
  <2>8. j < n
    <3>1. ~(j = n)
      BY <1>2, <2>2, <2>6, <2>7
    <3>2. ~(n < j)
      BY <1>2, <1>3, <2>2, <2>6, <2>7
    <3>. QED
      BY <2>2, <3>1, <3>2
  <2>9. s[j] = b[j] /\ j \in 1 .. M
    BY <1>1, <2>2, <2>3, <2>7, <2>8
  <2>10. b[j].at < b[n].at
    BY <1>4, <2>2, <2>8, <2>9
  <2>. QED
    BY <1>2, <2>2, <2>7, <2>9, <2>10
<1>8. N = l
  <2>1. CASE N < l
    <3>1. s[N] = b[N] /\ N \in 1 .. M
      BY <1>1, <1>7, <2>1
    <3>2. b[N].at < b[l].at
      BY <1>1, <1>4, <2>1, <3>1
    <3>. QED
      BY <1>1, <1>2, <3>1, <3>2
  <2>2. CASE l < N
    <3>1. s[l] = b[l] /\ l \in 1 .. N
      BY <1>1, <1>7, <2>2
    <3>2. s[l].at < s[N].at
      BY <1>1, <1>3, <2>2, <3>1
    <3>. QED
      BY <1>1, <1>2, <3>1, <3>2
  <2>. QED
    BY <1>1, <2>1, <2>2
<1>9. \A n \in 1 .. l : s[n] = b[n]
  BY <1>1, <1>7, <1>8
<1>. DEFINE p == SubSeq(b, 1, l)
<1>10. Len(p) = l /\ p \in Seq(Bar) /\ \A n \in 1 .. l : p[n] = b[n]
  BY <1>1 DEF M
<1>11. Len(s) = l
  BY <1>8 DEF N
<1>. HIDE DEF p
<1>12. s = p
  BY <1>9, <1>10, <1>11
<1>. QED
  BY <1>12 DEF p

\* A bar that was stored without ending the run's following every bar was stored
\* after all it has seen: w is b with the bar, and the dates before l are in b.
LEMMA StoredLate ==
  ASSUME NEW b \in Seq(Bar), Sorted(b), NEW e \in Bar, NEW k \in 1 .. Len(b) + 1,
         NEW w, w = InsertAt(b, k, e), Sorted(w), Strict(w)
  PROVE  /\ Strict(b)
         /\ \A l \in 0 .. Len(w) :
              (\A n \in 1 .. l : Dated(w[n].at, b))
                => l <= Len(b) /\ \A n \in 1 .. l : w[n] = b[n]
<1>. DEFINE N == Len(b)
<1>1. /\ w \in Seq(Bar) /\ Len(w) = N + 1 /\ N \in Nat /\ k \in 1 .. N + 1
      /\ \A j \in 1 .. N + 1 : w[j] = IF j < k THEN b[j]
                                      ELSE IF j = k THEN e ELSE b[j - 1]
  <2>1. Inserted(b, k, e, w)
    BY InsertElements
  <2>2. N \in Nat
    OBVIOUS
  <2>. QED
    BY <2>1, <2>2 DEF Inserted
<1>2. DOMAIN w = 1 .. N + 1 /\ DOMAIN b = 1 .. N
  BY <1>1
<1>3. \A m, n \in 1 .. N + 1 : m < n => w[m].at < w[n].at
  BY <1>1, <1>2, StrictPairs
<1>4. /\ \A j \in 1 .. N : b[j].at \in Nat
      /\ \A j \in 1 .. N + 1 : w[j].at \in Nat
  <2>1. \A j \in 1 .. N : b[j] \in Bar
    BY ElementOfSeq
  <2>2. \A j \in 1 .. N + 1 : w[j] \in Bar
    BY <1>1, ElementOfSeq
  <2>. QED
    BY <2>1, <2>2 DEF Bar
<1>. HIDE DEF N
<1>5. Strict(b)
  <2>. SUFFICES ASSUME NEW n \in 2 .. N PROVE b[n - 1].at < b[n].at
    BY DEF Strict, N
  <2>1. CASE n < k
    <3>1. w[n - 1] = b[n - 1] /\ w[n] = b[n]
      BY <1>1, <2>1
    <3>. QED
      BY <1>1, <1>3, <3>1
  <2>2. CASE n = k
    <3>1. w[n - 1] = b[n - 1] /\ w[n + 1] = b[n]
      BY <1>1, <2>2
    <3>. QED
      BY <1>1, <1>3, <3>1
  <2>3. CASE n > k
    <3>1. w[n] = b[n - 1] /\ w[n + 1] = b[n]
      BY <1>1, <2>3
    <3>. QED
      BY <1>1, <1>3, <3>1
  <2>. QED
    BY <1>1, <2>1, <2>2, <2>3
<1>6. ASSUME NEW l \in 0 .. N + 1, \A n \in 1 .. l : Dated(w[n].at, b)
      PROVE  l <= N /\ \A n \in 1 .. l : w[n] = b[n]
  <2>1. l < k
    <3>. SUFFICES ASSUME k <= l PROVE FALSE
      BY <1>1
    <3>1. k \in 1 .. l
      BY <1>1
    <3>2. PICK q \in 1 .. N : b[q].at = w[k].at
      BY <1>2, <1>6, <3>1 DEF Dated
    <3>3. CASE q < k
      <4>1. w[q] = b[q]
        BY <1>1, <3>3
      <4>2. w[q].at < w[k].at
        BY <1>1, <1>3, <3>3
      <4>. QED
        BY <1>1, <1>4, <3>2, <4>1, <4>2
    <3>4. CASE q >= k
      <4>1. w[q + 1] = b[q]
        BY <1>1, <3>4
      <4>2. w[k].at < w[q + 1].at
        BY <1>1, <1>3, <3>4
      <4>. QED
        BY <1>1, <1>4, <3>2, <4>1, <4>2
    <3>. QED
      BY <1>1, <3>3, <3>4
  <2>. QED
    BY <1>1, <2>1
<1>. QED
  BY <1>1, <1>5, <1>6 DEF N

\* What is stored stays, with its date.
LEMMA StoredStays ==
  ASSUME NEW b \in Seq(Bar), NEW e \in Bar, NEW k \in 1 .. Len(b) + 1
  PROVE  Among(b, InsertAt(b, k, e))
<1>. DEFINE N == Len(b)
            w == InsertAt(b, k, e)
<1>1. /\ w \in Seq(Bar) /\ Len(w) = N + 1 /\ N \in Nat /\ k \in 1 .. N + 1
      /\ \A j \in 1 .. N + 1 : w[j] = IF j < k THEN b[j]
                                      ELSE IF j = k THEN e ELSE b[j - 1]
  <2>1. Inserted(b, k, e, w)
    BY InsertElements
  <2>2. N \in Nat
    OBVIOUS
  <2>. HIDE DEF w
  <2>. QED
    BY <2>1, <2>2 DEF Inserted
<1>2. DOMAIN w = 1 .. N + 1 /\ DOMAIN b = 1 .. N
  BY <1>1
<1>. HIDE DEF w, N
<1>3. ASSUME NEW n \in 1 .. N PROVE \E m \in 1 .. N + 1 : b[n] = w[m]
  <2>1. CASE n < k
    BY <1>1, <2>1
  <2>2. CASE n >= k
    <3>1. n + 1 \in 1 .. N + 1 /\ w[n + 1] = b[n]
      BY <1>1, <2>2
    <3>. QED
      BY <3>1
  <2>. QED
    BY <1>1, <2>1, <2>2
<1>. QED
  BY <1>2, <1>3 DEF Among, w

LEMMA AmongTrans ==
  ASSUME NEW s, NEW w, NEW z, Among(s, w), Among(w, z)
  PROVE  Among(s, z)
BY DEF Among

LEMMA AmongDated ==
  ASSUME NEW s, NEW w, Among(s, w), NEW d, Dated(d, s)
  PROVE  Dated(d, w)
BY DEF Among, Dated

-----------------------------------------------------------------------------
(***************************************************************************)
(* The inductive invariant.  As long as no bar was corrected, the first    *)
(* bars of the history are still there, every date processed is the date   *)
(* of a bar, also of the bars a tick in progress has read, and a run that  *)
(* followed the bars so far is where the backtest of those is, as far as   *)
(* the rounding of its rows allows.                                        *)
(***************************************************************************)
ClosesOf(s) == [n \in DOMAIN s |-> s[n].close]

LEMMA ClosesTyped ==
  ASSUME NEW s \in Seq(Bar)
  PROVE  /\ ClosesOf(s) \in Seq(Nat) /\ Len(ClosesOf(s)) = Len(s)
         /\ \A n \in 1 .. Len(s) : ClosesOf(s)[n] = s[n].close
<1>. DEFINE c == ClosesOf(s)
            N == Len(s)
<1>1. N \in Nat /\ DOMAIN s = 1 .. N
  OBVIOUS
<1>2. \A n \in 1 .. N : s[n] \in Bar
  BY ElementOfSeq
<1>3. \A n \in 1 .. N : s[n].close \in Nat
  BY <1>2 DEF Bar
<1>4. c = [n \in 1 .. N |-> s[n].close]
  BY <1>1 DEF ClosesOf
<1>5. c \in [1 .. N -> Nat] /\ \A n \in 1 .. N : c[n] = s[n].close
  BY <1>3, <1>4
<1>. HIDE DEF c, N
<1>6. c \in Seq(Nat) /\ Len(c) = N
  BY <1>1, <1>5
<1>. QED
  BY <1>5, <1>6 DEF c, N

Growth == SumOver([i \in Instruments |-> Len(bars[i]) - Len(History[i])])

ReadBars(x) ==
  LET now == bars[run[x.run].instrument]
  IN  x.pc \in {"bars", "portfolio"} =>
        /\ Sorted(x.bars) /\ Among(x.bars, now)
        /\ Strict(now) => Strict(x.bars)
        /\ Among(History[run[x.run].instrument], x.bars)
        /\ \A n \in DOMAIN snapshots[x.run] : Dated(snapshots[x.run][n], x.bars)

\* k bars of the history were there before the run, m were followed by a tick.
Ticked(r, k, m) ==
  LET b == bars[run[r].instrument]
      h == History[run[r].instrument]
  IN  /\ Strict(b) /\ k <= Config[r].long /\ k <= Len(h) /\ k + m <= Len(b)
      /\ \A n \in 1 .. k : b[n] = h[n]
      /\ Len(snapshots[r]) = m
      /\ \A n \in 1 .. m : snapshots[r][n] = b[k + n].at

\* The backtest over the first l bars, and none of its decisions close.
ClosesTo(r, l) == ClosesOf(SubSeq(bars[run[r].instrument], 1, l))
SoFar(r, l)    == RunBacktest(ClosesTo(r, l), run[r].instrument, Config[r],
                              InitialCash)
Decided(r, l)  == NoCloseCall(ClosesTo(r, l), run[r].instrument, Config[r],
                              InitialCash)

\* The book of an account beside the one of the backtest at s.
Tracks(bk, s) ==
  /\ bk.qty = s.book.qty
  /\ Near(bk.cash, s.book.cash, CashSlack(s.fills))
  /\ \A j \in Instruments :
       Near(bk.cost[j], s.book.cost[j], ColumnUnit * s.book.qty[j])
  /\ Near(bk.realized, s.book.realized, SaleSlack(s.fills))

Follows(r, k, m) ==
  Started(r) /\ Ticked(r, k, m) /\ AloneOnAccount(r) /\ NothingRejected(r)

Agrees(r, k, m) ==
  Decided(r, k + m) => /\ FillsIn(orders[r]) = SoFar(r, k + m).fills
                       /\ Tracks(BookOf(run[r].account), SoFar(r, k + m))

Unused(a) == \A r \in Runs : Started(r) => run[r].account # a

BacktestInv ==
  /\ Growth \in Int /\ Growth <= stores
  /\ \A r \in Runs : ~Started(r) => snapshots[r] = <<>>
  /\ \A a \in Accounts : Unused(a) /\ ledger[a] # <<>> =>
       Tracks(BookOf(a), Start(InitialCash))
  /\ Uncorrected =>
       /\ \A i \in Instruments : Among(History[i], bars[i])
       /\ \A r \in Runs : Started(r) =>
            \A n \in DOMAIN snapshots[r] :
              Dated(snapshots[r][n], bars[run[r].instrument])
       /\ \A t \in Tickers : ReadBars(tick[t])
       /\ \A r \in Runs : \A k, m \in Nat : Follows(r, k, m) => Agrees(r, k, m)

LEMMA BacktestInit == Init => BacktestInv
<1>. SUFFICES ASSUME Init PROVE BacktestInv
  OBVIOUS
<1>1. /\ bars = History /\ stores = 0
      /\ \A r \in Runs : ~Started(r) /\ snapshots[r] = <<>>
      /\ \A a \in Accounts : ledger[a] = <<>>
      /\ \A t \in Tickers : tick[t] = NoTick
  BY DEF Init, Started
<1>2. Growth = 0
  <2>. DEFINE f == [i \in Instruments |-> Len(bars[i]) - Len(History[i])]
  <2>1. /\ DOMAIN f = Instruments /\ IsFiniteSet(DOMAIN f)
        /\ \A i \in DOMAIN f : f[i] = 0
    <3>1. \A i \in Instruments : Len(History[i]) \in Nat
      BY HistoryAssumption
    <3>. QED
      BY <1>1, <3>1, InstrumentsAssumption
  <2>. HIDE DEF f
  <2>2. SumOver(f) = 0
    BY <2>1, SumZero
  <2>. QED
    BY <2>2 DEF Growth, f
<1>3. \A i \in Instruments : Among(History[i], bars[i])
  BY <1>1 DEF Among
<1>4. \A t \in Tickers : ReadBars(tick[t])
  BY <1>1 DEF ReadBars, NoTick
<1>. QED
  BY <1>1, <1>2, <1>3, <1>4 DEF BacktestInv, Follows

-----------------------------------------------------------------------------
(***************************************************************************)
(* Steps that only read.                                                   *)
(***************************************************************************)
LEMMA QuietStep ==
  ASSUME BacktestInv, UNCHANGED <<market, account, journal, run>>,
         Uncorrected => \A t \in Tickers : ReadBars(tick[t])'
  PROVE  BacktestInv'
<1>1. /\ UNCHANGED <<bars, stores>> /\ UNCHANGED <<ledger, position, realized>>
      /\ UNCHANGED <<orders, snapshots>> /\ UNCHANGED run
  BY DEF market, account, journal
<1>2. Growth' = Growth /\ (Uncorrected' <=> Uncorrected)
  BY <1>1 DEF Growth, Uncorrected
<1>3. \A a \in Accounts : BookOf(a)' = BookOf(a) /\ (Unused(a)' <=> Unused(a))
  BY <1>1 DEF BookOf, LatestCash, Unused, Started
<1>4. ASSUME NEW r \in Runs, NEW k \in Nat, NEW m \in Nat,
             Follows(r, k, m)', Follows(r, k, m) => Agrees(r, k, m)
      PROVE  Agrees(r, k, m)'
  <2>1. Follows(r, k, m)
    BY <1>1, <1>4 DEF Follows, Ticked, Started, AloneOnAccount, NothingRejected
  <2>. QED
    BY <1>1, <1>4, <2>1 DEF Agrees, SoFar, Decided, ClosesTo, BookOf, LatestCash
<1>. QED
  BY <1>1, <1>2, <1>3, <1>4 DEF BacktestInv, Started

LEMMA AllOthersRead ==
  ASSUME BacktestInv, Uncorrected, UNCHANGED <<market, journal, run>>,
         NEW t \in Tickers, NEW u \in Tickers, tick'[u] = tick[u]
  PROVE  ReadBars(tick[u])'
<1>1. ReadBars(tick[u])
  BY DEF BacktestInv
<1>. QED
  BY <1>1 DEF ReadBars, market, journal

LEMMA BacktestRead ==
  ASSUME IInv, BacktestInv, NEW t \in Tickers,
         \/ \E r \in Runs : LoadRun(t, r)
         \/ LoadAccount(t) \/ ListBars(t) \/ LoadPortfolio(t) \/ AbortTick(t)
  PROVE  BacktestInv'
<1>1. UNCHANGED <<market, account, journal, run>>
  BY DEF LoadRun, LoadAccount, ListBars, LoadPortfolio, AbortTick
<1>2. DOMAIN tick = Tickers
  BY DEF IInv, TypeInv
<1>3. \A u \in Tickers \ {t} : tick'[u] = tick[u]
  BY <1>2 DEF LoadRun, LoadAccount, ListBars, LoadPortfolio, AbortTick
<1>4. ASSUME Uncorrected PROVE ReadBars(tick[t])'
  <2>1. CASE tick'[t].pc \notin {"bars", "portfolio"}
    BY <2>1 DEF ReadBars
  <2>2. CASE LoadPortfolio(t)
    <3>1. /\ tick'[t].run = tick[t].run /\ tick'[t].bars = tick[t].bars
          /\ tick[t].pc = "bars"
      BY <1>2, <2>2 DEF LoadPortfolio, IInv, TypeInv, TickTyped
    <3>2. ReadBars(tick[t])
      BY <1>4 DEF BacktestInv
    <3>. QED
      BY <1>1, <3>1, <3>2 DEF ReadBars, market, journal
  <2>3. CASE ListBars(t) /\ tick'[t].pc = "bars"
    <3>. DEFINE y == tick[t]
                r == y.run
                i == run[r].instrument
                b == bars[i]
    <3>1. tick'[t].run = r /\ tick'[t].bars = b /\ y.pc = "account"
      <4>1. TickTyped(y)
        BY DEF IInv, TypeInv
      <4>2. tick'[t] = NoTick \/ tick'[t] = [y EXCEPT !.pc = "bars", !.bars = b]
        BY <1>2, <2>3 DEF ListBars
      <4>3. tick'[t] = [y EXCEPT !.pc = "bars", !.bars = b]
        BY <2>3, <4>2 DEF NoTick
      <4>4. y.pc = "account"
        BY <2>3 DEF ListBars
      <4>5. [y EXCEPT !.pc = "bars", !.bars = b].run = y.run
            /\ [y EXCEPT !.pc = "bars", !.bars = b].bars = b
        BY <4>1 DEF TickTyped
      <4>. QED
        BY <4>3, <4>4, <4>5
    <3>2. Started(r) /\ r \in Runs
      BY <3>1 DEF IInv, TypeInv, TickTyped, LockInv, Fresh
    <3>3. i \in Instruments
      BY <3>2 DEF IInv, TypeInv, Run, Started
    <3>4. Sorted(b) /\ Among(b, b) /\ Among(History[i], b)
      <4>1. Sorted(b)
        BY <3>3 DEF IInv, DateInv
      <4>2. Among(b, b)
        BY DEF Among
      <4>3. Among(History[i], b)
        BY <1>4, <3>3 DEF BacktestInv
      <4>. QED
        BY <4>1, <4>2, <4>3
    <3>5. \A n \in DOMAIN snapshots[r] : Dated(snapshots[r][n], b)
      BY <1>4, <3>2 DEF BacktestInv
    <3>. QED
      BY <1>1, <3>1, <3>4, <3>5 DEF ReadBars, market, journal
  <2>4. CASE \/ \E r \in Runs : LoadRun(t, r)
             \/ LoadAccount(t) \/ AbortTick(t)
    <3>1. DOMAIN tick[t] = {"pc", "run", "last", "bars", "book"}
      BY DEF IInv, TypeInv, TickTyped
    <3>2. tick'[t].pc = "run" \/ tick'[t].pc = "account" \/ tick'[t].pc = "idle"
      <4>1. ASSUME NEW r \in Runs, LoadRun(t, r) PROVE tick'[t].pc = "run"
        BY <1>2, <3>1, <4>1 DEF LoadRun
      <4>2. CASE LoadAccount(t)
        BY <1>2, <3>1, <4>2 DEF LoadAccount
      <4>3. CASE AbortTick(t)
        BY <1>2, <4>3 DEF AbortTick, NoTick
      <4>. QED
        BY <2>4, <4>1, <4>2, <4>3
    <3>. QED
      BY <2>1, <3>2
  <2>5. ListBars(t) => tick'[t].pc \in {"idle", "bars"}
    BY <1>2 DEF ListBars, NoTick, IInv, TypeInv, TickTyped
  <2>. QED
    BY <2>1, <2>2, <2>3, <2>4, <2>5
<1>5. Uncorrected => \A u \in Tickers : ReadBars(tick[u])'
  BY <1>1, <1>3, <1>4, AllOthersRead
<1>. QED
  BY <1>1, <1>5, QuietStep

-----------------------------------------------------------------------------
(***************************************************************************)
(* Bars are stored and corrected.                                          *)
(***************************************************************************)
LEMMA GrowthStep ==
  ASSUME NEW i \in Instruments, bars \in [Instruments -> Seq(Bar)],
         NEW w \in Seq(Bar), bars' = [bars EXCEPT ![i] = w], NEW d \in Int,
         Len(w) = Len(bars[i]) + d, Growth \in Int
  PROVE  Growth' = Growth + d
<1>. DEFINE f == [j \in Instruments |-> Len(bars[j]) - Len(History[j])]
            g == [j \in Instruments |-> Len(bars'[j]) - Len(History[j])]
<1>1. \A j \in Instruments : /\ Len(bars[j]) \in Nat /\ Len(bars'[j]) \in Nat
                             /\ Len(History[j]) \in Nat
  BY HistoryAssumption
<1>2. bars'[i] = w /\ \A j \in Instruments \ {i} : bars'[j] = bars[j]
  OBVIOUS
<1>3. /\ DOMAIN f = Instruments /\ DOMAIN g = Instruments
      /\ IsFiniteSet(DOMAIN f) /\ g[i] \in Int
      /\ \A j \in DOMAIN f : f[j] \in Int
      /\ \A j \in DOMAIN f \ {i} : g[j] = f[j]
  BY <1>1, <1>2, InstrumentsAssumption
<1>4. g[i] = f[i] + d
  BY <1>1, <1>2
<1>5. Growth = SumOver(f) /\ Growth' = SumOver(g)
  BY DEF Growth
<1>. HIDE DEF f, g
<1>6. SumOver(g) = SumOver(f) - f[i] + g[i]
  BY <1>3, SumUpdate
<1>7. f[i] \in Int
  BY <1>3
<1>. QED
  BY <1>4, <1>5, <1>6, <1>7

\* Bars were added to b that no one could have followed before.
GrewLate(b, w) ==
  Strict(w) => /\ Strict(b)
               /\ \A l \in 0 .. Len(w) :
                    (\A n \in 1 .. l : Dated(w[n].at, b))
                      => l <= Len(b) /\ \A n \in 1 .. l : w[n] = b[n]

LEMMA GrownTicked ==
  ASSUME IInv, BacktestInv, Uncorrected, UNCHANGED <<account, journal, run, tick>>,
         NEW r \in Runs, NEW k \in Nat, NEW m \in Nat, Follows(r, k, m)',
         bars \in [Instruments -> Seq(Bar)], bars' \in [Instruments -> Seq(Bar)],
         \A i \in Instruments : GrewLate(bars[i], bars'[i])
  PROVE  Agrees(r, k, m)'
<1>. DEFINE i == run[r].instrument
            b == bars[i]
            w == bars'[i]
            h == History[i]
            l == k + m
<1>1. /\ UNCHANGED <<ledger, position, realized>>
      /\ UNCHANGED <<orders, snapshots>> /\ UNCHANGED run
  BY DEF account, journal
<1>2. Started(r) /\ AloneOnAccount(r) /\ NothingRejected(r)
  BY <1>1 DEF Follows, Started, AloneOnAccount, NothingRejected
<1>3. i \in Instruments /\ b \in Seq(Bar) /\ w \in Seq(Bar)
  BY <1>2 DEF IInv, TypeInv, Run, Started
<1>4. /\ Strict(w) /\ k <= Config[r].long /\ k <= Len(h) /\ l <= Len(w)
      /\ \A n \in 1 .. k : w[n] = h[n]
      /\ Len(snapshots[r]) = m
      /\ \A n \in 1 .. m : snapshots[r][n] = w[k + n].at
  BY <1>1 DEF Follows, Ticked
<1>5. h \in Seq(Bar) /\ snapshots[r] \in Seq(Nat)
  BY <1>3, HistoryAssumption DEF Bar, IInv, TypeInv
<1>6. /\ Among(h, b)
      /\ \A n \in DOMAIN snapshots[r] : Dated(snapshots[r][n], b)
  BY <1>2, <1>3 DEF BacktestInv
<1>. HIDE DEF b, w, h, i
<1>7. ASSUME NEW n \in 1 .. l PROVE Dated(w[n].at, b)
  <2>1. CASE n <= k
    <3>1. n \in DOMAIN h /\ n \in 1 .. k
      BY <1>4, <1>5, <2>1
    <3>2. PICK q \in DOMAIN b : h[n] = b[q]
      BY <1>6, <3>1 DEF Among
    <3>. QED
      BY <1>4, <3>1, <3>2 DEF Dated
  <2>2. CASE n > k
    <3>1. n - k \in 1 .. m /\ k + (n - k) = n
      BY <2>2
    <3>2. n - k \in DOMAIN snapshots[r]
      BY <1>4, <1>5, <3>1
    <3>3. snapshots[r][n - k] = w[n].at
      BY <1>4, <3>1
    <3>. QED
      BY <1>6, <3>2, <3>3
  <2>. QED
    BY <2>1, <2>2
<1>8. Strict(b) /\ l <= Len(b) /\ \A n \in 1 .. l : w[n] = b[n]
  <2>1. GrewLate(b, w)
    BY <1>3 DEF b, w
  <2>2. l \in 0 .. Len(w)
    BY <1>3, <1>4
  <2>. QED
    BY <1>4, <1>7, <2>1, <2>2 DEF GrewLate
<1>9. Ticked(r, k, m)
  <2>1. \A n \in 1 .. k : b[n] = h[n]
    <3>1. \A n \in 1 .. k : n \in 1 .. l
      OBVIOUS
    <3>. QED
      BY <1>4, <1>8, <3>1
  <2>2. \A n \in 1 .. m : snapshots[r][n] = b[k + n].at
    <3>1. \A n \in 1 .. m : k + n \in 1 .. l
      OBVIOUS
    <3>. QED
      BY <1>4, <1>8, <3>1
  <2>. QED
    BY <1>4, <1>8, <2>1, <2>2 DEF Ticked, i, b, h
<1>10. Agrees(r, k, m)
  BY <1>2, <1>9 DEF BacktestInv, Follows
<1>11. SubSeq(w, 1, l) = SubSeq(b, 1, l)
  BY <1>3, <1>4, <1>8
<1>12. SoFar(r, l)' = SoFar(r, l) /\ (Decided(r, l)' <=> Decided(r, l))
  BY <1>1, <1>11 DEF SoFar, Decided, ClosesTo, w, b, i
<1>. QED
  BY <1>1, <1>10, <1>12 DEF Agrees, BookOf, LatestCash

LEMMA StoreStep ==
  ASSUME IInv, IInv', BookInv, BacktestInv, NEW i \in Instruments, NEW e \in Bar,
         StoreBar(i, e)
  PROVE  BacktestInv'
<1>1. PICK k \in 1 .. Len(bars[i]) + 1 :
        bars' = [bars EXCEPT ![i] = InsertAt(bars[i], k, e)]
  BY DEF StoreBar
<1>2. /\ stores' = stores + 1 /\ UNCHANGED <<account, journal, run, tick>>
      /\ UNCHANGED <<ledger, position, realized>>
      /\ UNCHANGED <<orders, snapshots>> /\ UNCHANGED run
  BY DEF StoreBar, account, journal
<1>3. /\ bars \in [Instruments -> Seq(Bar)] /\ bars' \in [Instruments -> Seq(Bar)]
      /\ \A j \in Instruments : Sorted(bars[j]) /\ Sorted(bars'[j])
  BY DEF IInv, TypeInv, DateInv
<1>4. /\ bars'[i] = InsertAt(bars[i], k, e)
      /\ \A j \in Instruments \ {i} : bars'[j] = bars[j]
  BY <1>1, <1>3
<1>5. Growth' = Growth + 1
  <2>1. Len(bars'[i]) = Len(bars[i]) + 1 /\ bars[i] \in Seq(Bar)
    BY <1>3, <1>4, InsertElements DEF Inserted
  <2>. DEFINE w == InsertAt(bars[i], k, e)
  <2>2. w \in Seq(Bar) /\ Len(w) = Len(bars[i]) + 1
    BY <1>3, <1>4, <2>1
  <2>. HIDE DEF w
  <2>3. bars' = [bars EXCEPT ![i] = w]
    BY <1>1 DEF w
  <2>4. 1 \in Int /\ Growth \in Int
    BY DEF BacktestInv
  <2>. QED
    BY <1>3, <2>2, <2>3, <2>4, GrowthStep
<1>6. /\ Growth' \in Int /\ Growth' <= stores'
      /\ Uncorrected' <=> Uncorrected
  <2>1. Growth \in Int /\ Growth <= stores /\ stores \in Int
    BY DEF BacktestInv, BookInv, TypeOK
  <2>2. (Uncorrected <=> stores = Growth) /\ (Uncorrected' <=> stores' = Growth')
    BY DEF Uncorrected, Growth
  <2>. QED
    BY <1>2, <1>5, <2>1, <2>2
<1>7. ASSUME NEW j \in Instruments
      PROVE  Among(bars[j], bars'[j]) /\ GrewLate(bars[j], bars'[j])
  <2>1. CASE j = i
    <3>1. Among(bars[j], bars'[j])
      BY <1>3, <1>4, <2>1, StoredStays
    <3>. DEFINE b == bars[j]
                w == bars'[j]
    <3>2. /\ b \in Seq(Bar) /\ Sorted(b) /\ k \in 1 .. Len(b) + 1
          /\ w = InsertAt(b, k, e) /\ Sorted(w)
      BY <1>3, <1>4, <2>1
    <3>. HIDE DEF b, w
    <3>3. GrewLate(b, w)
      BY <3>2, StoredLate DEF GrewLate
    <3>. QED
      BY <3>1, <3>3 DEF b, w
  <2>2. CASE j # i
    <3>1. bars'[j] = bars[j]
      BY <1>4, <2>2
    <3>2. Len(bars[j]) \in Nat
      BY <1>3
    <3>. QED
      BY <3>1, <3>2 DEF Among, GrewLate
  <2>. QED
    BY <2>1, <2>2
<1>8. ASSUME Uncorrected
      PROVE  /\ \A j \in Instruments : Among(History[j], bars'[j])
             /\ \A r \in Runs : Started(r)' =>
                  \A n \in DOMAIN snapshots'[r] :
                    Dated(snapshots'[r][n], bars'[run'[r].instrument])
             /\ \A t \in Tickers : ReadBars(tick[t])'
             /\ \A r \in Runs : \A k1, m \in Nat :
                  Follows(r, k1, m)' => Agrees(r, k1, m)'
  <2>1. ASSUME NEW j \in Instruments PROVE Among(History[j], bars'[j])
    BY <1>7, <1>8, AmongTrans DEF BacktestInv
  <2>2. ASSUME NEW r \in Runs, Started(r)', NEW n \in DOMAIN snapshots'[r]
        PROVE  Dated(snapshots'[r][n], bars'[run'[r].instrument])
    <3>1. Started(r) /\ run[r].instrument \in Instruments
      BY <1>2, <2>2 DEF Started, IInv, TypeInv, Run
    <3>2. Dated(snapshots[r][n], bars[run[r].instrument])
      BY <1>2, <1>8, <2>2, <3>1 DEF BacktestInv
    <3>3. Among(bars[run[r].instrument], bars'[run[r].instrument])
      BY <1>7, <3>1
    <3>. QED
      BY <1>2, <3>2, <3>3, AmongDated
  <2>3. ASSUME NEW t \in Tickers PROVE ReadBars(tick[t])'
    <3>. DEFINE x == tick[t]
                j == run[x.run].instrument
    <3>. SUFFICES ASSUME x.pc \in {"bars", "portfolio"} PROVE ReadBars(x)'
      BY <1>2 DEF ReadBars
    <3>1. x.run \in Runs /\ Started(x.run)
      BY DEF IInv, TypeInv, LockInv, Fresh, TickTyped
    <3>2. j \in Instruments
      BY <3>1 DEF Started, IInv, TypeInv, Run
    <3>3. Among(bars[j], bars'[j]) /\ (Strict(bars'[j]) => Strict(bars[j]))
      BY <1>7, <3>2 DEF GrewLate
    <3>4. ReadBars(x)
      BY <1>8 DEF BacktestInv
    <3>5. /\ Sorted(x.bars) /\ Among(x.bars, bars[j])
          /\ Strict(bars[j]) => Strict(x.bars)
          /\ Among(History[j], x.bars)
          /\ \A n \in DOMAIN snapshots[x.run] : Dated(snapshots[x.run][n], x.bars)
      BY <3>4 DEF ReadBars
    <3>6. Among(x.bars, bars'[j])
      BY <3>3, <3>5, AmongTrans
    <3>. QED
      BY <1>2, <3>3, <3>5, <3>6 DEF ReadBars
  <2>4. ASSUME NEW r \in Runs, NEW k1 \in Nat, NEW m \in Nat, Follows(r, k1, m)'
        PROVE  Agrees(r, k1, m)'
    BY <1>2, <1>3, <1>7, <1>8, <2>4, GrownTicked
  <2>. QED
    BY <2>1, <2>2, <2>3, <2>4
<1>9. \A a \in Accounts : BookOf(a)' = BookOf(a) /\ (Unused(a)' <=> Unused(a))
  BY <1>2 DEF BookOf, LatestCash, Unused, Started
<1>. QED
  BY <1>2, <1>6, <1>8, <1>9 DEF BacktestInv, Started

LEMMA CorrectStep ==
  ASSUME IInv, BookInv, BacktestInv, NEW i \in Instruments, NEW c \in Nat,
         NEW k \in DOMAIN bars[i], CorrectBar(i, k, c)
  PROVE  BacktestInv'
<1>1. /\ stores' = stores + 1 /\ UNCHANGED <<ledger, position, realized>>
      /\ UNCHANGED <<orders, snapshots>> /\ UNCHANGED run
  BY DEF CorrectBar, account, journal
<1>2. Growth' = Growth + 0
  <2>. DEFINE s == bars[i]
  <2>1. bars \in [Instruments -> Seq(Bar)] /\ s \in Seq(Bar)
    BY DEF IInv, TypeInv
  <2>2. PICK m \in DOMAIN s :
          bars' = [bars EXCEPT ![i][k].close = s[m].close, ![i][m].close = c]
    BY DEF CorrectBar
  <2>. DEFINE v == [s EXCEPT ![k] = [s[k] EXCEPT !.close = s[m].close]]
              w == [v EXCEPT ![m] = [v[m] EXCEPT !.close = c]]
  <2>3. k \in 1 .. Len(s) /\ m \in 1 .. Len(s) /\ s[k] \in Bar /\ s[m] \in Bar
    BY <2>1, ElementOfSeq
  <2>4. v \in Seq(Bar) /\ Len(v) = Len(s)
    <3>1. [s[k] EXCEPT !.close = s[m].close] \in Bar
      BY <2>3 DEF Bar
    <3>. QED
      BY <2>1, <2>3, <3>1, ExceptSeq
  <2>5. bars' = [bars EXCEPT ![i] = w]
    BY <2>1, <2>2
  <2>. HIDE DEF v
  <2>6. w \in Seq(Bar) /\ Len(w) = Len(s) + 0
    <3>1. m \in 1 .. Len(v) /\ v[m] \in Bar
      BY <2>3, <2>4, ElementOfSeq
    <3>2. [v[m] EXCEPT !.close = c] \in Bar
      BY <3>1 DEF Bar
    <3>3. w \in Seq(Bar) /\ Len(w) = Len(v)
      BY <2>4, <3>1, <3>2, ExceptSeq
    <3>. HIDE DEF w
    <3>. QED
      BY <2>1, <2>4, <3>3
  <2>7. 0 \in Int /\ Growth \in Int
    BY DEF BacktestInv
  <2>. HIDE DEF w
  <2>. QED
    BY <2>1, <2>5, <2>6, <2>7, GrowthStep
<1>3. Growth' \in Int /\ Growth' <= stores' /\ ~Uncorrected'
  <2>1. Growth \in Int /\ Growth <= stores /\ stores \in Int
    BY DEF BacktestInv, BookInv, TypeOK
  <2>2. Uncorrected' <=> stores' = Growth'
    BY DEF Uncorrected, Growth
  <2>. QED
    BY <1>1, <1>2, <2>1, <2>2
<1>4. \A a \in Accounts : BookOf(a)' = BookOf(a) /\ (Unused(a)' <=> Unused(a))
  BY <1>1 DEF BookOf, LatestCash, Unused, Started
<1>. QED
  BY <1>1, <1>3, <1>4 DEF BacktestInv, Started

-----------------------------------------------------------------------------
(***************************************************************************)
(* Accounts and runs are created.                                          *)
(***************************************************************************)
\* The rows of the runs are the same, and the books of the accounts that have one.
LEMMA KeptAgreement ==
  ASSUME NEW r \in Runs, NEW k \in Nat, NEW m \in Nat,
         Follows(r, k, m) => Agrees(r, k, m), Follows(r, k, m)',
         Started(r), AloneOnAccount(r), run'[r] = run[r],
         UNCHANGED bars, orders'[r] = orders[r], snapshots'[r] = snapshots[r],
         BookOf(run[r].account)' = BookOf(run[r].account)
  PROVE  Agrees(r, k, m)'
<1>1. Ticked(r, k, m) /\ NothingRejected(r)
  BY DEF Follows, Ticked, NothingRejected
<1>2. Agrees(r, k, m)
  BY <1>1 DEF Follows
<1>. DEFINE a == run[r].account
<1>3. BookOf(run[r].account)' = BookOf(a)'
  BY DEF BookOf, LatestCash
<1>. QED
  BY <1>2, <1>3 DEF Agrees, SoFar, Decided, ClosesTo

LEMMA ZeroBook ==
  ASSUME BookInv, NEW a \in Accounts, ledger[a] = <<>>
  PROVE  /\ position[a].qty = [i \in Instruments |-> 0]
         /\ HeldCost(position[a]) = [i \in Instruments |-> 0]
         /\ InMemory(SumOver(realized[a])) = 0
<1>1. position[a] \in Position /\ realized[a] \in [Instruments -> Int]
  BY DEF BookInv, TypeOK
<1>2. \A i \in Instruments : position[a].qty[i] = 0 /\ realized[a][i] = 0
  BY DEF BookInv
<1>3. ASSUME NEW i \in Instruments
      PROVE  position[a].qty[i] * InMemory(position[a].avg[i]) = 0
  <2>. DEFINE v == InMemory(position[a].avg[i])
  <2>1. v \in Nat
    BY <1>1, ColumnFacts DEF Position
  <2>. HIDE DEF v
  <2>. QED
    BY <1>2, <2>1 DEF v
<1>4. InMemory(SumOver(realized[a])) = 0
  <2>. DEFINE f == realized[a]
  <2>1. IsFiniteSet(DOMAIN f) /\ \A x \in DOMAIN f : f[x] = 0
    BY <1>1, <1>2, InstrumentsAssumption
  <2>. HIDE DEF f
  <2>2. SumOver(f) = 0
    BY <2>1, SumZero
  <2>. QED
    BY <2>2, ColumnAssumption DEF f, InMemory
<1>5. position[a].qty = [i \in Instruments |-> 0]
  BY <1>1, <1>2 DEF Position
<1>6. HeldCost(position[a]) = [i \in Instruments |-> 0]
  BY <1>3 DEF HeldCost
<1>. QED
  BY <1>4, <1>5, <1>6

\* An account that has only its deposit.
LEMMA DepositTracks ==
  ASSUME NEW bk, bk.cash = InMemory(ToColumn(InitialCash)),
         bk.qty = [i \in Instruments |-> 0], bk.cost = [i \in Instruments |-> 0],
         bk.realized = 0
  PROVE  Tracks(bk, Start(InitialCash))
<1>1. /\ Start(InitialCash).fills = <<>> /\ Start(InitialCash).book.cash = InitialCash
      /\ Start(InitialCash).book.qty = [i \in Instruments |-> 0]
      /\ Start(InitialCash).book.cost = [i \in Instruments |-> 0]
      /\ Start(InitialCash).book.realized = 0
  BY DEF Start, StartingBook
<1>2. Near(bk.cash, InitialCash, ColumnUnit)
  BY ColumnFacts, CashAssumption
<1>3. /\ ColumnUnit * 0 = 0 /\ Near(0, 0, 0)
  BY ColumnAssumption DEF Near
<1>. QED
  BY <1>1, <1>2, <1>3, SlackNone DEF Tracks

LEMMA CreateStep ==
  ASSUME IInv, BookInv, BacktestInv, NEW a \in Accounts, CreateAccount(a)
  PROVE  BacktestInv'
<1>1. /\ ledger[a] = <<>>
      /\ ledger' = [ledger EXCEPT ![a] =
                      <<[amount |-> ToColumn(InitialCash),
                         after  |-> ToColumn(InitialCash)]>>]
      /\ UNCHANGED <<bars, stores, position, realized, orders, snapshots, run, tick>>
  BY DEF CreateAccount, market, journal
<1>2. /\ ledger'[a] = <<[amount |-> ToColumn(InitialCash),
                         after  |-> ToColumn(InitialCash)]>>
      /\ \A b \in Accounts \ {a} : ledger'[b] = ledger[b]
  BY <1>1 DEF IInv, TypeInv
<1>3. Tracks(BookOf(a)', Start(InitialCash))
  <2>1. LatestCash(a)' = ToColumn(InitialCash)
    BY <1>2 DEF LatestCash, Last
  <2>2. PICK bk : bk = BookOf(a)'
    OBVIOUS
  <2>3. /\ bk.cash = InMemory(ToColumn(InitialCash))
        /\ bk.qty = [i \in Instruments |-> 0] /\ bk.cost = [i \in Instruments |-> 0]
        /\ bk.realized = 0
    BY <1>1, <2>1, <2>2, ZeroBook DEF BookOf
  <2>. QED
    BY <2>2, <2>3, DepositTracks
<1>4. \A b \in Accounts \ {a} : BookOf(b)' = BookOf(b)
  BY <1>1, <1>2 DEF BookOf, LatestCash
<1>5. \A b \in Accounts : Unused(b)' <=> Unused(b)
  BY <1>1 DEF Unused, Started
<1>6. ASSUME NEW b \in Accounts, Unused(b)', ledger'[b] # <<>>
      PROVE  Tracks(BookOf(b)', Start(InitialCash))
  BY <1>2, <1>3, <1>4, <1>5, <1>6 DEF BacktestInv
<1>7. (Uncorrected' <=> Uncorrected) /\ Growth' = Growth
  BY <1>1 DEF Uncorrected, Growth
<1>8. \A t \in Tickers : ReadBars(tick[t])' <=> ReadBars(tick[t])
  BY <1>1 DEF ReadBars
<1>9. ASSUME Uncorrected, NEW r \in Runs, NEW k \in Nat, NEW m \in Nat,
             Follows(r, k, m)'
      PROVE  Agrees(r, k, m)'
  <2>1. Started(r) /\ AloneOnAccount(r)
    BY <1>1, <1>9 DEF Follows, Started, AloneOnAccount
  <2>2. run[r].account \in Accounts \ {a}
    BY <1>1, <2>1 DEF IInv, TypeInv, LockInv, Run, Started
  <2>3. BookOf(run[r].account)' = BookOf(run[r].account)
    BY <1>1, <1>2, <2>2 DEF BookOf, LatestCash
  <2>4. Follows(r, k, m) => Agrees(r, k, m)
    BY <1>9 DEF BacktestInv
  <2>. QED
    BY <1>1, <1>9, <2>1, <2>3, <2>4, KeptAgreement
<1>. QED
  BY <1>1, <1>6, <1>7, <1>8, <1>9 DEF BacktestInv, Started

\* A run that starts on an account no other run uses.
LEMMA FirstAgreement ==
  ASSUME IInv, BacktestInv, NEW r \in Runs, NEW a \in Accounts, NEW i \in Instruments,
         StartRun(r, a, i), orders[r] = <<>>,
         NEW k \in Nat, NEW m \in Nat, Follows(r, k, m)'
  PROVE  Agrees(r, k, m)'
<1>1. /\ ~Started(r) /\ ledger[a] # <<>>
      /\ run' = [run EXCEPT ![r] = [account |-> a, instrument |-> i, last |-> 0]]
      /\ UNCHANGED <<bars, ledger, position, realized, orders, snapshots>>
  BY DEF StartRun, market, account, journal
<1>2. /\ run'[r] = [account |-> a, instrument |-> i, last |-> 0]
      /\ \A q \in Runs \ {r} : run'[q] = run[q]
  BY <1>1 DEF IInv, TypeInv
<1>3. Unused(a)
  <2>1. \A q \in Runs \ {r} : Started(q)' => run'[q].account # run'[r].account
    BY DEF Follows, AloneOnAccount
  <2>2. \A q \in Runs \ {r} : Started(q) => run[q].account # a
    BY <1>2, <2>1 DEF Started
  <2>. QED
    BY <1>1, <2>2 DEF Unused
<1>4. Tracks(BookOf(a), Start(InitialCash))
  BY <1>1, <1>3 DEF BacktestInv
<1>5. snapshots[r] = <<>>
  BY <1>1 DEF BacktestInv
<1>6. k <= Config[r].long /\ k + m <= Len(bars[i]) /\ m = 0
  <2>1. k <= Config[r].long /\ k + m <= Len(bars[i]) /\ Len(snapshots[r]) = m
    BY <1>1, <1>2 DEF Follows, Ticked
  <2>. QED
    BY <1>5, <2>1
<1>. DEFINE b == bars[i]
            p == SubSeq(b, 1, k)
            c == ClosesOf(p)
<1>7. c \in Seq(Nat) /\ Len(c) <= Config[r].long
  <2>1. b \in Seq(Bar) /\ k <= Len(b)
    BY <1>6 DEF IInv, TypeInv
  <2>2. p \in Seq(Bar) /\ Len(p) = k
    BY <2>1
  <2>. HIDE DEF p
  <2>3. c \in Seq(Nat) /\ Len(c) = k
    BY <2>2, ClosesTyped
  <2>. QED
    BY <1>6, <2>3
<1>8. Config[r] \in Strategy /\ InitialCash \in Int
  BY ConfigAssumption, CashAssumption
<1>9. RunBacktest(c, i, Config[r], InitialCash) = Start(InitialCash)
  <2>. HIDE DEF c
  <2>. QED
    BY <1>7, <1>8, BacktestIdle
<1>10. SoFar(r, k + m)' = Start(InitialCash)
  <2>1. k + m = k
    BY <1>6
  <2>. QED
    BY <1>1, <1>2, <1>9, <2>1 DEF SoFar, ClosesTo
<1>11. BookOf(run[r].account)' = BookOf(a)
  BY <1>1, <1>2 DEF BookOf, LatestCash
<1>12. FillsIn(orders'[r]) = <<>>
  BY <1>1, NoFills
<1>. QED
  BY <1>4, <1>10, <1>11, <1>12 DEF Agrees, Start

LEMMA StartStep ==
  ASSUME IInv, BookInv, BacktestInv, NEW r \in Runs, NEW a \in Accounts,
         NEW i \in Instruments, StartRun(r, a, i)
  PROVE  BacktestInv'
<1>1. /\ ~Started(r)
      /\ run' = [run EXCEPT ![r] = [account |-> a, instrument |-> i, last |-> 0]]
      /\ UNCHANGED <<bars, stores, ledger, position, realized, orders, snapshots, tick>>
  BY DEF StartRun, market, account, journal
<1>2. /\ run'[r] = [account |-> a, instrument |-> i, last |-> 0]
      /\ \A q \in Runs \ {r} : run'[q] = run[q]
  BY <1>1 DEF IInv, TypeInv
<1>3. (Uncorrected' <=> Uncorrected) /\ Growth' = Growth
  BY <1>1 DEF Uncorrected, Growth
<1>4. snapshots[r] = <<>> /\ orders[r] = <<>>
  BY <1>1 DEF BacktestInv, BookInv
<1>5. \A q \in Runs \ {r} : Started(q)' <=> Started(q)
  BY <1>2 DEF Started
<1>6. \A b \in Accounts : /\ BookOf(b)' = BookOf(b)
                          /\ Unused(b)' => Unused(b)
  BY <1>1, <1>2, <1>5 DEF BookOf, LatestCash, Unused
<1>7. ASSUME NEW t \in Tickers, ReadBars(tick[t]) PROVE ReadBars(tick[t])'
  <2>. DEFINE x == tick[t]
  <2>. SUFFICES ASSUME x.pc \in {"bars", "portfolio"} PROVE ReadBars(x)'
    BY <1>1 DEF ReadBars
  <2>1. x.run \in Runs \ {r}
    BY <1>1 DEF IInv, TypeInv, LockInv, Fresh, TickTyped
  <2>. QED
    BY <1>1, <1>2, <1>7, <2>1 DEF ReadBars
<1>8. ASSUME Uncorrected, NEW q \in Runs, NEW k \in Nat, NEW m \in Nat,
             Follows(q, k, m)'
      PROVE  Agrees(q, k, m)'
  <2>1. CASE q = r
    BY <1>4, <1>8, <2>1, FirstAgreement
  <2>2. CASE q # r
    <3>1. Started(q) /\ run'[q] = run[q]
      BY <1>2, <1>5, <1>8, <2>2 DEF Follows
    <3>2. AloneOnAccount(q)
      <4>1. \A p \in Runs \ {q} : Started(p)' => run'[p].account # run[q].account
        BY <1>8, <3>1 DEF Follows, AloneOnAccount
      <4>2. \A p \in Runs \ {q} : Started(p) => run[p].account # run[q].account
        BY <1>1, <1>2, <1>5, <4>1
      <4>. QED
        BY <4>2 DEF AloneOnAccount
    <3>3. Follows(q, k, m) => Agrees(q, k, m)
      BY <1>8 DEF BacktestInv
    <3>4. BookOf(run[q].account)' = BookOf(run[q].account)
      BY <1>1, <3>1 DEF BookOf, LatestCash
    <3>. QED
      BY <1>1, <1>8, <3>1, <3>2, <3>3, <3>4, KeptAgreement
  <2>. QED
    BY <2>1, <2>2
<1>9. ASSUME Uncorrected, NEW q \in Runs, Started(q)', NEW n \in DOMAIN snapshots'[q]
      PROVE  Dated(snapshots'[q][n], bars'[run'[q].instrument])
  <2>1. q # r
    BY <1>1, <1>4, <1>9
  <2>2. Started(q) /\ run'[q] = run[q]
    BY <1>2, <1>5, <1>9, <2>1
  <2>. QED
    BY <1>1, <1>9, <2>2 DEF BacktestInv
<1>10. ASSUME NEW q \in Runs, ~Started(q)' PROVE snapshots'[q] = <<>>
  BY <1>1, <1>4, <1>5, <1>10 DEF BacktestInv
<1>. QED
  BY <1>1, <1>3, <1>6, <1>7, <1>8, <1>9, <1>10 DEF BacktestInv

-----------------------------------------------------------------------------
(***************************************************************************)
(* A tick commits: it trades as the loop of the backtest does.             *)
(***************************************************************************)
LEMMA Joined ==
  ASSUME NEW S, NEW p \in Seq(S), NEW q \in Seq(S), NEW w, w = p \o q
  PROVE  /\ DOMAIN w = 1 .. Len(p) + Len(q)
         /\ DOMAIN p = 1 .. Len(p) /\ DOMAIN q = 1 .. Len(q)
         /\ Len(p) \in Nat /\ Len(q) \in Nat
         /\ \A n \in 1 .. Len(p) : w[n] = p[n]
         /\ \A n \in 1 .. Len(q) : w[Len(p) + n] = q[n]
OBVIOUS

LEMMA LongerPrefix ==
  ASSUME NEW b \in Seq(Bar), NEW l \in 1 .. Len(b)
  PROVE  /\ ClosesOf(SubSeq(b, 1, l - 1)) \in Seq(Nat) /\ b[l].close \in Nat
         /\ ClosesOf(SubSeq(b, 1, l))
              = Append(ClosesOf(SubSeq(b, 1, l - 1)), b[l].close)
<1>. DEFINE p == SubSeq(b, 1, l - 1)
            q == SubSeq(b, 1, l)
            c == ClosesOf(p)
            d == ClosesOf(q)
            e == b[l].close
<1>1. /\ p \in Seq(Bar) /\ Len(p) = l - 1 /\ q \in Seq(Bar) /\ Len(q) = l
      /\ \A n \in 1 .. l - 1 : p[n] = b[n]
      /\ \A n \in 1 .. l : q[n] = b[n]
  OBVIOUS
<1>2. e \in Nat
  <2>1. b[l] \in Bar
    BY ElementOfSeq
  <2>. QED
    BY <2>1 DEF Bar
<1>. HIDE DEF p, q
<1>3. /\ c \in Seq(Nat) /\ Len(c) = l - 1
      /\ \A n \in 1 .. l - 1 : c[n] = b[n].close
  <2>1. c \in Seq(Nat) /\ Len(c) = Len(p) /\ \A n \in 1 .. Len(p) : c[n] = p[n].close
    BY <1>1, ClosesTyped
  <2>. HIDE DEF c
  <2>. QED
    BY <1>1, <2>1
<1>4. d \in Seq(Nat) /\ Len(d) = l /\ \A n \in 1 .. l : d[n] = b[n].close
  <2>1. d \in Seq(Nat) /\ Len(d) = Len(q) /\ \A n \in 1 .. Len(q) : d[n] = q[n].close
    BY <1>1, ClosesTyped
  <2>. HIDE DEF d
  <2>. QED
    BY <1>1, <2>1
<1>. HIDE DEF c, d, e
<1>5. d = Append(c, e)
  <2>1. Append(c, e) \in Seq(Nat) /\ Len(Append(c, e)) = l
    BY <1>2, <1>3
  <2>2. /\ \A n \in 1 .. l - 1 : Append(c, e)[n] = c[n]
        /\ Append(c, e)[l] = e
    BY <1>2, <1>3
  <2>3. ASSUME NEW n \in 1 .. l PROVE Append(c, e)[n] = d[n]
    <3>1. CASE n = l
      BY <1>4, <2>2, <3>1 DEF e
    <3>2. CASE n # l
      <4>1. n \in 1 .. l - 1
        BY <3>2
      <4>. QED
        BY <1>3, <1>4, <2>2, <4>1
    <3>. QED
      BY <3>1, <3>2
  <2>. QED
    BY <1>4, <2>1, <2>3
<1>. QED
  BY <1>2, <1>3, <1>5 DEF c, d, e, p, q

\* A tick about to commit after the orders prev, when the loop has come to s.
SameState(x, i, os, bk, s, prev) ==
  /\ i \in Instruments /\ i = run[x.run].instrument
  /\ Config[x.run] \in Strategy
  /\ Trades(x, os, bk)
  /\ x.bars \in Seq(Bar) /\ x.bars # <<>> /\ Valued(x.book)
  /\ s \in State /\ Tracks(x.book, s)
  /\ prev \in Seq(Order) /\ FillsIn(prev) = s.fills
  /\ \A n \in DOMAIN os : os[n].status # "risk_rejected"
  /\ ClearCall(s, ClosesOf(x.bars), i, Config[x.run])

\* The loop and the tick do nothing, or make the same fill.
SameTrade(x, i, os, bk, s, y, prev) ==
  /\ FillsIn(prev \o os) = y.fills
  /\ \/ bk = x.book /\ y = s
     \/ \E f \in Fill : /\ Moved(x.book, bk, i, f) /\ Moved(s.book, y.book, i, f)
                        /\ y.fills = Append(s.fills, RecordFill(f))

\* Two balances that are as near as the rounding decide alike on a clear call.
LEMMA SameCall ==
  ASSUME NEW f \in Fill, NEW x, NEW y, x.cash \in Int, y.cash \in Int,
         NEW slack \in Int, Near(x.cash, y.cash, slack),
         f.side = "buy" => 2 * Abs(y.cash + CashFlow(f)) > slack
  PROVE  InsufficientCash(x, f) <=> InsufficientCash(y, f)
<1>1. CashFlow(f) \in Int /\ Notional(f) \in Nat /\ f.commission \in Nat
  BY FlowTyped
<1>2. CASE f.side # "buy"
  BY <1>2 DEF InsufficientCash
<1>3. CASE f.side = "buy"
  <2>. DEFINE c == CashFlow(f)
              p == x.cash
              q == y.cash
  <2>1. c = -(Notional(f) + f.commission)
    BY <1>1, <1>3 DEF CashFlow, NotionalAmount, CommissionAmount
  <2>2. /\ InsufficientCash(x, f) <=> p + c < 0
        /\ InsufficientCash(y, f) <=> q + c < 0
    BY <1>1, <1>3, <2>1 DEF InsufficientCash
  <2>3. c \in Int /\ p \in Int /\ q \in Int /\ 2 * Abs(q + c) > slack
        /\ Near(p, q, slack)
    BY <1>1, <1>3
  <2>. HIDE DEF c, p, q
  <2>4. p + c < 0 <=> q + c < 0
    BY <2>3 DEF Near, Abs
  <2>. QED
    BY <2>2, <2>4
<1>. QED
  BY <1>2, <1>3

LEMMA TradeMatches ==
  ASSUME NEW x, NEW i, NEW os, NEW bk, NEW s, NEW prev,
         SameState(x, i, os, bk, s, prev),
         NEW y, y = TradeBar(s, ClosesOf(x.bars), i, Config[x.run])
  PROVE  SameTrade(x, i, os, bk, s, y, prev)
<1>. DEFINE c        == ClosesOf(x.bars)
            strategy == Config[x.run]
            latest   == Last(x.bars)
            intents  == OnBar(strategy, c, x.book.qty[i])
<1>0. /\ i \in Instruments /\ i = run[x.run].instrument /\ strategy \in Strategy
      /\ x.bars \in Seq(Bar) /\ x.bars # <<>> /\ Valued(x.book)
      /\ s \in State /\ Tracks(x.book, s)
      /\ prev \in Seq(Order) /\ FillsIn(prev) = s.fills
      /\ \A n \in DOMAIN os : os[n].status # "risk_rejected"
      /\ ClearCall(s, c, i, strategy) /\ y = TradeBar(s, c, i, strategy)
  BY DEF SameState
<1>1. c \in Seq(Nat) /\ c # <<>> /\ c[Len(c)] = latest.close /\ latest.at \in Nat
  <2>. DEFINE b == x.bars
  <2>1. b \in Seq(Bar) /\ Len(b) \in 1 .. Len(b)
    BY <1>0, EmptySeq
  <2>2. c \in Seq(Nat) /\ Len(c) = Len(b) /\ c[Len(b)] = b[Len(b)].close
    BY <2>1, ClosesTyped
  <2>3. latest.at \in Nat
    BY <1>0, LatestTyped
  <2>. HIDE DEF b, c
  <2>4. c # <<>>
    BY <2>1, <2>2
  <2>. QED
    BY <2>2, <2>3, <2>4 DEF Last, b
<1>2. /\ x.book \in Portfolio /\ x.book.qty[i] \in Nat
      /\ s.book \in Portfolio /\ x.book.qty = s.book.qty
      /\ x.book.cash \in Int /\ s.book.cash \in Int
      /\ Near(x.book.cash, s.book.cash, CashSlack(s.fills))
      /\ s.fills \in Seq(Fill)
  BY <1>0 DEF Valued, State, Portfolio, Tracks
<1>3. \/ intents = {} /\ os = <<>> /\ bk = x.book
      \/ \E o \in intents, st \in {"filled", "skipped", "risk_rejected"} :
           LET f == LatestFill(o, c)
           IN  /\ st = OrderStatus(x.book, i, o, InMemory(latest.close),
                                   MaxOrderValue[x.run])
               /\ os = <<[at |-> latest.at, status |-> st, fill |-> RecordFill(f)]>>
               /\ bk = IF st = "filled" THEN ApplyFill(x.book, i, f) ELSE x.book
  BY <1>0, <1>1 DEF SameState, Trades, ClosesOf, LatestFill
<1>. HIDE DEF c, latest, intents, strategy
<1>4. CASE intents = {} /\ os = <<>> /\ bk = x.book
  <2>1. OnBar(strategy, c, s.book.qty[i]) = {}
    BY <1>2, <1>4 DEF intents
  <2>2. y = s
    BY <1>0, <1>1, <2>1, TradeBarCases
  <2>3. prev \o os = prev
    BY <1>0, <1>4
  <2>. QED
    BY <1>0, <1>4, <2>2, <2>3 DEF SameTrade
<1>5. ASSUME NEW o \in intents, NEW st \in {"filled", "skipped", "risk_rejected"},
             NEW f, f = LatestFill(o, c),
             st = OrderStatus(x.book, i, o, InMemory(latest.close),
                              MaxOrderValue[x.run]),
             os = <<[at |-> latest.at, status |-> st, fill |-> RecordFill(f)]>>,
             bk = IF st = "filled" THEN ApplyFill(x.book, i, f) ELSE x.book
      PROVE  SameTrade(x, i, os, bk, s, y, prev)
  <2>. DEFINE order == [at |-> latest.at, status |-> st, fill |-> RecordFill(f)]
  <2>1. /\ f \in Fill /\ f.side = o.side
        /\ \/ f.side = "buy" /\ x.book.qty[i] = 0
           \/ f.side = "sell" /\ f.qty = x.book.qty[i]
    <3>. DEFINE book == x.book
    <3>1. o \in OnBar(strategy, c, book.qty[i])
      BY DEF intents
    <3>2. /\ f = LatestFill(o, c) /\ book \in Portfolio /\ strategy \in Strategy
          /\ c \in Seq(Nat) /\ c # <<>> /\ i \in Instruments
      BY <1>0, <1>1, <1>2, <1>5
    <3>. HIDE DEF book
    <3>3. /\ f \in Fill /\ f.side = o.side
          /\ \/ f.side = "buy" /\ book.qty[i] = 0
             \/ f.side = "sell" /\ f.qty = book.qty[i]
      BY ONLY <3>1, <3>2, LatestFillTyped
    <3>. QED
      BY <3>3 DEF book
  <2>2. order \in Order /\ os = <<order>>
    <3>1. RecordFill(f) \in Fill
      BY <2>1, RecordedFill
    <3>. QED
      BY <1>1, <1>5, <3>1 DEF Order
  <2>3. order.status = st /\ order.fill = RecordFill(f)
    OBVIOUS
  <2>4. st # "risk_rejected"
    <3>1. 1 \in DOMAIN os /\ os[1] = order
      BY <2>2
    <3>. QED
      BY <1>0, <2>3, <3>1
  <2>. HIDE DEF order
  <2>5. FillsIn(prev \o os)
          = IF st = "filled" THEN Append(s.fills, RecordFill(f)) ELSE s.fills
    BY <1>0, <2>2, <2>3, FillsStep DEF NextFills
  <2>6. ExecuteMarketOrder(o, InMemory(latest.close)) = f
    BY <1>1, <1>5 DEF LatestFill
  <2>7. st = IF InsufficientCash(x.book, f) THEN "skipped" ELSE "filled"
    BY <1>5, <2>4, <2>6 DEF OrderStatus
  <2>8. InsufficientCash(x.book, f) <=> InsufficientCash(s.book, f)
    <3>1. CashSlack(s.fills) \in Int
      BY <1>2, <2>2, SlackMore DEF Order
    <3>2. f.side = "buy" => 2 * Abs(s.book.cash + CashFlow(f)) > CashSlack(s.fills)
      BY <1>0, <1>2, <1>5, <2>1 DEF ClearCall, intents
    <3>. QED
      BY <1>2, <2>1, <3>1, <3>2, SameCall
  <2>9. \/ InsufficientCash(s.book, f) /\ y = s
        \/ /\ ~InsufficientCash(s.book, f)
           /\ y = [book  |-> ApplyFill(s.book, i, f),
                   fills |-> Append(s.fills, RecordFill(f))]
           /\ Moved(s.book, ApplyFill(s.book, i, f), i, f)
    <3>1. intents = OnBar(strategy, c, s.book.qty[i])
      BY <1>2 DEF intents
    <3>2. intents = {o}
      BY <1>0, <1>2, OneIntent DEF intents
    <3>3. \/ intents = {}
          \/ \E o1 \in intents :
               LET f1 == LatestFill(o1, c)
               IN  \/ InsufficientCash(s.book, f1) /\ y = s
                   \/ /\ ~InsufficientCash(s.book, f1)
                      /\ y = [book  |-> ApplyFill(s.book, i, f1),
                              fills |-> Append(s.fills, RecordFill(f1))]
                      /\ Moved(s.book, ApplyFill(s.book, i, f1), i, f1)
      BY <1>0, <1>1, <3>1, TradeBarCases
    <3>. QED
      BY <1>5, <3>2, <3>3
  <2>10. CASE InsufficientCash(s.book, f)
    BY <1>5, <2>5, <2>7, <2>8, <2>9, <2>10 DEF SameTrade
  <2>11. CASE ~InsufficientCash(s.book, f)
    <3>1. bk = ApplyFill(x.book, i, f) /\ FillsIn(prev \o os) = y.fills
          /\ y.fills = Append(s.fills, RecordFill(f))
          /\ y.book = ApplyFill(s.book, i, f)
      <4>1. st = "filled" /\ y = [book  |-> ApplyFill(s.book, i, f),
                                  fills |-> Append(s.fills, RecordFill(f))]
        BY <2>7, <2>8, <2>9, <2>11
      <4>2. y.fills = Append(s.fills, RecordFill(f)) /\ y.book = ApplyFill(s.book, i, f)
        BY <4>1
      <4>3. FillsIn(prev \o os) = y.fills
        BY <2>5, <4>1, <4>2
      <4>4. bk = ApplyFill(x.book, i, f)
        BY <1>5, <4>1
      <4>. QED
        BY <4>2, <4>3, <4>4
    <3>2. Moved(x.book, bk, i, f)
      BY <1>0, <2>1, <3>1, AppliedFill
    <3>. QED
      BY <2>1, <2>9, <2>11, <3>1, <3>2 DEF SameTrade
  <2>. QED
    BY <2>10, <2>11
<1>6. ASSUME NEW o \in intents, NEW st \in {"filled", "skipped", "risk_rejected"},
             LET f == LatestFill(o, c)
             IN  /\ st = OrderStatus(x.book, i, o, InMemory(latest.close),
                                     MaxOrderValue[x.run])
                 /\ os = <<[at |-> latest.at, status |-> st, fill |-> RecordFill(f)]>>
                 /\ bk = IF st = "filled" THEN ApplyFill(x.book, i, f) ELSE x.book
      PROVE  SameTrade(x, i, os, bk, s, y, prev)
  BY <1>5, <1>6
<1>. QED
  BY <1>3, <1>4, <1>6

-----------------------------------------------------------------------------
(***************************************************************************)
(* What the next tick will load of what this one computed in memory.       *)
(***************************************************************************)
Stored(bk, new, i, f) ==
  /\ new.qty = bk.qty
  /\ Near(new.cash, bk.cash, ColumnUnit)
  /\ \A j \in Instruments \ {i} : new.cost[j] = bk.cost[j]
  /\ Near(new.cost[i], bk.cost[i], ColumnUnit * bk.qty[i])
  /\ Near(new.realized, bk.realized, IF f.side = "sell" THEN ColumnUnit ELSE 0)
  /\ new.cash \in Int /\ new.realized \in Int
  /\ \A j \in Instruments : new.cost[j] \in Int

\* The realized profit, of which the row of one instrument is rewritten.
Rewrites(f, i, b, z, g) ==
  /\ f \in [Instruments -> Int] /\ i \in Instruments /\ b \in Int
  /\ z = ToColumn(InMemory(f[i]) + b - InMemory(SumOver(f)))
  /\ g = [f EXCEPT ![i] = z]

LEMMA RealizedStored ==
  ASSUME NEW f, NEW i, NEW b, NEW z, NEW g, Rewrites(f, i, b, z, g)
  PROVE  /\ InMemory(SumOver(g)) \in Int
         /\ Near(InMemory(SumOver(g)), b, ColumnUnit)
         /\ b = InMemory(SumOver(f)) => g = f
<1>. DEFINE R == SumOver(f)
            v == f[i]
<1>0. /\ f \in [Instruments -> Int] /\ i \in Instruments /\ b \in Int
      /\ z = ToColumn(InMemory(v) + b - InMemory(R)) /\ g = [f EXCEPT ![i] = z]
  BY DEF Rewrites
<1>1. v \in Int /\ R \in Int
  BY <1>0, InstrumentsAssumption, SumType
<1>2. /\ InMemory(v) \in Int /\ InMemory(R) \in Int
      /\ ToColumn(InMemory(v)) = v
  BY <1>1, ColumnFacts
<1>. DEFINE m == InMemory(v) + b - InMemory(R)
<1>3. m \in Int
  BY <1>0, <1>2
<1>. HIDE DEF m
<1>4. z = ToColumn(m)
  BY <1>0 DEF m
<1>5. z \in Int /\ InMemory(z) \in Int /\ Near(InMemory(z), m, ColumnUnit)
  BY <1>3, <1>4, ColumnFacts
<1>6. SumOver(g) = R - v + z
  <2>1. /\ IsFiniteSet(DOMAIN f) /\ \A x \in DOMAIN f : f[x] \in Int
        /\ i \in DOMAIN f /\ DOMAIN g = DOMAIN f /\ g[i] = z /\ g[i] \in Int
        /\ \A x \in DOMAIN f \ {i} : g[x] = f[x]
    BY <1>0, <1>5, InstrumentsAssumption
  <2>2. SumOver(g) = SumOver(f) - f[i] + g[i]
    BY <2>1, SumUpdate
  <2>. QED
    BY <2>1, <2>2
<1>. HIDE DEF R, v
<1>7. InMemory(SumOver(g)) = InMemory(R) - InMemory(v) + InMemory(z)
  <2>. DEFINE U == ColumnUnit
  <2>1. U \in Int
    BY ColumnAssumption
  <2>2. U * (R - v + z) = U * R - U * v + U * z
    BY <1>1, <1>5, <2>1
  <2>. QED
    BY <1>6, <2>2 DEF InMemory
<1>8. Near(InMemory(SumOver(g)), b, ColumnUnit)
  <2>. DEFINE p == InMemory(R)
              q == InMemory(v)
              r == InMemory(z)
              e == InMemory(SumOver(g))
  <2>1. p \in Int /\ q \in Int /\ r \in Int /\ e = p - q + r /\ m = q + b - p
        /\ Near(r, m, ColumnUnit) /\ ColumnUnit \in Int
    BY <1>0, <1>2, <1>5, <1>7, ColumnAssumption DEF m
  <2>. HIDE DEF p, q, r, e
  <2>2. Near(e, b, ColumnUnit)
    BY <1>0, <2>1 DEF Near
  <2>. QED
    BY <2>2 DEF e
<1>9. ASSUME b = InMemory(SumOver(f)) PROVE g = f
  <2>1. m = InMemory(v)
    BY <1>2, <1>9 DEF m, R
  <2>2. z = f[i]
    BY <1>2, <1>4, <2>1 DEF v
  <2>. QED
    BY <1>0, <2>2
<1>. QED
  BY <1>2, <1>5, <1>7, <1>8, <1>9

\* The cost of a holding at its rounded average.
LEMMA CostStored ==
  ASSUME NEW k \in Nat, NEW q \in Nat \ {0}, NEW v, v = Nearest(k, q * ColumnUnit)
  PROVE  q * InMemory(v) \in Int /\ Near(q * InMemory(v), k, ColumnUnit * q)
<1>. DEFINE d == q * ColumnUnit
<1>1. d \in Nat \ {0} /\ d = ColumnUnit * q
  BY ColumnAssumption
<1>2. v = Nearest(k, d)
  OBVIOUS
<1>. HIDE DEF d
<1>3. v \in Int /\ Near(d * v, k, d)
  BY <1>1, <1>2, NearestBounds
<1>4. q * InMemory(v) = d * v /\ d * v \in Int
  <2>. DEFINE U == ColumnUnit
  <2>1. U \in Nat /\ InMemory(v) = U * v /\ d = q * U
    BY ColumnAssumption DEF InMemory, d
  <2>. HIDE DEF U
  <2>2. q * (U * v) = (q * U) * v /\ (q * U) * v \in Int
    BY <1>3, <2>1
  <2>. QED
    BY <2>1, <2>2
<1>. QED
  BY <1>1, <1>3, <1>4

LEMMA CommittedBook ==
  ASSUME IInv, BookInv, NEW x, NEW r, NEW a, NEW i, NEW os, NEW bk,
         CommitsTo(x, r, a, i, os, bk), Valued(x.book), NEW new, new = BookOf(a)'
  PROVE  /\ \A b \in Accounts \ {a} : BookOf(b)' = BookOf(b)
         /\ bk = x.book => new = x.book
         /\ \A f \in Fill : Moved(x.book, bk, i, f) => Stored(bk, new, i, f)
<1>. DEFINE p  == position[a]
            f  == realized[a]
            z  == ToColumn(InMemory(f[i]) + bk.realized - InMemory(SumOver(f)))
            pp == [qty |-> bk.qty, avg |-> AverageCosts(a, bk)]
            g  == [f EXCEPT ![i] = z]
<1>1. /\ a \in Accounts /\ i \in Instruments /\ x.book = BookOf(a)
      /\ ledger[a] \in Seq(Entry) /\ ledger[a] # <<>>
      /\ LatestCash(a)' = ToColumn(bk.cash)
      /\ \A b \in Accounts \ {a} : ledger'[b] = ledger[b]
      /\ position' = [position EXCEPT ![a] = pp]
      /\ realized' = [realized EXCEPT
                        ![a][i] = ToColumn(InMemory(@) + bk.realized
                                             - InMemory(SumOver(realized[a])))]
  BY DEF CommitsTo
<1>2. /\ p \in Position /\ f \in [Instruments -> Int]
      /\ DOMAIN position = Accounts /\ DOMAIN realized = Accounts
  BY <1>1 DEF BookInv, TypeOK
<1>3. position'[a] = pp /\ realized'[a] = g
      /\ \A b \in Accounts \ {a} : /\ position'[b] = position[b]
                                   /\ realized'[b] = realized[b]
  BY <1>1, <1>2
<1>4. \A b \in Accounts \ {a} : BookOf(b)' = BookOf(b)
  BY <1>1, <1>3 DEF BookOf, LatestCash
<1>5. /\ new.cash = InMemory(ToColumn(bk.cash)) /\ new.qty = bk.qty
      /\ new.cost = HeldCost(pp) /\ new.realized = InMemory(SumOver(g))
      /\ new = [cash |-> new.cash, qty |-> new.qty, cost |-> new.cost,
                realized |-> new.realized]
  <2>1. new = [cash |-> InMemory(ToColumn(bk.cash)), qty |-> pp.qty,
               cost |-> HeldCost(pp), realized |-> InMemory(SumOver(g))]
    BY <1>1, <1>3 DEF BookOf
  <2>. QED
    BY <2>1
<1>6. /\ x.book.cash = InMemory(LatestCash(a)) /\ x.book.qty = p.qty
      /\ x.book.cost = HeldCost(p) /\ x.book.realized = InMemory(SumOver(f))
      /\ ToColumn(InMemory(LatestCash(a))) = LatestCash(a)
      /\ \A j \in Instruments : p.qty[j] \in Nat /\ p.avg[j] \in Nat
  BY <1>1, LoadedRows DEF BookOf
<1>7. \A j \in Instruments : bk.qty[j] = p.qty[j] /\ bk.cost[j] = HeldCost(p)[j]
        => /\ AverageCosts(a, bk)[j] = p.avg[j]
           /\ HeldCost(pp)[j] = HeldCost(p)[j]
  <2>. SUFFICES ASSUME NEW j \in Instruments,
                       bk.qty[j] = p.qty[j], bk.cost[j] = HeldCost(p)[j]
                PROVE  /\ AverageCosts(a, bk)[j] = p.avg[j]
                       /\ HeldCost(pp)[j] = HeldCost(p)[j]
    OBVIOUS
  <2>1. AverageCosts(a, bk)[j] = p.avg[j]
    BY <1>1, RowKept
  <2>. QED
    BY <2>1 DEF HeldCost
<1>8. ASSUME bk.realized \in Int
       PROVE  /\ InMemory(SumOver(g)) \in Int
              /\ Near(InMemory(SumOver(g)), bk.realized, ColumnUnit)
              /\ bk.realized = InMemory(SumOver(f)) => g = f
  <2>1. Rewrites(f, i, bk.realized, z, g)
    BY <1>1, <1>2, <1>8 DEF Rewrites
  <2>. HIDE DEF f, z, g
  <2>. QED
    BY <2>1, RealizedStored
<1>9. ASSUME bk = x.book PROVE new = x.book
  <2>1. new.cash = x.book.cash /\ new.qty = x.book.qty
    BY <1>5, <1>6, <1>9
  <2>2. new.cost = x.book.cost
    <3>1. \A j \in Instruments : HeldCost(pp)[j] = HeldCost(p)[j]
      BY <1>6, <1>7, <1>9
    <3>2. HeldCost(pp) = HeldCost(p)
      BY <3>1 DEF HeldCost
    <3>. QED
      BY <1>5, <1>6, <3>2
  <2>3. new.realized = x.book.realized
    <3>1. bk.realized \in Int /\ bk.realized = InMemory(SumOver(f))
      BY <1>6, <1>9 DEF Valued, Portfolio
    <3>2. g = f
      <4>. HIDE DEF f, g
      <4>. QED
        BY <1>8, <3>1
    <3>. QED
      BY <1>5, <1>6, <3>2
  <2>4. x.book = [cash |-> x.book.cash, qty |-> x.book.qty, cost |-> x.book.cost,
                  realized |-> x.book.realized]
    BY <1>1 DEF BookOf
  <2>. QED
    BY <1>5, <2>1, <2>2, <2>3, <2>4
<1>10. ASSUME NEW h \in Fill, Moved(x.book, bk, i, h) PROVE Stored(bk, new, i, h)
  <2>1. /\ Valued(bk) /\ bk.cash \in Int /\ bk.realized \in Int
        /\ \A j \in Instruments : bk.qty[j] \in Nat /\ bk.cost[j] \in Nat
    BY <1>10 DEF Moved, Valued, Portfolio
  <2>2. new.cash \in Int /\ Near(new.cash, bk.cash, ColumnUnit)
    BY <1>5, <2>1, ColumnFacts
  <2>3. \A j \in Instruments \ {i} : new.cost[j] = bk.cost[j]
    <3>. SUFFICES ASSUME NEW j \in Instruments \ {i} PROVE new.cost[j] = bk.cost[j]
      OBVIOUS
    <3>1. bk.qty[j] = p.qty[j] /\ bk.cost[j] = HeldCost(p)[j]
      BY <1>6, <1>10 DEF Moved
    <3>. QED
      BY <1>5, <1>7, <3>1
  <2>4. new.cost[i] \in Int /\ Near(new.cost[i], bk.cost[i], ColumnUnit * bk.qty[i])
    <3>. DEFINE q == bk.qty[i]
                v == AverageCosts(a, bk)[i]
    <3>1. q \in Nat /\ bk.cost[i] \in Nat /\ i \in Instruments
      BY <1>1, <2>1
    <3>2. new.cost[i] = q * InMemory(v)
      BY <1>1, <1>5 DEF HeldCost
    <3>3. CASE q = 0
      <4>1. bk.cost[i] = 0
        BY <1>1, <2>1, <3>3 DEF Valued
      <4>2. v = p.avg[i] /\ p.avg[i] \in Nat
        BY <1>1, <1>6, <3>3 DEF AverageCosts
      <4>3. InMemory(v) \in Int
        BY <4>2, ColumnFacts
      <4>. HIDE DEF q, v
      <4>4. q * InMemory(v) = 0 /\ ColumnUnit * q = 0
        BY <3>3, <4>3, ColumnAssumption
      <4>. QED
        BY <3>2, <4>1, <4>4 DEF Near, q
    <3>4. CASE q # 0
      <4>1. v = Nearest(bk.cost[i], q * ColumnUnit)
        BY <1>1, <3>4 DEF AverageCosts
      <4>. HIDE DEF q, v
      <4>2. q * InMemory(v) \in Int
            /\ Near(q * InMemory(v), bk.cost[i], ColumnUnit * q)
        BY <3>1, <3>4, <4>1, CostStored
      <4>. QED
        BY <3>2, <4>2 DEF q
    <3>. QED
      BY <3>3, <3>4
  <2>5. new.realized \in Int /\ Near(new.realized, bk.realized, ColumnUnit)
    <3>. HIDE DEF f, g
    <3>. QED
      BY <1>5, <1>8, <2>1
  <2>6. h.side # "sell" => Near(new.realized, bk.realized, 0)
    <3>. SUFFICES ASSUME h.side # "sell" PROVE Near(new.realized, bk.realized, 0)
      OBVIOUS
    <3>1. bk.realized = InMemory(SumOver(f))
      BY <1>6, <1>10 DEF Moved
    <3>2. g = f
      <4>. HIDE DEF f, g
      <4>. QED
        BY <1>8, <2>1, <3>1
    <3>3. new.realized = bk.realized
      BY <1>5, <3>1, <3>2
    <3>. QED
      BY <2>1, <3>3 DEF Near
  <2>7. \A j \in Instruments : new.cost[j] \in Int
    BY <2>1, <2>3, <2>4
  <2>. QED
    BY <1>5, <2>2, <2>3, <2>4, <2>5, <2>6, <2>7 DEF Stored
<1>. QED
  BY <1>4, <1>9, <1>10

LEMMA NearShifted ==
  ASSUME NEW x \in Int, NEW y \in Int, NEW s \in Int, Near(x, y, s),
         NEW c \in Int, NEW v, v = x + c, NEW w, w = y + c
  PROVE  Near(v, w, s)
BY DEF Near

LEMMA NearFurther ==
  ASSUME NEW x \in Int, NEW y \in Int, NEW z \in Int, NEW s \in Int, NEW p \in Int,
         Near(x, y, s), Near(y, z, p), NEW q, q = s + p
  PROVE  Near(x, z, q)
BY DEF Near

LEMMA NearLess ==
  ASSUME NEW x \in Int, NEW y \in Int, NEW s \in Int, Near(x, y, s),
         NEW k \in Int, NEW l \in Int, NEW p \in Int, Near(k, l, p),
         NEW v, v = x - k, NEW w, w = y - l, NEW q, q = s + p
  PROVE  Near(v, w, q)
BY DEF Near

\* A fill, stored, leaves the account where the backtest is.
LEMMA TracksOn ==
  ASSUME NEW book, Valued(book), NEW s \in State, Tracks(book, s),
         NEW i \in Instruments, NEW f \in Fill, NEW bk, Moved(book, bk, i, f),
         NEW y, Moved(s.book, y.book, i, f),
         y.fills = Append(s.fills, RecordFill(f)),
         NEW new, Stored(bk, new, i, f)
  PROVE  Tracks(new, y)
<1>. DEFINE U  == ColumnUnit
            CS == CashSlack(s.fills)
            SS == SaleSlack(s.fills)
            c  == CashFlow(f)
<1>1. /\ U \in Nat \ {0} /\ CS \in Int /\ SS \in Int /\ c \in Int
      /\ CashSlack(y.fills) = CS + U
      /\ f.side = "sell" => SaleSlack(y.fills) = SS + U * (f.qty + 1)
      /\ f.side # "sell" => SaleSlack(y.fills) = SS
  <2>1. s.fills \in Seq(Fill) /\ RecordFill(f) \in Fill
        /\ RecordFill(f).side = f.side /\ RecordFill(f).qty = f.qty
    BY RecordedFill DEF State
  <2>2. /\ CS \in Int /\ SS \in Int /\ CashSlack(y.fills) = CS + U
        /\ SaleSlack(y.fills) = SS + U * OfSale(RecordFill(f))
    BY <2>1, SlackMore
  <2>3. c \in Int
    BY FlowTyped
  <2>4. U * 0 = 0 /\ U \in Nat \ {0}
    BY ColumnAssumption
  <2>. HIDE DEF U, CS, SS
  <2>. QED
    BY <2>1, <2>2, <2>3, <2>4 DEF OfSale
<1>2. /\ book \in Portfolio /\ s.book \in Portfolio /\ bk \in Portfolio
      /\ y.book \in Portfolio
  BY DEF Valued, State, Moved
<1>3. /\ book.qty = s.book.qty
      /\ Near(book.cash, s.book.cash, CS)
      /\ \A j \in Instruments : Near(book.cost[j], s.book.cost[j], U * s.book.qty[j])
      /\ Near(book.realized, s.book.realized, SS)
  BY DEF Tracks
<1>4. /\ book.cash \in Int /\ book.realized \in Int /\ s.book.cash \in Int
      /\ s.book.realized \in Int /\ bk.cash \in Int /\ bk.realized \in Int
      /\ y.book.cash \in Int /\ y.book.realized \in Int
      /\ bk.qty \in [Instruments -> Nat] /\ y.book.qty \in [Instruments -> Nat]
      /\ \A j \in Instruments :
           /\ book.cost[j] \in Int /\ s.book.cost[j] \in Int
           /\ bk.cost[j] \in Int /\ y.book.cost[j] \in Int
           /\ s.book.qty[j] \in Nat /\ y.book.qty[j] \in Nat
  BY <1>2 DEF Portfolio
<1>5. f.qty \in Nat /\ f.side \in {"buy", "sell"}
  BY DEF Fill, Side
<1>6. new.qty = y.book.qty
  <2>1. \A j \in Instruments : bk.qty[j] = y.book.qty[j]
    BY <1>3 DEF Moved
  <2>2. bk.qty = y.book.qty
    BY <1>4, <2>1
  <2>. QED
    BY <2>2 DEF Stored
<1>7. Near(new.cash, y.book.cash, CashSlack(y.fills))
  <2>1. /\ bk.cash = book.cash + c /\ y.book.cash = s.book.cash + c
        /\ Near(new.cash, bk.cash, U) /\ new.cash \in Int
    BY DEF Moved, Stored
  <2>2. Near(bk.cash, y.book.cash, CS)
    BY <1>1, <1>3, <1>4, <2>1, NearShifted
  <2>3. U \in Int /\ CashSlack(y.fills) = U + CS
    BY <1>1
  <2>. DEFINE v == new.cash
              w == bk.cash
              z == y.book.cash
              q == CashSlack(y.fills)
  <2>4. /\ v \in Int /\ w \in Int /\ z \in Int /\ U \in Int /\ CS \in Int
        /\ Near(v, w, U) /\ Near(w, z, CS) /\ q = U + CS
    BY <1>1, <1>4, <2>1, <2>2, <2>3
  <2>. HIDE DEF U, CS, v, w, z, q
  <2>5. Near(v, z, q)
    BY ONLY <2>4, NearFurther
  <2>. QED
    BY <2>5 DEF v, z, q
<1>8. ASSUME NEW j \in Instruments
      PROVE  Near(new.cost[j], y.book.cost[j], U * y.book.qty[j])
  <2>1. CASE j # i
    <3>1. /\ new.cost[j] = book.cost[j] /\ y.book.cost[j] = s.book.cost[j]
          /\ y.book.qty[j] = s.book.qty[j]
      BY <2>1 DEF Moved, Stored
    <3>. QED
      BY <1>3, <3>1
  <2>2. CASE j = i
    <3>1. bk.cost[i] = y.book.cost[i] /\ bk.qty[i] = y.book.qty[i]
      BY <1>5 DEF Moved
    <3>2. Near(new.cost[i], bk.cost[i], U * bk.qty[i])
      BY DEF Stored
    <3>. QED
      BY <2>2, <3>1, <3>2
  <2>. QED
    BY <2>1, <2>2
<1>9. Near(new.realized, y.book.realized, SaleSlack(y.fills))
  <2>1. new.realized \in Int
    BY DEF Stored
  <2>2. CASE f.side = "buy"
    <3>1. bk.realized = book.realized /\ y.book.realized = s.book.realized
          /\ Near(new.realized, bk.realized, 0)
      BY <2>2 DEF Moved, Stored
    <3>2. Near(bk.realized, y.book.realized, SS)
      BY <1>3, <3>1
    <3>3. 0 \in Int /\ SaleSlack(y.fills) = 0 + SS
      BY <1>1, <2>2
    <3>. QED
      BY <1>1, <1>4, <2>1, <3>1, <3>2, <3>3, NearFurther
  <2>3. CASE f.side = "sell"
    <3>. DEFINE d == U * f.qty
    <3>1. /\ bk.realized = book.realized + c - book.cost[i]
          /\ y.book.realized = s.book.realized + c - s.book.cost[i]
          /\ Near(new.realized, bk.realized, U) /\ s.book.qty[i] = f.qty
      BY <2>3 DEF Moved, Stored
    <3>2. Near(book.cost[i], s.book.cost[i], d)
      BY <1>3, <3>1
    <3>3. SaleSlack(y.fills) = U + (SS + d) /\ d \in Int /\ U \in Int
          /\ SS + d \in Int
      <4>. HIDE DEF U, SS
      <4>1. U * (f.qty + 1) = U * f.qty + U /\ U * f.qty \in Int
        BY <1>1, <1>5
      <4>. QED
        BY <1>1, <2>3, <4>1
    <3>4. book.cost[i] \in Int /\ s.book.cost[i] \in Int
      BY <1>4
    <3>. DEFINE p == book.realized + c
                q == s.book.realized + c
    <3>5. p \in Int /\ q \in Int /\ Near(p, q, SS)
      <4>1. /\ book.realized \in Int /\ s.book.realized \in Int /\ c \in Int
            /\ SS \in Int
        BY <1>1, <1>4
      <4>2. Near(book.realized, s.book.realized, SS)
        BY <1>3
      <4>. QED
        BY ONLY <4>1, <4>2 DEF Near
    <3>6. bk.realized = p - book.cost[i] /\ y.book.realized = q - s.book.cost[i]
      <4>1. /\ book.realized \in Int /\ s.book.realized \in Int /\ c \in Int
        BY <1>1, <1>4
      <4>. HIDE DEF c
      <4>. QED
        BY <3>1, <3>4, <4>1
    <3>. DEFINE k == book.cost[i]
                l == s.book.cost[i]
                e == new.realized
                v == bk.realized
                w == y.book.realized
                m == SS + d
                n == SaleSlack(y.fills)
    <3>7. /\ p \in Int /\ q \in Int /\ SS \in Int /\ Near(p, q, SS)
          /\ k \in Int /\ l \in Int /\ d \in Int /\ Near(k, l, d)
          /\ v = p - k /\ w = q - l /\ m = SS + d
          /\ e \in Int /\ v \in Int /\ w \in Int /\ U \in Int /\ m \in Int
          /\ Near(e, v, U) /\ n = U + m
      BY <1>1, <1>4, <2>1, <3>1, <3>2, <3>3, <3>4, <3>5, <3>6
    <3>. HIDE DEF U, SS, p, q, d, k, l, e, v, w, m, n
    <3>8. Near(v, w, m)
      BY ONLY <3>7, NearLess
    <3>9. Near(e, w, n)
      BY ONLY <3>7, <3>8, NearFurther
    <3>. QED
      BY <3>9 DEF e, w, n
  <2>. QED
    BY <1>5, <2>2, <2>3
<1>. QED
  BY <1>6, <1>7, <1>8, <1>9 DEF Tracks

\* The run whose tick commits has still done what the backtest has.
LEMMA CommittedAgreement ==
  ASSUME IInv, BookInv, BacktestInv, Uncorrected, NEW t \in Tickers,
         NEW x, x = tick[t], NEW r, r = x.run, NEW a, a = run[r].account,
         NEW i, NEW os, NEW bk, CommitsTo(x, r, a, i, os, bk), i = run[r].instrument,
         NEW k \in Nat, NEW m \in Nat, Follows(r, k, m)', Decided(r, k + m)'
  PROVE  Agrees(r, k, m)'
<1>. DEFINE b    == bars[i]
            h    == History[i]
            l    == k + m
            d    == Last(x.bars).at
            g    == Config[r]
            ss   == snapshots[r]
            prev == orders[r]
<1>1. /\ x.pc = "portfolio" /\ r \in Runs /\ Started(r)
      /\ a \in Accounts /\ i \in Instruments
      /\ x.book = BookOf(a) /\ Trades(x, os, bk) /\ TradeFacts(x, i, os, bk)
      /\ orders' = [orders EXCEPT ![r] = prev \o os]
      /\ snapshots' = [snapshots EXCEPT ![r] = Append(ss, d)]
      /\ \A q \in Runs : /\ Started(q)' <=> Started(q)
                         /\ run'[q].account = run[q].account
                         /\ run'[q].instrument = run[q].instrument
      /\ UNCHANGED <<bars, stores>>
  BY DEF CommitsTo
<1>2. /\ orders'[r] = prev \o os /\ snapshots'[r] = Append(ss, d)
      /\ prev \in Seq(Order) /\ ss \in Seq(Nat)
      /\ b \in Seq(Bar) /\ Sorted(b) /\ h \in Seq(Bar)
  BY <1>1, HistoryAssumption DEF IInv, TypeInv, DateInv, Bar
<1>3. /\ x.bars \in Seq(Bar) /\ x.bars # <<>> /\ d \in Nat /\ Valued(x.book)
  BY <1>1, TradingTick
<1>4. os = <<>> \/ \E o \in Order : os = <<o>>
  BY <1>1 DEF TradeFacts, AtMostOne
<1>5. /\ Strict(b) /\ k <= g.long /\ k <= Len(h) /\ l <= Len(b)
      /\ \A n \in 1 .. k : b[n] = h[n]
      /\ Len(Append(ss, d)) = m
      /\ \A n \in 1 .. m : Append(ss, d)[n] = b[k + n].at
  <2>. DEFINE w == Append(ss, d)
  <2>1. Ticked(r, k, m)'
    BY DEF Follows
  <2>2. snapshots'[r] = w /\ run'[r].instrument = i /\ bars' = bars
    BY <1>1, <1>2
  <2>. HIDE DEF w
  <2>3. /\ Strict(b) /\ k <= g.long /\ k <= Len(h) /\ l <= Len(b)
        /\ \A n \in 1 .. k : b[n] = h[n]
        /\ Len(w) = m
        /\ \A n \in 1 .. m : w[n] = b[k + n].at
    BY <2>1, <2>2 DEF Ticked
  <2>. QED
    BY <2>3 DEF w
<1>. HIDE DEF b, h, d, g, ss, prev
<1>6. /\ Len(ss) = m - 1 /\ m - 1 \in Nat /\ d = b[l].at
      /\ DOMAIN ss = 1 .. m - 1
      /\ \A n \in 1 .. m - 1 : ss[n] = b[k + n].at
  <2>1. Len(ss) \in Nat /\ Len(Append(ss, d)) = Len(ss) + 1
        /\ Append(ss, d)[Len(ss) + 1] = d
        /\ \A n \in 1 .. Len(ss) : Append(ss, d)[n] = ss[n]
        /\ DOMAIN ss = 1 .. Len(ss)
    BY <1>2, <1>3
  <2>2. Len(ss) = m - 1
    BY <1>5, <2>1
  <2>3. d = b[k + m].at
    <3>1. m \in 1 .. m /\ Append(ss, d)[m] = d
      BY <2>1, <2>2
    <3>. QED
      BY <1>5, <3>1
  <2>4. \A n \in 1 .. m - 1 : ss[n] = b[k + n].at
    <3>1. \A n \in 1 .. m - 1 : n \in 1 .. m
      OBVIOUS
    <3>. QED
      BY <1>5, <2>1, <2>2, <3>1
  <2>. QED
    BY <2>1, <2>2, <2>3, <2>4
<1>7. Ticked(r, k, m - 1)
  <2>1. k + (m - 1) <= Len(b)
    <3>1. Len(b) \in Nat
      BY <1>2
    <3>. QED
      BY <1>5, <3>1
  <2>. QED
    BY <1>5, <1>6, <2>1 DEF Ticked, b, g, h, ss
<1>8. AloneOnAccount(r)
  BY <1>1 DEF Follows, AloneOnAccount
<1>9. /\ \A n \in DOMAIN prev : prev[n].status # "risk_rejected"
      /\ \A n \in DOMAIN os : os[n].status # "risk_rejected"
  <2>1. \A n \in DOMAIN (prev \o os) : (prev \o os)[n].status # "risk_rejected"
    BY <1>2 DEF Follows, NothingRejected
  <2>2. os \in Seq(Order)
    <3>1. CASE os = <<>>
      BY <3>1
    <3>2. ASSUME NEW o \in Order, os = <<o>> PROVE os \in Seq(Order)
      BY <3>2
    <3>. QED
      BY <1>4, <3>1, <3>2
  <2>. DEFINE w == prev \o os
  <2>3. /\ DOMAIN w = 1 .. Len(prev) + Len(os)
        /\ DOMAIN prev = 1 .. Len(prev) /\ DOMAIN os = 1 .. Len(os)
        /\ Len(prev) \in Nat /\ Len(os) \in Nat
        /\ \A n \in 1 .. Len(prev) : w[n] = prev[n]
        /\ \A n \in 1 .. Len(os) : w[Len(prev) + n] = os[n]
    BY <1>2, <2>2, Joined
  <2>. HIDE DEF w
  <2>4. /\ \A n \in DOMAIN prev : n \in DOMAIN w
        /\ \A n \in DOMAIN os : Len(prev) + n \in DOMAIN w
    BY <2>3
  <2>. QED
    BY <2>1, <2>3, <2>4 DEF w
<1>10. Agrees(r, k, m - 1)
  <2>1. Follows(r, k, m - 1)
    BY <1>1, <1>7, <1>8, <1>9 DEF Follows, NothingRejected, prev
  <2>. QED
    BY <1>1, <1>6, <2>1 DEF BacktestInv
<1>11. /\ Sorted(x.bars) /\ Among(x.bars, b) /\ Strict(x.bars)
       /\ Among(h, x.bars)
       /\ \A n \in DOMAIN ss : Dated(ss[n], x.bars)
  <2>1. ReadBars(x)
    BY DEF BacktestInv
  <2>. QED
    BY <1>1, <1>5, <2>1 DEF ReadBars, b, h, ss
<1>12. DOMAIN b = 1 .. Len(b) /\ DOMAIN h = 1 .. Len(h) /\ Len(b) \in Nat
       /\ Len(h) \in Nat /\ l \in DOMAIN b
  <2>1. DOMAIN b = 1 .. Len(b) /\ DOMAIN h = 1 .. Len(h) /\ Len(b) \in Nat
        /\ Len(h) \in Nat
    BY <1>2
  <2>. QED
    BY <1>5, <1>6, <2>1
<1>13. ASSUME NEW n \in 1 .. l PROVE Dated(b[n].at, x.bars)
  <2>1. CASE n <= k
    <3>1. n \in DOMAIN h /\ b[n] = h[n]
      BY <1>5, <1>12, <2>1
    <3>. QED
      BY <1>11, <3>1 DEF Among, Dated
  <2>2. CASE n > k /\ n < l
    <3>1. n - k \in 1 .. m - 1 /\ k + (n - k) = n
      BY <2>2
    <3>2. n - k \in DOMAIN ss /\ ss[n - k] = b[n].at
      BY <1>6, <3>1
    <3>. QED
      BY <1>11, <3>2
  <2>3. CASE n = l
    <3>. DEFINE s == x.bars
    <3>1. Len(s) \in DOMAIN s /\ s[Len(s)].at = d
      BY <1>3 DEF Last, d
    <3>. QED
      BY <1>6, <2>3, <3>1 DEF Dated
  <2>. QED
    BY <2>1, <2>2, <2>3
<1>14. x.bars = SubSeq(b, 1, l)
  <2>. DEFINE s == x.bars
  <2>1. Last(s).at = b[l].at
    BY <1>6 DEF d
  <2>. HIDE DEF s, l
  <2>2. s = SubSeq(b, 1, l)
    BY <1>2, <1>3, <1>5, <1>11, <1>12, <1>13, <2>1, TickedBars DEF s
  <2>. QED
    BY <2>2 DEF s
<1>. DEFINE c == ClosesOf(SubSeq(b, 1, l - 1))
            e == b[l].close
            w == ClosesOf(x.bars)
            s == RunBacktest(c, i, g, InitialCash)
            y == TradeBar(s, w, i, g)
<1>15. c \in Seq(Nat) /\ e \in Nat /\ w = Append(c, e)
  <2>. HIDE DEF l
  <2>1. l \in 1 .. Len(b)
    BY <1>12
  <2>. QED
    BY <1>2, <1>14, <2>1, LongerPrefix
<1>16. g \in Strategy /\ InitialCash \in Int
  BY <1>1, ConfigAssumption, CashAssumption DEF g
<1>17. s \in State /\ RunBacktest(w, i, g, InitialCash) = y
  <2>. HIDE DEF c, e, w
  <2>. QED
    BY <1>1, <1>15, <1>16, BacktestStep
<1>18. ClosesTo(r, k + (m - 1)) = c /\ ClosesTo(r, l)' = w
  <2>1. k + (m - 1) = l - 1
    BY <1>6
  <2>2. ClosesTo(r, l)' = ClosesOf(SubSeq(b, 1, l))
    BY <1>1 DEF ClosesTo, b
  <2>. QED
    BY <1>14, <2>1, <2>2 DEF ClosesTo, b
<1>19. SoFar(r, k + (m - 1)) = s /\ SoFar(r, l)' = y
  BY <1>1, <1>17, <1>18 DEF SoFar, g
<1>20. Decided(r, k + (m - 1)) /\ ClearCall(s, w, i, g)
  <2>1. NoCloseCall(w, i, g, InitialCash)
    BY <1>1, <1>18 DEF Decided, g
  <2>. HIDE DEF c, e, w
  <2>2. NoCloseCall(c, i, g, InitialCash) /\ ClearCall(s, w, i, g)
    BY <1>15, <2>1, NoCloseCallStep
  <2>. QED
    BY <1>18, <2>2 DEF Decided, g
<1>21. FillsIn(prev) = s.fills /\ Tracks(x.book, s)
  <2>. HIDE DEF s
  <2>. QED
    BY <1>1, <1>10, <1>19, <1>20 DEF Agrees, prev
<1>22. SameTrade(x, i, os, bk, s, y, prev)
  <2>. HIDE DEF s
  <2>1. SameState(x, i, os, bk, s, prev)
    BY <1>1, <1>2, <1>3, <1>9, <1>16, <1>17, <1>20, <1>21 DEF SameState, g
  <2>. QED
    BY <2>1, TradeMatches DEF g
<1>23. PICK new : new = BookOf(a)'
  OBVIOUS
<1>24. Tracks(new, y)
  <2>. HIDE DEF s, y
  <2>1. /\ bk = x.book => new = x.book
        /\ \A f \in Fill : Moved(x.book, bk, i, f) => Stored(bk, new, i, f)
    BY <1>3, <1>23, CommittedBook
  <2>2. CASE bk = x.book /\ y = s
    BY <1>21, <2>1, <2>2
  <2>3. ASSUME NEW f \in Fill, Moved(x.book, bk, i, f), Moved(s.book, y.book, i, f),
               y.fills = Append(s.fills, RecordFill(f))
        PROVE  Tracks(new, y)
    <3>1. Stored(bk, new, i, f)
      BY <2>1, <2>3
    <3>. QED
      BY <1>1, <1>3, <1>17, <1>21, <2>3, <3>1, TracksOn
  <2>. QED
    BY <1>22, <2>2, <2>3 DEF SameTrade
<1>25. BookOf(run[r].account)' = new
  BY <1>1, <1>23 DEF BookOf, LatestCash
<1>26. FillsIn(orders'[r]) = y.fills
  BY <1>2, <1>22 DEF SameTrade
<1>. QED
  <2>. HIDE DEF y
  <2>. QED
    BY <1>19, <1>24, <1>25, <1>26 DEF Agrees

LEMMA BacktestCommit ==
  ASSUME IInv, BookInv, BacktestInv, NEW t \in Tickers, RunTick(t)
  PROVE  BacktestInv'
<1>1. PICK x : x = tick[t]
  OBVIOUS
<1>2. PICK r : r = x.run
  OBVIOUS
<1>3. PICK a : a = run[r].account
  OBVIOUS
<1>4. PICK i : i = run[r].instrument
  OBVIOUS
<1>5. PICK os, bk : Settles(x, os, bk)
  BY <1>1, TickSettles
<1>6. CommitsTo(x, r, a, i, os, bk) /\ tick' = [tick EXCEPT ![t] = NoTick]
  BY <1>1, <1>2, <1>3, <1>4, <1>5, CommitFacts
<1>7. \A b \in Accounts \ {a} : BookOf(b)' = BookOf(b)
  <2>1. PICK new : new = BookOf(a)'
    OBVIOUS
  <2>2. x.pc = "portfolio"
    BY <1>6 DEF CommitsTo
  <2>3. Valued(x.book)
    BY <1>1, <2>2, TradingTick
  <2>. QED
    BY <1>6, <2>1, <2>3, CommittedBook
<1>8. /\ x.pc = "portfolio" /\ r \in Runs /\ Started(r)
      /\ a \in Accounts /\ i \in Instruments
      /\ orders' = [orders EXCEPT ![r] = orders[r] \o os]
      /\ snapshots' = [snapshots EXCEPT ![r] = Append(snapshots[r], Last(x.bars).at)]
      /\ ledger[a] # <<>> /\ \A b \in Accounts \ {a} : ledger'[b] = ledger[b]
      /\ run' = [run EXCEPT ![r].last = Last(x.bars).at]
      /\ \A q \in Runs : /\ Started(q)' <=> Started(q)
                         /\ run'[q].account = run[q].account
                         /\ run'[q].instrument = run[q].instrument
      /\ UNCHANGED <<bars, stores>>
  BY <1>6 DEF CommitsTo
<1>9. \A q \in Runs \ {r} : /\ orders'[q] = orders[q]
                            /\ snapshots'[q] = snapshots[q]
                            /\ run'[q] = run[q]
  BY <1>8 DEF IInv, TypeInv
<1>10. /\ tick'[t] = NoTick /\ \A u \in Tickers \ {t} : tick'[u] = tick[u]
  BY <1>6 DEF IInv, TypeInv
<1>11. (Uncorrected' <=> Uncorrected) /\ Growth' = Growth
  BY <1>8 DEF Uncorrected, Growth
<1>12. ASSUME NEW b \in Accounts, Unused(b)', ledger'[b] # <<>>
       PROVE  Tracks(BookOf(b)', Start(InitialCash))
  <2>1. Unused(b)
    BY <1>8, <1>12 DEF Unused
  <2>2. b # a
    BY <1>3, <1>8, <2>1 DEF Unused
  <2>. QED
    BY <1>7, <1>8, <1>12, <2>1, <2>2 DEF BacktestInv
<1>13. ASSUME Uncorrected, NEW u \in Tickers PROVE ReadBars(tick[u])'
  <2>1. CASE u = t
    BY <1>10, <2>1 DEF ReadBars, NoTick
  <2>2. CASE u # t /\ tick[u].pc \notin {"bars", "portfolio"}
    BY <1>10, <2>2 DEF ReadBars
  <2>3. CASE u # t /\ tick[u].pc \in {"bars", "portfolio"}
    <3>1. PICK y : y = tick[u]
      OBVIOUS
    <3>2. y.run \in Runs \ {r}
      <4>1. y.pc # "idle" /\ x.pc # "idle"
        BY <1>8, <2>3, <3>1
      <4>2. y.run \in Runs
        BY <3>1, <4>1 DEF IInv, TypeInv, TickTyped
      <4>3. y.run # x.run
        BY <1>1, <2>3, <3>1, <4>1 DEF IInv, LockInv, Alone
      <4>. QED
        BY <1>2, <4>2, <4>3
    <3>3. tick'[u] = y
      BY <1>10, <2>3, <3>1
    <3>4. ReadBars(y)
      BY <1>13, <3>1 DEF BacktestInv
    <3>5. snapshots'[y.run] = snapshots[y.run] /\ run'[y.run] = run[y.run]
      BY <1>9, <3>2
    <3>. QED
      BY <1>8, <3>3, <3>4, <3>5 DEF ReadBars
  <2>. QED
    BY <2>1, <2>2, <2>3
<1>14. ASSUME Uncorrected, NEW q \in Runs, Started(q)', NEW n \in DOMAIN snapshots'[q]
       PROVE  Dated(snapshots'[q][n], bars'[run'[q].instrument])
  <2>1. CASE q # r
    BY <1>8, <1>9, <1>14, <2>1 DEF BacktestInv
  <2>2. CASE q = r
    <3>. DEFINE ss == snapshots[r]
                d  == Last(x.bars).at
                s  == x.bars
    <3>1. ss \in Seq(Nat) /\ d \in Nat /\ s \in Seq(Bar) /\ s # <<>>
      BY <1>1, <1>8, TradingTick DEF IInv, TypeInv
    <3>2. snapshots'[r] = Append(ss, d)
      BY <1>8 DEF IInv, TypeInv
    <3>3. Among(s, bars[i])
      BY <1>1, <1>2, <1>4, <1>8, <1>14 DEF BacktestInv, ReadBars
    <3>4. Dated(d, bars[i])
      <4>1. Len(s) \in DOMAIN s /\ s[Len(s)].at = d
        BY <3>1 DEF Last
      <4>2. Dated(d, s)
        BY <4>1 DEF Dated
      <4>. QED
        BY <3>3, <4>2, AmongDated
    <3>5. \A j \in DOMAIN ss : Dated(ss[j], bars[i])
      BY <1>4, <1>8, <1>14 DEF BacktestInv
    <3>. HIDE DEF ss, d
    <3>6. snapshots'[r][n] = d \/ (n \in DOMAIN ss /\ snapshots'[r][n] = ss[n])
      BY <1>14, <2>2, <3>1, <3>2
    <3>7. run'[r].instrument = i
      BY <1>4, <1>8
    <3>. QED
      BY <1>8, <2>2, <3>4, <3>5, <3>6, <3>7
  <2>. QED
    BY <2>1, <2>2
<1>15. ASSUME Uncorrected, NEW q \in Runs, NEW k \in Nat, NEW m \in Nat,
              Follows(q, k, m)'
       PROVE  Agrees(q, k, m)'
  <2>1. CASE q = r
    <3>1. CASE Decided(q, k + m)'
      BY <1>1, <1>2, <1>3, <1>4, <1>6, <1>15, <2>1, <3>1, CommittedAgreement
    <3>2. CASE ~Decided(q, k + m)'
      BY <3>2 DEF Agrees
    <3>. QED
      BY <3>1, <3>2
  <2>2. CASE q # r
    <3>1. Started(q) /\ run'[q] = run[q]
      BY <1>8, <1>9, <1>15, <2>2 DEF Follows
    <3>2. AloneOnAccount(q)
      BY <1>8, <1>15 DEF Follows, AloneOnAccount
    <3>3. run[q].account \in Accounts \ {a}
      <4>1. run[r].account # run[q].account
        BY <1>8, <2>2, <3>2 DEF AloneOnAccount
      <4>. QED
        BY <1>3, <3>1, <4>1 DEF IInv, TypeInv, Started, Run
    <3>4. BookOf(run[q].account)' = BookOf(run[q].account)
      <4>1. PICK b : b = run[q].account
        OBVIOUS
      <4>2. BookOf(b)' = BookOf(b)
        BY <1>7, <3>3, <4>1
      <4>. QED
        BY <3>1, <4>1, <4>2 DEF BookOf, LatestCash
    <3>5. Follows(q, k, m) => Agrees(q, k, m)
      BY <1>15 DEF BacktestInv
    <3>. QED
      BY <1>8, <1>9, <1>15, <2>2, <3>1, <3>2, <3>4, <3>5, KeptAgreement
  <2>. QED
    BY <2>1, <2>2
<1>16. ASSUME NEW q \in Runs, ~Started(q)' PROVE snapshots'[q] = <<>>
  BY <1>8, <1>9, <1>16 DEF BacktestInv
<1>17. Uncorrected => \A j \in Instruments : Among(History[j], bars'[j])
  BY <1>8 DEF BacktestInv
<1>. QED
  BY <1>8, <1>11, <1>12, <1>13, <1>14, <1>15, <1>16, <1>17 DEF BacktestInv

-----------------------------------------------------------------------------
(***************************************************************************)
(* The theorem.                                                            *)
(***************************************************************************)
LEMMA BacktestNext ==
  IInv /\ IInv' /\ BookInv /\ BacktestInv /\ [Next]_vars => BacktestInv'
<1>. SUFFICES ASSUME IInv, IInv', BookInv, BacktestInv, [Next]_vars
              PROVE  BacktestInv'
  OBVIOUS
<1>1. CASE UNCHANGED vars
  <2>1. UNCHANGED <<market, account, journal, run>> /\ UNCHANGED tick
    BY <1>1 DEF vars
  <2>2. Uncorrected => \A t \in Tickers : ReadBars(tick[t])'
    BY <2>1, AllOthersRead
  <2>. QED
    BY <2>1, <2>2, QuietStep
<1>2. ASSUME NEW i \in Instruments, NEW d \in Dates, NEW c \in Closes,
             StoreBar(i, [at |-> d, close |-> c])
      PROVE  BacktestInv'
  <2>1. [at |-> d, close |-> c] \in Bar
    BY BarsAssumption DEF Bar
  <2>. QED
    BY <1>2, <2>1, StoreStep
<1>3. ASSUME NEW i \in Instruments, NEW c \in Closes, NEW k \in DOMAIN bars[i],
             CorrectBar(i, k, c)
      PROVE  BacktestInv'
  <2>1. c \in Nat
    BY BarsAssumption
  <2>. QED
    BY <1>3, <2>1, CorrectStep
<1>4. ASSUME NEW a \in Accounts, CreateAccount(a) PROVE BacktestInv'
  BY <1>4, CreateStep
<1>5. ASSUME NEW r \in Runs, NEW a \in Accounts, NEW i \in Instruments,
             StartRun(r, a, i)
      PROVE  BacktestInv'
  BY <1>5, StartStep
<1>6. ASSUME NEW t \in Tickers, NEW r \in Runs, LoadRun(t, r) PROVE BacktestInv'
  BY <1>6, BacktestRead
<1>7. ASSUME NEW t \in Tickers, TickStep(t) \/ AbortTick(t) PROVE BacktestInv'
  <2>1. CASE LoadAccount(t) \/ ListBars(t) \/ LoadPortfolio(t) \/ AbortTick(t)
    BY <2>1, BacktestRead
  <2>2. CASE RunTick(t)
    BY <2>2, BacktestCommit
  <2>. QED
    BY <1>7, <2>1, <2>2 DEF TickStep
<1>. QED
  BY <1>1, <1>2, <1>3, <1>4, <1>5, <1>6, <1>7 DEF Next

LEMMA AlwaysBacktestInv == Spec => []BacktestInv
<1>1. Init => BacktestInv
  BY BacktestInit
<1>2. IInv /\ IInv' /\ BookInv /\ BacktestInv /\ [Next]_vars => BacktestInv'
  BY BacktestNext
<1>. QED
  BY <1>1, <1>2, AlwaysIInv, AlwaysBookInv, PTL DEF Spec

\* All the bars were followed.
LEMMA FollowedAll ==
  ASSUME IInv, BacktestInv, NEW r \in Runs, Started(r), Uncorrected,
         FollowedEveryBar(r), AloneOnAccount(r), NothingRejected(r),
         NEW c, c = ClosesOf(bars[run[r].instrument]),
         NoCloseCall(c, run[r].instrument, Config[r], InitialCash),
         NEW result,
         result = RunBacktest(c, run[r].instrument, Config[r], InitialCash)
  PROVE  /\ FillsIn(orders[r]) = result.fills
         /\ Tracks(BookOf(run[r].account), result) /\ result \in State
<1>. DEFINE b  == bars[run[r].instrument]
            h  == History[run[r].instrument]
            ss == snapshots[r]
<1>1. b \in Seq(Bar) /\ ss \in Seq(Nat)
  BY DEF IInv, TypeInv, Started, Run
<1>2. PICK k \in 0 .. Config[r].long :
        /\ k <= Len(h) /\ k <= Len(b) /\ \A n \in 1 .. k : b[n] = h[n]
        /\ ss = [n \in 1 .. Len(b) - k |-> b[n + k].at]
  BY DEF FollowedEveryBar
<1>. DEFINE m == Len(b) - k
<1>3. k \in Nat /\ m \in Nat /\ k <= Config[r].long /\ k + m = Len(b)
  <2>1. Config[r].long \in Nat
    BY ConfigAssumption DEF Strategy
  <2>. QED
    BY <1>1, <1>2, <2>1
<1>4. Len(ss) = m /\ \A n \in 1 .. m : ss[n] = b[k + n].at
  <2>1. DOMAIN ss = 1 .. m /\ \A n \in 1 .. m : ss[n] = b[n + k].at
    BY <1>2
  <2>. HIDE DEF ss, b, m
  <2>2. Len(ss) = m
    BY <1>1, <1>3, <2>1
  <2>3. \A n \in 1 .. m : n + k = k + n
    BY <1>3
  <2>. QED
    BY <2>1, <2>2, <2>3
<1>5. Strict(b)
  BY DEF FollowedEveryBar, Strict
<1>6. Follows(r, k, m)
  <2>1. k + m <= Len(b)
    BY <1>1, <1>3
  <2>. QED
    BY <1>2, <1>3, <1>4, <1>5, <2>1 DEF Follows, Ticked
<1>7. Agrees(r, k, m)
  BY <1>3, <1>6 DEF BacktestInv
<1>8. SubSeq(b, 1, k + m) = b
  BY <1>1, <1>3, SubSeqFull
<1>9. ClosesTo(r, k + m) = c /\ SoFar(r, k + m) = result /\ Decided(r, k + m)
  BY <1>8 DEF ClosesTo, SoFar, Decided
<1>10. result \in State
  <2>1. c \in Seq(Nat)
    BY <1>1, ClosesTyped
  <2>2. run[r].instrument \in Instruments /\ Config[r] \in Strategy
        /\ InitialCash \in Int
    BY ConfigAssumption, CashAssumption DEF IInv, TypeInv, Started, Run
  <2>3. PICK e \in Nat : e = 0
    OBVIOUS
  <2>. QED
    BY <2>1, <2>2, <2>3, BacktestStep
<1>. QED
  BY <1>7, <1>9, <1>10 DEF Agrees

LEMMA AbsNear ==
  ASSUME NEW x \in Int, NEW y \in Int, NEW s \in Int
  PROVE  2 * Abs(x - y) <= s <=> Near(x, y, s)
BY DEF Abs, Near

\* What Tracks says of the amounts.
LEMMA AmountsAgree ==
  ASSUME IInv, BookInv, NEW r \in Runs, Started(r), NEW a, a = run[r].account,
         NEW s \in State, Tracks(BookOf(a), s)
  PROVE  /\ position[a].qty = s.book.qty
         /\ 2 * Abs(InMemory(LatestCash(a)) - s.book.cash) <= CashSlack(s.fills)
         /\ \A j \in Instruments :
              2 * Abs(HeldCost(position[a])[j] - s.book.cost[j])
                <= ColumnUnit * s.book.qty[j]
         /\ 2 * Abs(InMemory(SumOver(realized[a])) - s.book.realized)
              <= SaleSlack(s.fills)
<1>. DEFINE cash == InMemory(LatestCash(a))
            cost == HeldCost(position[a])
            gain == InMemory(SumOver(realized[a]))
<1>1. a \in Accounts /\ ledger[a] \in Seq(Entry) /\ ledger[a] # <<>>
  BY DEF IInv, TypeInv, LockInv, Started, Run, BookInv, TypeOK
<1>2. /\ cash \in Int /\ gain \in Int
      /\ \A j \in Instruments : position[a].qty[j] \in Nat /\ cost[j] \in Int
  <2>1. /\ LatestCash(a) \in Int /\ SumOver(realized[a]) \in Int
        /\ \A j \in Instruments :
             /\ position[a].qty[j] \in Nat /\ position[a].avg[j] \in Nat
             /\ cost[j] = position[a].qty[j] * InMemory(position[a].avg[j])
    BY <1>1, LoadedRows
  <2>2. cash \in Int /\ gain \in Int
    BY <2>1, ColumnFacts
  <2>3. ASSUME NEW j \in Instruments PROVE cost[j] \in Int
    <3>. DEFINE q == position[a].qty[j]
                v == InMemory(position[a].avg[j])
    <3>1. q \in Nat /\ v \in Int /\ cost[j] = q * v
      BY <2>1, ColumnFacts
    <3>. HIDE DEF q, v
    <3>. QED
      BY <3>1
  <2>. QED
    BY <2>1, <2>2, <2>3
<1>3. /\ s.book.cash \in Int /\ s.book.realized \in Int /\ s.fills \in Seq(Fill)
      /\ \A j \in Instruments : s.book.cost[j] \in Int /\ s.book.qty[j] \in Nat
  BY DEF State, Portfolio
<1>4. CashSlack(s.fills) \in Int /\ SaleSlack(s.fills) \in Int
  <2>1. PICK f : f \in Fill
    <3>1. [side |-> "buy", qty |-> 1, price |-> 0, commission |-> 0] \in Fill
      BY DEF Fill, Side
    <3>. QED
      BY <3>1
  <2>. QED
    BY <1>3, <2>1, SlackMore
<1>5. /\ position[a].qty = s.book.qty
      /\ Near(cash, s.book.cash, CashSlack(s.fills))
      /\ \A j \in Instruments : Near(cost[j], s.book.cost[j],
                                     ColumnUnit * s.book.qty[j])
      /\ Near(gain, s.book.realized, SaleSlack(s.fills))
  BY DEF Tracks, BookOf
<1>. HIDE DEF cash, cost, gain
<1>6. ASSUME NEW j \in Instruments
      PROVE  2 * Abs(cost[j] - s.book.cost[j]) <= ColumnUnit * s.book.qty[j]
  <2>. DEFINE u == ColumnUnit * s.book.qty[j]
  <2>1. u \in Int
    <3>. DEFINE U == ColumnUnit
                q == s.book.qty[j]
    <3>1. U \in Nat /\ q \in Nat
      BY <1>3, ColumnAssumption
    <3>. HIDE DEF U, q
    <3>2. U * q \in Int
      BY <3>1
    <3>. QED
      BY <3>2 DEF U, q
  <2>2. Near(cost[j], s.book.cost[j], u)
    BY <1>5
  <2>. HIDE DEF u
  <2>3. 2 * Abs(cost[j] - s.book.cost[j]) <= u
    BY <1>2, <1>3, <2>1, <2>2, AbsNear
  <2>. QED
    BY <2>3 DEF u
<1>7. 2 * Abs(cash - s.book.cash) <= CashSlack(s.fills)
  BY <1>2, <1>3, <1>4, <1>5, AbsNear
<1>8. 2 * Abs(gain - s.book.realized) <= SaleSlack(s.fills)
  BY <1>2, <1>3, <1>4, <1>5, AbsNear
<1>. QED
  BY <1>5, <1>6, <1>7, <1>8 DEF cash, cost, gain

(***************************************************************************)
(* AgreesWithBacktest (PaperBacktest): the loop of run_one_tick, cut into  *)
(* transactions that write rounded amounts and reload them, and the loop   *)
(* of BacktestEngine.run, that keeps them in memory unrounded, make the    *)
(* same fills and hold the same shares, and their cash, cost and profit    *)
(* differ by no more than half a digit for each amount and each share that *)
(* was rounded, as long as no decision of the backtest is closer than that *)
(* to the cash it has: for any history, strategies and rates, any          *)
(* precision of the columns, and any other accounts trading meanwhile.     *)
(***************************************************************************)
THEOREM PaperAgreesWithBacktest == Spec => []AgreesWithBacktest
<1>1. IInv /\ BookInv /\ BacktestInv => AgreesWithBacktest
  <2>. SUFFICES ASSUME IInv, BookInv, BacktestInv, NEW r \in Runs,
                       NEW a, a = run[r].account, NEW i, i = run[r].instrument,
                       NEW c, c = ClosesOf(bars[i]),
                       NEW result, result = RunBacktest(c, i, Config[r], InitialCash),
                       Started(r), Uncorrected, FollowedEveryBar(r),
                       AloneOnAccount(r), NothingRejected(r),
                       NoCloseCall(c, i, Config[r], InitialCash)
                PROVE  /\ FillsIn(orders[r]) = result.fills
                       /\ position[a].qty = result.book.qty
                       /\ 2 * Abs(InMemory(LatestCash(a)) - result.book.cash)
                            <= CashSlack(result.fills)
                       /\ \A j \in Instruments :
                            2 * Abs(HeldCost(position[a])[j] - result.book.cost[j])
                              <= ColumnUnit * result.book.qty[j]
                       /\ 2 * Abs(InMemory(SumOver(realized[a]))
                                    - result.book.realized)
                            <= SaleSlack(result.fills)
    BY DEF AgreesWithBacktest, ClosesOf
  <2>1. /\ FillsIn(orders[r]) = result.fills /\ Tracks(BookOf(a), result)
        /\ result \in State
    BY FollowedAll
  <2>. QED
    BY <2>1, AmountsAgree
<1>. QED
  BY <1>1, AlwaysIInv, AlwaysBookInv, AlwaysBacktestInv, PTL
=============================================================================
