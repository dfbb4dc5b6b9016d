------------------------------ MODULE MACross -------------------------------
(***************************************************************************)
(* MACrossStrategy (strategy/builtin/ma_cross.py), the one strategy the    *)
(* program may trade with: buy when the short moving average of the closes *)
(* crosses the long one upwards and nothing is held, sell all that is held *)
(* when it crosses downwards.                                              *)
(***************************************************************************)
EXTENDS Integers, Sequences, FiniteSetsExt

\* The strategy_config of a run.
Strategy == {s \in [short : Nat \ {0}, long : Nat, size : Nat \ {0}] :
               s.short < s.long}

\* The sum of the n closes that end `back` bars before the latest.
WindowSum(closes, n, back) ==
  LET last == Len(closes) - back
  IN  MapThenSumSet(LAMBDA k : closes[k], last - n + 1 .. last)

\* The sign of (short mean - long mean), without the divisions.
ShortAboveLong(s, closes, back) ==
  WindowSum(closes, s.short, back) * s.long
    - WindowSum(closes, s.long, back) * s.short

\* Faulty variant: what is already held is not looked at.
OnBarBlind(s, closes, held) ==
  IF Len(closes) < s.long + 1 THEN {}
  ELSE IF ShortAboveLong(s, closes, 1) <= 0 /\ ShortAboveLong(s, closes, 0) > 0
       THEN {[side |-> "buy", qty |-> s.size]} ELSE {}

\* The intents for the latest bar, as market orders: none or one.
OnBar(s, closes, held) ==
  {o \in {[side |-> "buy", qty |-> s.size], [side |-> "sell", qty |-> held]} :
     /\ Len(closes) >= s.long + 1
     /\ \/ /\ o.side = "buy" /\ held = 0
           /\ ShortAboveLong(s, closes, 1) <= 0 /\ ShortAboveLong(s, closes, 0) > 0
        \/ /\ o.side = "sell" /\ held > 0
           /\ ShortAboveLong(s, closes, 1) >= 0 /\ ShortAboveLong(s, closes, 0) < 0}
=============================================================================
