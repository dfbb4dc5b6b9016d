--------------------------- MODULE MCPaperBacktest --------------------------
(***************************************************************************)
(* An instance of PaperBacktest for TLC: slippage and commission are one   *)
(* tenth, and a hundredth of a digit of the columns is what they come out  *)
(* exact in, so that every price, average cost and balance is rounded.     *)
(***************************************************************************)
EXTENDS PaperBacktest

CONSTANTS i1, i2, t1, t2, r1, r2

MCInstruments == {i1, i2}
MCTickers     == {t1, t2}
MCRuns        == {r1, r2}

MCTwoBars == [i \in MCInstruments |-> <<[at |-> 1, close |-> 101],
                                        [at |-> 2, close |-> 101]>>]
MCConfig  == [r \in MCRuns |-> [short |-> 1, long |-> 2,
                               size |-> IF r = r1 THEN 1 ELSE 2]]
MCMaxOrderValue == [r \in MCRuns |-> IF r = r1 THEN 25000 ELSE 65000]
MCSymmetry == Permutations(MCTickers) \cup Permutations(MCInstruments)
=============================================================================
