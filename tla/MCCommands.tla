----------------------------- MODULE MCCommands -----------------------------
(* An instance of Commands for TLC.                                         *)
EXTENDS Commands, TLC

CONSTANTS h1, h2

MCHandlers == {h1, h2}
MCSymmetry == Permutations(MCHandlers)

MCParams == [short |-> 1, long |-> 2, size |-> 1, amount |-> 1]

MCStart(ref, symbol) ==
  [Asking("paper_start_ma_cross_run", FALSE) EXCEPT
     !.ref = ref, !.symbol = symbol, !.params = MCParams]

MCCreate(name) ==
  [Asking("paper_create_account", FALSE) EXCEPT !.text = name, !.params = MCParams]

\* Of every command a request that can be executed, and some that cannot:
\* account 2 is there only once the second request for an account is through.
MCAsked ==
  {[Asking("import_legacy", FALSE) EXCEPT !.text = t] : t \in {"missing", "good"}}
    \cup {[Asking("backtest_ma_cross", j) EXCEPT !.symbol = "s", !.params = p] :
            j \in BOOLEAN, p \in {NoParams, MCParams}}
    \cup {MCCreate(name) : name \in {"good", "long"}}
    \cup {MCStart(1, "s"), MCStart(2, "s"), MCStart(1, "blank")}
    \cup {[Asking("paper_run_tick", j) EXCEPT !.ref = 1] : j \in BOOLEAN}
    \cup {[Asking("paper_run_tick", TRUE) EXCEPT !.ref = 2],
          [Asking("paper_run_tick", FALSE) EXCEPT !.text = "long"]}
    \cup {[Asking("agent_market_analysis", TRUE) EXCEPT !.symbol = "s"],
          [Asking("agent_strategy_idea", TRUE) EXCEPT !.text = "good"]}

\* Windows of 30 and the default 20 make no strategy, though each is valid.
MCIdeas == [missing : SUBSET {"thesis"}, template : {"", "ma_cross", "other"},
            evidence : BOOLEAN, unsafe : BOOLEAN, symbol : {"", "blank", "long", "s"},
            short : {<<>>, <<0>>, <<30>>}, long : {<<>>, <<30>>, <<40>>},
            size : {<<>>, <<0>>}, amount : {<<>>, <<0>>}]

\* A database in which an account and a paper run of it were created: Init
\* leads there, and every command of the instance has work to do there.
MCInit ==
  /\ rows = <<[request |-> MCCreate("good"), status |-> "succeeded", created |-> 1],
              [request |-> MCStart(1, "s"), status |-> "succeeded", created |-> 1]>>
  /\ accounts = <<[by |-> 1]>>
  /\ runs = <<[by |-> 2, symbol |-> "s", params |-> MCParams]>>
  /\ backtests = <<>> /\ agents = <<>>
  /\ stocked \in SUBSET Symbols
  /\ handler = [h \in Handlers |-> Idle]

MCSpec == MCInit /\ [][Next]_vars
=============================================================================
