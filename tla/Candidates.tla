----------------------------- MODULE Candidates -----------------------------
(***************************************************************************)
(* What becomes of the answer of a language model to a strategy idea       *)
(* (agents/candidates.py): it is no candidate, or one with the request of  *)
(* an MA cross backtest that a person may submit.                          *)
(*                                                                         *)
(* A number in an answer is <<>> where it is absent and <<n>> otherwise,   *)
(* with 0 for whatever is no finite number above 0 of the form asked for.  *)
(* Of a text, only what strip() and the 32 characters of a symbol tell     *)
(* apart is kept.                                                          *)
(***************************************************************************)
EXTENDS Integers, Sequences, FiniteSets

CONSTANTS
  Symbols,        \* texts that are symbols as they stand
  RequiredFields  \* REQUIRED_FIELDS

\* "": absent or empty; "blank": only white space; "long": over 32 characters,
\* which "cut" is the beginning of.
Texts == Symbols \cup {"", "blank", "long", "cut"}

Strip(text)    == IF text = "blank" THEN "" ELSE text
Truncate(text) == IF text = "long" THEN "cut" ELSE text

Number == {s \in Seq(Nat) : Len(s) <= 1}

\* A parsed answer: the fields it lacks, the template it names, whether its
\* rules tell of a moving average cross, and whether a safety pattern matches.
Idea == [missing : SUBSET RequiredFields, template : {"", "ma_cross", "other"},
         evidence : BOOLEAN, unsafe : BOOLEAN, symbol : Texts,
         short : Number, long : Number, size : Number, amount : Number]

\* What a backtest or a paper run is asked for: the strategy's windows and
\* order size, and initial_cash or max_order_value.
Params == [short : Nat, long : Nat, size : Nat, amount : Nat]

ValidWindows(p) == p.short > 0 /\ p.long > p.short

ValidParams(p) == ValidWindows(p) /\ p.size > 0 /\ p.amount > 0

Given(number, default) == IF number = <<>> THEN default ELSE Head(number)

ParsedParams(idea) ==
  [short  |-> Given(idea.short, 5),  long   |-> Given(idea.long, 20),
   size   |-> Given(idea.size, 100), amount |-> Given(idea.amount, 100000)]

\* Faulty variant: the windows are not compared.
ParameterErrorsOneByOne(idea) ==
  LET p == ParsedParams(idea) IN {f \in DOMAIN p : p[f] = 0}

ParameterErrors(idea) ==
  LET p == ParsedParams(idea)
  IN  {f \in DOMAIN p : p[f] = 0}
        \cup {w \in {"windows"} : p.short > 0 /\ p.long > 0 /\ ~ValidWindows(p)}

\* _resolve_symbol, where "" is its None.
ResolvedSymbol(idea, requested) ==
  Truncate(IF Strip(requested) # "" THEN Strip(requested)
           ELSE Strip(idea.symbol))

TemplateErrors(idea) ==
  {t \in {"template"} : \/ idea.template = "other"
                        \/ idea.template = "" /\ ~idea.evidence}

Errors(idea, requested) ==
  idea.missing \cup TemplateErrors(idea) \cup ParameterErrors(idea)
    \cup {s \in {"symbol"} : ResolvedSymbol(idea, requested) = ""}

NoRequest == [symbol |-> "", params |-> [short |-> 0, long |-> 0, size |-> 0,
                                         amount |-> 0]]

\* An answer that is no JSON object, and so is not validated.
Narrative == [status |-> "needs_review", request |-> NoRequest]

\* validate_strategy_candidate, with backtest_request_payload as request.
Candidate(idea, requested) ==
  LET errors == Errors(idea, requested)
      unresolved == idea.template = "" /\ errors = {"template"}
  IN  IF idea.unsafe THEN [status |-> "failed", request |-> NoRequest]
      ELSE IF errors = {}
      THEN [status  |-> "passed",
            request |-> [symbol |-> ResolvedSymbol(idea, requested),
                         params |-> ParsedParams(idea)]]
      ELSE [status  |-> IF unresolved THEN "needs_review" ELSE "failed",
            request |-> NoRequest]
=============================================================================
