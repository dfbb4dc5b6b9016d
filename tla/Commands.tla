------------------------------ MODULE Commands ------------------------------
(***************************************************************************)
(* Workflow commands: what handlers of the API (api/routes/workflows.py)   *)
(* and workers (jobs/runtime.py) do, several at a time, with one request   *)
(* each: the authentication, the validation of the request, and the        *)
(* command inside WorkflowCommandRunner.run_with_audit, up to the answer.  *)
(* The commands are those of workflows/operations.py and the two agents    *)
(* (agents/service.py); market_data_sync is in DataSync, cancellation and  *)
(* the rows of jobs are in JobRuntime, and what a tick trades is in        *)
(* PaperTrading.                                                           *)
(*                                                                         *)
(* Each transaction is a step.  Rows are never deleted; the row locks that *)
(* ticks take are in PaperTrading.                                         *)
(***************************************************************************)
EXTENDS Candidates

CONSTANTS
  Handlers,   \* handlers of the API and workers
  Asked,      \* the requests clients make, but for what a candidate proposes
  Ideas,      \* the parsed answers a language model may give
  MaxRows     \* bound on the number of workflow runs

ASSUME IdeasAssumption == Ideas \subseteq Idea
ASSUME RowsAssumption  == MaxRows \in Nat

VARIABLES
  rows,       \* workflow_runs, in order of the ids
  accounts,   \* paper_accounts
  runs,       \* paper_runs
  backtests,  \* backtest_runs
  agents,     \* agent_runs
  stocked,    \* the symbols with bars enough for any command
  handler     \* the handlers and the requests they are busy with

tables == <<accounts, runs, backtests, agents, stocked>>
vars   == <<rows, tables, handler>>

ApiOnly == {"paper_create_account", "paper_start_ma_cross_run"}
JobOnly == {"agent_market_analysis", "agent_strategy_idea"}
Command == ApiOnly \cup JobOnly
             \cup {"import_legacy", "backtest_ma_cross", "paper_run_tick"}

\* ref: the account or paper run it names; text: a name, a path, an idea, or what
\* a tick has for a run id that is no number; proposed: the agent run whose
\* candidate it was taken from, or 0.
Request == [command : Command, job : BOOLEAN, symbol : Texts, params : Params,
            ref : Nat, text : {"", "blank", "long", "missing", "good"},
            proposed : Nat]

ASSUME AskedAssumption == Asked \subseteq {q \in Request : q.proposed = 0}

NoParams == NoRequest.params

Asking(command, job) ==
  [command |-> command, job |-> job, symbol |-> "", params |-> NoParams,
   ref |-> 0, text |-> "", proposed |-> 0]

Status == {"running", "failed", "succeeded"}

Row == [request : Request, status : Status, created : Nat]

\* by: the workflow run whose command inserted the row.
Account   == [by : Nat]
PaperRun  == [by : Nat, symbol : Texts, params : Params]
Backtest  == [by : Nat, symbol : Texts, params : Params]
Verdict   == [status  : {"none", "needs_review", "failed", "passed"},
              request : [symbol : Texts, params : Params]]
AgentRun  == [by : Nat, status : Status, candidate : Verdict]

NoVerdict == [status |-> "none", request |-> NoRequest]

Pc    == {"idle", "refused", "accepted", "called", "checked", "loaded",
          "asking", "told", "agent_raised", "returned", "raised", "done"}
Free  == {"idle", "done"}
Cause == {"none", "not_found", "no_bars", "value", "other"}

\* row: its workflow run; made: the id its command returned, or its agent run;
\* loaded: what a tick read of its run; told: what the model's answer came to;
\* broken: did one of its own transactions fail?
Handler == [pc : Pc, req : Request, row : Nat, made : Nat, cause : Cause,
            loaded : Params, told : Verdict, broken : BOOLEAN,
            answer : {"none", "200", "400", "401", "404", "500",
                      "succeeded", "failed"}]

Idle == [pc |-> "idle", req |-> Asking("import_legacy", FALSE), row |-> 0,
         made |-> 0, cause |-> "none", loaded |-> NoParams, told |-> NoVerdict,
         broken |-> FALSE, answer |-> "none"]

Init ==
  /\ rows = <<>> /\ accounts = <<>> /\ runs = <<>> /\ backtests = <<>>
  /\ agents = <<>>
  /\ stocked \in SUBSET Symbols
  /\ handler = [h \in Handlers |-> Idle]

-----------------------------------------------------------------------------
(***************************************************************************)
(* The request: TokenAuthMiddleware, then the models of the routes.        *)
(***************************************************************************)
AcceptsAgent(q) ==
  IF q.command = "agent_market_analysis" THEN q.symbol \notin {"", "long"}
  ELSE q.text \notin {"", "long"} /\ q.symbol # "long"

Accepts(q) ==
  CASE q.command = "import_legacy" -> q.text # ""
    [] q.command = "backtest_ma_cross" -> q.symbol # "" /\ ValidParams(q.params)
    [] q.command = "paper_create_account" ->
         q.text \notin {"", "blank"} /\ q.params.amount > 0
    [] q.command = "paper_start_ma_cross_run" ->
         q.ref > 0 /\ q.symbol # "" /\ ValidParams(q.params)
    [] q.command = "paper_run_tick" -> q.text = ""
    [] q.command \in JobOnly -> AcceptsAgent(q)

\* The request a candidate carries that passed, submitted by a person.
ProposedBy(a, j) ==
  [Asking("backtest_ma_cross", j) EXCEPT
     !.symbol = agents[a].candidate.request.symbol,
     !.params = agents[a].candidate.request.params, !.proposed = a]

Passed == {a \in DOMAIN agents : agents[a].status = "succeeded"
                                   /\ agents[a].candidate.status = "passed"}

\* Handlers may be busy with as many requests as rows can still be inserted.
Receive(h, q) ==
  /\ handler[h].pc \in Free
  /\ Len(rows) + Cardinality({g \in Handlers : handler[g].pc \notin Free})
       < MaxRows
  /\ handler' = [handler EXCEPT ![h] = [Idle EXCEPT
                   !.req = q,
                   !.pc  = IF Accepts(q) THEN "accepted" ELSE "refused"]]
  /\ UNCHANGED <<rows, tables>>

Unauthorized(h) ==
  /\ handler[h].pc \in Free
  /\ handler' = [handler EXCEPT ![h] =
                   [Idle EXCEPT !.pc = "done", !.answer = "401"]]
  /\ UNCHANGED <<rows, tables>>

\* What a handler does next, in an EXCEPT of handler[h].
Goes(h, pc) == handler' = [handler EXCEPT ![h].pc = pc]

Raises(h, cause) ==
  handler' = [handler EXCEPT ![h].pc = "raised", ![h].cause = cause]

Returns(h, id) ==
  handler' = [handler EXCEPT ![h].pc = "returned", ![h].made = id]

\* The answer is given, and what the handler worked with is gone.
Answers(h, text) ==
  handler' = [handler EXCEPT ![h] = [Idle EXCEPT
                !.pc  = "done", !.req = handler[h].req, !.row = handler[h].row,
                !.cause = handler[h].cause, !.answer = text]]

\* A transaction of the handler's own fails, after which it does as told.
Breaks(h, pc, cause, answer) ==
  /\ handler' = [handler EXCEPT ![h].pc = pc, ![h].cause = cause,
                                ![h].answer = answer, ![h].broken = TRUE]
  /\ UNCHANGED <<rows, tables>>

\* workflow_validation_exception_handler: a refused job leaves no row.
Refuse(h) ==
  LET q == handler[h].req IN
  /\ handler[h].pc = "refused"
  /\ IF q.job THEN Answers(h, "400") /\ UNCHANGED rows
     ELSE /\ rows' = Append(rows, [request |-> Asking(q.command, FALSE),
                                   status |-> "failed", created |-> 0])
          /\ handler' = [handler EXCEPT ![h].pc = "done", ![h].answer = "400",
                                        ![h].row = Len(rows) + 1]
  /\ UNCHANGED tables

RefuseBreaks(h) ==
  /\ handler[h].pc = "refused" /\ ~handler[h].req.job
  /\ Breaks(h, "done", "other", "500")

(***************************************************************************)
(* run_with_audit, up to the call.                                         *)
(***************************************************************************)
CreateRunning(h) ==
  /\ handler[h].pc = "accepted"
  /\ rows' = Append(rows, [request |-> handler[h].req, status |-> "running",
                           created |-> 0])
  /\ handler' = [handler EXCEPT ![h].pc = "called", ![h].row = Len(rows) + 1]
  /\ UNCHANGED tables

CreateBreaks(h) ==
  /\ handler[h].pc = "accepted"
  /\ Breaks(h, "done", "other", IF handler[h].req.job THEN "failed" ELSE "500")

(***************************************************************************)
(* The operations.  Each one that inserts something does it in its last    *)
(* transaction.                                                            *)
(***************************************************************************)
Calls(h, pc, command) ==
  handler[h].pc = pc /\ handler[h].req.command = command

ImportLegacyData(h) ==
  /\ Calls(h, "called", "import_legacy")
  /\ IF handler[h].req.text # "good"
     THEN Raises(h, "not_found") /\ UNCHANGED stocked
     ELSE /\ Returns(h, 0)
          /\ \E some \in SUBSET Symbols : stocked' = stocked \cup some
  /\ UNCHANGED <<rows, accounts, runs, backtests, agents>>

\* _validate_symbol, where "" is required and "long" is too long.
BadSymbol(text) == Strip(text) \in {"", "long"}

EnsureMarketBarsExist(h) ==
  LET q == handler[h].req IN
  /\ Calls(h, "called", "backtest_ma_cross")
  /\ IF BadSymbol(q.symbol) \/ ~ValidParams(q.params) THEN Raises(h, "value")
     ELSE IF Strip(q.symbol) \notin stocked THEN Raises(h, "no_bars")
     ELSE Goes(h, "checked")
  /\ UNCHANGED <<rows, tables>>

RunMaCrossBacktest(h) ==
  LET q == handler[h].req IN
  /\ Calls(h, "checked", "backtest_ma_cross")
  /\ backtests' = Append(backtests, [by |-> handler[h].row, params |-> q.params,
                                     symbol |-> Strip(q.symbol)])
  /\ Returns(h, Len(backtests) + 1)
  /\ UNCHANGED <<rows, accounts, runs, agents, stocked>>

CreatePaperAccount(h) ==
  /\ Calls(h, "called", "paper_create_account")
  /\ IF handler[h].req.text = "long"
     THEN Raises(h, "value") /\ UNCHANGED accounts
     ELSE /\ accounts' = Append(accounts, [by |-> handler[h].row])
          /\ Returns(h, Len(accounts) + 1)
  /\ UNCHANGED <<rows, runs, backtests, agents, stocked>>

\* Faulty variant: max_order_value is not kept with the run.
StartMaCrossPaperRunDefault(h) ==
  LET q == handler[h].req IN
  /\ Calls(h, "called", "paper_start_ma_cross_run")
  /\ ~BadSymbol(q.symbol) /\ q.ref \in DOMAIN accounts
  /\ runs' = Append(runs, [by |-> handler[h].row, symbol |-> Strip(q.symbol),
                           params |-> [q.params EXCEPT !.amount = 100000]])
  /\ Returns(h, Len(runs) + 1)
  /\ UNCHANGED <<rows, accounts, backtests, agents, stocked>>

StartMaCrossPaperRun(h) ==
  LET q == handler[h].req IN
  /\ Calls(h, "called", "paper_start_ma_cross_run")
  /\ IF BadSymbol(q.symbol) \/ ~ValidParams(q.params)
     THEN Raises(h, "value") /\ UNCHANGED runs
     ELSE IF q.ref \notin DOMAIN accounts
     THEN Raises(h, "not_found") /\ UNCHANGED runs
     ELSE /\ runs' = Append(runs, [by |-> handler[h].row, params |-> q.params,
                                   symbol |-> Strip(q.symbol)])
          /\ Returns(h, Len(runs) + 1)
  /\ UNCHANGED <<rows, accounts, backtests, agents, stocked>>

LoadPaperRunCommand(h) ==
  LET r == handler[h].req.ref IN
  /\ Calls(h, "called", "paper_run_tick")
  /\ IF r \notin DOMAIN runs THEN Raises(h, "not_found")
     ELSE IF ~ValidParams(runs[r].params) THEN Raises(h, "value")
     ELSE handler' = [handler EXCEPT ![h].pc = "loaded",
                                     ![h].loaded = runs[r].params]
  /\ UNCHANGED <<rows, tables>>

RunPaperTick(h) ==
  LET r == handler[h].req.ref IN
  /\ Calls(h, "loaded", "paper_run_tick")
  /\ IF runs[r].symbol \in stocked THEN Returns(h, r) ELSE Raises(h, "no_bars")
  /\ UNCHANGED <<rows, tables>>

\* A transaction or the computation around it fails: nothing is inserted.
OperationBreaks(h) ==
  /\ handler[h].pc \in {"called", "checked", "loaded"}
  /\ Breaks(h, "raised", "other", "none")

(***************************************************************************)
(* run_market_analysis_agent and run_strategy_idea_agent: an agent run of  *)
(* its own inside the workflow run.                                        *)
(***************************************************************************)
CreateAgentRun(h) ==
  /\ handler[h].pc = "called" /\ handler[h].req.command \in JobOnly
  /\ agents' = Append(agents, [by |-> handler[h].row, status |-> "running",
                               candidate |-> NoVerdict])
  /\ handler' = [handler EXCEPT ![h].pc = "asking",
                                ![h].made = Len(agents) + 1]
  /\ UNCHANGED <<rows, accounts, runs, backtests, stocked>>

\* compute_market_metrics raises if there are no bars, or fewer than 60.
AskForAnalysis(h) ==
  /\ Calls(h, "asking", "agent_market_analysis")
  /\ handler' = [handler EXCEPT
       ![h].pc    = IF handler[h].req.symbol \in stocked
                    THEN "told" ELSE "agent_raised",
       ![h].cause = IF handler[h].req.symbol \in stocked THEN "none" ELSE "no_bars"]
  /\ UNCHANGED <<rows, tables>>

AskForStrategy(h) ==
  /\ Calls(h, "asking", "agent_strategy_idea")
  /\ \E v \in {Narrative} \cup
               {Candidate(i, Strip(handler[h].req.symbol)) : i \in Ideas} :
       handler' = [handler EXCEPT ![h].pc = "told", ![h].told = v]
  /\ UNCHANGED <<rows, tables>>

\* No API key, no answer, or an error while the answer is read or recorded.
AgentRaises(h) ==
  /\ handler[h].pc \in {"asking", "told"}
  /\ Breaks(h, "agent_raised", "other", "none")

CloseAgentRun(h, status, verdict) ==
  agents' = [agents EXCEPT ![handler[h].made].status = status,
                           ![handler[h].made].candidate = verdict]

\* Faulty variant: the status is not one the rest of the program knows.
MarkAgentSucceededCompleted(h) ==
  /\ handler[h].pc = "told"
  /\ CloseAgentRun(h, "completed", handler[h].told)
  /\ Goes(h, "returned")
  /\ UNCHANGED <<rows, accounts, runs, backtests, stocked>>

MarkAgentSucceeded(h) ==
  /\ handler[h].pc = "told"
  /\ CloseAgentRun(h, "succeeded", handler[h].told)
  /\ Goes(h, "returned")
  /\ UNCHANGED <<rows, accounts, runs, backtests, stocked>>

\* Faulty variant: the error is recorded and not raised again.
MarkAgentFailedSilently(h) ==
  /\ handler[h].pc = "agent_raised"
  /\ CloseAgentRun(h, "failed", NoVerdict)
  /\ Goes(h, "returned")
  /\ UNCHANGED <<rows, accounts, runs, backtests, stocked>>

MarkAgentFailed(h) ==
  /\ handler[h].pc = "agent_raised"
  /\ CloseAgentRun(h, "failed", NoVerdict)
  /\ Goes(h, "raised")
  /\ UNCHANGED <<rows, accounts, runs, backtests, stocked>>

MarkAgentFailedBreaks(h) ==
  /\ handler[h].pc = "agent_raised"
  /\ Breaks(h, "raised", "other", "none")

(***************************************************************************)
(* run_with_audit, after the call, and the answer: _run_command for the    *)
(* API, the verdict of execute_job_run_with_engine for a job.              *)
(***************************************************************************)
\* infer_created_object: the id the result names; none of an import or agent.
CreatedObject(h) ==
  IF handler[h].req.command \in JobOnly \cup {"import_legacy"} THEN 0
  ELSE handler[h].made

Failure(h) ==
  CASE handler[h].req.job -> "failed"
    [] ~handler[h].req.job /\ handler[h].cause = "not_found" -> "404"
    [] ~handler[h].req.job /\ handler[h].cause \in {"value", "no_bars"} -> "400"
    [] OTHER -> "500"

CloseRow(h, status, created) ==
  rows' = [rows EXCEPT ![handler[h].row].status = status,
                       ![handler[h].row].created = created]

\* Faulty variant: the newest row of the table is taken for the one created.
MarkSucceededNewest(h) ==
  /\ handler[h].pc = "returned"
  /\ CloseRow(h, "succeeded",
              CASE handler[h].req.command = "paper_create_account" -> Len(accounts)
                [] handler[h].req.command = "paper_start_ma_cross_run" -> Len(runs)
                [] handler[h].req.command = "backtest_ma_cross" -> Len(backtests)
                [] OTHER -> CreatedObject(h))
  /\ Answers(h, IF handler[h].req.job THEN "succeeded" ELSE "200")
  /\ UNCHANGED tables

MarkSucceeded(h) ==
  /\ handler[h].pc = "returned"
  /\ CloseRow(h, "succeeded", CreatedObject(h))
  /\ Answers(h, IF handler[h].req.job THEN "succeeded" ELSE "200")
  /\ UNCHANGED tables

\* Faulty variant: only a ValueError is recorded as a failure.
MarkFailedValueErrors(h) ==
  /\ handler[h].pc = "raised"
  /\ IF handler[h].cause = "not_found" THEN UNCHANGED rows
     ELSE CloseRow(h, "failed", 0)
  /\ Answers(h, Failure(h))
  /\ UNCHANGED tables

MarkFailed(h) ==
  /\ handler[h].pc = "raised"
  /\ CloseRow(h, "failed", 0)
  /\ Answers(h, Failure(h))
  /\ UNCHANGED tables

CloseBreaks(h) ==
  /\ handler[h].pc \in {"returned", "raised"}
  /\ Breaks(h, "done", "other", IF handler[h].req.job THEN "failed" ELSE "500")

\* The process dies; another one takes its place.
Dies(h) ==
  /\ handler[h].pc \notin Free
  /\ handler' = [handler EXCEPT ![h] = Idle]
  /\ UNCHANGED <<rows, tables>>

-----------------------------------------------------------------------------
Handle(h) ==
  \/ Refuse(h) \/ CreateRunning(h)
  \/ ImportLegacyData(h) \/ EnsureMarketBarsExist(h) \/ RunMaCrossBacktest(h)
  \/ CreatePaperAccount(h) \/ StartMaCrossPaperRun(h)
  \/ LoadPaperRunCommand(h) \/ RunPaperTick(h)
  \/ CreateAgentRun(h) \/ AskForAnalysis(h) \/ AskForStrategy(h)
  \/ MarkAgentSucceeded(h) \/ MarkAgentFailed(h)
  \/ MarkSucceeded(h) \/ MarkFailed(h)

Fails(h) ==
  \/ RefuseBreaks(h) \/ CreateBreaks(h) \/ OperationBreaks(h)
  \/ AgentRaises(h) \/ MarkAgentFailedBreaks(h) \/ CloseBreaks(h) \/ Dies(h)

Next ==
  \E h \in Handlers :
    \/ \E q \in Asked : Receive(h, q)
    \/ \E a \in Passed, j \in BOOLEAN : Receive(h, ProposedBy(a, j))
    \/ Unauthorized(h) \/ Handle(h) \/ Fails(h)

Spec == Init /\ [][Next]_vars

-----------------------------------------------------------------------------
TypeOK ==
  /\ rows      \in Seq(Row)
  /\ accounts  \in Seq(Account)
  /\ runs      \in Seq(PaperRun)
  /\ backtests \in Seq(Backtest)
  /\ agents    \in Seq(AgentRun)
  /\ stocked   \in SUBSET Symbols
  /\ handler   \in [Handlers -> Handler]

(***************************************************************************)
(* A workflow run tells the truth about the data: one that failed inserted *)
(* no account, paper run or backtest, and one that succeeded names the     *)
(* very row its own command inserted, however many commands insert rows of *)
(* that kind at once.                                                      *)
(***************************************************************************)
InsertedIn(table, command) ==
  \A r \in DOMAIN rows :
    LET mine == {i \in DOMAIN table : table[i].by = r}
    IN  /\ rows[r].status = "failed" => mine = {}
        /\ rows[r].status = "succeeded" /\ rows[r].request.command = command
             => mine = {rows[r].created}

AuditIsTrue ==
  /\ InsertedIn(accounts, "paper_create_account")
  /\ InsertedIn(runs, "paper_start_ma_cross_run")
  /\ InsertedIn(backtests, "backtest_ma_cross")

(***************************************************************************)
(* The answer a client gets agrees with the workflow run: success only of  *)
(* one that succeeded, and a failure, unless the database failed under the *)
(* handler itself, of one that is closed as failed; what the credentials   *)
(* or a job's validation stopped left no workflow run.                     *)
(***************************************************************************)
AnswerIsTrue ==
  \A h \in Handlers : handler[h].pc = "done" =>
    LET w == handler[h]
    IN  \/ w.answer = "401" /\ w.row = 0
        \/ w.answer = "400" /\ w.req.job /\ w.row = 0
        \/ w.answer \in {"200", "succeeded"} /\ rows[w.row].status = "succeeded"
        \/ w.answer \in {"400", "404", "500", "failed"} /\ w.row # 0
             /\ rows[w.row].status = "failed"
        \/ w.answer \in {"500", "failed"} /\ w.broken

(***************************************************************************)
(* The two records of an agent's work agree: a workflow run succeeded only *)
(* if its agent run did, and none failed whose agent run succeeded.        *)
(***************************************************************************)
AgentAgreesWithAudit ==
  \A r \in DOMAIN rows : rows[r].request.command \in JobOnly =>
    LET mine == {agents[a].status : a \in {b \in DOMAIN agents : agents[b].by = r}}
    IN  /\ rows[r].status = "succeeded" => mine = {"succeeded"}
        /\ rows[r].status = "failed" => "succeeded" \notin mine

(***************************************************************************)
(* What was run is what was asked for: the parameters and the symbol of a  *)
(* backtest, of a paper run, and of every tick of it, in a process of its  *)
(* own, are those of the request that the workflow run recorded.           *)
(***************************************************************************)
RunAsRequested ==
  /\ \A table \in {runs, backtests} : \A i \in DOMAIN table :
       LET asked == rows[table[i].by].request
       IN  table[i].params = asked.params /\ table[i].symbol = Strip(asked.symbol)
  /\ \A h \in Handlers :
       /\ handler[h].pc = "loaded" =>
            handler[h].loaded = rows[runs[handler[h].req.ref].by].request.params
       /\ handler[h].req.command = "paper_run_tick" => handler[h].cause # "value"

(***************************************************************************)
(* A candidate that passed can be backtested: the request the agent made   *)
(* of it is accepted by the API and by the backtest, which fails of it for *)
(* want of bars or because something breaks, never for its contents.       *)
(***************************************************************************)
PassedCandidateRuns ==
  \A h \in Handlers : handler[h].req.proposed # 0 =>
    handler[h].pc # "refused" /\ handler[h].cause \notin {"value", "not_found"}
=============================================================================
