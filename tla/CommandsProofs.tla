--------------------------- MODULE CommandsProofs ----------------------------
(***************************************************************************)
(* Proofs about Commands, for every set of handlers, requests, symbols and *)
(* answers of a language model, and any number of workflow runs.           *)
(***************************************************************************)
EXTENDS Commands, SequenceTheorems, TLAPS

-----------------------------------------------------------------------------
(***************************************************************************)
(* The strengthening.  A handler inside run_with_audit owns a workflow run *)
(* that is "running" and records its request, and what it has inserted so  *)
(* far follows from its place; nobody else touches either.                 *)
(***************************************************************************)
Mine(table, r) == {i \in DOMAIN table : table[i].by = r}

Open == {"called", "checked", "loaded", "asking", "told", "agent_raised",
         "returned", "raised"}

Made(table, command, w) ==
  Mine(table, w.row) = IF w.pc = "returned" /\ w.req.command = command
                       THEN {w.made} ELSE {}

AgentMade(w) ==
  /\ w.pc \in {"called", "checked", "loaded"} => Mine(agents, w.row) = {}
  /\ w.pc \in {"asking", "told", "agent_raised"} =>
       Mine(agents, w.row) = {w.made} /\ agents[w.made].status = "running"
  /\ w.pc = "returned" /\ w.req.command \in JobOnly =>
       Mine(agents, w.row) = {w.made} /\ agents[w.made].status = "succeeded"
  /\ w.pc = "raised" =>
       \A a \in Mine(agents, w.row) : agents[a].status # "succeeded"

Owns(w) ==
  w.pc \in Open =>
    /\ w.row \in DOMAIN rows
    /\ rows[w.row].status = "running" /\ rows[w.row].request = w.req
    /\ Made(accounts, "paper_create_account", w)
    /\ Made(runs, "paper_start_ma_cross_run", w)
    /\ Made(backtests, "backtest_ma_cross", w)
    /\ AgentMade(w)

Place(w) ==
  /\ w.pc \in {"idle", "refused", "accepted"} => w.row = 0
  /\ w.pc \in {"asking", "told", "agent_raised"} => w.req.command \in JobOnly
  /\ w.pc = "checked" => w.req.command = "backtest_ma_cross"
  /\ w.pc = "loaded" => /\ w.req.command = "paper_run_tick"
                        /\ w.req.ref \in DOMAIN runs
                        /\ w.loaded = runs[w.req.ref].params
  /\ w.req.command = "paper_run_tick" => w.cause # "value"

\* A request of a backtest that nothing refuses.
Sound(q) == q.symbol \notin {"", "blank", "long"} /\ ValidParams(q.params)

Proposal(w) ==
  /\ w.told.status = "passed" => Sound(w.told.request)
  /\ w.req.proposed # 0 =>
       /\ w.req.command = "backtest_ma_cross" /\ Sound(w.req)
       /\ w.pc # "refused" /\ w.cause \notin {"value", "not_found"}

Answered(w) ==
  w.pc = "done" =>
    \/ w.answer = "401" /\ w.row = 0
    \/ w.answer = "400" /\ w.req.job /\ w.row = 0
    \/ /\ w.answer \in {"200", "succeeded"} /\ w.row \in DOMAIN rows
       /\ rows[w.row].status = "succeeded"
    \/ /\ w.answer \in {"400", "404", "500", "failed"} /\ w.row \in DOMAIN rows
       /\ rows[w.row].status = "failed"
    \/ w.answer \in {"500", "failed"} /\ w.broken

HandlerInv(w) == Owns(w) /\ Place(w) /\ Proposal(w) /\ Answered(w)

Apart ==
  \A g, h \in Handlers : g # h /\ handler[g].pc \in Open /\ handler[h].pc \in Open
    => handler[g].row # handler[h].row

\* What a closed workflow run says of the tables.
Says(table, command, r) ==
  /\ rows[r].status = "failed" => Mine(table, r) = {}
  /\ rows[r].status = "succeeded" /\ rows[r].request.command = command
       => Mine(table, r) = {rows[r].created}

AgentSays(r) ==
  /\ rows[r].status = "succeeded" /\ rows[r].request.command \in JobOnly =>
       /\ Mine(agents, r) # {}
       /\ \A a \in Mine(agents, r) : agents[a].status = "succeeded"
  /\ rows[r].status = "failed" =>
       \A a \in Mine(agents, r) : agents[a].status # "succeeded"

RowInv(r) ==
  /\ Says(accounts, "paper_create_account", r)
  /\ Says(runs, "paper_start_ma_cross_run", r)
  /\ Says(backtests, "backtest_ma_cross", r)
  /\ AgentSays(r)

AsAsked(e) ==
  /\ e.params = rows[e.by].request.params
  /\ e.symbol = Strip(rows[e.by].request.symbol)

TablesInv ==
  /\ \A i \in DOMAIN accounts : accounts[i].by \in DOMAIN rows
  /\ \A i \in DOMAIN agents : agents[i].by \in DOMAIN rows
  /\ \A i \in DOMAIN backtests :
       backtests[i].by \in DOMAIN rows /\ AsAsked(backtests[i])
  /\ \A i \in DOMAIN runs : /\ runs[i].by \in DOMAIN rows /\ AsAsked(runs[i])
                            /\ ValidParams(runs[i].params)
  /\ \A i \in DOMAIN agents : agents[i].candidate.status = "passed" =>
                                Sound(agents[i].candidate.request)

IInv == /\ TypeOK /\ TablesInv /\ Apart
        /\ \A r \in DOMAIN rows : RowInv(r)
        /\ \A h \in Handlers : HandlerInv(handler[h])

-----------------------------------------------------------------------------
(***************************************************************************)
(* Candidates: what validate_strategy_candidate makes of an answer.        *)
(***************************************************************************)
LEMMA GivenIsNat ==
  ASSUME NEW s \in Number, NEW d \in Nat
  PROVE  Given(s, d) \in Nat
<1>1. CASE s = <<>>
  BY <1>1 DEF Given
<1>2. CASE s # <<>>
  <2>1. Head(s) \in Nat
    BY <1>2, HeadTailProperties DEF Number
  <2>. QED
    BY <1>2, <2>1 DEF Given
<1>. QED
  BY <1>1, <1>2

LEMMA ParsedIsTyped ==
  ASSUME NEW idea \in Idea
  PROVE  ParsedParams(idea) \in Params
<1>1. /\ idea.short \in Number /\ idea.long \in Number
      /\ idea.size \in Number /\ idea.amount \in Number
  BY DEF Idea
<1>2. /\ Given(idea.short, 5) \in Nat /\ Given(idea.long, 20) \in Nat
      /\ Given(idea.size, 100) \in Nat /\ Given(idea.amount, 100000) \in Nat
  BY <1>1, GivenIsNat
<1>. QED
  BY <1>2 DEF ParsedParams, Params

LEMMA TextsClosed ==
  ASSUME NEW text \in Texts
  PROVE  Strip(text) \in Texts /\ Truncate(text) \in Texts
BY DEF Strip, Truncate, Texts

LEMMA NoneTyped ==
  NoParams \in Params /\ NoRequest \in [symbol : Texts, params : Params]
  /\ NoVerdict \in Verdict /\ NoVerdict.status = "none"
BY DEF NoParams, NoRequest, Params, Texts, NoVerdict, Verdict

LEMMA CandidateFacts ==
  ASSUME NEW idea \in Idea, NEW text \in Texts
  PROVE  /\ Candidate(idea, text) \in Verdict
         /\ Candidate(idea, text).status = "passed"
              => Sound(Candidate(idea, text).request)
<1>. DEFINE p == ParsedParams(idea)
            s == ResolvedSymbol(idea, text)
            q == [symbol |-> s, params |-> p]
            c == Candidate(idea, text)
<1>1. p \in Params
  BY ParsedIsTyped
<1>2. s \in Texts
  <2>1. idea.symbol \in Texts
    BY DEF Idea
  <2>. QED
    BY <2>1, TextsClosed DEF ResolvedSymbol
<1>3. s \notin {"blank", "long"}
  BY DEF ResolvedSymbol, Strip, Truncate
<1>4. ASSUME Errors(idea, text) = {}
      PROVE  Sound(q)
  <2>1. s # ""
    BY <1>4 DEF Errors
  <2>2. ParameterErrors(idea) = {}
    BY <1>4 DEF Errors
  <2>3. DOMAIN p = {"short", "long", "size", "amount"}
    BY DEF ParsedParams
  <2>4. \A f \in DOMAIN p : p[f] # 0
    BY <2>2 DEF ParameterErrors
  <2>5. p.short # 0 /\ p.long # 0 /\ p.size # 0 /\ p.amount # 0
    BY <2>3, <2>4
  <2>6. p.short \in Nat /\ p.long \in Nat /\ p.size \in Nat /\ p.amount \in Nat
    BY <1>1 DEF Params
  <2>7. ~(p.short > 0 /\ p.long > 0 /\ ~ValidWindows(p))
    BY <2>2 DEF ParameterErrors
  <2>8. ValidParams(p)
    BY <2>5, <2>6, <2>7 DEF ValidParams
  <2>. QED
    BY <1>3, <2>1, <2>8 DEF Sound
<1>5. q \in [symbol : Texts, params : Params]
  BY <1>1, <1>2
<1>6. \/ c = [status |-> "passed", request |-> q] /\ Errors(idea, text) = {}
      \/ c = [status |-> "needs_review", request |-> NoRequest]
      \/ c = [status |-> "failed", request |-> NoRequest]
  BY DEF Candidate
<1>. HIDE DEF c, q
<1>. QED
  BY <1>4, <1>5, <1>6, NoneTyped DEF Verdict, c

-----------------------------------------------------------------------------
(***************************************************************************)
(* What a step of one handler leaves alone: rho is the workflow run it     *)
(* works for, or the one it inserts.  Tables only grow, by what rho        *)
(* inserts; of the workflow runs and agent runs there are, only rho and    *)
(* its own change.                                                         *)
(***************************************************************************)
Grows(rho, T, U) ==
  /\ DOMAIN T \subseteq DOMAIN U
  /\ \A i \in DOMAIN T : U[i].by = T[i].by
  /\ \A i \in DOMAIN U \ DOMAIN T : U[i].by = rho

Frame(rho) ==
  /\ DOMAIN rows \subseteq DOMAIN rows'
  /\ \A r \in DOMAIN rows \ {rho} : rows'[r] = rows[r]
  /\ DOMAIN rows' \subseteq DOMAIN rows \cup {rho}
  /\ Grows(rho, accounts, accounts')
  /\ Grows(rho, runs, runs') /\ \A i \in DOMAIN runs : runs'[i] = runs[i]
  /\ Grows(rho, backtests, backtests')
  /\ Grows(rho, agents, agents')
  /\ \A i \in DOMAIN agents : agents[i].by # rho => agents'[i] = agents[i]

LEMMA MineKept ==
  ASSUME NEW rho, NEW T, NEW U, Grows(rho, T, U), NEW r, r # rho
  PROVE  Mine(U, r) = Mine(T, r)
BY DEF Grows, Mine

LEMMA MineFrame ==
  ASSUME NEW rho, Frame(rho), NEW r, r # rho
  PROVE  /\ Mine(accounts, r)' = Mine(accounts, r)
         /\ Mine(runs, r)' = Mine(runs, r)
         /\ Mine(backtests, r)' = Mine(backtests, r)
         /\ Mine(agents, r)' = Mine(agents, r)
         /\ \A a \in Mine(agents, r) : agents'[a] = agents[a]
<1>1. /\ Mine(accounts', r) = Mine(accounts, r) /\ Mine(runs', r) = Mine(runs, r)
      /\ Mine(backtests', r) = Mine(backtests, r)
      /\ Mine(agents', r) = Mine(agents, r)
  BY MineKept DEF Frame
<1>2. \A a \in Mine(agents, r) : agents'[a] = agents[a]
  BY DEF Frame, Mine
<1>. QED
  BY <1>1, <1>2 DEF Mine

\* A row that the step is not about says what it said.
LEMMA RowKept ==
  ASSUME NEW rho, Frame(rho), NEW r \in DOMAIN rows, r # rho, RowInv(r)
  PROVE  RowInv(r)'
<1>1. rows'[r] = rows[r]
  BY DEF Frame
<1>. QED
  BY <1>1, MineFrame DEF RowInv, Says, AgentSays

\* A handler that is not the one of the step is not disturbed.
LEMMA HandlerKept ==
  ASSUME NEW rho, Frame(rho), NEW g \in Handlers, handler'[g] = handler[g],
         HandlerInv(handler[g]),
         handler[g].pc \in Open => handler[g].row # rho,
         rho \in DOMAIN rows => rows[rho].status = "running"
  PROVE  HandlerInv(handler[g])'
<1>. DEFINE w == handler[g]
<1>1. Owns(w)'
  <2>. SUFFICES ASSUME w.pc \in Open PROVE Owns(w)'
    BY DEF Owns
  <2>1. Owns(w) /\ w.row \in DOMAIN rows /\ w.row # rho /\ rows'[w.row] = rows[w.row]
        /\ w.row \in DOMAIN rows'
    BY DEF HandlerInv, Owns, Frame
  <2>2. /\ Mine(accounts, w.row)' = Mine(accounts, w.row)
        /\ Mine(runs, w.row)' = Mine(runs, w.row)
        /\ Mine(backtests, w.row)' = Mine(backtests, w.row)
        /\ Mine(agents, w.row)' = Mine(agents, w.row)
        /\ \A a \in Mine(agents, w.row) : agents'[a] = agents[a]
    <3>1. PICK r : r = w.row
      OBVIOUS
    <3>2. r # rho /\ w.row' = r
      BY <2>1, <3>1
    <3>3. /\ Mine(accounts, r)' = Mine(accounts, r)
          /\ Mine(runs, r)' = Mine(runs, r)
          /\ Mine(backtests, r)' = Mine(backtests, r)
          /\ Mine(agents, r)' = Mine(agents, r)
          /\ \A a \in Mine(agents, r) : agents'[a] = agents[a]
      BY <3>2, MineFrame
    <3>. QED
      BY <3>1, <3>2, <3>3 DEF Mine
  <2>3. AgentMade(w)'
    BY <2>1, <2>2 DEF Owns, AgentMade
  <2>. QED
    BY <2>1, <2>2, <2>3 DEF Owns, Made
<1>2. Place(w)'
  BY DEF HandlerInv, Place, Frame, Grows
<1>3. Proposal(w)'
  BY DEF HandlerInv, Proposal
<1>4. Answered(w)'
  <2>1. \A r \in DOMAIN rows : rows[r].status # "running" =>
          r \in DOMAIN rows' /\ rows'[r] = rows[r]
    BY DEF Frame
  <2>. QED
    BY <2>1 DEF HandlerInv, Answered
<1>. QED
  BY <1>1, <1>2, <1>3, <1>4 DEF HandlerInv

(***************************************************************************)
(* A step of one handler keeps the invariant if it stays in its frame and  *)
(* keeps the handler's own part, the tables' part, and, if rho is closed   *)
(* then, what rho says.                                                    *)
(***************************************************************************)
LEMMA OneHandler ==
  ASSUME IInv, NEW h \in Handlers, NEW rho, Frame(rho),
         \A g \in Handlers \ {h} : handler'[g] = handler[g],
         \/ rho \notin DOMAIN rows
         \/ handler[h].pc \in Open /\ handler[h].row = rho,
         handler'[h].pc \in Open => handler'[h].row = rho,
         TypeOK', TablesInv', HandlerInv(handler[h])',
         rho \in DOMAIN rows' => RowInv(rho)'
  PROVE  IInv'
<1>1. rho \in DOMAIN rows => rows[rho].status = "running"
  BY DEF IInv, HandlerInv, Owns
<1>2. \A g \in Handlers \ {h} : handler[g].pc \in Open => handler[g].row # rho
  BY DEF IInv, HandlerInv, Owns, Apart
<1>3. Apart'
  BY <1>2 DEF IInv, Apart
<1>4. ASSUME NEW g \in Handlers PROVE HandlerInv(handler[g])'
  <2>1. CASE g = h
    BY <2>1
  <2>2. CASE g # h
    <3>1. HandlerInv(handler[g])
      BY DEF IInv
    <3>. QED
      BY <1>1, <1>2, <2>2, <3>1, HandlerKept
  <2>. QED
    BY <2>1, <2>2
<1>5. ASSUME NEW r \in DOMAIN rows' PROVE RowInv(r)'
  <2>1. CASE r = rho
    BY <2>1
  <2>2. CASE r # rho
    <3>1. r \in DOMAIN rows
      BY <2>2 DEF Frame
    <3>2. RowInv(r)
      BY <3>1 DEF IInv
    <3>. QED
      BY <2>2, <3>1, <3>2, RowKept
  <2>. QED
    BY <2>1, <2>2
<1>. QED
  BY <1>3, <1>4, <1>5 DEF IInv

-----------------------------------------------------------------------------
LEMMA AskingTyped ==
  ASSUME NEW c \in Command, NEW j \in BOOLEAN
  PROVE  Asking(c, j) \in Request /\ Asking(c, j).proposed = 0
         /\ Asking(c, j).command = c /\ Asking(c, j).job = j
BY NoneTyped DEF Asking, Request, Texts

LEMMA IdleFacts ==
  /\ Idle \in Handler /\ Idle.pc = "idle" /\ Idle.row = 0
  /\ Idle.req.proposed = 0 /\ Idle.told.status = "none" /\ Idle.cause = "none"
  /\ Idle.req.command = "import_legacy" /\ HandlerInv(Idle)
<1>1. /\ Asking("import_legacy", FALSE) \in Request
      /\ Asking("import_legacy", FALSE).proposed = 0
      /\ Asking("import_legacy", FALSE).command = "import_legacy"
  BY AskingTyped DEF Command
<1>2. /\ Idle.pc = "idle" /\ Idle.row = 0 /\ Idle.told = NoVerdict
      /\ Idle.req = Asking("import_legacy", FALSE) /\ Idle.cause = "none"
  BY DEF Idle
<1>3. Idle \in Handler
  BY <1>1, NoneTyped DEF Idle, Handler, Pc, Cause
<1>4. HandlerInv(Idle)
  BY <1>1, <1>2, NoneTyped
  DEF HandlerInv, Owns, Open, Place, Proposal, Answered
<1>. QED
  BY <1>1, <1>2, <1>3, <1>4, NoneTyped

LEMMA InitInv == Init => IInv
<1>. SUFFICES ASSUME Init PROVE IInv
  OBVIOUS
<1>1. TypeOK
  BY IdleFacts DEF Init, TypeOK
<1>2. TablesInv
  BY DEF Init, TablesInv
<1>3. \A h \in Handlers : handler[h] = Idle
  BY DEF Init
<1>4. Apart
  BY <1>3, IdleFacts DEF Apart, Open
<1>5. \A r \in DOMAIN rows : RowInv(r)
  BY DEF Init
<1>. QED
  BY <1>1, <1>2, <1>3, <1>4, <1>5, IdleFacts DEF IInv

(***************************************************************************)
(* A step that writes no row of any table.                                 *)
(***************************************************************************)
LEMMA LocalStep ==
  ASSUME IInv, NEW h \in Handlers, NEW w \in Handler,
         UNCHANGED <<rows, accounts, runs, backtests, agents>>,
         stocked' \in SUBSET Symbols, handler' = [handler EXCEPT ![h] = w],
         HandlerInv(w),
         w.pc \in Open => handler[h].pc \in Open /\ w.row = handler[h].row
  PROVE  IInv'
<1>1. PICK rho : rho = IF handler[h].pc \in Open THEN handler[h].row ELSE 0
  OBVIOUS
<1>2. handler'[h] = w /\ \A g \in Handlers \ {h} : handler'[g] = handler[g]
  BY DEF IInv, TypeOK
<1>3. TypeOK'
  BY DEF IInv, TypeOK
<1>4. Frame(rho)
  BY DEF Frame, Grows
<1>5. TablesInv'
  BY DEF IInv, TablesInv, AsAsked
<1>6. HandlerInv(handler[h])'
  <2>1. HandlerInv(handler'[h])
    BY <1>2
  <2>. QED
    BY <2>1 DEF HandlerInv, Owns, Made, AgentMade, Mine, Place, Proposal, Answered
<1>7. rho \in DOMAIN rows' => RowInv(rho)'
  BY DEF IInv, RowInv, Says, AgentSays, Mine
<1>8. \/ rho \notin DOMAIN rows
      \/ handler[h].pc \in Open /\ handler[h].row = rho
  <2>1. 0 \notin DOMAIN rows
    BY DEF IInv, TypeOK
  <2>. QED
    BY <1>1, <2>1
<1>. QED
  BY <1>1, <1>2, <1>3, <1>4, <1>5, <1>6, <1>7, <1>8, OneHandler

-----------------------------------------------------------------------------
(***************************************************************************)
(* Requests.                                                               *)
(***************************************************************************)
LEMMA ReceiveStep ==
  ASSUME IInv, NEW h \in Handlers, NEW q \in Request, Receive(h, q),
         q.proposed # 0 => q.command = "backtest_ma_cross" /\ Sound(q)
  PROVE  IInv'
<1>. DEFINE w == [Idle EXCEPT !.req = q,
                              !.pc  = IF Accepts(q) THEN "accepted" ELSE "refused"]
<1>1. /\ w \in Handler /\ w.req = q /\ w.row = 0 /\ w.told.status = "none"
      /\ w.cause = "none" /\ w.pc \in {"accepted", "refused"}
      /\ w.pc = "refused" => ~Accepts(q)
  BY IdleFacts DEF Handler, Pc
<1>2. q.proposed # 0 => Accepts(q)
  BY DEF Accepts, JobOnly, Sound
<1>3. handler' = [handler EXCEPT ![h] = w]
  BY DEF Receive
<1>4. UNCHANGED <<rows, accounts, runs, backtests, agents, stocked>>
  BY DEF Receive, tables
<1>. HIDE DEF w
<1>5. HandlerInv(w)
  BY <1>1, <1>2 DEF HandlerInv, Owns, Open, Place, Proposal, Answered
<1>6. w.pc \notin Open
  BY <1>1 DEF Open
<1>. QED
  BY <1>1, <1>3, <1>4, <1>5, <1>6, LocalStep DEF IInv, TypeOK

LEMMA AskedStep ==
  ASSUME IInv, NEW h \in Handlers, NEW q \in Asked, Receive(h, q)
  PROVE  IInv'
<1>1. q \in Request /\ q.proposed = 0
  BY AskedAssumption
<1>. QED
  BY <1>1, ReceiveStep

LEMMA ProposedStep ==
  ASSUME IInv, NEW h \in Handlers, NEW a \in Passed, NEW j \in BOOLEAN,
         Receive(h, ProposedBy(a, j))
  PROVE  IInv'
<1>. DEFINE c == agents[a].candidate.request
            b == Asking("backtest_ma_cross", j)
            q == [b EXCEPT !.symbol = c.symbol, !.params = c.params, !.proposed = a]
<1>1. a \in Nat /\ agents[a] \in AgentRun /\ agents[a].candidate.status = "passed"
  BY ElementOfSeq DEF Passed, IInv, TypeOK
<1>2. c.symbol \in Texts /\ c.params \in Params
  BY <1>1 DEF AgentRun, Verdict
<1>3. Sound(c)
  BY <1>1 DEF Passed, IInv, TablesInv
<1>4. b \in Request /\ b.command = "backtest_ma_cross"
  BY AskingTyped DEF Command
<1>5. q = ProposedBy(a, j)
  BY DEF ProposedBy
<1>. HIDE DEF b, c
<1>6. /\ q \in Request /\ q.command = "backtest_ma_cross" /\ q.symbol = c.symbol
      /\ q.params = c.params
  BY <1>1, <1>2, <1>4 DEF Request
<1>. HIDE DEF q
<1>7. Sound(q)
  BY <1>3, <1>6 DEF Sound
<1>. QED
  BY <1>5, <1>6, <1>7, ReceiveStep

LEMMA UnauthorizedStep ==
  ASSUME IInv, NEW h \in Handlers, Unauthorized(h)
  PROVE  IInv'
<1>. DEFINE w == [Idle EXCEPT !.pc = "done", !.answer = "401"]
<1>1. /\ w \in Handler /\ w.req = Idle.req /\ w.row = 0 /\ w.told = Idle.told
      /\ w.cause = Idle.cause /\ w.pc = "done" /\ w.answer = "401"
  BY IdleFacts DEF Handler, Pc
<1>2. handler' = [handler EXCEPT ![h] = w]
      /\ UNCHANGED <<rows, accounts, runs, backtests, agents, stocked>>
  BY DEF Unauthorized, tables
<1>. HIDE DEF w
<1>3. HandlerInv(w)
  BY <1>1, IdleFacts DEF HandlerInv, Owns, Open, Place, Proposal, Answered
<1>4. w.pc \notin Open
  BY <1>1 DEF Open
<1>. QED
  BY <1>1, <1>2, <1>3, <1>4, LocalStep DEF IInv, TypeOK

LEMMA DiesStep ==
  ASSUME IInv, NEW h \in Handlers, Dies(h)
  PROVE  IInv'
<1>1. handler' = [handler EXCEPT ![h] = Idle]
      /\ UNCHANGED <<rows, accounts, runs, backtests, agents, stocked>>
  BY DEF Dies, tables
<1>2. Idle.pc \notin Open
  BY IdleFacts DEF Open
<1>. QED
  BY <1>1, <1>2, IdleFacts, LocalStep DEF IInv, TypeOK

-----------------------------------------------------------------------------
(***************************************************************************)
(* Something of the handler's own fails.                                   *)
(***************************************************************************)
LEMMA BreaksStep ==
  ASSUME IInv, NEW h \in Handlers, NEW pc, NEW answer,
         Breaks(h, pc, "other", answer), pc \in Pc,
         answer \in {"none", "500", "failed"},
         handler[h].pc \notin Free,
         \/ pc = "done" /\ answer # "none"
         \/ pc = "agent_raised" /\ handler[h].pc \in {"asking", "told"}
         \/ /\ pc = "raised"
            /\ handler[h].pc \in {"called", "checked", "loaded", "agent_raised"}
  PROVE  IInv'
<1>. DEFINE v == handler[h]
            w == [v EXCEPT !.pc = pc, !.cause = "other", !.answer = answer,
                           !.broken = TRUE]
<1>1. v \in Handler /\ HandlerInv(v)
  BY DEF IInv, TypeOK
<1>2. /\ w \in Handler /\ w.pc = pc /\ w.cause = "other" /\ w.answer = answer
      /\ w.broken /\ w.req = v.req /\ w.row = v.row /\ w.made = v.made
      /\ w.told = v.told
  BY <1>1 DEF Handler, Cause
<1>3. handler' = [handler EXCEPT ![h] = w]
      /\ UNCHANGED <<rows, accounts, runs, backtests, agents, stocked>>
  BY DEF Breaks, tables, IInv, TypeOK
<1>. HIDE DEF w
<1>4. Owns(w)
  BY <1>1, <1>2 DEF HandlerInv, Owns, Open, Made, AgentMade
<1>5. Place(w) /\ Proposal(w) /\ Answered(w)
  BY <1>1, <1>2 DEF HandlerInv, Place, Proposal, Answered
<1>6. w.pc \in Open => v.pc \in Open
  BY <1>2 DEF Open
<1>. QED
  BY <1>2, <1>3, <1>4, <1>5, <1>6, LocalStep DEF IInv, TypeOK, HandlerInv

LEMMA FailsStep ==
  ASSUME IInv, NEW h \in Handlers, Fails(h)
  PROVE  IInv'
<1>1. CASE RefuseBreaks(h)
  BY <1>1, BreaksStep DEF RefuseBreaks, Pc, Free
<1>2. CASE CreateBreaks(h)
  BY <1>2, BreaksStep DEF CreateBreaks, Pc, Free
<1>3. CASE OperationBreaks(h)
  BY <1>3, BreaksStep DEF OperationBreaks, Pc, Free
<1>4. CASE AgentRaises(h)
  BY <1>4, BreaksStep DEF AgentRaises, Pc, Free
<1>5. CASE MarkAgentFailedBreaks(h)
  BY <1>5, BreaksStep DEF MarkAgentFailedBreaks, Pc, Free
<1>6. CASE CloseBreaks(h)
  BY <1>6, BreaksStep DEF CloseBreaks, Pc, Free
<1>. QED
  BY <1>1, <1>2, <1>3, <1>4, <1>5, <1>6, DiesStep DEF Fails

-----------------------------------------------------------------------------
(***************************************************************************)
(* Steps of an operation that insert nothing.  What the handler owns stays *)
(* as it is if it goes on, raises before it asked a model, or returns from *)
(* a command that inserts nothing.                                         *)
(***************************************************************************)
Inserting == {"paper_create_account", "paper_start_ma_cross_run",
              "backtest_ma_cross"} \cup JobOnly

LEMMA GoesOn ==
  ASSUME IInv, NEW h \in Handlers, NEW w \in Handler,
         UNCHANGED <<rows, accounts, runs, backtests, agents>>,
         stocked' \in SUBSET Symbols, handler' = [handler EXCEPT ![h] = w],
         w.req = handler[h].req, w.row = handler[h].row,
         \/ /\ handler[h].pc \in {"called", "checked", "loaded"}
            /\ w.pc \in {"checked", "loaded", "raised"}
         \/ /\ handler[h].pc \in {"called", "checked", "loaded"}
            /\ w.pc = "returned" /\ w.req.command \notin Inserting
         \/ /\ handler[h].pc = "asking" /\ w.pc \in {"told", "agent_raised"}
            /\ w.made = handler[h].made,
         Place(w), Proposal(w)
  PROVE  IInv'
<1>. DEFINE v == handler[h]
<1>1. HandlerInv(v)
  BY DEF IInv
<1>2. Owns(w)
  BY <1>1 DEF HandlerInv, Owns, Open, Made, AgentMade, Inserting
<1>3. Answered(w)
  BY DEF Answered
<1>4. w.pc \in Open => v.pc \in Open
  BY DEF Open
<1>. QED
  BY <1>2, <1>3, <1>4, LocalStep DEF HandlerInv

LEMMA ImportStep ==
  ASSUME IInv, NEW h \in Handlers, ImportLegacyData(h)
  PROVE  IInv'
<1>. DEFINE v == handler[h]
            w1 == [v EXCEPT !.pc = "raised", !.cause = "not_found"]
            w2 == [v EXCEPT !.pc = "returned", !.made = 0]
<1>1. v \in Handler /\ HandlerInv(v) /\ v.pc = "called"
      /\ v.req.command = "import_legacy"
  BY DEF IInv, TypeOK, ImportLegacyData, Calls
<1>2. UNCHANGED <<rows, accounts, runs, backtests, agents>>
  BY DEF ImportLegacyData
<1>3. CASE handler' = [handler EXCEPT ![h] = w1] /\ stocked' = stocked
  <2>1. /\ w1 \in Handler /\ w1.req = v.req /\ w1.row = v.row /\ w1.pc = "raised"
        /\ w1.told = v.told
    BY <1>1 DEF Handler, Pc, Cause
  <2>. HIDE DEF w1
  <2>2. Place(w1) /\ Proposal(w1)
    BY <1>1, <2>1 DEF HandlerInv, Place, Proposal
  <2>. QED
    BY <1>1, <1>2, <1>3, <2>1, <2>2, GoesOn DEF IInv, TypeOK
<1>4. CASE handler' = [handler EXCEPT ![h] = w2] /\ stocked' \in SUBSET Symbols
  <2>1. /\ w2 \in Handler /\ w2.req = v.req /\ w2.row = v.row /\ w2.pc = "returned"
        /\ w2.told = v.told /\ w2.cause = v.cause
    BY <1>1 DEF Handler, Pc
  <2>. HIDE DEF w2
  <2>2. Place(w2) /\ Proposal(w2)
    BY <1>1, <2>1 DEF HandlerInv, Place, Proposal
  <2>3. w2.req.command \notin Inserting
    BY <1>1, <2>1 DEF Inserting, JobOnly
  <2>. QED
    BY <1>1, <1>2, <1>4, <2>1, <2>2, <2>3, GoesOn
<1>5. stocked \in SUBSET Symbols
  BY DEF IInv, TypeOK
<1>6. \/ handler' = [handler EXCEPT ![h] = w1] /\ stocked' = stocked
      \/ handler' = [handler EXCEPT ![h] = w2] /\ stocked' \in SUBSET Symbols
  BY <1>5 DEF ImportLegacyData, Raises, Returns, IInv, TypeOK
<1>. QED
  BY <1>3, <1>4, <1>6

LEMMA EnsureStep ==
  ASSUME IInv, NEW h \in Handlers, EnsureMarketBarsExist(h)
  PROVE  IInv'
<1>. DEFINE v == handler[h]
            bad == BadSymbol(v.req.symbol) \/ ~ValidParams(v.req.params)
            W(pc, cause) == [v EXCEPT !.pc = pc, !.cause = cause]
<1>1. v \in Handler /\ HandlerInv(v) /\ v.pc = "called"
      /\ v.req.command = "backtest_ma_cross"
  BY DEF IInv, TypeOK, EnsureMarketBarsExist, Calls
<1>2. UNCHANGED <<rows, accounts, runs, backtests, agents, stocked>>
  BY DEF EnsureMarketBarsExist, tables
<1>3. PICK pc, cause : /\ handler' = [handler EXCEPT ![h] = W(pc, cause)]
                       /\ \/ pc = "raised" /\ cause = "value" /\ bad
                          \/ pc = "raised" /\ cause = "no_bars"
                          \/ pc = "checked" /\ cause = v.cause
  <2>1. \/ handler' = [handler EXCEPT ![h] = W("raised", "value")] /\ bad
        \/ handler' = [handler EXCEPT ![h] = W("raised", "no_bars")]
        \/ handler' = [handler EXCEPT ![h] = W("checked", v.cause)]
    BY <1>1 DEF EnsureMarketBarsExist, Raises, Goes, IInv, TypeOK, Handler
  <2>. QED
    BY <2>1
<1>4. v.req.proposed # 0 => ~bad
  BY <1>1 DEF HandlerInv, Proposal, Sound, BadSymbol, Strip
<1>. DEFINE w == W(pc, cause)
<1>5. /\ w \in Handler /\ w.req = v.req /\ w.row = v.row /\ w.pc = pc
      /\ w.told = v.told /\ w.cause = cause
  BY <1>1, <1>3 DEF Handler, Pc, Cause
<1>6. handler' = [handler EXCEPT ![h] = w]
  BY <1>3
<1>. HIDE DEF w, bad
<1>7. Place(w) /\ Proposal(w)
  BY <1>1, <1>3, <1>4, <1>5 DEF HandlerInv, Place, Proposal
<1>. QED
  BY <1>1, <1>2, <1>3, <1>5, <1>6, <1>7, GoesOn DEF IInv, TypeOK

LEMMA LoadStep ==
  ASSUME IInv, NEW h \in Handlers, LoadPaperRunCommand(h)
  PROVE  IInv'
<1>. DEFINE v == handler[h]
            r == v.req.ref
            w1 == [v EXCEPT !.pc = "raised", !.cause = "not_found"]
            w2 == [v EXCEPT !.pc = "loaded", !.loaded = runs[r].params]
<1>1. v \in Handler /\ HandlerInv(v) /\ v.pc = "called"
      /\ v.req.command = "paper_run_tick"
  BY DEF IInv, TypeOK, LoadPaperRunCommand, Calls
<1>2. UNCHANGED <<rows, accounts, runs, backtests, agents, stocked>>
  BY DEF LoadPaperRunCommand, tables
<1>3. CASE r \notin DOMAIN runs
  <2>1. handler' = [handler EXCEPT ![h] = w1]
    BY <1>3 DEF LoadPaperRunCommand, Raises, IInv, TypeOK
  <2>2. /\ w1 \in Handler /\ w1.req = v.req /\ w1.row = v.row /\ w1.pc = "raised"
        /\ w1.told = v.told /\ w1.cause = "not_found"
    BY <1>1 DEF Handler, Pc, Cause
  <2>. HIDE DEF w1
  <2>3. Place(w1) /\ Proposal(w1)
    BY <1>1, <2>2 DEF HandlerInv, Place, Proposal
  <2>. QED
    BY <1>1, <1>2, <2>1, <2>2, <2>3, GoesOn DEF IInv, TypeOK
<1>4. CASE r \in DOMAIN runs
  <2>1. ValidParams(runs[r].params) /\ runs[r].params \in Params
    <3>1. runs[r] \in PaperRun
      BY <1>4, ElementOfSeq DEF IInv, TypeOK
    <3>. QED
      BY <1>4, <3>1 DEF IInv, TablesInv, PaperRun
  <2>2. handler' = [handler EXCEPT ![h] = w2]
    BY <1>4, <2>1 DEF LoadPaperRunCommand, IInv, TypeOK
  <2>3. /\ w2 \in Handler /\ w2.req = v.req /\ w2.row = v.row /\ w2.pc = "loaded"
        /\ w2.told = v.told /\ w2.cause = v.cause /\ w2.loaded = runs[r].params
    BY <1>1, <2>1 DEF Handler, Pc
  <2>. HIDE DEF w2
  <2>4. Place(w2) /\ Proposal(w2)
    BY <1>1, <1>4, <2>3 DEF HandlerInv, Place, Proposal
  <2>. QED
    BY <1>1, <1>2, <2>2, <2>3, <2>4, GoesOn DEF IInv, TypeOK
<1>. QED
  BY <1>3, <1>4

LEMMA TickStep ==
  ASSUME IInv, NEW h \in Handlers, RunPaperTick(h)
  PROVE  IInv'
<1>. DEFINE v == handler[h]
            w1 == [v EXCEPT !.pc = "raised", !.cause = "no_bars"]
            w2 == [v EXCEPT !.pc = "returned", !.made = v.req.ref]
<1>1. v \in Handler /\ HandlerInv(v) /\ v.pc = "loaded"
      /\ v.req.command = "paper_run_tick" /\ v.req.ref \in Nat
  BY DEF IInv, TypeOK, RunPaperTick, Calls, Handler, Request
<1>2. UNCHANGED <<rows, accounts, runs, backtests, agents, stocked>>
  BY DEF RunPaperTick, tables
<1>3. CASE handler' = [handler EXCEPT ![h] = w1]
  <2>1. /\ w1 \in Handler /\ w1.req = v.req /\ w1.row = v.row /\ w1.pc = "raised"
        /\ w1.told = v.told /\ w1.cause = "no_bars"
    BY <1>1 DEF Handler, Pc, Cause
  <2>. HIDE DEF w1
  <2>2. Place(w1) /\ Proposal(w1)
    BY <1>1, <2>1 DEF HandlerInv, Place, Proposal
  <2>. QED
    BY <1>1, <1>2, <1>3, <2>1, <2>2, GoesOn DEF IInv, TypeOK
<1>4. CASE handler' = [handler EXCEPT ![h] = w2]
  <2>1. /\ w2 \in Handler /\ w2.req = v.req /\ w2.row = v.row /\ w2.pc = "returned"
        /\ w2.told = v.told /\ w2.cause = v.cause
    BY <1>1 DEF Handler, Pc
  <2>. HIDE DEF w2
  <2>2. Place(w2) /\ Proposal(w2)
    BY <1>1, <2>1 DEF HandlerInv, Place, Proposal
  <2>3. w2.req.command \notin Inserting
    BY <1>1, <2>1 DEF Inserting, JobOnly
  <2>. QED
    BY <1>1, <1>2, <1>4, <2>1, <2>2, <2>3, GoesOn DEF IInv, TypeOK
<1>5. handler' = [handler EXCEPT ![h] = w1] \/ handler' = [handler EXCEPT ![h] = w2]
  BY DEF RunPaperTick, Raises, Returns, IInv, TypeOK
<1>. QED
  BY <1>3, <1>4, <1>5

-----------------------------------------------------------------------------
(***************************************************************************)
(* A language model is asked.                                              *)
(***************************************************************************)
LEMMA AnalysisStep ==
  ASSUME IInv, NEW h \in Handlers, AskForAnalysis(h)
  PROVE  IInv'
<1>. DEFINE v == handler[h]
            W(pc, cause) == [v EXCEPT !.pc = pc, !.cause = cause]
<1>1. v \in Handler /\ HandlerInv(v) /\ v.pc = "asking"
      /\ v.req.command = "agent_market_analysis"
  BY DEF IInv, TypeOK, AskForAnalysis, Calls
<1>2. UNCHANGED <<rows, accounts, runs, backtests, agents, stocked>>
  BY DEF AskForAnalysis, tables
<1>3. PICK pc, cause : /\ handler' = [handler EXCEPT ![h] = W(pc, cause)]
                       /\ pc \in {"told", "agent_raised"}
                       /\ cause \in {"none", "no_bars"}
  <2>1. \/ handler' = [handler EXCEPT ![h] = W("told", "none")]
        \/ handler' = [handler EXCEPT ![h] = W("agent_raised", "no_bars")]
    <3>1. CASE v.req.symbol \in stocked
      BY <1>1, <3>1 DEF AskForAnalysis, IInv, TypeOK
    <3>2. CASE v.req.symbol \notin stocked
      BY <1>1, <3>2 DEF AskForAnalysis, IInv, TypeOK
    <3>. QED
      BY <3>1, <3>2
  <2>. QED
    BY <2>1
<1>. DEFINE w == W(pc, cause)
<1>4. /\ w \in Handler /\ w.req = v.req /\ w.row = v.row /\ w.pc = pc
      /\ w.told = v.told /\ w.cause = cause /\ w.made = v.made
  BY <1>1, <1>3 DEF Handler, Pc, Cause
<1>5. handler' = [handler EXCEPT ![h] = w]
  BY <1>3
<1>. HIDE DEF w
<1>6. Place(w) /\ Proposal(w)
  BY <1>1, <1>3, <1>4 DEF HandlerInv, Place, Proposal, JobOnly
<1>. QED
  BY <1>1, <1>2, <1>3, <1>4, <1>5, <1>6, GoesOn DEF IInv, TypeOK

LEMMA StrategyStep ==
  ASSUME IInv, NEW h \in Handlers, AskForStrategy(h)
  PROVE  IInv'
<1>. DEFINE v == handler[h]
            W(told) == [v EXCEPT !.pc = "told", !.told = told]
<1>1. v \in Handler /\ HandlerInv(v) /\ v.pc = "asking"
      /\ v.req.command = "agent_strategy_idea" /\ v.req.symbol \in Texts
  BY DEF IInv, TypeOK, AskForStrategy, Calls, Handler, Request
<1>2. UNCHANGED <<rows, accounts, runs, backtests, agents, stocked>>
  BY DEF AskForStrategy, tables
<1>3. PICK told \in {Narrative} \cup
                    {Candidate(i, Strip(v.req.symbol)) : i \in Ideas} :
        handler' = [handler EXCEPT ![h] = W(told)]
  BY <1>1 DEF AskForStrategy, IInv, TypeOK
<1>4. told \in Verdict /\ (told.status = "passed" => Sound(told.request))
  <2>1. CASE told = Narrative
    BY <2>1, NoneTyped DEF Narrative, Verdict
  <2>2. ASSUME NEW i \in Ideas, told = Candidate(i, Strip(v.req.symbol))
        PROVE  told \in Verdict /\ (told.status = "passed" => Sound(told.request))
    <3>1. i \in Idea /\ Strip(v.req.symbol) \in Texts
      BY <1>1, IdeasAssumption, TextsClosed
    <3>. QED
      BY <2>2, <3>1, CandidateFacts
  <2>. QED
    BY <1>3, <2>1, <2>2
<1>. DEFINE w == W(told)
<1>5. /\ w \in Handler /\ w.req = v.req /\ w.row = v.row /\ w.pc = "told"
      /\ w.told = told /\ w.cause = v.cause /\ w.made = v.made
  BY <1>1, <1>4 DEF Handler, Pc
<1>6. handler' = [handler EXCEPT ![h] = w]
  BY <1>3
<1>. HIDE DEF w
<1>7. Place(w) /\ Proposal(w)
  BY <1>1, <1>4, <1>5 DEF HandlerInv, Place, Proposal, JobOnly
<1>. QED
  BY <1>1, <1>2, <1>5, <1>6, <1>7, GoesOn DEF IInv, TypeOK

-----------------------------------------------------------------------------
(***************************************************************************)
(* Insertions.                                                             *)
(***************************************************************************)
LEMMA AppendFacts ==
  ASSUME NEW S, NEW T \in Seq(S), NEW e \in S, NEW n, n = Len(T) + 1,
         NEW U, U = Append(T, e)
  PROVE  /\ U \in Seq(S) /\ DOMAIN U = DOMAIN T \cup {n} /\ n \notin DOMAIN T
         /\ U[n] = e /\ \A i \in DOMAIN T : U[i] = T[i]
         /\ n \in Nat \ {0} /\ n = Len(U)
<1>1. /\ U \in Seq(S) /\ Len(U) = n /\ U[n] = e /\ Len(T) \in Nat
      /\ \A i \in 1 .. Len(T) : U[i] = T[i]
  BY AppendProperties
<1>2. DOMAIN U = 1 .. n /\ DOMAIN T = 1 .. Len(T)
  BY <1>1
<1>. QED
  BY <1>1, <1>2

(***************************************************************************)
(* A handler inserts a row of a table of its own command and returns, or   *)
(* an agent run and goes on to ask the model.                              *)
(***************************************************************************)
LEMMA InsertStep ==
  ASSUME IInv, NEW h \in Handlers, NEW rho, rho = handler[h].row,
         handler[h].pc \in {"called", "checked"}, rows' = rows, Frame(rho),
         TypeOK', TablesInv',
         NEW w, handler' = [handler EXCEPT ![h] = w],
         w.req = handler[h].req, w.row = rho, w.told = handler[h].told,
         w.cause = handler[h].cause,
         \/ w.pc = "returned" /\ w.req.command \notin JobOnly
         \/ /\ w.pc = "asking" /\ w.req.command \in JobOnly
            /\ Mine(agents', rho) = {w.made} /\ agents'[w.made].status = "running",
         Made(accounts', "paper_create_account", w),
         Made(runs', "paper_start_ma_cross_run", w),
         Made(backtests', "backtest_ma_cross", w)
  PROVE  IInv'
<1>. DEFINE v == handler[h]
<1>1. HandlerInv(v) /\ v.pc \in Open /\ w.pc \in Open
  BY DEF IInv, Open
<1>2. /\ rho \in DOMAIN rows /\ rows[rho].status = "running"
      /\ rows[rho].request = v.req
  BY <1>1 DEF HandlerInv, Owns
<1>3. handler'[h] = w /\ \A g \in Handlers \ {h} : handler'[g] = handler[g]
  BY DEF IInv, TypeOK
<1>4. Owns(v)'
  <2>1. Made(accounts, "paper_create_account", v)'
        /\ Made(runs, "paper_start_ma_cross_run", v)'
        /\ Made(backtests, "backtest_ma_cross", v)'
    BY <1>3 DEF Made, Mine
  <2>2. AgentMade(v)'
    BY <1>3 DEF AgentMade, Mine
  <2>. QED
    BY <1>2, <1>3, <2>1, <2>2 DEF Owns
<1>5. Place(v)' /\ Proposal(v)' /\ Answered(v)'
  BY <1>1, <1>3 DEF HandlerInv, Place, Proposal, Answered
<1>6. HandlerInv(v)'
  BY <1>4, <1>5 DEF HandlerInv
<1>7. RowInv(rho)'
  BY <1>2 DEF RowInv, Says, AgentSays
<1>. QED
  BY <1>1, <1>3, <1>6, <1>7, OneHandler

LEMMA AccountStep ==
  ASSUME IInv, NEW h \in Handlers, CreatePaperAccount(h)
  PROVE  IInv'
<1>. DEFINE v == handler[h]
            n == Len(accounts) + 1
            w1 == [v EXCEPT !.pc = "raised", !.cause = "value"]
            w2 == [v EXCEPT !.pc = "returned", !.made = n]
<1>1. v \in Handler /\ HandlerInv(v) /\ v.pc = "called"
      /\ v.req.command = "paper_create_account"
  BY DEF IInv, TypeOK, CreatePaperAccount, Calls
<1>2. UNCHANGED <<rows, runs, backtests, agents, stocked>>
  BY DEF CreatePaperAccount
<1>3. CASE v.req.text = "long"
  <2>1. handler' = [handler EXCEPT ![h] = w1] /\ accounts' = accounts
    BY <1>3 DEF CreatePaperAccount, Raises, IInv, TypeOK
  <2>2. /\ w1 \in Handler /\ w1.req = v.req /\ w1.row = v.row /\ w1.pc = "raised"
        /\ w1.told = v.told
    BY <1>1 DEF Handler, Pc, Cause
  <2>. HIDE DEF w1
  <2>3. Place(w1) /\ Proposal(w1)
    BY <1>1, <2>2 DEF HandlerInv, Place, Proposal
  <2>. QED
    BY <1>1, <1>2, <2>1, <2>2, <2>3, GoesOn DEF IInv, TypeOK
<1>4. CASE v.req.text # "long"
  <2>1. PICK rho : rho = v.row
    OBVIOUS
  <2>. DEFINE e == [by |-> rho]
  <2>2. rho \in DOMAIN rows /\ rho \in Nat
    BY <1>1, <2>1 DEF HandlerInv, Owns, Open, IInv, TypeOK
  <2>3. handler' = [handler EXCEPT ![h] = w2] /\ accounts' = Append(accounts, e)
    BY <1>4, <2>1 DEF CreatePaperAccount, Returns, IInv, TypeOK
  <2>4. e \in Account /\ e.by = rho /\ accounts \in Seq(Account)
    BY <2>2 DEF Account, IInv, TypeOK
  <2>. HIDE DEF e, n
  <2>5. /\ accounts' \in Seq(Account) /\ DOMAIN accounts' = DOMAIN accounts \cup {n}
        /\ accounts'[n] = e /\ \A i \in DOMAIN accounts : accounts'[i] = accounts[i]
        /\ n \in Nat /\ n \notin DOMAIN accounts
    BY <2>3, <2>4, AppendFacts DEF n
  <2>6. Grows(rho, accounts, accounts')
        /\ Mine(accounts', rho) = Mine(accounts, rho) \cup {n}
    BY <2>4, <2>5 DEF Grows, Mine
  <2>7. /\ w2 \in Handler /\ w2.pc = "returned" /\ w2.made = n /\ w2.req = v.req
        /\ w2.row = rho /\ w2.told = v.told /\ w2.cause = v.cause
    BY <1>1, <2>1, <2>5 DEF Handler, Pc
  <2>. HIDE DEF w2
  <2>8. Frame(rho)
    BY <1>2, <2>6 DEF Frame, Grows
  <2>9. TypeOK'
    BY <1>2, <2>3, <2>5, <2>7 DEF IInv, TypeOK
  <2>10. TablesInv'
    BY <1>2, <2>2, <2>4, <2>5 DEF IInv, TablesInv, AsAsked
  <2>11. /\ Mine(accounts, rho) = {} /\ Mine(runs, rho) = {}
         /\ Mine(backtests, rho) = {}
    BY <1>1, <2>1 DEF HandlerInv, Owns, Open, Made
  <2>12. /\ Made(accounts', "paper_create_account", w2)
         /\ Made(runs', "paper_start_ma_cross_run", w2)
         /\ Made(backtests', "backtest_ma_cross", w2)
         /\ w2.req.command \notin JobOnly
    BY <1>1, <1>2, <2>6, <2>7, <2>11 DEF Made, JobOnly
  <2>. QED
    BY <1>1, <1>2, <2>1, <2>3, <2>7, <2>8, <2>9, <2>10, <2>12, InsertStep
<1>. QED
  BY <1>3, <1>4

LEMMA BacktestStep ==
  ASSUME IInv, NEW h \in Handlers, RunMaCrossBacktest(h)
  PROVE  IInv'
<1>. DEFINE v == handler[h]
            n == Len(backtests) + 1
            w == [v EXCEPT !.pc = "returned", !.made = n]
<1>1. v \in Handler /\ HandlerInv(v) /\ v.pc = "checked" /\ v.req \in Request
      /\ v.req.command = "backtest_ma_cross"
  BY DEF IInv, TypeOK, RunMaCrossBacktest, Calls, Handler
<1>2. UNCHANGED <<rows, accounts, runs, agents, stocked>>
  BY DEF RunMaCrossBacktest
<1>3. PICK rho : rho = v.row
  OBVIOUS
<1>. DEFINE e == [by |-> rho, params |-> v.req.params, symbol |-> Strip(v.req.symbol)]
<1>4. rho \in DOMAIN rows /\ rho \in Nat /\ rows[rho].request = v.req
  BY <1>1, <1>3 DEF HandlerInv, Owns, Open, IInv, TypeOK
<1>5. handler' = [handler EXCEPT ![h] = w] /\ backtests' = Append(backtests, e)
  BY <1>3 DEF RunMaCrossBacktest, Returns, IInv, TypeOK
<1>6. /\ e \in Backtest /\ e.by = rho /\ e.params = v.req.params
      /\ e.symbol = Strip(v.req.symbol) /\ backtests \in Seq(Backtest)
  <2>1. v.req.params \in Params /\ v.req.symbol \in Texts
    BY <1>1 DEF Request
  <2>. QED
    BY <1>4, <2>1, TextsClosed DEF Backtest, IInv, TypeOK
<1>. HIDE DEF e, n
<1>7. /\ backtests' \in Seq(Backtest) /\ DOMAIN backtests' = DOMAIN backtests \cup {n}
      /\ backtests'[n] = e /\ n \in Nat /\ n \notin DOMAIN backtests
      /\ \A i \in DOMAIN backtests : backtests'[i] = backtests[i]
  BY <1>5, <1>6, AppendFacts DEF n
<1>8. Grows(rho, backtests, backtests')
      /\ Mine(backtests', rho) = Mine(backtests, rho) \cup {n}
  BY <1>6, <1>7 DEF Grows, Mine
<1>9. /\ w \in Handler /\ w.pc = "returned" /\ w.made = n /\ w.req = v.req
      /\ w.row = rho /\ w.told = v.told /\ w.cause = v.cause
  BY <1>1, <1>3, <1>7 DEF Handler, Pc
<1>. HIDE DEF w
<1>10. Frame(rho)
  BY <1>2, <1>8 DEF Frame, Grows
<1>11. TypeOK'
  BY <1>2, <1>5, <1>7, <1>9 DEF IInv, TypeOK
<1>12. TablesInv'
  BY <1>2, <1>4, <1>6, <1>7 DEF IInv, TablesInv, AsAsked
<1>13. /\ Mine(accounts, rho) = {} /\ Mine(runs, rho) = {}
       /\ Mine(backtests, rho) = {}
  BY <1>1, <1>3 DEF HandlerInv, Owns, Open, Made
<1>14. /\ Made(accounts', "paper_create_account", w)
       /\ Made(runs', "paper_start_ma_cross_run", w)
       /\ Made(backtests', "backtest_ma_cross", w)
       /\ w.req.command \notin JobOnly
  BY <1>1, <1>2, <1>8, <1>9, <1>13 DEF Made, JobOnly
<1>. QED
  BY <1>1, <1>2, <1>3, <1>5, <1>9, <1>10, <1>11, <1>12, <1>14, InsertStep

LEMMA StartStep ==
  ASSUME IInv, NEW h \in Handlers, StartMaCrossPaperRun(h)
  PROVE  IInv'
<1>. DEFINE v == handler[h]
            n == Len(runs) + 1
            W(cause) == [v EXCEPT !.pc = "raised", !.cause = cause]
            w == [v EXCEPT !.pc = "returned", !.made = n]
            bad == BadSymbol(v.req.symbol) \/ ~ValidParams(v.req.params)
<1>1. v \in Handler /\ HandlerInv(v) /\ v.pc = "called" /\ v.req \in Request
      /\ v.req.command = "paper_start_ma_cross_run"
  BY DEF IInv, TypeOK, StartMaCrossPaperRun, Calls, Handler
<1>2. UNCHANGED <<rows, accounts, backtests, agents, stocked>>
  BY DEF StartMaCrossPaperRun
<1>3. CASE bad \/ v.req.ref \notin DOMAIN accounts
  <2>1. PICK cause \in {"value", "not_found"} :
          handler' = [handler EXCEPT ![h] = W(cause)] /\ runs' = runs
    BY <1>3 DEF StartMaCrossPaperRun, Raises, IInv, TypeOK
  <2>. DEFINE x == W(cause)
  <2>2. /\ x \in Handler /\ x.req = v.req /\ x.row = v.row /\ x.pc = "raised"
        /\ x.told = v.told
    BY <1>1, <2>1 DEF Handler, Pc, Cause
  <2>3. handler' = [handler EXCEPT ![h] = x]
    BY <2>1
  <2>. HIDE DEF x
  <2>4. Place(x) /\ Proposal(x)
    BY <1>1, <2>2 DEF HandlerInv, Place, Proposal
  <2>. QED
    BY <1>1, <1>2, <2>1, <2>2, <2>3, <2>4, GoesOn DEF IInv, TypeOK
<1>4. CASE ~bad /\ v.req.ref \in DOMAIN accounts
  <2>1. PICK rho : rho = v.row
    OBVIOUS
  <2>. DEFINE e == [by |-> rho, params |-> v.req.params,
                    symbol |-> Strip(v.req.symbol)]
  <2>2. rho \in DOMAIN rows /\ rho \in Nat /\ rows[rho].request = v.req
    BY <1>1, <2>1 DEF HandlerInv, Owns, Open, IInv, TypeOK
  <2>3. handler' = [handler EXCEPT ![h] = w] /\ runs' = Append(runs, e)
    BY <1>4, <2>1 DEF StartMaCrossPaperRun, Returns, IInv, TypeOK
  <2>4. /\ e \in PaperRun /\ e.by = rho /\ e.params = v.req.params
        /\ e.symbol = Strip(v.req.symbol) /\ runs \in Seq(PaperRun)
        /\ ValidParams(e.params)
    <3>1. v.req.params \in Params /\ v.req.symbol \in Texts
      BY <1>1 DEF Request
    <3>. QED
      BY <1>4, <2>2, <3>1, TextsClosed DEF PaperRun, IInv, TypeOK
  <2>. HIDE DEF e, n
  <2>5. /\ runs' \in Seq(PaperRun) /\ DOMAIN runs' = DOMAIN runs \cup {n}
        /\ runs'[n] = e /\ n \in Nat /\ n \notin DOMAIN runs
        /\ \A i \in DOMAIN runs : runs'[i] = runs[i]
    BY <2>3, <2>4, AppendFacts DEF n
  <2>6. Grows(rho, runs, runs') /\ Mine(runs', rho) = Mine(runs, rho) \cup {n}
    BY <2>4, <2>5 DEF Grows, Mine
  <2>7. /\ w \in Handler /\ w.pc = "returned" /\ w.made = n /\ w.req = v.req
        /\ w.row = rho /\ w.told = v.told /\ w.cause = v.cause
    BY <1>1, <2>1, <2>5 DEF Handler, Pc
  <2>. HIDE DEF w
  <2>8. Frame(rho)
    BY <1>2, <2>5, <2>6 DEF Frame, Grows
  <2>9. TypeOK'
    BY <1>2, <2>3, <2>5, <2>7 DEF IInv, TypeOK
  <2>10. TablesInv'
    BY <1>2, <2>2, <2>4, <2>5 DEF IInv, TablesInv, AsAsked
  <2>11. /\ Mine(accounts, rho) = {} /\ Mine(runs, rho) = {}
         /\ Mine(backtests, rho) = {}
    BY <1>1, <2>1 DEF HandlerInv, Owns, Open, Made
  <2>12. /\ Made(accounts', "paper_create_account", w)
         /\ Made(runs', "paper_start_ma_cross_run", w)
         /\ Made(backtests', "backtest_ma_cross", w)
         /\ w.req.command \notin JobOnly
    BY <1>1, <1>2, <2>6, <2>7, <2>11 DEF Made, JobOnly
  <2>. QED
    BY <1>1, <1>2, <2>1, <2>3, <2>7, <2>8, <2>9, <2>10, <2>12, InsertStep
<1>. QED
  BY <1>3, <1>4

LEMMA AgentRunStep ==
  ASSUME IInv, NEW h \in Handlers, CreateAgentRun(h)
  PROVE  IInv'
<1>. DEFINE v == handler[h]
            n == Len(agents) + 1
            w == [v EXCEPT !.pc = "asking", !.made = n]
<1>1. v \in Handler /\ HandlerInv(v) /\ v.pc = "called" /\ v.req.command \in JobOnly
  BY DEF IInv, TypeOK, CreateAgentRun
<1>2. UNCHANGED <<rows, accounts, runs, backtests, stocked>>
  BY DEF CreateAgentRun
<1>3. PICK rho : rho = v.row
  OBVIOUS
<1>. DEFINE e == [by |-> rho, status |-> "running", candidate |-> NoVerdict]
<1>4. rho \in DOMAIN rows /\ rho \in Nat
  BY <1>1, <1>3 DEF HandlerInv, Owns, Open, IInv, TypeOK
<1>5. handler' = [handler EXCEPT ![h] = w] /\ agents' = Append(agents, e)
  BY <1>3 DEF CreateAgentRun, IInv, TypeOK
<1>6. /\ e \in AgentRun /\ e.by = rho /\ e.status = "running"
      /\ e.candidate.status # "passed" /\ agents \in Seq(AgentRun)
  BY <1>4, NoneTyped DEF AgentRun, Status, IInv, TypeOK
<1>. HIDE DEF e, n
<1>7. /\ agents' \in Seq(AgentRun) /\ DOMAIN agents' = DOMAIN agents \cup {n}
      /\ agents'[n] = e /\ n \in Nat /\ n \notin DOMAIN agents
      /\ \A i \in DOMAIN agents : agents'[i] = agents[i]
  BY <1>5, <1>6, AppendFacts DEF n
<1>8. Grows(rho, agents, agents') /\ Mine(agents', rho) = Mine(agents, rho) \cup {n}
  BY <1>6, <1>7 DEF Grows, Mine
<1>9. /\ w \in Handler /\ w.pc = "asking" /\ w.made = n /\ w.req = v.req
      /\ w.row = rho /\ w.told = v.told /\ w.cause = v.cause
  BY <1>1, <1>3, <1>7 DEF Handler, Pc
<1>. HIDE DEF w
<1>10. Frame(rho)
  BY <1>2, <1>7, <1>8 DEF Frame, Grows
<1>11. TypeOK'
  BY <1>2, <1>5, <1>7, <1>9 DEF IInv, TypeOK
<1>12. TablesInv'
  BY <1>2, <1>4, <1>6, <1>7 DEF IInv, TablesInv, AsAsked
<1>13. /\ Mine(accounts, rho) = {} /\ Mine(runs, rho) = {}
       /\ Mine(backtests, rho) = {} /\ Mine(agents, rho) = {}
  BY <1>1, <1>3 DEF HandlerInv, Owns, Open, Made, AgentMade
<1>14. /\ Made(accounts', "paper_create_account", w)
       /\ Made(runs', "paper_start_ma_cross_run", w)
       /\ Made(backtests', "backtest_ma_cross", w)
       /\ Mine(agents', rho) = {w.made} /\ agents'[w.made].status = "running"
  BY <1>2, <1>6, <1>7, <1>8, <1>9, <1>13 DEF Made
<1>. QED
  BY <1>1, <1>2, <1>3, <1>5, <1>9, <1>10, <1>11, <1>12, <1>14, InsertStep

-----------------------------------------------------------------------------
(***************************************************************************)
(* Workflow runs are inserted and closed.                                  *)
(***************************************************************************)
LEMMA NewRow ==
  ASSUME IInv, NEW rho, rho = Len(rows) + 1, NEW e \in Row,
         rows' = Append(rows, e), UNCHANGED tables
  PROVE  /\ rows' \in Seq(Row) /\ DOMAIN rows' = DOMAIN rows \cup {rho}
         /\ rows'[rho] = e /\ rho \in Nat /\ rho \notin DOMAIN rows
         /\ Frame(rho) /\ TablesInv'
         /\ Mine(accounts, rho) = {} /\ Mine(runs, rho) = {}
         /\ Mine(backtests, rho) = {} /\ Mine(agents, rho) = {}
<1>1. rows \in Seq(Row) /\ UNCHANGED <<accounts, runs, backtests, agents, stocked>>
  BY DEF IInv, TypeOK, tables
<1>2. /\ rows' \in Seq(Row) /\ DOMAIN rows' = DOMAIN rows \cup {rho}
      /\ rows'[rho] = e /\ rho \in Nat /\ rho \notin DOMAIN rows
      /\ \A r \in DOMAIN rows : rows'[r] = rows[r]
  BY <1>1, AppendFacts
<1>3. Frame(rho)
  BY <1>1, <1>2 DEF Frame, Grows
<1>4. TablesInv'
  BY <1>1, <1>2 DEF IInv, TablesInv, AsAsked
<1>5. /\ Mine(accounts, rho) = {} /\ Mine(runs, rho) = {}
      /\ Mine(backtests, rho) = {} /\ Mine(agents, rho) = {}
  BY <1>2 DEF IInv, TablesInv, Mine
<1>. QED
  BY <1>2, <1>3, <1>4, <1>5

LEMMA CreateStep ==
  ASSUME IInv, NEW h \in Handlers, CreateRunning(h)
  PROVE  IInv'
<1>. DEFINE v == handler[h]
            w == [v EXCEPT !.pc = "called", !.row = Len(rows) + 1]
            e == [request |-> v.req, status |-> "running", created |-> 0]
<1>1. v \in Handler /\ HandlerInv(v) /\ v.pc = "accepted" /\ v.req \in Request
  BY DEF IInv, TypeOK, CreateRunning, Handler
<1>2. rows' = Append(rows, e) /\ UNCHANGED tables
      /\ handler' = [handler EXCEPT ![h] = w]
  BY DEF CreateRunning, IInv, TypeOK
<1>3. PICK rho : rho = Len(rows) + 1
  OBVIOUS
<1>4. e \in Row /\ e.request = v.req /\ e.status = "running"
  BY <1>1 DEF Row, Status
<1>. HIDE DEF e
<1>5. /\ rows' \in Seq(Row) /\ DOMAIN rows' = DOMAIN rows \cup {rho}
      /\ rows'[rho] = e /\ rho \in Nat /\ rho \notin DOMAIN rows
      /\ Frame(rho) /\ TablesInv'
      /\ Mine(accounts, rho) = {} /\ Mine(runs, rho) = {}
      /\ Mine(backtests, rho) = {} /\ Mine(agents, rho) = {}
  BY <1>2, <1>3, <1>4, NewRow
<1>6. /\ w \in Handler /\ w.pc = "called" /\ w.req = v.req
      /\ w.row = rho /\ w.told = v.told /\ w.cause = v.cause
  BY <1>1, <1>3, <1>5 DEF Handler, Pc
<1>. HIDE DEF w
<1>7. handler'[h] = w /\ \A g \in Handlers \ {h} : handler'[g] = handler[g]
  BY <1>2 DEF IInv, TypeOK
<1>8. TypeOK'
  BY <1>2, <1>5, <1>6 DEF IInv, TypeOK, tables
<1>9. Owns(v)'
  BY <1>2, <1>4, <1>5, <1>6, <1>7 DEF Owns, Made, AgentMade, Mine, tables
<1>10. Place(v)' /\ Proposal(v)' /\ Answered(v)'
  BY <1>1, <1>6, <1>7 DEF HandlerInv, Place, Proposal, Answered
<1>11. HandlerInv(v)'
  BY <1>9, <1>10 DEF HandlerInv
<1>12. RowInv(rho)'
  BY <1>4, <1>5 DEF RowInv, Says, AgentSays
<1>. QED
  BY <1>5, <1>6, <1>7, <1>8, <1>11, <1>12, OneHandler

\* The handler gives its answer.
LEMMA AnswerFacts ==
  ASSUME IInv, NEW h \in Handlers, NEW text, Answers(h, text),
         text \in {"200", "400", "404", "500", "succeeded", "failed"}
  PROVE  \E w \in Handler :
           /\ handler' = [handler EXCEPT ![h] = w]
           /\ w.pc = "done" /\ w.answer = text /\ w.req = handler[h].req
           /\ w.row = handler[h].row /\ w.cause = handler[h].cause
           /\ w.told.status = "none"
<1>. DEFINE v == handler[h]
            w == [Idle EXCEPT !.pc = "done", !.req = v.req, !.row = v.row,
                              !.cause = v.cause, !.answer = text]
<1>1. v \in Handler
  BY DEF IInv, TypeOK
<1>2. /\ w \in Handler /\ w.pc = "done" /\ w.answer = text /\ w.req = v.req
      /\ w.row = v.row /\ w.cause = v.cause /\ w.told.status = "none"
  BY <1>1, IdleFacts DEF Handler, Pc
<1>3. handler' = [handler EXCEPT ![h] = w]
  BY DEF Answers
<1>. QED
  BY <1>2, <1>3

LEMMA RefuseStep ==
  ASSUME IInv, NEW h \in Handlers, Refuse(h)
  PROVE  IInv'
<1>. DEFINE v == handler[h]
<1>1. /\ v \in Handler /\ HandlerInv(v) /\ v.pc = "refused" /\ v.row = 0
      /\ v.req \in Request
  BY DEF IInv, TypeOK, Refuse, HandlerInv, Place, Handler
<1>2. UNCHANGED tables
  BY DEF Refuse
<1>3. CASE v.req.job
  <2>1. rows' = rows /\ Answers(h, "400")
    BY <1>3 DEF Refuse
  <2>2. PICK w \in Handler :
          /\ handler' = [handler EXCEPT ![h] = w]
          /\ w.pc = "done" /\ w.answer = "400" /\ w.req = v.req
          /\ w.row = v.row /\ w.cause = v.cause /\ w.told.status = "none"
    BY <2>1, AnswerFacts
  <2>3. HandlerInv(w)
    BY <1>1, <1>3, <2>2 DEF HandlerInv, Owns, Open, Place, Proposal, Answered
  <2>4. w.pc \notin Open
    BY <2>2 DEF Open
  <2>. QED
    BY <1>2, <2>1, <2>2, <2>3, <2>4, LocalStep DEF tables, IInv, TypeOK
<1>4. CASE ~v.req.job
  <2>. DEFINE w == [v EXCEPT !.pc = "done", !.answer = "400", !.row = Len(rows) + 1]
              e == [request |-> Asking(v.req.command, FALSE), status |-> "failed",
                    created |-> 0]
  <2>1. rows' = Append(rows, e) /\ handler' = [handler EXCEPT ![h] = w]
    BY <1>4 DEF Refuse, IInv, TypeOK
  <2>2. PICK rho : rho = Len(rows) + 1
    OBVIOUS
  <2>3. e \in Row /\ e.status = "failed"
    BY <1>1, AskingTyped DEF Row, Status, Request
  <2>. HIDE DEF e
  <2>4. /\ rows' \in Seq(Row) /\ DOMAIN rows' = DOMAIN rows \cup {rho}
        /\ rows'[rho] = e /\ rho \in Nat /\ rho \notin DOMAIN rows
        /\ Frame(rho) /\ TablesInv'
        /\ Mine(accounts, rho) = {} /\ Mine(runs, rho) = {}
        /\ Mine(backtests, rho) = {} /\ Mine(agents, rho) = {}
    BY <1>2, <2>1, <2>2, <2>3, NewRow
  <2>5. /\ w \in Handler /\ w.pc = "done" /\ w.req = v.req /\ w.answer = "400"
        /\ w.row = rho /\ w.told = v.told /\ w.cause = v.cause
    BY <1>1, <2>2, <2>4 DEF Handler, Pc
  <2>. HIDE DEF w
  <2>6. handler'[h] = w /\ \A g \in Handlers \ {h} : handler'[g] = handler[g]
    BY <2>1 DEF IInv, TypeOK
  <2>7. TypeOK'
    BY <1>2, <2>1, <2>4, <2>5 DEF IInv, TypeOK, tables
  <2>8. HandlerInv(v)'
    BY <1>1, <2>3, <2>4, <2>5, <2>6
    DEF HandlerInv, Owns, Open, Place, Proposal, Answered
  <2>9. RowInv(rho)'
    BY <1>2, <2>3, <2>4 DEF RowInv, Says, AgentSays, Mine, tables
  <2>10. w.pc \notin Open
    BY <2>5 DEF Open
  <2>. QED
    BY <2>4, <2>6, <2>7, <2>8, <2>9, <2>10, OneHandler
<1>. QED
  BY <1>3, <1>4

(***************************************************************************)
(* A handler closes its workflow run and answers.                          *)
(***************************************************************************)
LEMMA CloseStep ==
  ASSUME IInv, NEW h \in Handlers, NEW rho, rho = handler[h].row,
         NEW status \in {"failed", "succeeded"}, NEW created \in Nat, NEW text,
         CloseRow(h, status, created), Answers(h, text), UNCHANGED tables,
         \/ /\ status = "succeeded" /\ handler[h].pc = "returned"
            /\ created = CreatedObject(h) /\ text \in {"200", "succeeded"}
         \/ /\ status = "failed" /\ handler[h].pc = "raised"
            /\ text \in {"400", "404", "500", "failed"}
  PROVE  IInv'
<1>. DEFINE v == handler[h]
            e == [rows[rho] EXCEPT !.status = status, !.created = created]
<1>1. v \in Handler /\ HandlerInv(v) /\ v.pc \in Open
  BY DEF IInv, TypeOK, Open
<1>2. /\ rho \in DOMAIN rows /\ rows[rho] \in Row /\ rows \in Seq(Row)
      /\ rows[rho].request = v.req
  BY <1>1, ElementOfSeq DEF HandlerInv, Owns, IInv, TypeOK
<1>3. rows' = [rows EXCEPT ![rho] = e]
  BY <1>2 DEF CloseRow, Row
<1>4. e \in Row /\ e.request = v.req /\ e.status = status /\ e.created = created
  BY <1>2 DEF Row, Status
<1>. HIDE DEF e
<1>5. /\ rows' \in Seq(Row) /\ DOMAIN rows' = DOMAIN rows /\ rows'[rho] = e
      /\ \A r \in DOMAIN rows \ {rho} : rows'[r] = rows[r]
  BY <1>2, <1>3, <1>4, ExceptSeq
<1>6. UNCHANGED <<accounts, runs, backtests, agents, stocked>>
  BY DEF tables
<1>7. PICK w \in Handler :
        /\ handler' = [handler EXCEPT ![h] = w]
        /\ w.pc = "done" /\ w.answer = text /\ w.req = v.req
        /\ w.row = v.row /\ w.cause = v.cause /\ w.told.status = "none"
  BY AnswerFacts
<1>8. handler'[h] = w /\ \A g \in Handlers \ {h} : handler'[g] = handler[g]
  BY <1>7 DEF IInv, TypeOK
<1>9. Frame(rho)
  BY <1>5, <1>6 DEF Frame, Grows
<1>10. TypeOK'
  BY <1>5, <1>6, <1>7 DEF IInv, TypeOK
<1>11. \A r \in DOMAIN rows : r \in DOMAIN rows' /\ rows'[r].request = rows[r].request
  BY <1>2, <1>4, <1>5
<1>12. TablesInv'
  BY <1>6, <1>11 DEF IInv, TablesInv, AsAsked
<1>13. w.pc \notin Open
  BY <1>7 DEF Open
<1>14. HandlerInv(v)'
  <2>1. Owns(v)' /\ Place(v)' /\ Proposal(v)'
    BY <1>1, <1>7, <1>8, <1>13 DEF HandlerInv, Owns, Place, Proposal
  <2>2. Answered(v)'
    BY <1>2, <1>4, <1>5, <1>7, <1>8 DEF Answered
  <2>. QED
    BY <2>1, <2>2 DEF HandlerInv
<1>15. /\ Made(accounts, "paper_create_account", v)
       /\ Made(runs, "paper_start_ma_cross_run", v)
       /\ Made(backtests, "backtest_ma_cross", v) /\ AgentMade(v)
  BY <1>1 DEF HandlerInv, Owns
<1>16. v.req.command \in {"paper_create_account", "paper_start_ma_cross_run",
                          "backtest_ma_cross"} => CreatedObject(h) = v.made
  BY DEF CreatedObject, JobOnly
<1>17. /\ Says(accounts, "paper_create_account", rho)'
       /\ Says(runs, "paper_start_ma_cross_run", rho)'
       /\ Says(backtests, "backtest_ma_cross", rho)'
  BY <1>4, <1>5, <1>6, <1>15, <1>16 DEF Says, Made, Mine
<1>18. AgentSays(rho)'
  BY <1>4, <1>5, <1>6, <1>15 DEF AgentSays, AgentMade, Mine
<1>19. RowInv(rho)'
  BY <1>17, <1>18 DEF RowInv
<1>. QED
  BY <1>1, <1>8, <1>9, <1>10, <1>12, <1>13, <1>14, <1>19, OneHandler

LEMMA MarkSucceededStep ==
  ASSUME IInv, NEW h \in Handlers, MarkSucceeded(h)
  PROVE  IInv'
<1>1. PICK rho, created, text :
        /\ rho = handler[h].row /\ created = CreatedObject(h)
        /\ text = IF handler[h].req.job THEN "succeeded" ELSE "200"
  OBVIOUS
<1>2. created \in Nat
  BY <1>1 DEF IInv, TypeOK, Handler, CreatedObject
<1>3. /\ CloseRow(h, "succeeded", created) /\ Answers(h, text)
      /\ UNCHANGED tables /\ handler[h].pc = "returned"
  BY <1>1 DEF MarkSucceeded
<1>. QED
  BY <1>1, <1>2, <1>3, CloseStep

LEMMA MarkFailedStep ==
  ASSUME IInv, NEW h \in Handlers, MarkFailed(h)
  PROVE  IInv'
<1>1. PICK rho, text : rho = handler[h].row /\ text = Failure(h)
  OBVIOUS
<1>2. text \in {"400", "404", "500", "failed"}
  BY <1>1 DEF Failure, IInv, TypeOK, Handler, Request
<1>3. /\ CloseRow(h, "failed", 0) /\ Answers(h, text)
      /\ UNCHANGED tables /\ handler[h].pc = "raised"
  BY <1>1 DEF MarkFailed
<1>. QED
  BY <1>1, <1>2, <1>3, CloseStep

-----------------------------------------------------------------------------
(***************************************************************************)
(* A handler closes its agent run and returns, or raises again.            *)
(***************************************************************************)
LEMMA CloseAgentStep ==
  ASSUME IInv, NEW h \in Handlers, NEW rho, rho = handler[h].row,
         NEW a, a = handler[h].made,
         NEW status \in {"failed", "succeeded"}, NEW verdict \in Verdict,
         verdict.status = "passed" => Sound(verdict.request),
         handler[h].pc \in {"told", "agent_raised"},
         CloseAgentRun(h, status, verdict),
         NEW pc, Goes(h, pc),
         UNCHANGED <<rows, accounts, runs, backtests, stocked>>,
         \/ status = "succeeded" /\ pc = "returned"
         \/ status = "failed" /\ pc = "raised"
  PROVE  IInv'
<1>. DEFINE v == handler[h]
            w == [v EXCEPT !.pc = pc]
            e == [agents[a] EXCEPT !.status = status, !.candidate = verdict]
<1>1. v \in Handler /\ HandlerInv(v) /\ v.pc \in Open /\ Owns(v) /\ AgentMade(v)
      /\ Mine(agents, rho) = {a}
  BY DEF IInv, TypeOK, Open, HandlerInv, Owns, AgentMade
<1>2. /\ a \in DOMAIN agents /\ agents[a].by = rho /\ agents[a] \in AgentRun
      /\ agents \in Seq(AgentRun)
  BY <1>1, ElementOfSeq DEF Mine, IInv, TypeOK
<1>3. agents' = [agents EXCEPT ![a] = e]
  BY <1>2 DEF CloseAgentRun, AgentRun
<1>4. /\ e \in AgentRun /\ e.by = rho /\ e.status = status
      /\ e.candidate = verdict
  BY <1>2 DEF AgentRun, Status
<1>. HIDE DEF e
<1>5. /\ agents' \in Seq(AgentRun) /\ DOMAIN agents' = DOMAIN agents
      /\ agents'[a] = e /\ \A b \in DOMAIN agents \ {a} : agents'[b] = agents[b]
  BY <1>2, <1>3, <1>4, ExceptSeq
<1>6. Mine(agents', rho) = {a} /\ Grows(rho, agents, agents')
  BY <1>1, <1>2, <1>4, <1>5 DEF Mine, Grows
<1>7. Frame(rho)
  BY <1>2, <1>5, <1>6 DEF Frame, Grows
<1>8. /\ w \in Handler /\ w.pc = pc /\ w.req = v.req /\ w.row = rho
      /\ w.told = v.told /\ w.cause = v.cause /\ w.made = a
  BY <1>1 DEF Handler, Pc
<1>9. handler' = [handler EXCEPT ![h] = w]
  BY DEF Goes, IInv, TypeOK
<1>. HIDE DEF w
<1>10. handler'[h] = w /\ \A g \in Handlers \ {h} : handler'[g] = handler[g]
  BY <1>9 DEF IInv, TypeOK
<1>11. TypeOK'
  BY <1>5, <1>8, <1>9 DEF IInv, TypeOK
<1>12. TablesInv'
  BY <1>2, <1>4, <1>5 DEF IInv, TablesInv, AsAsked
<1>13. /\ rho \in DOMAIN rows /\ rows[rho].status = "running"
       /\ rows[rho].request = v.req
  BY <1>1 DEF Owns
<1>14. v.req.command \in JobOnly
  BY <1>1 DEF HandlerInv, Place
<1>15. /\ Made(accounts, "paper_create_account", v)'
       /\ Made(runs, "paper_start_ma_cross_run", v)'
       /\ Made(backtests, "backtest_ma_cross", v)'
  BY <1>1, <1>8, <1>10, <1>14 DEF Owns, Made, Mine, JobOnly
<1>16. AgentMade(v)'
  BY <1>4, <1>5, <1>6, <1>8, <1>10 DEF AgentMade, Mine
<1>17. Owns(v)'
  BY <1>8, <1>10, <1>13, <1>15, <1>16 DEF Owns
<1>18. Place(v)' /\ Proposal(v)' /\ Answered(v)'
  BY <1>1, <1>8, <1>10, <1>14 DEF HandlerInv, Place, Proposal, Answered
<1>19. HandlerInv(v)'
  BY <1>17, <1>18 DEF HandlerInv
<1>20. RowInv(rho)'
  BY <1>13 DEF RowInv, Says, AgentSays
<1>. QED
  BY <1>1, <1>7, <1>8, <1>10, <1>11, <1>12, <1>19, <1>20, OneHandler

LEMMA MarkAgentStep ==
  ASSUME IInv, NEW h \in Handlers, MarkAgentSucceeded(h) \/ MarkAgentFailed(h)
  PROVE  IInv'
<1>1. PICK rho, a : rho = handler[h].row /\ a = handler[h].made
  OBVIOUS
<1>2. CASE MarkAgentSucceeded(h)
  <2>1. PICK verdict : verdict = handler[h].told
    OBVIOUS
  <2>2. verdict \in Verdict /\ (verdict.status = "passed" => Sound(verdict.request))
    BY <2>1 DEF IInv, TypeOK, Handler, HandlerInv, Proposal
  <2>3. /\ CloseAgentRun(h, "succeeded", verdict) /\ Goes(h, "returned")
        /\ handler[h].pc = "told"
        /\ UNCHANGED <<rows, accounts, runs, backtests, stocked>>
    BY <1>2, <2>1 DEF MarkAgentSucceeded
  <2>. QED
    BY <1>1, <2>2, <2>3, CloseAgentStep
<1>3. CASE MarkAgentFailed(h)
  <2>1. /\ CloseAgentRun(h, "failed", NoVerdict) /\ Goes(h, "raised")
        /\ handler[h].pc = "agent_raised"
        /\ UNCHANGED <<rows, accounts, runs, backtests, stocked>>
    BY <1>3 DEF MarkAgentFailed
  <2>. QED
    BY <1>1, <2>1, NoneTyped, CloseAgentStep
<1>. QED
  BY <1>2, <1>3

-----------------------------------------------------------------------------
(***************************************************************************)
(* The invariant is inductive.                                             *)
(***************************************************************************)
LEMMA HandleStep ==
  ASSUME IInv, NEW h \in Handlers, Handle(h)
  PROVE  IInv'
BY RefuseStep, CreateStep, ImportStep, EnsureStep, BacktestStep, AccountStep,
   StartStep, LoadStep, TickStep, AgentRunStep, AnalysisStep, StrategyStep,
   MarkAgentStep, MarkSucceededStep, MarkFailedStep
DEF Handle

LEMMA NextStep == IInv /\ [Next]_vars => IInv'
<1>. SUFFICES ASSUME IInv, [Next]_vars PROVE IInv'
  OBVIOUS
<1>1. CASE Next
  <2>1. PICK h \in Handlers :
          \/ \E q \in Asked : Receive(h, q)
          \/ \E a \in Passed, j \in BOOLEAN : Receive(h, ProposedBy(a, j))
          \/ Unauthorized(h) \/ Handle(h) \/ Fails(h)
    BY <1>1 DEF Next
  <2>2. CASE \E q \in Asked : Receive(h, q)
    BY <2>2, AskedStep
  <2>3. CASE \E a \in Passed, j \in BOOLEAN : Receive(h, ProposedBy(a, j))
    BY <2>3, ProposedStep
  <2>. QED
    BY <2>1, <2>2, <2>3, UnauthorizedStep, HandleStep, FailsStep
<1>2. CASE UNCHANGED vars
  <2>1. UNCHANGED <<rows, accounts, runs, backtests, agents, stocked, handler>>
    BY <1>2 DEF vars, tables
  <2>2. TypeOK' /\ TablesInv' /\ Apart'
    BY <2>1 DEF IInv, TypeOK, TablesInv, AsAsked, Apart
  <2>3. \A r \in DOMAIN rows' : RowInv(r)'
    BY <2>1 DEF IInv, RowInv, Says, AgentSays, Mine
  <2>4. ASSUME NEW h \in Handlers PROVE HandlerInv(handler[h])'
    <3>1. HandlerInv(handler[h])
      BY DEF IInv
    <3>2. Owns(handler[h])'
      BY <2>1, <3>1 DEF HandlerInv, Owns, Made, AgentMade, Mine
    <3>3. Place(handler[h])' /\ Proposal(handler[h])' /\ Answered(handler[h])'
      BY <2>1, <3>1 DEF HandlerInv, Place, Proposal, Answered
    <3>. QED
      BY <3>2, <3>3 DEF HandlerInv
  <2>. QED
    BY <2>2, <2>3, <2>4 DEF IInv
<1>. QED
  BY <1>1, <1>2

LEMMA AlwaysIInv == Spec => []IInv
BY InitInv, NextStep, PTL DEF Spec

-----------------------------------------------------------------------------
\* Handlers, requests and rows are what the routes, models and tables make them.
THEOREM CommandsAreTyped == Spec => []TypeOK
<1>1. IInv => TypeOK
  BY DEF IInv
<1>. QED
  BY <1>1, AlwaysIInv, PTL

\* run_with_audit closes a workflow run with the very row its own command
\* inserted, and never one as failed that inserted an account, a paper run or a
\* backtest.
THEOREM AuditTellsTheTruth == Spec => []AuditIsTrue
<1>1. IInv => AuditIsTrue
  BY DEF IInv, RowInv, Says, Mine, AuditIsTrue, InsertedIn
<1>. QED
  BY <1>1, AlwaysIInv, PTL

\* _run_command and execute_job_run_with_engine answer what the audit says.
THEOREM AnswersTellTheTruth == Spec => []AnswerIsTrue
<1>1. IInv => AnswerIsTrue
  <2>. SUFFICES ASSUME IInv, NEW h \in Handlers, handler[h].pc = "done",
                       Answered(handler[h])
                PROVE  \/ handler[h].answer = "401" /\ handler[h].row = 0
                       \/ /\ handler[h].answer = "400" /\ handler[h].req.job
                          /\ handler[h].row = 0
                       \/ /\ handler[h].answer \in {"200", "succeeded"}
                          /\ rows[handler[h].row].status = "succeeded"
                       \/ /\ handler[h].answer \in {"400", "404", "500", "failed"}
                          /\ handler[h].row # 0
                          /\ rows[handler[h].row].status = "failed"
                       \/ handler[h].answer \in {"500", "failed"}
                          /\ handler[h].broken
    BY DEF IInv, HandlerInv, AnswerIsTrue
  <2>1. 0 \notin DOMAIN rows
    BY DEF IInv, TypeOK
  <2>. QED
    BY <2>1 DEF Answered
<1>. QED
  BY <1>1, AlwaysIInv, PTL

\* The agents raise again what they recorded, and record what they return.
THEOREM AgentsAgree == Spec => []AgentAgreesWithAudit
<1>1. IInv => AgentAgreesWithAudit
  BY DEF IInv, RowInv, AgentSays, Mine, AgentAgreesWithAudit
<1>. QED
  BY <1>1, AlwaysIInv, PTL

\* Backtests, paper runs and ticks use the parameters that were asked for.
THEOREM RunsAreAsRequested == Spec => []RunAsRequested
<1>1. IInv => RunAsRequested
  BY DEF IInv, TablesInv, AsAsked, HandlerInv, Place, RunAsRequested
<1>. QED
  BY <1>1, AlwaysIInv, PTL

\* What validate_strategy_candidate passes, neither the API nor
\* EnsureMarketBarsExist refuses.
THEOREM PassedCandidatesRun == Spec => []PassedCandidateRuns
<1>1. IInv => PassedCandidateRuns
  BY DEF IInv, HandlerInv, Proposal, PassedCandidateRuns
<1>. QED
  BY <1>1, AlwaysIInv, PTL
=============================================================================
