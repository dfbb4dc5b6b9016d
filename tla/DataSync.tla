------------------------------ MODULE DataSync -------------------------------
(***************************************************************************)
(* Storing market data of one symbol: sync_daily_market_data               *)
(* (data/sync.py), as executed by jobs, and import_legacy_sqlite           *)
(* (storage/migrate_legacy.py), several of them at once.                   *)
(*                                                                         *)
(* A sync commits its data_sync_runs row and the instrument, fetches and   *)
(* validates the bars outside any transaction, stores all of them and      *)
(* closes the row in a second transaction, and marks the row failed in a   *)
(* third.  An import is one transaction.  A bar is upserted in two steps:  *)
(* a SELECT that locks nothing, and the flush of an INSERT or of an UPDATE *)
(* of what differs, which waits for a transaction that wrote the same key. *)
(***************************************************************************)
EXTENDS Integers, FiniteSets

CONSTANTS
  Syncs, Imports,
  Dates, Closes,  \* of the bars
  Answers,        \* what a provider, or a legacy database, may hold
  Databases       \* subset of {"postgresql", "sqlite"}: DATABASE_URL

Actors == Syncs \cup Imports

\* A bar is its close; 0 stands for no bar.
NoBar == 0

ASSUME ActorsAssumption  == Syncs \cap Imports = {}
ASSUME DatesAssumption   == IsFiniteSet(Dates) /\ Dates \subseteq Nat
ASSUME ClosesAssumption  == Closes \subseteq Nat \ {NoBar}
ASSUME AnswersAssumption == Answers \subseteq [Dates -> Closes \cup {NoBar}]
ASSUME DatabasesAssumption == Databases \subseteq {"postgresql", "sqlite"}

VARIABLES
  database,
  name,      \* of the instruments row: "absent", "symbol" or "legacy"
  bars,      \* committed market_bars of each source
  row,       \* data_sync_runs, one for each sync
  cancelled, \* syncs whose job is cancel_requested or cancelled
  act,       \* the syncs and imports in progress
  pend,      \* bars written and not yet committed
  met        \* history: syncs that stored while another one did

shared == <<name, bars, row>>
vars   == <<database, shared, cancelled, act, pend, met>>

Sources   == {"akshare", "legacy_sqlite"}
SourceOf(x) == IF x \in Syncs THEN "akshare" ELSE "legacy_sqlite"

Causes == {"none", "provider", "cancelled", "conflict", "locked"}
Row    == [status : {"none", "running", "failed", "succeeded"},
           imported : Nat, error : Causes]
NoRow  == [status |-> "none", imported |-> 0, error |-> "none"]

Names == {"absent", "symbol", "legacy"}
Pc == {"idle", "upsert", "begun", "fetch", "begin_store", "select", "flush",
       "report", "commit", "failing", "done", "raised", "dead"}

\* answer: the bars to store; todo: dates left; at, seen: the row SELECTed;
\* saw: the instrument's name when it was SELECTed; named: written and not
\* committed; why: the exception raised.
Series == [Dates -> Closes \cup {NoBar}]
Actor  == [pc : Pc, answer : Series, todo : SUBSET Dates, at : Nat,
           seen : Closes \cup {NoBar}, saw : Names, named : BOOLEAN,
           why : Causes]

Nothing    == [d \in Dates |-> NoBar]
DatesIn(f) == {d \in Dates : f[d] # NoBar}

Idle == [pc |-> "idle", answer |-> Nothing, todo |-> {}, at |-> 0,
         seen |-> NoBar, saw |-> "absent", named |-> FALSE, why |-> "none"]

Init ==
  /\ database \in Databases
  /\ name = "absent"
  /\ bars = [s \in Sources |-> Nothing]
  /\ row  = [s \in Syncs |-> NoRow]
  /\ cancelled = {}
  /\ act  = [x \in Actors |-> Idle]
  /\ pend = [x \in Actors |-> Nothing]
  /\ met  = {}

-----------------------------------------------------------------------------
Storing == {"select", "flush", "report", "commit"}

\* What x writes into the name of the instrument.
NameBy(x) == IF x \in Syncs THEN "symbol" ELSE "legacy"

\* The open transaction of x has written; a sync begins with its own row.
HasWritten(x) == \/ act[x].named \/ pend[x] # Nothing
                 \/ x \in Syncs /\ act[x].pc = "upsert"

\* SQLite has one write lock for the database: every writer waits for it.
WriteLocked(x) ==
  database = "sqlite" /\ \E y \in Actors \ {x} : HasWritten(y)

\* The flush of x waits for the transaction of y, which wrote the same row,
\* unless it is an INSERT and the row is there already.
WaitsForName(x, y) ==
  /\ y # x /\ act[y].named
  /\ act[x].pc = "upsert" /\ act[x].saw # NameBy(x)
  /\ act[x].saw = "absent" => name = "absent"

WaitsForBar(x, y) ==
  LET a == act[x]
  IN  /\ y # x /\ SourceOf(y) = SourceOf(x)
      /\ a.pc = "flush" /\ a.seen # a.answer[a.at] /\ pend[y][a.at] # NoBar
      /\ a.seen = NoBar => bars[SourceOf(x)][a.at] = NoBar

WaitsFor(x, y) == WaitsForName(x, y) \/ WaitsForBar(x, y)

Free(x) == ~WriteLocked(x) /\ \A y \in Actors : ~WaitsFor(x, y)

Goto(x, pc) == act' = [act EXCEPT ![x] = [@ EXCEPT !.pc = pc]]

\* What was read is of no use to the steps that follow.
Resume(x, pc) ==
  act' = [act EXCEPT ![x] = [@ EXCEPT !.pc = pc, !.at = 0, !.seen = NoBar,
                                      !.saw = "absent"]]

Stop(x, pc) == act' = [act EXCEPT ![x] = [Idle EXCEPT !.pc = pc]]

\* The transaction is rolled back and the exception leaves it.
Raise(x, why) ==
  /\ act'  = [act EXCEPT ![x] =
                [Idle EXCEPT !.pc = IF x \in Syncs THEN "failing" ELSE "raised",
                             !.why = why]]
  /\ pend' = [pend EXCEPT ![x] = Nothing]

(***************************************************************************)
(* sync_daily_market_data: the arguments are refused, or the row and the   *)
(* instrument are inserted in one transaction.                             *)
(***************************************************************************)
RejectRequest(x) ==
  /\ act[x].pc = "idle"
  /\ Stop(x, "raised")
  /\ UNCHANGED <<database, shared, cancelled, pend, met>>

\* An import has its bars at hand from the beginning.
SelectInstrument(x) ==
  /\ act[x].pc = "idle"
  /\ x \in Syncs => ~WriteLocked(x)
  /\ \E f \in IF x \in Syncs THEN {Nothing} ELSE Answers :
       act' = [act EXCEPT ![x] =
                 [@ EXCEPT !.pc = "upsert", !.saw = name, !.answer = f,
                           !.todo = DatesIn(f)]]
  /\ UNCHANGED <<database, shared, cancelled, pend, met>>

\* Somebody else inserted the symbol since it was looked up.
SymbolTaken(x) == act[x].saw = "absent" /\ name # "absent"

\* The flush and the commit; an IntegrityError leaves no row.
UpsertSymbol(s) ==
  /\ act[s].pc = "upsert" /\ Free(s)
  /\ IF SymbolTaken(s)
     THEN Stop(s, "raised") /\ UNCHANGED <<name, row>>
     ELSE /\ Resume(s, "begun")
          /\ name' = IF act[s].saw = "symbol" THEN name ELSE "symbol"
          /\ row'  = [row EXCEPT ![s] = [@ EXCEPT !.status = "running"]]
  /\ UNCHANGED <<database, bars, cancelled, pend, met>>

(***************************************************************************)
(* Between the transactions: the checks and progress reports, the request  *)
(* to the provider, and validate_bars, which raises if a date occurs twice *)
(* and sorts otherwise.                                                    *)
(***************************************************************************)
CheckedReport(s, from, to) ==
  /\ act[s].pc = from
  /\ IF s \in cancelled THEN Raise(s, "cancelled")
     ELSE ~WriteLocked(s) /\ Goto(s, to) /\ UNCHANGED pend
  /\ UNCHANGED <<database, shared, cancelled>>

BeginFetch(s) == CheckedReport(s, "begun", "fetch") /\ UNCHANGED met

Fetch(s) ==
  /\ act[s].pc = "fetch"
  /\ \E f \in Answers :
       act' = [act EXCEPT ![s] = [@ EXCEPT !.pc = "begin_store", !.answer = f,
                                           !.todo = DatesIn(f)]]
  /\ UNCHANGED <<database, shared, cancelled, pend, met>>

FetchFails(s) ==
  /\ act[s].pc = "fetch"
  /\ Raise(s, "provider")
  /\ UNCHANGED <<database, shared, cancelled, met>>

BeginStore(s) ==
  LET others == {x \in Syncs : act[x].pc \in Storing}
  IN  /\ CheckedReport(s, "begin_store", "select")
      /\ met' = IF s \in cancelled \/ others = {} THEN met
                ELSE met \cup others \cup {s}

(***************************************************************************)
(* The loop over the bars: the check of a sync, then upsert_daily_bar.     *)
(***************************************************************************)
\* Faulty variant: the bars are stored in the order they came in.
SelectBarUnsorted(x) ==
  /\ act[x].pc = "select" /\ x \notin cancelled
  /\ \E d \in act[x].todo :
       act' = [act EXCEPT ![x] =
                 [@ EXCEPT !.pc = "flush", !.at = d,
                           !.todo = act[x].todo \ {d},
                           !.seen = bars[SourceOf(x)][d]]]
  /\ UNCHANGED <<database, shared, cancelled, pend, met>>

SelectBar(x) ==
  /\ act[x].pc = "select" /\ x \notin cancelled
  /\ \E d \in act[x].todo :
       /\ \A e \in act[x].todo : d <= e
       /\ act' = [act EXCEPT ![x] =
                    [@ EXCEPT !.pc = "flush", !.at = d,
                              !.todo = act[x].todo \ {d},
                              !.seen = bars[SourceOf(x)][d]]]
  /\ UNCHANGED <<database, shared, cancelled, pend, met>>

CancelStore(s) ==
  /\ act[s].pc = "select" /\ s \in cancelled /\ act[s].todo # {}
  /\ Raise(s, "cancelled")
  /\ UNCHANGED <<database, shared, cancelled, met>>

\* Faulty variant: a bar that is there already is left as it is.
FlushBarInsertOnly(x) ==
  LET a == act[x]
  IN  /\ a.pc = "flush" /\ Free(x)
      /\ Resume(x, "select")
      /\ pend' = [pend EXCEPT ![x] = [@ EXCEPT ![a.at] =
                    IF a.seen # NoBar THEN @ ELSE a.answer[a.at]]]
      /\ UNCHANGED <<database, shared, cancelled, met>>

\* An unchanged bar is not written; one inserted since: IntegrityError.
FlushBar(x) ==
  LET a == act[x]
  IN  /\ a.pc = "flush"
      /\ \/ /\ a.seen = a.answer[a.at]
            /\ Resume(x, "select") /\ UNCHANGED pend
         \/ /\ a.seen # a.answer[a.at] /\ Free(x)
            /\ IF a.seen = NoBar /\ bars[SourceOf(x)][a.at] # NoBar
               THEN Raise(x, "conflict")
               ELSE /\ Resume(x, "select")
                    /\ pend' = [pend EXCEPT ![x] =
                                  [@ EXCEPT ![a.at] = a.answer[a.at]]]
      /\ UNCHANGED <<database, shared, cancelled, met>>

(***************************************************************************)
(* The end of a sync.  The last progress report is a transaction of its    *)
(* own, while the one that stores the bars is open.                        *)
(***************************************************************************)
EndLoop(s) ==
  /\ act[s].pc = "select" /\ act[s].todo = {}
  /\ Goto(s, "report")
  /\ UNCHANGED <<database, shared, cancelled, pend, met>>

BlockedByItself(s) == database = "sqlite" /\ HasWritten(s)

ReportStored(s) ==
  /\ act[s].pc = "report"
  /\ ~WriteLocked(s) /\ ~BlockedByItself(s)
  /\ Goto(s, "commit")
  /\ UNCHANGED <<database, shared, cancelled, pend, met>>

Committed(x) ==
  [bars EXCEPT ![SourceOf(x)] =
     [d \in Dates |-> IF pend[x][d] # NoBar THEN pend[x][d] ELSE @[d]]]

\* Faulty variant: the row is closed before the bars are committed.
CommitRowFirst(s) ==
  /\ act[s].pc = "commit" /\ ~WriteLocked(s)
  /\ IF row[s].status = "running"
     THEN /\ row' = [row EXCEPT ![s] =
                       [@ EXCEPT !.status = "succeeded",
                                 !.imported = Cardinality(DatesIn(act[s].answer))]]
          /\ UNCHANGED <<bars, pend, act>>
     ELSE /\ bars' = Committed(s)
          /\ pend' = [pend EXCEPT ![s] = Nothing]
          /\ Goto(s, "done")
          /\ UNCHANGED row
  /\ UNCHANGED <<database, name, cancelled, met>>

CommitStored(s) ==
  /\ act[s].pc = "commit" /\ ~WriteLocked(s)
  /\ bars' = Committed(s)
  /\ pend' = [pend EXCEPT ![s] = Nothing]
  /\ row'  = [row EXCEPT ![s] =
                [@ EXCEPT !.status = "succeeded",
                          !.imported = Cardinality(DatesIn(act[s].answer))]]
  /\ Goto(s, "done")
  /\ UNCHANGED <<database, name, cancelled, met>>

\* Faulty variant: a cancelled sync gets a status no reader knows.
MarkFailedAsCancelled(s) ==
  /\ act[s].pc = "failing" /\ ~WriteLocked(s)
  /\ row' = [row EXCEPT ![s] =
               [@ EXCEPT !.error = act[s].why,
                         !.status = IF act[s].why = "cancelled"
                                    THEN "cancelled" ELSE "failed"]]
  /\ Stop(s, "raised")
  /\ UNCHANGED <<database, name, bars, cancelled, pend, met>>

MarkFailed(s) ==
  /\ act[s].pc = "failing" /\ ~WriteLocked(s)
  /\ row' = [row EXCEPT ![s] = [@ EXCEPT !.status = "failed",
                                         !.error = act[s].why]]
  /\ Stop(s, "raised")
  /\ UNCHANGED <<database, name, bars, cancelled, pend, met>>

(***************************************************************************)
(* import_legacy_sqlite, one transaction.                                  *)
(***************************************************************************)
ImportSymbol(x) ==
  /\ act[x].pc = "upsert"
  /\ \/ act[x].saw = NameBy(x) /\ Resume(x, "select") /\ UNCHANGED pend
     \/ /\ act[x].saw # NameBy(x) /\ Free(x)
        /\ IF SymbolTaken(x) THEN Raise(x, "conflict")
           ELSE /\ act' = [act EXCEPT ![x] =
                             [@ EXCEPT !.pc = "select", !.saw = "absent",
                                       !.named = TRUE]]
                /\ UNCHANGED pend
  /\ UNCHANGED <<database, shared, cancelled, met>>

CommitImport(x) ==
  /\ act[x].pc = "select" /\ act[x].todo = {}
  /\ bars' = Committed(x)
  /\ pend' = [pend EXCEPT ![x] = Nothing]
  /\ name' = IF act[x].named THEN "legacy" ELSE name
  /\ act'  = [act EXCEPT ![x] = [@ EXCEPT !.pc = "done", !.named = FALSE]]
  /\ UNCHANGED <<database, row, cancelled, met>>

\* A market, a date or a number of the legacy database does not parse.
ImportFails(x) ==
  /\ act[x].pc \in {"upsert", "select"}
  /\ Raise(x, "provider")
  /\ UNCHANGED <<database, shared, cancelled, met>>

(***************************************************************************)
(* What may happen besides.                                                *)
(***************************************************************************)
\* After the last check a request has nothing left to stop.
RequestCancel(s) ==
  /\ s \notin cancelled
  /\ act[s].pc \in {"begun", "fetch", "begin_store", "select", "flush"}
  /\ cancelled' = cancelled \cup {s}
  /\ UNCHANGED <<database, shared, act, pend, met>>

\* The next step of x is a write.
AboutToWrite(x) ==
  LET a == act[x]
  IN  \/ a.pc \in {"begun", "begin_store"} /\ x \notin cancelled
      \/ a.pc = "upsert" /\ a.saw # NameBy(x)
      \/ a.pc = "flush" /\ a.seen # a.answer[a.at]
      \/ a.pc \in {"report", "commit", "failing"}

\* Faulty variant: nobody looks whether a writer waits for itself.
LockTimeoutOthersOnly(x) ==
  /\ AboutToWrite(x) /\ WriteLocked(x)
  /\ IF act[x].pc = "failing" THEN Stop(x, "dead") /\ UNCHANGED pend
     ELSE Raise(x, "locked")
  /\ UNCHANGED <<database, shared, cancelled, met>>

\* "database is locked"; raised by mark_failed it leaves the row running.
LockTimeout(x) ==
  /\ AboutToWrite(x)
  /\ WriteLocked(x) \/ (act[x].pc = "report" /\ BlockedByItself(x))
  /\ IF act[x].pc = "failing" THEN Stop(x, "dead") /\ UNCHANGED pend
     ELSE Raise(x, "locked")
  /\ UNCHANGED <<database, shared, cancelled, met>>

Crash(x) ==
  /\ act[x].pc \notin {"idle", "done", "raised", "dead"}
  /\ Stop(x, "dead")
  /\ pend' = [pend EXCEPT ![x] = Nothing]
  /\ UNCHANGED <<database, shared, cancelled, met>>

-----------------------------------------------------------------------------
SyncStep(s) ==
  \/ UpsertSymbol(s) \/ BeginFetch(s) \/ Fetch(s) \/ FetchFails(s)
  \/ BeginStore(s) \/ SelectBar(s) \/ CancelStore(s) \/ FlushBar(s)
  \/ EndLoop(s) \/ ReportStored(s) \/ CommitStored(s) \/ MarkFailed(s)
  \/ LockTimeout(s)

ImportStep(x) ==
  \/ ImportSymbol(x) \/ SelectBar(x) \/ FlushBar(x) \/ CommitImport(x)
  \/ LockTimeout(x)

Next ==
  \/ \E x \in Actors : RejectRequest(x) \/ SelectInstrument(x) \/ Crash(x)
  \/ \E s \in Syncs : SyncStep(s) \/ RequestCancel(s)
  \/ \E x \in Imports : ImportStep(x) \/ ImportFails(x)

Spec == Init /\ [][Next]_vars

(***************************************************************************)
(* A sync or an import that has begun goes on, and SQLite's busy timeout   *)
(* ends every wait for its lock.                                           *)
(***************************************************************************)
Fairness == /\ \A s \in Syncs   : WF_vars(SyncStep(s))
            /\ \A x \in Imports : WF_vars(ImportStep(x))

FairSpec == Spec /\ Fairness

-----------------------------------------------------------------------------
TypeOK ==
  /\ database  \in {"postgresql", "sqlite"}
  /\ name      \in Names
  /\ bars      \in [Sources -> Series]
  /\ row       \in [Syncs -> Row]
  /\ cancelled \in SUBSET Syncs
  /\ act       \in [Actors -> Actor]
  /\ pend      \in [Actors -> Series]
  /\ met       \in SUBSET Syncs

(***************************************************************************)
(* The row of a sync tells the truth: "succeeded" means that every date it *)
(* counts is stored, and every stored bar was fetched by a sync whose row  *)
(* says "succeeded" (or belongs to an import that was committed): a failed,*)
(* cancelled or dead one leaves none of its bars, however far it got.      *)
(***************************************************************************)
SucceededIsStored ==
  \A s \in Syncs : row[s].status = "succeeded" =>
    /\ row[s].imported = Cardinality(DatesIn(act[s].answer))
    /\ \A d \in DatesIn(act[s].answer) : bars["akshare"][d] # NoBar

Vouched(x, d, c) ==
  /\ act[x].answer[d] = c
  /\ IF x \in Syncs THEN row[x].status = "succeeded" ELSE act[x].pc = "done"

StoredIsVouched ==
  \A src \in Sources : \A d \in DatesIn(bars[src]) :
    \E x \in Actors : SourceOf(x) = src /\ Vouched(x, d, bars[src][d])

VerdictIsTrue == SucceededIsStored /\ StoredIsVouched

(***************************************************************************)
(* A sync that stored while no other sync did leaves exactly what it       *)
(* fetched on its dates, although it writes only what differed from the    *)
(* rows it read.  (Two syncs at once may leave bars of both.)              *)
(***************************************************************************)
FreshAfterSync ==
  [][\A s \in Syncs \ met :
       row[s].status = "running" /\ row'[s].status = "succeeded" =>
         \A d \in DatesIn(act[s].answer) : bars'["akshare"][d] = act[s].answer[d]
    ]_vars

(***************************************************************************)
(* Transactions that store bars of one symbol never wait in a circle: the  *)
(* instrument comes first, and validate_bars and the import's query have   *)
(* sorted the dates.                                                       *)
(***************************************************************************)
NoWaitCycle ==
  \A X \in (SUBSET Actors) \ {{}} : \E x \in X : \A y \in X : ~WaitsFor(x, y)

(***************************************************************************)
(* A sync whose row says "running" is closed, unless its worker dies or    *)
(* SQLite refuses to close it.                                             *)
(***************************************************************************)
SyncEnds ==
  \A s \in Syncs :
    row[s].status = "running" ~>
      row[s].status \in {"failed", "succeeded"} \/ act[s].pc = "dead"

(***************************************************************************)
(* A sync is marked failed because the provider's answer was refused,      *)
(* because its job was cancelled, or because another sync stored bars at   *)
(* the same time.  The code does not guarantee it: on SQLite the report    *)
(* made while the bars are being stored waits for their own transaction.   *)
(***************************************************************************)
FailsForCause ==
  \A s \in Syncs : row[s].status = "failed" =>
    row[s].error \in {"provider", "cancelled"} \/ s \in met
=============================================================================
