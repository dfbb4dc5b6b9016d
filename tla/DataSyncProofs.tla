--------------------------- MODULE DataSyncProofs ----------------------------
(***************************************************************************)
(* Proofs about DataSync, for every set of syncs, imports, dates and       *)
(* answers, on either database.                                            *)
(***************************************************************************)
EXTENDS DataSync, InductionTheorems

-----------------------------------------------------------------------------
(***************************************************************************)
(* The strengthening.  What a sync or an import has written and what it    *)
(* still has to do follow from its answer: nothing is pending outside its  *)
(* transaction; what is pending comes from the answer and before the dates *)
(* that are left; the bar it is about to flush is between the two.         *)
(***************************************************************************)
Pending(x) ==
  /\ act[x].pc \notin Storing => pend[x] = Nothing
  /\ act[x].named => x \notin Syncs /\ act[x].pc \in {"select", "flush"}
  /\ \A d \in Dates : pend[x][d] # NoBar =>
       /\ pend[x][d] = act[x].answer[d]
       /\ \A e \in act[x].todo : d < e
       /\ act[x].pc = "flush" => d < act[x].at

Ahead(x) ==
  /\ act[x].todo \subseteq DatesIn(act[x].answer)
  /\ act[x].pc = "begin_store" => act[x].todo = DatesIn(act[x].answer)
  /\ act[x].pc \in {"report", "commit"} => act[x].todo = {}
  /\ act[x].pc = "flush" =>
       /\ act[x].at \in DatesIn(act[x].answer)
       /\ \A e \in act[x].todo : act[x].at < e
       /\ act[x].seen # NoBar => bars[SourceOf(x)][act[x].at] # NoBar

\* Every bar of the answer of a storing sync is ahead, pending or stored.
Covered(x) ==
  x \in Syncs /\ act[x].pc \in Storing =>
    \A d \in DatesIn(act[x].answer) :
      \/ d \in act[x].todo \/ (act[x].pc = "flush" /\ d = act[x].at)
      \/ pend[x][d] # NoBar \/ bars["akshare"][d] # NoBar

ActorInv(x) == Pending(x) /\ Ahead(x) /\ Covered(x)

RowInv == \A s \in Syncs : row[s].status = "succeeded" => act[s].pc = "done"

IInv == /\ TypeOK /\ RowInv /\ VerdictIsTrue
        /\ \A x \in Actors : ActorInv(x)

-----------------------------------------------------------------------------
LEMMA IdleIsActor == Idle \in Actor /\ Nothing \in Series
BY ClosesAssumption DEF Idle, Actor, Pc, Names, Causes, Series, Nothing, NoBar

LEMMA InitInv == Init => IInv
<1>. SUFFICES ASSUME Init PROVE IInv
  OBVIOUS
<1>1. TypeOK
  BY IdleIsActor, DatabasesAssumption
  DEF Init, TypeOK, Names, Row, NoRow, Causes, Sources
<1>2. RowInv /\ SucceededIsStored
  BY DEF Init, RowInv, SucceededIsStored, NoRow
<1>3. StoredIsVouched
  BY DEF Init, StoredIsVouched, DatesIn, Nothing
<1>4. ASSUME NEW x \in Actors PROVE ActorInv(x)
  BY DEF Init, ActorInv, Pending, Ahead, Covered, Idle, Nothing, DatesIn, Storing
<1>. QED
  BY <1>1, <1>2, <1>3, <1>4 DEF IInv, VerdictIsTrue

(***************************************************************************)
(* An actor that does not move is not disturbed by the others, as long as  *)
(* no bar is deleted.                                                      *)
(***************************************************************************)
LEMMA Untouched ==
  ASSUME NEW y \in Actors, ActorInv(y), TypeOK,
         act'[y] = act[y], pend'[y] = pend[y],
         \A src \in Sources, d \in Dates :
           bars[src][d] # NoBar => bars'[src][d] # NoBar
  PROVE  ActorInv(y)'
<1>1. Pending(y)'
  BY DEF ActorInv, Pending
<1>2. Ahead(y)'
  BY DEF ActorInv, Ahead, DatesIn, SourceOf, Sources
<1>3. Covered(y)'
  BY DEF ActorInv, Covered, DatesIn, Sources
<1>. QED
  BY <1>1, <1>2, <1>3 DEF ActorInv

(***************************************************************************)
(* A step of one actor that commits no bar keeps the invariant if the      *)
(* actor keeps its part of it.                                             *)
(***************************************************************************)
Quiet(x) ==
  /\ \A y \in Actors \ {x} : act'[y] = act[y] /\ pend'[y] = pend[y]
  /\ \A s \in Syncs \ {x} : row'[s] = row[s]
  /\ x \in Syncs => row'[x].status # "succeeded"
  /\ act[x].pc # "done" /\ bars' = bars

LEMMA QuietStep ==
  ASSUME IInv, NEW x \in Actors, Quiet(x), TypeOK', ActorInv(x)'
  PROVE  IInv'
<1>1. ASSUME NEW y \in Actors PROVE ActorInv(y)'
  <2>1. CASE y = x
    BY <2>1
  <2>2. CASE y # x
    BY <2>2, Untouched DEF IInv, Quiet
  <2>. QED
    BY <2>1, <2>2
<1>2. RowInv'
  BY DEF IInv, RowInv, Quiet, Actors
<1>3. SucceededIsStored'
  <2>. SUFFICES ASSUME NEW s \in Syncs, row'[s].status = "succeeded"
                PROVE  /\ row'[s].imported = Cardinality(DatesIn(act'[s].answer))
                       /\ \A d \in DatesIn(act'[s].answer) :
                            bars'["akshare"][d] # NoBar
    BY Zenon DEF SucceededIsStored
  <2>1. s # x /\ s \in Actors
    BY DEF Quiet, Actors
  <2>2. row'[s] = row[s] /\ act'[s] = act[s] /\ bars' = bars
    BY <2>1 DEF Quiet
  <2>. QED
    BY <2>2 DEF IInv, VerdictIsTrue, SucceededIsStored
<1>4. StoredIsVouched'
  <2>. SUFFICES ASSUME NEW src \in Sources, NEW d \in DatesIn(bars[src])
                PROVE  \E y \in Actors : SourceOf(y) = src
                                         /\ Vouched(y, d, bars[src][d])'
    BY DEF StoredIsVouched, Quiet, DatesIn
  <2>1. PICK y \in Actors : SourceOf(y) = src /\ Vouched(y, d, bars[src][d])
    BY DEF IInv, VerdictIsTrue, StoredIsVouched
  <2>2. y # x
    BY <2>1 DEF Vouched, IInv, RowInv, Quiet, Actors
  <2>3. Vouched(y, d, bars[src][d])'
    BY <2>1, <2>2 DEF Vouched, Quiet
  <2>. QED
    BY <2>1, <2>3
<1>. QED
  BY <1>1, <1>2, <1>3, <1>4 DEF IInv, VerdictIsTrue

\* What becomes of the actor itself when its transaction is given up.
LEMMA NothingLeft ==
  ASSUME NEW x, act'[x].pc \notin Storing \cup {"begin_store"},
         act'[x].named = FALSE, act'[x].todo = {}, pend'[x] = Nothing
  PROVE  ActorInv(x)'
BY DEF ActorInv, Pending, Ahead, Covered, Storing, Nothing, DatesIn

LEMMA Stopped ==
  ASSUME IInv, NEW x \in Actors, NEW a \in Actor,
         a.pc \notin Storing \cup {"begin_store"},
         a.named = FALSE, a.todo = {},
         act' = [act EXCEPT ![x] = a],
         pend' = [pend EXCEPT ![x] = Nothing] \/ (pend' = pend /\ pend[x] = Nothing),
         act[x].pc # "done", UNCHANGED <<database, name, bars, cancelled, met>>,
         row' = row \/ (/\ x \in Syncs /\ row' \in [Syncs -> Row]
                        /\ \A s \in Syncs \ {x} : row'[s] = row[s]
                        /\ row'[x].status # "succeeded")
  PROVE  IInv'
<1>. USE IdleIsActor
<1>1. TypeOK
  BY DEF IInv
<1>2. act'[x] = a /\ pend'[x] = Nothing /\ act' \in [Actors -> Actor]
      /\ pend' \in [Actors -> Series]
  BY <1>1 DEF TypeOK
<1>3. row' \in [Syncs -> Row]
  BY <1>1 DEF TypeOK
<1>4. TypeOK'
  BY <1>1, <1>2, <1>3 DEF TypeOK
<1>5. Quiet(x)
  BY <1>1 DEF TypeOK, Quiet, IInv, RowInv
<1>6. ActorInv(x)'
  BY <1>2, NothingLeft
<1>. QED
  BY <1>4, <1>5, <1>6, QuietStep

LEMMA Raised ==
  ASSUME IInv, NEW x \in Actors, NEW why \in Causes, Raise(x, why),
         act[x].pc # "done", UNCHANGED <<database, shared, cancelled, met>>
  PROVE  IInv'
<1>. DEFINE a == [Idle EXCEPT !.pc = IF x \in Syncs THEN "failing" ELSE "raised",
                              !.why = why]
<1>1. a \in Actor /\ a.pc \notin Storing \cup {"begin_store"}
      /\ a.named = FALSE /\ a.todo = {}
  BY IdleIsActor DEF Idle, Actor, Pc, Storing
<1>2. act' = [act EXCEPT ![x] = a] /\ pend' = [pend EXCEPT ![x] = Nothing]
  BY DEF Raise
<1>. HIDE DEF a
<1>. QED
  BY <1>1, <1>2, Stopped DEF shared

LEMMA StoppedAt ==
  ASSUME IInv, NEW x \in Actors, NEW pc \in {"raised", "dead"}, Stop(x, pc),
         act[x].pc # "done",
         pend' = [pend EXCEPT ![x] = Nothing] \/ (pend' = pend /\ pend[x] = Nothing),
         UNCHANGED <<database, name, bars, cancelled, met>>,
         row' = row \/ (/\ x \in Syncs /\ row' \in [Syncs -> Row]
                        /\ \A s \in Syncs \ {x} : row'[s] = row[s]
                        /\ row'[x].status # "succeeded")
  PROVE  IInv'
<1>. DEFINE a == [Idle EXCEPT !.pc = pc]
<1>1. a \in Actor /\ a.pc \notin Storing \cup {"begin_store"}
      /\ a.named = FALSE /\ a.todo = {}
  BY IdleIsActor DEF Idle, Actor, Pc, Storing
<1>2. act' = [act EXCEPT ![x] = a]
  BY DEF Stop
<1>. HIDE DEF a
<1>. QED
  BY <1>1, <1>2, Stopped

\* a and p are what ActorInv(x) demands of act[x] and pend[x].
Fits(x, a, p) ==
  /\ a \in Actor /\ p \in Series
  /\ a.pc \notin Storing => p = Nothing
  /\ a.named => x \notin Syncs /\ a.pc \in {"select", "flush"}
  /\ \A d \in Dates : p[d] # NoBar =>
       /\ p[d] = a.answer[d]
       /\ \A e \in a.todo : d < e
       /\ a.pc = "flush" => d < a.at
  /\ a.todo \subseteq DatesIn(a.answer)
  /\ a.pc = "begin_store" => a.todo = DatesIn(a.answer)
  /\ a.pc \in {"report", "commit"} => a.todo = {}
  /\ a.pc = "flush" =>
       /\ a.at \in DatesIn(a.answer) /\ \A e \in a.todo : a.at < e
       /\ a.seen # NoBar => bars[SourceOf(x)][a.at] # NoBar
  /\ x \in Syncs /\ a.pc \in Storing =>
       \A d \in DatesIn(a.answer) :
         \/ d \in a.todo \/ (a.pc = "flush" /\ d = a.at)
         \/ p[d] # NoBar \/ bars["akshare"][d] # NoBar

LEMMA Moved ==
  ASSUME IInv, NEW x \in Actors, NEW a, NEW p, Fits(x, a, p),
         act[x].pc # "done",
         act' = [act EXCEPT ![x] = a], pend' = [pend EXCEPT ![x] = p],
         UNCHANGED <<database, name, bars, row, cancelled>>,
         met' \in SUBSET Syncs
  PROVE  IInv'
<1>1. TypeOK
  BY DEF IInv
<1>2. act'[x] = a /\ pend'[x] = p /\ act' \in [Actors -> Actor]
      /\ pend' \in [Actors -> Series]
  BY <1>1 DEF TypeOK, Fits
<1>3. TypeOK'
  BY <1>1, <1>2 DEF TypeOK
<1>4. Quiet(x)
  BY <1>1 DEF TypeOK, Quiet, IInv, RowInv
<1>5. Pending(x)'
  BY <1>2 DEF Pending, Fits
<1>6. Ahead(x)'
  BY <1>2 DEF Ahead, DatesIn, Fits
<1>7. Covered(x)'
  BY <1>2 DEF Covered, DatesIn, Fits
<1>. QED
  BY <1>3, <1>4, <1>5, <1>6, <1>7, QuietStep DEF ActorInv

\* Nothing is left to do at done, so no step is taken from there.
LEMMA PendIsSelf ==
  ASSUME IInv, NEW x \in Actors
  PROVE  /\ act[x] \in Actor /\ pend[x] \in Series
         /\ pend = [pend EXCEPT ![x] = pend[x]] /\ ActorInv(x)
         /\ met \in SUBSET Syncs
BY DEF IInv, TypeOK

-----------------------------------------------------------------------------
LEMMA StepSelectInstrument ==
  ASSUME IInv, NEW x \in Actors, SelectInstrument(x)
  PROVE  IInv'
<1>1. PICK f \in Series :
        act' = [act EXCEPT ![x] = [@ EXCEPT !.pc = "upsert", !.saw = name,
                                            !.answer = f, !.todo = DatesIn(f)]]
  BY AnswersAssumption, IdleIsActor DEF SelectInstrument, Series
<1>. DEFINE a == [act[x] EXCEPT !.pc = "upsert", !.saw = name,
                                !.answer = f, !.todo = DatesIn(f)]
<1>2. act[x] \in Actor /\ pend[x] = Nothing /\ act[x].named = FALSE
      /\ act[x].pc = "idle" /\ name \in Names
  BY PendIsSelf DEF SelectInstrument, ActorInv, Pending, Storing, IInv, TypeOK, Actor
<1>3. a \in Actor /\ a.pc = "upsert" /\ a.named = FALSE
      /\ a.todo = DatesIn(a.answer)
  BY <1>2 DEF Actor, Pc, DatesIn
<1>4. act' = [act EXCEPT ![x] = a]
  BY <1>1
<1>. HIDE DEF a
<1>5. UNCHANGED <<database, name, bars, row, cancelled, pend, met>>
  BY DEF SelectInstrument, shared
<1>6. \A d \in Dates : Nothing[d] = NoBar
  BY DEF Nothing
<1>7. Nothing \in Series /\ pend' = [pend EXCEPT ![x] = Nothing]
      /\ met' \in SUBSET Syncs /\ a.pc \notin Storing
  BY <1>2, <1>3, <1>5, PendIsSelf, IdleIsActor DEF Storing
<1>8. UNCHANGED <<database, name, bars, row, cancelled>>
  BY <1>5
<1>9. Fits(x, a, Nothing)
  BY <1>3, <1>6, <1>7 DEF Fits
<1>. QED
  BY <1>2, <1>4, <1>7, <1>8, <1>9, Moved

LEMMA StepUpsertSymbol ==
  ASSUME IInv, NEW s \in Syncs, UpsertSymbol(s)
  PROVE  IInv'
<1>. s \in Actors
  BY DEF Actors
<1>1. act[s] \in Actor /\ pend[s] = Nothing /\ act[s].named = FALSE
      /\ act[s].pc = "upsert" /\ act[s].todo \subseteq Dates
  BY PendIsSelf DEF UpsertSymbol, ActorInv, Pending, Storing, Actor
<1>2. CASE SymbolTaken(s)
  BY <1>1, <1>2, StoppedAt DEF UpsertSymbol
<1>3. CASE ~SymbolTaken(s)
  <2>. DEFINE a == [act[s] EXCEPT !.pc = "begun", !.at = 0, !.seen = NoBar,
                                  !.saw = "absent"]
  <2>1. a \in Actor /\ a.pc = "begun" /\ a.named = FALSE
        /\ a.answer = act[s].answer /\ a.todo = act[s].todo
    BY <1>1, ClosesAssumption DEF Actor, Pc, Names, NoBar
  <2>2. act' = [act EXCEPT ![s] = a]
    BY <1>3 DEF UpsertSymbol, Resume
  <2>. HIDE DEF a
  <2>3. /\ row' = [row EXCEPT ![s] = [@ EXCEPT !.status = "running"]]
        /\ name' \in Names
        /\ UNCHANGED <<database, bars, cancelled, pend, met>>
    BY <1>3 DEF UpsertSymbol, IInv, TypeOK, Names
  <2>4. row' \in [Syncs -> Row] /\ row'[s].status = "running"
        /\ \A q \in Syncs \ {s} : row'[q] = row[q]
    BY <2>3 DEF IInv, TypeOK, Row
  <2>5. act'[s] = a /\ \A y \in Actors \ {s} : act'[y] = act[y]
    BY <2>2 DEF IInv, TypeOK
  <2>6. TypeOK'
    BY <2>1, <2>2, <2>3, <2>4 DEF IInv, TypeOK
  <2>7. Quiet(s)
    BY <1>1, <2>3, <2>4, <2>5 DEF Quiet
  <2>8. act[s].todo \subseteq DatesIn(act[s].answer)
    BY PendIsSelf DEF ActorInv, Ahead
  <2>9. ActorInv(s)'
    BY <1>1, <2>1, <2>3, <2>5, <2>8
    DEF ActorInv, Pending, Ahead, Covered, Storing, Nothing, DatesIn
  <2>. QED
    BY <2>6, <2>7, <2>9, QuietStep
<1>. QED
  BY <1>2, <1>3

\* From one pc outside of the storing transaction to another.
LEMMA Went ==
  ASSUME IInv, NEW s \in Syncs, NEW pc \in Pc, Goto(s, pc), pend' = pend,
         act[s].pc \in {"begun", "begin_store"},
         pc = "fetch" \/ (pc = "select" /\ act[s].pc = "begin_store"),
         UNCHANGED <<database, name, bars, row, cancelled>>,
         met' \in SUBSET Syncs
  PROVE  IInv'
<1>. s \in Actors
  BY DEF Actors
<1>. DEFINE a == [act[s] EXCEPT !.pc = pc]
<1>1. act[s] \in Actor /\ pend[s] = Nothing /\ act[s].named = FALSE
      /\ act[s].todo \subseteq DatesIn(act[s].answer)
      /\ (act[s].pc = "begin_store" => act[s].todo = DatesIn(act[s].answer))
  BY PendIsSelf DEF ActorInv, Pending, Ahead, Storing, Actor
<1>2. /\ a \in Actor /\ a.pc = pc /\ a.named = FALSE
      /\ a.answer = act[s].answer /\ a.todo = act[s].todo
  BY <1>1 DEF Actor
<1>3. act' = [act EXCEPT ![s] = a]
  BY DEF Goto
<1>. HIDE DEF a
<1>4. Nothing \in Series /\ pend' = [pend EXCEPT ![s] = Nothing]
      /\ \A d \in Dates : Nothing[d] = NoBar
  BY <1>1, PendIsSelf, IdleIsActor DEF Nothing
<1>5. pc # "flush" /\ pc # "begin_store" /\ pc \notin {"report", "commit"}
      /\ act[s].pc # "done"
  OBVIOUS
<1>6. a.todo \subseteq DatesIn(a.answer)
      /\ (a.pc \in Storing => \A d \in DatesIn(a.answer) : d \in a.todo)
  BY <1>1, <1>2 DEF Storing
<1>7. Fits(s, a, Nothing)
  BY <1>1, <1>2, <1>4, <1>5, <1>6 DEF Fits
<1>. QED
  BY <1>3, <1>4, <1>5, <1>7, Moved

LEMMA StepBetween ==
  ASSUME IInv, NEW s \in Syncs, BeginFetch(s) \/ BeginStore(s)
  PROVE  IInv'
<1>. s \in Actors
  BY DEF Actors
<1>1. met' \in SUBSET Syncs
  BY PendIsSelf DEF BeginFetch, BeginStore
<1>2. CASE s \in cancelled
  <2>1. Raise(s, "cancelled") /\ act[s].pc # "done"
        /\ UNCHANGED <<database, shared, cancelled, met>>
    BY <1>2 DEF BeginFetch, BeginStore, CheckedReport
  <2>. QED
    BY <2>1, Raised DEF Causes
<1>3. CASE s \notin cancelled
  <2>1. CASE BeginFetch(s)
    BY <1>1, <1>3, <2>1, Went DEF BeginFetch, CheckedReport, shared, Pc
  <2>2. CASE BeginStore(s)
    BY <1>1, <1>3, <2>2, Went DEF BeginStore, CheckedReport, shared, Pc
  <2>. QED
    BY <2>1, <2>2
<1>. QED
  BY <1>2, <1>3

LEMMA StepFetch ==
  ASSUME IInv, NEW s \in Syncs, Fetch(s)
  PROVE  IInv'
<1>. s \in Actors
  BY DEF Actors
<1>1. PICK f \in Series :
        act' = [act EXCEPT ![s] = [@ EXCEPT !.pc = "begin_store", !.answer = f,
                                            !.todo = DatesIn(f)]]
  BY AnswersAssumption DEF Fetch, Series
<1>. DEFINE a == [act[s] EXCEPT !.pc = "begin_store", !.answer = f,
                                !.todo = DatesIn(f)]
<1>2. act[s] \in Actor /\ pend[s] = Nothing /\ act[s].named = FALSE
      /\ act[s].pc = "fetch"
  BY PendIsSelf DEF Fetch, ActorInv, Pending, Storing, Actor
<1>3. a \in Actor /\ a.pc = "begin_store" /\ a.named = FALSE
      /\ a.todo = DatesIn(a.answer)
  BY <1>2 DEF Actor, Pc, DatesIn
<1>4. act' = [act EXCEPT ![s] = a]
  BY <1>1
<1>. HIDE DEF a
<1>5. UNCHANGED <<database, name, bars, row, cancelled>> /\ UNCHANGED <<pend, met>>
  BY DEF Fetch, shared
<1>6. Nothing \in Series /\ pend' = [pend EXCEPT ![s] = Nothing]
      /\ met' \in SUBSET Syncs /\ a.pc \notin Storing
      /\ \A d \in Dates : Nothing[d] = NoBar
  BY <1>2, <1>3, <1>5, PendIsSelf, IdleIsActor DEF Storing, Nothing
<1>7. Fits(s, a, Nothing)
  BY <1>3, <1>6 DEF Fits
<1>. QED
  BY <1>2, <1>4, <1>5, <1>6, <1>7, Moved

LEMMA StepSelectBar ==
  ASSUME IInv, NEW x \in Actors, SelectBar(x)
  PROVE  IInv'
<1>1. PICK d \in act[x].todo :
        /\ \A e \in act[x].todo : d <= e
        /\ act' = [act EXCEPT ![x] =
                     [@ EXCEPT !.pc = "flush", !.at = d, !.todo = act[x].todo \ {d},
                               !.seen = bars[SourceOf(x)][d]]]
  BY DEF SelectBar
<1>. DEFINE a == [act[x] EXCEPT !.pc = "flush", !.at = d, !.todo = act[x].todo \ {d},
                                !.seen = bars[SourceOf(x)][d]]
<1>2. act[x] \in Actor /\ act[x].pc = "select" /\ ActorInv(x)
      /\ pend[x] \in Series
  BY PendIsSelf DEF SelectBar
<1>3. d \in DatesIn(act[x].answer) /\ d \in Dates
  BY <1>2 DEF ActorInv, Ahead, DatesIn
<1>4. bars[SourceOf(x)][d] \in Closes \cup {NoBar}
  BY <1>3 DEF IInv, TypeOK, Series, Sources, SourceOf
<1>5. a \in Actor /\ a.pc = "flush" /\ a.at = d /\ a.todo = act[x].todo \ {d}
      /\ a.seen = bars[SourceOf(x)][d] /\ a.answer = act[x].answer
      /\ a.named = act[x].named
  BY <1>2, <1>3, <1>4, DatesAssumption DEF Actor, Pc
<1>6. act' = [act EXCEPT ![x] = a]
  BY <1>1
<1>. HIDE DEF a
<1>7. UNCHANGED <<database, name, bars, row, cancelled>>
      /\ pend' = [pend EXCEPT ![x] = pend[x]] /\ met' \in SUBSET Syncs
  <2>1. UNCHANGED <<database, name, bars, row, cancelled, pend, met>>
    BY DEF SelectBar, shared
  <2>. QED
    BY <2>1, PendIsSelf
<1>8. \A e \in a.todo : d < e
  BY <1>1, <1>2, <1>5, <1>3, DatesAssumption DEF Actor
<1>9. \A c \in Dates : pend[x][c] # NoBar =>
        /\ pend[x][c] = a.answer[c] /\ \A e \in a.todo : c < e
        /\ c < a.at
  BY <1>2, <1>5, <1>1 DEF ActorInv, Pending
<1>10. a.todo \subseteq DatesIn(a.answer)
  BY <1>2, <1>5 DEF ActorInv, Ahead
<1>11. x \in Syncs => \A c \in DatesIn(a.answer) :
         \/ c \in a.todo \/ c = a.at \/ pend[x][c] # NoBar
         \/ bars["akshare"][c] # NoBar
  BY <1>2, <1>5 DEF ActorInv, Covered, Storing
<1>12. a.pc \in Storing
  BY <1>5 DEF Storing
<1>13. a.named => x \notin Syncs /\ a.pc \in {"select", "flush"}
  BY <1>2, <1>5 DEF ActorInv, Pending
<1>14. a.at \in DatesIn(a.answer)
       /\ (a.seen # NoBar => bars[SourceOf(x)][a.at] # NoBar)
       /\ \A e \in a.todo : a.at < e
  BY <1>3, <1>5, <1>8
<1>15. Fits(x, a, pend[x])
  BY <1>2, <1>5, <1>9, <1>10, <1>11, <1>12, <1>13, <1>14 DEF Fits
<1>. QED
  BY <1>2, <1>6, <1>7, <1>15, Moved

LEMMA StepFlushBar ==
  ASSUME IInv, NEW x \in Actors, FlushBar(x)
  PROVE  IInv'
<1>. DEFINE a == [act[x] EXCEPT !.pc = "select", !.at = 0, !.seen = NoBar,
                                !.saw = "absent"]
            d == act[x].at
            c == act[x].answer[d]
<1>1. act[x] \in Actor /\ act[x].pc = "flush" /\ ActorInv(x)
      /\ pend[x] \in Series
  BY PendIsSelf DEF FlushBar
<1>2. d \in DatesIn(act[x].answer) /\ d \in Dates /\ c # NoBar
      /\ c \in Closes \cup {NoBar}
      /\ \A e \in act[x].todo : d < e
  BY <1>1 DEF ActorInv, Ahead, DatesIn, Actor, Series
<1>3. a \in Actor /\ a.pc = "select" /\ a.todo = act[x].todo
      /\ a.answer = act[x].answer /\ (a.named => x \notin Syncs)
  BY <1>1 DEF Actor, Pc, Names, NoBar, ActorInv, Pending
<1>4. UNCHANGED <<database, name, bars, row, cancelled>>
      /\ met' \in SUBSET Syncs /\ met' = met
  BY PendIsSelf DEF FlushBar, shared
<1>5. a.todo \subseteq DatesIn(a.answer) /\ a.pc \in Storing
  BY <1>1, <1>3 DEF ActorInv, Ahead, Storing
<1>6. CASE act[x].seen = c
  <2>1. act' = [act EXCEPT ![x] = a] /\ pend' = [pend EXCEPT ![x] = pend[x]]
    BY <1>6, PendIsSelf DEF FlushBar, Resume
  <2>2. \A e \in Dates : pend[x][e] # NoBar =>
          pend[x][e] = a.answer[e] /\ \A f \in a.todo : e < f
    BY <1>1, <1>3 DEF ActorInv, Pending
  <2>3. bars[SourceOf(x)][d] # NoBar
    BY <1>1, <1>2, <1>6 DEF ActorInv, Ahead
  <2>4. x \in Syncs => \A e \in DatesIn(a.answer) :
          \/ e \in a.todo \/ pend[x][e] # NoBar \/ bars["akshare"][e] # NoBar
    BY <1>1, <1>3, <2>3 DEF ActorInv, Covered, Storing, SourceOf
  <2>. HIDE DEF a, c, d
  <2>5. Fits(x, a, pend[x])
    BY <1>1, <1>3, <1>5, <2>2, <2>4 DEF Fits
  <2>. QED
    BY <1>1, <1>4, <2>1, <2>5, Moved
<1>7. CASE act[x].seen # c /\ act[x].seen = NoBar /\ bars[SourceOf(x)][d] # NoBar
  BY <1>1, <1>4, <1>7, Raised DEF FlushBar, shared, Causes
<1>8. CASE act[x].seen # c /\ ~(act[x].seen = NoBar /\ bars[SourceOf(x)][d] # NoBar)
  <2>. DEFINE p == [pend[x] EXCEPT ![d] = c]
  <2>1. act' = [act EXCEPT ![x] = a] /\ pend' = [pend EXCEPT ![x] = p]
    BY <1>8 DEF FlushBar, Resume
  <2>2. p \in Series /\ p[d] = c /\ \A e \in Dates \ {d} : p[e] = pend[x][e]
    BY <1>1, <1>2 DEF Series
  <2>3. \A e \in Dates : p[e] # NoBar =>
          p[e] = a.answer[e] /\ \A f \in a.todo : e < f
    BY <1>1, <1>2, <1>3, <2>2 DEF ActorInv, Pending
  <2>4. x \in Syncs => \A e \in DatesIn(a.answer) :
          \/ e \in a.todo \/ p[e] # NoBar \/ bars["akshare"][e] # NoBar
    BY <1>1, <1>2, <1>3, <2>2 DEF ActorInv, Covered, Storing, DatesIn
  <2>. HIDE DEF a, p, c, d
  <2>5. Fits(x, a, p)
    BY <1>1, <1>3, <1>5, <2>2, <2>3, <2>4 DEF Fits
  <2>. QED
    BY <1>1, <1>4, <2>1, <2>5, Moved
<1>. QED
  BY <1>6, <1>7, <1>8

LEMMA StepEndLoop ==
  ASSUME IInv, NEW s \in Syncs, EndLoop(s) \/ ReportStored(s)
  PROVE  IInv'
<1>. s \in Actors
  BY DEF Actors
<1>1. PICK pc \in {"report", "commit"} : Goto(s, pc)
  BY DEF EndLoop, ReportStored
<1>. DEFINE a == [act[s] EXCEPT !.pc = pc]
<1>2. act[s] \in Actor /\ pend[s] \in Series /\ ActorInv(s)
      /\ act[s].pc \in {"select", "report"} /\ act[s].todo = {}
  BY PendIsSelf DEF EndLoop, ReportStored, ActorInv, Ahead
<1>3. a \in Actor /\ a.pc = pc /\ a.answer = act[s].answer
      /\ a.todo = {} /\ ~a.named
  BY <1>2 DEF Actor, Pc, ActorInv, Pending
<1>4. act' = [act EXCEPT ![s] = a]
  BY <1>1 DEF Goto
<1>. HIDE DEF a
<1>5. UNCHANGED <<database, name, bars, row, cancelled>>
      /\ pend' = [pend EXCEPT ![s] = pend[s]] /\ met' \in SUBSET Syncs
  <2>1. UNCHANGED <<database, name, bars, row, cancelled, pend, met>>
    BY DEF EndLoop, ReportStored, shared
  <2>. QED
    BY <2>1, PendIsSelf
<1>6. Fits(s, a, pend[s])
  BY <1>2, <1>3 DEF Fits, ActorInv, Pending, Covered, Storing
<1>. QED
  BY <1>2, <1>4, <1>5, <1>6, Moved

LEMMA StepImportSymbol ==
  ASSUME IInv, NEW x \in Imports, ImportSymbol(x)
  PROVE  IInv'
<1>. x \in Actors /\ x \notin Syncs
  BY ActorsAssumption DEF Actors
<1>1. act[x] \in Actor /\ pend[x] = Nothing /\ ActorInv(x)
      /\ act[x].pc = "upsert"
  BY PendIsSelf DEF ImportSymbol, ActorInv, Pending, Storing
<1>2. UNCHANGED <<database, name, bars, row, cancelled>> /\ met' = met
      /\ met' \in SUBSET Syncs
  BY PendIsSelf DEF ImportSymbol, shared
<1>3. CASE Raise(x, "conflict")
  BY <1>1, <1>2, <1>3, Raised DEF shared, Causes
<1>4. CASE pend' = pend /\ ~Raise(x, "conflict")
  <2>1. PICK a \in Actor :
          /\ act' = [act EXCEPT ![x] = a]
          /\ a.pc = "select" /\ a.answer = act[x].answer /\ a.todo = act[x].todo
    <3>1. CASE Resume(x, "select")
      <4>. DEFINE b == [act[x] EXCEPT !.pc = "select", !.at = 0,
                                      !.seen = NoBar, !.saw = "absent"]
      <4>1. b \in Actor /\ b.pc = "select" /\ b.answer = act[x].answer
            /\ b.todo = act[x].todo
        BY <1>1 DEF Actor, Pc, Names, NoBar
      <4>2. act' = [act EXCEPT ![x] = b]
        BY <3>1 DEF Resume
      <4>. HIDE DEF b
      <4>. QED
        BY <4>1, <4>2
    <3>2. CASE act' = [act EXCEPT ![x] = [@ EXCEPT !.pc = "select",
                                          !.saw = "absent", !.named = TRUE]]
      <4>. DEFINE b == [act[x] EXCEPT !.pc = "select", !.saw = "absent",
                                      !.named = TRUE]
      <4>1. b \in Actor /\ b.pc = "select" /\ b.answer = act[x].answer
            /\ b.todo = act[x].todo
        BY <1>1 DEF Actor, Pc, Names
      <4>2. act' = [act EXCEPT ![x] = b]
        BY <3>2
      <4>. HIDE DEF b
      <4>. QED
        BY <4>1, <4>2
    <3>. QED
      BY <1>4, <3>1, <3>2 DEF ImportSymbol
  <2>2. Fits(x, a, Nothing)
    BY <1>1, <2>1, IdleIsActor
    DEF Fits, ActorInv, Ahead, Storing, Nothing
  <2>3. pend' = [pend EXCEPT ![x] = Nothing]
    BY <1>1, <1>4, PendIsSelf
  <2>. QED
    BY <1>1, <1>2, <2>1, <2>2, <2>3, Moved
<1>. QED
  BY <1>3, <1>4 DEF ImportSymbol

LEMMA StepEnds ==
  ASSUME IInv, NEW x \in Actors,
         \/ RejectRequest(x) \/ LockTimeout(x) \/ Crash(x)
         \/ x \in Imports /\ ImportFails(x)
         \/ x \in Syncs /\ (FetchFails(x) \/ CancelStore(x) \/ MarkFailed(x))
  PROVE  IInv'
<1>1. act[x].pc \notin Storing => pend[x] = Nothing
  BY PendIsSelf DEF ActorInv, Pending
<1>2. CASE RejectRequest(x)
  BY <1>1, <1>2, StoppedAt DEF RejectRequest, Storing, shared
<1>3. CASE LockTimeout(x)
  <2>1. act[x].pc # "done"
    BY <1>3 DEF LockTimeout, AboutToWrite
  <2>2. CASE act[x].pc = "failing"
    BY <1>1, <1>3, <2>2, StoppedAt DEF LockTimeout, Storing, shared
  <2>3. CASE act[x].pc # "failing"
    BY <1>3, <2>1, <2>3, Raised DEF LockTimeout, Causes
  <2>. QED
    BY <2>2, <2>3
<1>4. CASE Crash(x)
  BY <1>4, StoppedAt DEF Crash, shared
<1>5. CASE ImportFails(x)
  BY <1>5, Raised DEF ImportFails, Causes
<1>6. CASE FetchFails(x)
  BY <1>6, Raised DEF FetchFails, Causes
<1>7. CASE CancelStore(x)
  BY <1>7, Raised DEF CancelStore, Causes
<1>8. CASE x \in Syncs /\ MarkFailed(x)
  <2>1. row' = [row EXCEPT ![x] = [@ EXCEPT !.status = "failed",
                                            !.error = act[x].why]]
        /\ act[x].why \in Causes
    BY <1>8, PendIsSelf DEF MarkFailed, Actor
  <2>2. row' \in [Syncs -> Row] /\ row'[x].status # "succeeded"
        /\ \A s \in Syncs \ {x} : row'[s] = row[s]
    BY <1>8, <2>1 DEF IInv, TypeOK, Row
  <2>. QED
    BY <1>1, <1>8, <2>2, StoppedAt DEF MarkFailed, Storing
<1>. QED
  BY <1>2, <1>3, <1>4, <1>5, <1>6, <1>7, <1>8

LEMMA StepRequestCancel ==
  ASSUME IInv, NEW s \in Syncs, RequestCancel(s)
  PROVE  IInv'
<1>1. UNCHANGED <<database, shared, act, pend, met>>
      /\ cancelled' \in SUBSET Syncs
  BY DEF RequestCancel, IInv, TypeOK
<1>2. TypeOK' /\ RowInv'
  BY <1>1 DEF IInv, TypeOK, RowInv, shared
<1>3. SucceededIsStored'
  BY <1>1 DEF IInv, VerdictIsTrue, SucceededIsStored, shared, DatesIn
<1>4. StoredIsVouched'
  BY <1>1 DEF IInv, VerdictIsTrue, StoredIsVouched, Vouched, shared, DatesIn
<1>5. ASSUME NEW y \in Actors PROVE ActorInv(y)'
  BY <1>1, Untouched DEF IInv, shared
<1>. QED
  BY <1>2, <1>3, <1>4, <1>5 DEF IInv, VerdictIsTrue

-----------------------------------------------------------------------------
(***************************************************************************)
(* The two commits.  What x had pending becomes part of its source, and    *)
(* nothing that was there disappears.                                      *)
(***************************************************************************)
LEMMA CommittedBars ==
  ASSUME TypeOK, NEW x \in Actors
  PROVE  /\ Committed(x) \in [Sources -> Series]
         /\ \A src \in Sources, d \in Dates :
              Committed(x)[src][d] =
                IF src = SourceOf(x) /\ pend[x][d] # NoBar THEN pend[x][d]
                ELSE bars[src][d]
<1>. DEFINE new == [d \in Dates |-> IF pend[x][d] # NoBar THEN pend[x][d]
                                    ELSE bars[SourceOf(x)][d]]
<1>1. SourceOf(x) \in Sources /\ pend[x] \in Series
      /\ bars[SourceOf(x)] \in Series /\ bars \in [Sources -> Series]
  BY DEF TypeOK, SourceOf, Sources
<1>2. new \in Series
  BY <1>1 DEF Series
<1>3. Committed(x) = [bars EXCEPT ![SourceOf(x)] = new]
  BY DEF Committed
<1>4. \A d \in Dates : new[d] = IF pend[x][d] # NoBar THEN pend[x][d]
                                ELSE bars[SourceOf(x)][d]
  OBVIOUS
<1>. HIDE DEF new
<1>. QED
  BY <1>1, <1>2, <1>3, <1>4

LEMMA CommitStep ==
  ASSUME IInv, NEW x \in Actors, NEW a \in Actor,
         act[x].pc \in Storing, bars' = Committed(x),
         pend' = [pend EXCEPT ![x] = Nothing], act' = [act EXCEPT ![x] = a],
         a.pc = "done", a.named = FALSE, a.answer = act[x].answer, a.todo = {},
         UNCHANGED <<database, cancelled, met>>, name' \in Names,
         row' \in [Syncs -> Row], \A s \in Syncs \ {x} : row'[s] = row[s],
         x \in Syncs => /\ row'[x].status = "succeeded"
                        /\ row'[x].imported = Cardinality(DatesIn(act[x].answer))
                        /\ act[x].pc = "commit"
  PROVE  IInv'
<1>1. TypeOK /\ ActorInv(x)
  BY DEF IInv
<1>2. act'[x] = a /\ pend'[x] = Nothing
      /\ \A y \in Actors \ {x} : act'[y] = act[y] /\ pend'[y] = pend[y]
  BY <1>1 DEF TypeOK
<1>3. bars' \in [Sources -> Series]
      /\ \A src \in Sources, d \in Dates :
           bars'[src][d] = IF src = SourceOf(x) /\ pend[x][d] # NoBar
                           THEN pend[x][d] ELSE bars[src][d]
  BY <1>1, CommittedBars
<1>4. TypeOK'
  BY <1>1, <1>3, IdleIsActor DEF TypeOK
<1>5. \A src \in Sources, d \in Dates :
        bars[src][d] # NoBar => bars'[src][d] # NoBar
  BY <1>3
<1>6. ASSUME NEW y \in Actors PROVE ActorInv(y)'
  <2>1. CASE y = x
    BY <1>2, <2>1, NothingLeft DEF Storing
  <2>2. CASE y # x
    BY <1>1, <1>2, <1>5, <2>2, Untouched DEF IInv
  <2>. QED
    BY <2>1, <2>2
<1>7. RowInv'
  BY <1>2 DEF IInv, RowInv, Actors
<1>8. SucceededIsStored'
  <2>. SUFFICES ASSUME NEW s \in Syncs, row'[s].status = "succeeded"
                PROVE  /\ row'[s].imported = Cardinality(DatesIn(act'[s].answer))
                       /\ \A d \in DatesIn(act'[s].answer) :
                            bars'["akshare"][d] # NoBar
    BY Zenon DEF SucceededIsStored
  <2>. s \in Actors
    BY DEF Actors
  <2>1. CASE s = x
    <3>1. act'[s].answer = act[x].answer
      BY <1>2, <2>1
    <3>2. \A d \in DatesIn(act[x].answer) :
            pend[x][d] # NoBar \/ bars["akshare"][d] # NoBar
      BY <1>1, <2>1 DEF ActorInv, Ahead, Covered, Storing
    <3>3. \A d \in DatesIn(act[x].answer) : bars'["akshare"][d] # NoBar
      BY <1>3, <2>1, <3>2 DEF SourceOf, Sources, DatesIn
    <3>. QED
      BY <2>1, <3>1, <3>3
  <2>2. CASE s # x
    <3>1. row'[s] = row[s] /\ act'[s] = act[s]
      BY <1>2, <2>2
    <3>2. /\ row[s].imported = Cardinality(DatesIn(act[s].answer))
          /\ \A d \in DatesIn(act[s].answer) : bars["akshare"][d] # NoBar
      BY <3>1 DEF IInv, VerdictIsTrue, SucceededIsStored
    <3>. QED
      BY <1>5, <3>1, <3>2 DEF DatesIn, Sources
  <2>. QED
    BY <2>1, <2>2
<1>9. StoredIsVouched'
  <2>. SUFFICES ASSUME NEW src \in Sources, NEW d \in Dates,
                       bars'[src][d] # NoBar
                PROVE  \E y \in Actors : SourceOf(y) = src
                                         /\ Vouched(y, d, bars[src][d])'
    BY DEF StoredIsVouched, DatesIn
  <2>1. CASE src = SourceOf(x) /\ pend[x][d] # NoBar
    <3>1. bars'[src][d] = act[x].answer[d]
      BY <1>1, <1>3, <2>1 DEF ActorInv, Pending
    <3>2. Vouched(x, d, bars[src][d])'
      BY <1>2, <3>1 DEF Vouched
    <3>. QED
      BY <2>1, <3>2
  <2>2. CASE ~(src = SourceOf(x) /\ pend[x][d] # NoBar)
    <3>1. bars'[src][d] = bars[src][d]
      BY <1>3, <2>2
    <3>2. d \in DatesIn(bars[src])
      BY <3>1 DEF DatesIn
    <3>3. PICK y \in Actors : SourceOf(y) = src /\ Vouched(y, d, bars[src][d])
      BY <3>2 DEF IInv, VerdictIsTrue, StoredIsVouched
    <3>4. y # x
      BY <3>3 DEF Vouched, IInv, RowInv, Storing
    <3>5. Vouched(y, d, bars[src][d])'
      BY <1>2, <3>1, <3>3, <3>4 DEF Vouched
    <3>. QED
      BY <3>3, <3>5
  <2>. QED
    BY <2>1, <2>2
<1>. QED
  BY <1>4, <1>6, <1>7, <1>8, <1>9 DEF IInv, VerdictIsTrue

LEMMA StepCommitStored ==
  ASSUME IInv, NEW s \in Syncs, CommitStored(s)
  PROVE  IInv'
<1>. DEFINE a == [act[s] EXCEPT !.pc = "done"]
<1>. s \in Actors
  BY DEF Actors
<1>1. act[s] \in Actor /\ act[s].pc = "commit" /\ act[s].todo = {}
      /\ ~act[s].named
  BY PendIsSelf DEF CommitStored, ActorInv, Ahead, Pending
<1>2. a \in Actor /\ a.pc = "done" /\ a.named = FALSE
      /\ a.answer = act[s].answer /\ a.todo = {}
  BY <1>1 DEF Actor, Pc
<1>3. act' = [act EXCEPT ![s] = a]
  BY DEF CommitStored, Goto
<1>. HIDE DEF a
<1>4. row \in [Syncs -> Row] /\ Cardinality(DatesIn(act[s].answer)) \in Nat
  <2>1. DatesIn(act[s].answer) \in SUBSET Dates
    BY DEF DatesIn
  <2>. QED
    BY <2>1, DatesAssumption, FS_Subset, FS_CardinalityType DEF IInv, TypeOK
<1>5. row' \in [Syncs -> Row] /\ row'[s].status = "succeeded"
      /\ row'[s].imported = Cardinality(DatesIn(act[s].answer))
      /\ \A q \in Syncs \ {s} : row'[q] = row[q]
  BY <1>4 DEF CommitStored, Row
<1>6. name' \in Names
  BY DEF CommitStored, IInv, TypeOK
<1>. QED
  BY <1>1, <1>2, <1>3, <1>5, <1>6, CommitStep DEF CommitStored, Storing

LEMMA StepCommitImport ==
  ASSUME IInv, NEW x \in Imports, CommitImport(x)
  PROVE  IInv'
<1>. DEFINE a == [act[x] EXCEPT !.pc = "done", !.named = FALSE]
<1>. x \in Actors /\ x \notin Syncs
  BY ActorsAssumption DEF Actors
<1>1. act[x] \in Actor /\ act[x].pc = "select" /\ act[x].todo = {}
  BY PendIsSelf DEF CommitImport
<1>2. a \in Actor /\ a.pc = "done" /\ a.named = FALSE
      /\ a.answer = act[x].answer /\ a.todo = {}
  BY <1>1 DEF Actor, Pc
<1>3. act' = [act EXCEPT ![x] = a]
  BY DEF CommitImport
<1>. HIDE DEF a
<1>4. row' = row /\ row' \in [Syncs -> Row] /\ name' \in Names
  BY DEF CommitImport, IInv, TypeOK, Names
<1>. QED
  BY <1>1, <1>2, <1>3, <1>4, CommitStep DEF CommitImport, Storing

-----------------------------------------------------------------------------
LEMMA StepInv == IInv /\ [Next]_vars => IInv'
<1>. SUFFICES ASSUME IInv, [Next]_vars PROVE IInv'
  OBVIOUS
<1>1. ASSUME NEW x \in Actors,
             RejectRequest(x) \/ SelectInstrument(x) \/ Crash(x)
      PROVE  IInv'
  BY <1>1, StepEnds, StepSelectInstrument
<1>2. ASSUME NEW s \in Syncs, SyncStep(s)
      PROVE  IInv'
  BY <1>2, StepUpsertSymbol, StepBetween, StepFetch, StepEnds, StepSelectBar,
     StepFlushBar, StepEndLoop, StepCommitStored
  DEF SyncStep, Actors
<1>3. ASSUME NEW s \in Syncs, RequestCancel(s)
      PROVE  IInv'
  BY <1>3, StepRequestCancel
<1>4. ASSUME NEW x \in Imports, ImportStep(x) \/ ImportFails(x)
      PROVE  IInv'
  BY <1>4, StepImportSymbol, StepSelectBar, StepFlushBar, StepCommitImport,
     StepEnds
  DEF ImportStep, Actors
<1>5. CASE UNCHANGED vars
  <2>1. UNCHANGED <<database, shared, cancelled, act, pend, met>>
    BY <1>5 DEF vars
  <2>2. TypeOK' /\ RowInv'
    BY <2>1 DEF IInv, TypeOK, RowInv, shared
  <2>3. SucceededIsStored' /\ StoredIsVouched'
    BY <2>1 DEF IInv, VerdictIsTrue, SucceededIsStored, StoredIsVouched,
                Vouched, shared, DatesIn
  <2>4. ASSUME NEW y \in Actors PROVE ActorInv(y)'
    BY <2>1, Untouched DEF IInv, shared
  <2>. QED
    BY <2>2, <2>3, <2>4 DEF IInv, VerdictIsTrue
<1>. QED
  BY <1>1, <1>2, <1>3, <1>4, <1>5 DEF Next

LEMMA Invariance == Spec => []IInv
<1>. QED
  BY InitInv, StepInv, PTL DEF Spec

(***************************************************************************)
(* Every variable keeps its type.                                          *)
(***************************************************************************)
THEOREM TypeCorrect == Spec => []TypeOK
<1>1. IInv => TypeOK
  BY DEF IInv
<1>. QED
  BY <1>1, Invariance, PTL

(***************************************************************************)
(* A sync's row tells the truth, and every stored bar is vouched for by a  *)
(* sync that says it succeeded or by a committed import.                   *)
(***************************************************************************)
THEOREM SyncRowsAreTrue == Spec => []VerdictIsTrue
<1>1. IInv => VerdictIsTrue
  BY DEF IInv
<1>. QED
  BY <1>1, Invariance, PTL

-----------------------------------------------------------------------------
(***************************************************************************)
(* Whoever waits for a bar waits for somebody who is further ahead in the  *)
(* dates.  There is a last date, so that not everybody can wait.           *)
(***************************************************************************)
Later(x) == {d \in Dates : act[x].at < d}

LEMMA LaterShrinks ==
  ASSUME NEW x, NEW y, act[x].at \in Dates, act[y].at \in Dates,
         act[x].at < act[y].at
  PROVE  Cardinality(Later(y)) < Cardinality(Later(x))
<1>. DEFINE a == act[x].at
            b == act[y].at
<1>0. a \in Nat /\ b \in Nat /\ a < b /\ b \in Dates /\ Dates \subseteq Nat
      /\ Later(x) = {d \in Dates : a < d} /\ Later(y) = {d \in Dates : b < d}
  BY DatesAssumption DEF Later
<1>. HIDE DEF a, b
<1>1. Later(x) \in SUBSET Dates /\ Later(y) \in SUBSET Later(x)
  <2>1. Later(x) \subseteq Dates
    BY DEF Later
  <2>2. ASSUME NEW d \in Later(y) PROVE d \in Later(x)
    <3>1. d \in Dates /\ b < d
      BY <1>0
    <3>2. d \in Nat
      BY <1>0, <3>1
    <3>3. a < d
      BY <1>0, <3>1, <3>2
    <3>. QED
      BY <1>0, <3>1, <3>3
  <2>. QED
    BY <2>1, <2>2
<1>2. b \in Later(x) /\ b \notin Later(y)
  BY <1>0
<1>3. IsFiniteSet(Later(x)) /\ IsFiniteSet(Later(y))
  BY <1>1, DatesAssumption, FS_Subset
<1>4. Cardinality(Later(y)) <= Cardinality(Later(x))
      /\ Cardinality(Later(y)) # Cardinality(Later(x))
  BY <1>1, <1>2, <1>3, FS_Subset
<1>. QED
  BY <1>3, <1>4, FS_CardinalityType

LEMMA NoCycle == IInv => NoWaitCycle
<1>. SUFFICES ASSUME IInv, NEW X \in SUBSET Actors, X # {},
                     \A x \in X : \E y \in X : WaitsFor(x, y)
              PROVE  FALSE
  BY DEF NoWaitCycle
<1>. DEFINE Z == {x \in X : act[x].pc = "flush"}
<1>1. \A x \in X : ActorInv(x) /\ act[x] \in Actor
  BY PendIsSelf
<1>2. ASSUME NEW x \in X, NEW y \in X, WaitsFor(x, y)
      PROVE  y \in Z
  <2>1. act[y].pc \in {"upsert", "flush"}
    BY DEF WaitsFor, WaitsForName, WaitsForBar
  <2>2. CASE WaitsForName(x, y)
    BY <1>1, <2>1, <2>2 DEF WaitsForName, ActorInv, Pending
  <2>3. CASE WaitsForBar(x, y)
    <3>1. act[x].at \in Dates /\ pend[y][act[x].at] # NoBar
      BY <1>1, <2>3 DEF WaitsForBar, ActorInv, Ahead, DatesIn
    <3>2. pend[y] # Nothing
      BY <3>1 DEF Nothing
    <3>. QED
      BY <1>1, <2>1, <3>2 DEF ActorInv, Pending, Storing
  <2>. QED
    BY <1>2, <2>2, <2>3 DEF WaitsFor
<1>3. ASSUME NEW x \in Z
      PROVE  \E y \in Z : Cardinality(Later(y)) < Cardinality(Later(x))
  <2>1. PICK y \in X : WaitsFor(x, y)
    OBVIOUS
  <2>2. y \in Z /\ WaitsForBar(x, y)
    BY <1>2, <2>1 DEF WaitsFor, WaitsForName
  <2>3. act[x].at \in Dates /\ act[y].at \in Dates
    BY <1>1, <2>2 DEF ActorInv, Ahead, DatesIn
  <2>4. act[x].at < act[y].at
    BY <1>1, <2>2, <2>3 DEF WaitsForBar, ActorInv, Pending
  <2>. QED
    BY <2>2, <2>3, <2>4, LaterShrinks
<1>4. Z # {}
  BY <1>2
<1>. DEFINE T == {Cardinality(Later(x)) : x \in Z}
<1>5. T \in SUBSET Nat /\ T # {}
  <2>1. ASSUME NEW x \in Z PROVE Cardinality(Later(x)) \in Nat
    <3>1. Later(x) \in SUBSET Dates
      BY DEF Later
    <3>. QED
      BY <3>1, DatesAssumption, FS_Subset, FS_CardinalityType
  <2>. QED
    BY <1>4, <2>1
<1>6. PICK m \in T : \A n \in T : ~(n < m)
  BY <1>5, LeastExists
<1>7. PICK x \in Z : m = Cardinality(Later(x))
  OBVIOUS
<1>. QED
  BY <1>3, <1>6, <1>7

(***************************************************************************)
(* However many syncs and imports store bars of the symbol, no set of them *)
(* waits in a circle: PostgreSQL finds no deadlock among them.             *)
(***************************************************************************)
THEOREM SyncsNeverDeadlock == Spec => []NoWaitCycle
BY NoCycle, Invariance, PTL

-----------------------------------------------------------------------------
(***************************************************************************)
(* A sync that meets no other one: the bars of its source do not change    *)
(* while it stores, so each bar of its answer is still to do, pending, or  *)
(* already as fetched.                                                     *)
(***************************************************************************)
Alone(s) ==
  /\ \A t \in Syncs \ {s} : act[t].pc \notin Storing
  /\ \A d \in DatesIn(act[s].answer) :
       \/ d \in act[s].todo
       \/ act[s].pc = "flush" /\ d = act[s].at
       \/ pend[s][d] = act[s].answer[d]
       \/ bars["akshare"][d] = act[s].answer[d] /\ pend[s][d] = NoBar
  /\ act[s].pc = "flush" => act[s].seen = bars["akshare"][act[s].at]

FreshInv == \A s \in Syncs : act[s].pc \in Storing /\ s \notin met => Alone(s)

\* An actor that is not storing, or not any more, leaves a lone sync alone.
LEMMA OtherMoves ==
  ASSUME TypeOK, FreshInv, NEW x \in Actors,
         \A y \in Actors \ {x} : act'[y] = act[y] /\ pend'[y] = pend[y],
         met \subseteq met', x \in Syncs => act[x].pc \notin Storing,
         x \in Syncs => act'[x].pc \notin Storing,
         bars'["akshare"] = bars["akshare"]
  PROVE  FreshInv'
<1>. SUFFICES ASSUME NEW s \in Syncs, act'[s].pc \in Storing, s \notin met'
              PROVE  Alone(s)'
  BY DEF FreshInv
<1>1. s # x /\ act'[s] = act[s] /\ pend'[s] = pend[s] /\ Alone(s)
  BY DEF FreshInv, Actors
<1>2. \A t \in Syncs \ {s} : act'[t].pc \notin Storing
  BY <1>1 DEF Alone, Actors
<1>. QED
  BY <1>1, <1>2 DEF Alone, DatesIn

\* A sync that stores goes on, or stops.
LEMMA StoringMoves ==
  ASSUME TypeOK, FreshInv, NEW x \in Syncs, act[x].pc \in Storing,
         \A y \in Actors \ {x} : act'[y] = act[y] /\ pend'[y] = pend[y],
         met' = met,
         x \notin met /\ act'[x].pc \in Storing => bars' = bars /\ Alone(x)'
  PROVE  FreshInv'
<1>. SUFFICES ASSUME NEW s \in Syncs, act'[s].pc \in Storing, s \notin met'
              PROVE  Alone(s)'
  BY DEF FreshInv
<1>1. CASE s = x
  BY <1>1
<1>2. CASE s # x
  <2>1. act'[s] = act[s]
    BY <1>2 DEF Actors
  <2>. QED
    BY <1>2, <2>1 DEF FreshInv, Alone
<1>. QED
  BY <1>1, <1>2

\* Steps of x that change only its own state and store nothing.
LEMMA FreshStop ==
  ASSUME TypeOK, FreshInv, NEW x \in Actors,
         \A y \in Actors \ {x} : act'[y] = act[y] /\ pend'[y] = pend[y],
         met' = met, x \in Syncs => act'[x].pc \notin Storing,
         bars'["akshare"] = bars["akshare"]
  PROVE  FreshInv'
<1>1. CASE x \in Syncs /\ act[x].pc \in Storing
  BY <1>1, StoringMoves
<1>2. CASE ~(x \in Syncs /\ act[x].pc \in Storing)
  BY <1>2, OtherMoves
<1>. QED
  BY <1>1, <1>2

LEMMA EndsUnstored ==
  ASSUME TypeOK, NEW x \in Actors,
         \/ \E pc \in {"raised", "dead"} : Stop(x, pc)
         \/ \E why \in Causes : Raise(x, why)
  PROVE  act'[x].pc \notin Storing
<1>1. ASSUME NEW pc \in {"raised", "dead"}, Stop(x, pc)
      PROVE  act'[x].pc = pc
  BY <1>1 DEF Stop, Idle, TypeOK
<1>2. ASSUME NEW why \in Causes, Raise(x, why)
      PROVE  act'[x].pc \in {"failing", "raised"}
  BY <1>2 DEF Raise, Idle, TypeOK
<1>. QED
  BY <1>1, <1>2 DEF Storing

LEMMA FreshBegins ==
  ASSUME IInv, FreshInv, NEW s \in Syncs, BeginStore(s)
  PROVE  FreshInv'
<1>. s \in Actors
  BY DEF Actors
<1>0. TypeOK
  BY DEF IInv
<1>1. CASE s \in cancelled
  <2>1. Raise(s, "cancelled") /\ UNCHANGED <<shared, met>>
    BY <1>1 DEF BeginStore, CheckedReport
  <2>. QED
    BY <1>0, <2>1, FreshStop DEF Raise, TypeOK, Storing, shared
<1>2. CASE s \notin cancelled
  <2>. DEFINE others == {x \in Syncs : act[x].pc \in Storing}
  <2>1. /\ act' = [act EXCEPT ![s] = [@ EXCEPT !.pc = "select"]]
        /\ UNCHANGED <<bars, pend>> /\ act[s].pc = "begin_store"
        /\ met' = IF others = {} THEN met ELSE met \cup others \cup {s}
    BY <1>2 DEF BeginStore, CheckedReport, Goto, shared
  <2>2. /\ act'[s].pc = "select" /\ act'[s].answer = act[s].answer
        /\ act'[s].todo = act[s].todo /\ act[s].todo = DatesIn(act[s].answer)
        /\ \A y \in Actors \ {s} : act'[y] = act[y]
    BY <2>1, PendIsSelf DEF ActorInv, Ahead, IInv, TypeOK, Actor
  <2>. SUFFICES ASSUME NEW t \in Syncs, act'[t].pc \in Storing, t \notin met'
                PROVE  Alone(t)'
    BY DEF FreshInv
  <2>3. t = s
    <3>1. SUFFICES ASSUME t # s PROVE FALSE
      OBVIOUS
    <3>2. t \in others
      BY <2>2, <3>1 DEF Actors
    <3>. QED
      BY <2>1, <3>2
  <2>4. others = {}
    BY <2>1, <2>3
  <2>5. \A u \in Syncs \ {s} : act'[u].pc \notin Storing
    BY <2>2, <2>4 DEF Actors
  <2>. QED
    BY <2>2, <2>3, <2>5 DEF Alone, DatesIn
<1>. QED
  BY <1>1, <1>2

\* The loop of a sync.
LEMMA FreshSelect ==
  ASSUME IInv, FreshInv, NEW s \in Syncs, SelectBar(s)
  PROVE  FreshInv'
<1>. s \in Actors
  BY DEF Actors
<1>1. PICK d \in act[s].todo :
        act' = [act EXCEPT ![s] =
                  [@ EXCEPT !.pc = "flush", !.at = d,
                            !.todo = act[s].todo \ {d},
                            !.seen = bars[SourceOf(s)][d]]]
  BY DEF SelectBar
<1>2. /\ act'[s].pc = "flush" /\ act'[s].at = d /\ act'[s].todo = act[s].todo \ {d}
      /\ act'[s].answer = act[s].answer /\ act'[s].seen = bars["akshare"][d]
      /\ \A y \in Actors \ {s} : act'[y] = act[y]
  BY <1>1 DEF IInv, TypeOK, Actor, SourceOf
<1>3. UNCHANGED <<bars, pend, met>> /\ act[s].pc = "select" /\ TypeOK
  BY DEF SelectBar, shared, IInv
<1>4. ASSUME s \notin met PROVE Alone(s)'
  <2>1. Alone(s)
    BY <1>3, <1>4 DEF FreshInv, Storing
  <2>2. \A t \in Syncs \ {s} : act'[t].pc \notin Storing
    BY <1>2, <2>1 DEF Alone, Actors
  <2>. QED
    BY <1>2, <1>3, <2>1, <2>2 DEF Alone, DatesIn
<1>. QED
  BY <1>2, <1>3, <1>4, StoringMoves DEF Storing

LEMMA FreshFlush ==
  ASSUME IInv, FreshInv, NEW s \in Syncs, FlushBar(s)
  PROVE  FreshInv'
<1>. s \in Actors
  BY DEF Actors
<1>. DEFINE a == act[s]
<1>0. TypeOK /\ act[s] \in Actor /\ pend[s] \in Series
  BY DEF IInv, TypeOK
<1>1. UNCHANGED <<bars, met>> /\ a.pc = "flush"
  BY DEF FlushBar, shared
<1>2. a.at \in DatesIn(a.answer) /\ a.at \in Dates
  BY <1>1, PendIsSelf DEF ActorInv, Ahead, DatesIn
<1>3. CASE \E why \in Causes : Raise(s, why)
  BY <1>0, <1>1, <1>3, FreshStop DEF Raise, TypeOK, Storing
<1>4. CASE /\ Resume(s, "select")
           /\ \/ a.seen = a.answer[a.at] /\ UNCHANGED pend
              \/ pend' = [pend EXCEPT ![s] = [@ EXCEPT ![a.at] = a.answer[a.at]]]
  <2>1. /\ act'[s].pc = "select" /\ act'[s].todo = a.todo
        /\ act'[s].answer = a.answer
        /\ \A y \in Actors \ {s} : act'[y] = act[y] /\ pend'[y] = pend[y]
    BY <1>0, <1>4 DEF Resume, TypeOK, Actor
  <2>2. \A d \in Dates \ {a.at} : pend'[s][d] = pend[s][d]
    BY <1>0, <1>2, <1>4 DEF TypeOK, Series
  <2>3. \/ pend'[s][a.at] = a.answer[a.at]
        \/ a.seen = a.answer[a.at] /\ pend'[s][a.at] = pend[s][a.at]
    BY <1>0, <1>2, <1>4 DEF TypeOK, Series
  <2>4. pend[s][a.at] = NoBar
    BY <1>0, <1>1, <1>2, PendIsSelf, DatesAssumption DEF ActorInv, Pending
  <2>5. ASSUME s \notin met PROVE Alone(s)'
    <3>1. Alone(s)
      BY <1>1, <2>5 DEF FreshInv, Storing
    <3>2. \A t \in Syncs \ {s} : act'[t].pc \notin Storing
      BY <2>1, <3>1 DEF Alone, Actors
    <3>3. a.seen = bars["akshare"][a.at]
      BY <1>1, <3>1 DEF Alone
    <3>4. ASSUME NEW d \in DatesIn(a.answer)
          PROVE  \/ d \in a.todo \/ pend'[s][d] = a.answer[d]
                 \/ bars["akshare"][d] = a.answer[d] /\ pend'[s][d] = NoBar
      <4>1. CASE d = a.at
        BY <2>3, <2>4, <3>3, <4>1
      <4>2. CASE d # a.at
        BY <2>2, <3>1, <4>2 DEF Alone, DatesIn
      <4>. QED
        BY <4>1, <4>2
    <3>. QED
      BY <1>1, <2>1, <3>2, <3>4 DEF Alone, DatesIn
  <2>. QED
    BY <1>0, <1>1, <2>1, <2>5, StoringMoves DEF Storing
<1>. QED
  BY <1>3, <1>4 DEF FlushBar, Causes

LEMMA FreshGoto ==
  ASSUME IInv, FreshInv, NEW s \in Syncs, EndLoop(s) \/ ReportStored(s)
  PROVE  FreshInv'
<1>. s \in Actors
  BY DEF Actors
<1>1. PICK pc \in {"report", "commit"} : Goto(s, pc)
  BY DEF EndLoop, ReportStored
<1>2. UNCHANGED <<bars, met, pend>> /\ act[s].pc \in {"select", "report"} /\ TypeOK
  BY DEF EndLoop, ReportStored, shared, IInv
<1>3. /\ act'[s].pc = pc /\ act'[s].todo = act[s].todo
      /\ act'[s].answer = act[s].answer
      /\ \A y \in Actors \ {s} : act'[y] = act[y]
  BY <1>1, <1>2 DEF Goto, TypeOK, Actor
<1>4. ASSUME s \notin met PROVE Alone(s)'
  <2>1. Alone(s)
    BY <1>2, <1>4 DEF FreshInv, Storing
  <2>2. \A t \in Syncs \ {s} : act'[t].pc \notin Storing
    BY <1>3, <2>1 DEF Alone, Actors
  <2>. QED
    BY <1>2, <1>3, <2>1, <2>2 DEF Alone, DatesIn
<1>. QED
  BY <1>2, <1>3, <1>4, StoringMoves DEF Storing

LEMMA FreshImport ==
  ASSUME IInv, FreshInv, NEW x \in Imports,
         \/ ImportSymbol(x) \/ SelectBar(x) \/ FlushBar(x) \/ CommitImport(x)
         \/ ImportFails(x)
  PROVE  FreshInv'
<1>1. x \in Actors /\ x \notin Syncs /\ TypeOK
  BY ActorsAssumption DEF Actors, IInv
<1>2. \A y \in Actors \ {x} : act'[y] = act[y] /\ pend'[y] = pend[y]
  BY <1>1 DEF ImportSymbol, SelectBar, FlushBar, CommitImport, ImportFails,
              Raise, Resume, TypeOK
<1>3. met' = met
  BY DEF ImportSymbol, SelectBar, FlushBar, CommitImport, ImportFails
<1>4. bars'["akshare"] = bars["akshare"]
  <2>1. CASE CommitImport(x)
    BY <1>1, <2>1 DEF CommitImport, Committed, SourceOf, TypeOK, Sources
  <2>2. CASE \/ ImportSymbol(x) \/ SelectBar(x) \/ FlushBar(x) \/ ImportFails(x)
    BY <2>2 DEF ImportSymbol, SelectBar, FlushBar, ImportFails, shared
  <2>. QED
    BY <2>1, <2>2
<1>. QED
  BY <1>1, <1>2, <1>3, <1>4, FreshStop

LEMMA FreshStep == IInv /\ FreshInv /\ [Next]_vars => FreshInv'
<1>. SUFFICES ASSUME IInv, FreshInv, [Next]_vars PROVE FreshInv'
  OBVIOUS
<1>0. TypeOK
  BY DEF IInv
<1>1. ASSUME NEW x \in Actors,
             \/ RejectRequest(x) \/ Crash(x) \/ LockTimeout(x)
      PROVE  FreshInv'
  <2>1. UNCHANGED <<bars, met>>
    BY <1>1 DEF RejectRequest, Crash, LockTimeout, shared
  <2>2. \A y \in Actors \ {x} : act'[y] = act[y] /\ pend'[y] = pend[y]
    BY <1>0, <1>1 DEF RejectRequest, Crash, LockTimeout, Stop, Raise, TypeOK
  <2>3. x \in Syncs => act'[x].pc \notin Storing
    BY <1>0, <1>1, EndsUnstored DEF RejectRequest, Crash, LockTimeout, Causes
  <2>. QED
    BY <1>0, <2>1, <2>2, <2>3, FreshStop
<1>2. ASSUME NEW x \in Actors, SelectInstrument(x)
      PROVE  FreshInv'
  <2>1. UNCHANGED <<bars, met, pend>>
    BY <1>2 DEF SelectInstrument, shared
  <2>2. (\A y \in Actors \ {x} : act'[y] = act[y]) /\ act'[x].pc = "upsert"
    BY <1>0, <1>2 DEF SelectInstrument, TypeOK, Actor
  <2>. QED
    BY <1>0, <2>1, <2>2, FreshStop DEF Storing
<1>3. ASSUME NEW s \in Syncs,
             \/ UpsertSymbol(s) \/ BeginFetch(s) \/ Fetch(s) \/ FetchFails(s)
             \/ CancelStore(s) \/ MarkFailed(s)
      PROVE  FreshInv'
  <2>0. s \in Actors
    BY DEF Actors
  <2>1. UNCHANGED <<bars, met>>
    BY <1>3 DEF UpsertSymbol, BeginFetch, CheckedReport, Fetch, FetchFails,
                CancelStore, MarkFailed, shared
  <2>2. \A y \in Actors \ {s} : act'[y] = act[y] /\ pend'[y] = pend[y]
    BY <1>0, <1>3, <2>0
    DEF UpsertSymbol, BeginFetch, CheckedReport, Fetch, FetchFails,
        CancelStore, MarkFailed, Stop, Raise, Resume, Goto, TypeOK
  <2>3. act'[s].pc \notin Storing
    <3>1. CASE UpsertSymbol(s)
      <4>1. Stop(s, "raised") \/ Resume(s, "begun")
        BY <3>1 DEF UpsertSymbol
      <4>2. Resume(s, "begun") => act'[s].pc = "begun"
        BY <1>0, <2>0 DEF Resume, TypeOK, Actor
      <4>. QED
        BY <1>0, <2>0, <4>1, <4>2, EndsUnstored DEF Storing
    <3>2. CASE BeginFetch(s)
      <4>1. Raise(s, "cancelled") \/ Goto(s, "fetch")
        BY <3>2 DEF BeginFetch, CheckedReport
      <4>2. Goto(s, "fetch") => act'[s].pc = "fetch"
        BY <1>0, <2>0 DEF Goto, TypeOK, Actor
      <4>. QED
        BY <1>0, <2>0, <4>1, <4>2, EndsUnstored DEF Storing, Causes
    <3>3. CASE Fetch(s)
      BY <1>0, <2>0, <3>3 DEF Fetch, TypeOK, Actor, Storing
    <3>4. CASE FetchFails(s) \/ CancelStore(s) \/ MarkFailed(s)
      BY <1>0, <2>0, <3>4, EndsUnstored
      DEF FetchFails, CancelStore, MarkFailed, Causes
    <3>. QED
      BY <1>3, <3>1, <3>2, <3>3, <3>4
  <2>. QED
    BY <1>0, <2>0, <2>1, <2>2, <2>3, FreshStop
<1>4. ASSUME NEW s \in Syncs, CommitStored(s)
      PROVE  FreshInv'
  <2>1. /\ act' = [act EXCEPT ![s] = [@ EXCEPT !.pc = "done"]]
        /\ pend' = [pend EXCEPT ![s] = Nothing] /\ met' = met
        /\ act[s].pc = "commit" /\ s \in Actors
    BY <1>4 DEF CommitStored, Goto, Actors
  <2>2. act'[s].pc \notin Storing
        /\ \A y \in Actors \ {s} : act'[y] = act[y] /\ pend'[y] = pend[y]
    BY <1>0, <2>1 DEF TypeOK, Actor, Storing
  <2>. QED
    BY <1>0, <2>1, <2>2, StoringMoves DEF Storing
<1>5. CASE UNCHANGED <<bars, act, pend, met>>
  BY <1>5 DEF FreshInv, Alone, DatesIn
<1>6. ASSUME NEW s \in Syncs, RequestCancel(s)
      PROVE  FreshInv'
  BY <1>5, <1>6 DEF RequestCancel, shared
<1>7. CASE UNCHANGED vars
  BY <1>5, <1>7 DEF vars, shared
<1>. QED
  BY <1>1, <1>2, <1>3, <1>4, <1>6, <1>7, FreshBegins, FreshSelect, FreshFlush,
     FreshGoto, FreshImport
  DEF Next, SyncStep, ImportStep, Actors

(***************************************************************************)
(* A sync that stored while no other one did leaves exactly what it        *)
(* fetched: upsert_daily_bar skips only bars that still are as fetched     *)
(* when the transaction commits.                                           *)
(***************************************************************************)
THEOREM LoneSyncsAreFresh == Spec => FreshAfterSync
<1>. DEFINE Fresh == \A s \in Syncs \ met :
       row[s].status = "running" /\ row'[s].status = "succeeded" =>
         \A d \in DatesIn(act[s].answer) : bars'["akshare"][d] = act[s].answer[d]
<1>1. Init => FreshInv
  BY DEF Init, FreshInv, Idle, Storing, Actors
<1>2. IInv /\ FreshInv /\ [Next]_vars => [Fresh]_vars
  <2>. SUFFICES ASSUME IInv, FreshInv, Next, NEW s \in Syncs \ met,
                       row[s].status = "running", row'[s].status = "succeeded",
                       NEW d \in DatesIn(act[s].answer)
                PROVE  bars'["akshare"][d] = act[s].answer[d]
    BY DEF vars
  <2>1. row # row'
    OBVIOUS
  <2>2. PICK t \in Syncs : UpsertSymbol(t) \/ CommitStored(t) \/ MarkFailed(t)
    BY <2>1 DEF Next, SyncStep, ImportStep, RejectRequest, SelectInstrument,
       Crash, BeginFetch, CheckedReport, Fetch, FetchFails, BeginStore,
       SelectBar, CancelStore, FlushBar, EndLoop, ReportStored, LockTimeout,
       RequestCancel, ImportSymbol, CommitImport, ImportFails, shared
  <2>3. t = s /\ CommitStored(s)
    <3>1. row \in [Syncs -> Row]
      BY DEF IInv, TypeOK
    <3>2. CASE UpsertSymbol(t)
      <4>1. row' = [row EXCEPT ![t] = [@ EXCEPT !.status = "running"]]
        BY <2>1, <3>2 DEF UpsertSymbol
      <4>2. row'[s].status = IF s = t THEN "running" ELSE row[s].status
        BY <3>1, <4>1 DEF Row
      <4>. QED
        BY <4>2
    <3>3. CASE MarkFailed(t)
      <4>1. row' = [row EXCEPT ![t] = [@ EXCEPT !.status = "failed",
                                                !.error = act[t].why]]
        BY <3>3 DEF MarkFailed
      <4>2. row'[s].status = IF s = t THEN "failed" ELSE row[s].status
        BY <3>1, <4>1 DEF Row
      <4>. QED
        BY <4>2
    <3>4. CASE CommitStored(t)
      <4>1. t # s => row'[s] = row[s]
        BY <3>1, <3>4 DEF CommitStored
      <4>. QED
        BY <3>4, <4>1
    <3>. QED
      BY <2>2, <3>2, <3>3, <3>4
  <2>4. act[s].pc = "commit" /\ act[s].todo = {} /\ Alone(s) /\ s \in Actors
    BY <2>3, PendIsSelf DEF CommitStored, ActorInv, Ahead, FreshInv, Storing, Actors
  <2>5. bars'["akshare"][d] = IF pend[s][d] # NoBar THEN pend[s][d]
                              ELSE bars["akshare"][d]
    BY <2>3, <2>4, CommittedBars DEF CommitStored, SourceOf, Sources, DatesIn, IInv
  <2>6. d \in Dates /\ act[s].answer[d] # NoBar
    BY DEF DatesIn
  <2>. QED
    BY <2>4, <2>5, <2>6 DEF Alone
<1>. QED
  BY <1>1, <1>2, Invariance, FreshStep, PTL DEF Spec, FreshAfterSync
=============================================================================
