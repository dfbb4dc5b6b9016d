-------------------------- MODULE JobStreamProofs ---------------------------
(***************************************************************************)
(* Proofs about JobStream, for every set of jobs, cancellers, streams and  *)
(* every payload.                                                          *)
(***************************************************************************)
EXTENDS JobStream, JobRuntimeProofs

-----------------------------------------------------------------------------
(***************************************************************************)
(* What any step of the runtime does to one job, as its readers see it: it *)
(* adds at most one event, with an id that was just drawn or that was      *)
(* undecided, and an event tells every new status.                         *)
(***************************************************************************)
Tells(s, E) == \E e \in E : e.type = s

Moves(j) ==
  /\ nextId'[j] >= nextId[j]
  /\ \/ events'[j] = events[j]
     \/ \E e \in Event : /\ events'[j] = events[j] \cup {e}
                         /\ e.id \in Undecided(j) \cup {nextId[j]}
  /\ status'[j] = status[j] \/ Tells(status'[j], events'[j])

LEMMA SetStatusDoes ==
  ASSUME status \in [Jobs -> Statuses \cup {"absent"}], NEW j, NEW seen, NEW new,
         SetStatus(j, seen, new), NEW k \in Jobs
  PROVE  status'[k] = status[k] \/ (k = j /\ status'[k] = new)
<1>1. CASE seen = new
  BY <1>1 DEF SetStatus, Written
<1>2. CASE seen # new
  BY <1>2 DEF SetStatus, Written
<1>. QED
  BY <1>1, <1>2

LEMMA SubmitMoves ==
  ASSUME TypeInv, NEW j \in Jobs, SubmitStep(j) \/ SubmitFails(j), NEW i \in Jobs
  PROVE  Moves(i)
<1>1. /\ nextId \in [Jobs -> Nat] /\ events \in [Jobs -> SUBSET Event]
      /\ status \in [Jobs -> Statuses \cup {"absent"}]
      /\ sub \in [Jobs -> Submitter]
  BY DEF TypeInv, TypeOK
<1>2. CASE CreateQueued(j)
  <2>. DEFINE e == [id |-> nextId[j], type |-> "queued"]
  <2>1. e \in Event /\ e.type = "queued" /\ e.id = nextId[j]
    BY <1>1 DEF Event, EventType, Statuses
  <2>2. /\ nextId' = [nextId EXCEPT ![j] = @ + 1]
        /\ events' = [events EXCEPT ![j] = @ \cup {e}]
        /\ status' = [status EXCEPT ![j] = "queued"]
    BY <1>2 DEF CreateQueued, DrawId, Publish
  <2>. HIDE DEF e
  <2>. QED
    BY <1>1, <2>1, <2>2 DEF Moves, Tells
<1>3. CASE CommitEnqueued(j)
  <2>. DEFINE e == [id |-> sub[j].id, type |-> "enqueued"]
  <2>1. e \in Event /\ e.id = sub[j].id
    BY <1>1 DEF Event, EventType, Submitter
  <2>2. events' = [events EXCEPT ![j] = @ \cup {e}] /\ UNCHANGED <<nextId, status>>
        /\ sub[j].id \in Undecided(j)
    BY <1>3 DEF CommitEnqueued, Publish, Undecided
  <2>. HIDE DEF e
  <2>. QED
    BY <1>1, <2>1, <2>2 DEF Moves
<1>4. CASE Enqueue(j) \/ FlushEnqueued(j) \/ ReturnInline(j) \/ SubmitFails(j)
  BY <1>1, <1>4 DEF Enqueue, FlushEnqueued, ReturnInline, SubmitFails, DrawId,
                    rowVars, Moves
<1>. QED
  BY <1>2, <1>3, <1>4 DEF SubmitStep

LEMMA WorkMoves ==
  ASSUME TypeInv, NEW j \in Jobs, WorkStep(j) \/ Failure(j), ~SubmitFails(j),
         NEW i \in Jobs
  PROVE  Moves(i)
<1>1. /\ nextId \in [Jobs -> Nat] /\ events \in [Jobs -> SUBSET Event]
      /\ status \in [Jobs -> Statuses \cup {"absent"}]
      /\ work \in [Jobs -> Worker]
  BY DEF TypeInv, TypeOK
<1>2. ASSUME NEW t \in EventType,
             work[j].pc \in {"starting", "progressing", "finishing"},
             Publish(j, work[j].id, t), UNCHANGED nextId,
             \/ UNCHANGED status
             \/ SetStatus(j, work[j].seen, t)
      PROVE  Moves(i)
  <2>. DEFINE e == [id |-> work[j].id, type |-> t]
  <2>1. e \in Event /\ e.type = t /\ e.id = work[j].id
    BY <1>1 DEF Event, Worker
  <2>2. events' = [events EXCEPT ![j] = @ \cup {e}] /\ work[j].id \in Undecided(j)
    BY <1>2 DEF Publish, Undecided
  <2>. HIDE DEF e
  <2>3. ASSUME NEW k \in Jobs
        PROVE  status'[k] = status[k] \/ (k = j /\ status'[k] = t)
    <3>1. CASE UNCHANGED status
      BY <3>1
    <3>2. CASE SetStatus(j, work[j].seen, t)
      BY <1>1, <3>2, SetStatusDoes
    <3>. QED
      BY <1>2, <3>1, <3>2
  <2>. QED
    BY <1>1, <1>2, <2>1, <2>2, <2>3 DEF Moves, Tells
<1>3. CASE CommitStart(j)
  <2>1. "running" \in EventType
    BY DEF EventType, Statuses
  <2>. QED
    BY <1>2, <1>3, <2>1 DEF CommitStart
<1>4. CASE CommitProgress(j)
  <2>1. "progress" \in EventType
    BY DEF EventType
  <2>. QED
    BY <1>2, <1>4, <2>1 DEF CommitProgress
<1>5. CASE CommitVerdict(j)
  <2>1. work[j].outcome \in EventType
    BY <1>1, <1>5 DEF CommitVerdict, TypeInv, WorkConsistent, Worker, Outcome,
                      EventType, Statuses
  <2>. QED
    BY <1>2, <1>5, <2>1 DEF CommitVerdict
<1>6. CASE FlushStart(j) \/ FlushProgress(j) \/ FlushVerdict(j)
  BY <1>1, <1>6 DEF FlushStart, FlushProgress, FlushVerdict, Flush, DrawId, Moves
<1>7. CASE \/ Begin(j) \/ CreateWorkflow(j) \/ RaiseIfCancelled(j)
           \/ ApplyPayload(j) \/ PayloadReturns(j) \/ MarkWorkflowSucceeded(j)
           \/ MarkWorkflowFailed(j) \/ ReadForVerdict(j) \/ AuditNotCreated(j)
           \/ PayloadRaises(j) \/ AuditRaises(j) \/ WorkerCrashes(j)
  <2>1. UNCHANGED <<status, events, nextId>>
    BY <1>7 DEF Begin, CreateWorkflow, RaiseIfCancelled, ApplyPayload,
       PayloadReturns, MarkWorkflowSucceeded, MarkWorkflowFailed, ReadForVerdict,
       AuditNotCreated, PayloadRaises, AuditRaises, WorkerCrashes, rowVars
  <2>. QED
    BY <1>1, <2>1 DEF Moves
<1>. QED
  BY <1>3, <1>4, <1>5, <1>6, <1>7 DEF WorkStep, Failure

LEMMA CancelMoves ==
  ASSUME TypeInv, NEW c \in Cancellers,
         ReadForCancel(c) \/ CancelStep(c) \/ CancelFails(c), NEW i \in Jobs
  PROVE  Moves(i)
<1>1. /\ nextId \in [Jobs -> Nat] /\ events \in [Jobs -> SUBSET Event]
      /\ status \in [Jobs -> Statuses \cup {"absent"}]
      /\ can[c] \in Canceller
  BY DEF TypeInv, TypeOK
<1>2. CASE CommitCancel(c)
  <2>1. PICK j \in Jobs, t \in EventType : j = can[c].job /\ t = CancelTo(can[c].seen)
    BY <1>1 DEF Canceller, CancelTo, EventType, Statuses
  <2>. DEFINE e == [id |-> can[c].id, type |-> t]
  <2>2. e \in Event /\ e.type = t /\ e.id = can[c].id
    BY <1>1 DEF Event, Canceller
  <2>3. /\ events' = [events EXCEPT ![j] = @ \cup {e}] /\ can[c].id \in Undecided(j)
        /\ UNCHANGED nextId
    BY <1>2, <2>1 DEF CommitCancel, Publish, Undecided
  <2>. HIDE DEF e
  <2>4. SetStatus(j, can[c].seen, t)
    BY <1>2, <2>1 DEF CommitCancel
  <2>5. \A k \in Jobs : status'[k] = status[k] \/ (k = j /\ status'[k] = t)
    BY <1>1, <2>4, SetStatusDoes
  <2>. QED
    BY <1>1, <2>2, <2>3, <2>5 DEF Moves, Tells
<1>3. CASE FlushCancel(c)
  BY <1>1, <1>3 DEF FlushCancel, DrawId, Moves
<1>4. CASE ReadForCancel(c) \/ CancelFails(c)
  BY <1>1, <1>4 DEF ReadForCancel, CancelFails, rowVars, Moves
<1>. QED
  BY <1>2, <1>3, <1>4 DEF CancelStep

LEMMA RuntimeMoves ==
  ASSUME TypeInv, [Next]_vars, NEW i \in Jobs
  PROVE  Moves(i)
<1>1. CASE Next
  BY <1>1, SubmitMoves, WorkMoves, CancelMoves
  DEF Next, Failure, Rest, vars, rowVars, Moves, TypeInv, TypeOK
<1>2. CASE UNCHANGED vars
  BY <1>2 DEF vars, rowVars, Moves, TypeInv, TypeOK
<1>. QED
  BY <1>1, <1>2

-----------------------------------------------------------------------------
(***************************************************************************)
(* The timeline of a job: ids start at 1 and are unique, and the status of *)
(* the row has its event.                                                  *)
(***************************************************************************)
Timeline(j) ==
  /\ nextId[j] >= 1
  /\ \A e \in events[j] : e.id >= 1
  /\ \A e, f \in events[j] : e.id = f.id => e = f
  /\ status[j] # "absent" => Tells(status[j], events[j])

JobInv == TypeInv /\ OrderInv /\ \A j \in Jobs : Timeline(j)

\* A new event has an id above those of all others.
Appends(j) ==
  \/ events'[j] = events[j]
  \/ \E e \in Event : /\ events'[j] = events[j] \cup {e} /\ e.id >= 1
                      /\ \A f \in events[j] : f.id < e.id

LEMMA EventsAppend ==
  ASSUME JobInv, [Next]_vars, NEW j \in Jobs
  PROVE  Appends(j)
<1>1. Moves(j)
  BY RuntimeMoves DEF JobInv
<1>2. \A e \in events[j] : e.id \in Nat
  BY DEF JobInv, TypeInv, TypeOK, Event
<1>3. ASSUME NEW e \in Event, e.id \in Undecided(j)
      PROVE  e.id >= 1 /\ \A f \in events[j] : f.id < e.id
  <2>1. \A f \in events[j] : f.id < e.id
    BY <1>3 DEF JobInv, OrderInv, IdInv
  <2>2. sub[j].pc # "new"
    BY <1>3 DEF Undecided, JobInv, TypeInv, CreatedFirst
  <2>3. status[j] # "absent"
    BY <2>2 DEF JobInv, TypeInv, CreatedFirst
  <2>4. PICK f \in events[j] : f.id >= 1
    BY <2>3 DEF JobInv, Timeline, Tells
  <2>. QED
    BY <1>2, <2>1, <2>4 DEF Event
<1>4. ASSUME NEW e \in Event, e.id = nextId[j]
      PROVE  e.id >= 1 /\ \A f \in events[j] : f.id < e.id
  BY <1>4 DEF JobInv, OrderInv, IdInv, Timeline
<1>. QED
  BY <1>1, <1>3, <1>4 DEF Moves, Appends

LEMMA JobInvInit == Init => JobInv
<1>. SUFFICES ASSUME Init PROVE JobInv
  OBVIOUS
<1>1. \A j \in Jobs : Timeline(j)
  BY DEF Init, Timeline
<1>. QED
  BY <1>1, TypeInit, OrderInit DEF JobInv

LEMMA JobInvStep ==
  ASSUME JobInv, [Next]_vars
  PROVE  JobInv'
<1>1. TypeInv' /\ OrderInv'
  BY TypeStep, OrderStep DEF JobInv
<1>2. ASSUME NEW j \in Jobs PROVE Timeline(j)'
  <2>1. Moves(j) /\ Appends(j) /\ Timeline(j)
    BY RuntimeMoves, EventsAppend DEF JobInv
  <2>2. nextId[j] \in Nat /\ nextId'[j] \in Nat
        /\ (\A e \in events[j] : e.id \in Nat) /\ \A e \in Event : e.id \in Nat
    BY <1>1 DEF JobInv, TypeInv, TypeOK, Event
  <2>3. nextId'[j] >= 1 /\ \A e \in events'[j] : e.id >= 1
    BY <2>1, <2>2 DEF Moves, Appends, Timeline
  <2>4. \A e, f \in events'[j] : e.id = f.id => e = f
    BY <2>1, <2>2 DEF Appends, Timeline
  <2>5. status'[j] # "absent" => Tells(status'[j], events'[j])
    BY <2>1 DEF Moves, Appends, Timeline, Tells
  <2>. QED
    BY <2>3, <2>4, <2>5 DEF Timeline, Tells
<1>. QED
  BY <1>1, <1>2 DEF JobInv

\* A job that exists does not cease to.
LEMMA StaysPresent ==
  ASSUME JobInv, [Next]_vars, NEW j \in Jobs, status[j] # "absent"
  PROVE  status'[j] # "absent" /\ events[j] \subseteq events'[j]
<1>1. Moves(j) /\ Appends(j)
  BY RuntimeMoves, EventsAppend DEF JobInv
<1>2. \A e \in events'[j] : e.type # "absent"
  BY TypeStep DEF JobInv, TypeInv, TypeOK, Event, EventType, Statuses
<1>. QED
  BY <1>1, <1>2 DEF Moves, Appends, Tells

-----------------------------------------------------------------------------
(***************************************************************************)
(* One stream beside the events E of its job: what it received is the part *)
(* of the timeline up to its last id, what it loaded comes next without a  *)
(* gap, and a terminal status it read has its event in what it received or *)
(* is about to receive.                                                    *)
(***************************************************************************)
Follows(x, E) ==
  /\ x.sent = {e \in E : e.id <= x.last}
  /\ x.last = 0 \/ \E e \in E : e.id = x.last
  /\ x.batch \subseteq E
  /\ \A f \in x.batch : f.id > x.last
  /\ \A e \in E, f \in x.batch : e.id > x.last /\ e \notin x.batch => f.id < e.id
  /\ x.pc = "half" /\ x.seen \in Terminal => Tells(x.seen, E)
  /\ x.pc = "emit" /\ x.seen \in Terminal => Tells(x.seen, x.sent \cup x.batch)
  /\ x.pc = "ended" => Tells(x.seen, x.sent)

LEMMA FollowsAppended ==
  ASSUME NEW x \in Stream, NEW E \in SUBSET Event, Follows(x, E),
         NEW e \in Event, e.id >= 1, \A f \in E : f.id < e.id
  PROVE  Follows(x, E \cup {e})
<1>1. x.last \in Nat /\ e.id \in Nat /\ \A f \in E : f.id \in Nat
  BY DEF Stream, Event
<1>2. e.id > x.last
  BY <1>1 DEF Follows
<1>3. x.sent = {f \in E \cup {e} : f.id <= x.last}
  BY <1>1, <1>2 DEF Follows
<1>4. \A g \in E \cup {e}, f \in x.batch :
        g.id > x.last /\ g \notin x.batch => f.id < g.id
  BY <1>1 DEF Follows
<1>. QED
  BY <1>1, <1>3, <1>4 DEF Follows, Tells

LEMMA FollowsLoad ==
  ASSUME NEW x \in Stream, NEW E \in SUBSET Event, Follows(x, E), NEW y,
         y.pc = "emit", y.last = x.last, y.seen = x.seen, y.sent = x.sent,
         x.pc = "half", y.batch = {e \in E : e.id > x.last}
  PROVE  Follows(y, E)
<1>1. x.last \in Nat /\ \A e \in E : e.id \in Nat
  BY DEF Stream, Event
<1>2. E = y.sent \cup y.batch
  BY <1>1 DEF Follows
<1>3. y.seen \in Terminal => Tells(y.seen, y.sent \cup y.batch)
  BY <1>2 DEF Follows
<1>. QED
  BY <1>1, <1>3 DEF Follows

LEMMA FollowsEmit ==
  ASSUME NEW x \in Stream, NEW E \in SUBSET Event, Follows(x, E), NEW y,
         \A e, f \in E : e.id = f.id => e = f,
         NEW g \in x.batch, \A f \in x.batch : g.id <= f.id,
         x.pc = "emit", y.pc = "emit", y.seen = x.seen, y.last = g.id,
         y.sent = x.sent \cup {g}, y.batch = x.batch \ {g}
  PROVE  Follows(y, E)
<1>1. /\ x.last \in Nat /\ (\A e \in E : e.id \in Nat)
      /\ x.batch \subseteq E /\ g \in E
  BY DEF Stream, Event, Follows
<1>2. \A f \in y.batch : f.id > g.id
  BY <1>1
<1>3. \A f \in E : f.id <= g.id <=> f.id <= x.last \/ f = g
  BY <1>1 DEF Follows
<1>4. y.sent = {f \in E : f.id <= y.last}
  BY <1>1, <1>3 DEF Follows
<1>5. \A e \in E, f \in y.batch : e.id > y.last /\ e \notin y.batch => f.id < e.id
  BY <1>1, <1>2 DEF Follows
<1>6. y.sent \cup y.batch = x.sent \cup x.batch
  OBVIOUS
<1>7. y.seen \in Terminal => Tells(y.seen, y.sent \cup y.batch)
  BY <1>6 DEF Follows
<1>. QED
  BY <1>1, <1>2, <1>4, <1>5, <1>7 DEF Follows

StreamInv ==
  /\ JobInv
  /\ StreamTypeOK
  /\ \A s \in Streams :
       /\ Follows(stream[s], events[stream[s].job])
       /\ stream[s].pc # "closed" => status[stream[s].job] # "absent"

LEMMA StreamInvInit == StreamInit => StreamInv
<1>. SUFFICES ASSUME StreamInit PROVE StreamInv
  OBVIOUS
<1>1. JobInv
  BY JobInvInit DEF StreamInit
<1>2. ASSUME NEW s \in Streams
      PROVE  /\ stream[s] \in Stream /\ stream[s].pc = "closed"
             /\ Follows(stream[s], events[stream[s].job])
  <2>1. PICK j \in Jobs : stream[s] = [pc |-> "closed", job |-> j, last |-> 0,
                                seen |-> "queued", batch |-> {}, sent |-> {}]
    BY DEF StreamInit
  <2>2. events[j] = {}
    BY DEF StreamInit, Init
  <2>3. stream[s] \in Stream
    BY <2>1 DEF Stream, Statuses
  <2>. QED
    BY <2>1, <2>2, <2>3 DEF Follows, Terminal
<1>3. stream \in [Streams -> Stream]
  <2>1. stream = [s \in Streams |-> stream[s]]
    BY DEF StreamInit
  <2>. QED
    BY <1>2, <2>1
<1>. QED
  BY <1>1, <1>2, <1>3 DEF StreamInv, StreamTypeOK

\* The runtime moves and the streams do not.
LEMMA RuntimeKeepsStreams ==
  ASSUME StreamInv, [Next]_vars, UNCHANGED stream
  PROVE  StreamInv'
<1>1. JobInv' /\ JobInv
  BY JobInvStep DEF StreamInv
<1>2. StreamTypeOK'
  BY DEF StreamInv, StreamTypeOK
<1>3. ASSUME NEW s \in Streams
      PROVE  /\ Follows(stream[s], events'[stream[s].job])
             /\ stream[s].pc # "closed" => status'[stream[s].job] # "absent"
  <2>1. PICK j \in Jobs : j = stream[s].job
    BY DEF StreamInv, StreamTypeOK, Stream
  <2>2. stream[s] \in Stream /\ events[j] \in SUBSET Event
    BY <1>1 DEF StreamInv, StreamTypeOK, JobInv, TypeInv, TypeOK
  <2>3. Follows(stream[s], events[j])
    BY <2>1 DEF StreamInv
  <2>4. Follows(stream[s], events'[j])
    BY <1>1, <2>2, <2>3, EventsAppend, FollowsAppended DEF Appends
  <2>5. stream[s].pc # "closed" => status'[j] # "absent"
    BY <1>1, <2>1, StaysPresent DEF StreamInv
  <2>. QED
    BY <2>1, <2>4, <2>5
<1>. QED
  BY <1>1, <1>2, <1>3 DEF StreamInv

\* One stream moves and the runtime does not.
LEMMA StreamMoves ==
  ASSUME StreamInv, UNCHANGED vars, NEW s \in Streams, NEW y \in Stream,
         stream' = [stream EXCEPT ![s] = y],
         y.job = stream[s].job, Follows(y, events[y.job]),
         y.pc # "closed" => status[y.job] # "absent"
  PROVE  StreamInv'
<1>1. JobInv'
  BY JobInvStep DEF StreamInv
<1>2. stream \in [Streams -> Stream]
  BY DEF StreamInv, StreamTypeOK
<1>3. StreamTypeOK'
  BY <1>2 DEF StreamTypeOK
<1>4. events' = events /\ status' = status
  BY DEF vars, rowVars
<1>5. ASSUME NEW r \in Streams
      PROVE  /\ Follows(stream'[r], events[stream'[r].job])
             /\ stream'[r].pc # "closed" => status[stream'[r].job] # "absent"
  <2>1. CASE r = s
    BY <1>2, <2>1
  <2>2. CASE r # s
    BY <1>2, <2>2 DEF StreamInv
  <2>. QED
    BY <2>1, <2>2
<1>. QED
  BY <1>1, <1>3, <1>4, <1>5 DEF StreamInv

LEMMA StreamStepKeeps ==
  ASSUME StreamInv, NEW s \in Streams, Open(s) \/ Close(s) \/ StreamStep(s)
  PROVE  StreamInv'
<1>. DEFINE x == stream[s]
            E == events[x.job]
<1>1. /\ x \in Stream /\ stream \in [Streams -> Stream] /\ E \in SUBSET Event
      /\ Follows(x, E) /\ (x.pc # "closed" => status[x.job] # "absent")
      /\ \A e, f \in E : e.id = f.id => e = f
      /\ status[x.job] # "absent" => /\ status[x.job] \in Statuses
                                     /\ Tells(status[x.job], E)
  BY DEF StreamInv, StreamTypeOK, Stream, JobInv, TypeInv, TypeOK, Timeline
<1>2. /\ x.pc \in {"closed", "poll", "half", "emit", "ended"} /\ x.job \in Jobs
      /\ x.last \in Nat /\ x.seen \in Statuses /\ x.batch \in SUBSET Event
      /\ x.sent \in SUBSET Event
  BY <1>1 DEF Stream
<1>3. ASSUME NEW pc \in {"closed", "poll"}, x.pc \in {"closed", "poll", "emit"},
             stream' = [stream EXCEPT ![s] = Forget(x, pc)], UNCHANGED vars,
             pc = "poll" => status[x.job] # "absent"
      PROVE  StreamInv'
  <2>. DEFINE y == Forget(x, pc)
  <2>1. /\ y \in Stream /\ y.pc = pc /\ y.job = x.job /\ y.last = x.last
        /\ y.batch = {} /\ y.sent = x.sent
    BY <1>1, <1>2 DEF Forget, Stream, Statuses
  <2>2. stream' = [stream EXCEPT ![s] = y]
    BY <1>3
  <2>. HIDE DEF y
  <2>3. Follows(y, E)
    BY <1>1, <2>1 DEF Follows
  <2>4. y.job = stream[s].job /\ Follows(y, events[y.job])
    BY <2>1, <2>3
  <2>5. y.pc # "closed" => status[y.job] # "absent"
    BY <1>3, <2>1
  <2>. QED
    BY <1>3, <2>1, <2>2, <2>4, <2>5, StreamMoves, Zenon
<1>4. CASE Open(s)
  <2>. DEFINE y == [x EXCEPT !.pc = "poll"]
  <2>1. /\ y \in Stream /\ y.pc = "poll" /\ y.job = x.job /\ y.last = x.last
        /\ y.batch = x.batch /\ y.sent = x.sent /\ y.seen = x.seen
    BY <1>1, <1>2 DEF Stream
  <2>2. /\ stream' = [stream EXCEPT ![s] = y] /\ UNCHANGED vars
        /\ status[x.job] # "absent"
    BY <1>4 DEF Open
  <2>. HIDE DEF y
  <2>3. Follows(y, E)
    BY <1>1, <2>1 DEF Follows
  <2>. QED
    BY <2>1, <2>2, <2>3, StreamMoves
<1>5. CASE Close(s)
  BY <1>3, <1>5 DEF Close
<1>6. CASE ReadStatus(s, "poll", "half")
  <2>. DEFINE y == [x EXCEPT !.pc = "half", !.seen = status[x.job]]
  <2>1. x.pc = "poll" /\ status[x.job] # "absent" /\ UNCHANGED vars
    BY <1>1, <1>6 DEF ReadStatus
  <2>2. /\ y \in Stream /\ y.pc = "half" /\ y.job = x.job /\ y.last = x.last
        /\ y.batch = x.batch /\ y.sent = x.sent /\ y.seen = status[x.job]
    BY <1>1, <1>2, <2>1 DEF Stream
  <2>3. stream' = [stream EXCEPT ![s] = y]
    BY <1>6 DEF ReadStatus
  <2>. HIDE DEF y
  <2>4. Follows(y, E)
    BY <1>1, <2>1, <2>2 DEF Follows
  <2>. QED
    BY <2>1, <2>2, <2>3, <2>4, StreamMoves
<1>7. CASE ReadEvents(s, "half", "emit")
  <2>. DEFINE b == {e \in E : e.id > x.last}
              y == [x EXCEPT !.pc = "emit", !.batch = b]
  <2>1. x.pc = "half" /\ status[x.job] # "absent" /\ UNCHANGED vars
    BY <1>1, <1>7 DEF ReadEvents
  <2>2. /\ y \in Stream /\ y.pc = "emit" /\ y.job = x.job /\ y.last = x.last
        /\ y.batch = b /\ y.sent = x.sent /\ y.seen = x.seen
    <3>1. b \in SUBSET Event
      BY <1>1
    <3>. HIDE DEF b
    <3>. QED
      BY <1>1, <1>2, <3>1 DEF Stream
  <2>3. stream' = [stream EXCEPT ![s] = y]
    BY <1>7 DEF ReadEvents
  <2>. HIDE DEF y
  <2>4. Follows(y, E)
    BY <1>1, <2>1, <2>2, FollowsLoad
  <2>. QED
    BY <2>1, <2>2, <2>3, <2>4, StreamMoves
<1>8. CASE Emit(s)
  <2>1. PICK g \in x.batch :
          /\ \A f \in x.batch : g.id <= f.id
          /\ stream' = [stream EXCEPT ![s].last = g.id, ![s].batch = @ \ {g},
                                      ![s].sent = @ \cup {g}]
    BY <1>8 DEF Emit
  <2>. DEFINE y == [x EXCEPT !.last = g.id, !.batch = @ \ {g}, !.sent = @ \cup {g}]
  <2>2. x.pc = "emit" /\ status[x.job] # "absent" /\ UNCHANGED vars
    BY <1>1, <1>8 DEF Emit
  <2>3. g \in Event /\ g.id \in Nat
    BY <1>2, <2>1 DEF Event
  <2>4. /\ y \in Stream /\ y.pc = "emit" /\ y.job = x.job /\ y.last = g.id
        /\ y.batch = x.batch \ {g} /\ y.sent = x.sent \cup {g} /\ y.seen = x.seen
    BY <1>1, <1>2, <2>2, <2>3 DEF Stream
  <2>5. stream' = [stream EXCEPT ![s] = y]
    BY <2>1
  <2>. HIDE DEF y
  <2>6. Follows(y, E)
    BY <1>1, <2>1, <2>2, <2>4, FollowsEmit
  <2>. QED
    BY <2>2, <2>4, <2>5, <2>6, StreamMoves
<1>9. CASE EndOrSleep(s)
  <2>1. /\ x.pc = "emit" /\ x.batch = {} /\ UNCHANGED vars
        /\ status[x.job] # "absent"
    BY <1>1, <1>9 DEF EndOrSleep
  <2>2. CASE x.seen \in Terminal
    <3>. DEFINE y == [x EXCEPT !.pc = "ended"]
    <3>1. /\ y \in Stream /\ y.pc = "ended" /\ y.job = x.job /\ y.last = x.last
          /\ y.batch = x.batch /\ y.sent = x.sent /\ y.seen = x.seen
      BY <1>1, <1>2 DEF Stream
    <3>2. stream' = [stream EXCEPT ![s] = y]
      BY <1>9, <2>2 DEF EndOrSleep
    <3>. HIDE DEF y
    <3>3. Tells(x.seen, x.sent)
      BY <1>1, <2>1, <2>2 DEF Follows, Tells
    <3>4. Follows(y, E)
      BY <1>1, <3>1, <3>3 DEF Follows
    <3>. QED
      BY <2>1, <3>1, <3>2, <3>4, StreamMoves
  <2>3. CASE x.seen \notin Terminal
    BY <1>3, <1>9, <2>1, <2>3 DEF EndOrSleep
  <2>. QED
    BY <2>2, <2>3
<1>. QED
  BY <1>4, <1>5, <1>6, <1>7, <1>8, <1>9 DEF StreamStep, LoadEventsAndStatus

LEMMA StreamInvStep == StreamInv /\ [StreamNext]_svars => StreamInv'
<1>. SUFFICES ASSUME StreamInv, [StreamNext]_svars PROVE StreamInv'
  OBVIOUS
<1>1. CASE Next /\ UNCHANGED stream
  BY <1>1, RuntimeKeepsStreams
<1>2. CASE \E s \in Streams : Open(s) \/ Close(s) \/ StreamStep(s)
  BY <1>2, StreamStepKeeps
<1>3. CASE UNCHANGED svars
  BY <1>3, RuntimeKeepsStreams DEF svars
<1>. QED
  BY <1>1, <1>2, <1>3 DEF StreamNext

LEMMA StreamInvHolds == StreamSpec => []StreamInv
<1>1. StreamSpec => StreamInit /\ [][StreamNext]_svars
  BY PTL DEF StreamSpec
<1>. QED
  BY <1>1, StreamInvInit, StreamInvStep, PTL

-----------------------------------------------------------------------------
(***************************************************************************)
(* Streams only read (api/job_streaming.py): whatever clients follow them, *)
(* the jobs behave as they do alone, so that what is proved of JobRuntime  *)
(* holds beside streams.                                                   *)
(***************************************************************************)
LEMMA StreamsOnlyRead == StreamSpec => Spec
<1>1. StreamInit => Init
  BY DEF StreamInit
<1>2. [StreamNext]_svars => [Next]_vars
  BY DEF StreamNext, Open, Close, StreamStep, LoadEventsAndStatus, ReadStatus,
         ReadEvents, Emit, EndOrSleep, svars
<1>. QED
  BY <1>1, <1>2, PTL DEF StreamSpec, Spec

(***************************************************************************)
(* StatusIsNewestEvent (JobRuntime), beside any streams: what a stream has *)
(* told of the status last is what the row of the job says, where no job   *)
(* is the object of two cancellations.                                     *)
(***************************************************************************)
COROLLARY FollowedTimelineTellsStatus ==
  StreamSpec /\ OneCancellation => []StatusIsNewestEvent
BY StreamsOnlyRead, TimelineTellsStatus, PTL

(***************************************************************************)
(* The streams and the jobs they follow keep their types: what a poll      *)
(* loads and sends are events of the timeline.                             *)
(***************************************************************************)
THEOREM StreamsAreTyped == StreamSpec => []StreamTypeOK
<1>1. StreamInv => StreamTypeOK
  BY DEF StreamInv
<1>. QED
  BY <1>1, StreamInvHolds, PTL

(***************************************************************************)
(* stream_job_events misses no event for any number of clients, however    *)
(* often they reconnect with their last id, and sends each in its order:   *)
(* an event that commits between two reads has an id above all those       *)
(* committed, because the row lock is taken before the id is drawn.        *)
(***************************************************************************)
THEOREM StreamsSkipNothing == StreamSpec => []NothingSkipped
<1>1. StreamInv => NothingSkipped
  BY DEF StreamInv, NothingSkipped, Follows
<1>. QED
  BY <1>1, StreamInvHolds, PTL

(***************************************************************************)
(* stream_end is sent only after the event of the terminal status that the *)
(* poll read: the status is read before the events.                        *)
(***************************************************************************)
THEOREM StreamsEndWithVerdict == StreamSpec => []EndsWithVerdict
<1>1. StreamInv => EndsWithVerdict
  BY DEF StreamInv, EndsWithVerdict, Follows, Tells
<1>. QED
  BY <1>1, StreamInvHolds, PTL
=============================================================================
