----------------------------- MODULE JobRuntime -----------------------------
(***************************************************************************)
(* The life of a job_runs row: submit_job_run (jobs/service.py) creates it *)
(* and hands it to an RQ worker or runs it inline,                         *)
(* execute_job_run_with_engine (jobs/runtime.py) executes it inside        *)
(* WorkflowCommandRunner.run_with_audit (workflows/runner.py), and         *)
(* cancel_job_run (jobs/cancellation.py) may interfere at any point.       *)
(*                                                                         *)
(* Every session_scope block is one transaction.  Where it reads the job   *)
(* row and writes it, it is three steps: the SELECT, which locks nothing;  *)
(* the flush of the UPDATE, which waits for and takes the row lock, and of *)
(* the INSERT of the event, which draws its id; and the commit, which      *)
(* publishes both and releases the lock.  The UPDATE names only the        *)
(* columns whose new value differs from the value read.                    *)
(***************************************************************************)
EXTENDS Naturals, Sequences, FiniteSets

CONSTANTS
  Jobs,        \* the kinds of job a client may submit, one row each
  MaxSubmitted,\* bound: how many of them are submitted
  Cancellers,  \* API requests POST /jobs/{id}/cancel
  Inline,      \* the jobs submitted where job_executor is "inline"
  Payload      \* what _execute_payload does for each job, step by step

(***************************************************************************)
(* A payload is a sequence of checks of the cancellation token, progress   *)
(* reports, and the commit of its own data.                                *)
(***************************************************************************)
Check       == [op |-> "check",    value |-> 0]
Progress(p) == [op |-> "progress", value |-> p]
Apply       == [op |-> "apply",    value |-> 0]

Step == {Check, Apply} \cup {Progress(p) : p \in 0 .. 100}

\* import_legacy, backtest_ma_cross, paper_run_tick and the agents.
SinglePayload == <<Check, Apply>>

\* Faulty variant: the bars are committed before the last check.
SyncPayloadEager(bars) ==
  <<Check, Progress(20), Check, Progress(50), Apply>>
    \o [b \in 1 .. bars |-> Check] \o <<Progress(90)>>

\* market_data_sync: one check per bar inside the transaction of the bars, which
\* is its data.  Its first transaction, the data_sync_runs row and the instrument,
\* is in DataSync: it precedes every check, and stays when the job is cancelled.
SyncPayload(bars) ==
  <<Check, Progress(20), Check, Progress(50)>>
    \o [b \in 1 .. bars |-> Check] \o <<Progress(90), Apply>>

ASSUME JobsAssumption    == IsFiniteSet(Jobs) /\ Inline \subseteq Jobs
ASSUME MaxAssumption     == MaxSubmitted \in Nat
ASSUME PayloadAssumption == Payload \in [Jobs -> Seq(Step)]

VARIABLES
  status, progress,  \* the job_runs row; status "absent" before it exists
  events,            \* committed job_events of each job
  nextId,            \* the next event id, as far as one job can tell
  workflow,          \* status of the job's workflow_runs row, or "none"
  applied,           \* has the payload committed its data?
  queue,             \* jobs handed to RQ and not yet taken by a worker
  sub, work, can     \* the submitters, workers and cancellers

rowVars == <<status, progress, events, nextId>>
vars    == <<rowVars, workflow, applied, queue, sub, work, can>>

Statuses == {"queued", "running", "cancel_requested",
             "cancelled", "failed", "succeeded"}
Terminal == {"cancelled", "failed", "succeeded"}
Outcome  == {"none", "cancelled", "failed", "succeeded"}

EventType == Statuses \cup {"enqueued", "progress"}
Event     == [id : Nat, type : EventType]

SubPc  == {"new", "created", "enqueued", "marking", "done", "failed"}
WorkPc == {"idle", "start", "starting", "audit", "payload", "progressing",
           "returned", "raised", "finish", "closing", "finishing",
           "done", "crashed"}
CanPc  == {"idle", "read", "flushed", "done", "rejected"}

\* id: the event id drawn by the open transaction; seen: the status it read.
Submitter == [pc : SubPc, id : Nat]
Worker    == [pc : WorkPc, id : Nat, seen : Statuses, step : Nat,
              outcome : Outcome]
Canceller == [pc : CanPc, id : Nat, seen : Statuses, job : Jobs]

-----------------------------------------------------------------------------
\* The row lock is held from the flush to the commit or rollback.
Locked(j) ==
  \/ sub[j].pc = "marking"
  \/ work[j].pc \in {"starting", "progressing", "finishing"}
  \/ \E c \in Cancellers : can[c].pc = "flushed" /\ can[c].job = j

Written(seen, new, current) == IF seen = new THEN current ELSE new

\* JobEventRepository.record: draw an id at the flush, publish at the commit.
DrawId(j)            == nextId' = [nextId EXCEPT ![j] = @ + 1]
Publish(j, id, type) ==
  events' = [events EXCEPT ![j] = @ \cup {[id |-> id, type |-> type]}]

SetStatus(j, seen, new) ==
  status' = [status EXCEPT ![j] = Written(seen, new, @)]

Init ==
  /\ status   = [j \in Jobs |-> "absent"]
  /\ progress = [j \in Jobs |-> 0]
  /\ events   = [j \in Jobs |-> {}]
  /\ nextId   = [j \in Jobs |-> 1]
  /\ workflow = [j \in Jobs |-> "none"]
  /\ applied  = [j \in Jobs |-> FALSE]
  /\ queue = {}
  /\ sub  = [j \in Jobs |-> [pc |-> "new", id |-> 0]]
  /\ work = [j \in Jobs |-> [pc |-> "idle", id |-> 0, seen |-> "queued",
                             step |-> 1, outcome |-> "none"]]
  /\ can \in [Cancellers -> {[pc |-> "idle", id |-> 0, seen |-> "queued",
                              job |-> j] : j \in Jobs}]

(***************************************************************************)
(* submit_job_run.                                                         *)
(***************************************************************************)
CreateQueued(j) ==
  /\ sub[j].pc = "new"
  /\ Cardinality({i \in Jobs : sub[i].pc # "new"}) < MaxSubmitted
  /\ sub' = [sub EXCEPT ![j].pc = "created"]
  /\ status' = [status EXCEPT ![j] = "queued"]
  /\ DrawId(j) /\ Publish(j, nextId[j], "queued")
  /\ UNCHANGED <<progress, workflow, applied, queue, work, can>>

Enqueue(j) ==
  /\ j \notin Inline
  /\ sub[j].pc = "created"
  /\ sub' = [sub EXCEPT ![j].pc = "enqueued"]
  /\ queue' = queue \cup {j}
  /\ UNCHANGED <<rowVars, workflow, applied, work, can>>

\* Faulty variant: the event is inserted before the row is updated.
FlushEnqueuedUnlocked(j) ==
  /\ sub[j].pc = "enqueued"
  /\ sub' = [sub EXCEPT ![j] = [pc |-> "marking", id |-> nextId[j]]]
  /\ DrawId(j)
  /\ UNCHANGED <<status, progress, events, workflow, applied, queue, work, can>>

FlushEnqueued(j) ==
  /\ sub[j].pc = "enqueued"
  /\ ~Locked(j)
  /\ sub' = [sub EXCEPT ![j] = [pc |-> "marking", id |-> nextId[j]]]
  /\ DrawId(j)
  /\ UNCHANGED <<status, progress, events, workflow, applied, queue, work, can>>

CommitEnqueued(j) ==
  /\ sub[j].pc = "marking"
  /\ sub' = [sub EXCEPT ![j].pc = "done"]
  /\ Publish(j, sub[j].id, "enqueued")
  /\ UNCHANGED <<status, progress, nextId, workflow, applied, queue, work, can>>

ReturnInline(j) ==
  /\ j \in Inline
  /\ sub[j].pc = "created" /\ work[j].pc = "done"
  /\ sub' = [sub EXCEPT ![j].pc = "done"]
  /\ UNCHANGED <<rowVars, workflow, applied, queue, work, can>>

\* The queue or the database fails the request, or the API process dies.
SubmitFails(j) ==
  /\ \/ sub[j].pc \in {"enqueued", "marking"}
     \/ sub[j].pc = "created" /\ work[j].pc = "idle"
  /\ sub' = [sub EXCEPT ![j].pc = "failed"]
  /\ UNCHANGED <<rowVars, workflow, applied, queue, work, can>>

(***************************************************************************)
(* execute_job_run_with_engine, first transaction.                         *)
(***************************************************************************)
\* Faulty variant: the queue delivers a job again after its worker died.
TakeJobRedelivered(j) ==
  /\ work[j].pc \in {"idle", "crashed"}
  /\ j \in queue \/ (j \in Inline /\ sub[j].pc = "created")
  /\ UNCHANGED queue

TakeJob(j) ==
  /\ work[j].pc = "idle"
  /\ j \in queue \/ (j \in Inline /\ sub[j].pc = "created")
  /\ queue' = queue \ {j}

\* Faulty variant: the worker does not look at the status it read.
BeginUnguarded(j) ==
  /\ TakeJob(j)
  /\ work' = [work EXCEPT ![j] = [@ EXCEPT !.pc = "start", !.seen = status[j]]]
  /\ UNCHANGED <<rowVars, workflow, applied, sub, can>>

Begin(j) ==
  /\ TakeJob(j)
  /\ work' = [work EXCEPT ![j] =
                IF status[j] = "cancelled" THEN [@ EXCEPT !.pc = "done"]
                ELSE [@ EXCEPT !.pc = "start", !.seen = status[j]]]
  /\ UNCHANGED <<rowVars, workflow, applied, sub, can>>

\* The flush of a worker's UPDATE and event.
Flush(j, from, to) ==
  /\ work[j].pc = from
  /\ ~Locked(j)
  /\ work' = [work EXCEPT ![j] = [@ EXCEPT !.pc = to, !.id = nextId[j]]]
  /\ DrawId(j)
  /\ UNCHANGED <<status, progress, events, workflow, applied, queue, sub, can>>

FlushStart(j) == Flush(j, "start", "starting")

CommitStart(j) ==
  /\ work[j].pc = "starting"
  /\ work' = [work EXCEPT ![j] = [@ EXCEPT !.pc = "audit"]]
  /\ SetStatus(j, work[j].seen, "running")
  /\ progress' = [progress EXCEPT ![j] = 10]
  /\ Publish(j, work[j].id, "running")
  /\ UNCHANGED <<nextId, workflow, applied, queue, sub, can>>

(***************************************************************************)
(* run_with_audit around _execute_payload.                                 *)
(***************************************************************************)
CreateWorkflow(j) ==
  /\ work[j].pc = "audit"
  /\ work' = [work EXCEPT ![j] = [@ EXCEPT !.pc = "payload"]]
  /\ workflow' = [workflow EXCEPT ![j] = "running"]
  /\ UNCHANGED <<rowVars, applied, queue, sub, can>>

\* An unsupported job type, or the insertion of the workflow run failed.
AuditNotCreated(j) ==
  /\ work[j].pc = "audit"
  /\ work' = [work EXCEPT ![j] =
                [@ EXCEPT !.pc = "finish", !.outcome = "failed"]]
  /\ UNCHANGED <<rowVars, workflow, applied, queue, sub, can>>

AtStep(j, op) ==
  /\ work[j].pc = "payload"
  /\ work[j].step \in DOMAIN Payload[j]
  /\ Payload[j][work[j].step].op = op

\* Faulty variant: a request that is pending is not taken for a cancellation.
CheckCancelledOnly(j) ==
  /\ AtStep(j, "check")
  /\ work' = [work EXCEPT ![j] =
                IF status[j] = "cancelled"
                THEN [@ EXCEPT !.pc = "raised", !.outcome = "cancelled"]
                ELSE [@ EXCEPT !.step = work[j].step + 1]]
  /\ UNCHANGED <<rowVars, workflow, applied, queue, sub, can>>

RaiseIfCancelled(j) ==
  /\ AtStep(j, "check")
  /\ work' = [work EXCEPT ![j] =
                IF status[j] \in {"cancel_requested", "cancelled"}
                THEN [@ EXCEPT !.pc = "raised", !.outcome = "cancelled"]
                ELSE [@ EXCEPT !.step = work[j].step + 1]]
  /\ UNCHANGED <<rowVars, workflow, applied, queue, sub, can>>

FlushProgress(j) == AtStep(j, "progress") /\ Flush(j, "payload", "progressing")

\* Faulty variant: the UPDATE names every column of the row.
CommitProgressFullRow(j) ==
  /\ work[j].pc = "progressing"
  /\ work' = [work EXCEPT ![j] =
                [@ EXCEPT !.pc = "payload", !.step = work[j].step + 1]]
  /\ status' = [status EXCEPT ![j] = "running"]
  /\ progress' = [progress EXCEPT ![j] = Payload[j][work[j].step].value]
  /\ Publish(j, work[j].id, "progress")
  /\ UNCHANGED <<nextId, workflow, applied, queue, sub, can>>

CommitProgress(j) ==
  /\ work[j].pc = "progressing"
  /\ work' = [work EXCEPT ![j] =
                [@ EXCEPT !.pc = "payload", !.step = work[j].step + 1]]
  /\ progress' = [progress EXCEPT ![j] = Payload[j][work[j].step].value]
  /\ Publish(j, work[j].id, "progress")
  /\ UNCHANGED <<status, nextId, workflow, applied, queue, sub, can>>

ApplyPayload(j) ==
  /\ AtStep(j, "apply")
  /\ work' = [work EXCEPT ![j] = [@ EXCEPT !.step = work[j].step + 1]]
  /\ applied' = [applied EXCEPT ![j] = TRUE]
  /\ UNCHANGED <<rowVars, workflow, queue, sub, can>>

\* The callback raised, before its data was committed.
PayloadRaises(j) ==
  /\ work[j].pc = "payload"
  /\ work[j].step \in DOMAIN Payload[j]
  /\ work' = [work EXCEPT ![j] =
                [@ EXCEPT !.pc = "raised", !.outcome = "failed"]]
  /\ UNCHANGED <<rowVars, workflow, applied, queue, sub, can>>

PayloadReturns(j) ==
  /\ work[j].pc = "payload"
  /\ work[j].step \notin DOMAIN Payload[j]
  /\ work' = [work EXCEPT ![j] = [@ EXCEPT !.pc = "returned"]]
  /\ UNCHANGED <<rowVars, workflow, applied, queue, sub, can>>

MarkWorkflowSucceeded(j) ==
  /\ work[j].pc = "returned"
  /\ work' = [work EXCEPT ![j] =
                [@ EXCEPT !.pc = "finish", !.outcome = "succeeded"]]
  /\ workflow' = [workflow EXCEPT ![j] = "succeeded"]
  /\ UNCHANGED <<rowVars, applied, queue, sub, can>>

MarkWorkflowFailed(j) ==
  /\ work[j].pc = "raised"
  /\ work' = [work EXCEPT ![j] = [@ EXCEPT !.pc = "finish"]]
  /\ workflow' = [workflow EXCEPT ![j] = "failed"]
  /\ UNCHANGED <<rowVars, applied, queue, sub, can>>

\* Faulty variant: an error while the audit row is closed is swallowed.
AuditErrorSwallowed(j) ==
  /\ work[j].pc \in {"returned", "raised"}
  /\ work' = [work EXCEPT ![j] =
                [@ EXCEPT !.pc = "finish",
                          !.outcome = IF @ = "none" THEN "succeeded" ELSE @]]
  /\ UNCHANGED <<rowVars, workflow, applied, queue, sub, can>>

\* The transaction that closes the audit row failed; its error is raised.
AuditRaises(j) ==
  /\ work[j].pc \in {"returned", "raised"}
  /\ work' = [work EXCEPT ![j] =
                [@ EXCEPT !.pc = "finish", !.outcome = "failed"]]
  /\ UNCHANGED <<rowVars, workflow, applied, queue, sub, can>>

(***************************************************************************)
(* The last transaction: mark_succeeded, mark_failed or mark_cancelled.    *)
(***************************************************************************)
ReadForVerdict(j) ==
  /\ work[j].pc = "finish"
  /\ work' = [work EXCEPT ![j] =
                [@ EXCEPT !.pc = "closing", !.seen = status[j]]]
  /\ UNCHANGED <<rowVars, workflow, applied, queue, sub, can>>

FlushVerdict(j) == Flush(j, "closing", "finishing")

CommitVerdict(j) ==
  LET w == work[j] IN
  /\ w.pc = "finishing"
  /\ work' = [work EXCEPT ![j] = [@ EXCEPT !.pc = "done"]]
  /\ SetStatus(j, w.seen, w.outcome)
  /\ progress' = IF w.outcome = "succeeded" THEN [progress EXCEPT ![j] = 100]
                 ELSE progress
  /\ Publish(j, w.id, w.outcome)
  /\ UNCHANGED <<nextId, workflow, applied, queue, sub, can>>

\* The worker dies, or a transaction outside the audited call fails.
WorkerCrashes(j) ==
  /\ work[j].pc \notin {"idle", "done", "crashed"}
  /\ work' = [work EXCEPT ![j] = [@ EXCEPT !.pc = "crashed"]]
  /\ sub' = IF j \in Inline THEN [sub EXCEPT ![j].pc = "failed"] ELSE sub
  /\ UNCHANGED <<rowVars, workflow, applied, queue, can>>

(***************************************************************************)
(* cancel_job_run.                                                         *)
(***************************************************************************)
ReadForCancel(c) ==
  LET j == can[c].job IN
  /\ can[c].pc = "idle"
  /\ can' = [can EXCEPT ![c] =
               IF status[j] \in Terminal \cup {"absent"}
               THEN [@ EXCEPT !.pc = "rejected"]
               ELSE [@ EXCEPT !.pc = "read", !.seen = status[j]]]
  /\ UNCHANGED <<rowVars, workflow, applied, queue, sub, work>>

FlushCancel(c) ==
  LET j == can[c].job IN
  /\ can[c].pc = "read"
  /\ ~Locked(j)
  /\ can' = [can EXCEPT ![c] = [@ EXCEPT !.pc = "flushed", !.id = nextId[j]]]
  /\ DrawId(j)
  /\ UNCHANGED <<status, progress, events, workflow, applied, queue, sub, work>>

\* Faulty variant: a status no reader of the row knows.
CancelToMisspelt(seen) ==
  IF seen = "queued" THEN "canceled" ELSE "cancel_requested"

CancelTo(seen) == IF seen = "queued" THEN "cancelled" ELSE "cancel_requested"

CommitCancel(c) ==
  LET k == can[c] IN
  /\ k.pc = "flushed"
  /\ can' = [can EXCEPT ![c] = [@ EXCEPT !.pc = "done"]]
  /\ SetStatus(k.job, k.seen, CancelTo(k.seen))
  /\ Publish(k.job, k.id, CancelTo(k.seen))
  /\ UNCHANGED <<progress, nextId, workflow, applied, queue, sub, work>>

CancelFails(c) ==
  /\ can[c].pc \in {"read", "flushed"}
  /\ can' = [can EXCEPT ![c] = [@ EXCEPT !.pc = "rejected"]]
  /\ UNCHANGED <<rowVars, workflow, applied, queue, sub, work>>

-----------------------------------------------------------------------------
SubmitStep(j) ==
  CreateQueued(j) \/ Enqueue(j) \/ FlushEnqueued(j) \/ CommitEnqueued(j)
    \/ ReturnInline(j)

WorkStep(j) ==
  \/ Begin(j) \/ FlushStart(j) \/ CommitStart(j) \/ CreateWorkflow(j)
  \/ RaiseIfCancelled(j) \/ FlushProgress(j) \/ CommitProgress(j)
  \/ ApplyPayload(j) \/ PayloadReturns(j)
  \/ MarkWorkflowSucceeded(j) \/ MarkWorkflowFailed(j)
  \/ ReadForVerdict(j) \/ FlushVerdict(j) \/ CommitVerdict(j)

CancelStep(c) == FlushCancel(c) \/ CommitCancel(c)

Failure(j) ==
  SubmitFails(j) \/ AuditNotCreated(j) \/ PayloadRaises(j) \/ AuditRaises(j)
    \/ WorkerCrashes(j)

\* Nobody has anything left to do.
AtRest ==
  /\ \A j \in Jobs : /\ sub[j].pc \in {"new", "done", "failed"}
                     /\ work[j].pc \in {"idle", "done", "crashed"}
                     /\ j \notin queue
  /\ \A c \in Cancellers : can[c].pc \in {"done", "rejected"}

Rest == AtRest /\ UNCHANGED vars

Next ==
  \/ \E j \in Jobs : SubmitStep(j) \/ WorkStep(j) \/ Failure(j)
  \/ \E c \in Cancellers : ReadForCancel(c) \/ CancelStep(c) \/ CancelFails(c)
  \/ Rest

Spec == Init /\ [][Next]_vars

(***************************************************************************)
(* A worker, a submission or a request that has begun goes on; nothing     *)
(* makes a client submit or cancel, and nothing makes anything fail.       *)
(***************************************************************************)
Fairness ==
  /\ \A j \in Jobs : /\ WF_vars(WorkStep(j))
                     /\ WF_vars(SubmitStep(j) /\ sub[j].pc # "new")
  /\ \A c \in Cancellers : WF_vars(CancelStep(c))

-----------------------------------------------------------------------------
TypeOK ==
  /\ status   \in [Jobs -> Statuses \cup {"absent"}]
  /\ progress \in [Jobs -> 0 .. 100]
  /\ events   \in [Jobs -> SUBSET Event]
  /\ nextId   \in [Jobs -> Nat]
  /\ workflow \in [Jobs -> {"none", "running", "failed", "succeeded"}]
  /\ applied  \in [Jobs -> BOOLEAN]
  /\ queue    \in SUBSET Jobs
  /\ sub      \in [Jobs -> Submitter]
  /\ work     \in [Jobs -> Worker]
  /\ can      \in [Cancellers -> Canceller]

(***************************************************************************)
(* A row says "succeeded" only if the payload committed its data and the   *)
(* workflow run that audits it was closed as succeeded: no cancellation,   *)
(* failure or error while the audit row is closed ends in "succeeded".     *)
(***************************************************************************)
SucceededIsAudited ==
  \A j \in Jobs : status[j] = "succeeded" =>
                   applied[j] /\ workflow[j] = "succeeded"

(***************************************************************************)
(* A job that stopped because of a cancellation did not commit the data of *)
(* its payload: "cancelled" is never said of a backtest, a tick or bars    *)
(* that were stored.  (A sync keeps the row that says it failed.)          *)
(***************************************************************************)
CancelledLeavesNothing ==
  \A j \in Jobs : work[j].outcome = "cancelled" => ~applied[j]

(***************************************************************************)
(* The ids of the events still to be committed for a job are above those   *)
(* of all its committed events, whoever records them: a reader that asks   *)
(* for the ids above the last one it saw never misses an event.  It holds  *)
(* because every recorder updates the job row before it inserts the event. *)
(***************************************************************************)
Undecided(j) ==
  (IF sub[j].pc = "marking" THEN {sub[j].id} ELSE {})
    \cup (IF work[j].pc \in {"starting", "progressing", "finishing"}
          THEN {work[j].id} ELSE {})
    \cup {can[c].id : c \in {d \in Cancellers : can[d].pc = "flushed"
                                              /\ can[d].job = j}}

NoEventBehind ==
  \A j \in Jobs : \A e \in events[j], i \in Undecided(j) : e.id < i

(***************************************************************************)
(* Of a job that at most one request cancels, the newest event that tells  *)
(* a status tells the status of the row, whatever was read before it was   *)
(* written and whatever failed in between.                                 *)
(***************************************************************************)
StatusEvents(j) == {e \in events[j] : e.type \in Statuses}

StatusIsNewestEvent ==
  \A j \in Jobs :
    \E e \in StatusEvents(j) \cup {[id |-> 0, type |-> "absent"]} :
      e.type = status[j] /\ \A f \in StatusEvents(j) : f.id <= e.id

(***************************************************************************)
(* A job cancelled while no worker had taken it stays cancelled, and runs  *)
(* no workflow command when a worker takes it later.                       *)
(***************************************************************************)
Shelved(j) == /\ status[j] = "cancelled"
              /\ work[j].pc \in {"idle", "done"}
              /\ \A e \in events[j] : e.type # "running"
              /\ workflow[j] = "none"

ShelvedForGood == [][\A j \in Jobs : Shelved(j) => Shelved(j)']_vars

(***************************************************************************)
(* Once the worker has begun, a cancellation is not erased from the row    *)
(* before the worker gives its verdict, whatever progress it reports.      *)
(***************************************************************************)
Running(j) == work[j].pc \notin {"idle", "start", "starting", "finishing"}

RequestSticks ==
  [][\A j \in Jobs :
       Running(j) /\ status[j] \in {"cancel_requested", "cancelled"}
         => status'[j] \in {"cancel_requested", "cancelled"}]_vars

(***************************************************************************)
(* A request recorded while the payload still has a check to make is       *)
(* honoured: the job ends, and not as a success, unless its worker dies.   *)
(***************************************************************************)
CheckAhead(j) ==
  /\ work[j].pc \in {"audit", "payload", "progressing"}
  /\ \E s \in DOMAIN Payload[j] : s >= work[j].step /\ Payload[j][s] = Check

RequestHonoured ==
  \A j \in Jobs :
    status[j] = "cancel_requested" /\ CheckAhead(j)
      ~> \/ work[j].pc = "done" /\ work[j].outcome # "succeeded"
         \/ work[j].pc = "crashed"

(***************************************************************************)
(* What a job's timeline says of it, "job cancelled before execution"      *)
(* (jobs/cancellation.py): such a job does not run afterwards.  The code   *)
(* does not guarantee it: the worker may have read "queued" before the     *)
(* cancellation is committed, and overwrites it.                           *)
(***************************************************************************)
CancelledBeforeExecution ==
  [][\A j \in Jobs : status[j] = "cancelled" => status'[j] # "running"]_vars
=============================================================================
