--------------------------- MODULE SchedulerLease ---------------------------
(***************************************************************************)
(* run_due_schedules (jobs/schedules.py) executed by several scheduler     *)
(* runners over the job_schedules table: the list of due rows, the         *)
(* conditional UPDATE that takes a lease, the submission, and the second   *)
(* transaction that advances next_run_at and drops the lease, or, when the *)
(* submission raised, only drops the lease.                                *)
(*                                                                         *)
(* A transaction that reads a row and then writes it is two steps, since   *)
(* the SELECT takes no lock; the ORM's UPDATE contains only the columns    *)
(* whose value differs from the one read.  locked_by, lock_acquired_at,    *)
(* last_run_at and last_job_run_id are written and never read by the       *)
(* scheduler, so they are left out.                                        *)
(***************************************************************************)
EXTENDS Naturals

CONSTANTS
  Schedules,   \* ids of job_schedules rows
  Runners,     \* processes that may call run_due_schedules
  Intervals,   \* the values interval_seconds may take
  Lease,       \* lease_seconds
  Skew,        \* how far the caller's `now' may be from the real time
  Prompt,      \* TRUE: a call ends before its lease can look expired
  MaxTime,     \* bound on the clock
  MaxPatches   \* bound on the number of PATCH requests

ASSUME SchedulesAssumption == Schedules \subseteq Nat
ASSUME IntervalsAssumption == Intervals \subseteq Nat \ {0}
ASSUME LeaseAssumption     == Lease \in Nat \ {0}
ASSUME SkewAssumption      == Skew \in Nat
ASSUME PromptAssumption    == Prompt \in BOOLEAN /\ (Prompt => Lease > 2 * Skew)
ASSUME BoundsAssumption    == MaxTime \in Nat /\ MaxPatches \in Nat

VARIABLES
  clock,        \* real time
  created,      \* the schedules that exist
  enabled, interval, nextRunAt,
  lockedUntil,  \* NoLease when the column is NULL
  call,         \* each runner's call of run_due_schedules: its locals
  patches,      \* number of PATCH requests so far
  submitted,    \* history: occurrences a job was submitted for
  resubmitted,  \* history: occurrences that got a second job
  excused       \* history: occurrences whose runner failed after submitting

rowVars == <<created, enabled, interval, nextRunAt, lockedUntil>>
history == <<submitted, resubmitted, excused>>
vars    == <<clock, rowVars, call, patches, history>>

NoLease == 0

Occurrence == [id : Schedules \cup {0}, at : Nat]
RowSeen    == [nextRunAt : Nat, lockedUntil : Nat]

Pc == {"idle", "loop", "leased", "submitted", "raised", "marking", "clearing"}

(***************************************************************************)
(* now: the argument; due: the listed rows not visited yet; occ: the row   *)
(* being worked on and its next_run_at when the lease was taken;           *)
(* advanceTo: the next_run_at computed then; seen: the row as read by the  *)
(* closing transaction.                                                    *)
(***************************************************************************)
Call == [pc : Pc, now : Nat, due : SUBSET Occurrence, occ : Occurrence,
         advanceTo : Nat, seen : RowSeen]

NoCall == [pc |-> "idle", now |-> 0, due |-> {}, occ |-> [id |-> 0, at |-> 0],
           advanceTo |-> 0, seen |-> [nextRunAt |-> 0, lockedUntil |-> NoLease]]

\* At the head of the for loop.
Looping(t, D) == [NoCall EXCEPT !.pc = "loop", !.now = t, !.due = D]

(***************************************************************************)
(* The first next + k * i that lies after t, next itself included.         *)
(***************************************************************************)
AdvanceInterval(next, i, t) ==
  IF next > t THEN next ELSE next + ((t - next) \div i + 1) * i

\* Faulty variant: the lease columns are not part of the condition.
AcquirableIgnoringLease(s, t) ==
  s \in created /\ enabled[s] /\ nextRunAt[s] <= t

\* The condition shared by list_due and acquire_due_lease.
Acquirable(s, t) ==
  /\ s \in created
  /\ enabled[s]
  /\ nextRunAt[s] <= t
  /\ lockedUntil[s] <= t

\* list_due orders by next_run_at, then id.
Precedes(d, e) == d.at < e.at \/ (d.at = e.at /\ d.id <= e.id)

IsNext(d, D) == d \in D /\ \A e \in D : Precedes(d, e)

-----------------------------------------------------------------------------
Init ==
  /\ clock = 0
  /\ created = {}
  /\ enabled     = [s \in Schedules |-> FALSE]
  /\ interval    = [s \in Schedules |-> 0]
  /\ nextRunAt   = [s \in Schedules |-> 0]
  /\ lockedUntil = [s \in Schedules |-> NoLease]
  /\ call = [r \in Runners |-> NoCall]
  /\ patches = 0
  /\ submitted = {} /\ resubmitted = {} /\ excused = {}

(***************************************************************************)
(* The API: create_job_schedule and update_job_schedule.  A PATCH may      *)
(* change any of the columns; the ones it does not name keep their value.  *)
(***************************************************************************)
CreateSchedule(s, e, i, n) ==
  /\ s \notin created
  /\ created'   = created \cup {s}
  /\ enabled'   = [enabled EXCEPT ![s] = e]
  /\ interval'  = [interval EXCEPT ![s] = i]
  /\ nextRunAt' = [nextRunAt EXCEPT ![s] = n]
  /\ UNCHANGED <<clock, lockedUntil, call, patches, history>>

\* Faulty variant: an interval of zero seconds is accepted.
UpdateScheduleUnvalidated(s, e, i, n) ==
  /\ s \in created
  /\ patches < MaxPatches
  /\ patches' = patches + 1
  /\ interval' = [interval EXCEPT ![s] = 0]
  /\ UNCHANGED <<clock, created, enabled, nextRunAt, lockedUntil, call, history>>

UpdateSchedule(s, e, i, n) ==
  /\ s \in created
  /\ patches < MaxPatches
  /\ patches' = patches + 1
  /\ enabled'   = [enabled EXCEPT ![s] = e]
  /\ interval'  = [interval EXCEPT ![s] = i]
  /\ nextRunAt' = [nextRunAt EXCEPT ![s] = n]
  \* Moving next_run_at asks for new occurrences, or for old ones again.
  /\ submitted' = IF n = nextRunAt[s] THEN submitted
                  ELSE {o \in submitted : o.id # s}
  /\ UNCHANGED <<clock, created, lockedUntil, call, resubmitted, excused>>

(***************************************************************************)
(* One call of run_due_schedules by runner r.                              *)
(***************************************************************************)
ListDue(r, t) ==
  /\ call[r].pc = "idle"
  /\ t <= clock + Skew /\ clock <= t + Skew
  /\ call' = [call EXCEPT ![r] =
                Looping(t, {[id |-> s, at |-> nextRunAt[s]] :
                              s \in {x \in Schedules : Acquirable(x, t)}})]
  /\ UNCHANGED <<clock, rowVars, patches, history>>

AcquireDueLease(r) ==
  \E d \in call[r].due :
    /\ call[r].pc = "loop"
    /\ IsNext(d, call[r].due)
    /\ Acquirable(d.id, call[r].now)
    /\ lockedUntil' = [lockedUntil EXCEPT ![d.id] = call[r].now + Lease]
    /\ call' = [call EXCEPT
         ![r].pc = "leased",
         ![r].due = @ \ {d},
         ![r].occ = [id |-> d.id, at |-> nextRunAt[d.id]],
         ![r].advanceTo = AdvanceInterval(nextRunAt[d.id], interval[d.id],
                                          call[r].now)]
    /\ UNCHANGED <<clock, created, enabled, interval, nextRunAt, patches, history>>

\* Faulty variant: a runner that did not get the lease releases it.
SkipDueReleasing(r) ==
  \E d \in call[r].due :
    /\ call[r].pc = "loop"
    /\ IsNext(d, call[r].due)
    /\ ~Acquirable(d.id, call[r].now)
    /\ lockedUntil' = [lockedUntil EXCEPT ![d.id] = NoLease]
    /\ call' = [call EXCEPT ![r].due = @ \ {d}]
    /\ UNCHANGED <<clock, created, enabled, interval, nextRunAt, patches, history>>

SkipDue(r) ==
  \E d \in call[r].due :
    /\ call[r].pc = "loop"
    /\ IsNext(d, call[r].due)
    /\ ~Acquirable(d.id, call[r].now)
    /\ call' = [call EXCEPT ![r].due = @ \ {d}]
    /\ UNCHANGED <<clock, rowVars, patches, history>>

\* submit_job_run got as far as handing the job to its executor.
SubmitJob(r) ==
  /\ call[r].pc = "leased"
  /\ call' = [call EXCEPT ![r].pc = "submitted"]
  /\ submitted' = submitted \cup {call[r].occ}
  /\ resubmitted' = IF call[r].occ \in submitted
                    THEN resubmitted \cup {call[r].occ} ELSE resubmitted
  /\ UNCHANGED <<clock, rowVars, patches, excused>>

\* It raised before that: the queue or the database was not reachable.
SubmitRaises(r) ==
  /\ call[r].pc = "leased"
  /\ call' = [call EXCEPT ![r].pc = "raised"]
  /\ UNCHANGED <<clock, rowVars, patches, history>>

\* It raised after that, in the transaction of mark_enqueued or the last read.
SubmitRaisesLate(r) ==
  /\ call[r].pc = "submitted"
  /\ call' = [call EXCEPT ![r].pc = "raised"]
  /\ excused' = excused \cup {call[r].occ}
  /\ UNCHANGED <<clock, rowVars, patches, submitted, resubmitted>>

\* The SELECT of the closing transaction, on either path.
ReadSchedule(r) ==
  /\ call[r].pc \in {"submitted", "raised"}
  /\ call' = [call EXCEPT
       ![r].pc = IF @ = "submitted" THEN "marking" ELSE "clearing",
       ![r].seen = [nextRunAt   |-> nextRunAt[call[r].occ.id],
                    lockedUntil |-> lockedUntil[call[r].occ.id]]]
  /\ UNCHANGED <<clock, rowVars, patches, history>>

\* Only a column whose new value differs from the value read is written.
WriteColumn(column, s, read, new) ==
  IF read = new THEN column ELSE [column EXCEPT ![s] = new]

\* Faulty variant: the lease is dropped and next_run_at stays.
MarkSubmittedInPlace(r) ==
  LET c == call[r] IN
  /\ c.pc = "marking"
  /\ lockedUntil' = WriteColumn(lockedUntil, c.occ.id, c.seen.lockedUntil, NoLease)
  /\ call' = [call EXCEPT ![r] = Looping(c.now, c.due)]
  /\ UNCHANGED <<clock, created, enabled, interval, nextRunAt, patches, history>>

MarkSubmitted(r) ==
  LET c == call[r] IN
  /\ c.pc = "marking"
  /\ nextRunAt' = WriteColumn(nextRunAt, c.occ.id, c.seen.nextRunAt, c.advanceTo)
  /\ lockedUntil' = WriteColumn(lockedUntil, c.occ.id, c.seen.lockedUntil, NoLease)
  /\ call' = [call EXCEPT ![r] = Looping(c.now, c.due)]
  /\ UNCHANGED <<clock, created, enabled, interval, patches, history>>

\* The exception is re-raised: the rest of the list is not visited.
ClearLease(r) ==
  LET c == call[r] IN
  /\ c.pc = "clearing"
  /\ lockedUntil' = WriteColumn(lockedUntil, c.occ.id, c.seen.lockedUntil, NoLease)
  /\ call' = [call EXCEPT ![r] = NoCall]
  /\ UNCHANGED <<clock, created, enabled, interval, nextRunAt, patches, history>>

Return(r) ==
  /\ call[r].pc = "loop"
  /\ call[r].due = {}
  /\ call' = [call EXCEPT ![r] = NoCall]
  /\ UNCHANGED <<clock, rowVars, patches, history>>

-----------------------------------------------------------------------------
\* The process dies, or the database fails it outside a handled submission.
Crash(r) ==
  /\ call[r].pc # "idle"
  /\ call' = [call EXCEPT ![r] = NoCall]
  /\ excused' = IF call[r].pc \in {"submitted", "marking"}
                THEN excused \cup {call[r].occ} ELSE excused
  /\ UNCHANGED <<clock, rowVars, patches, submitted, resubmitted>>

(***************************************************************************)
(* Time passes.  When Prompt holds no call is still running at a time that *)
(* another caller could take for the end of its lease.                     *)
(***************************************************************************)
Tick ==
  /\ clock < MaxTime
  /\ Prompt => \A r \in Runners :
                 call[r].pc # "idle" => clock + 1 + Skew < call[r].now + Lease
  /\ clock' = clock + 1
  /\ UNCHANGED <<rowVars, call, patches, history>>

RunnerStep(r) ==
  \/ AcquireDueLease(r) \/ SkipDue(r)
  \/ SubmitJob(r) \/ SubmitRaises(r) \/ SubmitRaisesLate(r)
  \/ ReadSchedule(r) \/ MarkSubmitted(r) \/ ClearLease(r) \/ Return(r)

Times == 0 .. MaxTime + Skew

Next ==
  \/ \E s \in Schedules, e \in BOOLEAN, i \in Intervals, n \in Times :
       CreateSchedule(s, e, i, n) \/ UpdateSchedule(s, e, i, n)
  \/ Tick
  \/ \E r \in Runners, t \in Times : ListDue(r, t)
  \/ \E r \in Runners : RunnerStep(r) \/ Crash(r)

Spec == Init /\ [][Next]_vars

-----------------------------------------------------------------------------
TypeOK ==
  /\ clock \in Nat
  /\ created \subseteq Schedules
  /\ enabled \in [Schedules -> BOOLEAN]
  /\ interval \in [Schedules -> Nat]
  /\ \A s \in created : interval[s] \in Intervals
  /\ nextRunAt \in [Schedules -> Nat]
  /\ lockedUntil \in [Schedules -> Nat]
  /\ call \in [Runners -> Call]
  /\ patches \in Nat
  /\ submitted \subseteq Occurrence
  /\ resubmitted \subseteq Occurrence
  /\ excused \subseteq Occurrence

\* The window the lease protects, from its acquisition to its release.
InWindow(r) == call[r].pc \notin {"idle", "loop"}

(***************************************************************************)
(* Two runners are never between acquire_due_lease and the release of the  *)
(* same schedule at the same time, although nothing identifies the owner   *)
(* when a lease is released.                                               *)
(***************************************************************************)
LeaseExclusive ==
  \A q, r \in Runners :
    InWindow(q) /\ InWindow(r) /\ call[q].occ.id = call[r].occ.id => q = r

(***************************************************************************)
(* An occurrence of a schedule gets a second job only after the runner     *)
(* that submitted the first one failed before mark_submitted committed.    *)
(***************************************************************************)
SubmittedOnce == resubmitted \subseteq excused

(***************************************************************************)
(* While a runner is inside its window, its lease stays in the row: the    *)
(* other runners' clear_lease and mark_submitted do not drop it.           *)
(***************************************************************************)
LeaseHeld ==
  \A r \in Runners :
    InWindow(r) => lockedUntil[call[r].occ.id] = call[r].now + Lease

(***************************************************************************)
(* What the two invariants above rest on when Prompt holds: a call runs    *)
(* only while its lease looks alive to every caller ...                    *)
(***************************************************************************)
CallInTime ==
  \A r \in Runners :
    call[r].pc # "idle" =>
      /\ call[r].now <= clock + Skew
      /\ clock + Skew < call[r].now + Lease

\* Occurrences whose one job was not followed by a failure of its runner.
Settled == submitted \ excused

(***************************************************************************)
(* ... a settled occurrence is behind next_run_at, or its runner is about  *)
(* to move next_run_at past it ...                                         *)
(***************************************************************************)
SettledIsPast ==
  \A o \in Settled :
    /\ o.id \in created
    /\ \/ o.at < nextRunAt[o.id]
       \/ \E r \in Runners :
            call[r].pc \in {"submitted", "marking"} /\ call[r].occ = o

(***************************************************************************)
(* ... the runner in the window works on an occurrence later than all the  *)
(* settled ones, will move next_run_at past it, and its closing            *)
(* transaction has not read a next_run_at that was patched since.          *)
(***************************************************************************)
WindowIsNewest ==
  \A r \in Runners : InWindow(r) =>
    LET c == call[r] IN
    /\ \A o \in Settled :
         o.id = c.occ.id =>
           \/ o.at < c.occ.at
           \/ o = c.occ /\ c.pc \in {"submitted", "marking"}
    /\ c.occ.at < c.advanceTo
    /\ c.pc = "marking" =>
         \/ c.seen.nextRunAt = nextRunAt[c.occ.id]
         \/ \A o \in Settled : o.id # c.occ.id

(***************************************************************************)
(* Of two runners inside the window of one schedule at most one holds a    *)
(* lease that has not run out.                                             *)
(***************************************************************************)
LiveLeaseExclusive ==
  \A q, r \in Runners :
    /\ InWindow(q) /\ clock < call[q].now + Lease
    /\ InWindow(r) /\ clock < call[r].now + Lease
    /\ call[q].occ.id = call[r].occ.id
    => q = r

(***************************************************************************)
(* A call that is not cut short by a crash has visited all the schedules   *)
(* it listed, also when a submission raised.                               *)
(***************************************************************************)
TickVisitsAllDue ==
  [][\A r \in Runners :
       call[r].pc # "idle" /\ call'[r].pc = "idle" /\ ~Crash(r)
         => call[r].due = {}]_vars

(***************************************************************************)
(* The schedule never goes back: next_run_at decreases only in a PATCH, or *)
(* when mark_submitted overwrites a PATCH made while it was being          *)
(* submitted.                                                              *)
(***************************************************************************)
NextRunNeverGoesBack ==
  [][patches = 0 /\ patches' = 0 =>
       \A s \in created : nextRunAt'[s] >= nextRunAt[s]]_vars
=============================================================================
