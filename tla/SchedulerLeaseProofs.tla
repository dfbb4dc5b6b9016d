------------------------ MODULE SchedulerLeaseProofs ------------------------
(***************************************************************************)
(* Proofs about SchedulerLease, for every set of schedules and runners,    *)
(* every lease length and every clock skew.                                *)
(***************************************************************************)
EXTENDS SchedulerLease, TLAPS

(***************************************************************************)
(* _advance_interval returns a time that lies after t.                     *)
(***************************************************************************)
LEMMA AdvanceIsLater ==
  ASSUME NEW next \in Nat, NEW i \in Nat \ {0}, NEW t \in Nat
  PROVE  AdvanceInterval(next, i, t) \in Nat /\ AdvanceInterval(next, i, t) > t
<1>1. CASE next > t
  BY <1>1 DEF AdvanceInterval
<1>2. CASE ~(next > t)
  <2>1. t - next \in Nat
    BY <1>2
  <2>2. (t - next) \div i \in Nat
    BY <2>1, SMT
  <2>3. ((t - next) \div i + 1) * i \in Nat /\ ((t - next) \div i + 1) * i > t - next
    BY <2>1, <2>2, SMT
  <2>. QED
    BY <1>2, <2>3 DEF AdvanceInterval
<1>. QED
  BY <1>1, <1>2

(***************************************************************************)
(* A runner in its window works on an existing schedule.                   *)
(***************************************************************************)
TargetCreated ==
  \A r \in Runners : InWindow(r) => call[r].occ.id \in created

LEMMA NoCallType == NoCall \in Call
BY DEF NoCall, Call, Pc, Occurrence, RowSeen, NoLease

LEMMA LoopingType ==
  ASSUME NEW t \in Nat, NEW D \in SUBSET Occurrence
  PROVE  /\ Looping(t, D) \in Call
         /\ Looping(t, D).pc = "loop"
         /\ Looping(t, D).now = t
BY DEF Looping, NoCall, Call, Pc, Occurrence, RowSeen, NoLease

LEMMA TypeInit == Init => TypeOK /\ TargetCreated
<1>. SUFFICES ASSUME Init PROVE TypeOK /\ TargetCreated
  OBVIOUS
<1>1. TypeOK
  BY NoCallType DEF Init, TypeOK, NoLease
<1>2. TargetCreated
  BY DEF Init, TargetCreated, InWindow, NoCall
<1>. QED
  BY <1>1, <1>2

LEMMA TypeStep == TypeOK /\ TargetCreated /\ [Next]_vars => TypeOK' /\ TargetCreated'
<1>. SUFFICES ASSUME TypeOK, TargetCreated, [Next]_vars
              PROVE  TypeOK' /\ TargetCreated'
  OBVIOUS
<1>. USE SchedulesAssumption, IntervalsAssumption, LeaseAssumption,
         SkewAssumption, BoundsAssumption
<1>1. ASSUME NEW s \in Schedules, NEW e \in BOOLEAN, NEW i \in Intervals,
             NEW n \in Times, CreateSchedule(s, e, i, n)
      PROVE  TypeOK' /\ TargetCreated'
  <2>1. n \in Nat
    BY DEF Times
  <2>2. TypeOK'
    BY <1>1, <2>1 DEF TypeOK, CreateSchedule, history
  <2>. QED
    BY <1>1, <2>2 DEF TargetCreated, InWindow, CreateSchedule, history
<1>2. ASSUME NEW s \in Schedules, NEW e \in BOOLEAN, NEW i \in Intervals,
             NEW n \in Times, UpdateSchedule(s, e, i, n)
      PROVE  TypeOK' /\ TargetCreated'
  <2>1. n \in Nat
    BY DEF Times
  <2>2. TypeOK'
    BY <1>2, <2>1 DEF TypeOK, UpdateSchedule
  <2>. QED
    BY <1>2, <2>2 DEF TargetCreated, InWindow, UpdateSchedule
<1>3. CASE Tick
  BY <1>3 DEF TypeOK, TargetCreated, InWindow, Tick, rowVars, history
<1>4. ASSUME NEW r \in Runners, NEW t \in Times, ListDue(r, t)
      PROVE  TypeOK' /\ TargetCreated'
  <2>. DEFINE D == {[id |-> s, at |-> nextRunAt[s]] :
                      s \in {x \in Schedules : Acquirable(x, t)}}
  <2>1. t \in Nat
    BY DEF Times
  <2>2. D \in SUBSET Occurrence
    BY DEF TypeOK, Occurrence
  <2>3. Looping(t, D) \in Call /\ Looping(t, D).pc = "loop"
    BY <2>1, <2>2, LoopingType
  <2>4. call' = [call EXCEPT ![r] = Looping(t, D)]
    BY <1>4 DEF ListDue
  <2>5. TypeOK'
    BY <1>4, <2>3, <2>4 DEF TypeOK, ListDue, rowVars, history
  <2>6. TargetCreated'
    BY <1>4, <2>3, <2>4 DEF TypeOK, TargetCreated, InWindow, ListDue, rowVars
  <2>. QED
    BY <2>5, <2>6
<1>5. ASSUME NEW r \in Runners, AcquireDueLease(r)
      PROVE  TypeOK' /\ TargetCreated'
  <2>1. PICK d \in call[r].due :
          /\ Acquirable(d.id, call[r].now)
          /\ lockedUntil' = [lockedUntil EXCEPT ![d.id] = call[r].now + Lease]
          /\ call' = [call EXCEPT
               ![r].pc = "leased",
               ![r].due = @ \ {d},
               ![r].occ = [id |-> d.id, at |-> nextRunAt[d.id]],
               ![r].advanceTo = AdvanceInterval(nextRunAt[d.id], interval[d.id],
                                                call[r].now)]
          /\ UNCHANGED <<clock, created, enabled, interval, nextRunAt, patches, history>>
    BY <1>5 DEF AcquireDueLease
  <2>2. d.id \in created /\ d.id \in Schedules /\ interval[d.id] \in Nat \ {0}
    BY <2>1 DEF Acquirable, TypeOK
  <2>3. nextRunAt[d.id] \in Nat /\ call[r].now \in Nat /\ call[r] \in Call
    BY <2>2 DEF TypeOK, Call
  <2>4. AdvanceInterval(nextRunAt[d.id], interval[d.id], call[r].now) \in Nat
    BY <2>2, <2>3, AdvanceIsLater
  <2>5. call'[r] \in Call
    BY <2>1, <2>2, <2>3, <2>4 DEF TypeOK, Call, Pc, Occurrence
  <2>6. TypeOK'
    BY <2>1, <2>2, <2>3, <2>5 DEF TypeOK, history
  <2>7. TargetCreated'
    BY <2>1, <2>2, <2>3 DEF TypeOK, TargetCreated, InWindow, Call
  <2>. QED
    BY <2>6, <2>7
<1>6. ASSUME NEW r \in Runners, SkipDue(r)
      PROVE  TypeOK' /\ TargetCreated'
  BY <1>6 DEF TypeOK, TargetCreated, InWindow, SkipDue, Call, rowVars, history
<1>7. ASSUME NEW r \in Runners,
             SubmitJob(r) \/ SubmitRaises(r) \/ SubmitRaisesLate(r)
      PROVE  TypeOK' /\ TargetCreated'
  BY <1>7 DEF TypeOK, TargetCreated, InWindow, SubmitJob, SubmitRaises,
              SubmitRaisesLate, Call, Pc, rowVars, history
<1>8. ASSUME NEW r \in Runners, ReadSchedule(r)
      PROVE  TypeOK' /\ TargetCreated'
  <2>1. call[r].occ.id \in Schedules /\ call[r].occ.id \in created /\ call[r] \in Call
    BY <1>8 DEF ReadSchedule, TypeOK, TargetCreated, InWindow
  <2>. DEFINE row == [nextRunAt   |-> nextRunAt[call[r].occ.id],
                      lockedUntil |-> lockedUntil[call[r].occ.id]]
              to == IF call[r].pc = "submitted" THEN "marking" ELSE "clearing"
  <2>2. row \in RowSeen /\ to \in Pc
    BY <2>1 DEF TypeOK, RowSeen, Pc
  <2>3. call' = [call EXCEPT ![r] = [call[r] EXCEPT !.pc = to, !.seen = row]]
    BY <1>8 DEF ReadSchedule, TypeOK
  <2>4. [call[r] EXCEPT !.pc = to, !.seen = row] \in Call
    BY <2>1, <2>2 DEF Call
  <2>5. TypeOK'
    BY <1>8, <2>3, <2>4 DEF TypeOK, ReadSchedule, rowVars, history
  <2>6. call'[r].occ = call[r].occ /\ \A q \in Runners : q # r => call'[q] = call[q]
    BY <2>1, <2>3 DEF TypeOK, Call
  <2>7. created' = created
    BY <1>8 DEF ReadSchedule, rowVars
  <2>8. TargetCreated'
    BY <2>1, <2>6, <2>7 DEF TargetCreated, InWindow
  <2>. QED
    BY <2>5, <2>8
<1>9. ASSUME NEW r \in Runners, MarkSubmitted(r)
      PROVE  TypeOK' /\ TargetCreated'
  <2>1. call[r] \in Call
    BY DEF TypeOK
  <2>2. /\ Looping(call[r].now, call[r].due) \in Call
        /\ Looping(call[r].now, call[r].due).pc = "loop"
    BY <2>1, LoopingType DEF Call
  <2>3. nextRunAt' \in [Schedules -> Nat] /\ lockedUntil' \in [Schedules -> Nat]
    BY <1>9, <2>1 DEF MarkSubmitted, WriteColumn, TypeOK, Call, NoLease
  <2>. QED
    BY <1>9, <2>2, <2>3 DEF TypeOK, TargetCreated, InWindow, MarkSubmitted, history
<1>10. ASSUME NEW r \in Runners, ClearLease(r)
       PROVE  TypeOK' /\ TargetCreated'
  <2>1. lockedUntil' \in [Schedules -> Nat]
    BY <1>10 DEF ClearLease, WriteColumn, TypeOK, NoLease
  <2>2. NoCall.pc = "idle"
    BY DEF NoCall
  <2>. QED
    BY <1>10, <2>1, <2>2, NoCallType
    DEF TypeOK, TargetCreated, InWindow, ClearLease, history
<1>11. ASSUME NEW r \in Runners, Return(r) \/ Crash(r)
       PROVE  TypeOK' /\ TargetCreated'
  <2>1. NoCall.pc = "idle"
    BY DEF NoCall
  <2>2. call[r].occ \in Occurrence
    BY DEF TypeOK, Call
  <2>. QED
    BY <1>11, <2>1, <2>2, NoCallType
    DEF TypeOK, TargetCreated, InWindow, Return, Crash, rowVars, history
<1>12. CASE UNCHANGED vars
  BY <1>12 DEF TypeOK, TargetCreated, InWindow, vars, rowVars, history
<1>. QED
  BY <1>1, <1>2, <1>3, <1>4, <1>5, <1>6, <1>7, <1>8, <1>9, <1>10, <1>11, <1>12
  DEF Next, RunnerStep

(***************************************************************************)
(* The rows of job_schedules and the locals of every run_due_schedules     *)
(* call keep their types, and a lease is only ever taken on a schedule     *)
(* that exists.                                                            *)
(***************************************************************************)
THEOREM TypeCorrect == Spec => [](TypeOK /\ TargetCreated)
BY TypeInit, TypeStep, PTL DEF Spec

-----------------------------------------------------------------------------
(***************************************************************************)
(* The lease.  When calls end in time, a runner that finds the lease free  *)
(* cannot find another runner in the window, because the other one's lease *)
(* runs out only later; and since windows are exclusive, a release always  *)
(* drops the releaser's own lease.                                         *)
(***************************************************************************)
LeaseInv == CallInTime /\ LeaseHeld /\ LeaseExclusive

LEMMA LeaseInit == Init => LeaseInv
BY DEF Init, LeaseInv, CallInTime, LeaseHeld, LeaseExclusive, InWindow, NoCall

LEMMA LeaseStep ==
  ASSUME Prompt,
         TypeOK, TypeOK', TargetCreated, LeaseInv, [Next]_vars
  PROVE  LeaseInv'
<1>. USE LeaseAssumption, SkewAssumption
<1>. USE DEF LeaseInv
<1>1. CASE UNCHANGED <<clock, lockedUntil, call>>
  BY <1>1 DEF CallInTime, LeaseHeld, LeaseExclusive, InWindow
<1>2. CASE Tick
  <2>1. CallInTime'
    <3>1. ASSUME NEW r \in Runners, call'[r].pc # "idle"
          PROVE  /\ call'[r].now <= clock' + Skew
                 /\ clock' + Skew < call'[r].now + Lease
      <4>1. call' = call /\ clock' = clock + 1 /\ clock \in Nat /\ call[r].now \in Nat
        BY <1>2 DEF Tick, TypeOK, Call
      <4>2. call[r].now <= clock + Skew /\ clock + 1 + Skew < call[r].now + Lease
        BY <1>2, <3>1, <4>1 DEF Tick, CallInTime
      <4>. QED
        BY <4>1, <4>2
    <3>. QED
      BY <3>1 DEF CallInTime
  <2>2. LeaseHeld' /\ LeaseExclusive'
    BY <1>2 DEF Tick, LeaseHeld, LeaseExclusive, InWindow, rowVars
  <2>. QED
    BY <2>1, <2>2
<1>3. ASSUME NEW r \in Runners, NEW t \in Times, ListDue(r, t)
      PROVE  LeaseInv'
  <2>. DEFINE D == {[id |-> s, at |-> nextRunAt[s]] :
                      s \in {x \in Schedules : Acquirable(x, t)}}
  <2>1. Looping(t, D).pc = "loop" /\ Looping(t, D).now = t
    BY DEF Looping, NoCall
  <2>2. call' = [call EXCEPT ![r] = Looping(t, D)] /\ clock' = clock
        /\ lockedUntil' = lockedUntil
    BY <1>3 DEF ListDue, rowVars
  <2>3. t \in Nat /\ clock \in Nat
    BY BoundsAssumption DEF Times, TypeOK
  <2>4. t <= clock + Skew /\ clock + Skew < t + Lease
    BY <1>3, <2>3, PromptAssumption DEF ListDue
  <2>5. CallInTime'
    BY <2>1, <2>2, <2>4 DEF CallInTime, TypeOK
  <2>6. LeaseHeld' /\ LeaseExclusive'
    BY <2>1, <2>2 DEF LeaseHeld, LeaseExclusive, InWindow, TypeOK
  <2>. QED
    BY <2>5, <2>6
<1>4. ASSUME NEW r \in Runners, AcquireDueLease(r)
      PROVE  LeaseInv'
  <2>1. PICK d \in call[r].due :
          /\ call[r].pc = "loop"
          /\ Acquirable(d.id, call[r].now)
          /\ lockedUntil' = [lockedUntil EXCEPT ![d.id] = call[r].now + Lease]
          /\ call' = [call EXCEPT
               ![r].pc = "leased",
               ![r].due = @ \ {d},
               ![r].occ = [id |-> d.id, at |-> nextRunAt[d.id]],
               ![r].advanceTo = AdvanceInterval(nextRunAt[d.id], interval[d.id],
                                                call[r].now)]
          /\ clock' = clock
    BY <1>4 DEF AcquireDueLease
  <2>2. d.id \in Schedules /\ lockedUntil[d.id] <= call[r].now
    BY <2>1 DEF Acquirable, TypeOK
  <2>3. /\ call'[r].pc = "leased" /\ call'[r].now = call[r].now
        /\ call'[r].occ.id = d.id
        /\ \A q \in Runners \ {r} : call'[q] = call[q]
    BY <2>1 DEF TypeOK, Call
  <2>4. ASSUME NEW q \in Runners \ {r}, InWindow(q)
        PROVE  call[q].occ.id # d.id
    <3>1. lockedUntil[call[q].occ.id] = call[q].now + Lease
      BY <2>4 DEF LeaseHeld
    <3>2. call[r].now <= clock + Skew /\ clock + Skew < call[q].now + Lease
      BY <2>1, <2>4 DEF CallInTime, InWindow
    <3>3. call[r].now \in Nat /\ call[q].now \in Nat /\ clock \in Nat
      BY DEF TypeOK, Call
    <3>. QED
      BY <2>2, <3>1, <3>2, <3>3
  <2>5. CallInTime'
    BY <2>1, <2>3 DEF CallInTime
  <2>6. LeaseHeld'
    BY <2>1, <2>2, <2>3, <2>4 DEF LeaseHeld, InWindow, TypeOK
  <2>7. LeaseExclusive'
    BY <2>3, <2>4 DEF LeaseExclusive, InWindow
  <2>. QED
    BY <2>5, <2>6, <2>7
<1>5. ASSUME NEW r \in Runners,
             \/ SkipDue(r) \/ SubmitJob(r) \/ SubmitRaises(r)
             \/ SubmitRaisesLate(r) \/ ReadSchedule(r) \/ Return(r) \/ Crash(r)
      PROVE  LeaseInv'
  <2>1. clock' = clock /\ lockedUntil' = lockedUntil
    BY <1>5 DEF SkipDue, SubmitJob, SubmitRaises, SubmitRaisesLate,
                ReadSchedule, Return, Crash, rowVars
  <2>2. \A q \in Runners : q # r => call'[q] = call[q]
    BY <1>5 DEF SkipDue, SubmitJob, SubmitRaises, SubmitRaisesLate,
                ReadSchedule, Return, Crash, TypeOK
  <2>3. \/ call'[r].pc = "idle"
        \/ /\ call[r].pc # "idle"
           /\ call'[r].now = call[r].now
           /\ call'[r].occ = call[r].occ
           /\ call'[r].pc \notin {"idle", "loop"} => InWindow(r)
    <3>1. CASE SkipDue(r)
      BY <3>1 DEF SkipDue, TypeOK, Call
    <3>2. CASE SubmitJob(r) \/ SubmitRaises(r) \/ SubmitRaisesLate(r)
      BY <3>2 DEF SubmitJob, SubmitRaises, SubmitRaisesLate, TypeOK, Call, InWindow
    <3>3. CASE ReadSchedule(r)
      BY <3>3 DEF ReadSchedule, TypeOK, Call, InWindow
    <3>4. CASE Return(r) \/ Crash(r)
      BY <3>4 DEF Return, Crash, TypeOK, NoCall
    <3>. QED
      BY <1>5, <3>1, <3>2, <3>3, <3>4
  <2>4. CallInTime'
    BY <2>1, <2>2, <2>3 DEF CallInTime
  <2>5. LeaseHeld' /\ LeaseExclusive'
    BY <2>1, <2>2, <2>3 DEF LeaseHeld, LeaseExclusive, InWindow
  <2>. QED
    BY <2>4, <2>5
<1>6. ASSUME NEW r \in Runners, MarkSubmitted(r) \/ ClearLease(r)
      PROVE  LeaseInv'
  <2>1. InWindow(r) /\ clock' = clock /\ call[r].occ.id \in Schedules
    BY <1>6 DEF MarkSubmitted, ClearLease, InWindow, TargetCreated, TypeOK
  <2>2. \A s \in Schedules : s # call[r].occ.id => lockedUntil'[s] = lockedUntil[s]
    BY <1>6 DEF MarkSubmitted, ClearLease, WriteColumn, TypeOK
  <2>3. /\ call'[r].pc \in {"idle", "loop"}
        /\ call'[r].pc = "loop" => call'[r].now = call[r].now
        /\ \A q \in Runners : q # r => call'[q] = call[q]
    <3>1. CASE MarkSubmitted(r)
      <4>. DEFINE L == Looping(call[r].now, call[r].due)
      <4>1. L.pc = "loop" /\ L.now = call[r].now
        BY DEF Looping, NoCall
      <4>2. call' = [call EXCEPT ![r] = L]
        BY <3>1 DEF MarkSubmitted
      <4>. HIDE DEF L
      <4>. QED
        BY <4>1, <4>2 DEF TypeOK
    <3>2. CASE ClearLease(r)
      <4>1. call' = [call EXCEPT ![r] = NoCall] /\ NoCall.pc = "idle"
        BY <3>2 DEF ClearLease, NoCall
      <4>. QED
        BY <4>1 DEF TypeOK
    <3>. QED
      BY <1>6, <3>1, <3>2
  <2>4. CallInTime'
    BY <2>1, <2>3 DEF CallInTime, InWindow
  <2>5. \A q \in Runners : q # r /\ InWindow(q) =>
          call[q].occ.id \in Schedules /\ call[q].occ.id # call[r].occ.id
    BY <2>1 DEF LeaseExclusive, TargetCreated, TypeOK
  <2>6. LeaseHeld' /\ LeaseExclusive'
    BY <2>2, <2>3, <2>5 DEF LeaseHeld, LeaseExclusive, InWindow
  <2>. QED
    BY <2>4, <2>6
<1>7. ASSUME NEW s \in Schedules, NEW e \in BOOLEAN, NEW i \in Intervals,
             NEW n \in Times,
             CreateSchedule(s, e, i, n) \/ UpdateSchedule(s, e, i, n)
      PROVE  LeaseInv'
  BY <1>1, <1>7 DEF CreateSchedule, UpdateSchedule
<1>. QED
  BY <1>1, <1>2, <1>3, <1>4, <1>5, <1>6, <1>7 DEF Next, RunnerStep, vars, rowVars

(***************************************************************************)
(* Multiple scheduler runners do not submit the same due schedule at the   *)
(* same time, provided every call of run_due_schedules ends before its     *)
(* lease can look expired to another caller (Prompt).                      *)
(***************************************************************************)
THEOREM LeaseIsExclusive ==
  ASSUME Prompt
  PROVE  Spec => [](LeaseExclusive /\ LeaseHeld)
<1>. DEFINE Inv == TypeOK /\ TargetCreated /\ LeaseInv
<1>1. Init => Inv
  BY TypeInit, LeaseInit
<1>2. Inv /\ [Next]_vars => Inv'
  BY TypeStep, LeaseStep
<1>3. Inv => LeaseExclusive /\ LeaseHeld
  BY DEF LeaseInv
<1>. QED
  BY <1>1, <1>2, <1>3, PTL DEF Spec

(***************************************************************************)
(* LeaseHeld (SchedulerLease): nobody drops or replaces the lease of a     *)
(* runner that is between acquire_due_schedules and mark_submitted.        *)
(***************************************************************************)
THEOREM LeaseIsKept ==
  ASSUME Prompt
  PROVE  Spec => []LeaseHeld
BY LeaseIsExclusive, PTL

-----------------------------------------------------------------------------
(***************************************************************************)
(* One job per occurrence.  With exclusive windows next_run_at only moves  *)
(* past what was submitted, so a runner that gets a lease finds an         *)
(* occurrence later than every settled one.                                *)
(***************************************************************************)
SettledInv == SettledIsPast /\ WindowIsNewest /\ SubmittedOnce

LEMMA SettledInit == Init => SettledInv
BY DEF Init, SettledInv, SettledIsPast, WindowIsNewest, SubmittedOnce, Settled,
       InWindow, NoCall

(***************************************************************************)
(* The steps that leave the schedules and the histories alone and in which *)
(* no window opens and no column is read.                                  *)
(***************************************************************************)
LEMMA SettledFrame ==
  ASSUME SettledInv, NEW r \in Runners,
         UNCHANGED <<created, nextRunAt, submitted, resubmitted, excused>>,
         \A q \in Runners : q # r => call'[q] = call[q],
         call[r].pc \notin {"submitted", "marking"},
         call'[r].pc \in {"idle", "loop", "raised", "clearing"},
         InWindow(r)' => /\ InWindow(r)
                         /\ call'[r].occ = call[r].occ
                         /\ call'[r].advanceTo = call[r].advanceTo
  PROVE  SettledInv'
<1>1. Settled' = Settled
  BY DEF Settled
<1>2. SettledIsPast'
  BY <1>1 DEF SettledInv, SettledIsPast
<1>3. WindowIsNewest'
  BY <1>1 DEF SettledInv, WindowIsNewest, InWindow
<1>4. SubmittedOnce'
  BY DEF SettledInv, SubmittedOnce
<1>. QED
  BY <1>2, <1>3, <1>4 DEF SettledInv

LEMMA SettledStep ==
  ASSUME TypeOK, TargetCreated, LeaseExclusive, LeaseExclusive', SettledInv,
         [Next]_vars
  PROVE  SettledInv'
<1>. USE DEF SettledInv
<1>1. CASE UNCHANGED <<created, nextRunAt, call, submitted, resubmitted, excused>>
  BY <1>1 DEF SettledIsPast, WindowIsNewest, SubmittedOnce, Settled, InWindow
<1>2. ASSUME NEW s \in Schedules, NEW e \in BOOLEAN, NEW i \in Intervals,
             NEW n \in Times, CreateSchedule(s, e, i, n)
      PROVE  SettledInv'
  <2>1. /\ s \notin created /\ created' = created \cup {s}
        /\ nextRunAt' = [nextRunAt EXCEPT ![s] = n]
        /\ UNCHANGED <<call, submitted, resubmitted, excused>>
    BY <1>2 DEF CreateSchedule, history
  <2>2. Settled' = Settled
    BY <2>1 DEF Settled
  <2>3. \A x \in created : x # s /\ nextRunAt'[x] = nextRunAt[x]
    BY <2>1 DEF TypeOK
  <2>4. SettledIsPast'
    BY <2>1, <2>2, <2>3 DEF SettledIsPast
  <2>5. WindowIsNewest'
    BY <2>1, <2>2, <2>3 DEF WindowIsNewest, InWindow, TargetCreated
  <2>. QED
    BY <2>1, <2>4, <2>5 DEF SubmittedOnce
<1>3. ASSUME NEW s \in Schedules, NEW e \in BOOLEAN, NEW i \in Intervals,
             NEW n \in Times, UpdateSchedule(s, e, i, n)
      PROVE  SettledInv'
  <2>1. CASE n = nextRunAt[s]
    <3>1. nextRunAt' = nextRunAt
      BY <1>3, <2>1 DEF UpdateSchedule, TypeOK
    <3>. QED
      BY <1>1, <1>3, <2>1, <3>1 DEF UpdateSchedule
  <2>2. CASE n # nextRunAt[s]
    <3>1. /\ nextRunAt' = [nextRunAt EXCEPT ![s] = n]
          /\ UNCHANGED <<created, call, resubmitted, excused>>
      BY <1>3 DEF UpdateSchedule
    <3>2. Settled' = {o \in Settled : o.id # s}
      BY <1>3, <2>2 DEF UpdateSchedule, Settled
    <3>3. \A x \in Schedules : x # s => nextRunAt'[x] = nextRunAt[x]
      BY <3>1 DEF TypeOK
    <3>4. SettledIsPast'
      BY <3>1, <3>2, <3>3 DEF SettledIsPast, TypeOK
    <3>5. WindowIsNewest'
      BY <3>1, <3>2, <3>3 DEF WindowIsNewest, InWindow, TargetCreated, TypeOK
    <3>. QED
      BY <3>1, <3>4, <3>5 DEF SubmittedOnce
  <2>. QED
    BY <2>1, <2>2
<1>4. CASE Tick
  BY <1>1, <1>4 DEF Tick, rowVars, history
<1>5. ASSUME NEW r \in Runners, NEW t \in Times, ListDue(r, t)
      PROVE  SettledInv'
  <2>. DEFINE L == Looping(t, {[id |-> s, at |-> nextRunAt[s]] :
                                 s \in {x \in Schedules : Acquirable(x, t)}})
  <2>1. L.pc = "loop"
    BY DEF Looping, NoCall
  <2>2. call' = [call EXCEPT ![r] = L] /\ call[r].pc = "idle"
        /\ UNCHANGED <<created, nextRunAt, submitted, resubmitted, excused>>
    BY <1>5 DEF ListDue, rowVars, history
  <2>. HIDE DEF L
  <2>. QED
    BY <2>1, <2>2, SettledFrame DEF TypeOK, InWindow
<1>6. ASSUME NEW r \in Runners, AcquireDueLease(r)
      PROVE  SettledInv'
  <2>1. PICK d \in call[r].due :
          /\ call[r].pc = "loop"
          /\ Acquirable(d.id, call[r].now)
          /\ call' = [call EXCEPT
               ![r].pc = "leased",
               ![r].due = @ \ {d},
               ![r].occ = [id |-> d.id, at |-> nextRunAt[d.id]],
               ![r].advanceTo = AdvanceInterval(nextRunAt[d.id], interval[d.id],
                                                call[r].now)]
          /\ UNCHANGED <<created, nextRunAt, submitted, resubmitted, excused>>
    BY <1>6 DEF AcquireDueLease, history
  <2>2. d.id \in created /\ d.id \in Schedules /\ nextRunAt[d.id] \in Nat
        /\ nextRunAt[d.id] <= call[r].now /\ call[r].now \in Nat
        /\ interval[d.id] \in Nat \ {0}
    BY <2>1, IntervalsAssumption DEF Acquirable, TypeOK, Call
  <2>3. /\ AdvanceInterval(nextRunAt[d.id], interval[d.id], call[r].now) \in Nat
        /\ AdvanceInterval(nextRunAt[d.id], interval[d.id], call[r].now)
             > nextRunAt[d.id]
    <3>. DEFINE A == AdvanceInterval(nextRunAt[d.id], interval[d.id], call[r].now)
    <3>1. A \in Nat /\ A > call[r].now
      BY <2>2, AdvanceIsLater
    <3>. HIDE DEF A
    <3>2. A > nextRunAt[d.id]
      BY <2>2, <3>1
    <3>. QED
      BY <3>1, <3>2 DEF A
  <2>4. /\ call'[r].pc = "leased"
        /\ call'[r].occ = [id |-> d.id, at |-> nextRunAt[d.id]]
        /\ call'[r].advanceTo > nextRunAt[d.id]
        /\ \A q \in Runners \ {r} : call'[q] = call[q]
    BY <2>1, <2>3 DEF TypeOK, Call
  <2>5. InWindow(r)' /\ \A q \in Runners \ {r} : InWindow(q)' <=> InWindow(q)
    BY <2>4 DEF InWindow
  <2>6. Settled' = Settled
    BY <2>1 DEF Settled
  <2>7. SettledIsPast'
    <3>1. \A q \in Runners : call[q].pc \in {"submitted", "marking"} =>
             call'[q] = call[q]
      BY <2>1, <2>4
    <3>2. created' = created /\ nextRunAt' = nextRunAt
      BY <2>1
    <3>. QED
      BY <2>6, <3>1, <3>2 DEF SettledIsPast
  <2>8. \A o \in Settled : o.id = d.id => o.at < nextRunAt[d.id]
    <3>1. SUFFICES ASSUME NEW o \in Settled, o.id = d.id,
                          NEW q \in Runners,
                          call[q].pc \in {"submitted", "marking"}, call[q].occ = o
                   PROVE  FALSE
      BY DEF SettledIsPast
    \* q would be in the window of the schedule whose lease r just took.
    <3>2. InWindow(q) /\ q # r /\ call'[q] = call[q]
      BY <2>1, <2>4, <3>1 DEF InWindow
    <3>. QED
      BY <2>4, <2>5, <3>1, <3>2 DEF LeaseExclusive
  <2>9. WindowIsNewest'
    <3>1. /\ \A o \in Settled : o.id = call'[r].occ.id => o.at < call'[r].occ.at
          /\ call'[r].occ.at < call'[r].advanceTo
          /\ call'[r].pc # "marking"
      BY <2>2, <2>4, <2>8
    <3>2. nextRunAt' = nextRunAt
      BY <2>1
    <3>. QED
      BY <2>4, <2>5, <2>6, <3>1, <3>2 DEF WindowIsNewest
  <2>. QED
    BY <2>1, <2>7, <2>9 DEF SubmittedOnce
<1>7. ASSUME NEW r \in Runners, SkipDue(r)
      PROVE  SettledInv'
  <2>1. /\ call[r].pc = "loop" /\ call'[r].pc = "loop"
        /\ \A q \in Runners : q # r => call'[q] = call[q]
        /\ UNCHANGED <<created, nextRunAt, submitted, resubmitted, excused>>
    BY <1>7 DEF SkipDue, TypeOK, Call, rowVars, history
  <2>. QED
    BY <2>1, SettledFrame DEF InWindow
<1>8. ASSUME NEW r \in Runners, SubmitJob(r)
      PROVE  SettledInv'
  <2>. DEFINE o == call[r].occ
  <2>1. /\ call[r].pc = "leased" /\ call'[r].pc = "submitted"
        /\ call'[r].occ = o /\ call'[r].advanceTo = call[r].advanceTo
        /\ \A q \in Runners : q # r => call'[q] = call[q]
        /\ UNCHANGED <<created, nextRunAt, excused>>
    BY <1>8 DEF SubmitJob, TypeOK, Call, rowVars
  <2>2. InWindow(r) /\ \A q \in Runners : InWindow(q)' <=> InWindow(q)
    BY <2>1 DEF InWindow
  <2>3. Settled' \subseteq Settled \cup {o} /\ o.id \in created
        /\ \A x \in Settled' : x.at \in Nat
    <3>1. Settled' \subseteq Settled \cup {o} /\ Settled' \subseteq Occurrence
      BY <1>8 DEF SubmitJob, Settled, TypeOK, Call
    <3>. QED
      BY <2>2, <3>1 DEF TargetCreated, Occurrence
  <2>4. o \notin Settled
    BY <2>1, <2>2 DEF WindowIsNewest, TypeOK, Call, Occurrence
  <2>5. SettledIsPast'
    BY <2>1, <2>3 DEF SettledIsPast
  <2>6. ASSUME NEW q \in Runners, InWindow(q), q # r
        PROVE  call[q].occ.id # o.id
    BY <2>2, <2>6 DEF LeaseExclusive
  <2>7. WindowIsNewest'
    BY <2>1, <2>2, <2>3, <2>6 DEF WindowIsNewest
  <2>8. SubmittedOnce'
    BY <1>8, <2>1, <2>4 DEF SubmitJob, SubmittedOnce, Settled
  <2>. QED
    BY <2>5, <2>7, <2>8
<1>9. ASSUME NEW r \in Runners, SubmitRaises(r)
      PROVE  SettledInv'
  <2>1. /\ call[r].pc = "leased" /\ call'[r].pc = "raised"
        /\ call'[r].occ = call[r].occ /\ call'[r].advanceTo = call[r].advanceTo
        /\ \A q \in Runners : q # r => call'[q] = call[q]
        /\ UNCHANGED <<created, nextRunAt, submitted, resubmitted, excused>>
    BY <1>9 DEF SubmitRaises, TypeOK, Call, rowVars, history
  <2>. QED
    BY <2>1, SettledFrame DEF InWindow
<1>10. ASSUME NEW r \in Runners, SubmitRaisesLate(r)
       PROVE  SettledInv'
  <2>1. /\ call[r].pc = "submitted" /\ call'[r].pc = "raised"
        /\ call'[r].occ = call[r].occ /\ call'[r].advanceTo = call[r].advanceTo
        /\ \A q \in Runners : q # r => call'[q] = call[q]
        /\ excused' = excused \cup {call[r].occ}
        /\ UNCHANGED <<created, nextRunAt, submitted, resubmitted>>
    BY <1>10 DEF SubmitRaisesLate, TypeOK, Call, rowVars
  <2>2. Settled' = Settled \ {call[r].occ}
    BY <2>1 DEF Settled
  <2>3. SettledIsPast'
    BY <2>1, <2>2 DEF SettledIsPast
  <2>4. WindowIsNewest'
    BY <2>1, <2>2 DEF WindowIsNewest, InWindow
  <2>5. SubmittedOnce'
    BY <2>1 DEF SubmittedOnce
  <2>. QED
    BY <2>3, <2>4, <2>5
<1>11. ASSUME NEW r \in Runners, ReadSchedule(r)
       PROVE  SettledInv'
  <2>1. /\ InWindow(r)
        /\ call[r].pc = "submitted" => call'[r].pc = "marking"
        /\ call[r].pc = "raised" => call'[r].pc = "clearing"
        /\ call[r].pc \in {"submitted", "raised"}
        /\ call'[r].seen.nextRunAt = nextRunAt[call[r].occ.id]
        /\ call'[r].occ = call[r].occ /\ call'[r].advanceTo = call[r].advanceTo
        /\ \A q \in Runners : q # r => call'[q] = call[q]
        /\ UNCHANGED <<created, nextRunAt, submitted, resubmitted, excused>>
    BY <1>11 DEF ReadSchedule, InWindow, TypeOK, Call, rowVars, history
  <2>2. Settled' = Settled
    BY <2>1 DEF Settled
  <2>3. SettledIsPast'
    BY <2>1, <2>2 DEF SettledIsPast
  <2>4. WindowIsNewest'
    BY <2>1, <2>2 DEF WindowIsNewest, InWindow
  <2>. QED
    BY <2>1, <2>3, <2>4 DEF SubmittedOnce
<1>12. ASSUME NEW r \in Runners, MarkSubmitted(r)
       PROVE  SettledInv'
  <2>. DEFINE o == call[r].occ
              L == Looping(call[r].now, call[r].due)
  <2>1. L.pc = "loop"
    BY DEF Looping, NoCall
  <2>2. /\ call[r].pc = "marking"
        /\ nextRunAt' = WriteColumn(nextRunAt, o.id, call[r].seen.nextRunAt,
                                    call[r].advanceTo)
        /\ call' = [call EXCEPT ![r] = L]
        /\ UNCHANGED <<created, submitted, resubmitted, excused>>
    BY <1>12 DEF MarkSubmitted, history
  <2>. HIDE DEF L
  <2>3. /\ call'[r].pc = "loop"
        /\ \A q \in Runners : q # r => call'[q] = call[q]
    BY <2>1, <2>2 DEF TypeOK
  <2>4. InWindow(r) /\ o.id \in Schedules /\ o.at \in Nat
        /\ call[r].advanceTo \in Nat
    BY <2>2 DEF InWindow, TargetCreated, TypeOK, Call, Occurrence
  <2>5. Settled' = Settled /\ \A x \in Settled : x.at \in Nat
    BY <2>2 DEF Settled, TypeOK, Occurrence
  <2>6. \A s \in Schedules : s # o.id => nextRunAt'[s] = nextRunAt[s]
    BY <2>2 DEF WriteColumn, TypeOK
  <2>7. ASSUME NEW x \in Settled, x.id = o.id
        PROVE  x.at < nextRunAt'[o.id]
    <3>1. x.at <= o.at /\ o.at < call[r].advanceTo
      BY <2>4, <2>5, <2>7 DEF WindowIsNewest
    <3>2. nextRunAt'[o.id] = call[r].advanceTo
      BY <2>2, <2>4, <2>7 DEF WindowIsNewest, WriteColumn, TypeOK
    <3>. QED
      BY <2>4, <2>5, <3>1, <3>2
  <2>8. SettledIsPast'
    BY <2>2, <2>3, <2>5, <2>6, <2>7 DEF SettledIsPast, TypeOK
  <2>9. \A q \in Runners : InWindow(q)' =>
          q # r /\ InWindow(q) /\ call[q].occ.id \in Schedules \ {o.id}
    BY <2>3, <2>4 DEF InWindow, LeaseExclusive, TargetCreated, TypeOK
  <2>10. WindowIsNewest'
    BY <2>3, <2>5, <2>6, <2>9 DEF WindowIsNewest
  <2>. QED
    BY <2>2, <2>8, <2>10 DEF SubmittedOnce
<1>13. ASSUME NEW r \in Runners, ClearLease(r) \/ Return(r)
       PROVE  SettledInv'
  <2>1. /\ call[r].pc \in {"clearing", "loop"}
        /\ call' = [call EXCEPT ![r] = NoCall] /\ NoCall.pc = "idle"
        /\ UNCHANGED <<created, nextRunAt, submitted, resubmitted, excused>>
    BY <1>13 DEF ClearLease, Return, NoCall, rowVars, history
  <2>. QED
    BY <2>1, SettledFrame DEF InWindow, TypeOK
<1>14. ASSUME NEW r \in Runners, Crash(r)
       PROVE  SettledInv'
  <2>1. /\ call'[r].pc = "idle"
        /\ \A q \in Runners : q # r => call'[q] = call[q]
        /\ UNCHANGED <<created, nextRunAt, submitted, resubmitted>>
    BY <1>14 DEF Crash, NoCall, TypeOK, rowVars
  <2>2. /\ Settled' \subseteq Settled /\ excused \subseteq excused'
        /\ call[r].pc \in {"submitted", "marking"} => call[r].occ \notin Settled'
    BY <1>14, <2>1 DEF Crash, Settled
  <2>3. SettledIsPast'
    BY <2>1, <2>2 DEF SettledIsPast
  <2>4. WindowIsNewest'
    BY <2>1, <2>2 DEF WindowIsNewest, InWindow
  <2>5. SubmittedOnce'
    BY <2>1, <2>2 DEF SubmittedOnce
  <2>. QED
    BY <2>3, <2>4, <2>5
<1>15. CASE UNCHANGED vars
  BY <1>1, <1>15 DEF vars, rowVars, history
<1>. QED
  BY <1>2, <1>3, <1>4, <1>5, <1>6, <1>7, <1>8, <1>9, <1>10, <1>11, <1>12,
     <1>13, <1>14, <1>15
  DEF Next, RunnerStep

(***************************************************************************)
(* Every occurrence of every schedule gets one job, unless the runner that *)
(* submitted it failed before mark_submitted committed, whatever PATCH     *)
(* requests arrive meanwhile; again for calls that end in time (Prompt).   *)
(***************************************************************************)
THEOREM OccurrenceSubmittedOnce ==
  ASSUME Prompt
  PROVE  Spec => []SubmittedOnce
<1>. DEFINE Inv == TypeOK /\ TargetCreated /\ LeaseInv /\ SettledInv
<1>1. Init => Inv
  BY TypeInit, LeaseInit, SettledInit
<1>2. Inv /\ [Next]_vars => Inv'
  BY TypeStep, LeaseStep, SettledStep DEF LeaseInv
<1>3. Inv => SubmittedOnce
  BY DEF SettledInv
<1>. QED
  BY <1>1, <1>2, <1>3, PTL DEF Spec

-----------------------------------------------------------------------------
(***************************************************************************)
(* next_run_at.  As long as nobody patches a schedule, a runner in its     *)
(* window works on the occurrence the row still shows, since it alone may  *)
(* move it.                                                                *)
(***************************************************************************)
AtOccurrence ==
  patches = 0 => \A r \in Runners :
                   InWindow(r) => nextRunAt[call[r].occ.id] = call[r].occ.at

LEMMA AtInit == Init => AtOccurrence
BY DEF Init, AtOccurrence, InWindow, NoCall

LEMMA AtStep ==
  ASSUME TypeOK, TargetCreated, LeaseExclusive, AtOccurrence, [Next]_vars
  PROVE  AtOccurrence'
<1>1. CASE UNCHANGED <<nextRunAt, call, patches>>
  BY <1>1 DEF AtOccurrence, InWindow
<1>2. ASSUME NEW s \in Schedules, NEW e \in BOOLEAN, NEW i \in Intervals,
             NEW n \in Times, CreateSchedule(s, e, i, n)
      PROVE  AtOccurrence'
  <2>1. s \notin created /\ nextRunAt' = [nextRunAt EXCEPT ![s] = n]
        /\ UNCHANGED <<call, patches>>
    BY <1>2 DEF CreateSchedule
  <2>. QED
    BY <2>1 DEF AtOccurrence, InWindow, TargetCreated, TypeOK
<1>3. ASSUME NEW s \in Schedules, NEW e \in BOOLEAN, NEW i \in Intervals,
             NEW n \in Times, UpdateSchedule(s, e, i, n)
      PROVE  AtOccurrence'
  BY <1>3 DEF UpdateSchedule, TypeOK, AtOccurrence
<1>4. ASSUME NEW r \in Runners, UNCHANGED <<nextRunAt, patches>>,
             \A q \in Runners : q # r => call'[q] = call[q],
             InWindow(r)' => \/ InWindow(r) /\ call'[r].occ = call[r].occ
                             \/ nextRunAt[call'[r].occ.id] = call'[r].occ.at
      PROVE  AtOccurrence'
  BY <1>4 DEF AtOccurrence, InWindow
<1>5. ASSUME NEW r \in Runners, NEW t \in Times, ListDue(r, t)
      PROVE  AtOccurrence'
  <2>. DEFINE L == Looping(t, {[id |-> s, at |-> nextRunAt[s]] :
                                 s \in {x \in Schedules : Acquirable(x, t)}})
  <2>1. L.pc = "loop"
    BY DEF Looping, NoCall
  <2>2. call' = [call EXCEPT ![r] = L] /\ UNCHANGED <<nextRunAt, patches>>
    BY <1>5 DEF ListDue, rowVars
  <2>. HIDE DEF L
  <2>. QED
    BY <1>4, <2>1, <2>2 DEF TypeOK, InWindow
<1>6. ASSUME NEW r \in Runners, AcquireDueLease(r)
      PROVE  AtOccurrence'
  <2>1. PICK d \in call[r].due :
          /\ call' = [call EXCEPT
               ![r].pc = "leased",
               ![r].due = @ \ {d},
               ![r].occ = [id |-> d.id, at |-> nextRunAt[d.id]],
               ![r].advanceTo = AdvanceInterval(nextRunAt[d.id], interval[d.id],
                                                call[r].now)]
          /\ UNCHANGED <<nextRunAt, patches>>
    BY <1>6 DEF AcquireDueLease
  <2>2. /\ call'[r].occ = [id |-> d.id, at |-> nextRunAt[d.id]]
        /\ \A q \in Runners : q # r => call'[q] = call[q]
    BY <2>1 DEF TypeOK, Call
  <2>3. nextRunAt[call'[r].occ.id] = call'[r].occ.at
    BY <2>2
  <2>4. UNCHANGED <<nextRunAt, patches>>
    BY <2>1
  <2>. QED
    BY <1>4, <2>2, <2>3, <2>4
<1>7. ASSUME NEW r \in Runners,
             \/ SkipDue(r) \/ SubmitJob(r) \/ SubmitRaises(r)
             \/ SubmitRaisesLate(r) \/ ReadSchedule(r)
      PROVE  AtOccurrence'
  <2>1. UNCHANGED <<nextRunAt, patches>>
    BY <1>7 DEF SkipDue, SubmitJob, SubmitRaises, SubmitRaisesLate,
                ReadSchedule, rowVars
  <2>2. /\ \A q \in Runners : q # r => call'[q] = call[q]
        /\ InWindow(r)' => InWindow(r) /\ call'[r].occ = call[r].occ
    <3>1. CASE SkipDue(r)
      BY <3>1 DEF SkipDue, TypeOK, Call, InWindow
    <3>2. CASE SubmitJob(r) \/ SubmitRaises(r) \/ SubmitRaisesLate(r)
      BY <3>2 DEF SubmitJob, SubmitRaises, SubmitRaisesLate, TypeOK, Call, InWindow
    <3>3. CASE ReadSchedule(r)
      BY <3>3 DEF ReadSchedule, TypeOK, Call, InWindow
    <3>. QED
      BY <1>7, <3>1, <3>2, <3>3
  <2>. QED
    BY <1>4, <2>1, <2>2
<1>8. ASSUME NEW r \in Runners, ClearLease(r) \/ Return(r) \/ Crash(r)
      PROVE  AtOccurrence'
  <2>1. /\ call' = [call EXCEPT ![r] = NoCall] /\ NoCall.pc = "idle"
        /\ UNCHANGED <<nextRunAt, patches>>
    BY <1>8 DEF ClearLease, Return, Crash, NoCall, rowVars
  <2>. QED
    BY <1>4, <2>1 DEF TypeOK, InWindow
<1>9. ASSUME NEW r \in Runners, MarkSubmitted(r)
      PROVE  AtOccurrence'
  <2>. DEFINE L == Looping(call[r].now, call[r].due)
  <2>1. L.pc = "loop"
    BY DEF Looping, NoCall
  <2>2. call' = [call EXCEPT ![r] = L] /\ patches' = patches /\ InWindow(r)
    BY <1>9 DEF MarkSubmitted, InWindow
  <2>. HIDE DEF L
  <2>3. \A s \in Schedules : s # call[r].occ.id => nextRunAt'[s] = nextRunAt[s]
    BY <1>9 DEF MarkSubmitted, WriteColumn, TypeOK
  <2>4. \A q \in Runners : InWindow(q)' =>
          /\ InWindow(q) /\ call'[q] = call[q]
          /\ call[q].occ.id \in Schedules \ {call[r].occ.id}
    BY <2>1, <2>2 DEF InWindow, LeaseExclusive, TargetCreated, TypeOK
  <2>. QED
    BY <2>2, <2>3, <2>4 DEF AtOccurrence
<1>10. CASE UNCHANGED vars
  BY <1>1, <1>10 DEF vars, rowVars
<1>11. CASE Tick
  BY <1>1, <1>11 DEF Tick, rowVars
<1>. QED
  BY <1>2, <1>3, <1>5, <1>6, <1>7, <1>8, <1>9, <1>10, <1>11 DEF Next, RunnerStep

(***************************************************************************)
(* mark_submitted never moves next_run_at back, for any schedules and      *)
(* runners whose calls end in time, as long as nobody patches a schedule.  *)
(***************************************************************************)
THEOREM NextRunIsMonotone ==
  ASSUME Prompt
  PROVE  Spec => NextRunNeverGoesBack
<1>. DEFINE Inv == /\ TypeOK /\ TargetCreated /\ LeaseInv /\ SettledInv
                   /\ AtOccurrence
            Forward == patches = 0 /\ patches' = 0 =>
                         \A s \in created : nextRunAt'[s] >= nextRunAt[s]
<1>1. Init => Inv
  BY TypeInit, LeaseInit, SettledInit, AtInit
<1>2. Inv /\ [Next]_vars => Inv'
  BY TypeStep, LeaseStep, SettledStep, AtStep DEF LeaseInv
<1>3. Inv /\ [Next]_vars => [Forward]_vars
  <2>. SUFFICES ASSUME Inv, Next, patches = 0, patches' = 0, NEW s \in created
                PROVE  nextRunAt'[s] >= nextRunAt[s]
    BY DEF vars, rowVars
  <2>0. s \in Schedules /\ nextRunAt[s] \in Nat
    BY DEF TypeOK
  <2>1. CASE nextRunAt' = nextRunAt
    BY <2>0, <2>1
  <2>2. ASSUME NEW c \in Schedules, NEW e \in BOOLEAN, NEW i \in Intervals,
               NEW n \in Times, CreateSchedule(c, e, i, n)
        PROVE  nextRunAt'[s] >= nextRunAt[s]
    BY <2>0, <2>2 DEF CreateSchedule, TypeOK
  <2>3. ASSUME NEW r \in Runners, MarkSubmitted(r)
        PROVE  nextRunAt'[s] >= nextRunAt[s]
    <3>1. CASE s = call[r].occ.id
      <4>1. /\ InWindow(r) /\ call[r].advanceTo \in Nat
            /\ call[r].occ.at \in Nat
        BY <2>3 DEF MarkSubmitted, InWindow, TypeOK, Call, Occurrence
      <4>2. nextRunAt[s] < call[r].advanceTo
        BY <3>1, <4>1 DEF AtOccurrence, SettledInv, WindowIsNewest
      <4>3. nextRunAt'[s] \in {nextRunAt[s], call[r].advanceTo}
        BY <2>0, <2>3, <3>1 DEF MarkSubmitted, WriteColumn, TypeOK
      <4>. QED
        BY <2>0, <4>1, <4>2, <4>3
    <3>2. CASE s # call[r].occ.id
      <4>1. nextRunAt'[s] = nextRunAt[s]
        BY <2>0, <2>3, <3>2 DEF MarkSubmitted, WriteColumn, TypeOK
      <4>. QED
        BY <2>0, <4>1
    <3>. QED
      BY <3>1, <3>2
  <2>4. ASSUME NEW c \in Schedules, NEW e \in BOOLEAN, NEW i \in Intervals,
               NEW n \in Times, UpdateSchedule(c, e, i, n)
        PROVE  FALSE
    BY <2>4 DEF UpdateSchedule
  <2>5. ASSUME NEW r \in Runners,
               \/ AcquireDueLease(r) \/ SkipDue(r) \/ SubmitJob(r)
               \/ SubmitRaises(r) \/ SubmitRaisesLate(r) \/ ReadSchedule(r)
               \/ ClearLease(r) \/ Return(r) \/ Crash(r)
               \/ \E t \in Times : ListDue(r, t)
        PROVE  nextRunAt' = nextRunAt
    BY <2>5 DEF AcquireDueLease, SkipDue, SubmitJob, SubmitRaises,
                SubmitRaisesLate, ReadSchedule, ClearLease, Return, Crash,
                ListDue, rowVars
  <2>6. CASE Tick
    BY <2>1, <2>6 DEF Tick, rowVars
  <2>. QED
    BY <2>1, <2>2, <2>3, <2>4, <2>5, <2>6 DEF Next, RunnerStep
<1>. QED
  BY <1>1, <1>2, <1>3, PTL DEF Spec, NextRunNeverGoesBack
=============================================================================
