------------------------- MODULE JobRuntimeProofs --------------------------
(***************************************************************************)
(* Proofs about JobRuntime, and that it implements JobOutcome, for every   *)
(* set of jobs and cancellers and every payload.                           *)
(***************************************************************************)
EXTENDS JobRefinement, TLAPS

(***************************************************************************)
(* Nothing happens to a row before it is created ...                       *)
(***************************************************************************)
CreatedFirst ==
  /\ \A j \in Jobs :
       /\ status[j] = "absent" <=> sub[j].pc = "new"
       /\ sub[j].pc = "new" => work[j].pc = "idle" /\ j \notin queue
  /\ \A c \in Cancellers :
       can[c].pc \in {"read", "flushed"} => sub[can[c].job].pc # "new"

(***************************************************************************)
(* ... and a worker's own variables agree with each other: the step it     *)
(* reports progress for exists, and it has an outcome from the end of the  *)
(* payload on, not before.                                                 *)
(***************************************************************************)
WorkConsistent ==
  \A j \in Jobs :
    /\ work[j].step >= 1
    /\ work[j].pc = "progressing" => work[j].step \in DOMAIN Payload[j]
    /\ work[j].pc \in {"raised", "finish", "closing", "finishing"}
         => work[j].outcome # "none"
    /\ work[j].pc \in {"idle", "start", "starting", "audit", "payload",
                       "progressing", "returned"}
         => work[j].outcome = "none"

TypeInv == TypeOK /\ CreatedFirst /\ WorkConsistent

LEMMA StepValue ==
  ASSUME NEW j \in Jobs, NEW s \in DOMAIN Payload[j]
  PROVE  Payload[j][s].value \in 0 .. 100
<1>1. Payload[j] \in Seq(Step)
  BY PayloadAssumption
<1>2. Payload[j][s] \in Step
  BY <1>1
<1>. QED
  BY <1>2 DEF Step, Check, Apply, Progress

LEMMA TypeInit == Init => TypeInv
<1>. SUFFICES ASSUME Init PROVE TypeInv
  OBVIOUS
<1>1. can \in [Cancellers -> Canceller]
  BY DEF Init, Canceller, CanPc, Statuses
<1>2. TypeOK
  BY <1>1 DEF Init, TypeOK, Submitter, SubPc, Worker, WorkPc, Outcome, Statuses
<1>3. \A c \in Cancellers : can[c].pc = "idle"
  BY DEF Init
<1>. QED
  BY <1>2, <1>3 DEF Init, TypeInv, CreatedFirst, WorkConsistent

LEMMA TypeStep == TypeInv /\ [Next]_vars => TypeInv'
<1>. SUFFICES ASSUME TypeInv, [Next]_vars PROVE TypeInv'
  OBVIOUS
<1>. USE DEF TypeInv, Statuses, Terminal, Outcome, EventType, Event
<1>1. ASSUME NEW j \in Jobs, CreateQueued(j)
      PROVE  TypeInv'
  <2>1. sub' \in [Jobs -> Submitter] /\ sub'[j].pc = "created"
        /\ \A i \in Jobs : i # j => sub'[i] = sub[i]
    BY <1>1 DEF CreateQueued, TypeOK, Submitter, SubPc
  <2>2. events' \in [Jobs -> SUBSET Event] /\ nextId' \in [Jobs -> Nat]
    BY <1>1 DEF TypeOK, CreateQueued, Publish, DrawId
  <2>3. TypeOK'
    BY <1>1, <2>1, <2>2 DEF TypeOK, CreateQueued
  <2>4. CreatedFirst'
    BY <1>1, <2>1 DEF TypeOK, Canceller, CreatedFirst, CreateQueued
  <2>. QED
    BY <1>1, <2>3, <2>4 DEF WorkConsistent, CreateQueued
<1>2. ASSUME NEW j \in Jobs,
             Enqueue(j) \/ FlushEnqueued(j) \/ CommitEnqueued(j)
               \/ ReturnInline(j) \/ SubmitFails(j)
      PROVE  TypeInv'
  <2>1. sub' \in [Jobs -> Submitter] /\ sub[j].pc # "new" /\ sub'[j].pc # "new"
        /\ \A i \in Jobs : i # j => sub'[i] = sub[i]
    BY <1>2 DEF TypeOK, Submitter, SubPc, Enqueue, FlushEnqueued,
                CommitEnqueued, ReturnInline, SubmitFails
  <2>2. sub[j].id \in Nat /\ events \in [Jobs -> SUBSET Event]
        /\ nextId \in [Jobs -> Nat]
    BY DEF TypeOK, Submitter
  <2>3. ASSUME CommitEnqueued(j)
        PROVE  events' \in [Jobs -> SUBSET Event] /\ nextId' \in [Jobs -> Nat]
    BY <2>2, <2>3 DEF CommitEnqueued, Publish
  <2>4. ASSUME ~CommitEnqueued(j)
        PROVE  events' \in [Jobs -> SUBSET Event] /\ nextId' \in [Jobs -> Nat]
    BY <1>2, <2>2, <2>4 DEF Enqueue, FlushEnqueued, ReturnInline, SubmitFails,
                            DrawId, rowVars
  <2>5. events' \in [Jobs -> SUBSET Event] /\ nextId' \in [Jobs -> Nat]
    BY <2>3, <2>4
  <2>6. /\ queue' \in SUBSET Jobs
        /\ \A i \in Jobs : i # j => (i \in queue' <=> i \in queue)
        /\ UNCHANGED <<status, progress, workflow, applied, work, can>>
    BY <1>2 DEF TypeOK, Enqueue, FlushEnqueued, CommitEnqueued,
                ReturnInline, SubmitFails, rowVars
  <2>7. TypeOK'
    BY <2>1, <2>5, <2>6 DEF TypeOK
  <2>8. CreatedFirst'
    BY <2>1, <2>6 DEF TypeOK, Canceller, CreatedFirst
  <2>. QED
    BY <2>6, <2>7, <2>8 DEF WorkConsistent
<1>3. ASSUME NEW j \in Jobs, Begin(j)
      PROVE  TypeInv'
  <2>1. work[j] \in Worker /\ sub[j].pc # "new" /\ status[j] \in Statuses
    BY <1>3 DEF TypeOK, CreatedFirst, Begin, TakeJob
  <2>2. /\ work'[j] \in Worker /\ work' \in [Jobs -> Worker]
        /\ \A i \in Jobs : i # j => work'[i] = work[i]
    BY <1>3, <2>1 DEF TypeOK, Worker, WorkPc, Begin, TakeJob
  <2>3. WorkConsistent'
    BY <1>3, <2>1, <2>2 DEF TypeOK, WorkConsistent, Worker, Begin, TakeJob
  <2>. QED
    BY <1>3, <2>1, <2>2, <2>3 DEF TypeOK, CreatedFirst, rowVars, Begin, TakeJob
<1>4. ASSUME NEW j \in Jobs, FlushStart(j)
      PROVE  TypeInv'
  <2>1. work[j] \in Worker /\ sub[j].pc # "new" /\ status[j] \in Statuses
    BY <1>4 DEF TypeOK, CreatedFirst, FlushStart, Flush, DrawId
  <2>2. /\ work'[j] \in Worker /\ work' \in [Jobs -> Worker]
        /\ \A i \in Jobs : i # j => work'[i] = work[i]
    BY <1>4, <2>1 DEF TypeOK, Worker, WorkPc, FlushStart, Flush, DrawId
  <2>3. WorkConsistent'
    BY <1>4, <2>1, <2>2
    DEF TypeOK, WorkConsistent, Worker, FlushStart, Flush, DrawId
  <2>. QED
    BY <1>4, <2>1, <2>2, <2>3
    DEF TypeOK, CreatedFirst, rowVars, FlushStart, Flush, DrawId
<1>5. ASSUME NEW j \in Jobs, FlushProgress(j)
      PROVE  TypeInv'
  <2>1. work[j] \in Worker /\ sub[j].pc # "new" /\ status[j] \in Statuses
    BY <1>5 DEF TypeOK, CreatedFirst, FlushProgress, AtStep, Flush, DrawId
  <2>2. /\ work'[j] \in Worker /\ work' \in [Jobs -> Worker]
        /\ \A i \in Jobs : i # j => work'[i] = work[i]
    BY <1>5, <2>1
    DEF TypeOK, Worker, WorkPc, FlushProgress, AtStep, Flush, DrawId
  <2>3. WorkConsistent'
    BY <1>5, <2>1, <2>2
    DEF TypeOK, WorkConsistent, Worker, FlushProgress, AtStep, Flush, DrawId
  <2>. QED
    BY <1>5, <2>1, <2>2, <2>3
    DEF TypeOK, CreatedFirst, rowVars, FlushProgress, AtStep, Flush, DrawId
<1>6. ASSUME NEW j \in Jobs, FlushVerdict(j)
      PROVE  TypeInv'
  <2>1. work[j] \in Worker /\ sub[j].pc # "new" /\ status[j] \in Statuses
    BY <1>6 DEF TypeOK, CreatedFirst, FlushVerdict, Flush, DrawId
  <2>2. /\ work'[j] \in Worker /\ work' \in [Jobs -> Worker]
        /\ \A i \in Jobs : i # j => work'[i] = work[i]
    BY <1>6, <2>1 DEF TypeOK, Worker, WorkPc, FlushVerdict, Flush, DrawId
  <2>3. WorkConsistent'
    BY <1>6, <2>1, <2>2
    DEF TypeOK, WorkConsistent, Worker, FlushVerdict, Flush, DrawId
  <2>. QED
    BY <1>6, <2>1, <2>2, <2>3
    DEF TypeOK, CreatedFirst, rowVars, FlushVerdict, Flush, DrawId
<1>7. ASSUME NEW j \in Jobs, CommitStart(j)
      PROVE  TypeInv'
  <2>1. work[j] \in Worker /\ sub[j].pc # "new" /\ status[j] \in Statuses
    BY <1>7 DEF TypeOK, CreatedFirst, CommitStart
  <2>2. /\ work'[j] \in Worker /\ work' \in [Jobs -> Worker]
        /\ \A i \in Jobs : i # j => work'[i] = work[i]
    BY <1>7, <2>1 DEF TypeOK, Worker, WorkPc, CommitStart
  <2>3. WorkConsistent'
    BY <1>7, <2>1, <2>2 DEF TypeOK, WorkConsistent, Worker, CommitStart
  <2>4. /\ status' \in [Jobs -> Statuses \cup {"absent"}]
        /\ status'[j] # "absent"
        /\ \A i \in Jobs : i # j => status'[i] = status[i]
        /\ work[j].id \in Nat /\ work[j].outcome \in Outcome
        /\ work[j].pc = "finishing" => work[j].outcome # "none"
    BY <1>7, <2>1
    DEF TypeOK, WorkConsistent, Worker, SetStatus, Written, CommitStart
  <2>5. events' \in [Jobs -> SUBSET Event]
    BY <1>7, <2>4 DEF TypeOK, Publish, CommitStart
  <2>. QED
    BY <1>7, <2>1, <2>2, <2>3, <2>4, <2>5 DEF TypeOK, CreatedFirst, CommitStart
<1>8. ASSUME NEW j \in Jobs, CreateWorkflow(j)
      PROVE  TypeInv'
  <2>1. work[j] \in Worker /\ sub[j].pc # "new" /\ status[j] \in Statuses
    BY <1>8 DEF TypeOK, CreatedFirst, CreateWorkflow
  <2>2. /\ work'[j] \in Worker /\ work' \in [Jobs -> Worker]
        /\ \A i \in Jobs : i # j => work'[i] = work[i]
    BY <1>8, <2>1 DEF TypeOK, Worker, WorkPc, CreateWorkflow
  <2>3. WorkConsistent'
    BY <1>8, <2>1, <2>2 DEF TypeOK, WorkConsistent, Worker, CreateWorkflow
  <2>. QED
    BY <1>8, <2>1, <2>2, <2>3 DEF TypeOK, CreatedFirst, rowVars, CreateWorkflow
<1>9. ASSUME NEW j \in Jobs, AuditNotCreated(j)
      PROVE  TypeInv'
  <2>1. work[j] \in Worker /\ sub[j].pc # "new" /\ status[j] \in Statuses
    BY <1>9 DEF TypeOK, CreatedFirst, AuditNotCreated
  <2>2. /\ work'[j] \in Worker /\ work' \in [Jobs -> Worker]
        /\ \A i \in Jobs : i # j => work'[i] = work[i]
    BY <1>9, <2>1 DEF TypeOK, Worker, WorkPc, AuditNotCreated
  <2>3. WorkConsistent'
    BY <1>9, <2>1, <2>2 DEF TypeOK, WorkConsistent, Worker, AuditNotCreated
  <2>. QED
    BY <1>9, <2>1, <2>2, <2>3
    DEF TypeOK, CreatedFirst, rowVars, AuditNotCreated
<1>10. ASSUME NEW j \in Jobs, RaiseIfCancelled(j)
      PROVE  TypeInv'
  <2>1. work[j] \in Worker /\ sub[j].pc # "new" /\ status[j] \in Statuses
    BY <1>10 DEF TypeOK, CreatedFirst, RaiseIfCancelled, AtStep
  <2>2. /\ work[j].step + 1 \in Nat
        /\ work'[j] \in Worker
    <3>1. work[j].step + 1 \in Nat
      BY <2>1 DEF Worker
    <3>. QED
      BY <1>10, <2>1, <3>1 DEF TypeOK, Worker, WorkPc, RaiseIfCancelled, AtStep
  <2>3. /\ work'[j] \in Worker /\ work' \in [Jobs -> Worker]
        /\ \A i \in Jobs : i # j => work'[i] = work[i]
    BY <1>10, <2>1, <2>2 DEF TypeOK, Worker, WorkPc, RaiseIfCancelled, AtStep
  <2>4. WorkConsistent'
    BY <1>10, <2>1, <2>3
    DEF TypeOK, WorkConsistent, Worker, RaiseIfCancelled, AtStep
  <2>. QED
    BY <1>10, <2>1, <2>3, <2>4
    DEF TypeOK, CreatedFirst, rowVars, RaiseIfCancelled, AtStep
<1>11. ASSUME NEW j \in Jobs, CommitProgress(j)
      PROVE  TypeInv'
  <2>1. work[j] \in Worker /\ sub[j].pc # "new" /\ status[j] \in Statuses
    BY <1>11 DEF TypeOK, CreatedFirst, CommitProgress
  <2>2. /\ work[j].step + 1 \in Nat
        /\ work'[j] \in Worker
    <3>1. work[j].step + 1 \in Nat
      BY <2>1 DEF Worker
    <3>. QED
      BY <1>11, <2>1, <3>1 DEF TypeOK, Worker, WorkPc, CommitProgress
  <2>3. /\ work'[j] \in Worker /\ work' \in [Jobs -> Worker]
        /\ \A i \in Jobs : i # j => work'[i] = work[i]
    BY <1>11, <2>1, <2>2 DEF TypeOK, Worker, WorkPc, CommitProgress
  <2>4. WorkConsistent'
    BY <1>11, <2>1, <2>3 DEF TypeOK, WorkConsistent, Worker, CommitProgress
  <2>5. work[j].step \in DOMAIN Payload[j] /\ work[j].id \in Nat
    BY <1>11, <2>1 DEF WorkConsistent, Worker, CommitProgress
  <2>6. Payload[j][work[j].step].value \in 0 .. 100
    BY <2>5, StepValue
  <2>7. events' \in [Jobs -> SUBSET Event]
    BY <1>11, <2>5 DEF TypeOK, Publish, CommitProgress
  <2>. QED
    BY <1>11, <2>1, <2>3, <2>4, <2>6, <2>7
    DEF TypeOK, CreatedFirst, CommitProgress
<1>12. ASSUME NEW j \in Jobs, ApplyPayload(j)
      PROVE  TypeInv'
  <2>1. work[j] \in Worker /\ sub[j].pc # "new" /\ status[j] \in Statuses
    BY <1>12 DEF TypeOK, CreatedFirst, ApplyPayload, AtStep
  <2>2. /\ work[j].step + 1 \in Nat
        /\ work'[j] \in Worker
    <3>1. work[j].step + 1 \in Nat
      BY <2>1 DEF Worker
    <3>. QED
      BY <1>12, <2>1, <3>1 DEF TypeOK, Worker, WorkPc, ApplyPayload, AtStep
  <2>3. /\ work'[j] \in Worker /\ work' \in [Jobs -> Worker]
        /\ \A i \in Jobs : i # j => work'[i] = work[i]
    BY <1>12, <2>1, <2>2 DEF TypeOK, Worker, WorkPc, ApplyPayload, AtStep
  <2>4. WorkConsistent'
    BY <1>12, <2>1, <2>3
    DEF TypeOK, WorkConsistent, Worker, ApplyPayload, AtStep
  <2>. QED
    BY <1>12, <2>1, <2>3, <2>4
    DEF TypeOK, CreatedFirst, rowVars, ApplyPayload, AtStep
<1>13. ASSUME NEW j \in Jobs, PayloadRaises(j)
      PROVE  TypeInv'
  <2>1. work[j] \in Worker /\ sub[j].pc # "new" /\ status[j] \in Statuses
    BY <1>13 DEF TypeOK, CreatedFirst, PayloadRaises
  <2>2. /\ work'[j] \in Worker /\ work' \in [Jobs -> Worker]
        /\ \A i \in Jobs : i # j => work'[i] = work[i]
    BY <1>13, <2>1 DEF TypeOK, Worker, WorkPc, PayloadRaises
  <2>3. WorkConsistent'
    BY <1>13, <2>1, <2>2 DEF TypeOK, WorkConsistent, Worker, PayloadRaises
  <2>. QED
    BY <1>13, <2>1, <2>2, <2>3 DEF TypeOK, CreatedFirst, rowVars, PayloadRaises
<1>14. ASSUME NEW j \in Jobs, PayloadReturns(j)
      PROVE  TypeInv'
  <2>1. work[j] \in Worker /\ sub[j].pc # "new" /\ status[j] \in Statuses
    BY <1>14 DEF TypeOK, CreatedFirst, PayloadReturns
  <2>2. /\ work'[j] \in Worker /\ work' \in [Jobs -> Worker]
        /\ \A i \in Jobs : i # j => work'[i] = work[i]
    BY <1>14, <2>1 DEF TypeOK, Worker, WorkPc, PayloadReturns
  <2>3. WorkConsistent'
    BY <1>14, <2>1, <2>2 DEF TypeOK, WorkConsistent, Worker, PayloadReturns
  <2>. QED
    BY <1>14, <2>1, <2>2, <2>3
    DEF TypeOK, CreatedFirst, rowVars, PayloadReturns
<1>15. ASSUME NEW j \in Jobs, MarkWorkflowSucceeded(j)
      PROVE  TypeInv'
  <2>1. work[j] \in Worker /\ sub[j].pc # "new" /\ status[j] \in Statuses
    BY <1>15 DEF TypeOK, CreatedFirst, MarkWorkflowSucceeded
  <2>2. /\ work'[j] \in Worker /\ work' \in [Jobs -> Worker]
        /\ \A i \in Jobs : i # j => work'[i] = work[i]
    BY <1>15, <2>1 DEF TypeOK, Worker, WorkPc, MarkWorkflowSucceeded
  <2>3. WorkConsistent'
    BY <1>15, <2>1, <2>2
    DEF TypeOK, WorkConsistent, Worker, MarkWorkflowSucceeded
  <2>. QED
    BY <1>15, <2>1, <2>2, <2>3
    DEF TypeOK, CreatedFirst, rowVars, MarkWorkflowSucceeded
<1>16. ASSUME NEW j \in Jobs, MarkWorkflowFailed(j)
      PROVE  TypeInv'
  <2>1. work[j] \in Worker /\ sub[j].pc # "new" /\ status[j] \in Statuses
    BY <1>16 DEF TypeOK, CreatedFirst, MarkWorkflowFailed
  <2>2. /\ work'[j] \in Worker /\ work' \in [Jobs -> Worker]
        /\ \A i \in Jobs : i # j => work'[i] = work[i]
    BY <1>16, <2>1 DEF TypeOK, Worker, WorkPc, MarkWorkflowFailed
  <2>3. WorkConsistent'
    BY <1>16, <2>1, <2>2 DEF TypeOK, WorkConsistent, Worker, MarkWorkflowFailed
  <2>. QED
    BY <1>16, <2>1, <2>2, <2>3
    DEF TypeOK, CreatedFirst, rowVars, MarkWorkflowFailed
<1>17. ASSUME NEW j \in Jobs, AuditRaises(j)
      PROVE  TypeInv'
  <2>1. work[j] \in Worker /\ sub[j].pc # "new" /\ status[j] \in Statuses
    BY <1>17 DEF TypeOK, CreatedFirst, AuditRaises
  <2>2. /\ work'[j] \in Worker /\ work' \in [Jobs -> Worker]
        /\ \A i \in Jobs : i # j => work'[i] = work[i]
    BY <1>17, <2>1 DEF TypeOK, Worker, WorkPc, AuditRaises
  <2>3. WorkConsistent'
    BY <1>17, <2>1, <2>2 DEF TypeOK, WorkConsistent, Worker, AuditRaises
  <2>. QED
    BY <1>17, <2>1, <2>2, <2>3 DEF TypeOK, CreatedFirst, rowVars, AuditRaises
<1>18. ASSUME NEW j \in Jobs, ReadForVerdict(j)
      PROVE  TypeInv'
  <2>1. work[j] \in Worker /\ sub[j].pc # "new" /\ status[j] \in Statuses
    BY <1>18 DEF TypeOK, CreatedFirst, ReadForVerdict
  <2>2. /\ work'[j] \in Worker /\ work' \in [Jobs -> Worker]
        /\ \A i \in Jobs : i # j => work'[i] = work[i]
    BY <1>18, <2>1 DEF TypeOK, Worker, WorkPc, ReadForVerdict
  <2>3. WorkConsistent'
    BY <1>18, <2>1, <2>2 DEF TypeOK, WorkConsistent, Worker, ReadForVerdict
  <2>. QED
    BY <1>18, <2>1, <2>2, <2>3
    DEF TypeOK, CreatedFirst, rowVars, ReadForVerdict
<1>19. ASSUME NEW j \in Jobs, CommitVerdict(j)
      PROVE  TypeInv'
  <2>1. work[j] \in Worker /\ sub[j].pc # "new" /\ status[j] \in Statuses
    BY <1>19 DEF TypeOK, CreatedFirst, CommitVerdict
  <2>2. /\ work'[j] \in Worker /\ work' \in [Jobs -> Worker]
        /\ \A i \in Jobs : i # j => work'[i] = work[i]
    BY <1>19, <2>1 DEF TypeOK, Worker, WorkPc, CommitVerdict
  <2>3. WorkConsistent'
    BY <1>19, <2>1, <2>2 DEF TypeOK, WorkConsistent, Worker, CommitVerdict
  <2>4. /\ status' \in [Jobs -> Statuses \cup {"absent"}]
        /\ status'[j] # "absent"
        /\ \A i \in Jobs : i # j => status'[i] = status[i]
        /\ work[j].id \in Nat /\ work[j].outcome \in Outcome
        /\ work[j].pc = "finishing" => work[j].outcome # "none"
    BY <1>19, <2>1
    DEF TypeOK, WorkConsistent, Worker, SetStatus, Written, CommitVerdict
  <2>5. events' \in [Jobs -> SUBSET Event]
    BY <1>19, <2>4 DEF TypeOK, Publish, CommitVerdict
  <2>. QED
    BY <1>19, <2>1, <2>2, <2>3, <2>4, <2>5
    DEF TypeOK, CreatedFirst, CommitVerdict
<1>20. ASSUME NEW j \in Jobs, WorkerCrashes(j)
      PROVE  TypeInv'
  <2>1. work[j] \in Worker /\ sub[j].pc # "new" /\ status[j] \in Statuses
    BY <1>20 DEF TypeOK, CreatedFirst, WorkerCrashes
  <2>2. /\ work'[j] \in Worker /\ work' \in [Jobs -> Worker]
        /\ \A i \in Jobs : i # j => work'[i] = work[i]
    BY <1>20, <2>1 DEF TypeOK, Worker, WorkPc, WorkerCrashes
  <2>3. WorkConsistent'
    BY <1>20, <2>1, <2>2 DEF TypeOK, WorkConsistent, Worker, WorkerCrashes
  <2>4. sub' \in [Jobs -> Submitter] /\ sub'[j].pc # "new"
        /\ \A i \in Jobs : i # j => sub'[i] = sub[i]
    BY <1>20, <2>1 DEF TypeOK, Submitter, SubPc, WorkerCrashes
  <2>. QED
    BY <1>20, <2>1, <2>2, <2>3, <2>4
    DEF TypeOK, Canceller, CreatedFirst, rowVars, WorkerCrashes
<1>21. ASSUME NEW c \in Cancellers, ReadForCancel(c)
       PROVE  TypeInv'
  <2>. DEFINE j == can[c].job
  <2>1. j \in Jobs /\ status[j] \in Statuses \cup {"absent"}
    BY DEF TypeOK, Canceller
  <2>2. can[c] \in Canceller
    BY DEF TypeOK
  <2>3. /\ can'[c] \in Canceller
        /\ can'[c].job = can[c].job
        /\ can'[c].pc = "read" => status[j] # "absent"
        /\ can'[c].pc # "flushed"
    BY <1>21, <2>1, <2>2 DEF TypeOK, Canceller, CanPc, ReadForCancel
  <2>4. /\ can' \in [Cancellers -> Canceller]
        /\ \A d \in Cancellers : can'[d].job = can[d].job
        /\ \A d \in Cancellers : d # c => can'[d] = can[d]
    BY <1>21, <2>3 DEF TypeOK, ReadForCancel
  <2>5. TypeOK'
    BY <1>21, <2>4 DEF TypeOK, ReadForCancel, rowVars
  <2>. QED
    BY <1>21, <2>1, <2>4, <2>5, <2>3
    DEF CreatedFirst, WorkConsistent, ReadForCancel, rowVars
<1>22. ASSUME NEW c \in Cancellers, FlushCancel(c) \/ CancelFails(c)
       PROVE  TypeInv'
  <2>1. can[c].job \in Jobs
    BY DEF TypeOK, Canceller
  <2>2. can[c] \in Canceller /\ nextId[can[c].job] \in Nat
    BY <2>1 DEF TypeOK
  <2>3. /\ can'[c] \in Canceller
        /\ can'[c].job = can[c].job
        /\ can[c].pc \in {"read", "flushed"}
    <3>1. CASE FlushCancel(c)
      BY <3>1, <2>2 DEF TypeOK, Canceller, CanPc, FlushCancel
    <3>2. CASE CancelFails(c)
      BY <3>2, <2>2 DEF TypeOK, Canceller, CanPc, CancelFails
    <3>. QED
      BY <1>22, <3>1, <3>2
  <2>4. /\ can' \in [Cancellers -> Canceller] /\ nextId' \in [Jobs -> Nat]
        /\ \A d \in Cancellers : can'[d].job = can[d].job
        /\ \A d \in Cancellers : can'[d].pc \in {"read", "flushed"}
             => can[d].pc \in {"read", "flushed"}
    BY <1>22, <2>1, <2>3 DEF TypeOK, FlushCancel, CancelFails, DrawId, rowVars
  <2>5. TypeOK'
    BY <1>22, <2>4 DEF TypeOK, FlushCancel, CancelFails, rowVars
  <2>. QED
    BY <1>22, <2>4, <2>5
    DEF CreatedFirst, WorkConsistent, FlushCancel, CancelFails, rowVars
<1>23. ASSUME NEW c \in Cancellers, CommitCancel(c)
       PROVE  TypeInv'
  <2>1. /\ can[c].job \in Jobs /\ can[c].id \in Nat
        /\ sub[can[c].job].pc # "new"
        /\ CancelTo(can[c].seen) \in {"cancelled", "cancel_requested"}
    BY <1>23 DEF TypeOK, Canceller, CreatedFirst, CommitCancel, CancelTo
  <2>2. events' \in [Jobs -> SUBSET Event]
    BY <1>23, <2>1 DEF TypeOK, CommitCancel, Publish
  <2>3. /\ status' \in [Jobs -> Statuses \cup {"absent"}]
        /\ status'[can[c].job] # "absent"
        /\ \A i \in Jobs : i # can[c].job => status'[i] = status[i]
    BY <1>23, <2>1 DEF TypeOK, CreatedFirst, CommitCancel, SetStatus, Written
  <2>4. /\ can' \in [Cancellers -> Canceller]
        /\ \A d \in Cancellers : can'[d].job = can[d].job
        /\ \A d \in Cancellers : can'[d].pc \in {"read", "flushed"}
             => can[d].pc \in {"read", "flushed"}
    BY <1>23 DEF TypeOK, Canceller, CanPc, CommitCancel
  <2>5. TypeOK'
    BY <1>23, <2>2, <2>3, <2>4 DEF TypeOK, CommitCancel
  <2>. QED
    BY <1>23, <2>1, <2>3, <2>4, <2>5
    DEF CreatedFirst, WorkConsistent, CommitCancel
<1>24. CASE UNCHANGED vars
  BY <1>24 DEF TypeOK, CreatedFirst, WorkConsistent, vars, rowVars
<1>. QED
  BY <1>1, <1>2, <1>3, <1>4, <1>5, <1>6, <1>7, <1>8, <1>9, <1>10, <1>11,
     <1>12, <1>13, <1>14, <1>15, <1>16, <1>17, <1>18, <1>19, <1>20,
     <1>21, <1>22, <1>23, <1>24
  DEF Next, SubmitStep, WorkStep, Failure, CancelStep, Rest

(***************************************************************************)
(* Type correctness: every state of the job runtime has its type, in       *)
(* particular no row ever has a status its readers do not know.            *)
(***************************************************************************)
THEOREM TypeCorrect == Spec => []TypeInv
BY TypeInit, TypeStep, PTL DEF Spec

\* TypeOK (JobRuntime): the rows and the locals of every actor are well typed.
THEOREM RuntimeIsTyped == Spec => []TypeOK
<1>1. TypeInv => TypeOK
  BY DEF TypeInv
<1>. QED
  BY <1>1, TypeCorrect, PTL

-----------------------------------------------------------------------------
(***************************************************************************)
(* Two facts about the payloads of _execute_payload: each of them commits  *)
(* data at some step, and none checks for a cancellation after that.       *)
(***************************************************************************)
Applies(j, s) == s \in DOMAIN Payload[j] /\ Payload[j][s].op = "apply"
Checks(j, s)  == s \in DOMAIN Payload[j] /\ Payload[j][s].op = "check"

EveryPayloadApplies == \A j \in Jobs : \E s \in Nat : Applies(j, s)
ChecksComeFirst     ==
  \A j \in Jobs : \A s, t \in Nat : Applies(j, s) /\ Checks(j, t) => t < s

(***************************************************************************)
(* Why "succeeded" means audited and "cancelled" means nothing was stored. *)
(* The data is committed exactly when the worker is past the step that     *)
(* commits it; the outcome "succeeded" is reached only past all steps and  *)
(* with the audit row closed, "cancelled" only at a check.                 *)
(***************************************************************************)
AuditOK(j) ==
  /\ work[j].pc = "progressing" => Payload[j][work[j].step].op = "progress"
  /\ \A s \in Nat : Applies(j, s) /\ s < work[j].step => applied[j]
  /\ applied[j] => \E s \in Nat : Applies(j, s) /\ s < work[j].step
  /\ work[j].pc = "returned" => applied[j]
  /\ work[j].pc = "raised" => work[j].outcome # "succeeded"
  /\ work[j].outcome = "succeeded" => applied[j] /\ workflow[j] = "succeeded"
  /\ work[j].outcome = "cancelled" => ~applied[j]
  /\ status[j] = "succeeded" => work[j].outcome = "succeeded"

AuditInv == \A j \in Jobs : AuditOK(j)

LEMMA AuditFrame ==
  ASSUME NEW j \in Jobs, AuditOK(j),
         UNCHANGED <<work[j], workflow[j], applied[j]>>,
         status'[j] = status[j] \/ status'[j] # "succeeded"
  PROVE  AuditOK(j)'
BY DEF AuditOK, Applies

LEMMA DomainPayload ==
  ASSUME NEW j \in Jobs
  PROVE  \E n \in Nat : DOMAIN Payload[j] = 1 .. n
<1>1. Payload[j] \in Seq(Step)
  BY PayloadAssumption
<1>. QED
  BY <1>1

LEMMA AuditInit == Init => AuditInv
<1>. SUFFICES ASSUME Init, NEW j \in Jobs PROVE AuditOK(j)
  BY DEF AuditInv
<1>1. \A s \in Nat : Applies(j, s) => s >= 1
  BY DomainPayload DEF Applies
<1>. QED
  BY <1>1 DEF Init, AuditOK

LEMMA AuditStep ==
  ASSUME EveryPayloadApplies, ChecksComeFirst,
         TypeInv, AuditInv, [Next]_vars
  PROVE  AuditInv'
<1>. USE DEF Statuses, Terminal, Outcome
<1>1. ASSUME NEW j \in Jobs, SubmitStep(j) \/ SubmitFails(j)
      PROVE  AuditInv'
  <2>1. UNCHANGED <<work, workflow, applied>>
    BY <1>1 DEF SubmitStep, SubmitFails, CreateQueued, Enqueue, FlushEnqueued,
                CommitEnqueued, ReturnInline, rowVars
  <2>2. \A i \in Jobs : status'[i] = status[i] \/ status'[i] = "queued"
    BY <1>1
    DEF TypeInv, TypeOK, SubmitStep, SubmitFails, CreateQueued, Enqueue,
        FlushEnqueued, CommitEnqueued, ReturnInline, rowVars
  <2>. QED
    BY <2>1, <2>2, AuditFrame DEF AuditInv
<1>2. ASSUME NEW c \in Cancellers,
             ReadForCancel(c) \/ FlushCancel(c) \/ CommitCancel(c)
               \/ CancelFails(c)
      PROVE  AuditInv'
  <2>1. UNCHANGED <<work, workflow, applied>>
    BY <1>2 DEF ReadForCancel, FlushCancel, CommitCancel, CancelFails
  <2>2. \A i \in Jobs : status'[i] = status[i]
                        \/ status'[i] \in {"cancelled", "cancel_requested"}
    BY <1>2 DEF TypeInv, TypeOK, ReadForCancel, FlushCancel, CommitCancel,
                CancelFails, SetStatus, Written, CancelTo, rowVars
  <2>. QED
    BY <2>1, <2>2, AuditFrame DEF AuditInv
<1>3. ASSUME NEW j \in Jobs, WorkStep(j) \/ Failure(j), ~SubmitFails(j)
      PROVE  AuditInv'
  <2>1. /\ work[j] \in Worker /\ work \in [Jobs -> Worker]
        /\ status \in [Jobs -> Statuses \cup {"absent"}]
        /\ applied \in [Jobs -> BOOLEAN]
        /\ workflow \in [Jobs -> {"none", "running", "failed", "succeeded"}]
        /\ work[j].step \in Nat
    BY DEF TypeInv, TypeOK, Worker
  <2>2. PICK n \in Nat : DOMAIN Payload[j] = 1 .. n
    BY DomainPayload
  <2>3. AuditOK(j)
    BY DEF AuditInv
  <2>4. ASSUME NEW i \in Jobs, i # j
        PROVE  AuditOK(i)'
    <3>1. /\ UNCHANGED <<work[i], workflow[i], applied[i]>>
          /\ status'[i] = status[i]
      BY <1>3, <2>1, <2>4
      DEF WorkStep, Failure, Begin, TakeJob, FlushStart, CommitStart,
          CreateWorkflow, RaiseIfCancelled, FlushProgress, CommitProgress,
          ApplyPayload, PayloadReturns, MarkWorkflowSucceeded,
          MarkWorkflowFailed, ReadForVerdict, FlushVerdict, CommitVerdict,
          AuditNotCreated, PayloadRaises, AuditRaises, WorkerCrashes, Flush,
          SetStatus, rowVars
    <3>. QED
      BY <3>1, AuditFrame DEF AuditInv
  <2>5. AuditOK(j)'
    <3>1. CASE Begin(j)
      BY <3>1, <2>1, <2>2, <2>3
      DEF TypeInv, WorkConsistent, AuditOK, Applies, Checks,
          EveryPayloadApplies, ChecksComeFirst, Worker, rowVars, Begin,
          TakeJob
    <3>2. CASE FlushStart(j)
      BY <3>2, <2>1, <2>2, <2>3
      DEF TypeInv, WorkConsistent, AuditOK, Applies, Checks,
          EveryPayloadApplies, ChecksComeFirst, Worker, rowVars, FlushStart,
          Flush
    <3>3. CASE CommitStart(j)
      BY <3>3, <2>1, <2>2, <2>3
      DEF TypeInv, WorkConsistent, AuditOK, Applies, Checks,
          EveryPayloadApplies, ChecksComeFirst, Worker, rowVars, CommitStart,
          SetStatus, Written
    <3>4. CASE CreateWorkflow(j)
      BY <3>4, <2>1, <2>2, <2>3
      DEF TypeInv, WorkConsistent, AuditOK, Applies, Checks,
          EveryPayloadApplies, ChecksComeFirst, Worker, rowVars,
          CreateWorkflow
    <3>5. CASE AuditNotCreated(j)
      BY <3>5, <2>1, <2>2, <2>3
      DEF TypeInv, WorkConsistent, AuditOK, Applies, Checks,
          EveryPayloadApplies, ChecksComeFirst, Worker, rowVars,
          AuditNotCreated
    <3>6. CASE RaiseIfCancelled(j)
      BY <3>6, <2>1, <2>2, <2>3
      DEF TypeInv, WorkConsistent, AuditOK, Applies, Checks,
          EveryPayloadApplies, ChecksComeFirst, Worker, rowVars,
          RaiseIfCancelled, AtStep
    <3>7. CASE FlushProgress(j)
      BY <3>7, <2>1, <2>2, <2>3
      DEF TypeInv, WorkConsistent, AuditOK, Applies, Checks,
          EveryPayloadApplies, ChecksComeFirst, Worker, rowVars,
          FlushProgress, Flush, AtStep
    <3>8. CASE CommitProgress(j)
      BY <3>8, <2>1, <2>2, <2>3
      DEF TypeInv, WorkConsistent, AuditOK, Applies, Checks,
          EveryPayloadApplies, ChecksComeFirst, Worker, rowVars,
          CommitProgress
    <3>9. CASE ApplyPayload(j)
      <4>1. /\ Applies(j, work[j].step)
            /\ work[j].pc = "payload" /\ work[j].outcome = "none"
            /\ status[j] # "succeeded"
        BY <3>9, <2>1, <2>3 DEF TypeInv, WorkConsistent, AuditOK, Applies,
           ApplyPayload, AtStep
      <4>2. /\ work'[j].pc = "payload" /\ work'[j].outcome = "none"
            /\ work'[j].step = work[j].step + 1
            /\ applied'[j] = TRUE /\ status' = status
        BY <3>9, <2>1, <4>1 DEF Worker, ApplyPayload, rowVars
      <4>. QED
        BY <2>1, <4>1, <4>2 DEF AuditOK, Applies
    <3>10. CASE PayloadRaises(j)
      BY <3>10, <2>1, <2>2, <2>3
      DEF TypeInv, WorkConsistent, AuditOK, Applies, Checks,
          EveryPayloadApplies, ChecksComeFirst, Worker, rowVars, PayloadRaises
    <3>11. CASE PayloadReturns(j)
      <4>1. PICK s \in Nat : Applies(j, s)
        BY DEF EveryPayloadApplies
      <4>2. s < work[j].step
        BY <3>11, <2>1, <2>2, <4>1
        DEF TypeInv, WorkConsistent, Applies, PayloadReturns
      <4>3. applied[j] /\ work[j].outcome = "none"
        BY <3>11, <2>3, <4>1, <4>2
        DEF AuditOK, TypeInv, WorkConsistent, PayloadReturns
      <4>4. work'[j].pc = "returned" /\ work'[j].outcome = "none"
            /\ work'[j].step = work[j].step
        BY <3>11, <2>1, <4>3 DEF Worker, PayloadReturns
      <4>. QED
        BY <3>11, <2>1, <2>3, <4>3, <4>4
        DEF AuditOK, Applies, PayloadReturns, rowVars
    <3>12. CASE MarkWorkflowSucceeded(j)
      BY <3>12, <2>1, <2>2, <2>3
      DEF TypeInv, WorkConsistent, AuditOK, Applies, Checks,
          EveryPayloadApplies, ChecksComeFirst, Worker, rowVars,
          MarkWorkflowSucceeded
    <3>13. CASE MarkWorkflowFailed(j)
      BY <3>13, <2>1, <2>2, <2>3
      DEF TypeInv, WorkConsistent, AuditOK, Applies, Checks,
          EveryPayloadApplies, ChecksComeFirst, Worker, rowVars,
          MarkWorkflowFailed
    <3>14. CASE AuditRaises(j)
      BY <3>14, <2>1, <2>2, <2>3
      DEF TypeInv, WorkConsistent, AuditOK, Applies, Checks,
          EveryPayloadApplies, ChecksComeFirst, Worker, rowVars, AuditRaises
    <3>15. CASE ReadForVerdict(j)
      BY <3>15, <2>1, <2>2, <2>3
      DEF TypeInv, WorkConsistent, AuditOK, Applies, Checks,
          EveryPayloadApplies, ChecksComeFirst, Worker, rowVars,
          ReadForVerdict
    <3>16. CASE FlushVerdict(j)
      BY <3>16, <2>1, <2>2, <2>3
      DEF TypeInv, WorkConsistent, AuditOK, Applies, Checks,
          EveryPayloadApplies, ChecksComeFirst, Worker, rowVars, FlushVerdict,
          Flush
    <3>17. CASE CommitVerdict(j)
      BY <3>17, <2>1, <2>2, <2>3
      DEF TypeInv, WorkConsistent, AuditOK, Applies, Checks,
          EveryPayloadApplies, ChecksComeFirst, Worker, rowVars,
          CommitVerdict, SetStatus, Written
    <3>18. CASE WorkerCrashes(j)
      BY <3>18, <2>1, <2>2, <2>3
      DEF TypeInv, WorkConsistent, AuditOK, Applies, Checks,
          EveryPayloadApplies, ChecksComeFirst, Worker, rowVars, WorkerCrashes
    <3>. QED
      BY <1>3, <3>1, <3>2, <3>3, <3>4, <3>5, <3>6, <3>7, <3>8, <3>9, <3>10,
         <3>11, <3>12, <3>13, <3>14, <3>15, <3>16, <3>17, <3>18
      DEF WorkStep, Failure
  <2>. QED
    BY <2>4, <2>5 DEF AuditInv
<1>4. CASE UNCHANGED vars
  BY <1>4, AuditFrame DEF AuditInv, vars, rowVars
<1>. QED
  BY <1>1, <1>2, <1>3, <1>4 DEF Next, Failure, CancelStep, Rest

(***************************************************************************)
(* SucceededIsAudited and CancelledLeavesNothing (JobRuntime): a job that  *)
(* reads "succeeded" has stored its data under an audit row closed as      *)
(* succeeded, and a job that stopped at a cancellation stored nothing,     *)
(* whatever crashes, errors and cancellation requests interfere.           *)
(***************************************************************************)
THEOREM OutcomeIsTrue ==
  ASSUME EveryPayloadApplies, ChecksComeFirst
  PROVE  Spec => [](SucceededIsAudited /\ CancelledLeavesNothing)
<1>1. Init => TypeInv /\ AuditInv
  BY TypeInit, AuditInit
<1>2. TypeInv /\ AuditInv /\ [Next]_vars => TypeInv' /\ AuditInv'
  BY TypeStep, AuditStep
<1>3. TypeInv /\ AuditInv => SucceededIsAudited /\ CancelledLeavesNothing
  BY DEF AuditInv, AuditOK, SucceededIsAudited, CancelledLeavesNothing
<1>. QED
  BY <1>1, <1>2, <1>3, PTL DEF Spec

(***************************************************************************)
(* CancelledLeavesNothing (JobRuntime): CancellationToken stops a job      *)
(* before its payload commits data, or not at all.                         *)
(***************************************************************************)
THEOREM CancelledJobsLeaveNothing ==
  ASSUME EveryPayloadApplies, ChecksComeFirst
  PROVE  Spec => []CancelledLeavesNothing
BY OutcomeIsTrue, PTL

-----------------------------------------------------------------------------
(***************************************************************************)
(* Events are only ever added.                                             *)
(***************************************************************************)
LEMMA EventsGrow ==
  ASSUME TypeInv, [Next]_vars
  PROVE  \A j \in Jobs : events[j] \subseteq events'[j]
<1>. /\ events \in [Jobs -> SUBSET Event]
     /\ \A c \in Cancellers : can[c].job \in Jobs
  BY DEF TypeInv, TypeOK, Canceller
<1>1. ASSUME NEW j \in Jobs, SubmitStep(j) \/ SubmitFails(j)
      PROVE  \A i \in Jobs : events[i] \subseteq events'[i]
  BY <1>1 DEF SubmitStep, CreateQueued, Enqueue, FlushEnqueued, CommitEnqueued,
              ReturnInline, SubmitFails, Publish, rowVars
<1>2. ASSUME NEW j \in Jobs, WorkStep(j)
      PROVE  \A i \in Jobs : events[i] \subseteq events'[i]
  BY <1>2
  DEF WorkStep, Begin, TakeJob, FlushStart, CommitStart, CreateWorkflow,
      RaiseIfCancelled, FlushProgress, CommitProgress, ApplyPayload,
      PayloadReturns, MarkWorkflowSucceeded, MarkWorkflowFailed,
      ReadForVerdict, FlushVerdict, CommitVerdict, Flush, Publish, rowVars
<1>3. ASSUME NEW j \in Jobs, Failure(j), ~SubmitFails(j)
      PROVE  \A i \in Jobs : events[i] \subseteq events'[i]
  BY <1>3 DEF Failure, AuditNotCreated, PayloadRaises, AuditRaises,
              WorkerCrashes, rowVars
<1>4. ASSUME NEW c \in Cancellers,
             ReadForCancel(c) \/ FlushCancel(c) \/ CommitCancel(c)
               \/ CancelFails(c)
      PROVE  \A i \in Jobs : events[i] \subseteq events'[i]
  BY <1>4
  DEF ReadForCancel, FlushCancel, CommitCancel, CancelFails, Publish, rowVars
<1>5. CASE UNCHANGED vars
  BY <1>5 DEF vars, rowVars
<1>. QED
  BY <1>1, <1>2, <1>3, <1>4, <1>5 DEF Next, Failure, CancelStep, Rest

(***************************************************************************)
(* Whoever has seen a status other than "queued" and "cancelled" finds the *)
(* event of the worker's start in the timeline.                            *)
(***************************************************************************)
HasRun(j) == \E e \in events[j] : e.type = "running"

RunInv ==
  /\ \A j \in Jobs :
       status[j] \in {"running", "cancel_requested", "failed", "succeeded"}
         => HasRun(j)
  /\ \A j \in Jobs :
       work[j].pc \notin {"idle", "start", "starting", "done", "crashed"}
         => HasRun(j)
  /\ \A c \in Cancellers :
       can[c].pc \in {"read", "flushed"} /\ can[c].seen # "queued"
         => HasRun(can[c].job)

LEMMA RunInit == Init => RunInv
<1>. SUFFICES ASSUME Init PROVE RunInv
  OBVIOUS
<1>1. \A c \in Cancellers : can[c].pc = "idle"
  BY DEF Init
<1>. QED
  BY <1>1 DEF Init, RunInv

LEMMA RunStep ==
  ASSUME TypeInv, RunInv, [Next]_vars
  PROVE  RunInv'
<1>1. \A j \in Jobs : HasRun(j) => HasRun(j)'
  BY EventsGrow DEF HasRun
<1>2. /\ work \in [Jobs -> Worker]
      /\ status \in [Jobs -> Statuses \cup {"absent"}]
      /\ can \in [Cancellers -> Canceller]
      /\ \A c \in Cancellers : can[c].job \in Jobs
  BY DEF TypeInv, TypeOK, Canceller
<1>. SUFFICES ASSUME Next PROVE RunInv'
  BY <1>1, <1>2 DEF RunInv, vars, rowVars
<1>3. ASSUME NEW j \in Jobs, SubmitStep(j) \/ SubmitFails(j)
      PROVE  RunInv'
  <2>1. /\ UNCHANGED <<work, can>>
        /\ \A i \in Jobs : status'[i] = status[i] \/ status'[i] = "queued"
    BY <1>2, <1>3
    DEF SubmitStep, SubmitFails, CreateQueued, Enqueue, FlushEnqueued,
        CommitEnqueued, ReturnInline, rowVars
  <2>. QED
    BY <1>1, <1>2, <2>1 DEF RunInv
<1>4. ASSUME NEW j \in Jobs, CommitStart(j)
      PROVE  RunInv'
  <2>1. HasRun(j)'
    <3>1. [id |-> work[j].id, type |-> "running"] \in events'[j]
      BY <1>4 DEF CommitStart, Publish, TypeInv, TypeOK
    <3>. QED
      BY <3>1 DEF HasRun
  <2>2. /\ UNCHANGED can
        /\ \A i \in Jobs : i # j => work'[i] = work[i] /\ status'[i] = status[i]
    BY <1>2, <1>4 DEF CommitStart, SetStatus
  <2>. QED
    BY <1>1, <1>2, <2>1, <2>2 DEF RunInv
<1>5. ASSUME NEW j \in Jobs, WorkStep(j) \/ Failure(j),
             ~CommitStart(j), ~SubmitFails(j)
      PROVE  RunInv'
  <2>1. /\ UNCHANGED can
        /\ \A i \in Jobs : i # j => work'[i] = work[i] /\ status'[i] = status[i]
    BY <1>2, <1>5 DEF WorkStep, Failure, Begin, TakeJob, FlushStart,
       CreateWorkflow, RaiseIfCancelled, FlushProgress, CommitProgress,
       ApplyPayload, PayloadReturns, MarkWorkflowSucceeded,
       MarkWorkflowFailed, ReadForVerdict, FlushVerdict, CommitVerdict,
       AuditNotCreated, PayloadRaises, AuditRaises, WorkerCrashes, Flush,
       SetStatus, rowVars
  <2>2. /\ work'[j].pc \in {"start", "starting", "done", "crashed"}
           \/ work[j].pc \notin {"idle", "start", "starting", "done", "crashed"}
        /\ status'[j] = status[j]
           \/ work[j].pc \notin {"idle", "start", "starting", "done", "crashed"}
    <3>1. CASE Begin(j)
      BY <1>2, <3>1 DEF Begin, TakeJob, Worker, rowVars
    <3>2. CASE FlushStart(j)
      BY <1>2, <3>2 DEF FlushStart, Flush, Worker, rowVars
    <3>3. CASE CreateWorkflow(j) \/ AuditNotCreated(j)
      BY <1>2, <3>3 DEF CreateWorkflow, AuditNotCreated, Worker, rowVars
    <3>4. CASE RaiseIfCancelled(j)
      BY <1>2, <3>4 DEF RaiseIfCancelled, AtStep, Worker, rowVars
    <3>5. CASE FlushProgress(j)
      BY <1>2, <3>5 DEF FlushProgress, Flush, AtStep, Worker, rowVars
    <3>6. CASE CommitProgress(j) \/ ApplyPayload(j)
      BY <1>2, <3>6 DEF CommitProgress, ApplyPayload, AtStep, Worker, rowVars
    <3>7. CASE PayloadRaises(j) \/ PayloadReturns(j)
      BY <1>2, <3>7 DEF PayloadRaises, PayloadReturns, Worker, rowVars
    <3>8. CASE MarkWorkflowSucceeded(j) \/ MarkWorkflowFailed(j) \/ AuditRaises(j)
      BY <1>2, <3>8
      DEF MarkWorkflowSucceeded, MarkWorkflowFailed, AuditRaises, Worker,
          rowVars
    <3>9. CASE ReadForVerdict(j)
      BY <1>2, <3>9 DEF ReadForVerdict, Worker, rowVars
    <3>10. CASE FlushVerdict(j)
      BY <1>2, <3>10 DEF FlushVerdict, Flush, Worker, rowVars
    <3>11. CASE CommitVerdict(j)
      BY <1>2, <3>11 DEF CommitVerdict, SetStatus, Worker, rowVars
    <3>12. CASE WorkerCrashes(j)
      BY <1>2, <3>12 DEF WorkerCrashes, Worker, rowVars
    <3>. QED
      BY <1>5, <3>1, <3>2, <3>3, <3>4, <3>5, <3>6, <3>7, <3>8, <3>9,
         <3>10, <3>11, <3>12 DEF WorkStep, Failure
  <2>. QED
    BY <1>1, <1>2, <2>1, <2>2 DEF RunInv
<1>6. ASSUME NEW c \in Cancellers, ReadForCancel(c)
      PROVE  RunInv'
  <2>1. /\ UNCHANGED <<status, work, events>>
        /\ \A d \in Cancellers : d # c => can'[d] = can[d]
        /\ can'[c].job = can[c].job
        /\ can'[c].pc = "read" => /\ status[can[c].job] \in Statuses \ Terminal
                                  /\ can'[c].seen = status[can[c].job]
        /\ can'[c].pc # "flushed"
    BY <1>2, <1>6 DEF ReadForCancel, Canceller, Statuses, Terminal, rowVars
  <2>. QED
    BY <1>1, <1>2, <2>1 DEF RunInv, HasRun, Statuses, Terminal
<1>7. ASSUME NEW c \in Cancellers, FlushCancel(c) \/ CancelFails(c)
      PROVE  RunInv'
  <2>1. /\ UNCHANGED <<status, work>>
        /\ \A d \in Cancellers : d # c => can'[d] = can[d]
        /\ can'[c].job = can[c].job /\ can'[c].seen = can[c].seen
        /\ can[c].pc \in {"read", "flushed"}
    <3>1. CASE FlushCancel(c)
      BY <1>2, <3>1 DEF FlushCancel, Canceller
    <3>2. CASE CancelFails(c)
      BY <1>2, <3>2 DEF CancelFails, Canceller, rowVars
    <3>. QED
      BY <1>7, <3>1, <3>2
  <2>. QED
    BY <1>1, <1>2, <2>1 DEF RunInv
<1>8. ASSUME NEW c \in Cancellers, CommitCancel(c)
      PROVE  RunInv'
  <2>1. /\ UNCHANGED work
        /\ \A d \in Cancellers : d # c => can'[d] = can[d]
        /\ can'[c].pc = "done"
        /\ \A i \in Jobs :
             \/ status'[i] = status[i]
             \/ status'[i] = "cancelled"
             \/ i = can[c].job /\ can[c].pc = "flushed" /\ can[c].seen # "queued"
    BY <1>2, <1>8 DEF CommitCancel, Canceller, SetStatus, Written, CancelTo
  <2>. QED
    BY <1>1, <1>2, <2>1 DEF RunInv
<1>9. CASE Rest
  BY <1>1, <1>2, <1>9 DEF RunInv, Rest, vars, rowVars
<1>. QED
  BY <1>3, <1>4, <1>5, <1>6, <1>7, <1>8, <1>9 DEF Next, Failure, CancelStep

LEMMA ShelvedStays ==
  ASSUME TypeInv, RunInv, [Next]_vars, NEW j \in Jobs, Shelved(j)
  PROVE  Shelved(j)'
<1>1. /\ status[j] = "cancelled" /\ work[j].pc \in {"idle", "done"}
      /\ workflow[j] = "none" /\ ~HasRun(j)
  BY DEF Shelved, HasRun
<1>2. /\ work \in [Jobs -> Worker]
      /\ status \in [Jobs -> Statuses \cup {"absent"}]
      /\ events \in [Jobs -> SUBSET Event]
      /\ workflow \in [Jobs -> {"none", "running", "failed", "succeeded"}]
      /\ \A c \in Cancellers : can[c].job \in Jobs
  BY DEF TypeInv, TypeOK, Canceller
<1>3. ASSUME NEW i \in Jobs, SubmitStep(i) \/ SubmitFails(i)
      PROVE  Shelved(j)'
  <2>1. /\ UNCHANGED <<work, workflow>>
        /\ status'[j] = status[j]
        /\ \A e \in events'[j] : e \in events[j] \/ e.type \in {"queued", "enqueued"}
    BY <1>1, <1>2, <1>3 DEF SubmitStep, SubmitFails, CreateQueued, Enqueue,
       FlushEnqueued, CommitEnqueued, ReturnInline, Publish, rowVars,
       TypeInv, CreatedFirst
  <2>. QED
    BY <1>1, <2>1 DEF Shelved, HasRun
<1>4. ASSUME NEW i \in Jobs, i # j, WorkStep(i) \/ Failure(i), ~SubmitFails(i)
      PROVE  Shelved(j)'
  <2>1. /\ work'[j] = work[j] /\ workflow'[j] = workflow[j]
        /\ status'[j] = status[j] /\ events'[j] = events[j]
    BY <1>2, <1>4 DEF WorkStep, Failure, Begin, TakeJob, FlushStart,
       CommitStart, CreateWorkflow, RaiseIfCancelled, FlushProgress,
       CommitProgress, ApplyPayload, PayloadReturns, MarkWorkflowSucceeded,
       MarkWorkflowFailed, ReadForVerdict, FlushVerdict, CommitVerdict,
       AuditNotCreated, PayloadRaises, AuditRaises, WorkerCrashes, Flush,
       SetStatus, Publish, rowVars
  <2>. QED
    BY <1>1, <2>1 DEF Shelved, HasRun
<1>5. ASSUME WorkStep(j) \/ Failure(j), ~SubmitFails(j)
      PROVE  Shelved(j)'
  <2>1. Begin(j)
    BY <1>1, <1>5
    DEF WorkStep, Failure, FlushStart, CommitStart, CreateWorkflow,
        RaiseIfCancelled, FlushProgress, CommitProgress, ApplyPayload,
        PayloadReturns, MarkWorkflowSucceeded, MarkWorkflowFailed,
        ReadForVerdict, FlushVerdict, CommitVerdict, AuditNotCreated,
        PayloadRaises, AuditRaises, WorkerCrashes, Flush, AtStep
  <2>2. work'[j].pc = "done" /\ UNCHANGED <<status, events, workflow>>
    BY <1>1, <1>2, <2>1 DEF Begin, Worker, rowVars
  <2>. QED
    BY <1>1, <2>2 DEF Shelved, HasRun
<1>6. ASSUME NEW c \in Cancellers,
             ReadForCancel(c) \/ FlushCancel(c) \/ CommitCancel(c)
               \/ CancelFails(c)
      PROVE  Shelved(j)'
  <2>1. can[c].job = j /\ CommitCancel(c) => can[c].seen = "queued"
    BY <1>1 DEF RunInv, CommitCancel
  <2>2. /\ UNCHANGED <<work, workflow>>
        /\ status'[j] = "cancelled"
        /\ \A e \in events'[j] : e \in events[j] \/ e.type # "running"
    BY <1>1, <1>2, <1>6, <2>1 DEF ReadForCancel, FlushCancel, CommitCancel,
       CancelFails, SetStatus, Written, CancelTo, Publish, rowVars
  <2>. QED
    BY <1>1, <2>2 DEF Shelved, HasRun
<1>7. CASE UNCHANGED vars
  BY <1>7 DEF Shelved, vars, rowVars
<1>. QED
  BY <1>3, <1>4, <1>5, <1>6, <1>7 DEF Next, Failure, CancelStep, Rest

LEMMA RequestStays ==
  ASSUME TypeInv, Next, NEW j \in Jobs, Running(j),
         status[j] \in {"cancel_requested", "cancelled"}
  PROVE  status'[j] \in {"cancel_requested", "cancelled"}
<1>1. /\ status \in [Jobs -> Statuses \cup {"absent"}]
      /\ \A c \in Cancellers : can[c].job \in Jobs
  BY DEF TypeInv, TypeOK, Canceller
<1>2. ASSUME NEW i \in Jobs, SubmitStep(i) \/ SubmitFails(i)
      PROVE  status'[j] = status[j]
  BY <1>1, <1>2
  DEF SubmitStep, SubmitFails, CreateQueued, Enqueue, FlushEnqueued,
      CommitEnqueued, ReturnInline, rowVars, TypeInv, CreatedFirst
<1>3. ASSUME NEW i \in Jobs, WorkStep(i) \/ Failure(i), ~SubmitFails(i)
      PROVE  status'[j] = status[j]
  BY <1>1, <1>3 DEF Running, WorkStep, Failure, Begin, FlushStart,
     CommitStart, CreateWorkflow, RaiseIfCancelled, FlushProgress,
     CommitProgress, ApplyPayload, PayloadReturns, MarkWorkflowSucceeded,
     MarkWorkflowFailed, ReadForVerdict, FlushVerdict, CommitVerdict,
     AuditNotCreated, PayloadRaises, AuditRaises, WorkerCrashes, Flush,
     SetStatus, rowVars
<1>4. ASSUME NEW c \in Cancellers,
             ReadForCancel(c) \/ FlushCancel(c) \/ CommitCancel(c)
               \/ CancelFails(c)
      PROVE  status'[j] \in {"cancel_requested", "cancelled"}
  BY <1>1, <1>4 DEF ReadForCancel, FlushCancel, CommitCancel, CancelFails,
     SetStatus, Written, CancelTo, rowVars
<1>5. CASE Rest
  BY <1>5 DEF Rest, vars, rowVars
<1>. QED
  BY <1>2, <1>3, <1>4, <1>5 DEF Next, Failure, CancelStep

(***************************************************************************)
(* RequestSticks (JobRuntime): between the start of the job and the        *)
(* verdict of its worker no transaction takes a cancellation back.         *)
(***************************************************************************)
THEOREM RequestsStick == Spec => RequestSticks
<1>1. TypeInv /\ [Next]_vars =>
        [\A j \in Jobs :
           Running(j) /\ status[j] \in {"cancel_requested", "cancelled"}
             => status'[j] \in {"cancel_requested", "cancelled"}]_vars
  BY RequestStays
<1>. QED
  BY <1>1, TypeInit, TypeStep, PTL DEF Spec, RequestSticks

(***************************************************************************)
(* ShelvedForGood (JobRuntime): a job cancelled while no worker had taken  *)
(* it never runs a workflow command.                                       *)
(***************************************************************************)
THEOREM ShelvedJobsStayShelved == Spec => ShelvedForGood
<1>1. Init => TypeInv /\ RunInv
  BY TypeInit, RunInit
<1>2. TypeInv /\ RunInv /\ [Next]_vars => TypeInv' /\ RunInv'
  BY TypeStep, RunStep
<1>3. TypeInv /\ RunInv /\ [Next]_vars
        => [\A j \in Jobs : Shelved(j) => Shelved(j)']_vars
  BY ShelvedStays
<1>. QED
  BY <1>1, <1>2, <1>3, PTL DEF Spec, ShelvedForGood

-----------------------------------------------------------------------------
(***************************************************************************)
(* The row lock has at most one holder, so at most one event id of a job   *)
(* is undecided, and it was drawn after the ids of all committed events.   *)
(***************************************************************************)
WorkHolds(j)   == work[j].pc \in {"starting", "progressing", "finishing"}
CanHolds(c, j) == can[c].pc = "flushed" /\ can[c].job = j

OneHolder ==
  \A j \in Jobs :
    /\ ~(sub[j].pc = "marking" /\ WorkHolds(j))
    /\ \A c \in Cancellers : CanHolds(c, j) =>
         /\ sub[j].pc # "marking" /\ ~WorkHolds(j)
         /\ \A d \in Cancellers : CanHolds(d, j) => d = c

IdInv ==
  \A j \in Jobs :
    /\ \A e \in events[j] : e.id < nextId[j]
    /\ \A i \in Undecided(j) : i < nextId[j] /\ \A e \in events[j] : e.id < i

OrderInv == OneHolder /\ IdInv

LEMMA UndecidedDef ==
  ASSUME NEW j \in Jobs, NEW i
  PROVE  i \in Undecided(j) <=>
           \/ sub[j].pc = "marking" /\ i = sub[j].id
           \/ WorkHolds(j) /\ i = work[j].id
           \/ \E c \in Cancellers : CanHolds(c, j) /\ i = can[c].id
BY DEF Undecided, WorkHolds, CanHolds

LEMMA UndecidedPrime ==
  ASSUME NEW j \in Jobs, NEW i
  PROVE  i \in Undecided(j)' <=>
           \/ sub'[j].pc = "marking" /\ i = sub'[j].id
           \/ WorkHolds(j)' /\ i = work'[j].id
           \/ \E c \in Cancellers : CanHolds(c, j)' /\ i = can'[c].id
BY DEF Undecided, WorkHolds, CanHolds

LEMMA FreeIsDecided ==
  ASSUME NEW j \in Jobs
  PROVE  ~Locked(j) <=> /\ sub[j].pc # "marking" /\ ~WorkHolds(j)
                        /\ \A c \in Cancellers : ~CanHolds(c, j)
BY DEF Locked, WorkHolds, CanHolds

(***************************************************************************)
(* Drawing an id under a free lock, committing the one undecided id, and   *)
(* stepping back from an id keep a job's ids in order.                     *)
(***************************************************************************)
IdOK(j) ==
  /\ \A e \in events[j] : e.id < nextId[j]
  /\ \A i \in Undecided(j) : i < nextId[j] /\ \A e \in events[j] : e.id < i

LEMMA IdsDraw ==
  ASSUME NEW j \in Jobs, IdOK(j), nextId[j] \in Nat, events[j] \subseteq Event,
         nextId'[j] = nextId[j] + 1, events'[j] = events[j],
         \A i \in Undecided(j)' : i = nextId[j]
  PROVE  IdOK(j)'
BY DEF IdOK, Event

LEMMA IdsCommit ==
  ASSUME NEW j \in Jobs, IdOK(j), nextId[j] \in Nat, NEW x \in Undecided(j),
         nextId'[j] = nextId[j], Undecided(j)' = {},
         \A e \in events'[j] : e \in events[j] \/ e.id = x
  PROVE  IdOK(j)'
BY DEF IdOK

LEMMA IdsKeep ==
  ASSUME NEW j \in Jobs, IdOK(j),
         nextId'[j] = nextId[j], events'[j] = events[j],
         Undecided(j)' \subseteq Undecided(j)
  PROVE  IdOK(j)'
BY DEF IdOK

LEMMA OrderInit == Init => OrderInv
<1>. SUFFICES ASSUME Init PROVE OrderInv
  OBVIOUS
<1>1. \A c \in Cancellers : can[c].pc = "idle"
  BY DEF Init
<1>. QED
  BY <1>1 DEF Init, OrderInv, OneHolder, IdInv, Undecided, WorkHolds, CanHolds

LEMMA OrderStep ==
  ASSUME TypeInv, OrderInv, [Next]_vars
  PROVE  OrderInv'
<1>1. /\ work \in [Jobs -> Worker] /\ sub \in [Jobs -> Submitter]
      /\ can \in [Cancellers -> Canceller]
      /\ events \in [Jobs -> SUBSET Event] /\ nextId \in [Jobs -> Nat]
      /\ \A c \in Cancellers : can[c].job \in Jobs
      /\ \A j \in Jobs : IdOK(j)
  BY DEF TypeInv, TypeOK, Canceller, OrderInv, IdInv, IdOK
<1>2. SUFFICES OneHolder' /\ \A j \in Jobs : IdOK(j)'
  BY DEF OrderInv, IdInv, IdOK
<1>3. ASSUME NEW j \in Jobs, CreateQueued(j)
      PROVE  OneHolder' /\ \A i \in Jobs : IdOK(i)'
  <2>1. /\ sub[j].pc = "new" /\ work[j].pc = "idle"
        /\ \A c \in Cancellers : ~CanHolds(c, j)
    BY <1>3 DEF CreateQueued, TypeInv, CreatedFirst, CanHolds
  <2>2. /\ UNCHANGED <<work, can>> /\ sub'[j].pc = "created"
        /\ \A i \in Jobs : i # j => /\ sub'[i] = sub[i]
                                    /\ events'[i] = events[i]
                                    /\ nextId'[i] = nextId[i]
        /\ nextId'[j] = nextId[j] + 1
        /\ \A e \in events'[j] : e \in events[j] \/ e.id = nextId[j]
    BY <1>1, <1>3 DEF CreateQueued, Submitter, DrawId, Publish
  <2>3. OneHolder'
    BY <2>1, <2>2 DEF OrderInv, OneHolder, WorkHolds, CanHolds
  <2>4. \A i \in Jobs : Undecided(i)' \subseteq Undecided(i)
    BY <2>1, <2>2 DEF Undecided
  <2>5. Undecided(j)' = {}
    BY <2>1, <2>2 DEF Undecided, CanHolds
  <2>6. IdOK(j)'
    BY <1>1, <2>2, <2>5 DEF IdOK, Event
  <2>. QED
    BY <1>1, <2>2, <2>3, <2>4, <2>6, IdsKeep
<1>4. ASSUME NEW j \in Jobs, FlushEnqueued(j)
      PROVE  OneHolder' /\ \A i \in Jobs : IdOK(i)'
  <2>1. /\ sub[j].pc # "marking" /\ ~WorkHolds(j)
        /\ \A c \in Cancellers : ~CanHolds(c, j)
    BY <1>4, FreeIsDecided DEF FlushEnqueued
  <2>2. /\ UNCHANGED <<work, can, events>>
        /\ sub'[j].pc = "marking" /\ sub'[j].id = nextId[j]
        /\ \A i \in Jobs : i # j => sub'[i] = sub[i] /\ nextId'[i] = nextId[i]
        /\ nextId'[j] = nextId[j] + 1
    BY <1>1, <1>4 DEF FlushEnqueued, Submitter, DrawId
  <2>3. OneHolder'
    BY <2>1, <2>2 DEF OrderInv, OneHolder, WorkHolds, CanHolds
  <2>4. \A i \in Jobs : i # j => Undecided(i)' \subseteq Undecided(i)
    BY <2>2 DEF Undecided
  <2>5. \A i \in Undecided(j)' : i = nextId[j]
    BY <2>1, <2>2, UndecidedPrime DEF WorkHolds, CanHolds
  <2>. QED
    BY <1>1, <2>2, <2>3, <2>4, <2>5, IdsKeep, IdsDraw
<1>5. ASSUME NEW j \in Jobs, FlushStart(j) \/ FlushProgress(j) \/ FlushVerdict(j)
      PROVE  OneHolder' /\ \A i \in Jobs : IdOK(i)'
  <2>1. /\ sub[j].pc # "marking" /\ ~WorkHolds(j)
        /\ \A c \in Cancellers : ~CanHolds(c, j)
    BY <1>5, FreeIsDecided DEF FlushStart, FlushProgress, FlushVerdict, Flush
  <2>2. /\ UNCHANGED <<sub, can, events>>
        /\ work'[j].id = nextId[j]
        /\ \A i \in Jobs : i # j => work'[i] = work[i] /\ nextId'[i] = nextId[i]
        /\ nextId'[j] = nextId[j] + 1
    <3>1. CASE FlushStart(j)
      BY <1>1, <3>1 DEF FlushStart, Flush, Worker, DrawId
    <3>2. CASE FlushProgress(j)
      BY <1>1, <3>2 DEF FlushProgress, Flush, Worker, DrawId
    <3>3. CASE FlushVerdict(j)
      BY <1>1, <3>3 DEF FlushVerdict, Flush, Worker, DrawId
    <3>. QED
      BY <1>5, <3>1, <3>2, <3>3
  <2>3. OneHolder'
    BY <2>1, <2>2 DEF OrderInv, OneHolder, WorkHolds, CanHolds
  <2>4. \A i \in Jobs : i # j => Undecided(i)' \subseteq Undecided(i)
    BY <2>2 DEF Undecided
  <2>5. \A i \in Undecided(j)' : i = nextId[j]
    BY <2>1, <2>2, UndecidedPrime DEF CanHolds
  <2>. QED
    BY <1>1, <2>2, <2>3, <2>4, <2>5, IdsKeep, IdsDraw
<1>6. ASSUME NEW c \in Cancellers, FlushCancel(c)
      PROVE  OneHolder' /\ \A i \in Jobs : IdOK(i)'
  <2>. PICK j \in Jobs : j = can[c].job
    BY <1>1
  <2>1. /\ j \in Jobs /\ sub[j].pc # "marking" /\ ~WorkHolds(j)
        /\ \A d \in Cancellers : ~CanHolds(d, j)
    BY <1>1, <1>6, FreeIsDecided DEF FlushCancel
  <2>2. /\ UNCHANGED <<sub, work, events>>
        /\ can'[c].pc = "flushed" /\ can'[c].job = j /\ can'[c].id = nextId[j]
        /\ \A d \in Cancellers : d # c => can'[d] = can[d]
        /\ \A i \in Jobs : i # j => nextId'[i] = nextId[i]
        /\ nextId'[j] = nextId[j] + 1
    BY <1>1, <1>6, <2>1 DEF FlushCancel, Canceller, DrawId
  <2>3. OneHolder'
    BY <2>1, <2>2 DEF OrderInv, OneHolder, WorkHolds, CanHolds
  <2>4. ASSUME NEW i \in Jobs, i # j
        PROVE  Undecided(i)' \subseteq Undecided(i)
    BY <2>1, <2>2, <2>4, UndecidedDef, UndecidedPrime DEF WorkHolds, CanHolds
  <2>5. \A i \in Undecided(j)' : i = nextId[j]
    BY <2>1, <2>2, UndecidedPrime DEF WorkHolds, CanHolds
  <2>. QED
    BY <1>1, <2>1, <2>2, <2>3, <2>4, <2>5, IdsKeep, IdsDraw
<1>7. ASSUME NEW j \in Jobs, CommitEnqueued(j)
      PROVE  OneHolder' /\ \A i \in Jobs : IdOK(i)'
  <2>1. /\ sub[j].pc = "marking" /\ ~WorkHolds(j)
        /\ \A c \in Cancellers : ~CanHolds(c, j)
    BY <1>7 DEF OrderInv, OneHolder, CommitEnqueued
  <2>2. /\ UNCHANGED <<work, can, nextId>> /\ sub'[j].pc = "done"
        /\ \A i \in Jobs : i # j => sub'[i] = sub[i] /\ events'[i] = events[i]
        /\ \A e \in events'[j] : e \in events[j] \/ e.id = sub[j].id
    BY <1>1, <1>7 DEF CommitEnqueued, Submitter, Publish
  <2>3. OneHolder'
    BY <2>2 DEF OrderInv, OneHolder, WorkHolds, CanHolds
  <2>4. /\ \A i \in Jobs : i # j => Undecided(i)' \subseteq Undecided(i)
        /\ sub[j].id \in Undecided(j) /\ Undecided(j)' = {}
    BY <2>1, <2>2 DEF Undecided, WorkHolds, CanHolds
  <2>. QED
    BY <1>1, <2>2, <2>3, <2>4, IdsKeep, IdsCommit
<1>8. ASSUME NEW j \in Jobs, CommitStart(j) \/ CommitProgress(j) \/ CommitVerdict(j)
      PROVE  OneHolder' /\ \A i \in Jobs : IdOK(i)'
  <2>1. /\ sub[j].pc # "marking" /\ WorkHolds(j)
        /\ \A c \in Cancellers : ~CanHolds(c, j)
    BY <1>8 DEF OrderInv, OneHolder, WorkHolds, CommitStart, CommitProgress,
                CommitVerdict
  <2>2. /\ UNCHANGED <<sub, can, nextId>> /\ ~WorkHolds(j)'
        /\ \A i \in Jobs : i # j => work'[i] = work[i] /\ events'[i] = events[i]
        /\ \A e \in events'[j] : e \in events[j] \/ e.id = work[j].id
    <3>1. CASE CommitStart(j)
      BY <1>1, <3>1 DEF CommitStart, Worker, Publish, WorkHolds
    <3>2. CASE CommitProgress(j)
      BY <1>1, <3>2 DEF CommitProgress, Worker, Publish, WorkHolds
    <3>3. CASE CommitVerdict(j)
      BY <1>1, <3>3 DEF CommitVerdict, Worker, Publish, WorkHolds
    <3>. QED
      BY <1>8, <3>1, <3>2, <3>3
  <2>3. OneHolder'
    BY <2>2 DEF OrderInv, OneHolder, WorkHolds, CanHolds
  <2>4. /\ \A i \in Jobs : i # j => Undecided(i)' \subseteq Undecided(i)
        /\ work[j].id \in Undecided(j) /\ Undecided(j)' = {}
    BY <2>1, <2>2 DEF Undecided, WorkHolds, CanHolds
  <2>. QED
    BY <1>1, <2>2, <2>3, <2>4, IdsKeep, IdsCommit
<1>9. ASSUME NEW c \in Cancellers, CommitCancel(c)
      PROVE  OneHolder' /\ \A i \in Jobs : IdOK(i)'
  <2>. PICK j \in Jobs : j = can[c].job
    BY <1>1
  <2>1. /\ j \in Jobs /\ sub[j].pc # "marking" /\ ~WorkHolds(j)
        /\ CanHolds(c, j) /\ \A d \in Cancellers : CanHolds(d, j) => d = c
    BY <1>1, <1>9 DEF OrderInv, OneHolder, CanHolds, CommitCancel
  <2>2. /\ UNCHANGED <<sub, work, nextId>> /\ can'[c].pc = "done"
        /\ \A d \in Cancellers : d # c => can'[d] = can[d]
        /\ \A i \in Jobs : i # j => events'[i] = events[i]
        /\ \A e \in events'[j] : e \in events[j] \/ e.id = can[c].id
    BY <1>1, <1>9, <2>1 DEF CommitCancel, Canceller, Publish
  <2>3. OneHolder'
    BY <2>2 DEF OrderInv, OneHolder, WorkHolds, CanHolds
  <2>4. ASSUME NEW i \in Jobs
        PROVE  Undecided(i)' \subseteq Undecided(i)
    BY <2>1, <2>2, UndecidedDef, UndecidedPrime DEF WorkHolds, CanHolds
  <2>5. can[c].id \in Undecided(j) /\ Undecided(j)' = {}
    BY <2>1, <2>2, UndecidedDef, UndecidedPrime DEF WorkHolds, CanHolds
  <2>. QED
    BY <1>1, <2>1, <2>2, <2>3, <2>4, <2>5, IdsKeep, IdsCommit
<1>10. ASSUME UNCHANGED <<events, nextId>>,
              \A j \in Jobs :
                /\ sub'[j] = sub[j] \/ sub'[j].pc # "marking"
                /\ work'[j].id = work[j].id /\ (WorkHolds(j)' => WorkHolds(j)),
              \A c \in Cancellers : can'[c] = can[c] \/ can'[c].pc # "flushed"
       PROVE  OneHolder' /\ \A i \in Jobs : IdOK(i)'
  <2>1. OneHolder'
    BY <1>10 DEF OrderInv, OneHolder, CanHolds
  <2>2. ASSUME NEW i \in Jobs
        PROVE  Undecided(i)' \subseteq Undecided(i)
    BY <1>10, UndecidedDef, UndecidedPrime DEF CanHolds
  <2>. QED
    BY <1>1, <1>10, <2>1, <2>2, IdsKeep
<1>11. ASSUME NEW j \in Jobs, Enqueue(j) \/ ReturnInline(j) \/ SubmitFails(j)
       PROVE  OneHolder' /\ \A i \in Jobs : IdOK(i)'
  BY <1>1, <1>10, <1>11 DEF Enqueue, ReturnInline, SubmitFails, Submitter,
                            WorkHolds, rowVars
<1>12. ASSUME NEW j \in Jobs,
              Begin(j) \/ CreateWorkflow(j) \/ RaiseIfCancelled(j) \/ ApplyPayload(j)
       PROVE  OneHolder' /\ \A i \in Jobs : IdOK(i)'
  <2>1. /\ UNCHANGED <<events, nextId, sub, can>>
        /\ \A i \in Jobs : i # j => work'[i] = work[i]
        /\ work'[j].id = work[j].id /\ ~WorkHolds(j)'
    <3>1. CASE Begin(j)
      BY <1>1, <3>1 DEF Begin, TakeJob, Worker, WorkHolds, rowVars
    <3>2. CASE CreateWorkflow(j)
      BY <1>1, <3>2 DEF CreateWorkflow, Worker, WorkHolds, rowVars
    <3>3. CASE RaiseIfCancelled(j)
      BY <1>1, <3>3 DEF RaiseIfCancelled, AtStep, Worker, WorkHolds, rowVars
    <3>4. CASE ApplyPayload(j)
      BY <1>1, <3>4 DEF ApplyPayload, AtStep, Worker, WorkHolds, rowVars
    <3>. QED
      BY <1>12, <3>1, <3>2, <3>3, <3>4
  <2>. QED
    BY <2>1, <1>10 DEF WorkHolds
<1>13. ASSUME NEW j \in Jobs,
              PayloadReturns(j) \/ MarkWorkflowSucceeded(j)
                \/ MarkWorkflowFailed(j) \/ ReadForVerdict(j)
                \/ AuditNotCreated(j) \/ PayloadRaises(j) \/ AuditRaises(j)
                \/ WorkerCrashes(j)
       PROVE  OneHolder' /\ \A i \in Jobs : IdOK(i)'
  <2>1. /\ UNCHANGED <<events, nextId, can>>
        /\ \A i \in Jobs : i # j => work'[i] = work[i]
        /\ \A i \in Jobs : sub'[i] = sub[i] \/ sub'[i].pc # "marking"
        /\ work'[j].id = work[j].id /\ ~WorkHolds(j)'
    <3>1. CASE PayloadReturns(j)
      BY <1>1, <3>1 DEF PayloadReturns, Worker, WorkHolds, rowVars
    <3>2. CASE MarkWorkflowSucceeded(j)
      BY <1>1, <3>2 DEF MarkWorkflowSucceeded, Worker, WorkHolds, rowVars
    <3>3. CASE MarkWorkflowFailed(j)
      BY <1>1, <3>3 DEF MarkWorkflowFailed, Worker, WorkHolds, rowVars
    <3>4. CASE ReadForVerdict(j)
      BY <1>1, <3>4 DEF ReadForVerdict, Worker, WorkHolds, rowVars
    <3>5. CASE AuditNotCreated(j)
      BY <1>1, <3>5 DEF AuditNotCreated, Worker, WorkHolds, rowVars
    <3>6. CASE PayloadRaises(j)
      BY <1>1, <3>6 DEF PayloadRaises, Worker, WorkHolds, rowVars
    <3>7. CASE AuditRaises(j)
      BY <1>1, <3>7 DEF AuditRaises, Worker, WorkHolds, rowVars
    <3>8. CASE WorkerCrashes(j)
      BY <1>1, <3>8 DEF WorkerCrashes, Submitter, Worker, WorkHolds, rowVars
    <3>. QED
      BY <1>13, <3>1, <3>2, <3>3, <3>4, <3>5, <3>6, <3>7, <3>8
  <2>. QED
    BY <2>1, <1>10 DEF WorkHolds
<1>14. ASSUME NEW c \in Cancellers, ReadForCancel(c) \/ CancelFails(c)
       PROVE  OneHolder' /\ \A i \in Jobs : IdOK(i)'
  <2>1. /\ UNCHANGED <<events, nextId, sub, work>>
        /\ \A d \in Cancellers : d # c => can'[d] = can[d]
        /\ can'[c].pc # "flushed"
    <3>1. CASE ReadForCancel(c)
      BY <1>1, <3>1 DEF ReadForCancel, Canceller, rowVars
    <3>2. CASE CancelFails(c)
      BY <1>1, <3>2 DEF CancelFails, Canceller, rowVars
    <3>. QED
      BY <1>14, <3>1, <3>2
  <2>. QED
    BY <2>1, <1>10 DEF WorkHolds
<1>15. CASE UNCHANGED vars
  BY <1>10, <1>15 DEF vars, rowVars, WorkHolds
<1>. QED
  BY <1>3, <1>4, <1>5, <1>6, <1>7, <1>8, <1>9, <1>11, <1>12, <1>13, <1>14,
     <1>15
  DEF Next, SubmitStep, WorkStep, Failure, CancelStep, Rest

(***************************************************************************)
(* NoEventBehind (JobRuntime): a reader that asks for the events above the *)
(* last id it has seen never misses one.                                   *)
(***************************************************************************)
THEOREM EventsComeInOrder == Spec => []NoEventBehind
<1>1. Init => TypeInv /\ OrderInv
  BY TypeInit, OrderInit
<1>2. TypeInv /\ OrderInv /\ [Next]_vars => TypeInv' /\ OrderInv'
  BY TypeStep, OrderStep
<1>3. OrderInv => NoEventBehind
  BY DEF OrderInv, IdInv, NoEventBehind
<1>. QED
  BY <1>1, <1>2, <1>3, PTL DEF Spec

-----------------------------------------------------------------------------
(***************************************************************************)
(* With one cancellation of a job at most, the UPDATE of whoever records a *)
(* status event changes the row: the canceller read a status it has not    *)
(* itself written, and a verdict repeats what was read only if that is     *)
(* still what the row says.                                                *)
(***************************************************************************)
OneCancellation ==
  \A c, d \in Cancellers : can[c].job = can[d].job => c = d

CancelDone(j) ==
  \E c \in Cancellers : can[c].job = j /\ can[c].pc = "done"

OnceOK(j) ==
  /\ status[j] = "cancel_requested" => CancelDone(j)
  /\ status[j] = "cancelled" /\ work[j].pc # "done" => CancelDone(j)
  /\ work[j].pc \in {"idle", "start", "starting"}
       => status[j] \in {"absent", "queued", "cancelled", "cancel_requested"}
  /\ work[j].pc \in {"start", "starting"}
       => work[j].seen \in {"queued", "cancel_requested"}
  /\ work[j].pc \notin {"idle", "start", "starting", "done", "crashed"}
       => status[j] \in {"running", "cancelled", "cancel_requested"}
  /\ work[j].pc \in {"closing", "finishing"}
       => /\ work[j].seen \in {"running", "cancelled", "cancel_requested"}
          /\ work[j].seen = "cancelled"
               => status[j] = "cancelled" /\ CancelDone(j)

FirstToCancel(c) ==
  can[c].pc \in {"read", "flushed"} => can[c].seen \in {"queued", "running"}

OnceInv == /\ OneCancellation
           /\ \A j \in Jobs : OnceOK(j)
           /\ \A c \in Cancellers : FirstToCancel(c)

Newest(j) ==
  \E e \in StatusEvents(j) \cup {[id |-> 0, type |-> "absent"]} :
    e.type = status[j] /\ \A f \in StatusEvents(j) : f.id <= e.id

\* A step leaves the status and its events alone, or it tells the new status.
Told(j) ==
  \/ status'[j] = status[j] /\ StatusEvents(j)' = StatusEvents(j)
  \/ \E i \in Nat :
       /\ status'[j] \in Statuses
       /\ events'[j] = events[j] \cup {[id |-> i, type |-> status'[j]]}
       /\ \A e \in events[j] : e.id < i

LEMMA NewestStays ==
  ASSUME TypeInv, NEW j \in Jobs, Newest(j), Told(j)
  PROVE  Newest(j)'
<1>1. CASE status'[j] = status[j] /\ StatusEvents(j)' = StatusEvents(j)
  BY <1>1 DEF Newest
<1>2. ASSUME NEW i \in Nat, status'[j] \in Statuses,
             events'[j] = events[j] \cup {[id |-> i, type |-> status'[j]]},
             \A e \in events[j] : e.id < i
      PROVE  Newest(j)'
  <2>. DEFINE e == [id |-> i, type |-> status'[j]]
  <2>1. e \in StatusEvents(j)' /\ e.type = status'[j] /\ e.id = i
    BY <1>2 DEF StatusEvents
  <2>2. ASSUME NEW f \in StatusEvents(j)' PROVE f.id <= i
    <3>1. f = e \/ f \in events[j]
      BY <1>2 DEF StatusEvents
    <3>2. events[j] \subseteq Event
      BY DEF TypeInv, TypeOK
    <3>3. CASE f = e
      BY <3>3
    <3>4. CASE f \in events[j]
      BY <1>2, <3>2, <3>4 DEF Event
    <3>. QED
      BY <3>1, <3>3, <3>4
  <2>. QED
    BY <2>1, <2>2 DEF Newest
<1>. QED
  BY <1>1, <1>2 DEF Told

LEMMA OnceKept ==
  ASSUME NEW j \in Jobs, OnceOK(j), status'[j] = status[j], work'[j] = work[j],
         CancelDone(j) => CancelDone(j)'
  PROVE  OnceOK(j)'
BY DEF OnceOK

LEMMA OnceInit == Init /\ OneCancellation => OnceInv /\ \A j \in Jobs : Newest(j)
<1>. SUFFICES ASSUME Init, OneCancellation
              PROVE  OnceInv /\ \A j \in Jobs : Newest(j)
  OBVIOUS
<1>1. \A c \in Cancellers : can[c].pc = "idle"
  BY DEF Init
<1>2. \A j \in Jobs : /\ status[j] = "absent" /\ events[j] = {}
                      /\ work[j].pc = "idle"
  BY DEF Init
<1>3. ASSUME NEW j \in Jobs PROVE Newest(j)
  <2>. DEFINE e == [id |-> 0, type |-> "absent"]
  <2>1. StatusEvents(j) = {} /\ e.type = status[j]
    BY <1>2 DEF StatusEvents
  <2>2. \E x \in StatusEvents(j) \cup {e} :
          x.type = status[j] /\ \A f \in StatusEvents(j) : f.id <= x.id
    BY <2>1
  <2>. QED
    BY <2>2 DEF Newest
<1>4. \A j \in Jobs : OnceOK(j)
  BY <1>2 DEF OnceOK
<1>. QED
  BY <1>1, <1>3, <1>4 DEF OnceInv, FirstToCancel

LEMMA OnceStep ==
  ASSUME TypeInv, OrderInv, OnceInv, [Next]_vars
  PROVE  OnceInv' /\ \A j \in Jobs : Told(j)
<1>1. /\ work \in [Jobs -> Worker] /\ sub \in [Jobs -> Submitter]
      /\ can \in [Cancellers -> Canceller]
      /\ status \in [Jobs -> Statuses \cup {"absent"}]
      /\ events \in [Jobs -> SUBSET Event] /\ nextId \in [Jobs -> Nat]
      /\ \A c \in Cancellers : can[c].job \in Jobs
      /\ \A j \in Jobs : OnceOK(j)
      /\ \A c \in Cancellers : FirstToCancel(c)
      /\ OneCancellation
  BY DEF TypeInv, TypeOK, Canceller, OnceInv
\* Steps that leave the cancellers alone.
<1>2. ASSUME UNCHANGED can, NEW j \in Jobs, OnceOK(j)', Told(j),
             \A i \in Jobs : i # j => /\ status'[i] = status[i]
                                      /\ work'[i] = work[i]
                                      /\ events'[i] = events[i]
      PROVE  OnceInv' /\ \A i \in Jobs : Told(i)
  <2>1. \A i \in Jobs : CancelDone(i)' = CancelDone(i)
    BY <1>2 DEF CancelDone
  <2>2. OneCancellation' /\ \A c \in Cancellers : FirstToCancel(c)'
    BY <1>1, <1>2 DEF OneCancellation, FirstToCancel
  <2>3. \A i \in Jobs : i # j => OnceOK(i)' /\ Told(i)
    BY <1>1, <1>2, <2>1, OnceKept DEF Told, StatusEvents
  <2>. QED
    BY <1>2, <2>2, <2>3 DEF OnceInv
<1>3. ASSUME NEW j \in Jobs, CreateQueued(j)
      PROVE  OnceInv' /\ \A i \in Jobs : Told(i)
  <2>1. /\ UNCHANGED <<can, work>> /\ work[j].pc = "idle"
        /\ status'[j] = "queued"
        /\ events'[j] = events[j] \cup {[id |-> nextId[j], type |-> "queued"]}
        /\ \A i \in Jobs : i # j => /\ status'[i] = status[i]
                                    /\ events'[i] = events[i]
    BY <1>1, <1>3 DEF CreateQueued, Publish, TypeInv, CreatedFirst
  <2>2. Told(j)
    BY <1>1, <2>1 DEF Told, OrderInv, IdInv, Statuses
  <2>3. OnceOK(j)'
    BY <2>1 DEF OnceOK
  <2>. QED
    BY <1>2, <2>1, <2>2, <2>3
<1>4. ASSUME NEW j \in Jobs,
             Enqueue(j) \/ FlushEnqueued(j) \/ CommitEnqueued(j)
               \/ ReturnInline(j) \/ SubmitFails(j)
      PROVE  OnceInv' /\ \A i \in Jobs : Told(i)
  <2>1. /\ UNCHANGED <<can, work, status>>
        /\ \A e : e \in events'[j] <=>
             \/ e \in events[j]
             \/ CommitEnqueued(j) /\ e = [id |-> sub[j].id, type |-> "enqueued"]
        /\ \A i \in Jobs : i # j => events'[i] = events[i]
    BY <1>1, <1>4 DEF Enqueue, FlushEnqueued, CommitEnqueued, ReturnInline,
                      SubmitFails, Publish, rowVars
  <2>2. \A e : e \in StatusEvents(j)' <=> e \in StatusEvents(j)
    BY <2>1 DEF StatusEvents, Statuses
  <2>3. Told(j)
    BY <2>1, <2>2 DEF Told
  <2>4. OnceOK(j)'
    BY <1>1, <2>1 DEF OnceOK, CancelDone
  <2>. QED
    BY <1>2, <2>1, <2>3, <2>4
<1>5. ASSUME NEW j \in Jobs, Begin(j)
      PROVE  OnceInv' /\ \A i \in Jobs : Told(i)
  <2>1. /\ UNCHANGED <<can, status, events>>
        /\ \A i \in Jobs : i # j => work'[i] = work[i]
        /\ work[j].pc = "idle" /\ sub[j].pc # "new"
        /\ IF status[j] = "cancelled" THEN work'[j].pc = "done"
           ELSE work'[j].pc = "start" /\ work'[j].seen = status[j]
    BY <1>1, <1>5 DEF Begin, TakeJob, Worker, rowVars, TypeInv, CreatedFirst
  <2>2. status[j] # "absent"
    BY <2>1 DEF TypeInv, CreatedFirst
  <2>3. OnceOK(j) /\ CancelDone(j)' = CancelDone(j)
    BY <1>1, <2>1 DEF CancelDone
  <2>4. OnceOK(j)'
    BY <2>1, <2>2, <2>3 DEF OnceOK
  <2>5. Told(j)
    BY <2>1 DEF Told, StatusEvents
  <2>. QED
    BY <1>2, <2>1, <2>4, <2>5
<1>6. ASSUME NEW j \in Jobs, CommitStart(j)
      PROVE  OnceInv' /\ \A i \in Jobs : Told(i)
  <2>1. work[j].seen \in {"queued", "cancel_requested"} /\ WorkHolds(j)
    BY <1>1, <1>6 DEF CommitStart, OnceOK, WorkHolds
  <2>2. /\ UNCHANGED can
        /\ status'[j] = "running" /\ work'[j].pc = "audit"
        /\ events'[j] = events[j] \cup {[id |-> work[j].id, type |-> "running"]}
        /\ \A i \in Jobs : i # j => /\ status'[i] = status[i]
                                    /\ work'[i] = work[i]
                                    /\ events'[i] = events[i]
    BY <1>1, <1>6, <2>1 DEF CommitStart, SetStatus, Written, Publish, Worker
  <2>3. work[j].id \in Nat /\ \A e \in events[j] : e.id < work[j].id
    BY <1>1, <2>1, UndecidedDef DEF OrderInv, IdInv, Worker
  <2>4. Told(j)
    BY <2>2, <2>3 DEF Told, Statuses
  <2>5. OnceOK(j)'
    BY <2>2 DEF OnceOK
  <2>. QED
    BY <1>2, <2>2, <2>4, <2>5
\* The other steps of the worker but for its verdict.
<1>7. ASSUME NEW j \in Jobs,
             FlushStart(j) \/ CreateWorkflow(j) \/ RaiseIfCancelled(j)
               \/ FlushProgress(j) \/ CommitProgress(j) \/ ApplyPayload(j)
               \/ PayloadReturns(j) \/ MarkWorkflowSucceeded(j)
               \/ MarkWorkflowFailed(j) \/ ReadForVerdict(j) \/ FlushVerdict(j)
               \/ AuditNotCreated(j) \/ PayloadRaises(j) \/ AuditRaises(j)
               \/ WorkerCrashes(j)
      PROVE  OnceInv' /\ \A i \in Jobs : Told(i)
  <2>1. /\ UNCHANGED <<can, status>>
        /\ \A i \in Jobs : i # j => /\ work'[i] = work[i]
                                    /\ events'[i] = events[i]
    BY <1>1, <1>7
    DEF FlushStart, CreateWorkflow, RaiseIfCancelled, FlushProgress,
        CommitProgress, ApplyPayload, PayloadReturns, MarkWorkflowSucceeded,
        MarkWorkflowFailed, ReadForVerdict, FlushVerdict, AuditNotCreated,
        PayloadRaises, AuditRaises, WorkerCrashes, Flush, Publish, rowVars
  <2>2. \A e : e \in events'[j] <=>
          \/ e \in events[j]
          \/ CommitProgress(j) /\ e = [id |-> work[j].id, type |-> "progress"]
    BY <1>1, <1>7
    DEF FlushStart, CreateWorkflow, RaiseIfCancelled, FlushProgress,
        CommitProgress, ApplyPayload, PayloadReturns, MarkWorkflowSucceeded,
        MarkWorkflowFailed, ReadForVerdict, FlushVerdict, AuditNotCreated,
        PayloadRaises, AuditRaises, WorkerCrashes, Flush, Publish, rowVars
  <2>3. \A e : e \in StatusEvents(j)' <=> e \in StatusEvents(j)
    BY <2>2 DEF StatusEvents, Statuses
  <2>4. Told(j)
    BY <2>1, <2>3 DEF Told
  <2>. DEFINE Middle == {"audit", "payload", "progressing", "returned",
                         "raised", "finish"}
  <2>5. \/ /\ work[j].pc = "start" /\ work'[j].pc = "starting"
           /\ work'[j].seen = work[j].seen
        \/ work[j].pc \in Middle /\ work'[j].pc \in Middle
        \/ /\ work[j].pc = "finish" /\ work'[j].pc = "closing"
           /\ work'[j].seen = status[j]
        \/ /\ work[j].pc = "closing" /\ work'[j].pc = "finishing"
           /\ work'[j].seen = work[j].seen
        \/ work[j].pc # "done" /\ work'[j].pc = "crashed"
    <3>1. CASE FlushStart(j)
      BY <1>1, <3>1 DEF FlushStart, Flush, Worker
    <3>2. CASE CreateWorkflow(j)
      BY <1>1, <3>2 DEF CreateWorkflow, Worker
    <3>3. CASE AuditNotCreated(j)
      BY <1>1, <3>3 DEF AuditNotCreated, Worker
    <3>4. CASE RaiseIfCancelled(j)
      BY <1>1, <3>4 DEF RaiseIfCancelled, AtStep, Worker
    <3>5. CASE FlushProgress(j)
      BY <1>1, <3>5 DEF FlushProgress, Flush, AtStep, Worker
    <3>6. CASE CommitProgress(j)
      BY <1>1, <3>6 DEF CommitProgress, Worker
    <3>7. CASE ApplyPayload(j)
      BY <1>1, <3>7 DEF ApplyPayload, AtStep, Worker
    <3>8. CASE PayloadRaises(j)
      BY <1>1, <3>8 DEF PayloadRaises, Worker
    <3>9. CASE PayloadReturns(j)
      BY <1>1, <3>9 DEF PayloadReturns, Worker
    <3>10. CASE MarkWorkflowSucceeded(j)
      BY <1>1, <3>10 DEF MarkWorkflowSucceeded, Worker
    <3>11. CASE MarkWorkflowFailed(j)
      BY <1>1, <3>11 DEF MarkWorkflowFailed, Worker
    <3>12. CASE AuditRaises(j)
      BY <1>1, <3>12 DEF AuditRaises, Worker
    <3>13. CASE ReadForVerdict(j)
      BY <1>1, <3>13 DEF ReadForVerdict, Worker
    <3>14. CASE FlushVerdict(j)
      BY <1>1, <3>14 DEF FlushVerdict, Flush, Worker
    <3>15. CASE WorkerCrashes(j)
      BY <1>1, <3>15 DEF WorkerCrashes, Worker
    <3>. QED
      BY <1>7, <3>1, <3>2, <3>3, <3>4, <3>5, <3>6, <3>7, <3>8,
         <3>9, <3>10, <3>11, <3>12, <3>13, <3>14, <3>15
  <2>6. OnceOK(j) /\ CancelDone(j)' = CancelDone(j) /\ status'[j] = status[j]
    BY <1>1, <2>1 DEF CancelDone
  <2>7. OnceOK(j)'
    BY <2>5, <2>6 DEF OnceOK
  <2>. QED
    BY <1>2, <2>1, <2>4, <2>7
<1>8. ASSUME NEW j \in Jobs, CommitVerdict(j)
      PROVE  OnceInv' /\ \A i \in Jobs : Told(i)
  <2>1. /\ work[j].outcome \in {"cancelled", "failed", "succeeded"}
        /\ WorkHolds(j)
    BY <1>1, <1>8 DEF CommitVerdict, TypeInv, WorkConsistent, Worker, Outcome,
                      WorkHolds
  <2>2. /\ work[j].seen \in {"running", "cancelled", "cancel_requested"}
        /\ work[j].seen = "cancelled" => status[j] = "cancelled"
    BY <1>1, <1>8 DEF CommitVerdict, OnceOK
  <2>3. /\ UNCHANGED can
        /\ status'[j] = work[j].outcome /\ work'[j].pc = "done"
        /\ events'[j] =
             events[j] \cup {[id |-> work[j].id, type |-> work[j].outcome]}
        /\ \A i \in Jobs : i # j => /\ status'[i] = status[i]
                                    /\ work'[i] = work[i]
                                    /\ events'[i] = events[i]
    BY <1>1, <1>8, <2>1, <2>2
    DEF CommitVerdict, SetStatus, Written, Publish, Worker
  <2>4. work[j].id \in Nat /\ \A e \in events[j] : e.id < work[j].id
    BY <1>1, <2>1, UndecidedDef DEF OrderInv, IdInv, Worker
  <2>5. Told(j)
    BY <2>1, <2>3, <2>4 DEF Told, Statuses
  <2>6. OnceOK(j)'
    BY <2>1, <2>3 DEF OnceOK
  <2>. QED
    BY <1>2, <2>3, <2>5, <2>6
<1>9. ASSUME NEW c \in Cancellers,
             ReadForCancel(c) \/ FlushCancel(c) \/ CancelFails(c)
      PROVE  OnceInv' /\ \A i \in Jobs : Told(i)
  <2>1. /\ UNCHANGED <<status, events, work>>
        /\ \A d \in Cancellers : d # c => can'[d] = can[d]
        /\ can'[c].job = can[c].job /\ can[c].pc # "done"
        /\ can'[c].pc \in {"read", "flushed"} =>
             \/ can[c].pc \in {"read", "flushed"} /\ can'[c].seen = can[c].seen
             \/ /\ can[c].pc = "idle" /\ can'[c].seen = status[can[c].job]
                /\ can'[c].seen \in {"queued", "running", "cancel_requested"}
    <3>1. CASE ReadForCancel(c)
      BY <1>1, <3>1 DEF ReadForCancel, Canceller, Statuses, Terminal, rowVars
    <3>2. CASE FlushCancel(c)
      BY <1>1, <3>2 DEF FlushCancel, Canceller
    <3>3. CASE CancelFails(c)
      BY <1>1, <3>3 DEF CancelFails, Canceller, rowVars
    <3>. QED
      BY <1>9, <3>1, <3>2, <3>3
  <2>2. \A j \in Jobs : CancelDone(j) => CancelDone(j)'
    BY <2>1 DEF CancelDone
  <2>3. \A j \in Jobs : OnceOK(j)' /\ Told(j)
    BY <1>1, <2>1, <2>2, OnceKept DEF Told, StatusEvents
  <2>4. OneCancellation'
    BY <1>1, <2>1 DEF OneCancellation
  <2>5. can[c].pc = "idle" => status[can[c].job] # "cancel_requested"
    BY <1>1 DEF OnceOK, CancelDone, OneCancellation
  <2>6. \A d \in Cancellers : FirstToCancel(d)'
    BY <1>1, <2>1, <2>5 DEF FirstToCancel
  <2>. QED
    BY <2>3, <2>4, <2>6 DEF OnceInv
<1>10. ASSUME NEW c \in Cancellers, CommitCancel(c)
       PROVE  OnceInv' /\ \A i \in Jobs : Told(i)
  <2>. PICK j \in Jobs : j = can[c].job
    BY <1>1
  <2>. DEFINE new == CancelTo(can[c].seen)
  <2>1. /\ can[c].pc = "flushed" /\ can[c].seen \in {"queued", "running"}
        /\ new \in {"cancelled", "cancel_requested"} /\ new # can[c].seen
    BY <1>1, <1>10 DEF CommitCancel, FirstToCancel, CancelTo
  <2>2. /\ UNCHANGED work
        /\ status'[j] = new
        /\ events'[j] = events[j] \cup {[id |-> can[c].id, type |-> new]}
        /\ \A i \in Jobs : i # j => /\ status'[i] = status[i]
                                    /\ events'[i] = events[i]
        /\ can'[c].pc = "done" /\ can'[c].job = j
        /\ \A d \in Cancellers : d # c => can'[d] = can[d]
    BY <1>1, <1>10, <2>1 DEF CommitCancel, SetStatus, Written, Publish, Canceller
  <2>3. can[c].id \in Nat /\ \A e \in events[j] : e.id < can[c].id
    BY <1>1, <2>1, UndecidedDef DEF OrderInv, IdInv, Canceller, CanHolds
  <2>4. Told(j)
    <3>. HIDE DEF new
    <3>. QED
      BY <2>1, <2>2, <2>3 DEF Told, Statuses
  <2>5. CancelDone(j)' /\ ~CancelDone(j)
    BY <1>1, <2>1, <2>2 DEF CancelDone, OneCancellation
  <2>6. OnceOK(j)'
    <3>. HIDE DEF new
    <3>1. OnceOK(j)
      BY <1>1
    <3>. QED
      BY <2>1, <2>2, <2>5, <3>1 DEF OnceOK
  <2>7. \A i \in Jobs : i # j => OnceOK(i)' /\ Told(i)
    <3>1. \A i \in Jobs : i # j => (CancelDone(i) => CancelDone(i)')
      BY <2>1, <2>2 DEF CancelDone
    <3>. QED
      BY <1>1, <2>2, <3>1, OnceKept DEF Told, StatusEvents
  <2>8. OneCancellation' /\ \A d \in Cancellers : FirstToCancel(d)'
    BY <1>1, <2>2 DEF OneCancellation, FirstToCancel
  <2>. QED
    BY <2>4, <2>6, <2>7, <2>8 DEF OnceInv
<1>11. CASE UNCHANGED vars
  <2>1. UNCHANGED <<can, status, work, events>>
    BY <1>11 DEF vars, rowVars
  <2>2. \A i \in Jobs : CancelDone(i)' = CancelDone(i)
    BY <2>1 DEF CancelDone
  <2>3. \A i \in Jobs : OnceOK(i)' /\ Told(i)
    BY <1>1, <2>1, <2>2, OnceKept DEF Told, StatusEvents
  <2>. QED
    BY <1>1, <2>1, <2>3 DEF OnceInv, OneCancellation, FirstToCancel
<1>. QED
  BY <1>3, <1>4, <1>5, <1>6, <1>7, <1>8, <1>9, <1>10, <1>11
  DEF Next, SubmitStep, WorkStep, Failure, CancelStep, Rest

(***************************************************************************)
(* StatusIsNewestEvent (JobRuntime): where no job is the object of two     *)
(* cancellations, the row and its timeline never contradict each other,    *)
(* for any jobs and payloads, and whatever fails.                          *)
(***************************************************************************)
THEOREM TimelineTellsStatus ==
  Spec /\ OneCancellation => []StatusIsNewestEvent
<1>. DEFINE Inv == TypeInv /\ OrderInv /\ OnceInv /\ \A j \in Jobs : Newest(j)
<1>1. Init /\ OneCancellation => Inv
  BY TypeInit, OrderInit, OnceInit
<1>2. Inv /\ [Next]_vars => Inv'
  <2>1. ASSUME Inv, [Next]_vars PROVE Inv'
    <3>1. TypeInv' /\ OrderInv'
      BY <2>1, TypeStep, OrderStep
    <3>2. OnceInv' /\ \A j \in Jobs : Told(j)
      BY <2>1, OnceStep
    <3>3. \A j \in Jobs : Newest(j)'
      BY <2>1, <3>2, NewestStays
    <3>. QED
      BY <3>1, <3>2, <3>3
  <2>. QED
    BY <2>1
<1>3. Inv => StatusIsNewestEvent
  BY DEF StatusIsNewestEvent, Newest
<1>. HIDE DEF Inv
<1>. QED
  BY <1>1, <1>2, <1>3, PTL DEF Spec

-----------------------------------------------------------------------------
(***************************************************************************)
(* The runtime implements JobOutcome, for every payload that stores its    *)
(* data after its checks: where a pc stands under the refinement mapping,  *)
(* the steps that leave the mapping alone, and what every other one does.  *)
(***************************************************************************)
Executing == {"start", "starting", "audit", "payload", "progressing",
              "returned", "raised", "finish", "closing", "finishing"}

\* What the refinement mapping says, pc by pc.
LEMMA StageIs ==
  ASSUME TypeInv, NEW j \in Jobs
  PROVE  /\ sub[j].pc = "new" => Stage(j) = "none"
         /\ sub[j].pc # "new" /\ work[j].pc = "idle" => Stage(j) = "submitted"
         /\ work[j].pc \in Executing => Stage(j) = "executing"
         /\ work[j].pc = "crashed" => Stage(j) = "lost"
         /\ work[j].pc = "done" /\ work[j].outcome = "none"
              => Stage(j) = "shelved"
         /\ work[j].pc = "done" /\ work[j].outcome # "none"
              => Stage(j) = "decided"
<1>1. sub[j].pc = "new" => work[j].pc = "idle"
  BY DEF TypeInv, CreatedFirst
<1>. QED
  BY <1>1 DEF Stage, Executing

\* A step of one job changes only what the mapping says of that job.
LEMMA OneJob ==
  ASSUME NEW j \in Jobs,
         \A i \in Jobs : i # j => UNCHANGED <<sub[i], work[i]>>
  PROVE  /\ StageOf' = [StageOf EXCEPT ![j] = Stage(j)']
         /\ work[j].pc # "done" /\ work'[j].pc # "done"
              => UNCHANGED VerdictOf
         /\ work'[j].pc = "done"
              => VerdictOf' = [VerdictOf EXCEPT ![j] = work'[j].outcome]
         /\ Stage(j)' = Stage(j) => UNCHANGED StageOf
<1>1. \A i \in Jobs : i # j => Stage(i)' = Stage(i)
  BY DEF Stage
<1>. QED
  BY <1>1 DEF StageOf, VerdictOf

LEMMA SameJobs ==
  ASSUME UNCHANGED work, UNCHANGED applied,
         \A j \in Jobs : sub[j].pc = "new" <=> sub'[j].pc = "new"
  PROVE  UNCHANGED Promise!ovars
<1>1. \A j \in Jobs : Stage(j)' = Stage(j)
  BY DEF Stage
<1>. QED
  BY <1>1 DEF Promise!ovars, StageOf, VerdictOf

LEMMA PromiseInit == Init => Promise!OInit
BY DEF Init, Promise!OInit, StageOf, Stage, VerdictOf

\* The worker's steps from the beginning of the execution to its verdict.
Executes(j) ==
  \/ FlushStart(j) \/ CommitStart(j) \/ CreateWorkflow(j) \/ AuditNotCreated(j)
  \/ RaiseIfCancelled(j) \/ FlushProgress(j) \/ CommitProgress(j)
  \/ PayloadRaises(j) \/ PayloadReturns(j) \/ MarkWorkflowSucceeded(j)
  \/ MarkWorkflowFailed(j) \/ AuditRaises(j) \/ ReadForVerdict(j)
  \/ FlushVerdict(j)

LEMMA PromiseStep ==
  ASSUME TypeInv, TypeInv', AuditInv, [Next]_vars
  PROVE  [Promise!ONext]_(Promise!ovars)
<1>. USE DEF TypeInv
<1>1. ASSUME NEW j \in Jobs, CreateQueued(j)
      PROVE  Promise!Submit(j)
  <2>1. /\ sub[j].pc = "new" /\ sub'[j].pc = "created"
        /\ UNCHANGED <<work, applied>>
        /\ \A i \in Jobs : i # j => UNCHANGED <<sub[i], work[i]>>
    BY <1>1 DEF CreateQueued, TypeOK
  <2>2. work[j].pc = "idle"
    BY <2>1 DEF CreatedFirst
  <2>3. Stage(j) = "none" /\ Stage(j)' = "submitted"
    BY <2>1, <2>2, StageIs DEF Stage
  <2>4. UNCHANGED VerdictOf
    BY <2>1 DEF VerdictOf
  <2>. QED
    BY <2>1, <2>3, <2>4, OneJob DEF Promise!Submit, Promise!Pass, StageOf
<1>2. ASSUME NEW j \in Jobs,
             Enqueue(j) \/ FlushEnqueued(j) \/ CommitEnqueued(j)
               \/ ReturnInline(j) \/ SubmitFails(j)
      PROVE  UNCHANGED Promise!ovars
  <2>1. /\ UNCHANGED <<work, applied>>
        /\ \A i \in Jobs : sub[i].pc = "new" <=> sub'[i].pc = "new"
    BY <1>2 DEF TypeOK, Submitter, Enqueue, FlushEnqueued, CommitEnqueued,
                ReturnInline, SubmitFails
  <2>. QED
    BY <2>1, SameJobs
<1>3. ASSUME NEW j \in Jobs, Begin(j)
      PROVE  Promise!Shelve(j) \/ Promise!Start(j)
  <2>1. /\ work[j].pc = "idle" /\ work[j].outcome = "none"
        /\ UNCHANGED <<sub, applied>>
        /\ sub[j].pc # "new"
        /\ \A i \in Jobs : i # j => UNCHANGED <<sub[i], work[i]>>
    BY <1>3 DEF Begin, TakeJob, TypeOK, CreatedFirst, WorkConsistent
  <2>2. Stage(j) = "submitted"
    BY <2>1, StageIs
  <2>3. CASE status[j] = "cancelled"
    <3>1. work'[j].pc = "done" /\ work'[j].outcome = "none"
      BY <1>3, <2>1, <2>3 DEF Begin, TypeOK, Worker
    <3>2. Stage(j)' = "shelved"
      BY <2>1, <3>1 DEF Stage
    <3>3. UNCHANGED VerdictOf
      BY <2>1, <3>1 DEF VerdictOf
    <3>. QED
      BY <2>1, <2>2, <3>2, <3>3, OneJob
      DEF Promise!Shelve, Promise!Pass, StageOf
  <2>4. CASE status[j] # "cancelled"
    <3>1. work'[j].pc = "start"
      BY <1>3, <2>1, <2>4 DEF Begin, TypeOK, Worker
    <3>2. Stage(j)' = "executing"
      BY <2>1, <3>1 DEF Stage
    <3>3. UNCHANGED VerdictOf
      BY <2>1, <3>1 DEF VerdictOf
    <3>. QED
      BY <2>1, <2>2, <3>2, <3>3, OneJob
      DEF Promise!Start, Promise!Pass, StageOf
  <2>. QED
    BY <2>3, <2>4
<1>4. ASSUME NEW j \in Jobs, Executes(j)
      PROVE  UNCHANGED Promise!ovars
  <2>1. work \in [Jobs -> Worker] /\ UNCHANGED <<sub, applied>>
    BY <1>4 DEF Executes, TypeOK, FlushStart, CommitStart, CreateWorkflow,
                AuditNotCreated, RaiseIfCancelled, FlushProgress,
                CommitProgress, PayloadRaises, PayloadReturns,
                MarkWorkflowSucceeded, MarkWorkflowFailed, AuditRaises,
                ReadForVerdict, FlushVerdict, Flush
  <2>2. /\ work[j].pc \in Executing
        /\ \E w \in {v \in Worker : v.pc \in Executing} :
             work' = [work EXCEPT ![j] = w]
    <3>. work'[j] \in Worker
      BY DEF TypeOK
    <3>1. CASE FlushStart(j) \/ FlushProgress(j) \/ FlushVerdict(j)
      BY <3>1, <2>1 DEF FlushStart, FlushProgress, FlushVerdict, Flush, AtStep,
                        Executing, Worker
    <3>2. CASE \/ CommitStart(j) \/ CreateWorkflow(j) \/ AuditNotCreated(j)
               \/ RaiseIfCancelled(j) \/ CommitProgress(j)
      BY <3>2, <2>1 DEF CommitStart, CreateWorkflow, AuditNotCreated, AtStep,
                        RaiseIfCancelled, CommitProgress, Executing, Worker
    <3>3. CASE \/ PayloadRaises(j) \/ PayloadReturns(j) \/ AuditRaises(j)
               \/ MarkWorkflowSucceeded(j) \/ MarkWorkflowFailed(j)
               \/ ReadForVerdict(j)
      BY <3>3, <2>1 DEF PayloadRaises, PayloadReturns, AuditRaises,
                        MarkWorkflowSucceeded, MarkWorkflowFailed,
                        ReadForVerdict, Executing, Worker
    <3>. QED
      BY <1>4, <3>1, <3>2, <3>3 DEF Executes
  <2>3. /\ work[j].pc \in Executing /\ work'[j].pc \in Executing
        /\ UNCHANGED <<sub, applied>>
        /\ \A i \in Jobs : i # j => UNCHANGED <<sub[i], work[i]>>
    BY <2>1, <2>2
  <2>4. sub[j].pc # "new"
    BY <2>3 DEF CreatedFirst, Executing
  <2>5. Stage(j) = "executing" /\ Stage(j)' = "executing"
    BY <2>3, <2>4 DEF Stage, Executing
  <2>. QED
    BY <2>3, <2>5, OneJob DEF Executing, Promise!ovars
<1>5. ASSUME NEW j \in Jobs, ApplyPayload(j)
      PROVE  Promise!Store(j)
  <2>1. /\ work[j].pc = "payload" /\ work'[j].pc = "payload"
        /\ UNCHANGED sub /\ applied' = [applied EXCEPT ![j] = TRUE]
        /\ \A i \in Jobs : i # j => UNCHANGED <<sub[i], work[i]>>
    BY <1>5 DEF ApplyPayload, AtStep, TypeOK, Worker
  <2>2. sub[j].pc # "new"
    BY <2>1 DEF CreatedFirst
  <2>3. Stage(j) = "executing" /\ Stage(j)' = "executing"
    BY <2>1, <2>2 DEF Stage
  <2>. QED
    BY <2>1, <2>3, OneJob DEF Promise!Store, StageOf
<1>6. ASSUME NEW j \in Jobs, CommitVerdict(j)
      PROVE  Promise!Decide(j)
  <2>1. /\ work[j].pc = "finishing" /\ work'[j].pc = "done"
        /\ work'[j].outcome = work[j].outcome
        /\ UNCHANGED <<sub, applied>>
        /\ \A i \in Jobs : i # j => UNCHANGED <<sub[i], work[i]>>
    BY <1>6 DEF CommitVerdict, TypeOK, Worker
  <2>2. work[j].outcome \in Promise!Verdicts
    BY <2>1 DEF WorkConsistent, TypeOK, Worker, Outcome, Promise!Verdicts
  <2>3. /\ work[j].outcome = "succeeded" => applied[j]
        /\ work[j].outcome = "cancelled" => ~applied[j]
    BY DEF AuditInv, AuditOK
  <2>4. sub[j].pc # "new"
    BY <2>1 DEF CreatedFirst
  <2>5. Stage(j) = "executing" /\ Stage(j)' = "decided"
    BY <2>1, <2>2, <2>4 DEF Stage, Promise!Verdicts
  <2>6. /\ StageOf[j] = "executing"
        /\ StageOf' = [StageOf EXCEPT ![j] = "decided"]
        /\ VerdictOf' = [VerdictOf EXCEPT ![j] = work[j].outcome]
    BY <2>1, <2>5, OneJob DEF StageOf
  <2>. QED
    BY <2>1, <2>2, <2>3, <2>6 DEF Promise!Decide, Promise!Pass
<1>7. ASSUME NEW j \in Jobs, WorkerCrashes(j)
      PROVE  Promise!Lose(j)
  <2>1. /\ work[j].pc \in Executing /\ work'[j].pc = "crashed"
        /\ UNCHANGED applied
        /\ \A i \in Jobs : i # j => UNCHANGED <<sub[i], work[i]>>
    BY <1>7 DEF WorkerCrashes, Executing, TypeOK, Worker, WorkPc
  <2>2. sub[j].pc # "new"
    BY <2>1 DEF CreatedFirst, Executing
  <2>3. sub'[j].pc # "new"
    BY <1>7, <2>2 DEF WorkerCrashes, TypeOK, Submitter
  <2>4. Stage(j) = "executing" /\ Stage(j)' = "lost"
    BY <2>1, <2>2, <2>3 DEF Stage, Executing
  <2>. QED
    BY <2>1, <2>4, OneJob DEF Promise!Lose, Promise!Pass, StageOf, Executing
<1>8. ASSUME NEW c \in Cancellers,
             ReadForCancel(c) \/ CancelStep(c) \/ CancelFails(c)
      PROVE  UNCHANGED Promise!ovars
  BY <1>8, SameJobs DEF ReadForCancel, CancelStep, FlushCancel, CommitCancel,
                        CancelFails
<1>9. ASSUME UNCHANGED vars
      PROVE  UNCHANGED Promise!ovars
  BY <1>9, SameJobs DEF vars
<1>10. ASSUME NEW j \in Jobs, SubmitStep(j) \/ WorkStep(j) \/ Failure(j)
       PROVE  [Promise!ONext]_(Promise!ovars)
  BY <1>1, <1>2, <1>3, <1>4, <1>5, <1>6, <1>7, <1>10
  DEF SubmitStep, WorkStep, Failure, Executes, Promise!ONext
<1>. QED
  BY <1>8, <1>9, <1>10 DEF Next, Rest

(***************************************************************************)
(* KeepsPromise (JobRefinement): the runtime implements JobOutcome.        *)
(***************************************************************************)
THEOREM RuntimeKeepsPromise ==
  ASSUME EveryPayloadApplies, ChecksComeFirst
  PROVE  Spec => KeepsPromise
<1>1. Init => TypeInv /\ AuditInv
  BY TypeInit, AuditInit
<1>2. TypeInv /\ AuditInv /\ [Next]_vars => TypeInv' /\ AuditInv'
  BY TypeStep, AuditStep
<1>3. TypeInv /\ TypeInv' /\ AuditInv /\ [Next]_vars
        => [Promise!ONext]_(Promise!ovars)
  BY PromiseStep
<1>. QED
  BY <1>1, <1>2, <1>3, PromiseInit, PTL DEF Spec, KeepsPromise, Promise!OSpec
=============================================================================
