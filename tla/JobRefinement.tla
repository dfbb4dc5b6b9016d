---------------------------- MODULE JobRefinement ----------------------------
(***************************************************************************)
(* The job runtime keeps the promise of JobOutcome.  Where a job stands is *)
(* read off its submitter and its worker; its verdict is the one of the    *)
(* closing transaction, not what cancellations may have made of the row.   *)
(***************************************************************************)
EXTENDS JobRuntime

Stage(j) ==
  CASE sub[j].pc = "new"       -> "none"
    [] sub[j].pc # "new" /\ work[j].pc = "idle" -> "submitted"
    [] work[j].pc = "done" /\ work[j].outcome = "none" -> "shelved"
    [] work[j].pc = "done" /\ work[j].outcome # "none" -> "decided"
    [] work[j].pc = "crashed"  -> "lost"
    [] OTHER                   -> "executing"

StageOf   == [j \in Jobs |-> Stage(j)]
VerdictOf == [j \in Jobs |-> IF work[j].pc = "done" THEN work[j].outcome
                             ELSE "none"]

Promise == INSTANCE JobOutcome
             WITH stage <- StageOf, data <- applied, verdict <- VerdictOf

(***************************************************************************)
(* Every behaviour of the runtime, with its races between submitter,       *)
(* worker and cancellations, its failures and its crashes, is one of       *)
(* JobOutcome: no job is executed twice or revived after it was shelved,   *)
(* none stores data after its verdict, and no verdict is untrue.           *)
(***************************************************************************)
KeepsPromise == Promise!OSpec
=============================================================================
