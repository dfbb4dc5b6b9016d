---------------------------- MODULE MCJobRuntime ----------------------------
(* Instances of JobRuntime for TLC: one job of each kind.                  *)
EXTENDS JobRefinement, TLC
CONSTANTS c1, c2

MCJobs    == {"tick", "sync", "inline"}
MCInline  == {"inline"}
MCPayload == [j \in MCJobs |-> IF j = "sync" THEN SyncPayload(1)
                               ELSE SinglePayload]

MCCancellers == {c1, c2}
MCSymmetry   == Permutations(MCCancellers)
=============================================================================
