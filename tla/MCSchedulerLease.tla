-------------------------- MODULE MCSchedulerLease --------------------------
(* Small instances of SchedulerLease for TLC. *)
EXTENDS SchedulerLease, TLC

CONSTANTS r1, r2

MCRunners  == {r1, r2}
MCSymmetry == Permutations(MCRunners)
=============================================================================
