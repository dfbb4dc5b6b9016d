\* Two schedules, two runners, crashes; every call ends within its lease.
CONSTANTS
  r1 = r1
  r2 = r2
  Runners <- MCRunners
  Schedules = {1, 2}
  Intervals = {1}
  Lease = 2
  Skew = 0
  Prompt = TRUE
  MaxTime = 2
  MaxPatches = 0
SPECIFICATION Spec
SYMMETRY MCSymmetry
INVARIANTS LeaseExclusive SubmittedOnce LeaseHeld
PROPERTY NextRunNeverGoesBack
