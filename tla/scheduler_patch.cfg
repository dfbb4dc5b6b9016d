\* One schedule, a PATCH at any point, callers whose now is off by one.
CONSTANTS
  r1 = r1
  r2 = r2
  Runners <- MCRunners
  Schedules = {1}
  Intervals = {1}
  Lease = 3
  Skew = 1
  Prompt = TRUE
  MaxTime = 3
  MaxPatches = 1
SPECIFICATION Spec
SYMMETRY MCSymmetry
INVARIANTS TypeOK LeaseExclusive SubmittedOnce
