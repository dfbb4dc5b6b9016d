\* A call may outlive its lease.
CONSTANTS
  r1 = r1
  r2 = r2
  Runners <- MCRunners
  Schedules = {1}
  Intervals = {1}
  Lease = 2
  Skew = 0
  Prompt = FALSE
  MaxTime = 4
  MaxPatches = 0
SPECIFICATION Spec
SYMMETRY MCSymmetry
INVARIANT LiveLeaseExclusive
