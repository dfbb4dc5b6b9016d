\* One sync alone on SQLite.
SPECIFICATION Spec
CONSTANTS
  s1 = s1
  s2 = s2
  m1 = m1
  Syncs = {s1}
  Imports = {}
  Dates = {1, 2}
  Closes = {1, 2}
  Answers <- MCAnswers
  Databases = {"sqlite"}
CHECK_DEADLOCK FALSE
INVARIANT FailsForCause
