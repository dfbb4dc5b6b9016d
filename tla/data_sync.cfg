\* Two syncs and an import of one symbol, on either database.
SPECIFICATION FairSpec
CONSTANTS
  s1 = s1
  s2 = s2
  m1 = m1
  Syncs = {s1, s2}
  Imports = {m1}
  Dates = {1, 2}
  Closes = {1, 2}
  Answers <- MCAnswers
  Databases = {"postgresql", "sqlite"}
CHECK_DEADLOCK FALSE
INVARIANTS TypeOK VerdictIsTrue NoWaitCycle
PROPERTIES FreshAfterSync SyncEnds
