\* One run of each task at a time, under fairness.
SPECIFICATION FairSpec
CONSTANTS
  Rows = {n1, n2, n3}
  Workers = {w1}
  Retriers = {r1}
  MaxAttempts = 2
  BatchSize = 2
  MaxFaults = 2
  NoRow = NoRow
INVARIANT TriesWithinLimit
PROPERTIES NothingAfterYes KeepsContract Settles
CHECK_DEADLOCK FALSE
