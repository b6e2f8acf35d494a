SPECIFICATION Spec
CONSTANTS
  Rows = {n1}
  Workers = {w1, w2}
  Retriers = {r1}
  MaxAttempts = 2
  BatchSize = 2
  MaxFaults = 0
  NoRow = NoRow
PROPERTY OnlyPendingIsProcessed
CHECK_DEADLOCK FALSE
