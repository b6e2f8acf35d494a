\* Two overlapping runs of process_notification_queue and one retrier.
SPECIFICATION Spec
CONSTANTS
  Rows = {n1, n2}
  Workers = {w1, w2}
  Retriers = {r1}
  MaxAttempts = 2
  BatchSize = 2
  MaxFaults = 1
  NoRow = NoRow
SYMMETRY Interchangeable
INVARIANTS TypeOK AttemptsBounded ProcessingHasWorker LogAccountsForTries
CHECK_DEADLOCK FALSE
