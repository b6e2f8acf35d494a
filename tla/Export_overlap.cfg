\* One job, two sources; one retry; two of: a fault, a loss or redelivery, a deletion.
SPECIFICATION FairSpec
CONSTANTS
  Jobs = {j1}
  Workers = {w1, w2}
  Sources = 2
  MaxRetries = 1
  MaxFaults = 1
  MaxLosses = 1
  MaxDeletes = 1
  MaxTroubles = 2
  NoJob = NoJob
  NoRow = NoRow
INVARIANTS CompletedHasItsFiles CountedFilesExist OneAttemptDownloads
PROPERTIES CompletedIsFinal EndsOrIsLost
CHECK_DEADLOCK FALSE
