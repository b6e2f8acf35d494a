SPECIFICATION Spec
CONSTANTS
  HoursPerDay = 3
  LastHour = 1
  MaxLogs = 2
  MaxRetries = 1
  MaxIncidents = 2
  Manual = Manual
  Daily = Daily
  NoSnap = NoSnap
INVARIANTS TypeOK TotalsAreFinal
PROPERTIES OnlyOtherTasksSetBack HourIsRolledUp
CHECK_DEADLOCK FALSE
