SPECIFICATION Spec
CONSTANTS
  HoursPerDay = 1
  LastHour = 1
  MaxLogs = 2
  MaxRetries = 1
  MaxIncidents = 0
  Manual = Manual
  Daily = Daily
  NoSnap = NoSnap
INVARIANT DailyIsSumOfHours
CHECK_DEADLOCK FALSE
