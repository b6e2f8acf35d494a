\* Two requests in the limiter at a time; Redis and handlers may fail.
SPECIFICATION Spec
CONSTANTS
  Requests = {r1, r2, r3, r4}
  Limit = 2
  Window = 3
  MaxClock = 8
  InFlight = 2
  MaxDelay = 2
SYMMETRY AnyRequest
INVARIANTS RefusedOnlyAtLimit SecondsWithinLimit
PROPERTIES RetryAfterSuffices
CHECK_DEADLOCK FALSE
