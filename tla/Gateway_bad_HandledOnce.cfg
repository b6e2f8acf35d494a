\* One request whose handler raises.
SPECIFICATION Spec
CONSTANTS
  Requests = {r1}
  Limit = 2
  Window = 3
  MaxClock = 8
  InFlight = 1
  MaxDelay = 2
SYMMETRY AnyRequest
INVARIANTS HandledOnce
CHECK_DEADLOCK FALSE
