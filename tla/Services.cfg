SPECIFICATION Spec
CONSTANTS
  Requests = {r1, r2}
  r1 = r1
  r2 = r2
  NoEntry = NoEntry
  GatewayTTL = 1
  FunctionTTL = 2
  MaxDelay = 1
  MaxClock = 5
  Services <- DashboardServices
  Routes <- AllRoutes
  Users = {u1}
  strict = strict
  lenient = lenient
  Actions <- MCActions
  Limits <- MCLimits
  Period = 2
  MaxTicks = 5
  MaxResets = 1
SYMMETRY SameRequests
CHECK_DEADLOCK FALSE
INVARIANTS
  ServicesTypeOK
  AgeBounded
  DroppedValuesFade
  OnlyTheOpenerSurvives
  EndedHoldsNothing
  ErrorLeavesNothing
  DoneIsStored
  ChosenStatusArrives
  TaskFindsItsRow
PROPERTIES
  FailureSticks
  KeepsLimit
