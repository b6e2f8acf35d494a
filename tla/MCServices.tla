----------------------------- MODULE MCServices -----------------------------
(***************************************************************************)
(* One run for four models that share no variable: the caches, the session *)
(* and the handler of a request, and the limiter of WebSocket messages.    *)
(* inUse says which of them moves; the others rest in one initial state.   *)
(***************************************************************************)
EXTENDS CacheLayers, DashboardReads, DashboardRoutes, WebSocketRateLimiter

CONSTANTS strict, lenient

MCActions == {strict, lenient}
MCLimits == strict :> 1 @@ lenient :> 2

VARIABLE inUse

vars == <<inUse, cacheVars, sessionVars, requestVars, limiterVars>>

Init ==
  /\ CacheInit /\ SessionInit /\ RequestInit /\ LimiterInit
  /\ inUse \in {"cache", "session", "request", "limiter"}
  /\ inUse # "session" => service = "funnel"
  /\ inUse # "request" => route = ListAvailableViews

CacheStep ==
  /\ inUse = "cache" /\ CacheNext
  /\ UNCHANGED <<inUse, sessionVars, requestVars, limiterVars>>
SessionStep ==
  /\ inUse = "session" /\ SessionNext
  /\ UNCHANGED <<inUse, cacheVars, requestVars, limiterVars>>
RequestStep ==
  /\ inUse = "request" /\ RequestNext
  /\ UNCHANGED <<inUse, cacheVars, sessionVars, limiterVars>>
LimiterStep ==
  /\ inUse = "limiter" /\ LimiterNext
  /\ UNCHANGED <<inUse, cacheVars, sessionVars, requestVars>>

Next == CacheStep \/ SessionStep \/ RequestStep \/ LimiterStep
Spec == Init /\ [][Next]_vars

SameRequests == Permutations(Requests)

\* The variables of the four models have their types; the lists of the limiter
\* stay within its limits.
ServicesTypeOK == CacheTypeOK /\ SessionTypeOK /\ RequestTypeOK /\ LimiterTypeOK
=============================================================================
