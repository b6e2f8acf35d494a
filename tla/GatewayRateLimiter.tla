-------------------------- MODULE GatewayRateLimiter --------------------------
(***************************************************************************)
(* RateLimitMiddleware of the API gateway, for one client and one limit    *)
(* type: they share one Redis key, a sorted set of times of requests.      *)
(* Every Redis command is atomic and is awaited, so the requests that are  *)
(* under way, in any number of server processes, interleave at each of     *)
(* them.  A tick of the clock is a second.                                 *)
(***************************************************************************)
EXTENDS Naturals, FiniteSets

CONSTANTS Requests,   \* the requests of the client
          Limit,      \* requests allowed ...
          Window,     \* ... in so many seconds
          MaxClock,   \* bound: the clock stops here
          InFlight,   \* bound: requests in the limiter at a time
          MaxDelay    \* bound: seconds a request spends in the limiter

ASSUME LimitAssumption == Limit \in Nat \ {0}
ASSUME WindowAssumption == Window \in Nat \ {0}
ASSUME DelayAssumption == MaxDelay \in Nat /\ MaxDelay < Window

VARIABLES clock,
          zset,       \* the times in the sorted set: its members are the times,
                      \* as strings, so a time is in it once
          expires,    \* when the key expires, 0 if no time to live is set
          pc,         \* [Requests -> control point in dispatch]
          now,        \* [Requests -> the time read at the start]
          retryAfter, \* [Requests -> the Retry-After header of a refusal]
          calls,      \* [Requests -> how often its handler was called]
          recorded,   \* for the properties: requests that were added to the set
          calm        \* for the properties: so far no two requests were in the limiter
                      \* at a time, each was out within a second, and nothing failed

vars == <<clock, zset, expires, pc, now, retryAfter, calls, recorded, calm>>

Limiting == {"trim", "count", "refuse", "add", "expire"}
Points == Limiting \cup {"new", "forward", "again", "answered", "refused"}

TypeOK ==
  /\ clock \in Nat
  /\ zset \subseteq 1..clock
  /\ expires \in Nat
  /\ pc \in [Requests -> Points]
  /\ now \in [Requests -> 0..clock]
  /\ retryAfter \in [Requests -> 0..(Window + MaxDelay)]
  /\ calls \in [Requests -> 0..2]
  /\ recorded \subseteq Requests
  /\ calm \in BOOLEAN

\* The clock starts late enough for a full window to lie behind it.
Init ==
  /\ clock = Window + 1
  /\ zset = {}
  /\ expires = 0
  /\ pc = [r \in Requests |-> "new"]
  /\ now = [r \in Requests |-> 0]
  /\ retryAfter = [r \in Requests |-> 0]
  /\ calls = [r \in Requests |-> 0]
  /\ recorded = {}
  /\ calm = TRUE

-----------------------------------------------------------------------------
(* _check_rate_limit *)

InLimiter == {q \in Requests : pc[q] \in Limiting}

Arrive(r) ==
  /\ pc[r] = "new"
  /\ Cardinality(InLimiter) < InFlight
  /\ calm' = (calm /\ InLimiter = {})
  /\ now' = [now EXCEPT ![r] = clock]
  /\ pc' = [pc EXCEPT ![r] = "trim"]
  /\ UNCHANGED <<clock, zset, expires, retryAfter, calls, recorded>>

\* Mutant: the oldest second of the window is kept one second too long.
TrimLate(r) ==
  /\ pc[r] = "trim"
  /\ zset' = {s \in zset : s + 1 > now[r] - Window}
  /\ pc' = [pc EXCEPT ![r] = "count"]
  /\ UNCHANGED <<clock, expires, now, retryAfter, calls, recorded, calm>>

\* zremrangebyscore(key, 0, now - window)
Trim(r) ==
  /\ pc[r] = "trim"
  /\ zset' = {s \in zset : s > now[r] - Window}
  /\ pc' = [pc EXCEPT ![r] = "count"]
  /\ UNCHANGED <<clock, expires, now, retryAfter, calls, recorded, calm>>

\* Mutant: one request more is let through.
CountOneMore(r) ==
  /\ pc[r] = "count"
  /\ pc' = [pc EXCEPT ![r] = IF Cardinality(zset) > Limit THEN "refuse" ELSE "add"]
  /\ UNCHANGED <<clock, zset, expires, now, retryAfter, calls, recorded, calm>>

\* zcard(key)
Count(r) ==
  /\ pc[r] = "count"
  /\ pc' = [pc EXCEPT ![r] = IF Cardinality(zset) >= Limit THEN "refuse" ELSE "add"]
  /\ UNCHANGED <<clock, zset, expires, now, retryAfter, calls, recorded, calm>>

Oldest == CHOOSE s \in zset : \A t \in zset : s <= t

\* Mutant: Retry-After is a second short.
RefuseTooShort(r) ==
  /\ pc[r] = "refuse"
  /\ pc' = [pc EXCEPT ![r] = "refused"]
  /\ retryAfter' = [retryAfter EXCEPT ![r] = IF zset = {} THEN Window
                                             ELSE Oldest + Window - (now[r] + 1)]
  /\ UNCHANGED <<clock, zset, expires, now, calls, recorded, calm>>

\* zrange(key, 0, 0), and the 429 answer.
Refuse(r) ==
  /\ pc[r] = "refuse"
  /\ pc' = [pc EXCEPT ![r] = "refused"]
  /\ retryAfter' = [retryAfter EXCEPT ![r] = IF zset = {} THEN Window
                                             ELSE Oldest + Window - now[r]]
  /\ UNCHANGED <<clock, zset, expires, now, calls, recorded, calm>>

\* zadd(key, {str(now): now})
Add(r) ==
  /\ pc[r] = "add"
  /\ zset' = zset \cup {now[r]}
  /\ recorded' = recorded \cup {r}
  /\ pc' = [pc EXCEPT ![r] = "expire"]
  /\ UNCHANGED <<clock, expires, now, retryAfter, calls, calm>>

\* Mutant: the time to live is set with the first request only.
SetExpiryOnce(r) ==
  /\ pc[r] = "expire"
  /\ expires' = IF expires = 0 THEN clock + Window ELSE expires
  /\ pc' = [pc EXCEPT ![r] = "forward"]
  /\ UNCHANGED <<clock, zset, now, retryAfter, calls, recorded, calm>>

\* expire(key, window), and the last zrange, which is only for a header.
SetExpiry(r) ==
  /\ pc[r] = "expire"
  /\ expires' = IF zset = {} THEN 0 ELSE clock + Window
  /\ pc' = [pc EXCEPT ![r] = "forward"]
  /\ UNCHANGED <<clock, zset, now, retryAfter, calls, recorded, calm>>

\* A Redis command fails: the request passes.
CheckFails(r) ==
  /\ pc[r] \in Limiting
  /\ pc' = [pc EXCEPT ![r] = "forward"]
  /\ calm' = FALSE
  /\ UNCHANGED <<clock, zset, expires, now, retryAfter, calls, recorded>>

-----------------------------------------------------------------------------
(* dispatch *)

\* call_next.  When the handler raises, the except clause that is meant for the
\* limiter calls it again.
Forward(r) ==
  /\ pc[r] \in {"forward", "again"}
  /\ calls' = [calls EXCEPT ![r] = @ + 1]
  /\ \/ pc' = [pc EXCEPT ![r] = "answered"]
     \/ pc' = [pc EXCEPT ![r] = IF pc[r] = "forward" THEN "again" ELSE "answered"]
  /\ UNCHANGED <<clock, zset, expires, now, retryAfter, recorded, calm>>

-----------------------------------------------------------------------------
\* The clock, and the key that Redis drops when its time is up.
Tick ==
  /\ clock < MaxClock
  /\ \A r \in InLimiter : clock < now[r] + MaxDelay
  /\ calm' = (calm /\ InLimiter = {})
  /\ clock' = clock + 1
  /\ IF expires # 0 /\ expires <= clock + 1
     THEN zset' = {} /\ expires' = 0
     ELSE UNCHANGED <<zset, expires>>
  /\ UNCHANGED <<pc, now, retryAfter, calls, recorded>>

Step(r) ==
  \/ Arrive(r) \/ Trim(r) \/ Count(r) \/ Refuse(r) \/ Add(r) \/ SetExpiry(r)
  \/ CheckFails(r) \/ Forward(r)

Next == Tick \/ \E r \in Requests : Step(r)

Spec == Init /\ [][Next]_vars

-----------------------------------------------------------------------------
(* Properties. *)

\* The requests that were recorded in the window that ends at time t.
RecordedIn(t) == {r \in recorded : now[r] > t - Window /\ now[r] <= t}

\* The client is refused only when it really has made Limit requests in the
\* window before, or while the refused one was in the limiter.  The set never
\* keeps a request that is out of the window, whatever the other processes add
\* and trim between two commands of this one and whatever fails.
RefusedOnlyAtLimit ==
  \A r \in Requests : pc[r] \in {"refuse", "refused"} =>
    Cardinality({q \in recorded : now[q] > now[r] - Window}) >= Limit

\* As long as all is calm the client gets through in at most Limit seconds of any
\* window: the key does not expire, and nothing is trimmed, while it still counts.
SecondsWithinLimit ==
  calm => \A t \in 1..clock : Cardinality({now[r] : r \in RecordedIn(t)}) <= Limit

\* As long as all is calm, a client that waits for as long as Retry-After says
\* finds room: by then fewer than Limit of the times that are in the set now still
\* count.
RetryAfterSuffices ==
  [][\A r \in Requests : calm /\ pc[r] = "refuse" /\ pc'[r] = "refused" =>
       Cardinality({s \in zset : s > now[r] + retryAfter'[r] - Window}) < Limit]_vars

\* "Fail open - allow request if rate limiting fails": a request is handed on
\* once, through the limiter or past it.
HandledOnce == \A r \in Requests : calls[r] <= 1
=============================================================================
