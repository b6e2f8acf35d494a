---------------------------- MODULE CacheLayers ----------------------------
(***************************************************************************)
(* The two caches a dashboard request passes: CacheMiddleware of the       *)
(* gateway keeps whole responses by path and query, and the decorator      *)
(* @cached keeps the result of the service function.  Both are in Redis.   *)
(*                                                                         *)
(* A value is the time at which the function read the database, which is   *)
(* all that tells an old answer from a new one.  When a query fails the    *)
(* function returns safe defaults: a value like any other, and cached like *)
(* any other.  A step of a request is one Redis command or the function.   *)
(***************************************************************************)
EXTENDS Naturals

CONSTANTS
  Requests,    \* requests that can be under way at a time
  GatewayTTL,  \* seconds a response is kept
  FunctionTTL, \* seconds a result is kept
  MaxDelay,    \* bound: a request takes at most so long
  MaxClock,    \* bound on the clock
  NoEntry

ASSUME CacheAssumption ==
  /\ GatewayTTL \in Nat \ {0} /\ FunctionTTL \in Nat \ {0}
  /\ MaxDelay \in Nat /\ MaxClock \in Nat

VARIABLES
  now,          \* the time
  entry,        \* the keys in Redis
  req,          \* the requests
  invalidated,  \* history: when the function's entry was last dropped
  raced         \* history: a result was about to be stored at that time

cacheVars == <<now, entry, req, invalidated, raced>>

\* What a client asks for: the dashboard, the dashboard with skip_cache=true
\* (another query, so another key of the gateway), or the file of an export.
Kinds == {"plain", "skip", "file"}
Keys == Kinds \cup {"function"}
Steps == {"idle", "gatewayGet", "functionGet", "compute", "functionSet", "gatewaySet", "answered"}

NoRequest == [at |-> "idle", kind |-> "plain", since |-> 0, val |-> 0, age |-> 0, body |-> TRUE]

CacheInit ==
  /\ now = 0
  /\ entry = [k \in Keys |-> NoEntry]
  /\ req = [r \in Requests |-> NoRequest]
  /\ invalidated = 0
  /\ raced = FALSE

Live(k) == entry[k] # NoEntry /\ now < entry[k].until
\* Mutant: SET without EX.
StoreForEver(k, v) == entry' = [entry EXCEPT ![k] = [val |-> v, until |-> MaxClock + 1]]
Store(k, v) ==
  entry' = [entry EXCEPT ![k] =
    [val |-> v, until |-> now + (IF k = "function" THEN FunctionTTL ELSE GatewayTTL)]]

Goto(r, step) == req' = [req EXCEPT ![r].at = step]
Answer(r, v) == req' = [req EXCEPT ![r].at = "answered", ![r].val = v, ![r].age = now - v]

-----------------------------------------------------------------------------
Arrive(r) ==
  /\ req[r].at = "idle"
  /\ \E k \in Kinds :
       req' = [req EXCEPT ![r] = [at |-> "gatewayGet", kind |-> k, since |-> now, val |-> 0,
                                  age |-> 0, body |-> TRUE]]
  /\ UNCHANGED <<now, entry, invalidated, raced>>

\* The function the route calls: with skip_cache the decorator steps aside.
AfterMiss(k) == IF k = "plain" THEN "functionGet" ELSE "compute"

\* A hit is answered without calling the route.  An error of Redis is a miss.
GatewayGet(r) ==
  /\ req[r].at = "gatewayGet"
  /\ \/ Live(req[r].kind) /\ Answer(r, entry[req[r].kind].val)
     \/ ~Live(req[r].kind) /\ Goto(r, AfterMiss(req[r].kind))
     \/ Goto(r, AfterMiss(req[r].kind))                   \* Redis fails
  /\ UNCHANGED <<now, entry, invalidated, raced>>

FunctionGet(r) ==
  /\ req[r].at = "functionGet"
  /\ \/ /\ Live("function")
        /\ req' = [req EXCEPT ![r].at = "gatewaySet", ![r].val = entry["function"].val]
     \/ ~Live("function") /\ Goto(r, "compute")
     \/ Goto(r, "compute")                                \* Redis fails
  /\ UNCHANGED <<now, entry, invalidated, raced>>

\* The function reads the database.
Compute(r) ==
  /\ req[r].at = "compute"
  /\ req' = [req EXCEPT ![r].val = now,
                        ![r].at = IF req[r].kind = "plain" THEN "functionSet" ELSE "gatewaySet"]
  /\ UNCHANGED <<now, entry, invalidated, raced>>

FunctionSet(r) ==
  /\ req[r].at = "functionSet"
  /\ Store("function", req[r].val) \/ UNCHANGED entry    \* a failed write is logged
  /\ Goto(r, "gatewaySet")
  /\ UNCHANGED <<now, invalidated, raced>>

\* The body is read to its end before it is parsed as JSON.  A file is not
\* JSON: the response is returned with nothing left to send.
GatewaySet(r) ==
  /\ req[r].at = "gatewaySet"
  /\ IF req[r].kind = "file" THEN UNCHANGED entry
     ELSE Store(req[r].kind, req[r].val) \/ UNCHANGED entry
  /\ req' = [req EXCEPT ![r].at = "answered", ![r].age = now - req[r].val,
                        ![r].body = req[r].kind # "file"]
  /\ UNCHANGED <<now, invalidated, raced>>

\* What is dropped, and whether a result computed before is about to be stored.
Dropped ==
  /\ invalidated' = now
  /\ raced' = \E r \in Requests : req[r].at = "functionSet"
  /\ UNCHANGED <<now, req>>

\* Mutant: a pattern that matches no key.
InvalidateNothing == Dropped /\ UNCHANGED entry

\* The pattern of the function's keys is flushed: by the handlers of events (which
\* nothing publishes), or by an administrator who names it.  No such pattern
\* matches a key of the gateway.
Invalidate == Dropped /\ entry' = [entry EXCEPT !["function"] = NoEntry]

\* An administrator clears every key.
FlushAll == Dropped /\ entry' = [k \in Keys |-> NoEntry]

\* Time does not pass a request that has used up its time; an answer is looked
\* at in the second in which it is given.
CacheTick ==
  /\ now < MaxClock
  /\ \A r \in Requests : req[r].at \notin {"idle", "answered"} => now - req[r].since < MaxDelay
  /\ now' = now + 1
  /\ entry' = [k \in Keys |-> IF entry[k] # NoEntry /\ entry[k].until > now + 1 THEN entry[k] ELSE NoEntry]
  /\ req' = [r \in Requests |-> IF req[r].at = "answered" THEN NoRequest ELSE req[r]]
  /\ UNCHANGED <<invalidated, raced>>

CacheNext ==
  \/ \E r \in Requests : Arrive(r) \/ GatewayGet(r) \/ FunctionGet(r) \/ Compute(r)
                         \/ FunctionSet(r) \/ GatewaySet(r)
  \/ Invalidate \/ FlushAll \/ CacheTick

CacheSpec == CacheInit /\ [][CacheNext]_cacheVars

-----------------------------------------------------------------------------
CacheEntries == [val : 0..MaxClock, until : 1..MaxClock + FunctionTTL + GatewayTTL]
RequestStates == [at : Steps, kind : Kinds, since : 0..MaxClock, val : 0..MaxClock,
                  age : 0..MaxClock, body : BOOLEAN]

CacheTypeOK ==
  /\ now \in 0..MaxClock /\ invalidated \in 0..MaxClock /\ raced \in BOOLEAN
  /\ entry \in [Keys -> CacheEntries \cup {NoEntry}]
  /\ req \in [Requests -> RequestStates]

\* However requests, expiries and failures of Redis interleave, an answer is at
\* most as old as both layers and two requests together can make it; one that
\* was to skip the cache is still subject to the layer of the gateway.
AgeBounded ==
  \A r \in Requests : req[r].at = "answered" =>
    req[r].age < IF req[r].kind = "plain" THEN FunctionTTL + GatewayTTL + 2 * MaxDelay
                                          ELSE GatewayTTL + MaxDelay

\* Unless a result was about to be stored when the function's entry was
\* dropped, what was computed before is out of the answers once the gateway's
\* copies have expired, long before the function's entry would have.
DroppedValuesFade ==
  \A r \in Requests :
    (req[r].at = "answered" /\ req[r].val < invalidated /\ ~raced)
      => now - invalidated < GatewayTTL + MaxDelay

\* exports.py: "Downloads a specific file from a completed export job."
FileArrives ==
  \A r \in Requests : req[r].at = "answered" => req[r].body

=============================================================================
