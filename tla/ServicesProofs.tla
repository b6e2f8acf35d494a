--------------------------- MODULE ServicesProofs ---------------------------
(***************************************************************************)
(* Theorems about the four models that MCServices puts side by side, each  *)
(* for every value of its constants: the caches, the session of a request  *)
(* and its handler, and (WebSocketRateLimiterProofs) the limiter.  Last:   *)
(* side by side they behave as each alone.                                 *)
(***************************************************************************)
EXTENDS MCServices, WebSocketRateLimiterProofs

-----------------------------------------------------------------------------
(* The caches: the invariant. *)

Busy(r) == req[r].at \notin {"idle", "answered"}
IsStored(k) == entry[k] # NoEntry
TTL(k) == IF k = "function" THEN FunctionTTL ELSE GatewayTTL

\* How long after its value was read an entry may still be there.
Lasts(k) ==
  IF k = "function" THEN FunctionTTL + MaxDelay
  ELSE IF k = "plain" THEN FunctionTTL + GatewayTTL + 2 * MaxDelay
  ELSE GatewayTTL + MaxDelay

\* Nothing is from the future, and no request takes longer than MaxDelay.
OnTime ==
  /\ invalidated <= now
  /\ \A r \in Requests : req[r].since <= now /\ req[r].val <= now
  /\ \A r \in Requests : Busy(r) => now <= req[r].since + MaxDelay
  /\ \A k \in Keys : IsStored(k) => entry[k].val <= now /\ entry[k].until <= now + TTL(k)

\* What a request is about to store was read while it was under way, or came
\* from an entry of the function that was live then.
ReadsAreRecent ==
  \A r \in Requests :
    /\ req[r].at \in {"functionGet", "functionSet"} => req[r].kind = "plain"
    /\ req[r].at = "functionSet" => req[r].since <= req[r].val
    /\ req[r].at = "gatewaySet" =>
         IF req[r].kind = "plain" THEN req[r].since < req[r].val + FunctionTTL + MaxDelay
                                  ELSE req[r].since <= req[r].val

\* An entry ends at most so long after its value was read.
EntriesEndInTime == \A k \in Keys : IsStored(k) => entry[k].until <= entry[k].val + Lasts(k)

\* What was read before the function's entry was dropped is only with requests
\* that were under way then, and in entries of the gateway they could write.
OldValuesAreLeaving ==
  ~raced =>
    /\ IsStored("function") => invalidated <= entry["function"].val
    /\ \A k \in Kinds : (IsStored(k) /\ entry[k].val < invalidated)
         => entry[k].until <= invalidated + MaxDelay + GatewayTTL
    /\ \A r \in Requests :
         /\ req[r].at = "functionSet" => invalidated <= req[r].val
         /\ (req[r].at = "gatewaySet" /\ req[r].val < invalidated) => req[r].since <= invalidated

CacheInv ==
  /\ CacheTypeOK /\ OnTime /\ ReadsAreRecent /\ EntriesEndInTime /\ OldValuesAreLeaving
  /\ AgeBounded /\ DroppedValuesFade
-----------------------------------------------------------------------------
(* Each part of the invariant is kept by every step. *)

\* Every step of a request, a flush and the clock keep the types; an age is a
\* natural number because no value is from the future.
LEMMA StepTyped == CacheInv /\ [CacheNext]_cacheVars => CacheTypeOK'
<1> SUFFICES ASSUME CacheInv, [CacheNext]_cacheVars PROVE CacheTypeOK'
  OBVIOUS
<1> USE CacheAssumption
    DEF CacheInv, CacheTypeOK, CacheEntries, RequestStates, Steps, Kinds, Keys,
        OnTime, Busy, IsStored, TTL
<1>1. ASSUME NEW r \in Requests, Arrive(r)
      PROVE CacheTypeOK'
  <2>1. PICK k \in Kinds :
          req' = [req EXCEPT ![r] = [at |-> "gatewayGet", kind |-> k, since |-> now, val |-> 0,
                                     age |-> 0, body |-> TRUE]]
    BY <1>1 DEF Arrive
  <2>2. 0 \in 0..MaxClock
    OBVIOUS
  <2>3. [at |-> "gatewayGet", kind |-> k, since |-> now, val |-> 0, age |-> 0, body |-> TRUE]
          \in RequestStates
    BY <2>2, Zenon
  <2>4. req' \in [Requests -> RequestStates]
    <3> HIDE DEF RequestStates
    <3> QED  BY <2>1, <2>3
  <2> QED  BY <1>1, <2>4 DEF Arrive
<1>2. ASSUME NEW r \in Requests, GatewayGet(r)
      PROVE CacheTypeOK'
  BY <1>2 DEF GatewayGet, Live, Answer, Goto, AfterMiss
<1>3. ASSUME NEW r \in Requests, FunctionGet(r)
      PROVE CacheTypeOK'
  BY <1>3 DEF FunctionGet, Live, Goto
<1>4. ASSUME NEW r \in Requests, Compute(r)
      PROVE CacheTypeOK'
  BY <1>4 DEF Compute
<1>5. ASSUME NEW r \in Requests, FunctionSet(r)
      PROVE CacheTypeOK'
  BY <1>5 DEF FunctionSet, Store, Goto
<1>6. ASSUME NEW r \in Requests, GatewaySet(r)
      PROVE CacheTypeOK'
  <2>1. entry' \in [Keys -> CacheEntries \cup {NoEntry}]
    <3>1. CASE UNCHANGED entry
      BY <3>1
    <3>2. CASE req[r].kind # "file" /\ Store(req[r].kind, req[r].val)
      <4>1. [val |-> req[r].val, until |-> now + GatewayTTL] \in CacheEntries
        OBVIOUS
      <4>2. req[r].kind \in Keys \ {"function"}
        OBVIOUS
      <4> QED  BY <3>2, <4>1, <4>2 DEF Store
    <3> QED  BY <1>6, <3>1, <3>2 DEF GatewaySet
  <2>2. now - req[r].val \in 0..MaxClock
    <3>1. now \in 0..MaxClock /\ req[r].val \in 0..MaxClock /\ req[r].val <= now
      OBVIOUS
    <3> QED  BY <3>1
  <2>3. [req[r] EXCEPT !.at = "answered", !.age = now - req[r].val,
                       !.body = req[r].kind # "file"] \in RequestStates
    BY <2>2
  <2>4. req' \in [Requests -> RequestStates]
    <3> HIDE DEF RequestStates
    <3> QED  BY <1>6, <2>3 DEF GatewaySet
  <2> QED  BY <1>6, <2>1, <2>4 DEF GatewaySet
<1>7. ASSUME Invalidate
      PROVE CacheTypeOK'
  BY <1>7 DEF Invalidate, Dropped
<1>8. ASSUME FlushAll
      PROVE CacheTypeOK'
  BY <1>8 DEF FlushAll, Dropped
<1>9. ASSUME CacheTick
      PROVE CacheTypeOK'
  BY <1>9 DEF CacheTick, NoRequest
<1>10. ASSUME UNCHANGED cacheVars PROVE CacheTypeOK'
  BY <1>10 DEF cacheVars
<1> QED  BY <1>1, <1>2, <1>3, <1>4, <1>5, <1>6, <1>7, <1>8, <1>9, <1>10 DEF CacheNext

\* The clock waits for requests that have used up their time.
LEMMA StepOnTime == CacheInv /\ [CacheNext]_cacheVars => OnTime'
<1> SUFFICES ASSUME CacheInv, [CacheNext]_cacheVars PROVE OnTime'
  OBVIOUS
<1> USE CacheAssumption
    DEF CacheInv, CacheTypeOK, CacheEntries, RequestStates, Steps, Kinds, Keys,
        OnTime, Busy, IsStored, TTL
<1>1. ASSUME NEW r \in Requests, Arrive(r)
      PROVE OnTime'
  BY <1>1 DEF Arrive
<1>2. ASSUME NEW r \in Requests, GatewayGet(r)
      PROVE OnTime'
  BY <1>2 DEF GatewayGet, Live, Answer, Goto, AfterMiss
<1>3. ASSUME NEW r \in Requests, FunctionGet(r)
      PROVE OnTime'
  BY <1>3 DEF FunctionGet, Live, Goto
<1>4. ASSUME NEW r \in Requests, Compute(r)
      PROVE OnTime'
  BY <1>4 DEF Compute
<1>5. ASSUME NEW r \in Requests, FunctionSet(r)
      PROVE OnTime'
  BY <1>5 DEF FunctionSet, Store, Goto
<1>6. ASSUME NEW r \in Requests, GatewaySet(r)
      PROVE OnTime'
  BY <1>6 DEF GatewaySet, Store
<1>7. ASSUME Invalidate
      PROVE OnTime'
  BY <1>7 DEF Invalidate, Dropped
<1>8. ASSUME FlushAll
      PROVE OnTime'
  BY <1>8 DEF FlushAll, Dropped
<1>9. ASSUME CacheTick
      PROVE OnTime'
  BY <1>9 DEF CacheTick, NoRequest
<1>10. ASSUME UNCHANGED cacheVars PROVE OnTime'
  BY <1>10 DEF cacheVars
<1> QED  BY <1>1, <1>2, <1>3, <1>4, <1>5, <1>6, <1>7, <1>8, <1>9, <1>10 DEF CacheNext

\* A live entry of the function that a request takes over ends after now.
LEMMA StepRecent == CacheInv /\ [CacheNext]_cacheVars => ReadsAreRecent'
<1> SUFFICES ASSUME CacheInv, [CacheNext]_cacheVars PROVE ReadsAreRecent'
  OBVIOUS
<1> USE CacheAssumption
    DEF CacheInv, CacheTypeOK, CacheEntries, RequestStates, Steps, Kinds, Keys,
        OnTime, Busy, IsStored, TTL,
        ReadsAreRecent, EntriesEndInTime, Lasts
<1>1. ASSUME NEW r \in Requests, Arrive(r)
      PROVE ReadsAreRecent'
  BY <1>1 DEF Arrive
<1>2. ASSUME NEW r \in Requests, GatewayGet(r)
      PROVE ReadsAreRecent'
  BY <1>2 DEF GatewayGet, Live, Answer, Goto, AfterMiss
<1>3. ASSUME NEW r \in Requests, FunctionGet(r)
      PROVE ReadsAreRecent'
  BY <1>3 DEF FunctionGet, Live, Goto
<1>4. ASSUME NEW r \in Requests, Compute(r)
      PROVE ReadsAreRecent'
  BY <1>4 DEF Compute
<1>5. ASSUME NEW r \in Requests, FunctionSet(r)
      PROVE ReadsAreRecent'
  BY <1>5 DEF FunctionSet, Store, Goto
<1>6. ASSUME NEW r \in Requests, GatewaySet(r)
      PROVE ReadsAreRecent'
  BY <1>6 DEF GatewaySet, Store
<1>7. ASSUME Invalidate
      PROVE ReadsAreRecent'
  BY <1>7 DEF Invalidate, Dropped
<1>8. ASSUME FlushAll
      PROVE ReadsAreRecent'
  BY <1>8 DEF FlushAll, Dropped
<1>9. ASSUME CacheTick
      PROVE ReadsAreRecent'
  BY <1>9 DEF CacheTick, NoRequest
<1>10. ASSUME UNCHANGED cacheVars PROVE ReadsAreRecent'
  BY <1>10 DEF cacheVars
<1> QED  BY <1>1, <1>2, <1>3, <1>4, <1>5, <1>6, <1>7, <1>8, <1>9, <1>10 DEF CacheNext

\* What is stored was recent, and ends one time to live from now.
LEMMA StepEntries == CacheInv /\ [CacheNext]_cacheVars => EntriesEndInTime'
<1> SUFFICES ASSUME CacheInv, [CacheNext]_cacheVars PROVE EntriesEndInTime'
  OBVIOUS
<1> USE CacheAssumption
    DEF CacheInv, CacheTypeOK, CacheEntries, RequestStates, Steps, Kinds, Keys,
        OnTime, Busy, IsStored, TTL,
        ReadsAreRecent, EntriesEndInTime, Lasts
<1>1. ASSUME NEW r \in Requests, Arrive(r)
      PROVE EntriesEndInTime'
  BY <1>1 DEF Arrive
<1>2. ASSUME NEW r \in Requests, GatewayGet(r)
      PROVE EntriesEndInTime'
  BY <1>2 DEF GatewayGet, Live, Answer, Goto, AfterMiss
<1>3. ASSUME NEW r \in Requests, FunctionGet(r)
      PROVE EntriesEndInTime'
  BY <1>3 DEF FunctionGet, Live, Goto
<1>4. ASSUME NEW r \in Requests, Compute(r)
      PROVE EntriesEndInTime'
  BY <1>4 DEF Compute
<1>5. ASSUME NEW r \in Requests, FunctionSet(r)
      PROVE EntriesEndInTime'
  BY <1>5 DEF FunctionSet, Store, Goto
<1>6. ASSUME NEW r \in Requests, GatewaySet(r)
      PROVE EntriesEndInTime'
  BY <1>6 DEF GatewaySet, Store
<1>7. ASSUME Invalidate
      PROVE EntriesEndInTime'
  BY <1>7 DEF Invalidate, Dropped
<1>8. ASSUME FlushAll
      PROVE EntriesEndInTime'
  BY <1>8 DEF FlushAll, Dropped
<1>9. ASSUME CacheTick
      PROVE EntriesEndInTime'
  BY <1>9 DEF CacheTick, NoRequest
<1>10. ASSUME UNCHANGED cacheVars PROVE EntriesEndInTime'
  BY <1>10 DEF cacheVars
<1> QED  BY <1>1, <1>2, <1>3, <1>4, <1>5, <1>6, <1>7, <1>8, <1>9, <1>10 DEF CacheNext

\* A flush of the function's entry, when no result of a computation is about to
\* be stored, leaves old values only with requests that have begun by now.
LEMMA StepLeaving == CacheInv /\ [CacheNext]_cacheVars => OldValuesAreLeaving'
<1> SUFFICES ASSUME CacheInv, [CacheNext]_cacheVars PROVE OldValuesAreLeaving'
  OBVIOUS
<1> USE CacheAssumption
    DEF CacheInv, CacheTypeOK, CacheEntries, RequestStates, Steps, Kinds, Keys,
        OnTime, Busy, IsStored, TTL,
        OldValuesAreLeaving
<1>1. ASSUME NEW r \in Requests, Arrive(r)
      PROVE OldValuesAreLeaving'
  BY <1>1 DEF Arrive
<1>2. ASSUME NEW r \in Requests, GatewayGet(r)
      PROVE OldValuesAreLeaving'
  BY <1>2 DEF GatewayGet, Live, Answer, Goto, AfterMiss
<1>3. ASSUME NEW r \in Requests, FunctionGet(r)
      PROVE OldValuesAreLeaving'
  BY <1>3 DEF FunctionGet, Live, Goto
<1>4. ASSUME NEW r \in Requests, Compute(r)
      PROVE OldValuesAreLeaving'
  BY <1>4 DEF Compute
<1>5. ASSUME NEW r \in Requests, FunctionSet(r)
      PROVE OldValuesAreLeaving'
  BY <1>5 DEF FunctionSet, Store, Goto
<1>6. ASSUME NEW r \in Requests, GatewaySet(r)
      PROVE OldValuesAreLeaving'
  BY <1>6 DEF GatewaySet, Store
<1>7. ASSUME Invalidate
      PROVE OldValuesAreLeaving'
  BY <1>7 DEF Invalidate, Dropped
<1>8. ASSUME FlushAll
      PROVE OldValuesAreLeaving'
  BY <1>8 DEF FlushAll, Dropped
<1>9. ASSUME CacheTick
      PROVE OldValuesAreLeaving'
  BY <1>9 DEF CacheTick, NoRequest
<1>10. ASSUME UNCHANGED cacheVars PROVE OldValuesAreLeaving'
  BY <1>10 DEF cacheVars
<1> QED  BY <1>1, <1>2, <1>3, <1>4, <1>5, <1>6, <1>7, <1>8, <1>9, <1>10 DEF CacheNext

\* A hit is a live entry, so its value is not older than the entry lasts; any
\* other answer is as old as the reading of the request.
LEMMA StepAge == CacheInv /\ [CacheNext]_cacheVars => AgeBounded'
<1> SUFFICES ASSUME CacheInv, [CacheNext]_cacheVars PROVE AgeBounded'
  OBVIOUS
<1> USE CacheAssumption
    DEF CacheInv, CacheTypeOK, CacheEntries, RequestStates, Steps, Kinds, Keys,
        OnTime, Busy, IsStored, TTL,
        ReadsAreRecent, EntriesEndInTime, Lasts, AgeBounded
<1>1. ASSUME NEW r \in Requests, Arrive(r)
      PROVE AgeBounded'
  BY <1>1 DEF Arrive
<1>2. ASSUME NEW r \in Requests, GatewayGet(r)
      PROVE AgeBounded'
  BY <1>2 DEF GatewayGet, Live, Answer, Goto, AfterMiss
<1>3. ASSUME NEW r \in Requests, FunctionGet(r)
      PROVE AgeBounded'
  BY <1>3 DEF FunctionGet, Live, Goto
<1>4. ASSUME NEW r \in Requests, Compute(r)
      PROVE AgeBounded'
  BY <1>4 DEF Compute
<1>5. ASSUME NEW r \in Requests, FunctionSet(r)
      PROVE AgeBounded'
  BY <1>5 DEF FunctionSet, Store, Goto
<1>6. ASSUME NEW r \in Requests, GatewaySet(r)
      PROVE AgeBounded'
  <2>1. now - req[r].val < IF req[r].kind = "plain" THEN FunctionTTL + GatewayTTL + 2 * MaxDelay
                                                    ELSE GatewayTTL + MaxDelay
    BY <1>6 DEF GatewaySet
  <2>2. /\ req'[r].at = "answered" /\ req'[r].kind = req[r].kind
        /\ req'[r].age = now - req[r].val
        /\ \A q \in Requests \ {r} : req'[q] = req[q]
    BY <1>6 DEF GatewaySet
  <2> QED  BY <2>1, <2>2
<1>7. ASSUME Invalidate
      PROVE AgeBounded'
  BY <1>7 DEF Invalidate, Dropped
<1>8. ASSUME FlushAll
      PROVE AgeBounded'
  BY <1>8 DEF FlushAll, Dropped
<1>9. ASSUME CacheTick
      PROVE AgeBounded'
  BY <1>9 DEF CacheTick, NoRequest
<1>10. ASSUME UNCHANGED cacheVars PROVE AgeBounded'
  BY <1>10 DEF cacheVars
<1> QED  BY <1>1, <1>2, <1>3, <1>4, <1>5, <1>6, <1>7, <1>8, <1>9, <1>10 DEF CacheNext

\* An old value can be answered only from what is leaving.
LEMMA StepFade == CacheInv /\ [CacheNext]_cacheVars => DroppedValuesFade'
<1> SUFFICES ASSUME CacheInv, [CacheNext]_cacheVars PROVE DroppedValuesFade'
  OBVIOUS
<1> USE CacheAssumption
    DEF CacheInv, CacheTypeOK, CacheEntries, RequestStates, Steps, Kinds, Keys,
        OnTime, Busy, IsStored, TTL,
        OldValuesAreLeaving, DroppedValuesFade
<1>1. ASSUME NEW r \in Requests, Arrive(r)
      PROVE DroppedValuesFade'
  BY <1>1 DEF Arrive
<1>2. ASSUME NEW r \in Requests, GatewayGet(r)
      PROVE DroppedValuesFade'
  BY <1>2 DEF GatewayGet, Live, Answer, Goto, AfterMiss
<1>3. ASSUME NEW r \in Requests, FunctionGet(r)
      PROVE DroppedValuesFade'
  BY <1>3 DEF FunctionGet, Live, Goto
<1>4. ASSUME NEW r \in Requests, Compute(r)
      PROVE DroppedValuesFade'
  BY <1>4 DEF Compute
<1>5. ASSUME NEW r \in Requests, FunctionSet(r)
      PROVE DroppedValuesFade'
  BY <1>5 DEF FunctionSet, Store, Goto
<1>6. ASSUME NEW r \in Requests, GatewaySet(r)
      PROVE DroppedValuesFade'
  BY <1>6 DEF GatewaySet, Store
<1>7. ASSUME Invalidate
      PROVE DroppedValuesFade'
  BY <1>7 DEF Invalidate, Dropped
<1>8. ASSUME FlushAll
      PROVE DroppedValuesFade'
  BY <1>8 DEF FlushAll, Dropped
<1>9. ASSUME CacheTick
      PROVE DroppedValuesFade'
  BY <1>9 DEF CacheTick, NoRequest
<1>10. ASSUME UNCHANGED cacheVars PROVE DroppedValuesFade'
  BY <1>10 DEF cacheVars
<1> QED  BY <1>1, <1>2, <1>3, <1>4, <1>5, <1>6, <1>7, <1>8, <1>9, <1>10 DEF CacheNext

\* Together: the invariant is inductive.
LEMMA StepKeepsCacheInv == CacheInv /\ [CacheNext]_cacheVars => CacheInv'
  BY StepTyped, StepOnTime, StepRecent, StepEntries, StepLeaving, StepAge, StepFade DEF CacheInv

\* An empty Redis and no request satisfy the invariant.
LEMMA InitCacheInv == CacheInit => CacheInv
<1> SUFFICES ASSUME CacheInit PROVE CacheInv
  OBVIOUS
<1> USE CacheAssumption DEF CacheInit
<1>1. CacheTypeOK
  <2>1. 0 \in 0..MaxClock
    OBVIOUS
  <2>2. NoRequest \in RequestStates
    BY <2>1, Zenon DEF RequestStates, Steps, Kinds, NoRequest
  <2> QED  BY <2>1, <2>2 DEF CacheTypeOK
<1>2. OnTime
  BY DEF OnTime, Busy, IsStored, NoRequest
<1>3. ReadsAreRecent
  BY DEF ReadsAreRecent, NoRequest
<1>4. EntriesEndInTime
  BY DEF EntriesEndInTime, IsStored
<1>5. OldValuesAreLeaving
  BY DEF OldValuesAreLeaving, IsStored, Kinds, Keys, NoRequest
<1>6. AgeBounded /\ DroppedValuesFade
  BY DEF AgeBounded, DroppedValuesFade, NoRequest
<1> QED  BY <1>1, <1>2, <1>3, <1>4, <1>5, <1>6 DEF CacheInv

\* The invariant holds in every reachable state.
LEMMA CacheInvHolds == CacheSpec => []CacheInv
  BY InitCacheInv, StepKeepsCacheInv, PTL DEF CacheSpec

-----------------------------------------------------------------------------
\* CacheMiddleware.dispatch over @cached: whatever requests overlap, whichever
\* commands of Redis fail and whenever entries expire or are flushed, an answer
\* is younger than both times to live and two requests.
THEOREM AnswersAreYoung == CacheSpec => []AgeBounded
<1>1. CacheInv => AgeBounded
  BY DEF CacheInv
<1> QED  BY <1>1, CacheInvHolds, PTL

\* Flushing the function's entry (on_agent_run_completed, clear_cache) takes old
\* values out of the answers within one time to live of the gateway and one
\* request, unless a result was just about to be stored.
THEOREM DroppedValuesLeave == CacheSpec => []DroppedValuesFade
<1>1. CacheInv => DroppedValuesFade
  BY DEF CacheInv
<1> QED  BY <1>1, CacheInvHolds, PTL

-----------------------------------------------------------------------------
(* The session of a request: the invariant. *)

\* Of the state only what the arguments below need.
Shape ==
  /\ service \in DOMAIN Services
  /\ part \in [DOMAIN Services[service].parts -> PartStates]
  /\ queue \in Seq(Parts)

\* A part is in the queue at most once, and only while it is queued.
QueueIsOfQueued ==
  /\ \A a \in 1..Len(queue) : part[queue[a]].at = "queued"
  /\ \A a, b \in 1..Len(queue) : a # b => queue[a] # queue[b]

\* Whoever opens the connection waits for it.
OpeningHasOpener == conn = "opening" => queue # <<>>

\* What is awaited alone is over, and well, before anything after it begins.
AwaitedInTurn ==
  \A i, j \in Parts : (Alone(i) /\ i < j /\ part[j].at # "waiting")
                        => part[i].at \in {"real", "default"}

\* A service that waits for its tasks has none left when it is done.
DoneHasNoTasks ==
  /\ closed => outcome # "none"
  /\ (outcome # "none" /\ Waits) => queue = <<>>

SessionInv ==
  /\ Shape /\ QueueIsOfQueued /\ OpeningHasOpener /\ AwaitedInTurn /\ DoneHasNoTasks
  /\ EndedHoldsNothing

\* A handler that does not roll back what the database refused leaves the
\* transaction broken, until the session was ended with nothing under way or
\* the last part of the service rolled back, when all parts were over.
NotUndone == \E i \in Parts : part[i].cause = "database" /\ ~Def(i).rollsBack
AllEnded == \A i \in Parts : Ended(i)
BrokenStaysBroken == NotUndone => broken \/ (closed /\ queue = <<>>) \/ AllEnded

-----------------------------------------------------------------------------
(* Each part of the invariant is kept by every step. *)

\* Parts leave the queue at its head and come in at its end.
LEMMA HeadAndTail ==
  ASSUME NEW S, NEW q \in Seq(S), q # <<>>
  PROVE  /\ Head(q) \in S /\ Tail(q) \in Seq(S) /\ Len(q) \in Nat \ {0} /\ Head(q) = q[1]
         /\ Len(Tail(q)) = Len(q) - 1
         /\ \A a \in 1..Len(Tail(q)) : Tail(q)[a] = q[a + 1]
  OBVIOUS

\* Append leaves the rest of a sequence alone.
LEMMA AtTheEnd ==
  ASSUME NEW S, NEW q \in Seq(S), NEW i \in S
  PROVE  /\ Append(q, i) \in Seq(S) /\ Len(q) \in Nat /\ Len(Append(q, i)) = Len(q) + 1
         /\ \A a \in 1..Len(q) : Append(q, i)[a] = q[a]
         /\ Append(q, i)[Len(q) + 1] = i
  OBVIOUS

\* A part that fails has ended.
LEMMA FailedTyped ==
  ASSUME Shape, NEW i \in Parts, NEW why \in Causes
  PROVE  Failed(i, why) \in [Parts -> PartStates]
<1>1. [at |-> IF Kind(why) \in Def(i).catches THEN "default" ELSE "raised", done |-> 0, cause |-> why]
        \in PartStates
  BY DEF PartStates
<1> QED  BY <1>1 DEF Failed, Shape, Parts

\* Each branch keeps the type of the parts.
LEMMA PartsTyped ==
  ASSUME Shape, part' \in [Parts -> PartStates], service' = service, queue' \in Seq(Parts)
  PROVE  Shape'
<1>1. DOMAIN part' = Parts /\ DOMAIN part = DOMAIN Services[service].parts
  BY DEF Shape
<1> QED  BY <1>1 DEF Shape, Parts

\* A statement is over: its part leaves the queue, or goes to its end.
LEMMA StatementOver ==
  ASSUME SessionInv, StatementSucceeds
  PROVE  /\ queue # <<>> /\ Head(queue) \in Parts
         /\ queue' \in {Tail(queue), Append(Tail(queue), Head(queue))}
         /\ queue' = Append(Tail(queue), Head(queue)) => part'[Head(queue)].at = part[Head(queue)].at
         /\ DOMAIN part' = Parts
         /\ \A j \in Parts \ {Head(queue)} : part'[j] = part[j]
<1> USE DEF SessionInv, Shape, Parts
<1>1. queue # <<>> /\ Head(queue) \in Parts
  BY DEF StatementSucceeds, Idle
<1>2. \E r : part' = [part EXCEPT ![Head(queue)] = r]
  BY DEF StatementSucceeds, Failed
<1>3. queue' \in {Tail(queue), Append(Tail(queue), Head(queue))}
  BY DEF StatementSucceeds
<1>4. Len(Append(Tail(queue), Head(queue))) # Len(Tail(queue))
  BY <1>1, HeadAndTail, AtTheEnd
<1>5. queue' = Append(Tail(queue), Head(queue)) => part'[Head(queue)].at = part[Head(queue)].at
  <2>1. queue' = Append(Tail(queue), Head(queue))
          => part' = [part EXCEPT ![Head(queue)].done = part[Head(queue)].done + 1]
    BY <1>4 DEF StatementSucceeds
  <2> QED  BY <1>1, <2>1 DEF PartStates
<1> QED  BY <1>1, <1>2, <1>3, <1>5

\* Every step keeps the types of the parts and of the queue.
LEMMA StepShape == SessionInv /\ [SessionNext]_sessionVars => Shape'
<1> SUFFICES ASSUME SessionInv, [SessionNext]_sessionVars PROVE Shape'
  OBVIOUS
<1>0. /\ Shape /\ part \in [Parts -> PartStates] /\ queue \in Seq(Parts)
      /\ \A why \in {"met", "pool", "database", "data", "closed"} : why \in Causes
  BY DEF SessionInv, Shape, Parts, Causes
<1>1. ASSUME NEW i \in Parts, Begin(i)
      PROVE  Shape'
  <2>1. /\ service' = service
        /\ queue' \in {queue, Append(queue, i)}
        /\ \/ part' = Failed(i, "met")
           \/ part' = [part EXCEPT ![i].at = "real"]
           \/ part' = [part EXCEPT ![i].at = "queued"]
    BY <1>1 DEF Begin
  <2>2. queue' \in Seq(Parts)
    BY <1>0, <2>1, AtTheEnd
  <2>3. \A step \in {"real", "queued"} : [part[i] EXCEPT !.at = step] \in PartStates
    BY <1>0 DEF PartStates
  <2>4. part' \in [Parts -> PartStates]
    <3>1. CASE part' = Failed(i, "met")
      BY <1>0, <3>1, FailedTyped
    <3>2. CASE part' = [part EXCEPT ![i].at = "real"] \/ part' = [part EXCEPT ![i].at = "queued"]
      BY <1>0, <2>3, <3>2
    <3> QED  BY <2>1, <3>1, <3>2
  <2> QED  BY <1>0, <2>1, <2>2, <2>4, PartsTyped
<1>2. ASSUME Opened
      PROVE  Shape'
  BY <1>0, <1>2, PartsTyped DEF Opened
<1>3. ASSUME PoolTimeout \/ StatementFails
      PROVE  Shape'
  <2>1. /\ service' = service /\ queue # <<>> /\ queue' = Tail(queue)
        /\ part' \in {Failed(Head(queue), "pool"), Failed(Head(queue), "database")}
    BY <1>3 DEF PoolTimeout, StatementFails, Idle
  <2>2. queue' \in Seq(Parts) /\ Head(queue) \in Parts
    BY <1>0, <2>1, HeadAndTail
  <2>3. part' \in [Parts -> PartStates]
    BY <1>0, <2>1, <2>2, FailedTyped
  <2> QED  BY <1>0, <2>1, <2>2, <2>3, PartsTyped
<1>4. ASSUME StatementSucceeds
      PROVE  Shape'
  <2> DEFINE n == part[Head(queue)].done + 1
  <2>1. /\ service' = service /\ queue # <<>>
        /\ queue' \in {Tail(queue), Append(Tail(queue), Head(queue))}
        /\ \/ part' = Failed(Head(queue), "data")
           \/ part' = [part EXCEPT ![Head(queue)].at = "real", ![Head(queue)].done = 0]
           \/ part' = [part EXCEPT ![Head(queue)].done = n]
    BY <1>4 DEF StatementSucceeds, Idle
  <2>2. Head(queue) \in Parts /\ Tail(queue) \in Seq(Parts)
    BY <1>0, <2>1, HeadAndTail
  <2>3. queue' \in Seq(Parts)
    <3>1. Append(Tail(queue), Head(queue)) \in Seq(Parts)
      BY <2>2, AtTheEnd
    <3> QED  BY <2>1, <2>2, <3>1
  <2>4. n \in Nat
    BY <1>0, <2>2 DEF PartStates
  <2>5. /\ [part[Head(queue)] EXCEPT !.at = "real", !.done = 0] \in PartStates
        /\ [part[Head(queue)] EXCEPT !.done = n] \in PartStates
    BY <1>0, <2>2, <2>4 DEF PartStates
  <2>6. part' \in [Parts -> PartStates]
    <3> HIDE DEF n
    <3>1. CASE part' = Failed(Head(queue), "data")
      BY <1>0, <2>2, <3>1, FailedTyped
    <3>2. CASE \/ part' = [part EXCEPT ![Head(queue)].at = "real", ![Head(queue)].done = 0]
               \/ part' = [part EXCEPT ![Head(queue)].done = n]
      BY <1>0, <2>2, <2>5, <3>2
    <3> QED  BY <2>1, <3>1, <3>2
  <2> QED  BY <1>0, <2>1, <2>3, <2>6, PartsTyped
<1>5. ASSUME Respond
      PROVE  Shape'
  BY <1>0, <1>5, PartsTyped DEF Respond
<1>6. ASSUME Close
      PROVE  Shape'
  <2>1. /\ service' = service
        /\ \/ queue' = queue /\ part' = part
           \/ /\ queue' = <<>>
              /\ part' = [i \in Parts |-> IF part[i].at = "queued" THEN Failed(i, "closed")[i] ELSE part[i]]
    BY <1>6 DEF Close
  <2>2. \A i \in Parts : Failed(i, "closed")[i] \in PartStates
    BY <1>0, FailedTyped
  <2>3. <<>> \in Seq(Parts)
    OBVIOUS
  <2>4. queue' \in Seq(Parts)
    BY <1>0, <2>1, <2>3
  <2>5. part' \in [Parts -> PartStates]
    BY <1>0, <2>1, <2>2
  <2> QED  BY <1>0, <2>1, <2>4, <2>5, PartsTyped
<1>7. ASSUME UNCHANGED sessionVars
      PROVE  Shape'
  BY <1>0, <1>7, PartsTyped DEF sessionVars
<1> QED  BY <1>1, <1>2, <1>3, <1>4, <1>5, <1>6, <1>7 DEF SessionNext

\* Only a part that is waiting joins the queue, so none is in it twice.
LEMMA StepQueue == SessionInv /\ [SessionNext]_sessionVars => QueueIsOfQueued'
<1> SUFFICES ASSUME SessionInv, [SessionNext]_sessionVars PROVE QueueIsOfQueued'
  OBVIOUS
<1> USE DEF SessionInv, Shape, Parts, QueueIsOfQueued
<1>1. ASSUME NEW i \in Parts, Begin(i)
      PROVE  QueueIsOfQueued'
  <2>1. \A a \in 1..Len(queue) : queue[a] # i
    BY <1>1 DEF Begin, CanBegin
  <2>2. \A j \in Parts \ {i} : part'[j] = part[j]
    BY <1>1 DEF Begin, Failed
  <2>3. CASE queue' = queue
    BY <2>1, <2>2, <2>3
  <2>4. CASE queue' = Append(queue, i) /\ part'[i].at = "queued"
    <3>1. \A a \in 1..Len(queue) : queue'[a] = queue[a] /\ queue[a] \in Parts \ {i}
      BY <2>1, <2>4, AtTheEnd
    <3>2. Len(queue) \in Nat /\ Len(queue') = Len(queue) + 1 /\ queue'[Len(queue) + 1] = i
      BY <2>4, AtTheEnd
    <3>3. \A a \in 1..Len(queue') : a \in 1..Len(queue) \/ a = Len(queue) + 1
      BY <3>2
    <3>4. \A a \in 1..Len(queue') : part'[queue'[a]].at = "queued"
      BY <2>2, <2>4, <3>1, <3>2, <3>3
    <3>5. \A a, b \in 1..Len(queue') : a # b => queue'[a] # queue'[b]
      BY <3>1, <3>2, <3>3
    <3> QED  BY <3>4, <3>5
  <2>5. queue' = queue \/ (queue' = Append(queue, i) /\ part' = [part EXCEPT ![i].at = "queued"])
    BY <1>1 DEF Begin
  <2>6. [part EXCEPT ![i].at = "queued"][i].at = "queued"
    BY DEF PartStates
  <2> QED  BY <2>3, <2>4, <2>5, <2>6
<1>2. ASSUME Opened
      PROVE  QueueIsOfQueued'
  BY <1>2 DEF Opened
<1>3. ASSUME PoolTimeout
      PROVE  QueueIsOfQueued'
  BY <1>3 DEF PoolTimeout, Idle, Failed
<1>4. ASSUME StatementSucceeds
      PROVE  QueueIsOfQueued'
  <2>1. /\ queue # <<>> /\ Head(queue) \in Parts
        /\ \A j \in Parts \ {Head(queue)} : part'[j] = part[j]
    BY <1>4, StatementOver
  <2>2. \A a \in 1..Len(Tail(queue)) : Tail(queue)[a] \in Parts \ {Head(queue)}
    BY <2>1, HeadAndTail
  <2>3. CASE queue' = Tail(queue)
    BY <2>1, <2>2, <2>3, HeadAndTail
  <2>4. CASE queue' = Append(Tail(queue), Head(queue))
    <3>1. part'[Head(queue)].at = "queued"
      BY <1>4, <2>1, <2>4, StatementOver, HeadAndTail
    <3> QED  BY <2>1, <2>2, <2>4, <3>1, HeadAndTail, AtTheEnd
  <2> QED  BY <1>4, <2>3, <2>4, StatementOver
<1>5. ASSUME StatementFails
      PROVE  QueueIsOfQueued'
  BY <1>5 DEF StatementFails, Idle, Failed
<1>6. ASSUME Respond
      PROVE  QueueIsOfQueued'
  BY <1>6 DEF Respond, Fatal
<1>7. ASSUME Close
      PROVE  QueueIsOfQueued'
  BY <1>7 DEF Close, Failed
<1>8. ASSUME UNCHANGED sessionVars
      PROVE  QueueIsOfQueued'
  BY <1>8 DEF sessionVars
<1> QED  BY <1>1, <1>2, <1>3, <1>4, <1>5, <1>6, <1>7, <1>8 DEF SessionNext

\* The opener leaves the queue only with the connection open or gone.
LEMMA StepOpening == SessionInv /\ [SessionNext]_sessionVars => OpeningHasOpener'
<1> SUFFICES ASSUME SessionInv, [SessionNext]_sessionVars PROVE OpeningHasOpener'
  OBVIOUS
<1> USE DEF SessionInv, Shape, Parts, OpeningHasOpener
<1>1. ASSUME NEW i \in Parts, Begin(i)
      PROVE  OpeningHasOpener'
  BY <1>1 DEF Begin, CanBegin, Failed
<1>2. ASSUME Opened
      PROVE  OpeningHasOpener'
  BY <1>2 DEF Opened
<1>3. ASSUME PoolTimeout
      PROVE  OpeningHasOpener'
  BY <1>3 DEF PoolTimeout, Idle, Failed
<1>4. ASSUME StatementSucceeds
      PROVE  OpeningHasOpener'
  BY <1>4 DEF StatementSucceeds, Idle, Failed
<1>5. ASSUME StatementFails
      PROVE  OpeningHasOpener'
  BY <1>5 DEF StatementFails, Idle, Failed
<1>6. ASSUME Respond
      PROVE  OpeningHasOpener'
  BY <1>6 DEF Respond, Fatal
<1>7. ASSUME Close
      PROVE  OpeningHasOpener'
  BY <1>7 DEF Close, Failed
<1>8. ASSUME UNCHANGED sessionVars
      PROVE  OpeningHasOpener'
  BY <1>8 DEF sessionVars
<1> QED  BY <1>1, <1>2, <1>3, <1>4, <1>5, <1>6, <1>7, <1>8 DEF SessionNext

\* A part begins only when what is awaited before it is over, and only the part
\* at the head of the queue, which has not ended, changes afterwards.
LEMMA StepInTurn == SessionInv /\ [SessionNext]_sessionVars => AwaitedInTurn'
<1> SUFFICES ASSUME SessionInv, [SessionNext]_sessionVars PROVE AwaitedInTurn'
  OBVIOUS
<1> USE DEF SessionInv, Shape, Parts, Alone, Ended, QueueIsOfQueued, AwaitedInTurn
<1>1. ASSUME NEW i \in Parts, Begin(i)
      PROVE  AwaitedInTurn'
  BY <1>1 DEF Begin, CanBegin, Failed
<1>2. ASSUME Opened
      PROVE  AwaitedInTurn'
  BY <1>2 DEF Opened
<1>3. ASSUME PoolTimeout
      PROVE  AwaitedInTurn'
  BY <1>3 DEF PoolTimeout, Idle, Failed
<1>4. ASSUME StatementSucceeds
      PROVE  AwaitedInTurn'
  <2>1. /\ queue # <<>> /\ Head(queue) \in Parts
        /\ DOMAIN part' = Parts
        /\ \A j \in Parts \ {Head(queue)} : part'[j] = part[j]
    BY <1>4, StatementOver
  <2>2. part[Head(queue)].at = "queued"
    BY <2>1, HeadAndTail
  <2>3. service' = service
    BY <1>4 DEF StatementSucceeds
  <2> QED  BY <2>1, <2>2, <2>3
<1>5. ASSUME StatementFails
      PROVE  AwaitedInTurn'
  BY <1>5 DEF StatementFails, Idle, Failed
<1>6. ASSUME Respond
      PROVE  AwaitedInTurn'
  BY <1>6 DEF Respond, Fatal
<1>7. ASSUME Close
      PROVE  AwaitedInTurn'
  BY <1>7 DEF Close, Failed
<1>8. ASSUME UNCHANGED sessionVars
      PROVE  AwaitedInTurn'
  BY <1>8 DEF sessionVars
<1> QED  BY <1>1, <1>2, <1>3, <1>4, <1>5, <1>6, <1>7, <1>8 DEF SessionNext

\* Such a service ends when all parts have ended, or when one that is awaited
\* alone raises: then none before it is running, and none after it has begun.
LEMMA StepDone == SessionInv /\ [SessionNext]_sessionVars => DoneHasNoTasks'
<1> SUFFICES ASSUME SessionInv, [SessionNext]_sessionVars PROVE DoneHasNoTasks'
  OBVIOUS
<1> USE DEF SessionInv, Shape, Parts, Waits, Alone, Ended, QueueIsOfQueued, AwaitedInTurn,
            OpeningHasOpener, DoneHasNoTasks
<1>1. ASSUME NEW i \in Parts, Begin(i)
      PROVE  DoneHasNoTasks'
  BY <1>1 DEF Begin, CanBegin, Failed
<1>2. ASSUME Opened
      PROVE  DoneHasNoTasks'
  BY <1>2 DEF Opened
<1>3. ASSUME PoolTimeout
      PROVE  DoneHasNoTasks'
  BY <1>3 DEF PoolTimeout, Idle, Failed
<1>4. ASSUME StatementSucceeds
      PROVE  DoneHasNoTasks'
  BY <1>4 DEF StatementSucceeds, Idle, Failed
<1>5. ASSUME StatementFails
      PROVE  DoneHasNoTasks'
  BY <1>5 DEF StatementFails, Idle, Failed
<1>6. ASSUME Respond
      PROVE  DoneHasNoTasks'
  <2>1. /\ service' = service /\ queue' = queue /\ closed' = closed /\ outcome' # "none"
        /\ Fatal \/ \A j \in Parts : Ended(j)
    BY <1>6 DEF Respond
  <2>2. CASE \A j \in Parts : Ended(j)
    BY <2>1, <2>2
  <2>3. CASE Waits /\ \E j \in Parts : part[j].at = "raised" /\ Alone(j)
    <3>1. PICK j \in Parts : part[j].at = "raised" /\ Alone(j)
      BY <2>3
    <3>2. \A k \in Parts : k < j => Alone(k)
      BY <3>1, ServicesAssumption DEF Service
    <3>3. \A k \in Parts : k < j \/ k = j \/ j < k
      BY ServicesAssumption DEF Service
    <3>4. \A k \in Parts : part[k].at # "queued"
      BY <3>1, <3>2, <3>3
    <3> QED  BY <2>1, <3>4
  <2> QED  BY <2>1, <2>2, <2>3 DEF Fatal
<1>7. ASSUME Close
      PROVE  DoneHasNoTasks'
  BY <1>7 DEF Close, Failed
<1>8. ASSUME UNCHANGED sessionVars
      PROVE  DoneHasNoTasks'
  BY <1>8 DEF sessionVars
<1> QED  BY <1>1, <1>2, <1>3, <1>4, <1>5, <1>6, <1>7, <1>8 DEF SessionNext

\* At the end the connection is not being opened, so the session can be closed.
LEMMA StepEnded == SessionInv /\ [SessionNext]_sessionVars => EndedHoldsNothing'
<1> SUFFICES ASSUME SessionInv, [SessionNext]_sessionVars PROVE EndedHoldsNothing'
  OBVIOUS
<1> USE DEF SessionInv, Shape, Waits, OpeningHasOpener, DoneHasNoTasks, EndedHoldsNothing
<1>1. ASSUME NEW i \in Parts, Begin(i)
      PROVE  EndedHoldsNothing'
  BY <1>1 DEF Begin, CanBegin, Failed
<1>2. ASSUME Opened
      PROVE  EndedHoldsNothing'
  BY <1>2 DEF Opened
<1>3. ASSUME PoolTimeout
      PROVE  EndedHoldsNothing'
  BY <1>3 DEF PoolTimeout, Idle, Failed
<1>4. ASSUME StatementSucceeds
      PROVE  EndedHoldsNothing'
  BY <1>4 DEF StatementSucceeds, Idle, Failed
<1>5. ASSUME StatementFails
      PROVE  EndedHoldsNothing'
  BY <1>5 DEF StatementFails, Idle, Failed
<1>6. ASSUME Respond
      PROVE  EndedHoldsNothing'
  BY <1>6 DEF Respond, Fatal
<1>7. ASSUME Close
      PROVE  EndedHoldsNothing'
  BY <1>7 DEF Close, Failed
<1>8. ASSUME UNCHANGED sessionVars
      PROVE  EndedHoldsNothing'
  BY <1>8 DEF sessionVars
<1> QED  BY <1>1, <1>2, <1>3, <1>4, <1>5, <1>6, <1>7, <1>8 DEF SessionNext

\* Together: the invariant is inductive.
LEMMA StepKeepsSessionInv == SessionInv /\ [SessionNext]_sessionVars => SessionInv'
  BY StepShape, StepQueue, StepOpening, StepInTurn, StepDone, StepEnded DEF SessionInv

\* A request that has not begun satisfies the invariant.
LEMMA InitSessionInv == SessionInit => SessionInv
<1> SUFFICES ASSUME SessionInit PROVE SessionInv
  OBVIOUS
<1> USE DEF SessionInit
<1>1. Shape
  <2>1. \A i \in DOMAIN Services[service].parts :
          [at |-> "waiting", done |-> 0, cause |-> "none"] \in PartStates
    BY DEF PartStates, Causes
  <2> QED  BY <2>1 DEF Shape, Parts
<1>2. QueueIsOfQueued /\ OpeningHasOpener
  BY DEF QueueIsOfQueued, OpeningHasOpener
<1>3. AwaitedInTurn
  BY DEF AwaitedInTurn, Parts
<1>4. DoneHasNoTasks /\ EndedHoldsNothing
  BY DEF DoneHasNoTasks, EndedHoldsNothing
<1> QED  BY <1>1, <1>2, <1>3, <1>4 DEF SessionInv

\* The invariant holds in every reachable state.
LEMMA SessionInvHolds == SessionSpec => []SessionInv
  BY InitSessionInv, StepKeepsSessionInv, PTL DEF SessionSpec

-----------------------------------------------------------------------------
(* The broken transaction. *)

\* What a step does to a part.
LEMMA EachPart ==
  ASSUME Shape, SessionNext, NEW p \in Parts
  PROVE  \/ part'[p] = part[p]
         \/ part'[p].at = "real" /\ ~Statements(p) /\ part'[p].cause = part[p].cause
         \/ part'[p].at # "real" /\ part'[p].cause \in {part[p].cause, "met", "pool", "closed"}
         \/ StatementFails /\ part'[p].at # "real"
         \/ StatementSucceeds /\ part'[p].cause \in {part[p].cause, "data"}
<1>0. part \in [Parts -> PartStates] /\ queue \in Seq(Parts)
  BY DEF Shape, Parts
<1>f. ASSUME NEW i \in Parts, NEW why \in Causes
      PROVE  /\ Failed(i, why)[i].at # "real" /\ Failed(i, why)[i].cause = why
             /\ p # i => Failed(i, why)[p] = part[p]
  BY <1>0 DEF Failed
<1>h. queue # <<>> => Head(queue) \in Parts
  BY <1>0, HeadAndTail
<1>1. ASSUME NEW i \in Parts, Begin(i)
      PROVE  \/ part'[p] = part[p]
             \/ part'[p].at = "real" /\ ~Statements(p) /\ part'[p].cause = part[p].cause
             \/ part'[p].at # "real" /\ part'[p].cause \in {part[p].cause, "met"}
  <2>1. CASE Def(i).most = 0 /\ part' = [part EXCEPT ![i].at = "real"]
    <3>1. ~Statements(i)
      BY <2>1 DEF Statements
    <3> QED  BY <1>0, <2>1, <3>1 DEF PartStates
  <2>2. CASE part' = Failed(i, "met")
    BY <1>f, <2>2 DEF Causes
  <2>3. CASE part' = [part EXCEPT ![i].at = "queued"]
    BY <1>0, <2>3 DEF PartStates
  <2> QED  BY <1>1, <2>1, <2>2, <2>3 DEF Begin
<1>2. CASE Opened \/ Respond
  BY <1>2 DEF Opened, Respond
<1>3. CASE PoolTimeout
  BY <1>3, <1>f, <1>h DEF PoolTimeout, Idle, Causes
<1>4. CASE StatementSucceeds
  <2>1. CASE part' = Failed(Head(queue), "data")
    BY <1>4, <1>f, <1>h, <2>1 DEF StatementSucceeds, Idle, Causes
  <2>2. CASE \/ part' = [part EXCEPT ![Head(queue)].at = "real", ![Head(queue)].done = 0]
             \/ part' = [part EXCEPT ![Head(queue)].done = part[Head(queue)].done + 1]
    BY <1>0, <1>4, <2>2 DEF PartStates
  <2> QED  BY <1>4, <2>1, <2>2 DEF StatementSucceeds
<1>5. CASE StatementFails
  BY <1>5, <1>f, <1>h DEF StatementFails, Idle, Causes
<1>6. CASE Close
  BY <1>0, <1>6, <1>f DEF Close, Causes
<1> QED  BY <1>1, <1>2, <1>3, <1>4, <1>5, <1>6 DEF SessionNext

\* Where one handler rolls back and another does not, the one that does is the
\* last, and all others were over before it began.
LEMMA RolledBackLast ==
  ASSUME SessionInv, NEW d \in Parts, ~Def(d).rollsBack,
         NEW h \in Parts, Def(h).rollsBack, part[h].at # "waiting",
         NEW k \in Parts, k # h
  PROVE  Ended(k)
<1>1. Shape /\ AwaitedInTurn
  BY DEF SessionInv
<1>2. /\ Parts = DOMAIN Services[service].parts /\ Services[service] \in Service
      /\ service \in DOMAIN Services
  BY <1>1, ServicesAssumption DEF Shape, Parts
<1>3. Services[service].parts \in Seq(Part) /\ Services[service].alone \in Nat
  BY <1>2 DEF Service
<1>4. h = Len(Services[service].parts) /\ h <= Services[service].alone
  BY <1>2, RollbackAssumption DEF Def
<1>5. Parts = 1..Len(Services[service].parts) /\ Len(Services[service].parts) \in Nat
  BY <1>2, <1>3
<1>6. k < h /\ Alone(k)
  BY <1>3, <1>4, <1>5 DEF Alone
<1> QED  BY <1>1, <1>6 DEF AwaitedInTurn, Ended

\* When all parts are over the queue is empty, and nothing begins any more.
LEMMA OverIsOver ==
  ASSUME SessionInv, AllEnded
  PROVE  queue = <<>> /\ \A i \in Parts : ~CanBegin(i)
<1>1. queue = <<>>
  <2> SUFFICES ASSUME queue # <<>> PROVE FALSE
    OBVIOUS
  <2>1. queue[1] \in Parts /\ 1 \in 1..Len(queue)
    BY DEF SessionInv, Shape
  <2> QED  BY <2>1 DEF SessionInv, QueueIsOfQueued, AllEnded, Ended
<1> QED  BY <1>1 DEF AllEnded, Ended, CanBegin

\* Who reads a row does it on a transaction that is not broken, and the step
\* that breaks it leaves it so, whoever comes next but the last.
LEMMA StepKeepsBroken ==
  SessionInv /\ BrokenStaysBroken /\ [SessionNext]_sessionVars => BrokenStaysBroken'
<1> SUFFICES ASSUME SessionInv, BrokenStaysBroken, [SessionNext]_sessionVars,
                    NEW d \in Parts', part'[d].cause = "database", ~Def(d)'.rollsBack
             PROVE  broken' \/ (closed' /\ queue' = <<>>) \/ AllEnded'
  BY DEF BrokenStaysBroken, NotUndone
<1>0. Shape /\ Shape'
  BY StepShape DEF SessionInv
<1>1. service' = service
  BY DEF SessionNext, sessionVars, Begin, Opened, PoolTimeout, StatementSucceeds, StatementFails,
         Respond, Close
<1>2. Parts' = Parts /\ ~Def(d).rollsBack /\ d \in Parts
  BY <1>0, <1>1 DEF Def, Shape, Parts
<1>3. CASE StatementFails
  <2>1. queue # <<>> /\ Head(queue) \in Parts /\ part[Head(queue)].at = "queued"
    <3>1. queue # <<>>
      BY <1>3 DEF StatementFails, Idle
    <3>2. Head(queue) = queue[1] /\ 1 \in 1..Len(queue) /\ Head(queue) \in Parts
      BY <1>0, <3>1, HeadAndTail DEF Shape, Parts
    <3> QED  BY <3>1, <3>2 DEF SessionInv, QueueIsOfQueued
  <2>2. PICK h \in Parts : h = Head(queue)
    BY <2>1
  <2>3. CASE ~Def(h).rollsBack
    BY <1>3, <2>2, <2>3 DEF StatementFails
  <2>4. CASE Def(h).rollsBack
    <3>1. part' = Failed(h, "database")
      BY <1>3, <2>2 DEF StatementFails
    <3>2. ASSUME NEW k \in Parts PROVE Ended(k)'
      <4>1. CASE k = h
        BY <1>0, <3>1, <4>1 DEF Failed, Ended, Shape, Parts
      <4>2. CASE k # h
        <5>1. Ended(k)
          BY <1>2, <2>1, <2>2, <2>4, <4>2, RolledBackLast
        <5> QED  BY <1>0, <3>1, <4>2, <5>1 DEF Failed, Ended, Shape, Parts
      <4> QED  BY <4>1, <4>2
    <3> QED  BY <1>2, <3>2 DEF AllEnded
  <2> QED  BY <2>3, <2>4
<1>4. CASE ~StatementFails
  <2>1. part[d].cause = "database"
    <3>1. CASE SessionNext
      BY <1>0, <1>2, <1>4, <3>1, EachPart
    <3>2. CASE UNCHANGED sessionVars
      BY <3>2 DEF sessionVars
    <3> QED  BY <3>1, <3>2
  <2>2. broken \/ (closed /\ queue = <<>>) \/ AllEnded
    BY <1>2, <2>1 DEF BrokenStaysBroken, NotUndone
  <2>3. CASE AllEnded
    <3>1. queue = <<>> /\ \A i \in Parts : ~CanBegin(i)
      BY <2>3, OverIsOver
    <3>2. part' = part
      <4>1. CASE Close
        <5>1. \A i \in Parts : part[i].at # "queued"
          BY <2>3 DEF AllEnded, Ended
        <5> QED  BY <1>0, <4>1, <5>1 DEF Close, Shape, Parts
      <4>2. CASE ~Close
        BY <1>4, <3>1, <4>2 DEF SessionNext, sessionVars, Begin, Opened, PoolTimeout,
           StatementSucceeds, Idle, Respond
      <4> QED  BY <4>1, <4>2
    <3> QED  BY <1>2, <2>3, <3>2 DEF AllEnded, Ended
  <2>4. CASE broken \/ (closed /\ queue = <<>>)
    BY <1>4, <2>4 DEF SessionInv, DoneHasNoTasks, SessionNext, sessionVars, Begin, CanBegin,
         Opened, PoolTimeout, StatementSucceeds, Idle, Respond, Close
  <2> QED  BY <2>2, <2>3, <2>4
<1> QED  BY <1>3, <1>4

\* The transaction stays broken in every reachable state.
LEMMA BrokenHolds == SessionSpec => []BrokenStaysBroken
<1>1. SessionInit => BrokenStaysBroken
  BY DEF SessionInit, BrokenStaysBroken, NotUndone, Parts
<1> QED  BY <1>1, SessionInvHolds, StepKeepsBroken, PTL DEF SessionSpec

-----------------------------------------------------------------------------
\* get_db and asyncio.gather(return_exceptions=True): whatever statements fail,
\* however the parts of any service interleave, a request that waited for all
\* its tasks gives its connection back with nothing under way on it.
THEOREM NothingIsHeld == SessionSpec => []EndedHoldsNothing
<1>1. SessionInv => EndedHoldsNothing
  BY DEF SessionInv
<1> QED  BY <1>1, SessionInvHolds, PTL

\* The handlers of the services answer a failed statement with a default and do
\* not roll back: after the first statement the database refused no other part of
\* the answer gets its data, of any service, however its parts interleave.
THEOREM OneFailureIsAll == SessionSpec => FailureSticks
<1>1. SessionInv /\ BrokenStaysBroken /\ [SessionNext]_sessionVars
        => [(\E i \in Parts : part[i].cause = "database" /\ ~Def(i).rollsBack)
             => \A j \in Parts : (Statements(j) /\ part'[j].at = "real") => part[j].at = "real"]_sessionVars
  <2> SUFFICES ASSUME SessionInv, BrokenStaysBroken, SessionNext,
                      NEW d \in Parts, part[d].cause = "database", ~Def(d).rollsBack,
                      NEW j \in Parts, Statements(j), part'[j].at = "real"
               PROVE  part[j].at = "real"
    OBVIOUS
  <2>1. broken \/ (closed /\ queue = <<>>) \/ AllEnded
    BY DEF BrokenStaysBroken, NotUndone
  <2>2. ~StatementSucceeds
    BY <2>1, OverIsOver DEF StatementSucceeds, Idle
  <2> QED  BY <2>2, EachPart DEF SessionInv
<1> QED  BY <1>1, SessionInvHolds, BrokenHolds, PTL DEF SessionSpec, FailureSticks

-----------------------------------------------------------------------------
(* The one who opens the connection. *)

\* A part that has, or may still get, data of the database.
Served(j) == part[j].at = "queued" \/ (Statements(j) /\ part[j].at = "real")
OneServed == \A i, j \in Parts : Served(i) /\ Served(j) => i = j

\* The connection that is being opened is the first of a gathering service.
OneOpener ==
  (outcome = "none" /\ Gathering(service)) =>
    /\ conn = "none" => \A j \in Parts : ~Served(j)
    /\ conn = "opening" => OneServed

\* A part is refused for the opener's sake only where parts are gathered, and by
\* the time the connection is open, or given up, all of them have begun.
MetTogether ==
  \A m \in Parts : part[m].cause = "met" =>
    /\ ~Alone(m) /\ part[m].at \in {"default", "raised"}
    /\ OneServed
    /\ (outcome = "none" /\ conn # "opening") => \A j \in Parts : part[j].at # "waiting"

\* The parts of a service are numbered.
LEMMA PartNumbers ==
  ASSUME Shape
  PROVE  /\ Parts = DOMAIN Services[service].parts /\ Parts \subseteq Nat \ {0}
         /\ part \in [Parts -> PartStates] /\ Services[service].alone \in Nat
         /\ \A i \in Parts : ~Alone(i) => Gathering(service)
<1>1. /\ Services[service].parts \in Seq(Part) /\ Services[service].alone \in Nat
      /\ DOMAIN part = DOMAIN Services[service].parts
      /\ part \in [DOMAIN Services[service].parts -> PartStates]
  BY ServicesAssumption DEF Shape, Service
<1> HIDE DEF Part, PartStates
<1>2. /\ DOMAIN Services[service].parts = 1..Len(Services[service].parts)
      /\ Len(Services[service].parts) \in Nat
  BY <1>1
<1> QED  BY <1>1, <1>2 DEF Parts, Alone, Gathering

\* No step but Begin serves a part that was not served.
LEMMA OnlyBeginServes ==
  ASSUME SessionInv, [SessionNext]_sessionVars, ~ \E i \in Parts : Begin(i)
  PROVE  /\ service' = service /\ Parts' = Parts
         /\ \A p \in Parts : Served(p)' => Served(p)
         /\ \A p \in Parts : part[p].at \in {"default", "raised"} => part'[p] = part[p]
         /\ \A p \in Parts : part'[p].cause = "met" => part[p].cause = "met"
         /\ \A p \in Parts : part'[p].at = "waiting" => part[p].at = "waiting"
<1>0. /\ Shape /\ Shape' /\ part \in [Parts -> PartStates] /\ queue \in Seq(Parts)
      /\ \A a \in 1..Len(queue) : part[queue[a]].at = "queued"
  BY StepShape DEF SessionInv, Shape, Parts, QueueIsOfQueued
<1>1. service' = service
  BY DEF SessionNext, sessionVars, Begin, Opened, PoolTimeout, StatementSucceeds, StatementFails,
         Respond, Close
<1>2. Parts' = Parts
  BY <1>0, <1>1 DEF Shape, Parts
<1>f. ASSUME NEW i \in Parts, NEW why \in Causes, NEW p \in Parts
      PROVE  /\ Failed(i, why)[i].at \in {"default", "raised"} /\ Failed(i, why)[i].cause = why
             /\ p # i => Failed(i, why)[p] = part[p]
  BY <1>0 DEF Failed
<1>h. queue # <<>> => Head(queue) \in Parts /\ part[Head(queue)].at = "queued"
  <2>1. queue # <<>> => Head(queue) = queue[1] /\ 1 \in 1..Len(queue) /\ Head(queue) \in Parts
    BY <1>0, HeadAndTail
  <2> QED  BY <1>0, <2>1
<1>3. SUFFICES ASSUME NEW p \in Parts
               PROVE  \/ part'[p] = part[p]
                      \/ /\ part[p].at = "queued" /\ part'[p].at # "waiting"
                         /\ part'[p].at \in {"queued", "real"} => part'[p].cause = part[p].cause
                         /\ part'[p].at \in {"default", "raised"} => part'[p].cause # "met"
                         /\ part'[p].at \in {"queued", "real", "default", "raised"}
  BY <1>1, <1>2 DEF Served, Statements, Def
<1>4. CASE Opened \/ Respond \/ UNCHANGED sessionVars
  BY <1>4 DEF Opened, Respond, sessionVars
<1>5. CASE PoolTimeout
  <2>1. part' = Failed(Head(queue), "pool") /\ queue # <<>> /\ "pool" \in Causes
    BY <1>5 DEF PoolTimeout, Idle, Causes
  <2> QED  BY <1>f, <1>h, <2>1
<1>6. CASE StatementFails
  <2>1. part' = Failed(Head(queue), "database") /\ queue # <<>> /\ "database" \in Causes
    BY <1>6 DEF StatementFails, Idle, Causes
  <2> QED  BY <1>f, <1>h, <2>1
<1>7. CASE StatementSucceeds
  <2>0. queue # <<>>
    BY <1>7 DEF StatementSucceeds, Idle
  <2>1. CASE part' = Failed(Head(queue), "data")
    BY <1>f, <1>h, <2>0, <2>1 DEF Causes
  <2>2. CASE part' = [part EXCEPT ![Head(queue)].at = "real", ![Head(queue)].done = 0]
    BY <1>0, <1>h, <2>0, <2>2 DEF PartStates
  <2>3. CASE part' = [part EXCEPT ![Head(queue)].done = part[Head(queue)].done + 1]
    BY <1>0, <1>h, <2>0, <2>3 DEF PartStates
  <2> QED  BY <1>7, <2>1, <2>2, <2>3 DEF StatementSucceeds
<1>8. CASE Close
  <2>1. \/ part' = part
        \/ part' = [i \in Parts |-> IF part[i].at = "queued" THEN Failed(i, "closed")[i] ELSE part[i]]
    BY <1>8 DEF Close
  <2>2. "closed" \in Causes
    BY DEF Causes
  <2> QED  BY <1>f, <2>1, <2>2
<1> QED  BY <1>4, <1>5, <1>6, <1>7, <1>8 DEF SessionNext

\* What a task does with the session when it begins.
LEMMA BeginServes ==
  ASSUME SessionInv, NEW i \in Parts, Begin(i)
  PROVE  /\ service' = service /\ Parts' = Parts /\ outcome = "none" /\ outcome' = "none"
         /\ part[i].at = "waiting"
         /\ \A p \in Parts \ {i} : part'[p] = part[p]
         /\ \/ /\ conn' = conn /\ ~Served(i)' /\ part'[i].at # "waiting"
               /\ \/ part'[i].cause = part[i].cause
                  \/ /\ conn = "opening" /\ part'[i].cause = "met"
                     /\ part'[i].at \in {"default", "raised"}
            \/ /\ conn = "none" /\ conn' \in {"opening", "open"}
               /\ part'[i].cause = part[i].cause /\ part'[i].at = "queued"
            \/ /\ conn # "opening" /\ conn' = "open"
               /\ part'[i].cause = part[i].cause /\ part'[i].at = "queued"
<1>0. Shape /\ part \in [Parts -> PartStates]
  BY DEF SessionInv, Shape, Parts
<1>1. service' = service /\ outcome = "none" /\ outcome' = "none" /\ part[i].at = "waiting"
  BY DEF Begin, CanBegin
<1>2. Parts' = Parts /\ \A p \in Parts \ {i} : part'[p] = part[p]
  BY <1>0 DEF Begin, Failed, Parts
<1>3. CASE Def(i).most = 0 /\ part' = [part EXCEPT ![i].at = "real"] /\ conn' = conn
  <2>1. part'[i].at = "real" /\ part'[i].cause = part[i].cause
    BY <1>0, <1>3 DEF PartStates
  <2>2. ~Statements(i)'
    BY <1>1, <1>3 DEF Statements, Def
  <2> QED  BY <1>1, <1>2, <1>3, <2>1, <2>2 DEF Served
<1>4. CASE conn = "opening" /\ part' = Failed(i, "met") /\ conn' = conn
  <2>1. part'[i].at \in {"default", "raised"} /\ part'[i].cause = "met"
    BY <1>0, <1>4 DEF Failed
  <2> QED  BY <1>1, <1>2, <1>4, <2>1 DEF Served
<1>5. CASE conn # "opening" /\ part' = [part EXCEPT ![i].at = "queued"]
           /\ conn' \in IF conn = "none" THEN {"opening", "open"} ELSE {"open"}
  <2>1. part'[i].at = "queued" /\ part'[i].cause = part[i].cause
    BY <1>0, <1>5 DEF PartStates
  <2> QED  BY <1>1, <1>2, <1>5, <2>1
<1> QED  BY <1>3, <1>4, <1>5 DEF Begin

\* While the connection is opened nobody but the opener can be served: others are
\* refused at once, and a wait in vain ends with nobody served.
LEMMA StepOneOpener == SessionInv /\ OneOpener /\ [SessionNext]_sessionVars => OneOpener'
<1> SUFFICES ASSUME SessionInv, OneOpener, [SessionNext]_sessionVars,
                    outcome' = "none", Gathering(service)'
             PROVE  /\ conn' = "none" => \A j \in Parts' : ~Served(j)'
                    /\ conn' = "opening" => OneServed'
  BY DEF OneOpener
<1>0. outcome = "none"
  BY DEF SessionNext, sessionVars, Begin, Opened, PoolTimeout, StatementSucceeds, StatementFails,
         Respond, Close
<1>1. ASSUME NEW i \in Parts, Begin(i)
      PROVE  /\ conn' = "none" => \A j \in Parts' : ~Served(j)'
             /\ conn' = "opening" => OneServed'
  <2>1. Gathering(service) /\ \A p \in Parts \ {i} : Served(p)' => Served(p)
    BY <1>1, BeginServes DEF Gathering, Served, Statements, Def
  <2>2. /\ conn = "none" => \A j \in Parts : ~Served(j)
        /\ conn = "opening" => OneServed
    BY <1>0, <2>1 DEF OneOpener
  <2>3. CASE conn' = conn /\ ~Served(i)'
    BY <1>1, <2>1, <2>2, <2>3, BeginServes DEF OneServed
  <2>4. CASE conn = "none" /\ conn' \in {"opening", "open"}
    BY <1>1, <2>1, <2>2, <2>4, BeginServes DEF OneServed
  <2> QED  BY <1>1, <2>3, <2>4, BeginServes
<1>2. ASSUME ~ \E i \in Parts : Begin(i)
      PROVE  /\ conn' = "none" => \A j \in Parts' : ~Served(j)'
             /\ conn' = "opening" => OneServed'
  <2>1. /\ service' = service /\ Parts' = Parts /\ Gathering(service)
        /\ \A p \in Parts : Served(p)' => Served(p)
        /\ \A p \in Parts : part[p].at \in {"default", "raised"} => part'[p] = part[p]
    BY <1>2, OnlyBeginServes DEF Gathering
  <2>2. /\ conn = "none" => \A j \in Parts : ~Served(j)
        /\ conn = "opening" => OneServed
    BY <1>0, <2>1 DEF OneOpener
  <2>h. queue # <<>> => Head(queue) \in Parts /\ part[Head(queue)].at = "queued"
    <3>1. queue # <<>> => Head(queue) = queue[1] /\ 1 \in 1..Len(queue) /\ Head(queue) \in Parts
      BY HeadAndTail DEF SessionInv, Shape
    <3> QED  BY <3>1 DEF SessionInv, QueueIsOfQueued
  <2>s. Shape
    BY DEF SessionInv
  <2>3. CASE PoolTimeout
    <3>0. PICK h \in Parts : h = Head(queue) /\ part[h].at = "queued"
      BY <2>3, <2>h DEF PoolTimeout, Idle
    <3>1. conn = "opening" /\ part' = Failed(h, "pool")
      BY <2>3, <3>0 DEF PoolTimeout
    <3>2. ~Served(h)'
      <4>1. part \in [Parts -> PartStates]
        BY <2>s, PartNumbers
      <4>2. part'[h].at \in {"default", "raised"}
        BY <3>1, <4>1 DEF Failed
      <4> QED  BY <4>2 DEF Served
    <3>3. Served(h)
      BY <3>0 DEF Served
    <3>4. \A j \in Parts : Served(j) => j = h
      BY <2>2, <3>1, <3>3 DEF OneServed
    <3>5. \A j \in Parts : ~Served(j)'
      BY <2>1, <3>2, <3>4
    <3> QED  BY <2>1, <3>5 DEF OneServed
  <2>4. CASE StatementSucceeds \/ StatementFails
    <3>1. conn = "open" /\ queue # <<>>
      BY <2>4 DEF StatementSucceeds, StatementFails, Idle
    <3>2. ~Def(Head(queue)).commits /\ ~Def(Head(queue)).rollsBack
      BY <2>1, <2>h, <2>s, <3>1, GatheringAssumption, PartNumbers DEF Def, Shape
    <3>3. conn' = "open"
      BY <2>4, <3>1, <3>2 DEF StatementSucceeds, StatementFails
    <3> QED  BY <3>3
  <2>5. CASE Opened
    BY <2>5 DEF Opened
  <2>6. CASE UNCHANGED sessionVars
    BY <2>1, <2>2, <2>6 DEF sessionVars, OneServed
  <2>7. CASE Respond \/ Close
    BY <1>0, <2>7 DEF Respond, Close
  <2> QED  BY <1>2, <2>3, <2>4, <2>5, <2>6, <2>7 DEF SessionNext
<1> QED  BY <1>1, <1>2

\* A part that is awaited alone meets nobody.
LEMMA AloneMeetsNobody ==
  ASSUME SessionInv, NEW i \in Parts, CanBegin(i), conn = "opening"
  PROVE  ~Alone(i)
<1> SUFFICES ASSUME Alone(i) PROVE FALSE
  OBVIOUS
<1>1. /\ Parts \subseteq Nat \ {0} /\ queue # <<>> /\ queue \in Seq(Parts)
      /\ Services[service].alone \in Nat
  BY PartNumbers DEF SessionInv, OpeningHasOpener, Shape
<1>2. Head(queue) \in Parts /\ part[Head(queue)].at = "queued"
  <2>1. Head(queue) = queue[1] /\ 1 \in 1..Len(queue) /\ Head(queue) \in Parts
    BY <1>1, HeadAndTail
  <2> QED  BY <2>1 DEF SessionInv, QueueIsOfQueued
<1>3. CASE Head(queue) < i
  <2>1. Alone(Head(queue))
    BY <1>1, <1>2, <1>3 DEF Alone
  <2> QED  BY <1>2, <1>3, <2>1 DEF CanBegin, Ended
<1>4. CASE i < Head(queue)
  <2>1. part[i].at \in {"real", "default"}
    BY <1>2, <1>4 DEF SessionInv, AwaitedInTurn
  <2> QED  BY <2>1 DEF CanBegin
<1>5. CASE i = Head(queue)
  BY <1>2, <1>5 DEF CanBegin
<1>6. Head(queue) \in Nat /\ i \in Nat
  BY <1>1, <1>2
<1> QED  BY <1>3, <1>4, <1>5, <1>6

\* While one of the gathered parts has begun and another has not, some part can.
LEMMA SomeCanBegin ==
  ASSUME SessionInv, outcome = "none", NEW m \in Parts, ~Alone(m), part[m].at # "waiting",
         NEW w \in Parts, part[w].at = "waiting"
  PROVE  \E i \in Parts : CanBegin(i)
<1>1. Parts \subseteq Nat \ {0} /\ Services[service].alone \in Nat
  BY PartNumbers DEF SessionInv
<1> DEFINE S == {j \in Parts : part[j].at = "waiting"}
<1>2. PICK i \in S : \A j \in S : i <= j
  <2>1. S \in SUBSET Nat /\ S # {}
    BY <1>1
  <2> HIDE DEF S
  <2> QED  BY <2>1, SmallestExists
<1>3. \A j \in Parts : Alone(j) => part[j].at \in {"real", "default"}
  <2>1. \A j \in Parts : Alone(j) => j < m
    BY <1>1 DEF Alone
  <2> QED  BY <2>1 DEF SessionInv, AwaitedInTurn
<1>4. ASSUME NEW j \in Parts, j < i
      PROVE  part[j].at # "waiting"
  <2>1. i \in Nat /\ j \in Nat /\ ~ (i <= j)
    BY <1>1, <1>2, <1>4
  <2>2. j \notin S
    BY <1>2, <2>1
  <2> QED  BY <2>2
<1>5. CanBegin(i)
  BY <1>2, <1>3, <1>4 DEF CanBegin, Ended
<1> QED  BY <1>2, <1>5

\* Who is refused has met the opener: all that are gathered begin before the
\* connection can be there, so that each of them is refused as well.
LEMMA StepMet == SessionInv /\ OneOpener /\ MetTogether /\ [SessionNext]_sessionVars => MetTogether'
<1> SUFFICES ASSUME SessionInv, OneOpener, MetTogether, [SessionNext]_sessionVars,
                    NEW m \in Parts', part'[m].cause = "met"
             PROVE  /\ ~Alone(m)' /\ part'[m].at \in {"default", "raised"}
                    /\ OneServed'
                    /\ (outcome' = "none" /\ conn' # "opening") => \A j \in Parts' : part'[j].at # "waiting"
  BY DEF MetTogether
<1>1. ASSUME NEW i \in Parts, Begin(i)
      PROVE  /\ ~Alone(m)' /\ part'[m].at \in {"default", "raised"}
             /\ OneServed'
             /\ (outcome' = "none" /\ conn' # "opening") => \A j \in Parts' : part'[j].at # "waiting"
  <2>1. /\ service' = service /\ Parts' = Parts /\ outcome = "none" /\ part[i].at = "waiting"
        /\ \A p \in Parts \ {i} : part'[p] = part[p]
        /\ \A p \in Parts \ {i} : Served(p)' => Served(p)
        /\ \A p \in Parts : Alone(p)' = Alone(p)
    BY <1>1, BeginServes DEF Served, Statements, Def, Alone
  <2>2. ASSUME NEW k \in Parts, part[k].cause = "met"
        PROVE  conn = "opening" /\ k # i
    BY <1>1, <2>1, <2>2 DEF MetTogether
  <2>3. conn = "opening"
    BY <1>1, <2>1, <2>2, BeginServes
  <2>4. conn' = "opening" /\ ~Served(i)'
    BY <1>1, <2>3, BeginServes
  <2>5. ~Alone(i)
    BY <1>1, <2>3, AloneMeetsNobody DEF Begin
  <2>6. Gathering(service)
    BY <2>5, PartNumbers DEF SessionInv
  <2>7. OneServed
    BY <2>1, <2>3, <2>6 DEF OneOpener
  <2>8. OneServed'
    BY <2>1, <2>4, <2>7 DEF OneServed
  <2>9. CASE m = i
    <3>1. part[i].cause # "met"
      BY <2>2
    <3>2. part'[i].at \in {"default", "raised"}
      BY <1>1, <2>3, <2>9, <3>1, BeginServes
    <3> QED  BY <2>1, <2>4, <2>5, <2>8, <2>9, <3>2
  <2>10. CASE m # i
    <3>1. part'[m] = part[m]
      BY <2>1, <2>10
    <3>2. ~Alone(m) /\ part[m].at \in {"default", "raised"}
      BY <2>1, <3>1 DEF MetTogether
    <3> QED  BY <2>1, <2>4, <2>8, <3>1, <3>2
  <2> QED  BY <2>9, <2>10
<1>2. ASSUME ~ \E i \in Parts : Begin(i)
      PROVE  /\ ~Alone(m)' /\ part'[m].at \in {"default", "raised"}
             /\ OneServed'
             /\ (outcome' = "none" /\ conn' # "opening") => \A j \in Parts' : part'[j].at # "waiting"
  <2>1. /\ service' = service /\ Parts' = Parts
        /\ \A p \in Parts : Served(p)' => Served(p)
        /\ \A p \in Parts : part[p].at \in {"default", "raised"} => part'[p] = part[p]
        /\ \A p \in Parts : part'[p].cause = "met" => part[p].cause = "met"
        /\ \A p \in Parts : part'[p].at = "waiting" => part[p].at = "waiting"
    BY <1>2, OnlyBeginServes
  <2>2. /\ ~Alone(m) /\ part[m].at \in {"default", "raised"} /\ OneServed
        /\ (outcome = "none" /\ conn # "opening") => \A j \in Parts : part[j].at # "waiting"
    BY <2>1 DEF MetTogether
  <2>3. ~Alone(m)' /\ part'[m].at \in {"default", "raised"} /\ OneServed'
    BY <2>1, <2>2 DEF Alone, OneServed
  <2>4. ASSUME outcome' = "none", conn' # "opening", NEW w \in Parts, part'[w].at = "waiting"
        PROVE  FALSE
    <3>1. outcome = "none" /\ part[w].at = "waiting"
      BY <2>1, <2>4 DEF SessionNext, sessionVars, Begin, Opened, PoolTimeout, StatementSucceeds,
         StatementFails, Respond, Close
    <3>2. conn = "opening"
      BY <2>2, <3>1
    <3>3. \A i \in Parts : ~CanBegin(i)
      BY <1>2, <2>4, <3>2 DEF SessionNext, sessionVars, Opened, PoolTimeout, StatementSucceeds,
         StatementFails, Idle, Respond, Close
    <3>4. m \in Parts /\ ~Alone(m) /\ part[m].at # "waiting"
      BY <2>1, <2>2
    <3> QED  BY <3>1, <3>3, <3>4, SomeCanBegin
  <2> QED  BY <2>1, <2>3, <2>4
<1> QED  BY <1>1, <1>2

\* All of it holds in every reachable state.
LEMMA MetTogetherHolds == SessionSpec => [](SessionInv /\ OneOpener /\ MetTogether)
<1>1. SessionInit => OneOpener /\ MetTogether
  BY DEF SessionInit, OneOpener, MetTogether, Served, OneServed, Parts
<1> QED  BY <1>1, SessionInvHolds, StepOneOpener, StepMet, PTL DEF SessionSpec

\* AsyncSession: the tasks of a gather do not share the wait for a connection, so
\* if one was refused for it, at most one of all parts of the service gets its data.
THEOREM OthersAreRefused == SessionSpec => []OnlyTheOpenerSurvives
<1>1. MetTogether => OnlyTheOpenerSurvives
  <2> SUFFICES ASSUME MetTogether, NEW m \in Parts, part[m].cause = "met"
               PROVE  Cardinality({i \in Parts : Statements(i) /\ part[i].at = "real"}) <= 1
    BY DEF OnlyTheOpenerSurvives
  <2> DEFINE X == {i \in Parts : Statements(i) /\ part[i].at = "real"}
  <2>1. \A i, j \in X : i = j
    BY DEF MetTogether, OneServed, Served
  <2> HIDE DEF X
  <2>2. X = {} => Cardinality(X) <= 1
    BY FS_EmptySet
  <2>3. ASSUME X # {}
        PROVE  Cardinality(X) <= 1
    <3>1. PICK i \in X : X = {i}
      BY <2>1, <2>3
    <3>2. Cardinality({i}) = 1
      BY FS_Singleton
    <3> QED  BY <3>1, <3>2
  <2>4. Cardinality(X) <= 1
    BY <2>2, <2>3
  <2> QED  BY <2>4 DEF X
<1> QED  BY <1>1, MetTogetherHolds, PTL

-----------------------------------------------------------------------------
(* The handler of a request: the invariant. *)

\* Where a request is, and what an answer tells of the exception before it.
Progress ==
  /\ route \in Routes /\ at \in Nat \ {0}
  /\ pending \in BOOLEAN /\ stored \in BOOLEAN /\ lost \in BOOLEAN /\ outside \in BOOLEAN
  /\ over \in BOOLEAN
  /\ raised \in Raised \cup {"none"} /\ answer \in Statuses \cup {"none", "200"}
  /\ task \in {"none", "sent", "asked", "found", "not found"}
  /\ answer = "200" => raised = "none" /\ at > Len(AllSteps)
  /\ answer \in Statuses => raised # "none" /\ answer = Clauses[raised]
  /\ raised # "none" => at <= Len(AllSteps)

\* What lasts comes from a step after which no exception is passed on.
ActedLast ==
  route \notin CanFailAfterwards =>
    /\ (raised = "none" /\ answer = "none" /\ at <= Len(AllSteps)) => ~Unreached(route, at)
    /\ (stored \/ outside) => raised = "none"
    /\ ((stored \/ outside) /\ answer = "none") =>
         \E i \in 1..(at - 1) : /\ i <= Len(AllSteps) /\ ~Unreached(route, i)
                                /\ AllSteps[i].does \in Lasting

\* A change that is pending is on its way to its commit.
PendingIsHeld ==
  route \notin AnswersAnyway =>
    /\ (pending /\ raised = "none" /\ answer = "none") =>
         \E i, c \in DOMAIN AllSteps : /\ AllSteps[i].does = "change" /\ HeldUntil(route, i, c)
                                       /\ i < at /\ at <= c
    /\ answer = "200" => ~pending
    /\ lost => raised # "none"

\* The exception of a step is answered with its own status.
StatusIsKept ==
  (route \notin CatchesItsOwn /\ raised \in Statuses) => Clauses[raised] = raised

\* Once a change and its commit are behind a request, the change is stored.
SavedIsStored ==
  route # CreateBulkExport =>
    /\ \A c \in DOMAIN AllSteps : \A a \in 1..c :
         (Saves(route, a, c) /\ raised = "none" /\ answer = "none" /\ at <= Len(AllSteps)) =>
           /\ at > c => stored
           /\ at > a => pending \/ stored
    /\ task = "sent" => stored
    /\ task \in {"asked", "not found"} => Asks(route)

\* Whoever is past a step that waits for the task has a task that found its row.
WaitedFor ==
  \A c \in DOMAIN AllSteps :
    (/\ AllSteps[c].does = "wait" /\ AllSteps[c].skips = 0 /\ NoWayAround(route, 1, c)
     /\ raised = "none" /\ at > c)
      => task = "found"

RequestInv ==
  Progress /\ ActedLast /\ PendingIsHeld /\ StatusIsKept /\ SavedIsStored /\ WaitedFor

-----------------------------------------------------------------------------
(* What a step of a handler does. *)

\* The steps of a handler are those before and in its try.
LEMMA StepsTyped ==
  ASSUME NEW r \in Routes
  PROVE  /\ StepsOf(r) \in Seq(Step) /\ Len(StepsOf(r)) \in Nat
         /\ DOMAIN StepsOf(r) = 1..Len(StepsOf(r))
         /\ \A i \in 1..Len(StepsOf(r)) : StepsOf(r)[i] \in Step
<1>1. r.bare \in Seq(Step) /\ r.tried \in Seq(Step)
  BY RoutesAssumption DEF Route
<1>2. StepsOf(r) \in Seq(Step)
  BY <1>1 DEF StepsOf
<1> HIDE DEF Step
<1> QED  BY <1>2

\* What Progress says of the next step.
LEMMA CurrentTyped ==
  ASSUME Progress
  PROVE  /\ AllSteps = StepsOf(route) /\ Len(AllSteps) \in Nat /\ DOMAIN AllSteps = 1..Len(AllSteps)
         /\ at \in Nat \ {0}
         /\ Running => /\ at \in 1..Len(AllSteps) /\ Current = AllSteps[at]
                       /\ Current.skips \in Nat /\ Current.raises \in SUBSET Raised
                       /\ Current.works \in BOOLEAN
<1>1. route \in Routes /\ at \in Nat \ {0}
  BY DEF Progress
<1>2. /\ AllSteps = StepsOf(route) /\ Len(AllSteps) \in Nat /\ DOMAIN AllSteps = 1..Len(AllSteps)
      /\ \A i \in 1..Len(AllSteps) : AllSteps[i] \in Step
  BY <1>1, StepsTyped DEF AllSteps
<1>3. Running => at \in 1..Len(AllSteps) /\ Current = AllSteps[at]
  BY <1>1, <1>2 DEF Running, Current
<1>4. Running => Current \in Step
  BY <1>2, <1>3
<1>5. \A s \in Step : s.skips \in Nat /\ s.raises \in SUBSET Raised /\ s.works \in BOOLEAN
  BY DEF Step
<1> QED  BY <1>1, <1>2, <1>3, <1>4, <1>5

\* How a step of the handler moves.
LEMMA SucceedMoves ==
  ASSUME Progress, Succeed
  PROVE  /\ Running /\ at' \in {at + 1, Len(AllSteps) + 1} /\ at' \in Nat \ {0}
         /\ at' # at + 1 => Current.does = "return"
         /\ Works /\ Current.works
         /\ route' = route /\ AllSteps' = AllSteps
         /\ raised' = "none" /\ answer' = "none" /\ lost' = lost /\ over' = over
<1>1. Running /\ Len(AllSteps) \in Nat /\ at \in Nat \ {0}
  BY CurrentTyped DEF Succeed
<1>2. at' \in {at + 1, Len(AllSteps) + 1} /\ (at' # at + 1 => Current.does = "return")
  BY DEF Succeed
<1> QED  BY <1>1, <1>2 DEF Succeed, Works, Running, AllSteps

\* An exception is caught and logged, or is on its way.
LEMMA RaiseMoves ==
  ASSUME Progress, Raise
  PROVE  /\ Running
         /\ route' = route /\ AllSteps' = AllSteps /\ answer' = "none"
         /\ outside' = outside /\ over' = over /\ task' = task
         /\ \/ Current.skips > 0 /\ at' = at + Current.skips /\ raised' = "none"
            \/ Current.skips = 0 /\ raised' \in Current.raises /\ at' = at
  BY DEF Raise, Running, AllSteps

\* Every step keeps the types and what the answer tells.
LEMMA StepProgress == Progress /\ [RequestNext]_requestVars => Progress'
<1> SUFFICES ASSUME Progress, [RequestNext]_requestVars PROVE Progress'
  OBVIOUS
<1>0. /\ route \in Routes /\ at \in Nat \ {0}
      /\ pending \in BOOLEAN /\ stored \in BOOLEAN /\ lost \in BOOLEAN /\ outside \in BOOLEAN
      /\ over \in BOOLEAN /\ Len(AllSteps) \in Nat
  BY CurrentTyped DEF Progress
<1>a. "none" \notin Statuses
  BY DEF Statuses
<1>1. CASE Succeed
  <2>1. pending' \in BOOLEAN /\ stored' \in BOOLEAN /\ outside' \in BOOLEAN
    BY <1>0, <1>1 DEF Succeed
  <2>2. task' \in {"none", "sent", "asked", "found", "not found"}
    BY <1>1 DEF Succeed, TaskAfter, Progress
  <2> QED  BY <1>0, <1>a, <1>1, <2>1, <2>2, SucceedMoves DEF Progress
<1>2. CASE Raise
  <2>1. /\ Current.skips \in Nat /\ Current.raises \in SUBSET Raised /\ at \in 1..Len(AllSteps)
    BY <1>2, RaiseMoves, CurrentTyped
  <2>2. pending' \in BOOLEAN /\ stored' \in BOOLEAN /\ lost' \in BOOLEAN
    BY <1>0, <1>2 DEF Raise
  <2>3. "none" \notin Raised
    BY DEF Raised, Statuses
  <2>4. /\ at' \in Nat \ {0} /\ raised' \in Raised \cup {"none"}
        /\ raised' # "none" => at' <= Len(AllSteps)
    BY <1>0, <1>2, <2>1, <2>3, RaiseMoves
  <2> QED  BY <1>0, <1>a, <1>2, <2>2, <2>4, RaiseMoves DEF Progress
<1>3. CASE AnswerError
  <2>1. Clauses[raised] \in Statuses
    <3>1. route.answers \in [Raised -> Statuses] /\ raised \in Raised
      BY <1>3, RoutesAssumption DEF AnswerError, Progress, Route
    <3>2. AsRaised \in [Raised -> Statuses]
      BY DEF AsRaised, Statuses
    <3> QED  BY <3>1, <3>2 DEF Clauses
  <2>2. "200" \notin Statuses /\ "none" \notin Statuses
    BY DEF Statuses
  <2>3. Clauses' = Clauses /\ AllSteps' = AllSteps
    BY <1>3 DEF AnswerError, Clauses, AllSteps
  <2>4. lost' \in BOOLEAN /\ pending' \in BOOLEAN /\ over' \in BOOLEAN
    BY <1>0, <1>3 DEF AnswerError
  <2> QED  BY <1>0, <1>3, <2>1, <2>2, <2>3, <2>4 DEF AnswerError, Progress
<1>4. CASE AnswerOk
  <2>1. "200" \notin Statuses /\ AllSteps' = AllSteps
    BY <1>4 DEF Statuses, AnswerOk, AllSteps
  <2> QED  BY <1>0, <1>4, <2>1 DEF AnswerOk, Progress
<1>5. CASE EndSession
  <2>1. "200" \notin Statuses /\ AllSteps' = AllSteps
    BY <1>5 DEF Statuses, EndSession, AllSteps
  <2>2. stored' \in BOOLEAN /\ lost' \in BOOLEAN /\ pending' \in BOOLEAN /\ over' \in BOOLEAN
    BY <1>0, <1>5 DEF EndSession
  <2> QED  BY <1>0, <1>5, <2>1, <2>2 DEF EndSession, Progress
<1>6. CASE StartTask
  <2>1. AllSteps' = AllSteps /\ Clauses' = Clauses
    BY <1>6 DEF StartTask, AllSteps, Clauses
  <2> QED  BY <1>0, <1>6, <2>1 DEF StartTask, Progress
<1>7. CASE UNCHANGED requestVars
  <2>1. AllSteps' = AllSteps /\ Clauses' = Clauses
    BY <1>7 DEF requestVars, AllSteps, Clauses
  <2> QED  BY <1>7, <2>1 DEF requestVars, Progress
<1> QED  BY <1>1, <1>2, <1>3, <1>4, <1>5, <1>6, <1>7 DEF RequestNext

\* An error is answered with a status.
LEMMA ErrorHasStatus ==
  ASSUME Progress, AnswerError
  PROVE  answer' \in Statuses /\ answer' # "none" /\ answer' # "200"
<1>1. route.answers \in [Raised -> Statuses] /\ raised \in Raised
  BY RoutesAssumption DEF AnswerError, Progress, Route
<1>2. AsRaised \in [Raised -> Statuses]
  BY DEF AsRaised, Statuses
<1>3. answer' \in Statuses
  BY <1>1, <1>2 DEF AnswerError, Clauses
<1> QED  BY <1>3 DEF Statuses

\* What was before a step is before every later one.
LEMMA StepsBefore ==
  ASSUME NEW m \in Nat \ {0}, NEW n \in Nat, m < n
  PROVE  1..(m - 1) \subseteq 1..(n - 1) /\ m \in 1..(n - 1)
  OBVIOUS

\* Who is behind all steps is behind each of them.
LEMMA BehindTheEnd ==
  ASSUME NEW n \in Nat, NEW m \in Nat, NEW c \in 1..n, m > n
  PROVE  m > c
  OBVIOUS

\* No way leads to a step that cannot be reached.
LEMMA NextIsReached ==
  ASSUME Progress, NEW n \in Nat, n <= Len(AllSteps),
         Running, ~Unreached(route, at), Unreached(route, n),
         \/ n = at + 1 /\ Current.works
         \/ n = at + Current.skips /\ Current.skips > 0
  PROVE  FALSE
<1>1. /\ AllSteps = StepsOf(route) /\ at \in Nat \ {0} /\ Current = AllSteps[at]
      /\ Current.skips \in Nat
  BY CurrentTyped
<1>2. PICK c \in 1..(n - 1) :
        ~AllSteps[c].works /\ AllSteps[c].skips = 0 /\ NoWayAround(route, 1, c)
  BY <1>1 DEF Unreached
<1>3. CASE c < at
  <2>1. c \in 1..(at - 1)
    BY <1>1, <1>2, <1>3
  <2> QED  BY <1>1, <1>2, <2>1 DEF Unreached
<1>4. CASE c = at
  BY <1>1, <1>2, <1>4
<1>5. CASE c > at
  <2>1. at \in 1..(c - 1) /\ n # at + 1
    BY <1>1, <1>2, <1>5
  <2>2. at + Current.skips <= c
    BY <1>1, <1>2, <2>1 DEF NoWayAround
  <2> QED  BY <1>1, <1>2, <2>1, <2>2
<1> QED  BY <1>1, <1>2, <1>3, <1>4, <1>5

\* A step that lasts is followed by steps that cannot fail, or that catch their
\* exceptions: whatever is raised later, nothing was done before it.
LEMMA StepActedLast == RequestInv /\ [RequestNext]_requestVars => ActedLast'
<1> SUFFICES ASSUME RequestInv, [RequestNext]_requestVars, route' \notin CanFailAfterwards
             PROVE  ActedLast'
  BY DEF ActedLast
<1>0. /\ Progress /\ route' = route /\ AllSteps' = AllSteps /\ AllSteps = StepsOf(route)
      /\ at \in Nat \ {0} /\ Len(AllSteps) \in Nat
  BY CurrentTyped DEF RequestInv, RequestNext, requestVars, Succeed, Raise, AnswerError, AnswerOk,
                      EndSession, StartTask, AllSteps
<1>1. /\ (raised = "none" /\ answer = "none" /\ at <= Len(AllSteps)) => ~Unreached(route, at)
      /\ (stored \/ outside) => raised = "none"
      /\ ((stored \/ outside) /\ answer = "none") =>
           \E i \in 1..(at - 1) : /\ i <= Len(AllSteps) /\ ~Unreached(route, i)
                                  /\ AllSteps[i].does \in Lasting
  BY <1>0 DEF RequestInv, ActedLast
<1>2. ActsLast(route)
  BY <1>0, HandlersAssumption DEF Progress
<1>3. SUFFICES
        /\ (raised' = "none" /\ answer' = "none" /\ at' <= Len(AllSteps)) => ~Unreached(route, at')
        /\ (stored' \/ outside') => raised' = "none"
        /\ ((stored' \/ outside') /\ answer' = "none") =>
             \E i \in 1..(at' - 1) : /\ i <= Len(AllSteps) /\ ~Unreached(route, i)
                                     /\ AllSteps[i].does \in Lasting
  BY <1>0 DEF ActedLast, Unreached, NoWayAround
<1>4. CASE Succeed
  <2>1. /\ Running /\ at' \in {at + 1, Len(AllSteps) + 1} /\ at' \in Nat \ {0} /\ Current.works
        /\ at \in 1..Len(AllSteps) /\ Current = AllSteps[at] /\ raised = "none" /\ answer = "none"
        /\ raised' = "none" /\ answer' = "none"
    BY <1>0, <1>4, SucceedMoves, CurrentTyped DEF Running
  <2>2. at' <= Len(AllSteps) => ~Unreached(route, at')
    BY <1>0, <1>1, <2>1, NextIsReached
  <2>3. (stored' \/ outside')
          => (stored \/ outside \/ Current.does \in Lasting)
    BY <1>4 DEF Succeed, Lasting
  <2>4. 1..(at - 1) \subseteq 1..(at' - 1) /\ at \in 1..(at' - 1)
    <3>1. at < at' /\ at' \in Nat
      BY <1>0, <2>1
    <3> QED  BY <1>0, <3>1, StepsBefore
  <2>5. CASE stored \/ outside
    BY <1>1, <2>1, <2>2, <2>4, <2>5
  <2>6. CASE Current.does \in Lasting
    <3>1. at <= Len(AllSteps)
      BY <1>0, <2>1
    <3>2. ~Unreached(route, at) /\ AllSteps[at].does \in Lasting
      BY <1>1, <2>1, <2>6, <3>1
    <3> QED  BY <2>1, <2>2, <2>4, <3>1, <3>2
  <2> QED  BY <2>1, <2>2, <2>3, <2>5, <2>6
<1>5. CASE Raise
  <2>1. /\ Running /\ at \in 1..Len(AllSteps) /\ Current = AllSteps[at] /\ raised = "none"
        /\ answer = "none"
        /\ Current.skips \in Nat /\ Current.raises \in SUBSET Raised /\ outside' = outside
    BY <1>0, <1>5, RaiseMoves, CurrentTyped DEF Running
  <2>2. CASE Current.skips > 0
    <3>1. at' = at + Current.skips /\ raised' = "none" /\ at' \in Nat
      BY <1>0, <1>5, <2>1, <2>2, RaiseMoves
    <3>2. at' <= Len(AllSteps) => ~Unreached(route, at')
      BY <1>0, <1>1, <2>1, <2>2, <3>1, NextIsReached
    <3>3. stored' => (stored \/ Current.does = "commit")
      BY <1>5 DEF Raise
    <3>4. 1..(at - 1) \subseteq 1..(at' - 1) /\ at \in 1..(at' - 1)
      BY <1>0, <2>1, <2>2, <3>1
    <3>5. CASE stored \/ outside
      BY <1>1, <2>1, <3>1, <3>2, <3>4, <3>5
    <3>6. CASE ~stored /\ ~outside
      BY <1>1, <2>1, <3>1, <3>2, <3>3, <3>4, <3>6 DEF Lasting
    <3> QED  BY <3>5, <3>6
  <2>3. CASE Current.skips = 0
    <3>1. at' = at /\ raised' \in Current.raises /\ Current.raises # {}
      BY <1>0, <1>5, <2>1, <2>3, RaiseMoves
    <3>2. raised' # "none"
      BY <2>1, <3>1 DEF Raised, Statuses
    <3>3. ~stored /\ ~outside
      <4> SUFFICES ASSUME stored \/ outside PROVE FALSE
        OBVIOUS
      <4>1. PICK i \in 1..(at - 1) : /\ i <= Len(AllSteps) /\ ~Unreached(route, i)
                                     /\ AllSteps[i].does \in Lasting
        BY <1>1, <2>1
      <4>2. i \in DOMAIN AllSteps /\ at \in DOMAIN AllSteps /\ i < at
        BY <1>0, <2>1, <4>1, CurrentTyped
      <4> QED  BY <1>0, <1>2, <2>1, <2>3, <3>1, <4>1, <4>2 DEF ActsLast
    <3>4. Current.does = "commit" => "timeout" \notin Current.raises
      <4>1. at \in DOMAIN AllSteps
        BY <1>0, <2>1, CurrentTyped
      <4> QED  BY <1>0, <1>2, <2>1, <2>3, <4>1 DEF ActsLast
    <3>5. ~stored'
      BY <1>5, <3>3, <3>4 DEF Raise
    <3> QED  BY <2>1, <3>2, <3>3, <3>5
  <2> QED  BY <2>1, <2>2, <2>3
<1>6. CASE AnswerError
  <2>1. /\ stored' = stored /\ outside' = outside /\ raised' = raised /\ raised # "none"
        /\ answer' # "none"
    BY <1>0, <1>6, ErrorHasStatus DEF AnswerError
  <2> QED  BY <1>1, <2>1
<1>7. CASE AnswerOk \/ EndSession
  BY <1>1, <1>7 DEF AnswerOk, EndSession, RequestInv, Progress
<1>8. CASE StartTask
  BY <1>1, <1>8 DEF StartTask
<1>9. CASE UNCHANGED requestVars
  BY <1>1, <1>9 DEF requestVars
<1> QED  BY <1>4, <1>5, <1>6, <1>7, <1>8, <1>9 DEF RequestNext

\* Between a change and its commit no step leads out of the handler, and an
\* exception there is answered with an error, so that an answer 200 finds nothing
\* left to commit.
LEMMA StepPending == RequestInv /\ [RequestNext]_requestVars => PendingIsHeld'
<1> SUFFICES ASSUME RequestInv, [RequestNext]_requestVars, route' \notin AnswersAnyway
             PROVE  PendingIsHeld'
  BY DEF PendingIsHeld
<1>0. /\ Progress /\ route' = route /\ AllSteps' = AllSteps /\ AllSteps = StepsOf(route)
      /\ at \in Nat \ {0} /\ Len(AllSteps) \in Nat
  BY CurrentTyped DEF RequestInv, RequestNext, requestVars, Succeed, Raise, AnswerError, AnswerOk,
                      EndSession, StartTask, AllSteps
<1> DEFINE Held(x) == \E i, c \in DOMAIN AllSteps :
             /\ AllSteps[i].does = "change" /\ HeldUntil(route, i, c) /\ i < x /\ x <= c
<1>1. /\ (pending /\ raised = "none" /\ answer = "none") => Held(at)
      /\ answer = "200" => ~pending
      /\ lost => raised # "none"
  BY <1>0 DEF RequestInv, PendingIsHeld
<1>2. SavesItsChanges(route)
  BY <1>0, HandlersAssumption DEF Progress
<1>3. SUFFICES
        /\ (pending' /\ raised' = "none" /\ answer' = "none") => Held(at')
        /\ answer' = "200" => ~pending'
        /\ lost' => raised' # "none"
  BY <1>0 DEF PendingIsHeld, HeldUntil, NoWayAround
<1>4. ASSUME Running, pending
      PROVE  \E i, c \in DOMAIN AllSteps :
               /\ AllSteps[i].does = "change" /\ HeldUntil(route, i, c) /\ i < at /\ at <= c
               /\ i \in Nat /\ c \in Nat
               /\ at = c => Current.skips = 0 /\ (Current.does = "commit" \/ ~Current.works)
               /\ at < c => /\ Current.does \notin {"return", "commit"}
                            /\ at + Current.skips <= c
  <2>1. PICK i, c \in DOMAIN AllSteps :
          AllSteps[i].does = "change" /\ HeldUntil(route, i, c) /\ i < at /\ at <= c
    BY <1>1, <1>4 DEF Running
  <2>2. Current = StepsOf(route)[at] /\ i \in Nat /\ c \in Nat
    BY <1>0, <1>4, CurrentTyped
  <2>3. at < c => at \in i..(c - 1)
    BY <1>0, <2>1, <2>2
  <2>4. at < c => Current.does \notin {"return", "commit"} /\ at + Current.skips <= c
    BY <2>1, <2>2, <2>3 DEF HeldUntil, NoWayAround
  <2>5. at = c => Current.skips = 0 /\ (Current.does = "commit" \/ ~Current.works)
    BY <2>1, <2>2 DEF HeldUntil
  <2> QED  BY <2>1, <2>2, <2>4, <2>5
<1>5. CASE Succeed
  <2>1. /\ Running /\ at' \in {at + 1, Len(AllSteps) + 1} /\ at' \in Nat \ {0} /\ Current.works
        /\ (at' # at + 1 => Current.does = "return") /\ at \in DOMAIN AllSteps
        /\ Current = AllSteps[at] /\ raised = "none" /\ raised' = "none" /\ answer' = "none"
        /\ lost' = lost
    BY <1>0, <1>5, SucceedMoves, CurrentTyped DEF Running
  <2>2. pending' => Current.does = "change" \/ (pending /\ Current.does # "commit")
    BY <1>5 DEF Succeed
  <2>3. CASE Current.does = "change"
    <3>1. PICK c \in DOMAIN AllSteps : HeldUntil(route, at, c)
      BY <1>0, <1>2, <2>1, <2>3 DEF SavesItsChanges
    <3>2. at < c /\ at' = at + 1 /\ c \in Nat
      BY <1>0, <2>1, <2>3, <3>1, CurrentTyped DEF HeldUntil
    <3>3. Held(at')
      BY <1>0, <2>1, <2>3, <3>1, <3>2
    <3> QED  BY <1>1, <2>1, <3>3
  <2>4. CASE pending /\ Current.does # "commit"
    <3>1. PICK i, c \in DOMAIN AllSteps :
               /\ AllSteps[i].does = "change" /\ HeldUntil(route, i, c) /\ i < at /\ at <= c
               /\ i \in Nat /\ c \in Nat
               /\ at = c => Current.skips = 0 /\ (Current.does = "commit" \/ ~Current.works)
               /\ at < c => /\ Current.does \notin {"return", "commit"}
                            /\ at + Current.skips <= c
      BY <1>4, <2>1, <2>4
    <3>2. at < c /\ at' = at + 1
      BY <1>0, <2>1, <2>4, <3>1
    <3>3. i < at' /\ at' <= c
      BY <1>0, <3>1, <3>2
    <3> QED  BY <1>1, <2>1, <3>1, <3>3
  <2> QED  BY <1>1, <2>1, <2>2, <2>3, <2>4
<1>6. CASE Raise
  <2>1. /\ Running /\ raised = "none" /\ Current.skips \in Nat /\ Current.raises \in SUBSET Raised
        /\ answer' = "none"
    BY <1>0, <1>6, RaiseMoves, CurrentTyped DEF Running
  <2>2. "none" \notin Raised
    BY DEF Raised, Statuses
  <2>3. CASE ~pending
    <3>1. pending' = FALSE /\ lost' = lost
      BY <1>6, <2>3 DEF Raise
    <3> QED  BY <1>1, <2>1, <3>1
  <2>4. CASE pending
    <3>1. PICK i, c \in DOMAIN AllSteps :
               /\ AllSteps[i].does = "change" /\ HeldUntil(route, i, c) /\ i < at /\ at <= c
               /\ i \in Nat /\ c \in Nat
               /\ at = c => Current.skips = 0 /\ (Current.does = "commit" \/ ~Current.works)
               /\ at < c => /\ Current.does \notin {"return", "commit"}
                            /\ at + Current.skips <= c
      BY <1>4, <2>1, <2>4
    <3>2. CASE at = c
      <4>1. raised' # "none"
        BY <1>0, <1>6, <2>1, <2>2, <3>1, <3>2, RaiseMoves
      <4> QED  BY <2>1, <4>1
    <3>3. CASE at < c
      <4>1. lost' = lost
        BY <1>6, <3>1, <3>3 DEF Raise
      <4>2. \/ raised' # "none"
            \/ at' = at + Current.skips /\ Current.skips > 0
        BY <1>0, <1>6, <2>1, <2>2, RaiseMoves
      <4>3. raised' = "none" => i < at' /\ at' <= c
        BY <1>0, <2>1, <3>1, <3>3, <4>2
      <4> QED  BY <1>1, <2>1, <3>1, <4>1, <4>3
    <3> QED  BY <1>0, <3>1, <3>2, <3>3
  <2> QED  BY <2>3, <2>4
<1>7. CASE AnswerError
  <2>2. pending' = FALSE /\ raised' # "none" /\ answer' # "200"
    BY <1>0, <1>7, ErrorHasStatus DEF AnswerError
  <2> QED  BY <2>2
<1>8. CASE AnswerOk
  <2>1. /\ at > Len(AllSteps) /\ raised = "none" /\ answer = "none" /\ pending' = pending
        /\ lost' = lost /\ raised' = raised
    BY <1>8 DEF AnswerOk
  <2>2. ~pending
    <3> SUFFICES ASSUME pending PROVE FALSE
      OBVIOUS
    <3>1. PICK c \in DOMAIN AllSteps : at <= c
      BY <1>1, <2>1
    <3> QED  BY <1>0, <2>1, <3>1, CurrentTyped
  <2> QED  BY <1>1, <2>1, <2>2
<1>9. CASE EndSession
  <2>1. /\ answer = "200" /\ answer' = answer /\ raised' = raised /\ pending' = FALSE
        /\ lost' \in {lost, lost \/ pending}
    BY <1>9 DEF EndSession
  <2>2. lost' => lost
    BY <1>1, <2>1
  <2> QED  BY <1>1, <2>1, <2>2
<1>10. CASE StartTask
  <2>1. at' = at /\ pending' = pending /\ raised' = raised /\ answer' = answer /\ lost' = lost
    BY <1>10 DEF StartTask
  <2> QED  BY <1>1, <2>1
<1>11. CASE UNCHANGED requestVars
  <2>1. at' = at /\ pending' = pending /\ raised' = raised /\ answer' = answer /\ lost' = lost
    BY <1>11 DEF requestVars
  <2> QED  BY <1>1, <2>1
<1> QED  BY <1>5, <1>6, <1>7, <1>8, <1>9, <1>10, <1>11 DEF RequestNext

\* A step before the try raises outside of it; one in the try raises only what its
\* clauses pass on.
LEMMA StepStatus == RequestInv /\ [RequestNext]_requestVars => StatusIsKept'
<1> SUFFICES ASSUME RequestInv, [RequestNext]_requestVars, route' \notin CatchesItsOwn,
                    raised' \in Statuses
             PROVE  Clauses'[raised'] = raised'
  BY DEF StatusIsKept
<1>0. Progress /\ route' = route
  BY DEF RequestInv, RequestNext, requestVars, Succeed, Raise, AnswerError, AnswerOk, EndSession,
         StartTask
<1>1. CASE raised' = raised /\ at' = at
  BY <1>0, <1>1 DEF RequestInv, StatusIsKept, Clauses
<1>2. CASE Raise
  <2>1. /\ Running /\ at \in 1..Len(AllSteps) /\ Current = AllSteps[at]
        /\ at' = at /\ raised' \in Current.raises /\ Current.skips = 0
    BY <1>0, <1>2, RaiseMoves, CurrentTyped DEF Statuses
  <2>2. Clauses' = Clauses
    BY <1>0, <2>1 DEF Clauses
  <2>3. CASE at <= Len(route.bare)
    <3>1. raised' \in Raised
      BY DEF Raised
    <3> QED  BY <2>2, <2>3, <3>1 DEF Clauses, AsRaised
  <2>4. CASE ~ (at <= Len(route.bare))
    <3>1. route.bare \in Seq(Step) /\ route.tried \in Seq(Step)
      BY <1>0, RoutesAssumption DEF Progress, Route
    <3> DEFINE b == route.bare
               t == route.tried
    <3>2. b \in Seq(Step) /\ t \in Seq(Step) /\ AllSteps = b \o t
      BY <3>1 DEF AllSteps, StepsOf
    <3>3. Clauses = route.answers
      BY <2>4 DEF Clauses
    <3> HIDE DEF b, t, Step
    <3>4. /\ Len(b) \in Nat /\ Len(t) \in Nat /\ Len(AllSteps) = Len(b) + Len(t)
          /\ DOMAIN t = 1..Len(t)
          /\ \A i \in 1..Len(AllSteps) : i > Len(b) => AllSteps[i] = t[i - Len(b)]
      BY <3>2
    <3>5. at > Len(b) /\ at \in Nat
      BY <2>1, <2>4, <3>4 DEF b
    <3>6. at - Len(b) \in DOMAIN t /\ Current = t[at - Len(b)]
      BY <2>1, <3>4, <3>5
    <3>7. KeepsStatuses(route)
      BY <1>0, HandlersAssumption DEF Progress
    <3>8. route.answers[raised'] = raised'
      BY <2>1, <3>6, <3>7 DEF KeepsStatuses, t
    <3> QED  BY <2>2, <3>3, <3>8
  <2> QED  BY <2>3, <2>4
<1>3. CASE Succeed
  BY <1>0, <1>3, SucceedMoves DEF Statuses
<1>4. CASE AnswerError \/ AnswerOk \/ EndSession \/ StartTask \/ UNCHANGED requestVars
  <2>1. raised' = raised /\ at' = at
    BY <1>4 DEF AnswerError, AnswerOk, EndSession, StartTask, requestVars
  <2> QED  BY <1>1, <2>1
<1> QED  BY <1>2, <1>3, <1>4 DEF RequestNext

\* No step up to the commit is skipped; hence whoever is behind it has stored the
\* change, and a task, sent after it, finds its row.
LEMMA StepSaved == RequestInv /\ [RequestNext]_requestVars => SavedIsStored'
<1> SUFFICES ASSUME RequestInv, [RequestNext]_requestVars, route' # CreateBulkExport
             PROVE  SavedIsStored'
  BY DEF SavedIsStored
<1>0. /\ Progress /\ route' = route /\ AllSteps' = AllSteps /\ AllSteps = StepsOf(route)
      /\ at \in Nat \ {0} /\ Len(AllSteps) \in Nat /\ DOMAIN AllSteps = 1..Len(AllSteps)
  BY CurrentTyped DEF RequestInv, RequestNext, requestVars, Succeed, Raise, AnswerError, AnswerOk,
                      EndSession, StartTask, AllSteps
<1>1. /\ \A c \in DOMAIN AllSteps : \A a \in 1..c :
           (Saves(route, a, c) /\ raised = "none" /\ answer = "none" /\ at <= Len(AllSteps)) =>
             (at > c => stored) /\ (at > a => pending \/ stored)
      /\ task = "sent" => stored
      /\ task \in {"asked", "not found"} => Asks(route)
  BY <1>0 DEF RequestInv, SavedIsStored
<1>2. SendsAfterSave(route)
  BY <1>0, HandlersAssumption DEF Progress
<1>3. SUFFICES
        /\ \A c \in DOMAIN AllSteps : \A a \in 1..c :
             (Saves(route, a, c) /\ raised' = "none" /\ answer' = "none" /\ at' <= Len(AllSteps)) =>
               (at' > c => stored') /\ (at' > a => pending' \/ stored')
        /\ task' = "sent" => stored'
        /\ task' \in {"asked", "not found"} => Asks(route)
  BY <1>0 DEF SavedIsStored, Saves, Asks
<1>4. stored => stored'
  BY DEF RequestNext, requestVars, Succeed, Raise, AnswerError, AnswerOk, EndSession, StartTask
<1>5. CASE Succeed
  <2>1. /\ Running /\ at' \in {at + 1, Len(AllSteps) + 1} /\ Current.works
        /\ at \in 1..Len(AllSteps) /\ Current = AllSteps[at] /\ raised = "none" /\ answer = "none"
    BY <1>0, <1>5, SucceedMoves, CurrentTyped DEF Running
  <2>2. /\ Current.does = "commit" /\ pending => stored'
        /\ Current.does = "change" => pending'
        /\ pending /\ Current.does # "commit" => pending'
        /\ task' = "sent" => task = "sent" \/ Current.does = "enqueue"
        /\ task' \in {"asked", "not found"} => task' = task \/ Current.does = "ask"
    BY <1>5 DEF Succeed, TaskAfter
  <2>3. ASSUME NEW c \in DOMAIN AllSteps, NEW a \in 1..c, Saves(route, a, c), at' <= Len(AllSteps)
        PROVE  (at' > c => stored') /\ (at' > a => pending' \/ stored')
    <3>1. /\ at' = at + 1 /\ a < c /\ AllSteps[a].does = "change" /\ AllSteps[c].does = "commit"
          /\ a \in Nat /\ c \in Nat
      BY <1>0, <2>1, <2>3 DEF Saves
    <3>2. (at > c => stored) /\ (at > a => pending \/ stored)
      <4>1. at <= Len(AllSteps)
        BY <1>0, <2>1
      <4> QED  BY <1>1, <2>1, <2>3, <4>1
    <3>3. CASE at > c
      BY <1>4, <3>2, <3>3
    <3>4. CASE at = c
      <4>1. stored'
        BY <1>4, <2>1, <2>2, <3>1, <3>2, <3>4
      <4> QED  BY <4>1
    <3>5. CASE at < c
      <4>1. ~ (at' > c)
        BY <1>0, <3>1, <3>5
      <4>2. at' > a => pending' \/ stored'
        <5>1. CASE at > a
          <6>1. pending \/ stored
            BY <3>2, <5>1
          <6>2. pending /\ Current.does = "commit" => stored'
            BY <2>2
          <6> QED  BY <1>4, <2>2, <6>1, <6>2
        <5>2. CASE at = a
          BY <2>1, <2>2, <3>1, <5>2
        <5>3. CASE at < a
          BY <1>0, <3>1, <5>3
        <5> QED  BY <1>0, <3>1, <5>1, <5>2, <5>3
      <4> QED  BY <4>1, <4>2
    <3> QED  BY <1>0, <3>1, <3>3, <3>4, <3>5
  <2>4. ASSUME Current.does = "enqueue"
        PROVE  stored
    <3>1. PICK a, c \in 1..(at - 1) : Saves(route, a, c)
      BY <1>0, <1>2, <2>1, <2>4 DEF SendsAfterSave
    <3>2. c \in DOMAIN AllSteps /\ a \in 1..c /\ at > c /\ at <= Len(AllSteps)
      BY <1>0, <2>1, <3>1 DEF Saves
    <3> QED  BY <1>1, <2>1, <3>1, <3>2
  <2>5. Current.does = "ask" => Asks(route)
    BY <1>0, <2>1 DEF Asks
  <2> QED  BY <1>1, <1>4, <2>2, <2>3, <2>4, <2>5
<1>6. CASE Raise
  <2>1. /\ Running /\ at \in 1..Len(AllSteps) /\ Current = AllSteps[at] /\ raised = "none"
        /\ answer = "none"
        /\ Current.skips \in Nat /\ Current.raises \in SUBSET Raised /\ task' = task
    BY <1>0, <1>6, RaiseMoves, CurrentTyped DEF Running
  <2>2. ASSUME NEW c \in DOMAIN AllSteps, NEW a \in 1..c, Saves(route, a, c), raised' = "none",
               at' <= Len(AllSteps)
        PROVE  (at' > c => stored') /\ (at' > a => pending' \/ stored')
    <3>1. Current.skips > 0 /\ at' = at + Current.skips
      <4>1. "none" \notin Raised
        BY DEF Raised, Statuses
      <4> QED  BY <1>0, <1>6, <2>1, <2>2, <4>1, RaiseMoves
    <3>2. at > c
      <4>1. \A j \in 1..c : AllSteps[j].skips = 0
        BY <1>0, <2>2 DEF Saves
      <4> QED  BY <1>0, <2>1, <3>1, <4>1
    <3>3. stored
      <4>1. at <= Len(AllSteps)
        BY <1>0, <2>1
      <4> QED  BY <1>1, <2>1, <2>2, <3>2, <4>1
    <3> QED  BY <1>4, <3>3
  <2> QED  BY <1>1, <1>4, <2>1, <2>2
<1>7. CASE AnswerError
  <2>1. answer' # "none" /\ task' = task
    BY <1>0, <1>7, ErrorHasStatus DEF AnswerError
  <2> QED  BY <1>1, <1>4, <2>1
<1>8. CASE AnswerOk \/ EndSession
  <2>1. answer' # "none" /\ task' = task
    BY <1>8 DEF AnswerOk, EndSession
  <2> QED  BY <1>1, <1>4, <2>1
<1>9. CASE StartTask
  <2>1. /\ task' = "found" \/ (task = "asked" /\ task' = "not found")
        /\ at' = at /\ raised' = raised /\ answer' = answer /\ pending' = pending
        /\ stored' = stored
    BY <1>1, <1>9 DEF StartTask
  <2> QED  BY <1>1, <2>1
<1>10. CASE UNCHANGED requestVars
  <2>1. /\ task' = task /\ at' = at /\ raised' = raised /\ answer' = answer /\ pending' = pending
        /\ stored' = stored
    BY <1>10 DEF requestVars
  <2> QED  BY <1>1, <2>1
<1> QED  BY <1>5, <1>6, <1>7, <1>8, <1>9, <1>10 DEF RequestNext

\* No way leads past the step that waits for the task, which ends well only when
\* the task has found its row; and a task that has found it stays so.
LEMMA StepWaited == RequestInv /\ [RequestNext]_requestVars => WaitedFor'
<1> SUFFICES ASSUME RequestInv, [RequestNext]_requestVars PROVE WaitedFor'
  OBVIOUS
<1>0. /\ Progress /\ route' = route /\ AllSteps' = AllSteps /\ AllSteps = StepsOf(route)
      /\ at \in Nat \ {0} /\ Len(AllSteps) \in Nat /\ DOMAIN AllSteps = 1..Len(AllSteps)
  BY CurrentTyped DEF RequestInv, RequestNext, requestVars, Succeed, Raise, AnswerError, AnswerOk,
                      EndSession, StartTask, AllSteps
<1>1. SUFFICES ASSUME NEW c \in DOMAIN AllSteps, AllSteps[c].does = "wait", AllSteps[c].skips = 0,
                      NoWayAround(route, 1, c), raised' = "none", at' > c
               PROVE  task' = "found"
  BY <1>0 DEF WaitedFor, NoWayAround
<1>2. (raised = "none" /\ at > c) => task = "found"
  BY <1>0, <1>1 DEF RequestInv, WaitedFor
<1>3. task = "found" => task' = "found"
  BY DEF RequestNext, requestVars, Succeed, TaskAfter, Raise, AnswerError, AnswerOk, EndSession,
         StartTask
<1>4. (Running /\ at < c) => Current.does # "return" /\ at + Current.skips <= c
  <2>1. at < c => at \in 1..(c - 1)
    BY <1>0, <1>1
  <2> QED  BY <1>0, <1>1, <2>1, CurrentTyped DEF NoWayAround
<1>5. CASE Succeed
  <2>1. Running /\ raised = "none" /\ Current = AllSteps[at] /\ Works
        /\ (at' # at + 1 => Current.does = "return")
    BY <1>0, <1>5, SucceedMoves, CurrentTyped DEF Running
  <2>2. at >= c
    BY <1>0, <1>1, <1>4, <2>1
  <2>3. at = c => task = "found"
    BY <1>1, <2>1 DEF Works
  <2> QED  BY <1>0, <1>1, <1>2, <1>3, <2>1, <2>2, <2>3
<1>6. CASE Raise
  <2>1. /\ Running /\ raised = "none" /\ Current = AllSteps[at]
        /\ Current.skips \in Nat /\ Current.raises \in SUBSET Raised
    BY <1>0, <1>6, RaiseMoves, CurrentTyped DEF Running
  <2>2. Current.skips > 0 /\ at' = at + Current.skips
    <3>1. "none" \notin Raised
      BY DEF Raised, Statuses
    <3> QED  BY <1>0, <1>1, <1>6, <2>1, <3>1, RaiseMoves
  <2>3. at > c
    BY <1>0, <1>1, <1>4, <2>1, <2>2
  <2> QED  BY <1>2, <1>3, <2>1, <2>3
<1>7. CASE AnswerError \/ AnswerOk \/ EndSession \/ StartTask \/ UNCHANGED requestVars
  <2>1. raised' = raised /\ at' = at
    BY <1>7 DEF AnswerError, AnswerOk, EndSession, StartTask, requestVars
  <2> QED  BY <1>1, <1>2, <1>3, <2>1
<1> QED  BY <1>5, <1>6, <1>7 DEF RequestNext

\* Together: the invariant is inductive.
LEMMA StepKeepsRequestInv == RequestInv /\ [RequestNext]_requestVars => RequestInv'
  BY StepProgress, StepActedLast, StepPending, StepStatus, StepSaved, StepWaited DEF RequestInv

\* A request that has not begun satisfies the invariant.
LEMMA InitRequestInv == RequestInit => RequestInv
<1> SUFFICES ASSUME RequestInit PROVE RequestInv
  OBVIOUS
<1>0. /\ route \in Routes /\ at = 1 /\ ~pending /\ ~stored /\ ~lost /\ ~outside /\ raised = "none"
      /\ pending \in BOOLEAN /\ stored \in BOOLEAN /\ lost \in BOOLEAN /\ outside \in BOOLEAN
      /\ over \in BOOLEAN
      /\ answer = "none" /\ task = "none" /\ "none" \notin Statuses
  BY DEF RequestInit, Statuses
<1>1. Progress
  BY <1>0 DEF Progress
<1>2. ActedLast
  BY <1>0 DEF ActedLast, Unreached
<1>3. PendingIsHeld /\ StatusIsKept
  BY <1>0 DEF PendingIsHeld, StatusIsKept
<1>4. SavedIsStored
  BY <1>0 DEF SavedIsStored
<1>5. WaitedFor
  BY <1>0, <1>1, CurrentTyped DEF WaitedFor
<1> QED  BY <1>1, <1>2, <1>3, <1>4, <1>5 DEF RequestInv

\* The invariant holds in every reachable state.
LEMMA RequestInvHolds == RequestSpec => []RequestInv
  BY InitRequestInv, StepKeepsRequestInv, PTL DEF RequestSpec

\* Handlers other than those listed with CanFailAfterwards (all whose steps do not
\* rule it out, the validation of an export, which waits for its task, among them):
\* whatever steps fail, a request that is answered with an error has stored nothing
\* and sent nothing, for no exception is passed on after something that lasts.
THEOREM ErrorsComeFirst == RequestSpec => []ErrorLeavesNothing
<1>1. RequestInv => ErrorLeavesNothing
  BY DEF RequestInv, Progress, ActedLast, ErrorLeavesNothing
<1> QED  BY <1>1, RequestInvHolds, PTL

\* Handlers other than those that leave a commit to get_db: nothing of what the
\* client was told is done with 200 is rolled back, also by the commit that
\* get_db attempts after the response.
THEOREM NothingIsTakenBack == RequestSpec => []DoneIsStored
<1>1. RequestInv => DoneIsStored
  BY DEF RequestInv, Progress, PendingIsHeld, DoneIsStored
<1> QED  BY <1>1, RequestInvHolds, PTL

\* Handlers whose "except Exception" does not catch their own HTTPException: the
\* status they chose for an error is the one the client reads.
THEOREM StatusesArrive == RequestSpec => []ChosenStatusArrives
<1>1. RequestInv => ChosenStatusArrives
  <2> SUFFICES ASSUME RequestInv, answer # "none", raised \in Statuses, route \notin CatchesItsOwn
               PROVE  answer = raised
    BY DEF ChosenStatusArrives
  <2>1. answer \in Statuses /\ answer = Clauses[raised]
    BY DEF RequestInv, Progress, Statuses
  <2> QED  BY <2>1 DEF RequestInv, StatusIsKept
<1> QED  BY <1>1, RequestInvHolds, PTL

\* Handlers that send a Celery task about a row they saved: however early a worker
\* takes it, the row is committed.  The one whose task is about a row that the
\* client names: it does not answer 200 when the worker found no such row.
THEOREM TasksFindTheirRows == RequestSpec => []TaskFindsItsRow
<1>1. RequestInv => TaskFindsItsRow
  <2> SUFFICES ASSUME RequestInv, task = "not found", route # CreateBulkExport
               PROVE  route = ValidateExport /\ answer # "200"
    BY DEF TaskFindsItsRow
  <2>1. /\ route \in Routes /\ AllSteps = StepsOf(route) /\ DOMAIN AllSteps = 1..Len(AllSteps)
        /\ Len(AllSteps) \in Nat /\ at \in Nat
    BY CurrentTyped DEF RequestInv, Progress
  <2>2. Asks(route)
    BY DEF RequestInv, SavedIsStored
  <2>3. route = ValidateExport /\ AwaitsItsTask(route)
    BY <2>1, <2>2, HandlersAssumption
  <2>4. PICK c \in 1..Len(AllSteps) :
               AllSteps[c].does = "wait" /\ AllSteps[c].skips = 0 /\ NoWayAround(route, 1, c)
    BY <2>1, <2>2, <2>3 DEF AwaitsItsTask
  <2>5. ASSUME answer = "200"
        PROVE  FALSE
    <3>1. raised = "none" /\ at > Len(AllSteps)
      BY <2>5 DEF RequestInv, Progress
    <3>2. at > c
      BY <2>1, <3>1, BehindTheEnd, Zenon
    <3> QED  BY <2>1, <2>4, <3>1, <3>2 DEF RequestInv, WaitedFor
  <2> QED  BY <2>3, <2>5
<1> QED  BY <1>1, RequestInvHolds, PTL

-----------------------------------------------------------------------------
(* Side by side. *)

\* A step of the four models is a step of one, and the others rest.
LEMMA EachRestsOrSteps ==
  [Next]_vars => /\ [CacheNext]_cacheVars /\ [SessionNext]_sessionVars
                 /\ [RequestNext]_requestVars /\ [LimiterNext]_limiterVars
<1>1. CacheStep => /\ CacheNext /\ UNCHANGED sessionVars /\ UNCHANGED requestVars
                   /\ UNCHANGED limiterVars
  BY DEF CacheStep
<1>2. SessionStep => /\ SessionNext /\ UNCHANGED cacheVars /\ UNCHANGED requestVars
                     /\ UNCHANGED limiterVars
  BY DEF SessionStep
<1>3. RequestStep => /\ RequestNext /\ UNCHANGED cacheVars /\ UNCHANGED sessionVars
                     /\ UNCHANGED limiterVars
  BY DEF RequestStep
<1>4. LimiterStep => /\ LimiterNext /\ UNCHANGED cacheVars /\ UNCHANGED sessionVars
                     /\ UNCHANGED requestVars
  BY DEF LimiterStep
<1>5. UNCHANGED vars => /\ UNCHANGED cacheVars /\ UNCHANGED sessionVars
                        /\ UNCHANGED requestVars /\ UNCHANGED limiterVars
  BY DEF vars
<1> QED  BY <1>1, <1>2, <1>3, <1>4, <1>5 DEF Next

\* The models share no variable: a run of all of them is a run of each, so that
\* what is proved of one alone holds of it beside the others.
THEOREM EachIsAlone == Spec => CacheSpec /\ SessionSpec /\ RequestSpec /\ LimiterSpec
<1>1. Init => CacheInit /\ SessionInit /\ RequestInit /\ LimiterInit
  BY DEF Init
<1> QED  BY <1>1, EachRestsOrSteps, PTL DEF Spec, CacheSpec, SessionSpec, RequestSpec, LimiterSpec

\* The rest of the session has its types.
Phases ==
  /\ conn \in {"none", "opening", "open"} /\ broken \in BOOLEAN
  /\ outcome \in {"none", "answer", "error"} /\ closed \in BOOLEAN

\* Every step keeps them.
LEMMA StepPhases == Phases /\ [SessionNext]_sessionVars => Phases'
<1> SUFFICES ASSUME Phases, [SessionNext]_sessionVars PROVE Phases'
  OBVIOUS
<1> USE DEF Phases
<1>1. ASSUME NEW i \in Parts, Begin(i)
      PROVE  Phases'
  BY <1>1 DEF Begin
<1>2. CASE Opened \/ PoolTimeout
  BY <1>2 DEF Opened, PoolTimeout
<1>3. CASE StatementSucceeds
  BY <1>3 DEF StatementSucceeds
<1>4. CASE StatementFails
  <2>1. broken' \in BOOLEAN
    BY <1>4 DEF StatementFails
  <2> QED  BY <1>4, <2>1 DEF StatementFails
<1>5. CASE Respond \/ Close
  BY <1>5 DEF Respond, Close
<1>6. CASE UNCHANGED sessionVars
  BY <1>6 DEF sessionVars
<1> QED  BY <1>1, <1>2, <1>3, <1>4, <1>5, <1>6 DEF SessionNext

\* The session has its types.
LEMMA SessionTyped == SessionSpec => []SessionTypeOK
<1>1. SessionInit => Phases
  BY DEF SessionInit, Phases
<1>2. SessionInv /\ Phases => SessionTypeOK
  BY DEF SessionInv, Shape, Phases, SessionTypeOK
<1> QED  BY <1>1, <1>2, StepPhases, SessionInvHolds, PTL DEF SessionSpec

\* The four models: all variables keep their types, and no list of the limiter gets
\* longer than its limit, whichever of them moves.
THEOREM ServicesTypeCorrect == Spec => []ServicesTypeOK
<1>1. CacheInv => CacheTypeOK
  BY DEF CacheInv
<1>2. RequestInv => RequestTypeOK
  <2> SUFFICES ASSUME RequestInv PROVE RequestTypeOK
    OBVIOUS
  <2>1. Progress
    BY DEF RequestInv
  <2>2. {pending, stored, lost, outside, over} \subseteq BOOLEAN
    BY <2>1 DEF Progress
  <2> QED  BY <2>1, <2>2 DEF Progress, RequestTypeOK
<1>3. CacheTypeOK /\ SessionTypeOK /\ RequestTypeOK /\ LimiterTypeOK => ServicesTypeOK
  BY DEF ServicesTypeOK
<1> QED  BY <1>1, <1>2, <1>3, EachIsAlone, CacheInvHolds, SessionTyped, RequestInvHolds,
            ListsStayShort, PTL
=============================================================================
