---------------------- MODULE GatewayRateLimiterProofs ----------------------
(***************************************************************************)
(* Theorems about GatewayRateLimiter, for every set of requests, every     *)
(* limit and window, and every delay shorter than the window.              *)
(***************************************************************************)
EXTENDS GatewayRateLimiter, FiniteSetTheorems, WellFoundedInduction, TLAPS

-----------------------------------------------------------------------------
(* The invariant. *)

\* Of the state only what the argument needs.
Shape ==
  /\ clock \in Nat \ {0}
  /\ zset \subseteq Nat /\ expires \in Nat
  /\ pc \in [Requests -> Points]
  /\ now \in [Requests -> Nat] /\ DOMAIN retryAfter = Requests
  /\ recorded \subseteq Requests /\ IsFiniteSet(recorded)

\* No request stays in the limiter for as long as a window.
OnTime ==
  /\ \A r \in Requests : now[r] <= clock
  /\ \A r \in InLimiter : clock <= now[r] + MaxDelay

\* Every time in the set is the time of a request that has been recorded.
TimesAreRecorded == \A s \in zset : \E q \in recorded : now[q] = s
\* A request is recorded after it has come.
RecordedHaveArrived == \A q \in recorded : pc[q] # "new"

\* Between its trim and its count nothing comes in that is out of its window.
TrimmedForCount ==
  \A r \in Requests : pc[r] = "count" => \A s \in zset : s > now[r] - Window

\* The inductive invariant of the limiter, whatever happens.
RefusedInv ==
  /\ Shape /\ OnTime /\ TimesAreRecorded /\ RecordedHaveArrived /\ TrimmedForCount
  /\ RefusedOnlyAtLimit

-----------------------------------------------------------------------------
(* Each part of the invariant is kept by every step. *)

\* Types, and only finitely many requests are ever recorded.
LEMMA StepShape == RefusedInv /\ [Next]_vars => Shape'
<1> SUFFICES ASSUME RefusedInv, [Next]_vars PROVE Shape'
  OBVIOUS
<1> USE LimitAssumption, WindowAssumption, DelayAssumption
    DEF RefusedInv, Shape, Points, Limiting
<1>1. ASSUME NEW r \in Requests, Arrive(r)
      PROVE  Shape'
  BY <1>1 DEF Arrive
<1>2. ASSUME NEW r \in Requests, Trim(r)
      PROVE  Shape'
  BY <1>2 DEF Trim
<1>3. ASSUME NEW r \in Requests, Count(r)
      PROVE  Shape'
  BY <1>3 DEF Count
<1>4. ASSUME NEW r \in Requests, Refuse(r)
      PROVE  Shape'
  BY <1>4 DEF Refuse
<1>5. ASSUME NEW r \in Requests, Add(r)
      PROVE  Shape'
  <2>1. recorded' = recorded \cup {r} /\ IsFiniteSet(recorded')
    BY <1>5, FS_AddElement DEF Add
  <2> QED  BY <1>5, <2>1 DEF Add
<1>6. ASSUME NEW r \in Requests, SetExpiry(r)
      PROVE  Shape'
  BY <1>6 DEF SetExpiry
<1>7. ASSUME NEW r \in Requests, CheckFails(r)
      PROVE  Shape'
  BY <1>7 DEF CheckFails
<1>8. ASSUME NEW r \in Requests, Forward(r)
      PROVE  Shape'
  BY <1>8 DEF Forward
<1>9. ASSUME Tick
      PROVE  Shape'
  <2>1. clock' = clock + 1 /\ zset' \subseteq zset
    BY <1>9 DEF Tick
  <2> QED  BY <1>9, <2>1 DEF Tick
<1>10. ASSUME UNCHANGED vars
       PROVE  Shape'
  BY <1>10 DEF vars
<1> QED  BY <1>1, <1>2, <1>3, <1>4, <1>5, <1>6, <1>7, <1>8, <1>9, <1>10 DEF Next, Step

\* The clock waits for a request that has used up its time.
LEMMA StepOnTime == RefusedInv /\ [Next]_vars => OnTime'
<1> SUFFICES ASSUME RefusedInv, [Next]_vars PROVE OnTime'
  OBVIOUS
<1> USE LimitAssumption, WindowAssumption, DelayAssumption
    DEF RefusedInv, Shape, Points, Limiting, InLimiter, OnTime
<1>1. ASSUME NEW r \in Requests, Arrive(r)
      PROVE  OnTime'
  BY <1>1 DEF Arrive
<1>2. ASSUME NEW r \in Requests, Trim(r)
      PROVE  OnTime'
  BY <1>2 DEF Trim
<1>3. ASSUME NEW r \in Requests, Count(r)
      PROVE  OnTime'
  BY <1>3 DEF Count
<1>4. ASSUME NEW r \in Requests, Refuse(r)
      PROVE  OnTime'
  BY <1>4 DEF Refuse
<1>5. ASSUME NEW r \in Requests, Add(r)
      PROVE  OnTime'
  BY <1>5 DEF Add
<1>6. ASSUME NEW r \in Requests, SetExpiry(r)
      PROVE  OnTime'
  BY <1>6 DEF SetExpiry
<1>7. ASSUME NEW r \in Requests, CheckFails(r)
      PROVE  OnTime'
  BY <1>7 DEF CheckFails
<1>8. ASSUME NEW r \in Requests, Forward(r)
      PROVE  OnTime'
  BY <1>8 DEF Forward
<1>9. ASSUME Tick
      PROVE  OnTime'
  BY <1>9 DEF Tick
<1>10. ASSUME UNCHANGED vars
       PROVE  OnTime'
  BY <1>10 DEF vars
<1> QED  BY <1>1, <1>2, <1>3, <1>4, <1>5, <1>6, <1>7, <1>8, <1>9, <1>10 DEF Next, Step

\* A time comes into the set together with the record of its request.
LEMMA StepTimes == RefusedInv /\ [Next]_vars => TimesAreRecorded'
<1> SUFFICES ASSUME RefusedInv, [Next]_vars PROVE TimesAreRecorded'
  OBVIOUS
<1> USE LimitAssumption, WindowAssumption, DelayAssumption
    DEF RefusedInv, Shape, TimesAreRecorded, RecordedHaveArrived
<1>1. ASSUME NEW r \in Requests, Arrive(r)
      PROVE  TimesAreRecorded'
  BY <1>1 DEF Arrive
<1>2. ASSUME NEW r \in Requests, Trim(r)
      PROVE  TimesAreRecorded'
  BY <1>2 DEF Trim
<1>3. ASSUME NEW r \in Requests, Count(r)
      PROVE  TimesAreRecorded'
  BY <1>3 DEF Count
<1>4. ASSUME NEW r \in Requests, Refuse(r)
      PROVE  TimesAreRecorded'
  BY <1>4 DEF Refuse
<1>5. ASSUME NEW r \in Requests, Add(r)
      PROVE  TimesAreRecorded'
  BY <1>5 DEF Add
<1>6. ASSUME NEW r \in Requests, SetExpiry(r)
      PROVE  TimesAreRecorded'
  BY <1>6 DEF SetExpiry
<1>7. ASSUME NEW r \in Requests, CheckFails(r)
      PROVE  TimesAreRecorded'
  BY <1>7 DEF CheckFails
<1>8. ASSUME NEW r \in Requests, Forward(r)
      PROVE  TimesAreRecorded'
  BY <1>8 DEF Forward
<1>9. ASSUME Tick
      PROVE  TimesAreRecorded'
  BY <1>9 DEF Tick
<1>10. ASSUME UNCHANGED vars
       PROVE  TimesAreRecorded'
  BY <1>10 DEF vars
<1> QED  BY <1>1, <1>2, <1>3, <1>4, <1>5, <1>6, <1>7, <1>8, <1>9, <1>10 DEF Next, Step

\* A recorded request never becomes new again.
LEMMA StepArrived == RefusedInv /\ [Next]_vars => RecordedHaveArrived'
<1> SUFFICES ASSUME RefusedInv, [Next]_vars PROVE RecordedHaveArrived'
  OBVIOUS
<1> USE LimitAssumption, WindowAssumption, DelayAssumption
    DEF RefusedInv, Shape, Limiting, RecordedHaveArrived
<1>1. ASSUME NEW r \in Requests, Arrive(r)
      PROVE  RecordedHaveArrived'
  BY <1>1 DEF Arrive
<1>2. ASSUME NEW r \in Requests, Trim(r)
      PROVE  RecordedHaveArrived'
  BY <1>2 DEF Trim
<1>3. ASSUME NEW r \in Requests, Count(r)
      PROVE  RecordedHaveArrived'
  BY <1>3 DEF Count
<1>4. ASSUME NEW r \in Requests, Refuse(r)
      PROVE  RecordedHaveArrived'
  BY <1>4 DEF Refuse
<1>5. ASSUME NEW r \in Requests, Add(r)
      PROVE  RecordedHaveArrived'
  BY <1>5 DEF Add
<1>6. ASSUME NEW r \in Requests, SetExpiry(r)
      PROVE  RecordedHaveArrived'
  BY <1>6 DEF SetExpiry
<1>7. ASSUME NEW r \in Requests, CheckFails(r)
      PROVE  RecordedHaveArrived'
  BY <1>7 DEF CheckFails
<1>8. ASSUME NEW r \in Requests, Forward(r)
      PROVE  RecordedHaveArrived'
  BY <1>8 DEF Forward
<1>9. ASSUME Tick
      PROVE  RecordedHaveArrived'
  BY <1>9 DEF Tick
<1>10. ASSUME UNCHANGED vars
       PROVE  RecordedHaveArrived'
  BY <1>10 DEF vars
<1> QED  BY <1>1, <1>2, <1>3, <1>4, <1>5, <1>6, <1>7, <1>8, <1>9, <1>10 DEF Next, Step

\* What another request adds in between is less than a window old, because it
\* arrived at most MaxDelay ago.
LEMMA StepTrimmed == RefusedInv /\ [Next]_vars => TrimmedForCount'
<1> SUFFICES ASSUME RefusedInv, [Next]_vars PROVE TrimmedForCount'
  OBVIOUS
<1> USE LimitAssumption, WindowAssumption, DelayAssumption
    DEF RefusedInv, Shape, Points, Limiting, InLimiter, OnTime, TrimmedForCount
<1>1. ASSUME NEW r \in Requests, Arrive(r)
      PROVE  TrimmedForCount'
  BY <1>1 DEF Arrive
<1>2. ASSUME NEW r \in Requests, Trim(r)
      PROVE  TrimmedForCount'
  BY <1>2 DEF Trim
<1>3. ASSUME NEW r \in Requests, Count(r)
      PROVE  TrimmedForCount'
  BY <1>3 DEF Count
<1>4. ASSUME NEW r \in Requests, Refuse(r)
      PROVE  TrimmedForCount'
  BY <1>4 DEF Refuse
<1>5. ASSUME NEW r \in Requests, Add(r)
      PROVE  TrimmedForCount'
  BY <1>5 DEF Add
<1>6. ASSUME NEW r \in Requests, SetExpiry(r)
      PROVE  TrimmedForCount'
  BY <1>6 DEF SetExpiry
<1>7. ASSUME NEW r \in Requests, CheckFails(r)
      PROVE  TrimmedForCount'
  BY <1>7 DEF CheckFails
<1>8. ASSUME NEW r \in Requests, Forward(r)
      PROVE  TrimmedForCount'
  BY <1>8 DEF Forward
<1>9. ASSUME Tick
      PROVE  TrimmedForCount'
  BY <1>9 DEF Tick
<1>10. ASSUME UNCHANGED vars
       PROVE  TrimmedForCount'
  BY <1>10 DEF vars
<1> QED  BY <1>1, <1>2, <1>3, <1>4, <1>5, <1>6, <1>7, <1>8, <1>9, <1>10 DEF Next, Step

\* When the set is counted its times are those of recorded requests in the window.
LEMMA CountedAreRecorded ==
  ASSUME Shape, TimesAreRecorded, TrimmedForCount, NEW r \in Requests, pc[r] = "count"
  PROVE  LET S == {q \in recorded : now[q] > now[r] - Window}
         IN  /\ Cardinality(zset) <= Cardinality(S)
             /\ Cardinality(zset) \in Nat /\ Cardinality(S) \in Nat
<1> DEFINE S == {q \in recorded : now[q] > now[r] - Window}
           U == {q \in recorded : now[q] \in zset}
           f == [q \in U |-> now[q]]
<1>1. IsFiniteSet(S) /\ U \subseteq S
  BY FS_Subset DEF Shape, TrimmedForCount
<1>2. f \in Surjection(U, zset)
  BY DEF Surjection, Shape, TimesAreRecorded
<1> HIDE DEF S, U, f
<1>3. IsFiniteSet(U) /\ Cardinality(U) <= Cardinality(S)
  BY <1>1, FS_Subset
<1>4. IsFiniteSet(zset) /\ Cardinality(zset) <= Cardinality(U)
  BY <1>2, <1>3, FS_Surjection
<1>5. Cardinality(S) \in Nat /\ Cardinality(U) \in Nat /\ Cardinality(zset) \in Nat
  BY <1>1, <1>3, <1>4, FS_CardinalityType
<1> QED  BY <1>3, <1>4, <1>5 DEF S

\* The count that refuses a request was the count of a trimmed set, and records
\* are never taken back.
LEMMA StepRefused == RefusedInv /\ [Next]_vars => RefusedOnlyAtLimit'
<1> SUFFICES ASSUME RefusedInv, [Next]_vars PROVE RefusedOnlyAtLimit'
  OBVIOUS
<1> USE LimitAssumption, WindowAssumption, DelayAssumption
    DEF RefusedInv, Shape, RecordedHaveArrived, RefusedOnlyAtLimit
<1>1. ASSUME NEW r \in Requests, Arrive(r)
      PROVE  RefusedOnlyAtLimit'
  BY <1>1 DEF Arrive
<1>2. ASSUME NEW r \in Requests, Trim(r)
      PROVE  RefusedOnlyAtLimit'
  BY <1>2 DEF Trim
<1>3. ASSUME NEW r \in Requests, Count(r)
      PROVE  RefusedOnlyAtLimit'
  <2> DEFINE InWindow(p) == {q \in recorded : now[q] > now[p] - Window}
  <2>1. UNCHANGED <<zset, now, recorded>> /\ \A p \in Requests \ {r} : pc'[p] = pc[p]
    BY <1>3 DEF Count
  <2>2. pc'[r] \in {"refuse", "refused"} => Cardinality(zset) >= Limit
    BY <1>3 DEF Count
  <2>3. Cardinality(zset) <= Cardinality(InWindow(r))
    BY <1>3, CountedAreRecorded DEF Count, RefusedInv
  <2>4. Cardinality(zset) \in Nat /\ Cardinality(InWindow(r)) \in Nat
    BY <1>3, CountedAreRecorded DEF Count, RefusedInv
  <2>5. pc'[r] \in {"refuse", "refused"} => Cardinality(InWindow(r)) >= Limit
    BY <2>2, <2>3, <2>4
  <2> QED  BY <2>1, <2>5
<1>4. ASSUME NEW r \in Requests, Refuse(r)
      PROVE  RefusedOnlyAtLimit'
  BY <1>4 DEF Refuse
<1>5. ASSUME NEW r \in Requests, Add(r)
      PROVE  RefusedOnlyAtLimit'
  <2>1. /\ now' = now /\ recorded' = recorded \cup {r}
        /\ \A p \in Requests : pc'[p] \in {"refuse", "refused"} => pc[p] = pc'[p]
    BY <1>5 DEF Add
  <2>2. ASSUME NEW p \in Requests, pc'[p] \in {"refuse", "refused"}
        PROVE  Cardinality({q \in recorded' : now[q] > now[p] - Window}) >= Limit
    <3> DEFINE before == {q \in recorded : now[q] > now[p] - Window}
               after == {q \in recorded' : now[q] > now[p] - Window}
    <3>1. IsFiniteSet(recorded')
      BY <2>1, FS_AddElement
    <3>2. IsFiniteSet(after) /\ after \subseteq recorded'
      BY <3>1, FS_Subset
    <3>3. before \subseteq after
      BY <2>1
    <3>4. pc[p] \in {"refuse", "refused"}
      BY <2>1, <2>2
    <3>5. Cardinality(before) >= Limit
      BY <3>4
    <3> HIDE DEF before, after
    <3>6. IsFiniteSet(before) /\ Cardinality(before) <= Cardinality(after)
      BY <3>2, <3>3, FS_Subset
    <3>7. Cardinality(before) \in Nat /\ Cardinality(after) \in Nat
      BY <3>2, <3>6, FS_CardinalityType
    <3>8. Cardinality(after) >= Limit
      BY <3>5, <3>6, <3>7
    <3> QED  BY <3>8 DEF after
  <2>3. now' = now
    BY <2>1
  <2> QED  BY <2>2, <2>3
<1>6. ASSUME NEW r \in Requests, SetExpiry(r)
      PROVE  RefusedOnlyAtLimit'
  BY <1>6 DEF SetExpiry
<1>7. ASSUME NEW r \in Requests, CheckFails(r)
      PROVE  RefusedOnlyAtLimit'
  BY <1>7 DEF CheckFails
<1>8. ASSUME NEW r \in Requests, Forward(r)
      PROVE  RefusedOnlyAtLimit'
  BY <1>8 DEF Forward
<1>9. ASSUME Tick
      PROVE  RefusedOnlyAtLimit'
  BY <1>9 DEF Tick
<1>10. ASSUME UNCHANGED vars
       PROVE  RefusedOnlyAtLimit'
  BY <1>10 DEF vars
<1> QED  BY <1>1, <1>2, <1>3, <1>4, <1>5, <1>6, <1>7, <1>8, <1>9, <1>10 DEF Next, Step

\* Together: the invariant is inductive.
LEMMA StepKeepsRefusedInv == RefusedInv /\ [Next]_vars => RefusedInv'
  BY StepShape, StepOnTime, StepTimes, StepArrived, StepTrimmed, StepRefused DEF RefusedInv

\* At the start the set is empty and no request has arrived.
LEMMA InitRefusedInv == Init => RefusedInv
<1> SUFFICES ASSUME Init PROVE RefusedInv
  OBVIOUS
<1> USE WindowAssumption, DelayAssumption DEF Init
<1>1. Shape
  BY FS_EmptySet DEF Shape, Points, Limiting
<1>2. OnTime
  BY DEF OnTime, InLimiter, Limiting
<1>3. TimesAreRecorded /\ RecordedHaveArrived /\ TrimmedForCount
  BY DEF TimesAreRecorded, RecordedHaveArrived, TrimmedForCount
<1>4. RefusedOnlyAtLimit
  BY DEF RefusedOnlyAtLimit
<1> QED  BY <1>1, <1>2, <1>3, <1>4 DEF RefusedInv

-----------------------------------------------------------------------------
\* RateLimitMiddleware._check_rate_limit: however the four Redis commands of any
\* number of requests interleave and whichever of them fail, a request that is
\* refused has at least Limit recorded requests in its window.
THEOREM NobodyRefusedEarly == Spec => []RefusedOnlyAtLimit
<1>1. RefusedInv => RefusedOnlyAtLimit
  BY DEF RefusedInv
<1> QED  BY <1>1, InitRefusedInv, StepKeepsRefusedInv, PTL DEF Spec

-----------------------------------------------------------------------------
(* Calm. *)

\* While it is calm one request is in the limiter at a time, in one second.
OneAtATime ==
  calm => /\ \A a, b \in InLimiter : a = b
          /\ \A a \in InLimiter : now[a] = clock

\* The key lives as long as a recorded request counts, once its time is set.
KeyOutlivesRequests ==
  calm => \A q \in recorded : pc[q] # "expire" =>
            now[q] + Window <= clock \/ now[q] + Window <= expires

\* What still counts is in the set.
WindowIsKept == calm => \A q \in recorded : now[q] + Window > clock => now[q] \in zset

\* Who is about to be added was counted in this very set.
RoomToAdd ==
  /\ IsFiniteSet(zset)
  /\ calm => \A r \in Requests : pc[r] = "add" => Cardinality(zset) < Limit

\* So the set never holds more than the limit.
SetWithinLimit == calm => Cardinality(zset) <= Limit

\* What holds on top of RefusedInv while it is calm.
CalmInv ==
  /\ OneAtATime /\ KeyOutlivesRequests /\ WindowIsKept /\ RoomToAdd /\ SetWithinLimit
  /\ SecondsWithinLimit

\* A second request, or a second that passes, ends the calm.
LEMMA StepAlone == RefusedInv /\ CalmInv /\ [Next]_vars => OneAtATime'
<1> SUFFICES ASSUME RefusedInv, CalmInv, [Next]_vars PROVE OneAtATime'
  OBVIOUS
<1> USE LimitAssumption, WindowAssumption, DelayAssumption
    DEF RefusedInv, Shape, CalmInv, Points, Limiting, InLimiter, OneAtATime
<1>1. ASSUME NEW r \in Requests, Arrive(r)
      PROVE  OneAtATime'
  BY <1>1 DEF Arrive
<1>2. ASSUME NEW r \in Requests, Trim(r)
      PROVE  OneAtATime'
  BY <1>2 DEF Trim
<1>3. ASSUME NEW r \in Requests, Count(r)
      PROVE  OneAtATime'
  BY <1>3 DEF Count
<1>4. ASSUME NEW r \in Requests, Refuse(r)
      PROVE  OneAtATime'
  BY <1>4 DEF Refuse
<1>5. ASSUME NEW r \in Requests, Add(r)
      PROVE  OneAtATime'
  BY <1>5 DEF Add
<1>6. ASSUME NEW r \in Requests, SetExpiry(r)
      PROVE  OneAtATime'
  BY <1>6 DEF SetExpiry
<1>7. ASSUME NEW r \in Requests, CheckFails(r)
      PROVE  OneAtATime'
  BY <1>7 DEF CheckFails
<1>8. ASSUME NEW r \in Requests, Forward(r)
      PROVE  OneAtATime'
  BY <1>8 DEF Forward
<1>9. ASSUME Tick
      PROVE  OneAtATime'
  BY <1>9 DEF Tick
<1>10. ASSUME UNCHANGED vars
       PROVE  OneAtATime'
  BY <1>10 DEF vars
<1> QED  BY <1>1, <1>2, <1>3, <1>4, <1>5, <1>6, <1>7, <1>8, <1>9, <1>10 DEF Next, Step

\* EXPIRE follows every ZADD, and nobody is in between when the clock ticks.
LEMMA StepOutlives == RefusedInv /\ CalmInv /\ [Next]_vars => KeyOutlivesRequests'
<1> SUFFICES ASSUME RefusedInv, CalmInv, [Next]_vars PROVE KeyOutlivesRequests'
  OBVIOUS
<1> USE LimitAssumption, WindowAssumption, DelayAssumption
    DEF RefusedInv, Shape, CalmInv, Points, Limiting, InLimiter, OneAtATime, OnTime,
        RecordedHaveArrived, WindowIsKept, KeyOutlivesRequests
<1>1. ASSUME NEW r \in Requests, Arrive(r)
      PROVE  KeyOutlivesRequests'
  BY <1>1 DEF Arrive
<1>2. ASSUME NEW r \in Requests, Trim(r)
      PROVE  KeyOutlivesRequests'
  BY <1>2 DEF Trim
<1>3. ASSUME NEW r \in Requests, Count(r)
      PROVE  KeyOutlivesRequests'
  BY <1>3 DEF Count
<1>4. ASSUME NEW r \in Requests, Refuse(r)
      PROVE  KeyOutlivesRequests'
  BY <1>4 DEF Refuse
<1>5. ASSUME NEW r \in Requests, Add(r)
      PROVE  KeyOutlivesRequests'
  BY <1>5 DEF Add
<1>6. ASSUME NEW r \in Requests, SetExpiry(r)
      PROVE  KeyOutlivesRequests'
  BY <1>6 DEF SetExpiry
<1>7. ASSUME NEW r \in Requests, CheckFails(r)
      PROVE  KeyOutlivesRequests'
  BY <1>7 DEF CheckFails
<1>8. ASSUME NEW r \in Requests, Forward(r)
      PROVE  KeyOutlivesRequests'
  BY <1>8 DEF Forward
<1>9. ASSUME Tick
      PROVE  KeyOutlivesRequests'
  <2>1. /\ clock' = clock + 1 /\ (calm' => calm /\ InLimiter = {})
        /\ UNCHANGED <<pc, now, recorded>>
        /\ \/ UNCHANGED <<zset, expires>>
           \/ expires # 0 /\ expires <= clock + 1 /\ zset' = {} /\ expires' = 0
    BY <1>9 DEF Tick
  <2> SUFFICES ASSUME calm', NEW q \in recorded'
               PROVE  now'[q] + Window <= clock' \/ now'[q] + Window <= expires'
    BY DEF KeyOutlivesRequests
  <2>2. now[q] + Window <= clock \/ now[q] + Window <= expires
    BY <2>1
  <2> QED  BY <2>1, <2>2
<1>10. ASSUME UNCHANGED vars
       PROVE  KeyOutlivesRequests'
  BY <1>10 DEF vars
<1> QED  BY <1>1, <1>2, <1>3, <1>4, <1>5, <1>6, <1>7, <1>8, <1>9, <1>10 DEF Next, Step

\* A trim drops what is a window old; a key that expires holds nothing else.
LEMMA StepKept == RefusedInv /\ CalmInv /\ [Next]_vars => WindowIsKept'
<1> SUFFICES ASSUME RefusedInv, CalmInv, [Next]_vars PROVE WindowIsKept'
  OBVIOUS
<1> USE LimitAssumption, WindowAssumption, DelayAssumption
    DEF RefusedInv, Shape, CalmInv, Points, Limiting, InLimiter, OneAtATime, OnTime,
        RecordedHaveArrived, KeyOutlivesRequests, WindowIsKept
<1>1. ASSUME NEW r \in Requests, Arrive(r)
      PROVE  WindowIsKept'
  BY <1>1 DEF Arrive
<1>2. ASSUME NEW r \in Requests, Trim(r)
      PROVE  WindowIsKept'
  BY <1>2 DEF Trim
<1>3. ASSUME NEW r \in Requests, Count(r)
      PROVE  WindowIsKept'
  BY <1>3 DEF Count
<1>4. ASSUME NEW r \in Requests, Refuse(r)
      PROVE  WindowIsKept'
  BY <1>4 DEF Refuse
<1>5. ASSUME NEW r \in Requests, Add(r)
      PROVE  WindowIsKept'
  BY <1>5 DEF Add
<1>6. ASSUME NEW r \in Requests, SetExpiry(r)
      PROVE  WindowIsKept'
  BY <1>6 DEF SetExpiry
<1>7. ASSUME NEW r \in Requests, CheckFails(r)
      PROVE  WindowIsKept'
  BY <1>7 DEF CheckFails
<1>8. ASSUME NEW r \in Requests, Forward(r)
      PROVE  WindowIsKept'
  BY <1>8 DEF Forward
<1>9. ASSUME Tick
      PROVE  WindowIsKept'
  <2>1. /\ clock' = clock + 1 /\ (calm' => calm /\ InLimiter = {})
        /\ UNCHANGED <<pc, now, recorded>>
        /\ \/ UNCHANGED <<zset, expires>>
           \/ expires # 0 /\ expires <= clock + 1 /\ zset' = {} /\ expires' = 0
    BY <1>9 DEF Tick
  <2> SUFFICES ASSUME calm', NEW q \in recorded'
               PROVE  now'[q] + Window > clock' => now'[q] \in zset'
    BY DEF WindowIsKept
  <2>2. now[q] + Window <= clock \/ now[q] + Window <= expires
    BY <2>1
  <2> QED  BY <2>1, <2>2
<1>10. ASSUME UNCHANGED vars
       PROVE  WindowIsKept'
  BY <1>10 DEF vars
<1> QED  BY <1>1, <1>2, <1>3, <1>4, <1>5, <1>6, <1>7, <1>8, <1>9, <1>10 DEF Next, Step

\* Between the count and the add of a request the set is not touched.
LEMMA StepRoom == RefusedInv /\ CalmInv /\ [Next]_vars => RoomToAdd'
<1> SUFFICES ASSUME RefusedInv, CalmInv, [Next]_vars PROVE RoomToAdd'
  OBVIOUS
<1> USE LimitAssumption, WindowAssumption, DelayAssumption
    DEF RefusedInv, Shape, CalmInv, Points, Limiting, InLimiter, OneAtATime, RoomToAdd
<1>1. ASSUME NEW r \in Requests, Arrive(r)
      PROVE  RoomToAdd'
  BY <1>1 DEF Arrive
<1>2. ASSUME NEW r \in Requests, Trim(r)
      PROVE  RoomToAdd'
  <2>1. IsFiniteSet(zset')
    <3>1. zset' \subseteq zset /\ IsFiniteSet(zset)
      BY <1>2 DEF Trim
    <3> QED  BY <3>1, FS_Subset
  <2>2. ASSUME calm', NEW p \in Requests, pc'[p] = "add"
        PROVE  FALSE
    BY <1>2, <2>2 DEF Trim
  <2> QED  BY <2>1, <2>2
<1>3. ASSUME NEW r \in Requests, Count(r)
      PROVE  RoomToAdd'
  <2>1. zset' = zset /\ calm' = calm /\ \A p \in Requests \ {r} : pc'[p] = pc[p]
    BY <1>3 DEF Count
  <2>2. pc'[r] = "add" => Cardinality(zset) < Limit
    <3>1. Cardinality(zset) \in Nat
      BY FS_CardinalityType
    <3> QED  BY <1>3, <3>1 DEF Count
  <2> QED  BY <2>1, <2>2
<1>4. ASSUME NEW r \in Requests, Refuse(r)
      PROVE  RoomToAdd'
  BY <1>4 DEF Refuse
<1>5. ASSUME NEW r \in Requests, Add(r)
      PROVE  RoomToAdd'
  <2>1. IsFiniteSet(zset')
    <3>1. zset' = zset \cup {now[r]} /\ IsFiniteSet(zset)
      BY <1>5 DEF Add
    <3> QED  BY <3>1, FS_AddElement
  <2>2. ASSUME calm', NEW p \in Requests, pc'[p] = "add"
        PROVE  FALSE
    BY <1>5, <2>2 DEF Add
  <2> QED  BY <2>1, <2>2
<1>6. ASSUME NEW r \in Requests, SetExpiry(r)
      PROVE  RoomToAdd'
  BY <1>6 DEF SetExpiry
<1>7. ASSUME NEW r \in Requests, CheckFails(r)
      PROVE  RoomToAdd'
  BY <1>7 DEF CheckFails
<1>8. ASSUME NEW r \in Requests, Forward(r)
      PROVE  RoomToAdd'
  BY <1>8 DEF Forward
<1>9. ASSUME Tick
      PROVE  RoomToAdd'
  <2>1. IsFiniteSet(zset')
    BY <1>9, FS_EmptySet DEF Tick
  <2>2. ASSUME calm', NEW p \in Requests, pc'[p] = "add"
        PROVE  FALSE
    BY <1>9, <2>2 DEF Tick
  <2> QED  BY <2>1, <2>2
<1>10. ASSUME UNCHANGED vars
       PROVE  RoomToAdd'
  BY <1>10 DEF vars
<1> QED  BY <1>1, <1>2, <1>3, <1>4, <1>5, <1>6, <1>7, <1>8, <1>9, <1>10 DEF Next, Step

\* Only an add enlarges the set, and it found room.
LEMMA StepSetWithin == RefusedInv /\ CalmInv /\ [Next]_vars => SetWithinLimit'
<1> SUFFICES ASSUME RefusedInv, CalmInv, [Next]_vars PROVE SetWithinLimit'
  OBVIOUS
<1> USE LimitAssumption, WindowAssumption, DelayAssumption
    DEF RefusedInv, Shape, CalmInv, RoomToAdd, SetWithinLimit
<1>1. ASSUME NEW r \in Requests, Arrive(r)
      PROVE  SetWithinLimit'
  BY <1>1 DEF Arrive
<1>2. ASSUME NEW r \in Requests, Trim(r)
      PROVE  SetWithinLimit'
  <2>1. /\ zset' \subseteq zset /\ IsFiniteSet(zset) /\ calm' = calm
    BY <1>2 DEF Trim
  <2>2. Cardinality(zset') <= Cardinality(zset) /\ IsFiniteSet(zset')
    BY <2>1, FS_Subset
  <2>3. Cardinality(zset') \in Nat /\ Cardinality(zset) \in Nat
    BY <2>1, <2>2, FS_CardinalityType
  <2> QED  BY <2>1, <2>2, <2>3
<1>3. ASSUME NEW r \in Requests, Count(r)
      PROVE  SetWithinLimit'
  BY <1>3 DEF Count
<1>4. ASSUME NEW r \in Requests, Refuse(r)
      PROVE  SetWithinLimit'
  BY <1>4 DEF Refuse
<1>5. ASSUME NEW r \in Requests, Add(r)
      PROVE  SetWithinLimit'
  <2>1. zset' = zset \cup {now[r]} /\ IsFiniteSet(zset) /\ calm' = calm /\ pc[r] = "add"
    BY <1>5 DEF Add
  <2>2. Cardinality(zset') \in {Cardinality(zset), Cardinality(zset) + 1}
    BY <2>1, FS_AddElement
  <2>3. Cardinality(zset) \in Nat
    BY <2>1, FS_CardinalityType
  <2> QED  BY <2>1, <2>2, <2>3
<1>6. ASSUME NEW r \in Requests, SetExpiry(r)
      PROVE  SetWithinLimit'
  BY <1>6 DEF SetExpiry
<1>7. ASSUME NEW r \in Requests, CheckFails(r)
      PROVE  SetWithinLimit'
  BY <1>7 DEF CheckFails
<1>8. ASSUME NEW r \in Requests, Forward(r)
      PROVE  SetWithinLimit'
  BY <1>8 DEF Forward
<1>9. ASSUME Tick
      PROVE  SetWithinLimit'
  <2>1. (zset' = zset \/ zset' = {}) /\ (calm' => calm)
    BY <1>9 DEF Tick
  <2> QED  BY <2>1, FS_EmptySet
<1>10. ASSUME UNCHANGED vars
       PROVE  SetWithinLimit'
  BY <1>10 DEF vars
<1> QED  BY <1>1, <1>2, <1>3, <1>4, <1>5, <1>6, <1>7, <1>8, <1>9, <1>10 DEF Next, Step

\* The seconds of the requests recorded in the window that ends at t.
Times(t) == {now[q] : q \in RecordedIn(t)}

\* The times up to t are finitely many.
LEMMA TimesFinite ==
  ASSUME Shape, NEW t \in Nat
  PROVE  IsFiniteSet(Times(t))
<1>1. Times(t) \subseteq 0..t
  BY DEF Times, RecordedIn, Shape
<1>2. IsFiniteSet(0..t)
  BY FS_Interval
<1> QED  BY <1>1, <1>2, FS_Subset

\* A step that leaves the recorded requests and the clock alone.
RecordedStay ==
  /\ recorded' = recorded /\ clock' = clock
  /\ \A q \in recorded : now'[q] = now[q]
  /\ calm' => calm

\* Such a step leaves every window as it is.
LEMMA TimesUnchanged ==
  ASSUME SecondsWithinLimit, RecordedStay
  PROVE  SecondsWithinLimit'
<1>1. ASSUME NEW t \in 1..clock
      PROVE  {now'[r] : r \in RecordedIn(t)'} = {now[r] : r \in RecordedIn(t)}
  BY DEF RecordedStay, RecordedIn
<1> QED  BY <1>1 DEF RecordedStay, SecondsWithinLimit

\* Who is added finds fewer than Limit seconds in its window; the window of the
\* next second holds no others.
LEMMA StepSeconds == RefusedInv /\ CalmInv /\ [Next]_vars => SecondsWithinLimit'
<1> SUFFICES ASSUME RefusedInv, CalmInv, [Next]_vars PROVE SecondsWithinLimit'
  OBVIOUS
<1> USE LimitAssumption, WindowAssumption, DelayAssumption
    DEF RefusedInv, Shape, CalmInv, OnTime
<1>1. ASSUME NEW r \in Requests, Arrive(r)
      PROVE  SecondsWithinLimit'
  <2>1. RecordedStay
    BY <1>1 DEF Arrive, RecordedHaveArrived, RecordedStay
  <2> QED  BY <2>1, TimesUnchanged
<1>2. ASSUME NEW r \in Requests, Trim(r)
      PROVE  SecondsWithinLimit'
  <2>1. RecordedStay
    BY <1>2 DEF Trim, RecordedStay
  <2> QED  BY <2>1, TimesUnchanged
<1>3. ASSUME NEW r \in Requests, Count(r)
      PROVE  SecondsWithinLimit'
  <2>1. RecordedStay
    BY <1>3 DEF Count, RecordedStay
  <2> QED  BY <2>1, TimesUnchanged
<1>4. ASSUME NEW r \in Requests, Refuse(r)
      PROVE  SecondsWithinLimit'
  <2>1. RecordedStay
    BY <1>4 DEF Refuse, RecordedStay
  <2> QED  BY <2>1, TimesUnchanged
<1>5. ASSUME NEW r \in Requests, Add(r)
      PROVE  SecondsWithinLimit'
  <2> SUFFICES ASSUME calm, NEW t \in 1..clock
               PROVE  Cardinality({now[q] : q \in
                        {q \in recorded' : now[q] > t - Window /\ now[q] <= t}}) <= Limit
    BY <1>5 DEF Add, SecondsWithinLimit, RecordedIn
  <2> DEFINE after == {now[q] : q \in {q \in recorded' : now[q] > t - Window /\ now[q] <= t}}
  <2>1. now[r] = clock /\ recorded' = recorded \cup {r}
    BY <1>5 DEF Add, OneAtATime, InLimiter, Limiting
  <2>2. CASE t = clock
    <3>1. after \subseteq zset \cup {clock}
      BY <2>1, <2>2 DEF WindowIsKept
    <3>2. Cardinality(zset) \in Nat /\ Cardinality(zset) < Limit
      BY <1>5, FS_CardinalityType DEF Add, RoomToAdd
    <3>3. IsFiniteSet(zset \cup {clock}) /\ Cardinality(zset \cup {clock}) <= Cardinality(zset) + 1
      <4>1. IsFiniteSet(zset)
        BY DEF RoomToAdd
      <4>2. /\ IsFiniteSet(zset \cup {clock})
            /\ Cardinality(zset \cup {clock}) \in {Cardinality(zset), Cardinality(zset) + 1}
        BY <4>1, FS_AddElement
      <4> QED  BY <3>2, <4>2
    <3> HIDE DEF after
    <3>4. Cardinality(after) <= Cardinality(zset \cup {clock}) /\ IsFiniteSet(after)
      BY <3>1, <3>3, FS_Subset
    <3>5. Cardinality(after) \in Nat /\ Cardinality(zset \cup {clock}) \in Nat
      BY <3>3, <3>4, FS_CardinalityType
    <3>6. Cardinality(after) <= Limit
      BY <3>2, <3>3, <3>4, <3>5
    <3> QED  BY <3>6 DEF after
  <2>3. CASE t < clock
    <3>1. after = Times(t)
      BY <2>1, <2>3 DEF Times, RecordedIn
    <3> QED  BY <3>1 DEF SecondsWithinLimit, Times
  <2> QED  BY <2>2, <2>3
<1>6. ASSUME NEW r \in Requests, SetExpiry(r)
      PROVE  SecondsWithinLimit'
  <2>1. RecordedStay
    BY <1>6 DEF SetExpiry, RecordedStay
  <2> QED  BY <2>1, TimesUnchanged
<1>7. ASSUME NEW r \in Requests, CheckFails(r)
      PROVE  SecondsWithinLimit'
  <2>1. RecordedStay
    BY <1>7 DEF CheckFails, RecordedStay
  <2> QED  BY <2>1, TimesUnchanged
<1>8. ASSUME NEW r \in Requests, Forward(r)
      PROVE  SecondsWithinLimit'
  <2>1. RecordedStay
    BY <1>8 DEF Forward, RecordedStay
  <2> QED  BY <2>1, TimesUnchanged
<1>9. ASSUME Tick
      PROVE  SecondsWithinLimit'
  <2>0. \A t : {now'[q] : q \in RecordedIn(t)'} = Times(t)
    <3>1. now' = now /\ recorded' = recorded
      BY <1>9 DEF Tick
    <3> QED  BY <3>1 DEF Times, RecordedIn
  <2> SUFFICES ASSUME calm', NEW t \in 1..clock'
               PROVE  Cardinality(Times(t)) <= Limit
    BY <2>0 DEF SecondsWithinLimit
  <2>1. calm /\ clock' = clock + 1
    BY <1>9 DEF Tick
  <2>2. CASE t <= clock
    BY <2>1, <2>2 DEF SecondsWithinLimit, Times
  <2>3. CASE t = clock + 1
    <3>1. Times(t) \subseteq Times(clock)
      BY <2>3 DEF Times, RecordedIn, OnTime
    <3>2. IsFiniteSet(Times(clock)) /\ IsFiniteSet(Times(t))
      BY <2>3, TimesFinite
    <3>3. Cardinality(Times(t)) <= Cardinality(Times(clock))
      BY <3>1, <3>2, FS_Subset
    <3>4. Cardinality(Times(t)) \in Nat /\ Cardinality(Times(clock)) \in Nat
      BY <3>2, FS_CardinalityType
    <3>5. Cardinality(Times(clock)) <= Limit
      BY <2>1, <2>3 DEF SecondsWithinLimit, Times
    <3> QED  BY <3>3, <3>4, <3>5
  <2> QED  BY <2>1, <2>2, <2>3
<1>10. ASSUME UNCHANGED vars
       PROVE  SecondsWithinLimit'
  <2>1. RecordedStay
    BY <1>10 DEF vars, RecordedStay
  <2> QED  BY <2>1, TimesUnchanged
<1> QED  BY <1>1, <1>2, <1>3, <1>4, <1>5, <1>6, <1>7, <1>8, <1>9, <1>10 DEF Next, Step

\* The parts together.
LEMMA StepKeepsCalmInv == RefusedInv /\ CalmInv /\ [Next]_vars => CalmInv'
  BY StepAlone, StepOutlives, StepKept, StepRoom, StepSetWithin, StepSeconds DEF CalmInv

\* At the start nobody has come.
LEMMA InitCalmInv == Init => CalmInv
<1> SUFFICES ASSUME Init PROVE CalmInv
  OBVIOUS
<1> USE DEF Init
<1>1. OneAtATime /\ KeyOutlivesRequests /\ WindowIsKept
  BY DEF OneAtATime, InLimiter, Limiting, KeyOutlivesRequests, WindowIsKept
<1>2. RoomToAdd /\ SetWithinLimit
  BY FS_EmptySet, LimitAssumption DEF RoomToAdd, SetWithinLimit
<1>3. ASSUME NEW t \in 1..clock
      PROVE  Cardinality({now[r] : r \in RecordedIn(t)}) <= Limit
  <2>1. {now[r] : r \in RecordedIn(t)} = {}
    BY DEF RecordedIn
  <2>2. Cardinality({now[r] : r \in RecordedIn(t)}) = 0
    BY <2>1, FS_EmptySet, Zenon
  <2>3. 0 <= Limit
    BY LimitAssumption
  <2> QED  BY <2>2, <2>3
<1>4. SecondsWithinLimit
  BY <1>3, Zenon DEF SecondsWithinLimit
<1> QED  BY <1>1, <1>2, <1>4 DEF CalmInv

\* RateLimitMiddleware._check_rate_limit: while the requests of a client come one
\* by one and nothing fails, at most Limit seconds of any window let them through.
THEOREM CalmLimit == Spec => []SecondsWithinLimit
<1>1. CalmInv => SecondsWithinLimit
  BY DEF CalmInv
<1>2. Spec => []RefusedInv
  BY InitRefusedInv, StepKeepsRefusedInv, PTL DEF Spec
<1> QED  BY <1>1, <1>2, InitCalmInv, StepKeepsCalmInv, PTL DEF Spec

-----------------------------------------------------------------------------
(* Retry-After. *)

\* A set of natural numbers that is not empty has a smallest one.
LEMMA SmallestExists ==
  ASSUME NEW S \in SUBSET Nat, S # {}
  PROVE  \E m \in S : \A s \in S : m <= s
<1> DEFINE R == OpToRel(<, Nat)
<1>1. IsWellFoundedOn(R, Nat)
  BY NatLessThanWellFounded
<1>2. \A x, y \in Nat : <<y, x>> \in R <=> y < x
  BY DEF OpToRel
<1> HIDE DEF R
<1>3. PICK m \in S : \A s \in S : ~ (<<s, m>> \in R)
  BY <1>1, WFMin
<1>4. \A s \in S : s \in Nat /\ m \in Nat /\ ~ (s < m)
  BY <1>2, <1>3
<1>5. \A s \in S : m <= s
  BY <1>4
<1> QED  BY <1>3, <1>5

\* After the wait the oldest second of the set does not count any more, and
\* there were no more than Limit.
LEMMA OldestIsOut ==
  ASSUME RefusedInv, CalmInv, calm, NEW r \in Requests, Refuse(r)
  PROVE  Cardinality({s \in zset : s > now[r] + retryAfter'[r] - Window}) < Limit
<1> USE LimitAssumption, WindowAssumption DEF RefusedInv, Shape, CalmInv, RoomToAdd, SetWithinLimit
<1> DEFINE left == {s \in zset : s > now[r] + retryAfter'[r] - Window}
<1>t. IsFiniteSet(zset) /\ Cardinality(zset) \in Nat /\ Cardinality(zset) <= Limit
  BY FS_CardinalityType
<1>1. CASE zset = {}
  <2>1. left = {}
    BY <1>1
  <2> HIDE DEF left
  <2>2. Cardinality(left) = 0
    BY <2>1, FS_EmptySet
  <2>3. Cardinality(left) < Limit
    BY <2>2
  <2> QED  BY <2>3 DEF left
<1>2. CASE zset # {}
  <2>1. Oldest \in zset /\ Oldest \in Nat
    BY <1>2, SmallestExists DEF Oldest
  <2>2. retryAfter'[r] = Oldest + Window - now[r]
    BY <1>2 DEF Refuse
  <2>3. left \subseteq zset \ {Oldest}
    BY <2>1, <2>2
  <2> HIDE DEF left
  <2>4. IsFiniteSet(zset \ {Oldest}) /\ Cardinality(zset \ {Oldest}) = Cardinality(zset) - 1
    BY <1>t, <2>1, FS_RemoveElement
  <2>5. IsFiniteSet(left) /\ Cardinality(left) <= Cardinality(zset \ {Oldest})
    BY <2>3, <2>4, FS_Subset
  <2>6. Cardinality(left) \in Nat
    BY <2>5, FS_CardinalityType
  <2>7. Cardinality(left) < Limit
    BY <1>t, <2>4, <2>5, <2>6
  <2> QED  BY <2>7 DEF left
<1> QED  BY <1>1, <1>2

\* RateLimitMiddleware._check_rate_limit: while all is calm, a client that waits
\* for as long as the Retry-After header says finds room.
THEOREM RetryAfterIsEnough == Spec => RetryAfterSuffices
<1>1. RefusedInv /\ CalmInv /\ [Next]_vars
        => [\A r \in Requests : calm /\ pc[r] = "refuse" /\ pc'[r] = "refused" =>
              Cardinality({s \in zset : s > now[r] + retryAfter'[r] - Window}) < Limit]_vars
  <2> SUFFICES ASSUME RefusedInv, CalmInv, Next, calm,
                      NEW r \in Requests, pc[r] = "refuse", pc'[r] = "refused"
               PROVE  Cardinality({s \in zset : s > now[r] + retryAfter'[r] - Window}) < Limit
    OBVIOUS
  <2>1. Refuse(r)
    <3>1. ~ Tick
      BY DEF Tick
    <3>2. PICK q \in Requests : Step(q)
      BY <3>1 DEF Next
    <3>3. q = r
      BY <3>2 DEF Step, Arrive, Trim, Count, Refuse, Add, SetExpiry, CheckFails, Forward,
                  RefusedInv, Shape
    <3> QED  BY <3>2, <3>3 DEF Step, Arrive, Trim, Count, Add, SetExpiry, CheckFails, Forward,
                               RefusedInv, Shape
  <2> QED  BY <2>1, OldestIsOut
<1>2. Spec => []RefusedInv
  BY InitRefusedInv, StepKeepsRefusedInv, PTL DEF Spec
<1>3. Spec => []CalmInv
  BY <1>2, InitCalmInv, StepKeepsCalmInv, PTL DEF Spec
<1> QED  BY <1>1, <1>2, <1>3, PTL DEF Spec, RetryAfterSuffices

=============================================================================
