------------------------ MODULE WebSocketManagerProofs ------------------------
(***************************************************************************)
(* Theorems about WebSocketManager, for every set of connections, tasks    *)
(* and broadcasts.                                                         *)
(***************************************************************************)
EXTENDS WebSocketManager, FiniteSetTheorems, WellFoundedInduction, TLAPS

-----------------------------------------------------------------------------
(* The invariant. *)

\* Of the state only what the argument needs.
Shape ==
  /\ members \subseteq Conns /\ streamKeys \subseteq Conns
  /\ stream \in [Conns -> Tasks \cup {NoTask}]
  /\ handler \in [Conns -> HandlerStates]
  /\ heartbeat \in [Conns -> TaskStates]
  /\ task \in [Tasks -> TaskStates]
  /\ owner \in [Tasks -> Conns \cup {NoConn}]
  /\ awaited \in [Conns -> Tasks \cup {NoTask}]

\* Only a connection whose handler is at work is registered or in the room.
OutsideIsOut ==
  \A c \in Conns : handler[c] \in {"new", "ended"} => c \notin members \cup room

\* stop_stream waits for the task that is listed, unless a disconnect has
\* emptied the list, and leaves the list empty.
StopFollowsList ==
  \A c \in Conns :
    /\ handler[c] = "stopping" => awaited[c] \in Tasks /\ stream[c] \in {awaited[c], NoTask}
    /\ handler[c] = "stopped" => stream[c] = NoTask

\* The inductive invariant.
ManagerInv ==
  Shape /\ RegistriesAgree /\ OutsideIsOut /\ StopFollowsList /\ RunningStreamIsListed

-----------------------------------------------------------------------------
(* disconnect, start_stream and stop_stream keep it, whoever calls them. *)

\* The handlers of those who are disconnected may end with that; the others go on.
GoOnExcept(S) ==
  /\ handler' \in [Conns -> HandlerStates] /\ awaited' \in [Conns -> Tasks \cup {NoTask}]
  /\ \A c \in Conns : \/ handler'[c] = handler[c] /\ awaited'[c] = awaited[c]
                      \/ c \in S /\ handler'[c] = "ended"

\* A disconnect of any set of connections takes them out of everything and
\* cancels their tasks, and nothing of the others.
LEMMA DisconnectKeepsInv ==
  ASSUME ManagerInv, NEW S, Disconnect(S), GoOnExcept(S), owner' = owner
  PROVE  ManagerInv'
<1> USE NoTaskAssumption DEF ManagerInv, Disconnect, GoOnExcept
<1>1. Shape'
  BY DEF Shape, Cancelled, TaskStates
<1>2. RegistriesAgree'
  BY DEF Shape, RegistriesAgree, Cancelled
<1>3. OutsideIsOut'
  BY DEF OutsideIsOut
<1>4. StopFollowsList'
  BY DEF Shape, StopFollowsList
<1>5. RunningStreamIsListed'
  <2> SUFFICES ASSUME NEW t \in Tasks, task'[t] = "running"
               PROVE  owner[t] \in streamKeys' /\ stream'[owner[t]] = t
    BY DEF RunningStreamIsListed
  <2>0. task' = [r \in Tasks |-> IF \E c \in S \cap streamKeys : stream[c] = r
                                THEN Cancelled(task[r]) ELSE task[r]]
    BY DEF Disconnect
  <2>1. task[t] = "running" /\ ~ \E c \in S \cap streamKeys : stream[c] = t
    <3>1. Cancelled(task[t]) # "running"
      BY DEF Cancelled
    <3> QED  BY <2>0, <3>1
  <2>2. owner[t] \in streamKeys /\ stream[owner[t]] = t /\ owner[t] \notin S
    BY <2>1 DEF RunningStreamIsListed
  <2>3. owner[t] \in Conns
    BY <2>2 DEF Shape
  <2> QED  BY <2>2, <2>3
<1> QED  BY <1>1, <1>2, <1>3, <1>4, <1>5

\* A new task takes its place in the list only when the place is empty.
LEMMA BeginStreamKeepsInv ==
  ASSUME ManagerInv, NEW c \in Conns, BeginStream(c), ~HasStream(c),
         handler[c] \in {"receiving", "stopped"},
         UNCHANGED <<members, subscribed, room, awaited, heartbeat>>
  PROVE  ManagerInv'
<1> USE NoTaskAssumption DEF ManagerInv, BeginStream, HasStream
<1>1. Shape'
  BY DEF Shape, HandlerStates, TaskStates
<1>2. RegistriesAgree'
  BY DEF RegistriesAgree
<1>3. OutsideIsOut'
  BY DEF OutsideIsOut, Shape
<1>4. StopFollowsList'
  BY DEF Shape, StopFollowsList
<1>5. RunningStreamIsListed'
  <2> SUFFICES ASSUME NEW t \in Tasks, task'[t] = "running"
               PROVE  owner'[t] \in streamKeys' /\ stream'[owner'[t]] = t
    BY DEF RunningStreamIsListed
  <2>1. CASE task[t] = "running"
    <3>1. owner[t] \in streamKeys /\ stream[owner[t]] = t /\ owner[t] \in Conns
      BY <2>1 DEF RunningStreamIsListed, Shape
    <3>2. owner[t] # c
      BY <3>1
    <3> QED  BY <2>1, <3>1, <3>2 DEF Shape
  <2>2. CASE task[t] # "running"
    BY <2>2 DEF Shape
  <2> QED  BY <2>1, <2>2
<1> QED  BY <1>1, <1>2, <1>3, <1>4, <1>5

\* The listed task is cancelled before it is waited for.
LEMMA BeginStopKeepsInv ==
  ASSUME ManagerInv, NEW c \in Conns, HasStream(c), BeginStop(c), handler[c] = "receiving",
         UNCHANGED <<members, subscribed, streamKeys, room, heartbeat, owner>>
  PROVE  ManagerInv'
<1> USE NoTaskAssumption DEF ManagerInv, BeginStop, HasStream
<1>1. Shape'
  BY DEF Shape, HandlerStates, TaskStates
<1>2. RegistriesAgree'
  BY DEF RegistriesAgree
<1>3. OutsideIsOut'
  BY DEF OutsideIsOut, Shape
<1>4. StopFollowsList'
  BY DEF Shape, StopFollowsList
<1>5. RunningStreamIsListed'
  <2> SUFFICES ASSUME NEW t \in Tasks, task'[t] = "running"
               PROVE  owner[t] \in streamKeys /\ stream'[owner[t]] = t
    BY DEF RunningStreamIsListed
  <2>1. task[t] = "running" /\ t # stream[c]
    BY DEF Shape
  <2>2. owner[t] \in streamKeys /\ stream[owner[t]] = t /\ owner[t] \in Conns
    BY <2>1 DEF RunningStreamIsListed, Shape
  <2>3. owner[t] # c
    BY <2>1, <2>2 DEF Shape
  <2> QED  BY <2>2, <2>3 DEF Shape
<1> QED  BY <1>1, <1>2, <1>3, <1>4, <1>5

\* A broadcast changes the registries only by disconnecting whom it could not reach.
LEMMA AdvanceKeepsInv ==
  ASSUME ManagerInv, NEW b, NEW k, Advance(b, k), UNCHANGED <<coroutine, owner, peer>>
  PROVE  ManagerInv'
<1>1. CASE Disconnect(k.failed)
  <2>1. GoOnExcept(k.failed)
    BY DEF GoOnExcept, coroutine, ManagerInv, Shape
  <2> QED  BY <1>1, <2>1, DisconnectKeepsInv
<1>2. CASE UNCHANGED <<registry, heartbeat, task>>
  BY <1>2 DEF ManagerInv, Shape, RegistriesAgree, OutsideIsOut, StopFollowsList,
              RunningStreamIsListed, registry, coroutine
<1> QED  BY <1>1, <1>2 DEF Advance

-----------------------------------------------------------------------------
(* Every step keeps it. *)

\* At the start nobody is connected.
LEMMA InitManagerInv == Init => ManagerInv
  BY DEF Init, ManagerInv, Shape, RegistriesAgree, OutsideIsOut, StopFollowsList,
         RunningStreamIsListed, HandlerStates, TaskStates

\* The steps of a handler.
LEMMA HandlerKeepsInv ==
  ASSUME ManagerInv, NEW c \in Conns,
         \/ Register(c) \/ AcceptFails(c) \/ HandlerStep(c) \/ HandlerEnds(c) \/ Messages(c)
  PROVE  ManagerInv'
<1> USE NoTaskAssumption
<1>1. CASE Register(c)
  BY <1>1 DEF Register, ManagerInv, Shape, RegistriesAgree, OutsideIsOut, StopFollowsList,
              RunningStreamIsListed, HandlerStates, TaskStates
<1>2. CASE AcceptFails(c)
  BY <1>2 DEF AcceptFails, registry, background, ManagerInv, Shape, RegistriesAgree,
              OutsideIsOut, StopFollowsList, RunningStreamIsListed, HandlerStates
<1>3. CASE Replied(c)
  BY <1>3 DEF Replied, registry, background, ManagerInv, Shape, RegistriesAgree,
              OutsideIsOut, StopFollowsList, RunningStreamIsListed, HandlerStates
<1>4. CASE HandlerEnds(c)
  <2>1. GoOnExcept({c})
    BY <1>4 DEF HandlerEnds, GoOnExcept, ManagerInv, Shape, HandlerStates
  <2> QED  BY <1>4, <2>1, DisconnectKeepsInv DEF HandlerEnds
<1>5. CASE Subscribe(c)
  BY <1>5 DEF Subscribe, Message, Reply, background, ManagerInv, Shape, RegistriesAgree,
              OutsideIsOut, StopFollowsList, RunningStreamIsListed, HandlerStates
<1>6. CASE Unsubscribe(c)
  BY <1>6 DEF Unsubscribe, Message, Reply, background, ManagerInv, Shape, RegistriesAgree,
              OutsideIsOut, StopFollowsList, RunningStreamIsListed, HandlerStates
<1>7. CASE JoinRoom(c)
  BY <1>7 DEF JoinRoom, Message, Reply, background, ManagerInv, Shape, RegistriesAgree,
              OutsideIsOut, StopFollowsList, RunningStreamIsListed, HandlerStates
<1>8. CASE LeaveRoom(c)
  BY <1>8 DEF LeaveRoom, Message, Reply, background, ManagerInv, Shape, RegistriesAgree,
              OutsideIsOut, StopFollowsList, RunningStreamIsListed, HandlerStates
<1>9. CASE StartStream(c)
  <2>1. CASE HasStream(c) /\ BeginStop(c) /\ UNCHANGED <<streamKeys, owner>>
    BY <1>9, <2>1, BeginStopKeepsInv DEF StartStream, Message
  <2>2. CASE ~HasStream(c) /\ BeginStream(c) /\ UNCHANGED awaited
    BY <1>9, <2>2, BeginStreamKeepsInv DEF StartStream, Message
  <2> QED  BY <1>9, <2>1, <2>2 DEF StartStream
<1>10. CASE StopStream(c)
  <2>1. CASE HasStream(c) /\ BeginStop(c)
    BY <1>10, <2>1, BeginStopKeepsInv DEF StopStream, Message
  <2>2. CASE UNCHANGED <<stream, handler, task, awaited>>
    BY <1>10, <2>2 DEF StopStream, ManagerInv, Shape, RegistriesAgree, OutsideIsOut,
                       StopFollowsList, RunningStreamIsListed
  <2> QED  BY <1>10, <2>1, <2>2 DEF StopStream
<1>11. CASE TakeOffList(c)
  BY <1>11 DEF TakeOffList, background, ManagerInv, Shape, RegistriesAgree,
               OutsideIsOut, StopFollowsList, RunningStreamIsListed, HandlerStates
<1>12. CASE StopRaises(c)
  <2>1. GoOnExcept({c})
    BY <1>12 DEF StopRaises, GoOnExcept, ManagerInv, Shape, HandlerStates
  <2> QED  BY <1>12, <2>1, DisconnectKeepsInv DEF StopRaises
<1>13. CASE Stopped(c)
  <2>1. CASE BeginStream(c)
    <3>1. ~HasStream(c)
      BY <1>13 DEF Stopped, HasStream, ManagerInv, StopFollowsList
    <3> QED  BY <1>13, <2>1, <3>1, BeginStreamKeepsInv DEF Stopped
  <2>2. CASE /\ handler' = [handler EXCEPT ![c] = "receiving"]
             /\ UNCHANGED <<restart, streamKeys, stream, task, owner>>
    BY <1>13, <2>2 DEF Stopped, ManagerInv, Shape, RegistriesAgree, OutsideIsOut,
                       StopFollowsList, RunningStreamIsListed, HandlerStates
  <2> QED  BY <1>13, <2>1, <2>2 DEF Stopped
<1> QED  BY <1>1, <1>2, <1>3, <1>4, <1>5, <1>6, <1>7, <1>8, <1>9, <1>10, <1>11, <1>12, <1>13
         DEF HandlerStep, Messages

\* All steps.
LEMMA StepKeepsManagerInv == ManagerInv /\ [Next]_vars => ManagerInv'
<1> SUFFICES ASSUME ManagerInv, [Next]_vars PROVE ManagerInv'
  OBVIOUS
<1>1. ASSUME NEW c \in Conns,
             \/ Register(c) \/ AcceptFails(c) \/ HandlerStep(c) \/ HandlerEnds(c) \/ Messages(c)
      PROVE  ManagerInv'
  BY <1>1, HandlerKeepsInv
<1>2. ASSUME NEW c \in Conns, HeartbeatEnds(c)
      PROVE  ManagerInv'
  BY <1>2 DEF HeartbeatEnds, registry, coroutine, ManagerInv, Shape, RegistriesAgree,
              OutsideIsOut, StopFollowsList, RunningStreamIsListed, TaskStates
<1>3. ASSUME NEW c \in Conns, PeerLeaves(c)
      PROVE  ManagerInv'
  BY <1>3 DEF PeerLeaves, registry, coroutine, background, ManagerInv, Shape,
              RegistriesAgree, OutsideIsOut, StopFollowsList, RunningStreamIsListed
<1>4. ASSUME NEW t \in Tasks, StreamEnds(t)
      PROVE  ManagerInv'
  BY <1>4 DEF StreamEnds, registry, coroutine, ManagerInv, Shape, RegistriesAgree,
              OutsideIsOut, StopFollowsList, RunningStreamIsListed, TaskStates
<1>5. ASSUME NEW b \in Broadcasts, BroadcastStarts(b)
      PROVE  ManagerInv'
  BY <1>5, AdvanceKeepsInv DEF BroadcastStarts
<1>6. ASSUME NEW b \in Broadcasts, NEW ok \in BOOLEAN, SendReturns(b, ok)
      PROVE  ManagerInv'
  BY <1>6, AdvanceKeepsInv DEF SendReturns
<1>7. ASSUME UNCHANGED vars
      PROVE  ManagerInv'
  BY <1>7 DEF vars, registry, coroutine, background, ManagerInv, Shape, RegistriesAgree,
              OutsideIsOut, StopFollowsList, RunningStreamIsListed
<1> QED  BY <1>1, <1>2, <1>3, <1>4, <1>5, <1>6, <1>7 DEF Next

\* The invariant holds in every state.
LEMMA ManagerAlways == Spec => []ManagerInv
  BY InitManagerInv, StepKeepsManagerInv, PTL DEF Spec

-----------------------------------------------------------------------------
(* The theorems. *)

\* ConnectionManager.disconnect and connect keep the registries in step: whatever
\* handlers, broadcasts and background tasks do in between, active_streams and
\* active_connections have the same keys, and only members are subscribed or
\* have a heartbeat.
THEOREM RegistriesStayInStep == Spec => []RegistriesAgree
<1>1. ManagerInv => RegistriesAgree
  BY DEF ManagerInv
<1> QED  BY <1>1, ManagerAlways, PTL

\* start_stream and stop_stream never lose a task that still runs, also when a
\* broadcast disconnects the client while they wait.
THEOREM NoStreamIsLost == Spec => []RunningStreamIsListed
<1>1. ManagerInv => RunningStreamIsListed
  BY DEF ManagerInv
<1> QED  BY <1>1, ManagerAlways, PTL

\* Once websocket_endpoint has ended, the manager holds nothing of the
\* connection and none of its tasks goes on.
THEOREM NothingIsLeft == Spec => []EndedLeavesNothing
<1>1. ManagerInv => EndedLeavesNothing
  <2> SUFFICES ASSUME ManagerInv, NEW c \in Conns, handler[c] = "ended"
               PROVE  /\ c \notin members \cup subscribed \cup streamKeys \cup room
                      /\ heartbeat[c] # "running"
                      /\ \A t \in Tasks : owner[t] = c => task[t] # "running"
    BY DEF EndedLeavesNothing
  <2>1. c \notin members \cup room
    BY DEF ManagerInv, OutsideIsOut
  <2>2. c \notin subscribed \cup streamKeys /\ heartbeat[c] # "running"
    BY <2>1 DEF ManagerInv, RegistriesAgree
  <2>3. \A t \in Tasks : owner[t] = c => task[t] # "running"
    BY <2>2 DEF ManagerInv, RunningStreamIsListed
  <2> QED  BY <2>1, <2>2, <2>3
<1> QED  BY <1>1, ManagerAlways, PTL

-----------------------------------------------------------------------------
(* What the dict keeps when it is rebuilt. *)

\* A set of natural numbers that is not empty has a smallest one.
LEMMA SmallestExists ==
  ASSUME NEW S \in SUBSET Nat, S # {}
  PROVE  \E m \in S : \A s \in S : m <= s
<1> DEFINE R == OpToRel(<, Nat)
<1>1. IsWellFoundedOn(R, Nat)
  BY NatLessThanWellFounded
<1>2. \A x, y \in Nat : <<y, x>> \in R <=> y < x
  BY DEF OpToRel
<1> HIDE DEF R
<1>3. PICK m \in S : \A s \in S : ~ (<<s, m>> \in R)
  BY <1>1, WFMin
<1>4. \A s \in S : s \in Nat /\ m \in Nat /\ ~ (s < m)
  BY <1>2, <1>3
<1>5. \A s \in S : m <= s
  BY <1>4
<1> QED  BY <1>3, <1>5

\* f is what the rebuild of a dict has kept of the first n entries.
IsKept(f, n) ==
  f = [i \in 0..n |-> IF i = 0 THEN <<>>
                      ELSE IF entries[i] \in members THEN Append(f[i - 1], entries[i]) ELSE f[i - 1]]

\* The rebuild gets through any number of entries.
LEMMA KeptExists ==
  ASSUME NEW N \in Nat
  PROVE  \E f : IsKept(f, N)
<1> DEFINE Bad == {n \in Nat : ~ \E f : IsKept(f, n)}
<1>1. SUFFICES ASSUME Bad # {} PROVE FALSE
  OBVIOUS
<1>2. PICK n \in Bad : \A m \in Bad : n <= m
  BY <1>1, SmallestExists
<1>3. CASE n = 0
  <2> DEFINE g == [i \in 0..0 |-> <<>>]
  <2>1. IsKept(g, 0)
    BY DEF IsKept
  <2> QED  BY <2>1, <1>3, <1>2
<1>4. CASE n # 0
  <2>1. n - 1 \in Nat /\ n - 1 \notin Bad
    BY <1>4, <1>2
  <2>2. PICK f : IsKept(f, n - 1)
    BY <2>1
  <2> DEFINE Next1(h, i) == IF entries[i] \in members THEN Append(h[i - 1], entries[i]) ELSE h[i - 1]
             g == [i \in 0..n |-> IF i < n THEN f[i] ELSE Next1(f, n)]
  <2>3. \A i \in 0..(n - 1) : f[i] = IF i = 0 THEN <<>> ELSE Next1(f, i)
    BY <2>2 DEF IsKept
  <2>4. \A i \in 0..n : g[i] = IF i = 0 THEN <<>> ELSE Next1(g, i)
    <3> SUFFICES ASSUME NEW i \in 0..n
                 PROVE  g[i] = IF i = 0 THEN <<>> ELSE Next1(g, i)
      OBVIOUS
    <3>1. CASE i = n
      BY <3>1, <1>4, <2>1
    <3>2. CASE i # n
      <4>1. i \in 0..(n - 1)
        BY <3>2, <2>1
      <4>2. g[i] = f[i] /\ (i # 0 => g[i - 1] = f[i - 1])
        BY <4>1, <2>1
      <4> QED  BY <4>1, <4>2, <2>3
    <3> QED  BY <3>1, <3>2
  <2>5. IsKept(g, n)
    BY <2>4 DEF IsKept
  <2> QED  BY <2>5, <1>2
<1> QED  BY <1>3, <1>4

\* A rebuilt dict still holds everybody who is connected.
LEMMA RebuiltKeepsMembers ==
  ASSUME entries \in Seq(Conns)
  PROVE  /\ Rebuilt \in Seq(Conns)
         /\ \A i \in 1..Len(entries) : entries[i] \in members =>
              \E j \in 1..Len(Rebuilt) : Rebuilt[j] = entries[i]
<1> DEFINE N == Len(entries)
           f == CHOOSE g : IsKept(g, N)
           Good(n) == /\ f[n] \in Seq(Conns)
                      /\ \A i \in 1..n : entries[i] \in members => \E j \in 1..Len(f[n]) : f[n][j] = entries[i]
           Bad == {n \in 0..N : ~Good(n)}
<1>1. N \in Nat /\ \A i \in 1..N : entries[i] \in Conns
  OBVIOUS
<1>2. IsKept(f, N)
  BY <1>1, KeptExists
<1>3. Rebuilt = f[N]
  BY DEF Rebuilt, IsKept
<1> HIDE DEF N, f
<1>4. \A i \in 0..N : f[i] = IF i = 0 THEN <<>>
                            ELSE IF entries[i] \in members THEN Append(f[i - 1], entries[i]) ELSE f[i - 1]
  BY <1>2 DEF IsKept
<1>5. Good(N)
  <2> SUFFICES ASSUME Bad # {} PROVE FALSE
    BY <1>1
  <2>1. PICK n \in Bad : \A k \in Bad : n <= k
    <3>1. Bad \in SUBSET Nat
      BY <1>1
    <3> QED  BY <3>1, SmallestExists
  <2>2. n \in 0..N /\ n \in Nat /\ ~Good(n)
    BY <1>1, <2>1
  <2>3. CASE n = 0
    <3>1. f[0] = <<>>
      BY <1>1, <1>4
    <3> QED  BY <2>2, <2>3, <3>1
  <2>4. CASE n # 0
    <3>1. n - 1 \in 0..N /\ n - 1 \notin Bad /\ n \in 1..N
      BY <1>1, <2>1, <2>2, <2>4
    <3>2. Good(n - 1)
      BY <3>1
    <3> DEFINE s == f[n - 1]
               x == entries[n]
    <3>3. s \in Seq(Conns) /\ x \in Conns
      BY <1>1, <3>1, <3>2
    <3>4. \A i \in 1..(n - 1) : entries[i] \in members => \E j \in 1..Len(s) : s[j] = entries[i]
      BY <3>2
    <3>5. f[n] = IF x \in members THEN Append(s, x) ELSE s
      BY <1>4, <2>2, <2>4
    <3>6. \A i \in 1..n : i \in 1..(n - 1) \/ i = n
      BY <2>2
    <3> HIDE DEF s, x
    <3>7. CASE x \in members
      <4>1. /\ Append(s, x) \in Seq(Conns) /\ Len(s) \in Nat /\ Len(Append(s, x)) = Len(s) + 1
            /\ \A j \in 1..Len(s) : Append(s, x)[j] = s[j]
            /\ Append(s, x)[Len(s) + 1] = x
        BY <3>3
      <4>2. \A j \in 1..Len(s) : j \in 1..Len(f[n])
        BY <3>5, <3>7, <4>1
      <4>3. Len(s) + 1 \in 1..Len(f[n])
        BY <3>5, <3>7, <4>1
      <4>4. ASSUME NEW i \in 1..n, entries[i] \in members
            PROVE  \E j \in 1..Len(f[n]) : f[n][j] = entries[i]
        <5>1. CASE i \in 1..(n - 1)
          <6>1. PICK j \in 1..Len(s) : s[j] = entries[i]
            BY <3>4, <4>4, <5>1
          <6> QED  BY <3>5, <3>7, <4>1, <4>2, <6>1
        <5>2. CASE i = n
          BY <3>5, <3>7, <4>1, <4>3, <5>2 DEF x
        <5> QED  BY <3>6, <5>1, <5>2
      <4> QED  BY <2>2, <3>5, <3>7, <4>1, <4>4
    <3>8. CASE x \notin members
      <4>1. f[n] = s
        BY <3>5, <3>8
      <4>2. \A i \in 1..n : entries[i] \in members => \E j \in 1..Len(s) : s[j] = entries[i]
        BY <3>4, <3>6, <3>8 DEF x
      <4> QED  BY <2>2, <3>3, <4>1, <4>2
    <3> QED  BY <3>7, <3>8
  <2> QED  BY <2>3, <2>4
<1> QED  BY <1>3, <1>5 DEF N

-----------------------------------------------------------------------------
(* Type correctness. *)

\* A broadcast that waits for a send sends to a connection, and the members can
\* be counted.
ManagerTypes ==
  /\ TypeOK /\ IsFiniteSet(members)
  /\ \A b \in Broadcasts : cast[b].state = "sending" => cast[b].to \in Conns

\* What the broadcasts note keeps their types.
LEMMA NoteTyped ==
  ASSUME ManagerTypes, NEW changed \in BOOLEAN, NEW S
  PROVE  /\ Note(changed, S) \in [Broadcasts -> CastRecords]
         /\ \A b \in Broadcasts : /\ Note(changed, S)[b].state = cast[b].state
                                  /\ Note(changed, S)[b].to = cast[b].to
<1> DEFINE Noted(k) == [k EXCEPT !.quiet = @ /\ ~changed, !.throughout = @ \ S]
<1>1. \A k \in CastRecords :
        Noted(k) \in CastRecords /\ Noted(k).state = k.state /\ Noted(k).to = k.to
  <2> SUFFICES ASSUME NEW k \in CastRecords
               PROVE  Noted(k) \in CastRecords /\ Noted(k).state = k.state /\ Noted(k).to = k.to
    OBVIOUS
  <2>1. (k.quiet /\ ~changed) \in BOOLEAN /\ k.throughout \ S \in SUBSET Conns
    BY DEF CastRecords
  <2> DEFINE q == k.quiet /\ ~changed
             t == k.throughout \ S
  <2>2. Noted(k) = [k EXCEPT !.quiet = q, !.throughout = t]
    OBVIOUS
  <2> HIDE DEF q, t, Noted
  <2>3. q \in BOOLEAN /\ t \in SUBSET Conns
    BY <2>1 DEF q, t
  <2> QED  BY <2>2, <2>3 DEF CastRecords
<1>2. \A b \in Broadcasts :
        Note(changed, S)[b] = IF cast[b].state # "sending" THEN cast[b] ELSE Noted(cast[b])
  BY DEF Note
<1>3. \A b \in Broadcasts : cast[b] \in CastRecords
  BY DEF ManagerTypes, TypeOK
<1> HIDE DEF Noted
<1>4. \A b \in Broadcasts : Note(changed, S)[b] \in CastRecords
  BY <1>1, <1>2, <1>3
<1>5. Note(changed, S) = [b \in Broadcasts |-> Note(changed, S)[b]]
  BY DEF Note
<1>6. Note(changed, S) \in [Broadcasts -> CastRecords]
  BY <1>4, <1>5
<1> QED  BY <1>1, <1>2, <1>3, <1>6

\* A disconnect keeps the types of the registries and of the tasks.
LEMMA DisconnectTyped ==
  ASSUME ManagerTypes, NEW S, Disconnect(S)
  PROVE  /\ members' \subseteq Conns /\ IsFiniteSet(members') /\ entries' \in Seq(Conns)
         /\ generation' \in Nat
         /\ subscribed' \subseteq Conns /\ streamKeys' \subseteq Conns
         /\ stream' \in [Conns -> Tasks \cup {NoTask}] /\ room' \subseteq Conns
         /\ heartbeat' \in [Conns -> TaskStates] /\ task' \in [Tasks -> TaskStates]
<1>1. members' = members \ S
  BY DEF Disconnect
<1>2. members' \subseteq members
  BY <1>1
<1>3. IsFiniteSet(members')
  BY <1>2, FS_Subset DEF ManagerTypes
<1>4. entries' \in Seq(Conns) /\ generation' \in Nat
  <2>1. <<>> \in Seq(Conns)
    OBVIOUS
  <2> QED  BY <2>1 DEF Disconnect, ManagerTypes, TypeOK
<1>5. heartbeat' \in [Conns -> TaskStates] /\ task' \in [Tasks -> TaskStates]
  BY DEF Disconnect, Cancelled, TaskStates, ManagerTypes, TypeOK
<1>6. /\ subscribed' \subseteq Conns /\ streamKeys' \subseteq Conns /\ room' \subseteq Conns
      /\ stream' \in [Conns -> Tasks \cup {NoTask}]
  BY DEF Disconnect, ManagerTypes, TypeOK
<1> QED  BY <1>2, <1>3, <1>4, <1>5, <1>6 DEF ManagerTypes, TypeOK

\* start_stream and stop_stream keep the types.
LEMMA BeginStreamTyped ==
  ASSUME ManagerTypes, NEW c \in Conns, BeginStream(c)
  PROVE  /\ restart' \subseteq Conns /\ streamKeys' \subseteq Conns
         /\ stream' \in [Conns -> Tasks \cup {NoTask}] /\ handler' \in [Conns -> HandlerStates]
         /\ task' \in [Tasks -> TaskStates] /\ owner' \in [Tasks -> Conns \cup {NoConn}]
<1>1. restart' \subseteq Conns /\ handler' \in [Conns -> HandlerStates]
  BY DEF BeginStream, ManagerTypes, TypeOK, HandlerStates
<1>2. CASE UNCHANGED <<streamKeys, stream, task, owner>>
  BY <1>1, <1>2 DEF ManagerTypes, TypeOK
<1>3. ASSUME NEW t \in Tasks, task' = [task EXCEPT ![t] = "running"],
             owner' = [owner EXCEPT ![t] = c], stream' = [stream EXCEPT ![c] = t],
             streamKeys' = streamKeys \cup {c}
      PROVE  /\ streamKeys' \subseteq Conns /\ stream' \in [Conns -> Tasks \cup {NoTask}]
             /\ task' \in [Tasks -> TaskStates] /\ owner' \in [Tasks -> Conns \cup {NoConn}]
  BY <1>3 DEF ManagerTypes, TypeOK, TaskStates
<1>4. \/ UNCHANGED <<streamKeys, stream, task, owner>>
      \/ /\ streamKeys' = streamKeys \cup {c}
         /\ \E t \in Tasks : /\ task' = [task EXCEPT ![t] = "running"]
                             /\ owner' = [owner EXCEPT ![t] = c]
                             /\ stream' = [stream EXCEPT ![c] = t]
  BY DEF BeginStream
<1> QED  BY <1>1, <1>2, <1>3, <1>4

\* To stop a stream is to take a task that ended off the list, or to cancel it and wait.
LEMMA BeginStopTyped ==
  ASSUME ManagerTypes, NEW c \in Conns, HasStream(c), BeginStop(c)
  PROVE  /\ stream' \in [Conns -> Tasks \cup {NoTask}] /\ handler' \in [Conns -> HandlerStates]
         /\ task' \in [Tasks -> TaskStates] /\ awaited' \in [Conns -> Tasks \cup {NoTask}]
<1>1. stream[c] \in Tasks
  BY DEF HasStream, ManagerTypes, TypeOK
<1> QED  BY <1>1 DEF BeginStop, ManagerTypes, TypeOK, HandlerStates, TaskStates

\* A broadcast goes on to a connection that is registered.
LEMMA AdvanceTyped ==
  ASSUME ManagerTypes, NEW b \in Broadcasts, NEW k \in CastRecords, Advance(b, k),
         UNCHANGED <<coroutine, owner, peer>>
  PROVE  ManagerTypes'
<1>0. /\ cast \in [Broadcasts -> CastRecords] /\ entries \in Seq(Conns)
      /\ \A x \in Broadcasts : cast[x].state = "sending" => cast[x].to \in Conns
  BY DEF ManagerTypes, TypeOK
<1>1. CASE /\ cast' = [cast EXCEPT ![b] = [k EXCEPT !.state = "aborted", !.to = NoConn]]
           /\ UNCHANGED <<registry, heartbeat, task>>
  <2>1. [k EXCEPT !.state = "aborted", !.to = NoConn] \in CastRecords
    BY DEF CastRecords, CastStates
  <2>2. cast' \in [Broadcasts -> CastRecords]
    BY <1>0, <1>1, <2>1
  <2>3. \A x \in Broadcasts : cast'[x].state = "sending" => cast'[x].to \in Conns
    BY <1>0, <1>1
  <2> QED  BY <1>1, <2>2, <2>3 DEF ManagerTypes, TypeOK, registry, coroutine
<1>2. CASE /\ Ahead(k) # {}
           /\ LET i == CHOOSE j \in Ahead(k) : \A l \in Ahead(k) : j <= l
              IN  cast' = [cast EXCEPT ![b] = [k EXCEPT !.state = "sending", !.at = i,
                                                        !.to = entries[i]]]
           /\ UNCHANGED <<registry, heartbeat, task>>
  <2>1. PICK i \in Ahead(k) : cast' = [cast EXCEPT ![b] = [k EXCEPT !.state = "sending", !.at = i,
                                                                    !.to = entries[i]]]
    <3>1. Ahead(k) \in SUBSET Nat
      BY <1>0 DEF Ahead, CastRecords
    <3>2. \E j \in Ahead(k) : \A l \in Ahead(k) : j <= l
      BY <1>2, <3>1, SmallestExists
    <3> QED  BY <1>2, <3>2
  <2>2. i \in Nat /\ entries[i] \in Conns
    BY <1>0, <2>1 DEF Ahead, CastRecords
  <2>3. [k EXCEPT !.state = "sending", !.at = i, !.to = entries[i]] \in CastRecords
    BY <2>2 DEF CastRecords, CastStates
  <2>4. cast' \in [Broadcasts -> CastRecords]
    BY <1>0, <2>1, <2>3
  <2>5. \A x \in Broadcasts : cast'[x].state = "sending" => cast'[x].to \in Conns
    <3>1. cast'[b].to = entries[i]
      BY <1>0, <2>1 DEF CastRecords
    <3> QED  BY <1>0, <2>1, <2>2, <3>1
  <2> QED  BY <1>2, <2>4, <2>5 DEF ManagerTypes, TypeOK, registry, coroutine
<1>3. CASE /\ Disconnect(k.failed)
           /\ cast' = [NoteLeave(k.failed) EXCEPT ![b] = [k EXCEPT !.state = "complete", !.to = NoConn]]
  <2>1. [k EXCEPT !.state = "complete", !.to = NoConn] \in CastRecords
    BY DEF CastRecords, CastStates
  <2>2. /\ NoteLeave(k.failed) \in [Broadcasts -> CastRecords]
        /\ \A x \in Broadcasts : /\ NoteLeave(k.failed)[x].state = cast[x].state
                                 /\ NoteLeave(k.failed)[x].to = cast[x].to
    <3>1. (k.failed \cap members # {}) \in BOOLEAN
      OBVIOUS
    <3> QED  BY <3>1, NoteTyped DEF NoteLeave
  <2>3. cast' \in [Broadcasts -> CastRecords]
    BY <1>3, <2>1, <2>2
  <2>4. \A x \in Broadcasts : cast'[x].state = "sending" => cast'[x].to \in Conns
    BY <1>0, <1>3, <2>2
  <2> QED  BY <1>3, <2>3, <2>4, DisconnectTyped DEF ManagerTypes, TypeOK, coroutine
<1> QED  BY <1>1, <1>2, <1>3 DEF Advance

\* The steps of a handler keep the types.
LEMMA HandlerTyped ==
  ASSUME ManagerTypes, NEW c \in Conns,
         \/ Register(c) \/ AcceptFails(c) \/ HandlerStep(c) \/ HandlerEnds(c) \/ Messages(c)
  PROVE  ManagerTypes'
<1> USE NoTaskAssumption
<1>0. TRUE \in BOOLEAN /\ FALSE \in BOOLEAN
  OBVIOUS
<1>1. CASE Register(c)
  <2>1. IsFiniteSet(members \cup {c})
    BY FS_AddElement DEF ManagerTypes
  <2>2. entries' \in Seq(Conns)
    <3>1. Rebuilt \in Seq(Conns) /\ entries \in Seq(Conns)
      BY RebuiltKeepsMembers DEF ManagerTypes, TypeOK
    <3>2. \A s \in Seq(Conns) : Append(s, c) \in Seq(Conns)
      OBVIOUS
    <3> QED  BY <1>1, <3>1, <3>2 DEF Register
  <2>3. /\ cast' \in [Broadcasts -> CastRecords]
        /\ \A b \in Broadcasts : cast'[b].state = cast[b].state /\ cast'[b].to = cast[b].to
    BY <1>0, <1>1, NoteTyped DEF Register
  <2>4. /\ members' = members \cup {c} /\ streamKeys' = streamKeys \cup {c}
        /\ heartbeat' \in [Conns -> TaskStates] /\ handler' \in [Conns -> HandlerStates]
    BY <1>1 DEF Register, ManagerTypes, TypeOK, TaskStates, HandlerStates
  <2> QED  BY <1>1, <2>1, <2>2, <2>3, <2>4 DEF Register, ManagerTypes, TypeOK
<1>2. CASE AcceptFails(c)
  BY <1>2 DEF AcceptFails, registry, background, ManagerTypes, TypeOK, HandlerStates
<1>3. CASE Replied(c)
  BY <1>3 DEF Replied, registry, background, ManagerTypes, TypeOK, HandlerStates
<1>4. CASE HandlerEnds(c)
  <2>1. /\ cast' \in [Broadcasts -> CastRecords]
        /\ \A b \in Broadcasts : cast'[b].state = cast[b].state /\ cast'[b].to = cast[b].to
    <3>1. ({c} \cap members # {}) \in BOOLEAN
      OBVIOUS
    <3>2. cast' = Note({c} \cap members # {}, {c})
      BY <1>4 DEF HandlerEnds, NoteLeave
    <3> QED  BY <3>1, <3>2, NoteTyped
  <2>2. handler' \in [Conns -> HandlerStates] /\ peer' \in [Conns -> {"up", "gone"}]
    BY <1>4 DEF HandlerEnds, ManagerTypes, TypeOK, HandlerStates
  <2>3. Disconnect({c}) /\ UNCHANGED <<awaited, restart, messages, owner>>
    BY <1>4 DEF HandlerEnds
  <2> QED  BY <2>1, <2>2, <2>3, DisconnectTyped DEF ManagerTypes, TypeOK
<1>m. Message(c) => messages' \in 0..MaxMessages
  BY MaxMessagesAssumption DEF Message, ManagerTypes, TypeOK
<1>r. Reply(c) => handler' \in [Conns -> HandlerStates]
  BY DEF Reply, ManagerTypes, TypeOK, HandlerStates
<1>5. CASE Subscribe(c)
  BY <1>5, <1>m, <1>r DEF Subscribe, background, ManagerTypes, TypeOK
<1>6. CASE Unsubscribe(c)
  <2>1. /\ cast' \in [Broadcasts -> CastRecords]
        /\ \A b \in Broadcasts : cast'[b].state = cast[b].state /\ cast'[b].to = cast[b].to
    BY <1>0, <1>6, NoteTyped DEF Unsubscribe
  <2> QED  BY <1>6, <1>m, <1>r, <2>1 DEF Unsubscribe, background, ManagerTypes, TypeOK
<1>7. CASE JoinRoom(c)
  BY <1>7, <1>m, <1>r DEF JoinRoom, background, ManagerTypes, TypeOK
<1>8. CASE LeaveRoom(c)
  BY <1>8, <1>m, <1>r DEF LeaveRoom, background, ManagerTypes, TypeOK
<1>9. CASE StartStream(c)
  <2>0. /\ Message(c)
        /\ UNCHANGED <<members, entries, generation, subscribed, room, heartbeat, peer, cast>>
    BY <1>9 DEF StartStream
  <2>1. CASE /\ HasStream(c) /\ BeginStop(c) /\ restart' = restart \cup {c}
             /\ UNCHANGED <<streamKeys, owner>>
    BY <1>m, <2>0, <2>1, BeginStopTyped DEF ManagerTypes, TypeOK
  <2>2. CASE BeginStream(c) /\ UNCHANGED awaited
    BY <1>m, <2>0, <2>2, BeginStreamTyped DEF ManagerTypes, TypeOK
  <2> QED  BY <1>9, <2>1, <2>2 DEF StartStream
<1>10. CASE StopStream(c)
  <2>0. /\ Message(c)
        /\ UNCHANGED <<members, entries, generation, subscribed, streamKeys, room, restart,
                                  heartbeat, owner, peer, cast>>
    BY <1>10 DEF StopStream
  <2>1. CASE HasStream(c) /\ BeginStop(c)
    BY <1>m, <2>0, <2>1, BeginStopTyped DEF ManagerTypes, TypeOK
  <2>2. CASE UNCHANGED <<stream, handler, task, awaited>>
    BY <1>m, <2>0, <2>2 DEF ManagerTypes, TypeOK
  <2> QED  BY <1>10, <2>1, <2>2 DEF StopStream
<1>11. CASE TakeOffList(c)
  BY <1>11 DEF TakeOffList, background, ManagerTypes, TypeOK, HandlerStates
<1>12. CASE StopRaises(c)
  <2>1. /\ cast' \in [Broadcasts -> CastRecords]
        /\ \A b \in Broadcasts : cast'[b].state = cast[b].state /\ cast'[b].to = cast[b].to
    <3>1. ({c} \cap members # {}) \in BOOLEAN
      OBVIOUS
    <3> QED  BY <1>12, <3>1, NoteTyped DEF StopRaises, NoteLeave
  <2>2. /\ handler' \in [Conns -> HandlerStates] /\ peer' \in [Conns -> {"up", "gone"}]
        /\ awaited' \in [Conns -> Tasks \cup {NoTask}] /\ restart' \subseteq Conns
    BY <1>12 DEF StopRaises, ManagerTypes, TypeOK, HandlerStates
  <2>3. Disconnect({c}) /\ UNCHANGED <<messages, owner>>
    BY <1>12 DEF StopRaises
  <2> QED  BY <2>1, <2>2, <2>3, DisconnectTyped DEF ManagerTypes, TypeOK
<1>13. CASE Stopped(c)
  <2>0. UNCHANGED <<members, entries, generation, subscribed, room, awaited, messages, heartbeat,
                    peer, cast>>
    BY <1>13 DEF Stopped
  <2>1. CASE BeginStream(c)
    BY <2>0, <2>1, BeginStreamTyped DEF ManagerTypes, TypeOK
  <2>2. CASE /\ handler' = [handler EXCEPT ![c] = "receiving"]
             /\ UNCHANGED <<restart, streamKeys, stream, task, owner>>
    BY <2>0, <2>2 DEF ManagerTypes, TypeOK, HandlerStates
  <2> QED  BY <1>13, <2>1, <2>2 DEF Stopped
<1> QED  BY <1>1, <1>2, <1>3, <1>4, <1>5, <1>6, <1>7, <1>8, <1>9, <1>10, <1>11, <1>12, <1>13
         DEF HandlerStep, Messages

\* Every step keeps the types.
LEMMA StepManagerTyped == ManagerTypes /\ [Next]_vars => ManagerTypes'
<1> SUFFICES ASSUME ManagerTypes, [Next]_vars PROVE ManagerTypes'
  OBVIOUS
<1>1. ASSUME NEW c \in Conns,
             \/ Register(c) \/ AcceptFails(c) \/ HandlerStep(c) \/ HandlerEnds(c) \/ Messages(c)
      PROVE  ManagerTypes'
  BY <1>1, HandlerTyped
<1>2. ASSUME NEW c \in Conns, HeartbeatEnds(c)
      PROVE  ManagerTypes'
  BY <1>2 DEF HeartbeatEnds, registry, coroutine, ManagerTypes, TypeOK, TaskStates
<1>3. ASSUME NEW c \in Conns, PeerLeaves(c)
      PROVE  ManagerTypes'
  BY <1>3 DEF PeerLeaves, registry, coroutine, background, ManagerTypes, TypeOK
<1>4. ASSUME NEW t \in Tasks, StreamEnds(t)
      PROVE  ManagerTypes'
  BY <1>4 DEF StreamEnds, registry, coroutine, ManagerTypes, TypeOK, TaskStates
<1>5. ASSUME NEW b \in Broadcasts, BroadcastStarts(b)
      PROVE  ManagerTypes'
  <2>1. Cardinality(members) \in Nat
    BY FS_CardinalityType DEF ManagerTypes
  <2>2. [NoCast EXCEPT !.generation = generation, !.size = Cardinality(members),
                       !.throughout = members \cap subscribed] \in CastRecords
    BY <2>1 DEF NoCast, CastRecords, CastStates, ManagerTypes, TypeOK
  <2> QED  BY <1>5, <2>2, AdvanceTyped DEF BroadcastStarts
<1>6. ASSUME NEW b \in Broadcasts, NEW ok \in BOOLEAN, SendReturns(b, ok)
      PROVE  ManagerTypes'
  <2>1. cast[b] \in CastRecords /\ cast[b].to \in Conns
    BY <1>6 DEF SendReturns, ManagerTypes, TypeOK
  <2>2. [cast[b] EXCEPT !.reached = @ \cup {cast[b].to},
                        !.failed = IF ok THEN @ ELSE @ \cup {cast[b].to}] \in CastRecords
    BY <2>1 DEF CastRecords
  <2> QED  BY <1>6, <2>2, AdvanceTyped DEF SendReturns
<1>7. ASSUME UNCHANGED vars
      PROVE  ManagerTypes'
  BY <1>7 DEF vars, registry, coroutine, background, ManagerTypes, TypeOK
<1> QED  BY <1>1, <1>2, <1>3, <1>4, <1>5, <1>6, <1>7 DEF Next

\* Nobody is connected at the start.
LEMMA InitManagerTyped == Init => ManagerTypes
<1> SUFFICES ASSUME Init PROVE ManagerTypes
  OBVIOUS
<1>1. NoCast \in CastRecords /\ NoCast.state # "sending"
  BY DEF NoCast, CastRecords, CastStates
<1>2. members = {} /\ IsFiniteSet({})
  BY FS_EmptySet DEF Init
<1>3. <<>> \in Seq(Conns)
  OBVIOUS
<1>4. TypeOK
  BY <1>1, <1>3, MaxMessagesAssumption DEF Init, TypeOK, HandlerStates, TaskStates
<1> QED  BY <1>1, <1>2, <1>4 DEF Init, ManagerTypes

\* ConnectionManager: its dictionaries, sets and tasks have their types.
THEOREM ManagerTypeCorrect == Spec => []TypeOK
<1>1. ManagerTypes => TypeOK
  BY DEF ManagerTypes
<1> QED  BY <1>1, InitManagerTyped, StepManagerTyped, PTL DEF Spec

-----------------------------------------------------------------------------
(* What a broadcast reaches. *)

\* The dict of a workspace has an entry for everybody who is registered.
MembersAreListed == \A c \in members : \E i \in 1..Len(entries) : entries[i] = c

\* Broadcast k, when it has sent to those in done, has found the membership it
\* began with, and everybody who is subscribed all the while is behind it, in
\* done, or still ahead of it.
OnCourse(k, done) ==
  /\ ~SizeChanged(k)
  /\ \A c \in k.throughout :
       /\ c \in members /\ c \in subscribed
       /\ c \in done \/ \E i \in (k.at + 1)..Len(entries) : entries[i] = c

\* Broadcast b while it waits for a send and when it is over.
CastRight(b) ==
  /\ (cast[b].state = "sending" /\ cast[b].quiet) =>
       OnCourse(cast[b], cast[b].reached \cup {cast[b].to})
  /\ (cast[b].state \in {"complete", "aborted"} /\ cast[b].quiet) =>
       cast[b].state = "complete" /\ cast[b].throughout \subseteq cast[b].reached

\* The inductive invariant of the broadcasts.
CastInv == ManagerTypes /\ MembersAreListed /\ \A b \in Broadcasts : CastRight(b)

\* What a broadcast under way notes changes nothing else of it.
LEMMA NoteFields ==
  ASSUME ManagerTypes, NEW changed \in BOOLEAN, NEW S, NEW b \in Broadcasts,
         NEW k, k = Note(changed, S)[b]
  PROVE  /\ cast[b].state # "sending" => k = cast[b]
         /\ cast[b].state = "sending" =>
              /\ k.state = "sending" /\ k.generation = cast[b].generation
              /\ k.size = cast[b].size /\ k.at = cast[b].at /\ k.to = cast[b].to
              /\ k.reached = cast[b].reached
              /\ k.throughout = cast[b].throughout \ S
              /\ k.quiet => cast[b].quiet /\ ~changed
<1>1. cast[b] \in CastRecords
  BY DEF ManagerTypes, TypeOK
<1>2. k = IF cast[b].state # "sending" THEN cast[b]
          ELSE [cast[b] EXCEPT !.quiet = @ /\ ~changed, !.throughout = @ \ S]
  BY DEF Note
<1> DEFINE q == cast[b].quiet /\ ~changed
           t == cast[b].throughout \ S
           r == cast[b]
<1>3. k = IF r.state # "sending" THEN r ELSE [r EXCEPT !.quiet = q, !.throughout = t]
  BY <1>2
<1>4. /\ r \in CastRecords /\ r = cast[b] /\ q = (cast[b].quiet /\ ~changed)
      /\ t = cast[b].throughout \ S
  BY <1>1
<1> HIDE DEF q, t, r
<1>5. r.state # "sending" => k = r
  BY <1>3
<1>6. r.state = "sending" =>
        /\ k.state = "sending" /\ k.generation = r.generation
        /\ k.size = r.size /\ k.at = r.at /\ k.to = r.to
        /\ k.reached = r.reached /\ k.throughout = t /\ k.quiet = q
  BY <1>3, <1>4 DEF CastRecords
<1> QED  BY <1>4, <1>5, <1>6

\* Broadcast b stays right as long as nobody joins or leaves and it notes who
\* unsubscribes.
LEMMA SameMembership ==
  ASSUME ManagerTypes, NEW b \in Broadcasts, CastRight(b), UNCHANGED <<members, entries, generation>>,
         NEW S, subscribed \ S \subseteq subscribed',
         NEW changed \in BOOLEAN, cast'[b] = Note(changed, S)[b]
  PROVE  CastRight(b)'
<1> DEFINE k == cast[b]
           n == cast'[b]
<1>1. /\ k.state # "sending" => n = k
      /\ k.state = "sending" =>
           /\ n.state = "sending" /\ n.generation = k.generation
           /\ n.size = k.size /\ n.at = k.at /\ n.to = k.to
           /\ n.reached = k.reached
           /\ n.throughout = k.throughout \ S
           /\ n.quiet => k.quiet /\ ~changed
  BY NoteFields
<1>2. CASE k.state # "sending"
  BY <1>1, <1>2 DEF CastRight
<1>3. CASE k.state = "sending" /\ ~n.quiet
  BY <1>3 DEF CastRight
<1>4. CASE k.state = "sending" /\ n.quiet
  <2>1. OnCourse(k, k.reached \cup {k.to})
    BY <1>1, <1>4 DEF CastRight
  <2>2. n.generation = generation' /\ n.size = Cardinality(members')
    BY <1>1, <1>4, <2>1 DEF OnCourse, SizeChanged
  <2>3. ASSUME NEW c \in n.throughout
        PROVE  /\ c \in members' /\ c \in subscribed'
               /\ \/ c \in n.reached \cup {n.to}
                  \/ \E i \in (n.at + 1)..Len(entries') : entries'[i] = c
    <3>1. c \in k.throughout /\ c \notin S
      BY <1>1, <1>4, <2>3
    <3>2. /\ c \in members /\ c \in subscribed
          /\ c \in k.reached \cup {k.to} \/ \E i \in (k.at + 1)..Len(entries) : entries[i] = c
      BY <2>1, <3>1 DEF OnCourse
    <3>3. c \in subscribed'
      BY <3>1, <3>2
    <3>4. n.reached \cup {n.to} = k.reached \cup {k.to} /\ n.at = k.at
      BY <1>1, <1>4
    <3> QED  BY <3>2, <3>3, <3>4
  <2>4. OnCourse(cast[b], cast[b].reached \cup {cast[b].to})'
    BY <2>2, <2>3 DEF OnCourse, SizeChanged
  <2> QED  BY <1>1, <1>4, <2>4 DEF CastRight
<1> QED  BY <1>2, <1>3, <1>4

\* Broadcast b stays right if it does not move and nobody joins, leaves or
\* unsubscribes.
LEMMA SameCast ==
  ASSUME NEW b \in Broadcasts, CastRight(b), UNCHANGED <<members, entries, generation>>,
         subscribed \subseteq subscribed', cast'[b] = cast[b]
  PROVE  CastRight(b)'
<1> DEFINE k == cast[b]
<1>1. ASSUME k.state = "sending", k.quiet
      PROVE  OnCourse(cast[b], cast[b].reached \cup {cast[b].to})'
  <2>1. OnCourse(k, k.reached \cup {k.to})
    BY <1>1 DEF CastRight
  <2> QED  BY <2>1 DEF OnCourse, SizeChanged
<1> QED  BY <1>1 DEF CastRight

\* Broadcast b is no longer quiet once somebody has joined or left.
LEMMA NoticedChange ==
  ASSUME ManagerTypes, NEW b \in Broadcasts, CastRight(b), NEW S,
         NEW changed \in BOOLEAN, cast'[b] = Note(changed, S)[b]
  PROVE  changed => CastRight(b)'
<1> DEFINE k == cast[b]
           n == cast'[b]
<1>1. /\ k.state # "sending" => n = k
      /\ k.state = "sending" => n.state = "sending" /\ (n.quiet => k.quiet /\ ~changed)
  BY NoteFields
<1>2. CASE k.state # "sending"
  <2>1. n = k
    BY <1>1, <1>2
  <2> QED  BY <1>2, <2>1 DEF CastRight
<1>3. CASE k.state = "sending" /\ ~n.quiet
  BY <1>1, <1>3 DEF CastRight
<1> QED  BY <1>1, <1>2, <1>3

\* A disconnect leaves the dict with those who stay.
LEMMA DisconnectKeepsList ==
  ASSUME MembersAreListed, NEW S, Disconnect(S)
  PROVE  MembersAreListed'
<1>1. CASE members # {} /\ members \subseteq S
  <2>1. members' = {}
    BY <1>1 DEF Disconnect
  <2> QED  BY <2>1 DEF MembersAreListed
<1>2. CASE ~(members # {} /\ members \subseteq S)
  <2>1. entries' = entries /\ members' \subseteq members
    BY <1>2 DEF Disconnect
  <2> QED  BY <2>1 DEF MembersAreListed
<1> QED  BY <1>1, <1>2

\* A disconnect, noted by a broadcast, keeps it right.
LEMMA DisconnectKeepsCast ==
  ASSUME ManagerTypes, NEW b \in Broadcasts, CastRight(b), NEW S, Disconnect(S),
         cast'[b] = NoteLeave(S)[b]
  PROVE  CastRight(b)'
<1>1. CASE S \cap members # {}
  <2>1. cast'[b] = Note(S \cap members # {}, S)[b] /\ (S \cap members # {}) \in BOOLEAN
    BY DEF NoteLeave
  <2> QED  BY <1>1, <2>1, NoticedChange
<1>2. CASE S \cap members = {}
  <2>1. members' = members
    BY <1>2 DEF Disconnect
  <2>2. entries' = entries /\ generation' = generation /\ subscribed' = subscribed \ S
    BY <1>2 DEF Disconnect
  <2>3. cast'[b] = Note(FALSE, S)[b]
    <3>1. (S \cap members # {}) = FALSE
      BY <1>2
    <3> QED  BY <3>1 DEF NoteLeave
  <2>4. FALSE \in BOOLEAN /\ subscribed \ S \subseteq subscribed'
    BY <2>2
  <2> QED  BY <2>1, <2>2, <2>3, <2>4, SameMembership
<1> QED  BY <1>1, <1>2

\* A broadcast on its course goes on to the next connection or ends with
\* everybody reached; what it disconnects the others notice.
LEMMA AdvanceRight ==
  ASSUME CastInv, NEW b \in Broadcasts, NEW k \in CastRecords, k.quiet => OnCourse(k, k.reached),
         Advance(b, k)
  PROVE  MembersAreListed' /\ \A x \in Broadcasts : CastRight(x)'
<1>0. /\ cast \in [Broadcasts -> CastRecords] /\ entries \in Seq(Conns) /\ Ahead(k) \in SUBSET Nat
      /\ ManagerTypes /\ MembersAreListed /\ \A x \in Broadcasts : CastRight(x)
  BY DEF CastInv, ManagerTypes, TypeOK, Ahead, CastRecords
<1>1. CASE /\ SizeChanged(k)
           /\ cast' = [cast EXCEPT ![b] = [k EXCEPT !.state = "aborted", !.to = NoConn]]
           /\ UNCHANGED <<registry, heartbeat, task>>
  <2>1. /\ cast'[b] = [k EXCEPT !.state = "aborted", !.to = NoConn]
        /\ \A x \in Broadcasts \ {b} : cast'[x] = cast[x]
        /\ UNCHANGED <<members, entries, generation, subscribed>>
    BY <1>0, <1>1 DEF registry
  <2>2. ~k.quiet
    BY <1>1 DEF OnCourse
  <2>3. cast'[b].state = "aborted" /\ ~cast'[b].quiet
    BY <2>1, <2>2 DEF CastRecords
  <2>4. CastRight(b)'
    BY <2>3 DEF CastRight
  <2>5. \A x \in Broadcasts \ {b} : CastRight(x)'
    BY <1>0, <2>1, SameCast
  <2> QED  BY <1>0, <2>1, <2>4, <2>5 DEF MembersAreListed
<1>2. CASE /\ ~SizeChanged(k)
           /\ Ahead(k) # {}
           /\ LET i == CHOOSE j \in Ahead(k) : \A l \in Ahead(k) : j <= l
              IN  cast' = [cast EXCEPT ![b] = [k EXCEPT !.state = "sending", !.at = i,
                                                        !.to = entries[i]]]
           /\ UNCHANGED <<registry, heartbeat, task>>
  <2>1. PICK i \in Ahead(k) :
          /\ \A l \in Ahead(k) : i <= l
          /\ cast' = [cast EXCEPT ![b] = [k EXCEPT !.state = "sending", !.at = i, !.to = entries[i]]]
    <3>1. \E j \in Ahead(k) : \A l \in Ahead(k) : j <= l
      BY <1>0, <1>2, SmallestExists
    <3> QED  BY <1>2, <3>1
  <2>2. /\ cast'[b] = [k EXCEPT !.state = "sending", !.at = i, !.to = entries[i]]
        /\ \A x \in Broadcasts \ {b} : cast'[x] = cast[x]
        /\ UNCHANGED <<members, entries, generation, subscribed>>
    BY <1>0, <1>2, <2>1 DEF registry
  <2>3. \A x \in Broadcasts \ {b} : CastRight(x)'
    BY <1>0, <2>2, SameCast
  <2> DEFINE n == cast'[b]
  <2>4. /\ n.state = "sending" /\ n.generation = k.generation /\ n.size = k.size /\ n.at = i
        /\ n.to = entries[i] /\ n.reached = k.reached /\ n.throughout = k.throughout
        /\ n.quiet = k.quiet
    BY <2>2 DEF CastRecords
  <2>5. CASE ~k.quiet
    <3>1. CastRight(b)'
      BY <2>4, <2>5 DEF CastRight
    <3> QED  BY <1>0, <2>2, <2>3, <3>1 DEF MembersAreListed
  <2>6. CASE k.quiet
    <3>1. ASSUME NEW c \in k.throughout
          PROVE  /\ c \in members /\ c \in subscribed
                 /\ \/ c \in k.reached \cup {entries[i]}
                    \/ \E j \in (i + 1)..Len(entries) : entries[j] = c
      <4>1. /\ c \in members /\ c \in subscribed
            /\ c \in k.reached \/ \E j \in (k.at + 1)..Len(entries) : entries[j] = c
        BY <2>6, <3>1 DEF OnCourse
      <4>2. ASSUME NEW j \in (k.at + 1)..Len(entries), entries[j] = c
            PROVE  c = entries[i] \/ j \in (i + 1)..Len(entries)
        <5>1. j \in Ahead(k)
          BY <4>1, <4>2 DEF Ahead
        <5>2. i <= j /\ i \in Nat /\ j \in Nat /\ j <= Len(entries) /\ Len(entries) \in Nat
          BY <1>0, <2>1, <4>2, <5>1
        <5>3. j = i \/ j \in (i + 1)..Len(entries)
          BY <5>2
        <5> QED  BY <4>2, <5>3
      <4> QED  BY <4>1, <4>2
    <3>2. OnCourse(cast[b], cast[b].reached \cup {cast[b].to})'
      <4>1. n.generation = generation' /\ n.size = Cardinality(members')
        BY <1>2, <2>2, <2>4 DEF SizeChanged
      <4>2. ASSUME NEW c \in n.throughout
            PROVE  /\ c \in members' /\ c \in subscribed'
                   /\ \/ c \in n.reached \cup {n.to}
                      \/ \E j \in (n.at + 1)..Len(entries') : entries'[j] = c
        BY <2>2, <2>4, <3>1, <4>2
      <4> QED  BY <4>1, <4>2 DEF OnCourse, SizeChanged
    <3>3. CastRight(b)'
      BY <2>4, <3>2 DEF CastRight
    <3> QED  BY <1>0, <2>2, <2>3, <3>3 DEF MembersAreListed
  <2> QED  BY <2>5, <2>6
<1>3. CASE /\ ~SizeChanged(k)
           /\ Ahead(k) = {}
           /\ Disconnect(k.failed)
           /\ cast' = [NoteLeave(k.failed) EXCEPT ![b] = [k EXCEPT !.state = "complete", !.to = NoConn]]
  <2>1. /\ cast'[b] = [k EXCEPT !.state = "complete", !.to = NoConn]
        /\ \A x \in Broadcasts \ {b} : cast'[x] = NoteLeave(k.failed)[x]
    <3>1. DOMAIN NoteLeave(k.failed) = Broadcasts
      BY DEF NoteLeave, Note
    <3>2. NoteLeave(k.failed) = [x \in Broadcasts |-> NoteLeave(k.failed)[x]]
      BY DEF NoteLeave, Note
    <3> QED  BY <1>3, <3>1, <3>2
  <2>2. \A x \in Broadcasts \ {b} : CastRight(x)'
    BY <1>0, <1>3, <2>1, DisconnectKeepsCast
  <2>3. /\ cast'[b].state = "complete" /\ cast'[b].quiet = k.quiet
        /\ cast'[b].throughout = k.throughout /\ cast'[b].reached = k.reached
    BY <2>1 DEF CastRecords
  <2>4. k.quiet => k.throughout \subseteq k.reached
    <3>1. SUFFICES ASSUME k.quiet, NEW c \in k.throughout, c \notin k.reached PROVE FALSE
      OBVIOUS
    <3>2. PICK j \in (k.at + 1)..Len(entries) : entries[j] = c /\ c \in members /\ c \in subscribed
      BY <3>1 DEF OnCourse
    <3>3. j \in Ahead(k)
      BY <3>2 DEF Ahead
    <3> QED  BY <1>3, <3>3
  <2>5. CastRight(b)'
    BY <2>3, <2>4 DEF CastRight
  <2>6. MembersAreListed'
    BY <1>0, <1>3, DisconnectKeepsList
  <2> QED  BY <2>2, <2>5, <2>6
<1> QED  BY <1>1, <1>2, <1>3 DEF Advance

\* Every step keeps the broadcasts right.
LEMMA StepCast == CastInv /\ [Next]_vars => CastInv'
<1> SUFFICES ASSUME CastInv, [Next]_vars PROVE CastInv'
  OBVIOUS
<1>0. /\ ManagerTypes /\ MembersAreListed /\ \A b \in Broadcasts : CastRight(b)
      /\ entries \in Seq(Conns)
  BY DEF CastInv, ManagerTypes, TypeOK
<1>1. ManagerTypes'
  BY <1>0, StepManagerTyped
<1>s. ASSUME UNCHANGED <<members, entries, generation, cast>>, subscribed \subseteq subscribed'
      PROVE  CastInv'
  <2>1. \A b \in Broadcasts : CastRight(b)'
    BY <1>0, <1>s, SameCast
  <2> QED  BY <1>0, <1>1, <1>s, <2>1 DEF CastInv, MembersAreListed
<1>d. ASSUME NEW c \in Conns, Disconnect({c}), cast' = NoteLeave({c})
      PROVE  CastInv'
  <2>1. MembersAreListed'
    BY <1>0, <1>d, DisconnectKeepsList
  <2>2. \A b \in Broadcasts : CastRight(b)'
    BY <1>0, <1>d, DisconnectKeepsCast
  <2> QED  BY <1>1, <2>1, <2>2 DEF CastInv
<1>2. ASSUME NEW c \in Conns, Register(c)
      PROVE  CastInv'
  <2>0. TRUE \in BOOLEAN /\ cast' = Note(TRUE, {})
    BY <1>2 DEF Register
  <2>1. \A b \in Broadcasts : CastRight(b)'
    BY <1>0, <2>0, NoticedChange
  <2>2. MembersAreListed'
    <3> DEFINE base == IF Len(entries) = FirstResize THEN Rebuilt ELSE entries
    <3>1. base \in Seq(Conns) /\ \A x \in members : \E j \in 1..Len(base) : base[j] = x
      BY <1>0, RebuiltKeepsMembers DEF MembersAreListed
    <3>2. members' = members \cup {c} /\ entries' = Append(base, c)
      BY <1>2 DEF Register
    <3> HIDE DEF base
    <3>3. /\ Len(base) \in Nat /\ Len(entries') = Len(base) + 1 /\ entries'[Len(base) + 1] = c
          /\ \A j \in 1..Len(base) : entries'[j] = base[j]
      BY <3>1, <3>2
    <3>4. Len(base) + 1 \in 1..Len(entries') /\ \A j \in 1..Len(base) : j \in 1..Len(entries')
      BY <3>3
    <3>5. \A x \in members : \E j \in 1..Len(entries') : entries'[j] = x
      BY <3>1, <3>3, <3>4
    <3> QED  BY <3>2, <3>3, <3>4, <3>5 DEF MembersAreListed
  <2> QED  BY <1>1, <2>1, <2>2 DEF CastInv
<1>3. ASSUME NEW c \in Conns, AcceptFails(c) \/ Replied(c) \/ PeerLeaves(c) \/ HeartbeatEnds(c)
      PROVE  CastInv'
  BY <1>3, <1>s DEF AcceptFails, Replied, PeerLeaves, HeartbeatEnds, registry
<1>4. ASSUME NEW c \in Conns, HandlerEnds(c) \/ StopRaises(c)
      PROVE  CastInv'
  BY <1>4, <1>d DEF HandlerEnds, StopRaises
<1>5. ASSUME NEW c \in Conns, Subscribe(c) \/ JoinRoom(c) \/ LeaveRoom(c) \/ StartStream(c)
                              \/ StopStream(c) \/ TakeOffList(c) \/ Stopped(c)
      PROVE  CastInv'
  <2>1. UNCHANGED <<members, entries, generation, cast>>
    BY <1>5 DEF Subscribe, JoinRoom, LeaveRoom, StartStream, StopStream, TakeOffList, Stopped
  <2>2. subscribed \subseteq subscribed'
    BY <1>5 DEF Subscribe, JoinRoom, LeaveRoom, StartStream, StopStream, TakeOffList, Stopped
  <2> QED  BY <1>s, <2>1, <2>2
<1>6. ASSUME NEW c \in Conns, Unsubscribe(c)
      PROVE  CastInv'
  <2>1. /\ UNCHANGED <<members, entries, generation>> /\ subscribed \ {c} \subseteq subscribed'
        /\ cast' = Note(FALSE, {c}) /\ FALSE \in BOOLEAN
    BY <1>6 DEF Unsubscribe
  <2>2. \A b \in Broadcasts : CastRight(b)'
    BY <1>0, <2>1, SameMembership
  <2> QED  BY <1>0, <1>1, <2>1, <2>2 DEF CastInv, MembersAreListed
<1>7. ASSUME NEW t \in Tasks, StreamEnds(t)
      PROVE  CastInv'
  BY <1>7, <1>s DEF StreamEnds, registry
<1>8. ASSUME NEW b \in Broadcasts, BroadcastStarts(b)
      PROVE  CastInv'
  <2> DEFINE k == [NoCast EXCEPT !.generation = generation, !.size = Cardinality(members),
                                 !.throughout = members \cap subscribed]
  <2>1. /\ k.generation = generation /\ k.size = Cardinality(members) /\ k.at = 0
        /\ k.throughout = members \cap subscribed
    BY DEF NoCast
  <2>2. k \in CastRecords
    <3>1. Cardinality(members) \in Nat
      BY <1>0, FS_CardinalityType DEF ManagerTypes
    <3> QED  BY <1>0, <3>1 DEF NoCast, CastRecords, CastStates, ManagerTypes, TypeOK
  <2>3. Advance(b, k)
    BY <1>8 DEF BroadcastStarts
  <2> HIDE DEF k
  <2>4. OnCourse(k, k.reached)
    <3>1. \A c \in members : \E i \in (k.at + 1)..Len(entries) : entries[i] = c
      BY <1>0, <2>1 DEF MembersAreListed
    <3> QED  BY <2>1, <3>1 DEF OnCourse, SizeChanged
  <2> QED  BY <1>1, <2>2, <2>3, <2>4, AdvanceRight DEF CastInv
<1>9. ASSUME NEW b \in Broadcasts, NEW ok \in BOOLEAN, SendReturns(b, ok)
      PROVE  CastInv'
  <2> DEFINE r == cast[b].reached \cup {cast[b].to}
             f == IF ok THEN cast[b].failed ELSE cast[b].failed \cup {cast[b].to}
             k == [cast[b] EXCEPT !.reached = r, !.failed = f]
  <2>1. cast[b] \in CastRecords /\ cast[b].to \in Conns /\ cast[b].state = "sending"
    BY <1>0, <1>9 DEF SendReturns, ManagerTypes, TypeOK
  <2>2. r \in SUBSET Conns /\ f \in SUBSET Conns
    BY <2>1 DEF CastRecords
  <2>3. Advance(b, k)
    BY <1>9 DEF SendReturns
  <2>4. r = cast[b].reached \cup {cast[b].to}
    OBVIOUS
  <2> HIDE DEF r, f
  <2>5. /\ k \in CastRecords /\ k.reached = r /\ k.quiet = cast[b].quiet /\ k.at = cast[b].at
        /\ k.generation = cast[b].generation /\ k.size = cast[b].size
        /\ k.throughout = cast[b].throughout
    BY <2>1, <2>2 DEF CastRecords
  <2> HIDE DEF k
  <2>6. k.quiet => OnCourse(k, k.reached)
    <3>1. k.quiet => OnCourse(cast[b], r)
      BY <1>0, <2>1, <2>4, <2>5 DEF CastRight
    <3> QED  BY <2>5, <3>1 DEF OnCourse, SizeChanged
  <2> QED  BY <1>1, <2>3, <2>5, <2>6, AdvanceRight DEF CastInv
<1>10. ASSUME UNCHANGED vars
       PROVE  CastInv'
  BY <1>10, <1>s DEF vars, registry
<1> QED  BY <1>2, <1>3, <1>4, <1>5, <1>6, <1>7, <1>8, <1>9, <1>10 DEF Next, HandlerStep, Messages

\* broadcast_to_workspace: a broadcast during which nobody joins or leaves runs to
\* its end and reaches everybody who is subscribed all the while.
THEOREM QuietBroadcastsArrive == Spec => []QuietBroadcastIsComplete
<1>1. Init => CastInv
  <2> SUFFICES ASSUME Init PROVE CastInv
    OBVIOUS
  <2>1. \A b \in Broadcasts : CastRight(b)
    BY DEF Init, CastRight, NoCast
  <2> QED  BY <2>1, InitManagerTyped DEF CastInv, MembersAreListed, Init
<1>2. CastInv => QuietBroadcastIsComplete
  BY DEF CastInv, CastRight, QuietBroadcastIsComplete
<1> QED  BY <1>1, <1>2, StepCast, PTL DEF Spec
=============================================================================
