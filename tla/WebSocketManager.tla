--------------------------- MODULE WebSocketManager ---------------------------
(***************************************************************************)
(* ConnectionManager, the registries of live WebSocket connections, and    *)
(* everything that changes them on the event loop of one server process:   *)
(* the handler of each connection, the broadcasts to a workspace, the      *)
(* stream tasks and the heartbeat tasks.  There is one thread, so an       *)
(* action is what a coroutine does from one await that suspends to the     *)
(* next, and other coroutines run in between.                              *)
(*                                                                         *)
(* One workspace, one event type, one room and one stream type: different  *)
(* ones share nothing but the code.  A connection id is a fresh uuid and   *)
(* is registered at most once.                                             *)
(***************************************************************************)
EXTENDS Naturals, FiniteSets, Sequences

CONSTANTS Conns,        \* connection ids
          Broadcasts,   \* calls of broadcast_to_workspace
          Tasks,        \* asyncio tasks that may be created for streams
          MaxMessages,  \* bound: messages the connections send
          FirstResize,  \* entries a dict takes before it is rebuilt (5 in CPython)
          NoTask, NoConn

ASSUME MaxMessagesAssumption == MaxMessages \in Nat
ASSUME FirstResizeAssumption == FirstResize \in Nat \ {0}
ASSUME NoTaskAssumption == NoTask \notin Tasks
ASSUME NoConnAssumption == NoConn \notin Conns

VARIABLES members,     \* keys of active_connections[workspace], and of the
                       \* connection_users and subscriptions registered with it
          entries,     \* the entries of that dict in insertion order, with those
                       \* of connections that have left since its last rebuild
          generation,  \* how many dicts the workspace has had
          subscribed,  \* connections with the event type in subscriptions
          streamKeys,  \* keys of active_streams
          stream,      \* [Conns -> the task listed in active_streams]
          room,        \* room_subscriptions of the room
          handler,     \* [Conns -> control point of websocket_endpoint]
          awaited,     \* [Conns -> the task that stop_stream awaits]
          restart,     \* handlers whose stop_stream was called by start_stream
          heartbeat,   \* [Conns -> state of the heartbeat task]
          task,        \* [Tasks -> state of the stream task]
          owner,       \* [Tasks -> the connection it streams to]
          peer,        \* [Conns -> is the client still there]
          messages,    \* messages handled so far
          cast         \* [Broadcasts -> the state of the broadcast]

registry == <<members, entries, generation, subscribed, streamKeys, stream, room>>
coroutine == <<handler, awaited, restart, messages>>
background == <<heartbeat, task, owner>>
vars == <<registry, coroutine, background, peer, cast>>

HandlerStates == {"new", "replying", "receiving", "stopping", "stopped", "ended"}
TaskStates == {"unused", "running", "cancelled", "done"}
CastStates == {"idle", "sending", "complete", "aborted"}

CastRecords ==
  [state : CastStates, generation : Nat, size : Nat, at : Nat, to : Conns \cup {NoConn},
   failed : SUBSET Conns, reached : SUBSET Conns, throughout : SUBSET Conns, quiet : BOOLEAN]

NoCast == [state |-> "idle", generation |-> 0, size |-> 0, at |-> 0, to |-> NoConn,
           failed |-> {}, reached |-> {}, throughout |-> {}, quiet |-> TRUE]

TypeOK ==
  /\ members \subseteq Conns
  /\ entries \in Seq(Conns)
  /\ generation \in Nat
  /\ subscribed \subseteq Conns
  /\ streamKeys \subseteq Conns
  /\ stream \in [Conns -> Tasks \cup {NoTask}]
  /\ room \subseteq Conns
  /\ handler \in [Conns -> HandlerStates]
  /\ awaited \in [Conns -> Tasks \cup {NoTask}]
  /\ restart \subseteq Conns
  /\ heartbeat \in [Conns -> TaskStates]
  /\ task \in [Tasks -> TaskStates]
  /\ owner \in [Tasks -> Conns \cup {NoConn}]
  /\ peer \in [Conns -> {"up", "gone"}]
  /\ messages \in 0..MaxMessages
  /\ cast \in [Broadcasts -> CastRecords]

Init ==
  /\ members = {} /\ entries = <<>> /\ generation = 0
  /\ subscribed = {} /\ streamKeys = {} /\ room = {} /\ restart = {}
  /\ stream = [c \in Conns |-> NoTask]
  /\ awaited = [c \in Conns |-> NoTask]
  /\ handler = [c \in Conns |-> "new"]
  /\ heartbeat = [c \in Conns |-> "unused"]
  /\ task = [t \in Tasks |-> "unused"]
  /\ owner = [t \in Tasks |-> NoConn]
  /\ peer = [c \in Conns |-> "up"]
  /\ messages = 0
  /\ cast = [b \in Broadcasts |-> NoCast]

-----------------------------------------------------------------------------
(* disconnect: one synchronous step, for the connections in S. *)

Cancelled(s) == IF s = "running" THEN "cancelled" ELSE s

\* Mutant: a connection that is not registered is left as it is.
DisconnectRegisteredOnly(S) ==
  LET L == S \cap members
      last == members # {} /\ members \subseteq L
  IN
  /\ members' = members \ L
  /\ entries' = IF last THEN <<>> ELSE entries
  /\ generation' = IF last THEN generation + 1 ELSE generation
  /\ subscribed' = subscribed \ L
  /\ task' = [t \in Tasks |-> IF \E c \in L \cap streamKeys : stream[c] = t
                              THEN Cancelled(task[t]) ELSE task[t]]
  /\ stream' = [c \in Conns |-> IF c \in L THEN NoTask ELSE stream[c]]
  /\ streamKeys' = streamKeys \ L
  /\ heartbeat' = [c \in Conns |-> IF c \in L THEN Cancelled(heartbeat[c]) ELSE heartbeat[c]]
  /\ room' = room \ L

\* Mutant: the streams are forgotten and not cancelled.
DisconnectForgetsStreams(S) ==
  /\ members' = members \ S
  /\ LET last == members # {} /\ members \subseteq S
     IN  /\ entries' = IF last THEN <<>> ELSE entries
         /\ generation' = IF last THEN generation + 1 ELSE generation
  /\ subscribed' = subscribed \ S
  /\ stream' = [c \in Conns |-> IF c \in S THEN NoTask ELSE stream[c]]
  /\ streamKeys' = streamKeys \ S
  /\ heartbeat' = [c \in Conns |-> IF c \in S THEN Cancelled(heartbeat[c]) ELSE heartbeat[c]]
  /\ room' = room \ S
  /\ UNCHANGED task

Disconnect(S) ==
  /\ members' = members \ S
  /\ LET last == members # {} /\ members \subseteq S
     IN  /\ entries' = IF last THEN <<>> ELSE entries
         /\ generation' = IF last THEN generation + 1 ELSE generation
  /\ subscribed' = subscribed \ S
  /\ task' = [t \in Tasks |-> IF \E c \in S \cap streamKeys : stream[c] = t
                              THEN Cancelled(task[t]) ELSE task[t]]
  /\ stream' = [c \in Conns |-> IF c \in S THEN NoTask ELSE stream[c]]
  /\ streamKeys' = streamKeys \ S
  /\ heartbeat' = [c \in Conns |-> IF c \in S THEN Cancelled(heartbeat[c]) ELSE heartbeat[c]]
  /\ room' = room \ S

\* For the properties, a broadcast under way notes that the membership changed,
\* and who did not stay subscribed throughout.
Note(changed, left) ==
  [b \in Broadcasts |->
     IF cast[b].state # "sending" THEN cast[b]
     ELSE [cast[b] EXCEPT !.quiet = @ /\ ~changed, !.throughout = @ \ left]]

NoteLeave(S) == Note(S \cap members # {}, S)

-----------------------------------------------------------------------------
(* websocket_endpoint and connect. *)

\* A full dict is rebuilt, entry by entry, without those of who has left.
Rebuilt ==
  LET kept[i \in 0..Len(entries)] ==
        IF i = 0 THEN <<>>
        ELSE IF entries[i] \in members THEN Append(kept[i - 1], entries[i]) ELSE kept[i - 1]
  IN kept[Len(entries)]

Register(c) ==
  /\ handler[c] = "new"
  /\ members' = members \cup {c}
  /\ entries' = Append(IF Len(entries) = FirstResize THEN Rebuilt ELSE entries, c)
  /\ streamKeys' = streamKeys \cup {c}
  /\ heartbeat' = [heartbeat EXCEPT ![c] = "running"]
  /\ handler' = [handler EXCEPT ![c] = "replying"]
  /\ cast' = Note(TRUE, {})
  /\ UNCHANGED <<generation, subscribed, stream, room, awaited, restart, messages,
                 task, owner, peer>>

\* The handshake fails before anything is registered.
AcceptFails(c) ==
  /\ handler[c] = "new"
  /\ handler' = [handler EXCEPT ![c] = "ended"]
  /\ peer' = [peer EXCEPT ![c] = "gone"]
  /\ UNCHANGED <<registry, awaited, restart, messages, background, cast>>

\* send_personal_message returns, whether or not the message got through.
Replied(c) ==
  /\ handler[c] = "replying"
  /\ handler' = [handler EXCEPT ![c] = "receiving"]
  /\ UNCHANGED <<registry, awaited, restart, messages, background, peer, cast>>

\* receive_json or a message handler raises: the handler disconnects and ends.
HandlerEnds(c) ==
  /\ handler[c] = "receiving"
  /\ Disconnect({c})
  /\ handler' = [handler EXCEPT ![c] = "ended"]
  /\ peer' = [peer EXCEPT ![c] = "gone"]
  /\ cast' = NoteLeave({c})
  /\ UNCHANGED <<awaited, restart, messages, owner>>

-----------------------------------------------------------------------------
(* handle_websocket_message: one message at a time for each connection. *)

\* A message arrives; it may have been sent before the client went away.
Message(c) ==
  /\ handler[c] = "receiving"
  /\ messages < MaxMessages
  /\ messages' = messages + 1

\* An answer suspends only if the connection is still registered.
Reply(c) == handler' = [handler EXCEPT ![c] = IF c \in members THEN "replying" ELSE "receiving"]

Subscribe(c) ==
  /\ Message(c)
  /\ Reply(c)
  /\ subscribed' = IF c \in members THEN subscribed \cup {c} ELSE subscribed
  /\ UNCHANGED <<members, entries, generation, streamKeys, stream, room, awaited, restart,
                 background, peer, cast>>

Unsubscribe(c) ==
  /\ Message(c)
  /\ Reply(c)
  /\ subscribed' = subscribed \ {c}
  /\ cast' = Note(FALSE, {c})
  /\ UNCHANGED <<members, entries, generation, streamKeys, stream, room, awaited, restart,
                 background, peer>>

\* join_room does not look whether the connection is still registered.
JoinRoom(c) ==
  /\ Message(c)
  /\ Reply(c)
  /\ room' = room \cup {c}
  /\ UNCHANGED <<members, entries, generation, subscribed, streamKeys, stream, awaited,
                 restart, background, peer, cast>>

LeaveRoom(c) ==
  /\ Message(c)
  /\ Reply(c)
  /\ room' = room \ {c}
  /\ UNCHANGED <<members, entries, generation, subscribed, streamKeys, stream, awaited,
                 restart, background, peer, cast>>

-----------------------------------------------------------------------------
(* start_stream and stop_stream. *)

HasStream(c) == c \in streamKeys /\ stream[c] # NoTask

\* Mutant: start_stream does not look whether the connection is still there.
BeginStreamUnchecked(c) ==
  /\ restart' = restart \ {c}
  /\ \E t \in Tasks :
       /\ task[t] = "unused"
       /\ task' = [task EXCEPT ![t] = "running"]
       /\ owner' = [owner EXCEPT ![t] = c]
       /\ stream' = [stream EXCEPT ![c] = t]
  /\ streamKeys' = streamKeys \cup {c}
  /\ handler' = [handler EXCEPT ![c] = "replying"]

\* start_stream from where it looks the websocket up.
BeginStream(c) ==
  /\ restart' = restart \ {c}
  /\ \/ /\ c \notin members
        /\ handler' = [handler EXCEPT ![c] = "receiving"]
        /\ UNCHANGED <<streamKeys, stream, task, owner>>
     \/ /\ c \in members
        /\ \E t \in Tasks :
             /\ task[t] = "unused"
             /\ task' = [task EXCEPT ![t] = "running"]
             /\ owner' = [owner EXCEPT ![t] = c]
             /\ stream' = [stream EXCEPT ![c] = t]
        /\ streamKeys' = streamKeys \cup {c}
        /\ handler' = [handler EXCEPT ![c] = "replying"]

\* stop_stream up to its first await: cancel the task and wait for it, or take
\* a task that is already done off the list.
BeginStop(c) ==
  LET t == stream[c] IN
  IF task[t] = "done"
  THEN /\ stream' = [stream EXCEPT ![c] = NoTask]
       /\ handler' = [handler EXCEPT ![c] = "stopped"]
       /\ UNCHANGED <<task, awaited>>
  ELSE /\ task' = [task EXCEPT ![t] = "cancelled"]
       /\ awaited' = [awaited EXCEPT ![c] = t]
       /\ handler' = [handler EXCEPT ![c] = "stopping"]
       /\ UNCHANGED stream

\* Bound: there is a task for every start_stream under way.
TaskLeft == Cardinality({t \in Tasks : task[t] = "unused"}) > Cardinality(restart)

\* Mutant: start_stream replaces the stream in the list without stopping it.
StartStreamOverRunning(c) ==
  /\ Message(c)
  /\ TaskLeft
  /\ BeginStream(c)
  /\ UNCHANGED <<members, entries, generation, subscribed, room, awaited, heartbeat, peer, cast>>

StartStream(c) ==
  /\ Message(c)
  /\ TaskLeft
  /\ \/ /\ HasStream(c)
        /\ BeginStop(c)
        /\ restart' = restart \cup {c}
        /\ UNCHANGED <<streamKeys, owner>>
     \/ /\ ~HasStream(c)
        /\ BeginStream(c)
        /\ UNCHANGED awaited
  /\ UNCHANGED <<members, entries, generation, subscribed, room, heartbeat, peer, cast>>

StopStream(c) ==
  /\ Message(c)
  /\ \/ /\ HasStream(c)
        /\ BeginStop(c)
     \/ /\ ~HasStream(c)
        /\ UNCHANGED <<stream, handler, task, awaited>>
  /\ UNCHANGED <<members, entries, generation, subscribed, streamKeys, room, restart,
                 heartbeat, owner, peer, cast>>

\* The awaited task has ended: stop_stream takes it off the list and reports.
TakeOffList(c) ==
  /\ handler[c] = "stopping"
  /\ task[awaited[c]] = "done"
  /\ c \in streamKeys
  /\ stream' = [stream EXCEPT ![c] = NoTask]
  /\ awaited' = [awaited EXCEPT ![c] = NoTask]
  /\ handler' = [handler EXCEPT ![c] = "stopped"]
  /\ UNCHANGED <<members, entries, generation, subscribed, streamKeys, room, restart,
                 messages, background, peer, cast>>

\* A broadcast has disconnected the connection meanwhile: del raises KeyError,
\* which ends the handler.
StopRaises(c) ==
  /\ handler[c] = "stopping"
  /\ task[awaited[c]] = "done"
  /\ c \notin streamKeys
  /\ Disconnect({c})
  /\ awaited' = [awaited EXCEPT ![c] = NoTask]
  /\ restart' = restart \ {c}
  /\ handler' = [handler EXCEPT ![c] = "ended"]
  /\ peer' = [peer EXCEPT ![c] = "gone"]
  /\ cast' = NoteLeave({c})
  /\ UNCHANGED <<messages, owner>>

\* The report of stop_stream is out: back to the messages, or on in start_stream.
Stopped(c) ==
  /\ handler[c] = "stopped"
  /\ \/ /\ c \in restart
        /\ BeginStream(c)
     \/ /\ c \notin restart
        /\ handler' = [handler EXCEPT ![c] = "receiving"]
        /\ UNCHANGED <<restart, streamKeys, stream, task, owner>>
  /\ UNCHANGED <<members, entries, generation, subscribed, room, awaited, messages,
                 heartbeat, peer, cast>>

-----------------------------------------------------------------------------
(* The background tasks and the client. *)

\* _stream_data ends: it was cancelled, or its query or a send failed.
StreamEnds(t) ==
  /\ task[t] \in {"running", "cancelled"}
  /\ task' = [task EXCEPT ![t] = "done"]
  /\ UNCHANGED <<registry, coroutine, heartbeat, owner, peer, cast>>

\* _heartbeat ends: it was cancelled, or a send failed.
HeartbeatEnds(c) ==
  /\ heartbeat[c] = "cancelled" \/ (heartbeat[c] = "running" /\ peer[c] = "gone")
  /\ heartbeat' = [heartbeat EXCEPT ![c] = "done"]
  /\ UNCHANGED <<registry, coroutine, task, owner, peer, cast>>

PeerLeaves(c) ==
  /\ peer[c] = "up"
  /\ handler[c] # "new"
  /\ peer' = [peer EXCEPT ![c] = "gone"]
  /\ UNCHANGED <<registry, coroutine, background, cast>>

-----------------------------------------------------------------------------
(* broadcast_to_workspace. *)

\* The iterator over the dict has noticed that its size changed, or that it
\* belongs to a dict that was emptied and dropped.
SizeChanged(k) == k.generation # generation \/ k.size # Cardinality(members)

\* Positions from which a connection is still to be sent the event.
Ahead(k) == {i \in (k.at + 1)..Len(entries) : /\ entries[i] \in members
                                              /\ entries[i] \in subscribed}

\* From the start of the loop, or the end of a send, to the next send or the
\* end.  RuntimeError leaves the loop and the clean-up of failed connections.
Advance(b, k) ==
  \/ /\ SizeChanged(k)
     /\ cast' = [cast EXCEPT ![b] = [k EXCEPT !.state = "aborted", !.to = NoConn]]
     /\ UNCHANGED <<registry, heartbeat, task>>
  \/ /\ ~SizeChanged(k)
     /\ Ahead(k) # {}
     /\ LET i == CHOOSE j \in Ahead(k) : \A l \in Ahead(k) : j <= l
        IN  cast' = [cast EXCEPT ![b] = [k EXCEPT !.state = "sending", !.at = i,
                                                  !.to = entries[i]]]
     /\ UNCHANGED <<registry, heartbeat, task>>
  \/ /\ ~SizeChanged(k)
     /\ Ahead(k) = {}
     /\ Disconnect(k.failed)
     /\ cast' = [NoteLeave(k.failed) EXCEPT ![b] = [k EXCEPT !.state = "complete", !.to = NoConn]]

BroadcastStarts(b) ==
  /\ cast[b].state = "idle"
  /\ members # {}
  /\ Advance(b, [NoCast EXCEPT !.generation = generation, !.size = Cardinality(members),
                               !.throughout = members \cap subscribed])
  /\ UNCHANGED <<coroutine, owner, peer>>

\* Mutant: an exception of send_json ends the broadcast.
SendReturnsNotCaught(b, ok) ==
  /\ cast[b].state = "sending"
  /\ ok \/ peer[cast[b].to] = "gone"
  /\ IF ok THEN Advance(b, [cast[b] EXCEPT !.reached = @ \cup {cast[b].to}])
     ELSE /\ cast' = [cast EXCEPT ![b].state = "aborted"]
          /\ UNCHANGED <<registry, heartbeat, task>>
  /\ UNCHANGED <<coroutine, owner, peer>>

\* Mutant: a send is completed for a broadcast that is not waiting for one.
SendReturnsAnyTime(b, ok) ==
  /\ ok \/ (cast[b].state = "sending" /\ peer[cast[b].to] = "gone")
  /\ Advance(b, [cast[b] EXCEPT !.reached = @ \cup {cast[b].to},
                                !.failed = IF ok THEN @ ELSE @ \cup {cast[b].to}])
  /\ UNCHANGED <<coroutine, owner, peer>>

\* send_json returns, or raises because the client is gone.
SendReturns(b, ok) ==
  /\ cast[b].state = "sending"
  /\ ok \/ peer[cast[b].to] = "gone"
  /\ Advance(b, [cast[b] EXCEPT !.reached = @ \cup {cast[b].to},
                                !.failed = IF ok THEN @ ELSE @ \cup {cast[b].to}])
  /\ UNCHANGED <<coroutine, owner, peer>>

-----------------------------------------------------------------------------
HandlerStep(c) ==
  \/ Replied(c)
  \/ TakeOffList(c)
  \/ StopRaises(c)
  \/ Stopped(c)

Messages(c) ==
  \/ Subscribe(c) \/ Unsubscribe(c)
  \/ JoinRoom(c) \/ LeaveRoom(c)
  \/ StartStream(c) \/ StopStream(c)

Next ==
  \/ \E c \in Conns : \/ Register(c) \/ AcceptFails(c)
                      \/ HandlerStep(c) \/ HandlerEnds(c) \/ Messages(c)
                      \/ HeartbeatEnds(c) \/ PeerLeaves(c)
  \/ \E t \in Tasks : StreamEnds(t)
  \/ \E b \in Broadcasts : BroadcastStarts(b) \/ \E ok \in BOOLEAN : SendReturns(b, ok)

Spec == Init /\ [][Next]_vars

\* The event loop resumes a coroutine whose await is over; a receive on a
\* connection whose client is gone raises; a cancelled task ends; a send
\* returns or raises.
FairSpec ==
  /\ Spec
  /\ \A c \in Conns : /\ WF_vars(HandlerStep(c))
                      /\ WF_vars(peer[c] = "gone" /\ HandlerEnds(c))
                      /\ WF_vars(heartbeat[c] = "cancelled" /\ HeartbeatEnds(c))
  /\ \A t \in Tasks : WF_vars(task[t] = "cancelled" /\ StreamEnds(t))
  /\ \A b \in Broadcasts : WF_vars(\E ok \in BOOLEAN : SendReturns(b, ok))

-----------------------------------------------------------------------------
(* Properties. *)

\* When the handler of a connection has ended, no registry, room or background
\* task has anything left of it, whatever broadcasts removed it earlier and
\* whatever messages it still handled after that.
EndedLeavesNothing ==
  \A c \in Conns : handler[c] = "ended" =>
    /\ c \notin members \cup subscribed \cup streamKeys \cup room
    /\ heartbeat[c] # "running"
    /\ \A t \in Tasks : owner[t] = c => task[t] # "running"

\* A stream that runs is one that the manager can still cancel: it is listed
\* under its connection, and there is at most one for each.  Restarting a
\* stream never loses the task it replaces, also when the connection is
\* disconnected while stop_stream waits for that task.
RunningStreamIsListed ==
  \A t \in Tasks : task[t] = "running" => owner[t] \in streamKeys /\ stream[owner[t]] = t

\* The registries agree on who is connected.
RegistriesAgree ==
  /\ streamKeys = members
  /\ subscribed \subseteq members
  /\ \A c \in Conns : heartbeat[c] = "running" => c \in members

\* A broadcast during which nobody joins or leaves reaches everybody who is
\* subscribed all the while.
QuietBroadcastIsComplete ==
  \A b \in Broadcasts : (cast[b].state \in {"complete", "aborted"} /\ cast[b].quiet)
    => cast[b].state = "complete" /\ cast[b].throughout \subseteq cast[b].reached

\* A connection whose client has gone is cleaned up, its tasks included.
GoneIsCleanedUp ==
  \A c \in Conns : (peer[c] = "gone") ~>
    /\ handler[c] = "ended"
    /\ heartbeat[c] \in {"unused", "done"}
    /\ \A t \in Tasks : owner[t] = c => task[t] = "done"

=============================================================================
