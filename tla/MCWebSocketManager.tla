--------------------------- MODULE MCWebSocketManager ---------------------------
(* WebSocketManager for TLC: tasks and connections are interchangeable. *)
EXTENDS WebSocketManager, TLC

Interchangeable == Permutations(Conns) \cup Permutations(Tasks)
=============================================================================
