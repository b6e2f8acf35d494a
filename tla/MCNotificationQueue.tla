-------------------------- MODULE MCNotificationQueue --------------------------
(* NotificationQueue for TLC: rows are interchangeable, and so are workers. *)
EXTENDS NotificationQueue, TLC

Interchangeable == Permutations(Rows) \cup Permutations(Workers)
=============================================================================
