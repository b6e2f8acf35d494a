----------------------------- MODULE MCDigestQueue -----------------------------
(* DigestQueue for TLC: users, channels and runs are interchangeable. *)
EXTENDS DigestQueue, TLC

Interchangeable == Permutations(Users) \cup Permutations(Channels)
                     \cup Permutations(Generators) \cup Permutations(Senders)
=============================================================================
