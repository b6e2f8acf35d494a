\* Two senders and a generator overlap; one statement fails, one process dies.
SPECIFICATION FairSpec
CONSTANTS
  Users = {u1, u2}
  Channels = {email}
  Generators = {g1}
  Senders = {s1, s2}
  MaxFailures = 1
  MaxCrashes = 1
  NoUser = NoUser
INVARIANTS TypeOK SentWasQueued
PROPERTIES DigestGoesOut
CHECK_DEADLOCK FALSE
