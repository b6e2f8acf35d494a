\* Two connections that send three messages, one broadcast, two streams.
SPECIFICATION FairSpec
CONSTANTS
  Conns = {c1, c2}
  Broadcasts = {b1}
  Tasks = {t1, t2}
  MaxMessages = 3
  FirstResize = 2
  NoTask = NoTask
  NoConn = NoConn
INVARIANTS TypeOK EndedLeavesNothing RunningStreamIsListed RegistriesAgree QuietBroadcastIsComplete
PROPERTIES GoneIsCleanedUp
CHECK_DEADLOCK FALSE
