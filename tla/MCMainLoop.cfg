SPECIFICATION FairSpec
CONSTANTS
  Sockets = {s1, s2}
  MaxQueue = 1
INVARIANTS TableSound
PROPERTIES ReadyServed LostDropped StopsUnlessPrompted ConnectionsKept
