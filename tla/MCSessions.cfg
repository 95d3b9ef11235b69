SPECIFICATION FairSpec
CONSTANTS
  a1 = a1
  a2 = a2
  c1 = c1
  c2 = c2
  c3 = c3
  Accts = {a1, a2}
  Chars = {c1, c2, c3}
  AccountOf <- MCAccountOf
  Sockets = {s1, s2}
  None = None
  p1 = p1
  p2 = p2
  Places = {p1, p2}
  Around <- MCAround
INVARIANTS SocketPlays InGameAccounted
PROPERTIES PresenceKept KeptWhileAlone NoLockout 
