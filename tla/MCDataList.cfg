CONSTANTS
  Elements = {a, b, c, d}
  MaxDepth = 3
  Masters = {m1}
  Beasts = {w1, w2}
  Goods = {bag1, gem1}
  Bags = {bag1}
  Spawners = {sp1}
  Regions = {r1}
  Ground = Ground
  NoTie = NoTie
  MaxSpawned = 2
  MaxThings = 3
SPECIFICATION ListsSpec
SYMMETRY ElementSymmetry
INVARIANT PositionsInBounds
INVARIANT UndisturbedLoops
INVARIANT TiesAgree
PROPERTY OwnedSurvive
