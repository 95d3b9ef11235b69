CONSTANTS
  Items = {i1, i2}
  Chars = {n1}
  None = None
  Cells = {c1, c2}
  Origin = c1
  Overflow = Overflow
  Layers = {l1, l2}
  DebugRegions = TRUE
  Commands = TRUE
  Tweaks = TRUE
SPECIFICATION Spec
SYMMETRY ItemSymmetry
INVARIANT ListedWhereItStands
INVARIANT StandingIsListed
