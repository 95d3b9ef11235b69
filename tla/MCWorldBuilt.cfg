CONSTANTS
  Items = {i1, i2}
  Chars = {n1}
  None = None
  Cells = {c1}
  Origin = c1
  Overflow = Overflow
  Layers = {l1, l2}
  DebugRegions = FALSE
  Commands = FALSE
  Tweaks = FALSE
SPECIFICATION Spec
SYMMETRY ItemSymmetry
INVARIANT ContentsAgree
INVARIANT PaperdollAgrees
INVARIANT NoDeletedItemQueued
INVARIANT CellsNeverHoldFreed
