CONSTANTS
  Ids = {a1}
  InvalidId = InvalidId
  NewNames = {}
  Blank = Blank
  Chars = {c1, c2}
  None = None
  SlotCount = 2
SPECIFICATION Spec
INVARIANT LiveAreListed
