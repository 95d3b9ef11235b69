SPECIFICATION FairSpec
CONSTANTS
  Ids = {a1, a2}
  InvalidId = InvalidId
  NewNames = {x}
  Blank = Blank
  Chars = {c1, c2, c3}
  None = None
  SlotCount = 2
INVARIANTS ListedAreItsOwn NamesFindBlocks LiveAreStored
PROPERTIES SlotsSoundButForCommands FreedStayFreed RelistedEventually
