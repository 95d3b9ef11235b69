SPECIFICATION Spec
CONSTANTS
  Items = {i1}
  Players = {p1, p2}
  Trades = {t1}
  None = None
  ItemWeight = 1
  MaxWeight = 1
  AnyRequest = FALSE
  Deaths = TRUE
  Saves = TRUE
SYMMETRY HandsSymmetry
CONSTRAINT WeightBound
PROPERTY ShortOnlyByTheDead
