SPECIFICATION Spec
CONSTANTS
  Items = {i1, i2}
  Players = {p1, p2}
  Trades = {t1}
  None = None
  ItemWeight = 0
  MaxWeight = 1
  AnyRequest = TRUE
  Deaths = TRUE
  Saves = FALSE
SYMMETRY HandsSymmetry
INVARIANTS TradersPresent
PROPERTIES AllOrNothing AgreedLosesNothing TakenByItsOwner
