CONSTANTS
  Players = {p1, p2}
  Npcs = {n1}
  Nobody = Nobody
  MaxParties = 2
  Chars = {m1, g1, g2}
  Creatures = {g1, g2}
  Garbled = Garbled
  MaxGuilds = 2
  MaxListed = 2
  MaxRecruits = 2
  h1 = h1
  b1 = b1
  b2 = b2
  f1 = f1
  f2 = f2
  Houses = {h1}
  Boats = {b1, b2}
  Parts = {f1, f2}
  PartOf <- MCPartOf
  Things = {i1}
  Folk = {c1}
  Vendors = {c1}
  Land = {l1}
  Sea = {s1, s2}
  Open = Open
  None = None
  MaxLockDowns = 2
  Targets = {t1, t2}
  Numbers = {1, 3, 5, 8}
  NoEffect = NoEffect
  MaxEffects = 2
  MaxMore = 2
  Base = 1
  Casters = {w1}
  Spells = {aimed, plain}
  Aimed = {aimed}
  NoSpell = NoSpell
  MaxParalyses = 2
SPECIFICATION Spec
SYMMETRY PeopleSymmetry
INVARIANTS LookupTrue InsideAgrees OneOfAKind CastingHasSpell
PROPERTIES NumberIsMembership HeldNoLonger EffectsUndone
CHECK_DEADLOCK FALSE
