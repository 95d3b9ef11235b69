CONSTANTS
  Targets = {t1, t2}
  Numbers = {11}
  NoEffect = NoEffect
  MaxEffects = 2
  MaxMore = 2
  Base = 1
SPECIFICATION EffectSpec
PROPERTY EffectsUndone
CHECK_DEADLOCK FALSE
