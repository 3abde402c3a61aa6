SPECIFICATION Spec

CONSTANTS
  IdOf <- MCIdOf
  Plain = {2}
  MaxLives = 2
  MaxRestarts = 1
  MaxQueue = 2

INVARIANTS
  TypeOK
  WatchedUnlessCrossed
  IgnoredOnlyIfMoved

PROPERTIES
  SelfHealing
  EvictedUnlessCrossed

CHECK_DEADLOCK FALSE
