SPECIFICATION TimerSpec
CONSTANTS
  Obj = {o1}
  Id = {1}
  Setting <- MCEndless
  Wrap = 13
  MinEscape = 1
  MaxSleep = 2
  MaxLate = 1
  MaxCall = 1
INVARIANT EndlessGoesOn
CHECK_DEADLOCK FALSE
