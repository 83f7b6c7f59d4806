SPECIFICATION FairTimerSpec
CONSTANTS
  Obj = {o1}
  Id = {1, 2}
  Setting <- MCSettings
  Wrap = 13
  MinEscape = 1
  MaxSleep = 2
  MaxLate = 1
  MaxCall = 3
INVARIANTS TimerTypeOK OneTick NeverOversleeps
PROPERTIES KilledStaysSilent SetTicks
CHECK_DEADLOCK FALSE
