SPECIFICATION CtrlSpec
CONSTANTS
  Rid = {r1}
  Thread = {t1}
  Segments = {1, 255}
  Version = {v1}
  MaxClock = 1
  MaxPublish = 0
  MaxFault = 0
  Index = 255
  MaxRequest = 1
  MaxInput = 1
INVARIANTS
  ActivationServed
CHECK_DEADLOCK FALSE
