SPECIFICATION CtrlSpec
CONSTANTS
  Rid = {r1, r2}
  Thread = {t1, t2}
  Segments = {1, 2}
  Version = {v1, v2}
  MaxClock = 2
  MaxPublish = 2
  MaxFault = 2
  Index = 1
  MaxRequest = 3
  MaxInput = 6
CONSTRAINT Budget
SYMMETRY Names
INVARIANTS
  CtrlTypeOK
  
  ConfirmedAccepted
  ActivationServed
CHECK_DEADLOCK FALSE
