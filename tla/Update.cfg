SPECIFICATION FairManagerSpec
CONSTANTS
  Mod = {m1}
  Command = {"module", "aods"}
  MaxVersion = 2
  MaxFault = 1
  MaxBacklog = 2
  Torn = Torn
INVARIANTS ManagerTypeOK SuccessIsReal
PROPERTIES NeverBack Converges ComesToRest
CHECK_DEADLOCK FALSE
