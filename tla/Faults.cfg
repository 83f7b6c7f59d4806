SPECIFICATION Spec
CONSTANTS
  None = None
  h1 = h1  h2 = h2
  r1 = r1  r2 = r2
  i1 = i1  i2 = i2
  u1 = u1  u2 = u2
  MaxChannel = 2
  Rid = {r1}
  Uuid = {u1, u2}
  Ip = {i1}
  Crowded = FALSE
  Aods = {h1}
  Install = {h2}
  Damaged = {}
  Managing = {}
  RidOf <- SameRid
  IpOf <- AllIp
  Registered = {r1}
  MaxFault = 1
  MaxPublish = 0
  MaxRound = 1
  Ends = {"fin"}
  MaxBacklog = 4
CONSTRAINT Backlog
SYMMETRY Alike
INVARIANTS
  RequestMapsInverse
  StaleRouteHeals
  AnsweredOnce
  ActivatedIsReported
\* Connections are bounded, so the system may come to rest.
CHECK_DEADLOCK FALSE
