SPECIFICATION Spec
CONSTANTS
  None = None
  h1 = h1  h2 = h2
  r1 = r1  r2 = r2
  i1 = i1  i2 = i2
  u1 = u1  u2 = u2
  MaxChannel = 2
  Rid = {r1}
  Uuid = {}
  Ip = {i1, i2}
  Crowded = TRUE
  Aods = {h1, h2}
  Install = {}
  Damaged = {}
  Managing = {}
  RidOf <- CloneRid
  IpOf <- CloneIp
  Registered = {r1}
  MaxFault = 0
  MaxPublish = 0
  MaxRound = 0
  Ends = {"fin", "gone"}
  MaxBacklog = 99
INVARIANTS
  TypeOK
  OwnerMapsInverse
  NoLockout
  RouteSound
  StaleRouteHeals
  NeverForgotten
PROPERTIES
  OwnerKeptUntilReleased
\* Connections are bounded, so the system may come to rest.
CHECK_DEADLOCK FALSE
