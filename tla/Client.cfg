SPECIFICATION FairClientSpec
CONSTANTS
  Key = {1, 2}
  Kind <- MCKind
  Text <- Text0
  LenOf <- MCLenOf
  ByteOf <- MCByteOf
  HeadLen = 2
  MaxLen = 4
  Junk = Junk
  Conn = {1, 2, 3}
  a1 = a1
  a2 = a2
  a3 = a3
  Addr = {a1, a2, a3}
  Addrs <- MCAddrs
  Parses = {a2}
  Default = a3
  Up = {a2}
  Program = {"aods", "install"}
  Verdict = {"SUC", "FAI"}
  MaxSent = 3
  MaxFault = 1
INVARIANTS
  ClientTypeOK
  RecvIntact
  StoredChecks
  AsksOnce
PROPERTIES
  Converges
\* A program that has ended does nothing more.
CHECK_DEADLOCK FALSE
