SPECIFICATION MCSpec
CONSTANTS
  Object = {m1, m2}
  Data = {d1, d2}
  Absent = Absent
  Closed = Closed
  Empty = Empty
  MaxQueue = 1
  Memory = TRUE
  CtxObject = {c1, c2}
  CtxPtr = {p1}
  SockObject = {s1, s2}
  SockPtr = {q1, q2}
  NULL = NULL
  Garbage = Garbage
  MaxEvents = 1
  Signals = TRUE
INVARIANT TypeOK
INVARIANT Accounted
INVARIANT Unshared
INVARIANT OneOwner
INVARIANT EventsPaired
PROPERTY MonitorLetsGo
CHECK_DEADLOCK FALSE
