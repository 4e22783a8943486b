SPECIFICATION FairSpec
CONSTANTS
  a = a
  b = b
  Server = {a, b}
  suffix <- OneSuffix
  Tcp = {u}
  Inproc = {i}
  Nobody = Nobody
  MaxEndpoints <- TwoAndNone
  Fault = {"bind", "signal"}
INVARIANT TypeOK
INVARIANT WorkersAtHome
INVARIANT CloseUnbindsItsOwn
PROPERTY ContextEnds
CHECK_DEADLOCK FALSE
