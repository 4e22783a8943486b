SPECIFICATION Spec
CONSTANTS
  Worker = {w1, w2}
  MaxRequests = 2
  Noreply = FALSE
  InprocClients = TRUE
  Caution = {}
  Fault = {"bind", "unbind", "signal", "service", "fatal"}
SYMMETRY Symmetry
INVARIANT TypeOK
INVARIANT NothingLost
INVARIANT AtMostOnce
CHECK_DEADLOCK FALSE
