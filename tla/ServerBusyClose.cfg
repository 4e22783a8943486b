SPECIFICATION FairSpec
CONSTANTS
  Worker = {w1, w2}
  MaxRequests = 1
  Noreply = FALSE
  InprocClients = FALSE
  Caution = {"serving", "wait"}
  Fault = {}
PROPERTY CloseReturns
CHECK_DEADLOCK FALSE
