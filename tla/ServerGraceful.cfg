SPECIFICATION FairSpec
CONSTANTS
  Worker = {w1, w2}
  MaxRequests = 2
  Noreply = FALSE
  InprocClients = FALSE
  Caution = {"serving", "quiet", "wait"}
  Fault = {"service"}
INVARIANT NothingLost
INVARIANT StopForEach
INVARIANT ClosedAfterWorkers
PROPERTY CloseReturns
PROPERTY EventuallyHandled
CHECK_DEADLOCK FALSE
