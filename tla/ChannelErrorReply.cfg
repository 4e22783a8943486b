SPECIFICATION Spec
CONSTANTS
  Controller = {c1}
  MaxRequests = 1
  Timeout <- Timeouts
  DefaultTimeout = 2
  ClockStep <- Steady
  MinElapsed = 0
  MaxElapsed = 3
  RecvHWM = 2
  PeerCode <- Codes
  Foreign = FALSE
  Failures = FALSE
  AbandonPending = FALSE
PROPERTY ErrorReported
