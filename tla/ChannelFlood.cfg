SPECIFICATION FairSpec
CONSTANTS
  Controller = {c1}
  MaxRequests = 1
  Timeout <- Timeouts
  DefaultTimeout = 2
  ClockStep <- Jumps
  MinElapsed = 0
  MaxElapsed = 3
  RecvHWM = 2
  PeerCode <- Codes
  Foreign = TRUE
  Failures = TRUE
  AbandonPending = FALSE
PROPERTY RecvTerminates
