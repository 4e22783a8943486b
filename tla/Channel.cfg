SPECIFICATION Spec
CONSTANTS
  Controller = {c1, c2}
  MaxRequests = 2
  Timeout <- Timeouts
  DefaultTimeout = 2
  ClockStep <- Steady
  MinElapsed = 0
  MaxElapsed = 3
  RecvHWM = 2
  PeerCode <- Codes
  Foreign = TRUE
  Failures = TRUE
  AbandonPending = FALSE
INVARIANT TypeOK
INVARIANT ReplylistExact
INVARIANT FreshReply
INVARIANT NeverLate
INVARIANT NeverEarly
PROPERTY CompletedByOwnReply
