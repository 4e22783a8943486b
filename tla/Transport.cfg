SPECIFICATION FairSpec
CONSTANTS
  Message = {m1, m2}
  size <- ThreeEach
  HWM = 1
  SocketTypes = {"PUB", "DEALER"}
  MaxSent = 3
  Fault = {"signal", "memory", "close", "term"}
INVARIANT TypeOK
INVARIANT NoneLost
INVARIANT CountTellsDamage
INVARIANT NeverInBetween
PROPERTY Delivered
CHECK_DEADLOCK FALSE
