SPECIFICATION FairSpec
CONSTANTS
  Nobody = Nobody
  k1 = k1
  k2 = k2
  k3 = k3
  t1 = t1
  t2 = t2
  Channel = {k1, k2, k3}
  Thread = {t1, t2}
  Worker = {w1}
  creator <- TwoOfOneThread
  MaxCalls <- FourCalls
  Reuse = "quiet"
  Fault = {"break", "restart", "service"}
INVARIANT TypeOK
INVARIANT OwnResult
INVARIANT PeerAssumption
PROPERTY CallsRefined
PROPERTY EveryCallEnds
CHECK_DEADLOCK FALSE
