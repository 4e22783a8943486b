SPECIFICATION Spec
CONSTANTS
  Nobody = Nobody
  k1 = k1
  k2 = k2
  k3 = k3
  t1 = t1
  t2 = t2
  Channel = {k1, k2, k3}
  Thread = {t1, t2}
  Worker = {w1}
  creator <- TwoOfOneThread
  MaxCalls <- FourCalls
  Reuse = "closed"
  Fault = {}
INVARIANT OwnResult
CHECK_DEADLOCK FALSE
