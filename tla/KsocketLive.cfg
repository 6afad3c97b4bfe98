SPECIFICATION FairSpec
CONSTANTS
  Threads = {t1, t2}
  Sockets = {s1, s2, s3}
  WskSockets = {w1, w2}
  t1 = t1
  t2 = t2
  s1 = s1
  s2 = s2
  s3 = s3
  w1 = w1
  w2 = w2
  NULL = NULL
  ExclusiveUse = TRUE
  Faults = {}
  Workload = {"createListen", "createConnection", "accept", "connectBind", "close"}
INVARIANT NoLostSocket
INVARIANT NoLeak
PROPERTY ImplementsSyncDelivery
PROPERTY CallsReturn
PROPERTY DestroyReturns
