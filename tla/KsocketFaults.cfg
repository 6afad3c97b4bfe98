SPECIFICATION Spec
CONSTANTS
  Threads = {t1, t2}
  Sockets = {s1, s2, s3}
  WskSockets = {w1, w2}
  t1 = t1
  t2 = t2
  s1 = s1
  s2 = s2
  s3 = s3
  w1 = w1
  w2 = w2
  NULL = NULL
  ExclusiveUse = TRUE
  Faults = {"pool", "irp", "mdl", "create", "close", "capture"}
  Workload = {"getaddrinfo", "createListen", "createConnection", "createDatagram", "bind", "accept", "connectBind", "send", "recv", "sendto", "recvfrom", "close"}
SYMMETRY Symmetry
INVARIANT OneRequestPerIrp
INVARIANT ReplyIsOwn
INVARIANT BufferLocked
INVARIANT NoUseAfterFree
PROPERTY ImplementsSyncCall
CHECK_DEADLOCK FALSE
