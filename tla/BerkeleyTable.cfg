SPECIFICATION Spec
CONSTANTS
  Threads = {t1, t2, t3}
  Handles = {h1, h2, h3}
  t1 = t1
  t2 = t2
  t3 = t3
  h1 = h1
  h2 = h2
  h3 = h3
  NULL = NULL
  SOCKETFD_MAX = 3
  IndexRange = 6
  OneOpener = TRUE
  ClosesInTime = TRUE
SYMMETRY Symmetry
INVARIANT HeldNamesLive
INVARIANT NoOrphan
PROPERTY ImplementsDescriptorTable
CHECK_DEADLOCK FALSE
