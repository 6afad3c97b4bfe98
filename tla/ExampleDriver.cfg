SPECIFICATION Spec
CONSTANTS
  c1 = c1
  c2 = c2
  Clients <- MCClients
  Failing <- MCFailing
INVARIANT CleanEnd
PROPERTY DriverEnds
PROPERTY TextDisplayed
CHECK_DEADLOCK FALSE
