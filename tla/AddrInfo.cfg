SPECIFICATION Spec
CONSTANTS
  Calls <- MCCalls
  Lists <- MCLists
INVARIANT FreesAreValid
INVARIANT FailureLeavesNothing
INVARIANT ResultIsComplete
INVARIANT ListsAreFreed
CHECK_DEADLOCK FALSE
