SPECIFICATION Spec
CONSTANTS
  Calls <- MCCalls
  Lists <- MCLists
CHECK_DEADLOCK FALSE
INVARIANT AddressesValid
