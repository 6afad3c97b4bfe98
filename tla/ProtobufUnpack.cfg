SPECIFICATION Spec
CONSTANTS
  Descriptor <- MCDescriptor
  Inputs <- MCInputs
  Top = "Top"
  SlabCapacity = 7
  FirstSlab = 1
  MaxSlab = 2
  BitmapFields = 5
INVARIANT LedgerBalances
INVARIANT ArraysFit
INVARIANT ResultIsMeaning
INVARIANT PackInverts
CHECK_DEADLOCK FALSE
