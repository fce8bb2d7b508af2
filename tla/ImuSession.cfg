\* Resets arrive in service(), in clear_dcd and while SH-2 reopens.
CONSTANTS
  Groups = {"rotation", "accel"}
  CalMasks = {0, 7}
  MaxEpoch = 4
  MaxSeq = 2
  ResetInConfigure = FALSE
SPECIFICATION Spec
INVARIANTS
  ValidInEpoch
  FactsInEpoch
  ResetParksReader
  EligibleInMode
PROPERTIES
  ClearDcdOneEpoch
  IdentityGrows
