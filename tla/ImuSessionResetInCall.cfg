\* As ImuSession.cfg, but SH2_RESET may also arrive inside a configuration
\* call: the library services the bus until the command's response comes.
CONSTANTS
  Groups = {"rotation", "accel"}
  CalMasks = {0, 7}
  MaxEpoch = 4
  MaxSeq = 2
  ResetInConfigure = TRUE
SPECIFICATION Spec
INVARIANTS
  ResetParksReader
