\* A second tumbling window in the replay of README.md.
SPECIFICATION Spec
CONSTANTS
  k1 = k1
  k2 = k2
  k3 = k3
  NoKey = NoKey
  Keys = {k1, k2, k3}
  HotKeys = {k1}
  InputKeys = {k1}
  MSGS = 7
  CmMod = 4
  NDATA = 2
  NKEYS = 1
  EpochMod = 4
  BfX <- HashX
  BfY <- HashY
  CmX <- HashX
  CmY <- HashY
  NReq = 2
  NEpoch = 1
  Threshold = 2
  Quiesced = TRUE
  Lossy = FALSE
  MaxPkts = 1
  MaxSwitch = 3
INVARIANT WindowExact
