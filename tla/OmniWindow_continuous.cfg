\* Traffic never pauses, the key buffer never overflows.
SPECIFICATION FairSpec
CONSTANTS
  k1 = k1
  k2 = k2
  k3 = k3
  NoKey = NoKey
  Keys = {k1, k2}
  HotKeys = {k1}
  InputKeys = {k1}
  MSGS = 5
  CmMod = 8
  NDATA = 2
  NKEYS = 2
  EpochMod = 4
  BfX <- Perfect
  BfY <- AllZero
  CmX <- Perfect
  CmY <- AllZero
  NReq = 2
  NEpoch = 2
  Threshold = 2
  Quiesced = FALSE
  Lossy = FALSE
  MaxPkts = 2
  MaxSwitch = 2
INVARIANT ActiveSketchExact
PROPERTIES CleanSwitch AtomicSubWindows
