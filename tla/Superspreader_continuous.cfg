\* Windows of two sub-windows; traffic never pauses; no key overflows.
SPECIFICATION PairSpec
CONSTANTS
  k1 = k1
  k2 = k2
  ab = ab
  ac = ac
  bc = bc
  NoKey = NoKey
  Keys = {k1, k2}
  HotKeys = {k1}
  InputKeys = {k1}
  MSGS = 5
  CmMod = 8
  NDATA = 3
  NKEYS = 2
  EpochMod = 4
  BfX <- KeyX
  BfY <- KeyY
  CmX <- KeyX
  CmY <- KeyY
  Pairs = {ab, ac, bc}
  KeyOf <- SourceOf
  DbfX <- PairX
  DbfY <- PairY
  NReq = 2
  NEpoch = 2
  Threshold = 2
  Quiesced = FALSE
  Lossy = FALSE
  MaxPkts = 4
  MaxSwitch = 3
INVARIANTS NoPairTwice NoPairMissed MergedDistinct
