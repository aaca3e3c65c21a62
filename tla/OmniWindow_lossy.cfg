\* Requests and mirrored packets may be lost, so switchWin may wait for ever.
SPECIFICATION Spec
CONSTANTS
  k1 = k1
  k2 = k2
  k3 = k3
  NoKey = NoKey
  Keys = {k1, k2}
  HotKeys = {k1}
  InputKeys = {k1}
  MSGS = 5
  CmMod = 4
  NDATA = 2
  NKEYS = 2
  EpochMod = 4
  BfX <- Perfect
  BfY <- AllZero
  CmX <- Perfect
  CmY <- AllZero
  NReq = 2
  NEpoch = 2
  Threshold = 2
  Quiesced = FALSE
  Lossy = TRUE
  MaxPkts = 1
  MaxSwitch = 2
INVARIANT IInv
PROPERTIES CutsAtomically FollowsProtocol
CHECK_DEADLOCK FALSE
