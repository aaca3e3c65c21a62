\* A hot key and two others, on three positions; a window of three sub-windows
\* in a ring of four rows; the epoch of the switch wraps.
SPECIFICATION Spec
CONSTANTS
  h = h
  k1 = k1
  k2 = k2
  p1 = p1
  p2 = p2
  p3 = p3
  NoKey = NoKey
  NoPos = NoPos
  Keys = {h, k1, k2}
  Pos = {p1, p2, p3}
  HotKeys = {h}
  HotPos <- HotAtP1
  NEPOCH_BUF = 4
  EpochMod = 8
  NEpoch = 3
  Threshold = 2
  MaxCount = 1
INVARIANTS IInv AddressesRight TableAgrees RowsExact OnlyLiveKeys
PROPERTY SlidesExactly
