\* Two keys, one of them in the input file; windows of two sub-windows.
\* A build without SLIDING stops at MaxTotal.
SPECIFICATION Spec
CONSTANTS
  k1 = k1
  k2 = k2
  NoKey = NoKey
  NoPos = NoPos
  Keys = {k1, k2}
  NPos = 2
  InputKeys = {k1}
  NEPOCH_BUF = 3
  NEpoch = 2
  MaxTotal = 4
  Threshold = 3
  Width16 = 16
  Width32 = 256
CHECK_DEADLOCK FALSE
INVARIANTS TypeOK ReportsExact AddressesRight FreeIsClear
