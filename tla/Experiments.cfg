\* Exp-1: windows of three slides, one of them collected in; Exp-2: two windows
\* of three sub-windows, so that each sketch and list of the ring serves twice;
\* Exp-dc: two keys stored in the switch, batches of one or two.
\* Each experiment stops at the bound on its input.
SPECIFICATION Spec
CONSTANTS
  Hosts = {h1, h2}
  NSlide = 3
  NEpoch = 2
  DcTime = 1
  Threshold = 2
  BytesPerCon = 1
  SimPkts = 4
  MaxTime = 7
  NKeysDp = 2
  M = 2
  N = 3
  MaxRounds = 2
  Depth = 2
  Width = 3
  MeasurePoint = 3
  HHThreshold = 3
  NSub = 6
  SketchPkts = 7
  Setups <- TriedSetups
  InputKeys <- InputFile
  Slots = 2
  MaxMsgs = 4
CHECK_DEADLOCK FALSE
INVARIANTS ISWExact SchemesAgree EstimatesCover FindsRight CollectionCorrect StartUpCorrect
PROPERTY EverythingEnds
