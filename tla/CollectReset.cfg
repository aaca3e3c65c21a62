\* Two chains, up to two keys and two queries; every loss; packets of the last
\* switch still under way when the next begins.  A lost packet may leave the
\* controller waiting for ever.
SPECIFICATION Spec
CONSTANTS
  NDATA = 2
  NKEYS = 2
  NReq = 2
  MaxQueries = 2
  MaxStray = 2
INVARIANTS IInv CollectedBeforeReset DonesTellTheTruth StartsAfterReset
CHECK_DEADLOCK FALSE
