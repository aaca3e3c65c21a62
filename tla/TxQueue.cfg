\* Batches of two, a driver that holds three packets; as many buffers as that
\* takes.  The controller may have nothing more to send.
SPECIFICATION FairSpec
CONSTANTS
  Null = Null
  Mbufs = {1, 2, 3, 4, 5}
  Batch = 2
  TxDesc = 3
  MaxReqs = 5
INVARIANTS IInv OwnedOnce
PROPERTIES InOrder FlushedIsSent
CHECK_DEADLOCK FALSE
