CONSTANTS
  BlockSize = 8
  HeaderSize = 3
  SegmentSize = 26
  NonceSize = 2
  SyncOption = FALSE
  BytesPerSync = 0
  CallerSyncs = FALSE
  Lens <- MCLens
  MaxRecords = 3
  MaxBatch = 2
  MaxSegments = 3
  MaxCrashes = 0
  MaxWriteNonceFailures = 0
  MaxBatchNonceFailures = 0
  NilNonceRecords = {}
  MaxReaders = 1
SPECIFICATION ReaderSpec
INVARIANTS
  ReaderSeesWal
CHECK_DEADLOCK FALSE
