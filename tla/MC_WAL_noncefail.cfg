CONSTANTS
  BlockSize = 8
  HeaderSize = 3
  SegmentSize = 26
  NonceSize = 2
  SyncOption = FALSE
  BytesPerSync = 0
  CallerSyncs = TRUE
  Lens <- MCLens
  MaxRecords = 4
  MaxBatch = 2
  MaxSegments = 3
  MaxCrashes = 0
  MaxWriteNonceFailures = 1
  MaxBatchNonceFailures = 0
  NilNonceRecords = {}
SPECIFICATION Spec
INVARIANTS
  NonceOrdinalAlignment
CHECK_DEADLOCK FALSE
