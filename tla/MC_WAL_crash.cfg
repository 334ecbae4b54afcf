\* A crash that keeps part of an unsynced nonce, then writes that the
\* BytesPerSync threshold syncs after Open.
CONSTANTS
  BlockSize = 8
  HeaderSize = 3
  SegmentSize = 26
  NonceSize = 2
  SyncOption = FALSE
  BytesPerSync = 8
  CallerSyncs = FALSE
  Lens <- MCLens
  MaxRecords = 3
  MaxBatch = 2
  MaxSegments = 3
  MaxCrashes = 1
  MaxWriteNonceFailures = 0
  MaxBatchNonceFailures = 0
  NilNonceRecords = {}
SPECIFICATION Spec
INVARIANTS
  ReadYourWrites
CHECK_DEADLOCK FALSE
