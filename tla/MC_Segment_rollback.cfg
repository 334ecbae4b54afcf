CONSTANTS
  BlockSize = 8
  HeaderSize = 3
  Lens <- MCLens
  MaxRecords = 4
  MaxBatch = 2
  MaxFailures = 1
  PosValues <- MCPosValues
  BatchIds <- MCBatchIds
  RecordBytes <- MCRecordBytes
SPECIFICATION Spec
INVARIANTS
  NoSilentCorruption
CHECK_DEADLOCK FALSE
