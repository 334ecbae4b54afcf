CONSTANTS
  BlockSize = 8
  HeaderSize = 3
  Lens <- MCLens
  MaxRecords = 4
  MaxBatch = 2
  MaxFailures = 0
  PosValues <- MCPosValues
  BatchIds <- MCBatchIds
  RecordBytes <- MCRecordBytes
SPECIFICATION RunSpec
INVARIANTS
  TypeOK
  RoundTrip
  ReaderSeesWritten
  NoStraddle
  CodecRoundTrip
CHECK_DEADLOCK FALSE
