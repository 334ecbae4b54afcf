\* writeBatch of four records over three partitions; one WriteAll may fail.
CONSTANTS
  Records <- MCRecords
  KV <- MCKV
  PartitionNum = 3
  MaxWalFailures = 1
SPECIFICATION Spec
\* writeBatch returns; the process then stops.
CHECK_DEADLOCK FALSE
INVARIANTS NoStaleBuffer PositionsComplete ReadBack
PROPERTIES Termination
