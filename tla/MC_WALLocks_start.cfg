\* Two reader goroutines calling NewReaderWithStart, beside the writer.
CONSTANTS
  Readers = {r1, r2}
  ReaderOps <- MCStartOps
  MaxWrites = 2
SPECIFICATION Spec
CHECK_DEADLOCK FALSE
PROPERTIES AllReturn
