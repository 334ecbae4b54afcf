---------------------------- MODULE MC_WALLocks ----------------------------
EXTENDS WALLocks

\* Each reader goroutine positions a reader with NewReaderWithStart.
MCStartOps == <<"NewReaderWithStart">>

=============================================================================
