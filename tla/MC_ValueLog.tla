---------------------------- MODULE MC_ValueLog ----------------------------
EXTENDS ValueLog

\* Four records of one batch.
MCRecords == 1 .. 4

\* Distinct keys, as a batch of puts has after deduplication, including an
\* empty key, an empty value and a two-byte key, so that the key-length
\* prefix and both slice bounds of the codec matter.
MCKV == <<[key |-> <<>>,     value |-> <<5>>],
         [key |-> <<1>>,    value |-> <<>>],
         [key |-> <<2>>,    value |-> <<5, 6>>],
         [key |-> <<1, 2>>, value |-> <<6>>]>>

=============================================================================
