---------------------------- MODULE MC_WALReader ----------------------------
EXTENDS WALReader

MCLens == {1, 7}

=============================================================================
