---------------------------- MODULE MCSelfUpdate ----------------------------
EXTENDS SelfUpdate, TLC
Interchangeable == Permutations(Windows)
=============================================================================
