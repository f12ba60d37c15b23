--------------------------- MODULE MCEdgePublish ---------------------------
EXTENDS EdgePublish, TLC

Interchangeable == Permutations(Publishers)
=============================================================================
