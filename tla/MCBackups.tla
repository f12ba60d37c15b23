----------------------------- MODULE MCBackups -----------------------------
EXTENDS Backups, TLC

Interchangeable == Permutations(Requests)
=============================================================================
