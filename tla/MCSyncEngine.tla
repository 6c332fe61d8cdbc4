---------------------------- MODULE MCSyncEngine ----------------------------
\* The directories are interchangeable.
EXTENDS SyncEngine, TLC

Interchangeable == Permutations(Dirs)
=============================================================================
