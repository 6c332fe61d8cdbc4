--------------------------- MODULE MCClientConfig ---------------------------
\* Neither the games nor the calls are told apart by anything they begin with.
EXTENDS ClientConfig, TLC

Interchangeable == Permutations(Games) \cup Permutations(Calls)
=============================================================================
