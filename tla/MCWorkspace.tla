----------------------------- MODULE MCWorkspace -----------------------------
\* Members and conversations are interchangeable; no liveness is checked here.
EXTENDS Conversations, TLC
Interchangeable == Permutations(Members) \cup Permutations(Convs)
=============================================================================
