--------------------------- MODULE MCTenantSessions --------------------------
EXTENDS TenantSessions, TLC

\* Engines and sessions are interchangeable.
Interchangeable == Permutations(Engines) \cup Permutations(Sessions)
=============================================================================
