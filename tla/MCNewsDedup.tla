----------------------------- MODULE MCNewsDedup -----------------------------
EXTENDS NewsDedup, TLC

\* Requests, replicas and channels are interchangeable.
Symmetric == Permutations(Requests) \cup Permutations(Replicas) \cup Permutations(Channels)
=============================================================================
