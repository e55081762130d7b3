---------------------------- MODULE MCIdempotency ----------------------------
EXTENDS Idempotency, TLC

\* Requests and replicas are interchangeable, and so are the fingerprints.
Symmetric == Permutations(Requests) \cup Permutations(Replicas) \cup Permutations(Bodies)
=============================================================================
