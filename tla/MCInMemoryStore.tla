-------------------------- MODULE MCInMemoryStore --------------------------
EXTENDS InMemoryStore, TLC

Symmetry == Permutations(Requests) \cup Permutations(Keys) \cup Permutations(Hashes)
=============================================================================
