---------------------------- MODULE MCRedisStore ----------------------------
EXTENDS RedisStore, TLC

Symmetry == Permutations(Requests) \cup Permutations(Keys) \cup Permutations(Hashes)
=============================================================================
