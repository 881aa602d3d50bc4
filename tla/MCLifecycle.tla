----------------------------- MODULE MCLifecycle -----------------------------
EXTENDS LifecycleLedger, TLC
Sym == Permutations(Claims) \cup Permutations(PoolIDs \ ForeignPools)
=============================================================================
