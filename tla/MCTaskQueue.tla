---------------------------- MODULE MCTaskQueue ----------------------------
EXTENDS TaskQueue, TLC

Symmetry == Permutations(Callers)

\* Keep is what SelectSeq makes of a list.
ASSUME KeepIsSelectSeq ==
  \A list \in BoundedSeq(1 .. 3, 4), T \in SUBSET (1 .. 3) :
    Keep(list, {n \in DOMAIN list : list[n] \in T}) = SelectSeq(list, LAMBDA t : t \in T)
=============================================================================
