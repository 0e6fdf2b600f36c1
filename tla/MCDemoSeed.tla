----------------------------- MODULE MCDemoSeed -----------------------------
EXTENDS DemoSeed, TLC

Symmetry == Permutations(Resources)
=============================================================================
