----------------------------- MODULE MCUthread -----------------------------
\* Instances of Uthread for TLC.
EXTENDS Uthread, TLC

Symmetry == Permutations(Thread \ {Main})
=============================================================================
