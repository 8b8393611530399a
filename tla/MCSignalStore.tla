--------------------------- MODULE MCSignalStore ---------------------------
EXTENDS SignalStore, TLC

\* The two sweeping processes run the same code.
Symmetry == Permutations(Sweepers)
=============================================================================
