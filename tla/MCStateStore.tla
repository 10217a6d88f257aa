----------------------------- MODULE MCStateStore -----------------------------
\* A small instance of StateStore for TLC.
EXTENDS StateStore, TLC

Symmetry == Permutations(Procs) \cup Permutations(Updates)

===============================================================================
