--------------------------- MODULE MCDashboardJobs ---------------------------
\* A small instance of DashboardJobs for TLC.
EXTENDS DashboardJobs, TLC

Symmetry == Permutations(Reqs) \cup Permutations(Names) \cup Permutations(Socks)

===============================================================================
