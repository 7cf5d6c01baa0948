---------------------------- MODULE MCSolverPool ----------------------------
\* SolverPool for TLC: the bounds are in the .cfg.
EXTENDS SolverPool
=============================================================================
