-------------------------- MODULE MCBatchLifecycle --------------------------
(* Small instances of BatchLifecycle.                                      *)
EXTENDS BatchLifecycle, TLC

CONSTANTS j1, j2, j3

Symmetry == Permutations(Jobs)

\* overlapped never becomes FALSE again, and the properties of jobs that follow
\* one another say nothing once it is TRUE: those states need no successors.
StillInTurn == ~overlapped
=============================================================================
