------------------------------ MODULE MCNodePool ------------------------------
(* The names of threads and nodes do not matter.                               *)
EXTENDS NodePool, TLC

Symmetry == Permutations(Threads) \cup Permutations(Nodes)

\* What comes after a repeated head is beyond the properties.
NotReused == ~reused
=============================================================================
