------------------------------ MODULE MCMailbox ------------------------------
(* Instances of Mailbox for TLC. *)
EXTENDS Mailbox, TLC

Symmetry == Permutations(Producers) \cup Permutations(Nodes)
=============================================================================
