---------------------------- MODULE MCSessionLogin ----------------------------
(* The names of sids, connections, logins and Session objects do not matter.   *)
EXTENDS SessionLogin, TLC

Symmetry == Permutations(Sids) \cup Permutations(Conns)
              \cup Permutations(Logins) \cup Permutations(Objects)
=============================================================================
