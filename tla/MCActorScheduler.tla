--------------------------- MODULE MCActorScheduler ---------------------------
(* Instances of ActorScheduler for TLC: two workers, with one actor at home in *)
(* one shard or two actors at home in the same shard, so that the other worker *)
(* lives by stealing.                                                          *)
EXTENDS ActorScheduler, TLC

CONSTANTS w1, w2
SameShard == [a \in Actors |-> w1]

Symmetry == Permutations(Producers) \cup Permutations(Actors)
=============================================================================
