----------------------------- MODULE MCGachaDraw -----------------------------
(* Instances of GachaDraw for TLC: one trace id asks for two draws (the ten of *)
(* the code) from pool 2, the empty one for one draw from a pool that is not   *)
(* in the file.                                                                *)
EXTENDS GachaDraw, TLC

CONSTANTS t1, t2
DrawsOf == [t \in Traces |-> IF t = t2 THEN 2 ELSE 1]
PoolIdOf == [t \in Traces |-> IF t = t2 THEN 2 ELSE 3]

Entry(id, own, all, up, standard) ==
  [id |-> id, items |-> own, all |-> all, up |-> up, standard |-> standard]
Stars(three, four, five) == [r \in Rarities |-> CASE r = 3 -> three [] r = 4 -> four [] r = 5 -> five]
Item(r, w) == [rarity |-> r, weight |-> w]

\* A grouped entry without three-stars, as in the repository's file, beside a list
\* whose three-star has no weight; and a file whose only pool has neither of the ids,
\* a grouped entry that replaces a list, with entries that make no pool.
FilesOf == {
  << Entry(1, NoKey, Stars(0, 1, 0), Stars(0, 2, 1), Stars(0, 1, 2)),
     Entry(2, <<Item(5, 2), Item(4, 1), Item(3, 0), Item(5, 1)>>, NoKey, NoKey, NoKey) >>,
  << Entry(NoKey, NoKey, Stars(1, 1, 1), NoKey, NoKey), Entry(7, <<Item(6, 1)>>, NoKey, NoKey, NoKey),
     Entry(7, NoKey, NoKey, NoKey, Stars(0, 1, 1)), Entry(7, << >>, NoKey, NoKey, NoKey) >> }

Symmetry == Permutations(Handlers)
=============================================================================
