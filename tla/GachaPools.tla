------------------------------ MODULE GachaPools ------------------------------
(* The gacha pools: what LoadConfig makes of the pools of gacha_pool.yaml,     *)
(* which of them a request gets, and what DrawByRarity picks.                  *)
(* An entry of the file has a list of items of its own, or groups that list    *)
(* items by rarity.  A pool is, for each rarity that can be rolled, the        *)
(* weights of its items.                                                       *)
EXTENDS Integers, Sequences

CONSTANT NoKey                    \* stands for a key that an entry does not have

Rarities == 3 .. 5
EmptyPool == [r \in Rarities |-> << >>]
DefaultThreeStars == 3            \* how many kDefaultThreeStarItems there are

\* What the file may say: how many items a group lists of each rarity, and the own
\* items of a list.
Group == [Rarities -> Nat]
GachaItem == [rarity : Int, weight : Int]
IsEntry(entry) ==
  /\ entry.id = NoKey \/ entry.id \in Int
  /\ entry.items = NoKey \/ entry.items \in Seq(GachaItem)
  /\ \A group \in {entry.all, entry.up, entry.standard} : group = NoKey \/ group \in Group

\* Is the entry in the form with up_items and standard_items?
Grouped(entry) == entry.items = NoKey /\ (entry.up # NoKey \/ entry.standard # NoKey)

\* addRarityItems: every item that the group lists gets the weight.
Weights(group, r, weight) ==
  IF group = NoKey THEN << >> ELSE [i \in 1 .. group[r] |-> weight]

\* The items of the groups, in the order in which they are added.
GroupItems(entry, r) ==
  Weights(entry.all, r, 100)
    \o (IF r = 3 THEN << >>
        ELSE Weights(entry.up, r, IF r = 5 THEN 800 ELSE 700))
    \o Weights(entry.standard, r, CASE r = 5 -> 200 [] r = 4 -> 300 [] r = 3 -> 100)

\* The weights of a list's own items: AddItem puts each behind those of its rarity.
OwnItems(list, r) ==
  LET own[i \in 0 .. Len(list)] ==
        IF i = 0 THEN << >>
        ELSE IF list[i].rarity = r THEN Append(own[i - 1], list[i].weight) ELSE own[i - 1]
  IN own[Len(list)]

\* Mutant: the missing three-stars are put in only when there are no other items.
PoolOf_Uninjected(entry) == [r \in Rarities |->
  IF entry.items # NoKey THEN OwnItems(entry.items, r) ELSE GroupItems(entry, r)]

\* The pool of an entry.  Only a grouped one gets three-stars that it lacks.
PoolOf(entry) == [r \in Rarities |->
  IF entry.items # NoKey THEN OwnItems(entry.items, r)
  ELSE IF r = 3 /\ Grouped(entry) /\ GroupItems(entry, 3) = << >>
       THEN [i \in 1 .. DefaultThreeStars |-> 100]
       ELSE GroupItems(entry, r)]

\* An entry without any item is skipped.
Empty(entry) ==
  IF entry.items # NoKey THEN entry.items = << >>
  ELSE \A r \in Rarities : PoolOf(entry)[r] = << >>

\* The entries that make pools: of two with the same id the later one.
Entries(file) == {i \in 1 .. Len(file) :
  /\ file[i].id # NoKey /\ ~Empty(file[i])
  /\ \A j \in i + 1 .. Len(file) : file[j].id = file[i].id => Empty(file[j])}

LoadConfig(file) ==
  [id \in {file[i].id : i \in Entries(file)} |->
     PoolOf(file[CHOOSE i \in Entries(file) : file[i].id = id])]

\* GetPool: the pool of the id, else pool 1, else the one that the hash map has
\* first.  Without any it throws, as a draw from an empty pool does.
GetPool(pools, first, id) ==
  IF id \in DOMAIN pools THEN pools[id]
  ELSE IF 1 \in DOMAIN pools THEN pools[1]
  ELSE IF DOMAIN pools # {} THEN pools[first]
  ELSE EmptyPool

HasRarity(pool, r) == pool[r] # << >>

\* What the weights up to each item add up to: cumulative, and at the end rarity_weight_.
Cumulative(weights) ==
  LET sum[i \in 0 .. Len(weights)] == IF i = 0 THEN 0 ELSE sum[i - 1] + weights[i]
  IN sum

Total(weights) == Cumulative(weights)[Len(weights)]

\* Mutant: a number on the border between two items belongs to the second.
DrawByRarity_Below(weights, number) ==
  LET reached == {i \in 1 .. Len(weights) : number < Cumulative(weights)[i]}
  IN IF reached = {} THEN Len(weights) ELSE CHOOSE i \in reached : \A j \in reached : i <= j

\* DrawByRarity: the item whose share of the weights the random number falls in.
DrawByRarity(weights, number) ==
  LET reached == {i \in 1 .. Len(weights) : number <= Cumulative(weights)[i]}
  IN IF reached = {} THEN Len(weights) ELSE CHOOSE i \in reached : \A j \in reached : i <= j
=============================================================================
