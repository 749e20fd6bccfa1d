------------------------------- MODULE Purchase -------------------------------
(* What a draw request promises, whatever fails on its way: the player pays,   *)
(* gets the items and an answer is sent for them as one thing, or nothing      *)
(* happens at all; whoever asks again gets an answer that was sent before.     *)
EXTENDS Naturals

CONSTANTS Buyers,   \* who pays: each player object
          Orders,   \* what is asked for
          Cost,     \* for each order, what it costs, and how many items it brings
          Money     \* each buyer's money at the start

VARIABLES money,    \* each buyer's money
          items,    \* each buyer's items
          runs,     \* for each order, how often it was carried out
          sent      \* the answers that were sent, each an order and the number of its run

vars == <<money, items, runs, sent>>

Init == /\ money = [b \in Buyers |-> Money]
        /\ items = [b \in Buyers |-> 0]
        /\ runs = [r \in Orders |-> 0]
        /\ sent = {}

\* The order r of buyer b is carried out and answered.
Buy(b, r) == /\ money[b] >= Cost[r]
             /\ money' = [money EXCEPT ![b] = @ - Cost[r]]
             /\ items' = [items EXCEPT ![b] = @ + Cost[r]]
             /\ runs' = [runs EXCEPT ![r] = @ + 1]
             /\ sent' = sent \cup {<<r, runs[r] + 1>>}

Next == \E b \in Buyers, r \in Orders : Buy(b, r)

Spec == Init /\ [][Next]_vars
=============================================================================
