------------------------------ MODULE FifoInbox ------------------------------
(* What an actor promises to the code that posts to it: every task that has   *)
(* arrived is executed exactly once, in the order of arrival, and no task is   *)
(* executed that did not arrive.  Mailbox and ActorScheduler implement it.    *)
EXTENDS Sequences

CONSTANTS Actors,   \* the actors of the server, one per logged-in player
          Tasks     \* what can be posted to them

VARIABLES inbox,    \* for each actor, the arrived tasks that wait
          executed  \* for each actor, the tasks executed so far

vars == <<inbox, executed>>

Init == /\ inbox = [a \in Actors |-> << >>]
        /\ executed = [a \in Actors |-> << >>]

\* A task arrives at the end of the actor's inbox.
Arrive(a, t) == /\ inbox' = [inbox EXCEPT ![a] = Append(@, t)]
                /\ UNCHANGED executed

\* The oldest waiting task of the actor is executed.
Execute(a) == /\ inbox[a] # << >>
              /\ inbox' = [inbox EXCEPT ![a] = Tail(@)]
              /\ executed' = [executed EXCEPT ![a] = Append(@, Head(inbox[a]))]

Next == \E a \in Actors : \/ \E t \in Tasks : Arrive(a, t)
                          \/ Execute(a)

Spec == Init /\ [][Next]_vars
=============================================================================
