---------------------------- MODULE BoundedFifo ----------------------------
(***************************************************************************)
(* What the queue of jobs promises (README.md and the comments of          *)
(* main_server.h:92-105): a first-in first-out queue of at most Capacity   *)
(* jobs, from which one job at a time can be withdrawn without disturbing  *)
(* the order of the others.  Which one, RemovesRequestedOrNewest of        *)
(* JobQueue says.                                                          *)
(***************************************************************************)
EXTENDS Integers, Sequences

CONSTANTS Jobs, Capacity

VARIABLE items

Init == items = <<>>

Put(job) == /\ Len(items) < Capacity
            /\ items' = Append(items, job)

Take == /\ items # <<>>
        /\ items' = Tail(items)

Withdraw(k) == items' = SubSeq(items, 1, k - 1) \o SubSeq(items, k + 1, Len(items))

Next == \/ \E job \in Jobs : Put(job)
        \/ Take
        \/ \E k \in 1 .. Len(items) : Withdraw(k)

Spec == Init /\ [][Next]_items
=============================================================================
