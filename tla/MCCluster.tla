------------------------------ MODULE MCCluster ------------------------------
(***************************************************************************)
(* Instances of Cluster for TLC.  A setup names the nodes that are up and  *)
(* agree on the table, the order that stands for the hash function, and    *)
(* what may happen: the names that may start, the number of processes over *)
(* the whole run, the names that may crash, the number of faults (a live   *)
(* node taken for dead, a lost request), whether the 10 s of bootstrapping *)
(* may run out, and the capacity of the event channels.                    *)
(***************************************************************************)
EXTENDS Cluster, TLC

CONSTANTS n1, n2, n3

base == [up |-> {n1, n2}, birth |-> (n1 :> 1 @@ n2 :> 2 @@ n3 :> 3),
         order |-> <<n3, n2, n1>>, start |-> {}, births |-> 3,
         crash |-> {}, losses |-> 0, slow |-> FALSE, cap |-> 4]

\* n3 joins n1 and becomes the owner.
Joins == [base EXCEPT !.up = {n1}, !.start = {n3}, !.births = 2, !.slow = TRUE]

\* Both nodes may crash, and one of the names comes back.
Restarts == [base EXCEPT !.start = {n1, n2}, !.crash = {n1, n2}]

\* A live node is taken for dead, or a push is lost; a node that panics may be started again.
Suspects == [base EXCEPT !.start = {n1, n2}, !.losses = 1]

\* The coordinator and the owner of three nodes may crash; the channels are
\* full with one event.
Three == [base EXCEPT !.up = {n1, n2, n3}, !.crash = {n1, n3}, !.cap = 1]

\* The join of the node itself and of the one member it finds are more than
\* the channel holds.
JoinsFull == [Joins EXCEPT !.cap = 1]

Holds == {Joins, Restarts, Suspects, Three}
=============================================================================
