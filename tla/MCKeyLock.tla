------------------------------ MODULE MCKeyLock ------------------------------
(* Settings for KeyLock: two nodes, n1 the first owner of the key. *)
EXTENDS KeyLock, TLC

CONSTANTS n1, n2, p1, p2, p3

base == [work    |-> (p1 :> "incr" @@ p2 :> "incr" @@ p3 :> "none"),
         client  |-> (p1 :> n1 @@ p2 :> n2 @@ p3 :> n2),
         owners  |-> <<n1>>, next |-> <<n1>>,
         has     |-> {n1},
         value   |-> 7,
         losses  |-> 0,
         errors  |-> {}, expire |-> FALSE, janitor |-> FALSE, fsck |-> FALSE]

\* One owner; the key is there, so that the janitor drops nothing; updates fail.
Stable == [base EXCEPT !.work[p3] = "getput", !.janitor = TRUE, !.errors = {p3}]

\* A second node becomes the primary owner.
HandOver == [base EXCEPT !.next = <<n1, n2>>, !.fsck = TRUE]

\* Locks with timeouts; a request or an answer is lost.
Timeouts == [base EXCEPT !.work = (p1 :> "lock" @@ p2 :> "lock" @@ p3 :> "none"),
                         !.owners = <<n1, n2>>, !.next = <<n1, n2>>, !.losses = 1, !.expire = TRUE]

\* The same for a lock that stays behind at the previous owner.
Moved == [Timeouts EXCEPT !.work[p1] = "none", !.owners = <<n1>>, !.losses = 2]

\* The key is not there yet, and the janitor runs.
NoKey == [base EXCEPT !.has = {}, !.janitor = TRUE]

Holds == {Stable, HandOver, Timeouts, Moved, NoKey}
=============================================================================
