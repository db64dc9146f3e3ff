------------------------------- MODULE MCDMap --------------------------------
(* Instances of DMap: clusters of two or three nodes and up to four operations. *)
EXTENDS DMap, TLC

CONSTANTS n1, n2, n3, t1, t2, t3, t4

calls(k1, k2, k3, k4) == t1 :> k1 @@ t2 :> k2 @@ t3 :> k3 @@ t4 :> k4

\* One owner and one backup.
Pair(kind) == [members |-> {n1, n2}, owners |-> <<n1>>, backups |-> <<n2>>, has |-> {}, copies |-> {},
               backupCount |-> 1, async |-> FALSE, snapshot |-> FALSE, ttl |-> {}, losses |-> 0, kind |-> kind]

\* Two backups; or a previous owner that has the dmap.
TwoBackups(kind) == [Pair(kind) EXCEPT !.members = Node, !.backups = <<n2, n3>>, !.backupCount = 2]

Fragmented(kind) == [Pair(kind) EXCEPT !.members = Node, !.owners = <<n1, n2>>, !.backups = <<n3>>, !.has = {n1}]

\* Writes and a get, some requests failing, backups written at once or later.
Writes == {[TwoBackups(calls("put", "delete", "get", "none")) EXCEPT !.losses = 2],
           [Fragmented(calls("put", "put", "delete", "get")) EXCEPT !.losses = 1],
           [Pair(calls("put", "put", "get", "none")) EXCEPT !.async = TRUE, !.losses = 1]}

\* What takes keys and dmaps away: destroy, eviction and the janitor.
Churn == {[Pair(calls("put", "get", "destroy", "none")) EXCEPT !.ttl = {t1}],
          [Pair(calls("put", "evict", "destroy", "none")) EXCEPT !.ttl = {t1}],
          [Pair(calls("put", "put", "destroy", "none")) EXCEPT !.async = TRUE],
          [Pair(calls("put", "put", "evict", "get")) EXCEPT !.ttl = {t1}],
          Pair(calls("put", "delete", "stale", "get"))}

Operations == Writes \cup Churn
=============================================================================
