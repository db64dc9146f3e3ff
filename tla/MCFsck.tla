------------------------------- MODULE MCFsck --------------------------------
(* Instances of Fsck: a fragmented partition, or one whose backups change. *)
EXTENDS Fsck, TLC

CONSTANTS n1, n2, n3, t1, t2, t3

calls(k1, k2, k3) == t1 :> k1 @@ t2 :> k2 @@ t3 :> k3

\* n1 is the previous owner and n2 the primary owner, and both have the dmap.
Fragmented(kind) ==
  [members |-> {n1, n2}, owners |-> <<n1, n2>>, backups |-> <<>>, has |-> {n1, n2}, copies |-> {},
   backupCount |-> 0, async |-> FALSE, snapshot |-> FALSE, ttl |-> {}, losses |-> 0, kind |-> kind,
   coordinator |-> n2, ring |-> {[owner |-> n2, closest |-> <<>>]}, updates |-> 1]

\* n1 is the owner and n2 its backup, and n3 becomes the backup.
NewBackup(kind) ==
  [Fragmented(kind) EXCEPT !.members = Node, !.owners = <<n1>>, !.backups = <<n2>>, !.has = {n1}, !.copies = {n2},
     !.backupCount = 1, !.coordinator = n1, !.ring = {[owner |-> n1, closest |-> <<n3>>]}]

\* One owner and one backup, and the members stay.
Pair(kind) ==
  [NewBackup(kind) EXCEPT !.members = {n1, n2}, !.has = {}, !.copies = {}, !.ring = {}]

\* The last one: a move is repeated after its answer was lost, beside a delete.
Moves == {[Fragmented(calls("put", "delete", "get")) EXCEPT !.losses = 1],
          [Fragmented(calls("get", "destroy", "none")) EXCEPT !.updates = 2],
          [Fragmented(calls("delete", "none", "none")) EXCEPT !.updates = 2, !.losses = 1]}

\* Few enough states for liveness.
Small == {[Fragmented(calls("none", "none", "none")) EXCEPT !.has = {n1}, !.updates = 2, !.losses = 1],
          [Fragmented(calls("get", "none", "none")) EXCEPT !.has = {n1}, !.losses = 1],
          [NewBackup(calls("none", "none", "none")) EXCEPT !.updates = 2, !.losses = 1],
          [Fragmented(calls("put", "delete", "get")) EXCEPT !.has = {n1}, !.ring = {}, !.losses = 1],
          [Pair(calls("put", "put", "evict")) EXCEPT !.ttl = {t1}],
          [Pair(calls("put", "get", "none")) EXCEPT !.async = TRUE, !.losses = 1]}

\* A put beside a move.
PutMove == {Fragmented(calls("put", "none", "none"))}
=============================================================================
