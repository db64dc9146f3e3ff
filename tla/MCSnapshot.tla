----------------------------- MODULE MCSnapshot ------------------------------
(* Instances of Snapshot: one or two dmaps with one or two keys each.        *)
EXTENDS Snapshot

CONSTANTS k1, k2

\* Two keys of one dmap, writes that fail, and a restart.
Steady == [dkeys |-> {"primary"}, hkeys |-> HKey, drops |-> {}, fails |-> {"set"},
           merges |-> FALSE, splits |-> TRUE, maxOps |-> 3, maxFails |-> 1, maxStops |-> 2]

\* The primary and the backup dmap of a name are dropped, in all three ways.
Dropping == [dkeys |-> DKey, hkeys |-> {k1}, drops |-> {"stale", "destroy", "move"},
             fails |-> {}, merges |-> FALSE, splits |-> FALSE, maxOps |-> 3, maxFails |-> 0, maxStops |-> 1]

\* And any call of Badger but the Set of a value fails, and a moved dmap is merged.
Failing == [Dropping EXCEPT !.fails = {"view", "keys", "commit", "update"}, !.maxOps = 2, !.maxFails = 1,
                            !.merges = TRUE]

\* Batches of two keys that are too big for a transaction fail in part, and so does
\* that of DestroyDMap.
TooBig == [Steady EXCEPT !.fails = {"big", "commit"}, !.maxOps = 2, !.maxStops = 1]
Wiping == [Steady EXCEPT !.drops = {"destroy"}, !.fails = {}, !.maxStops = 1]

Holds == {Steady, Dropping, Failing, TooBig, Wiping}

\* A dmap that was emptied is dropped, and another one comes.
Stale == {[Dropping EXCEPT !.dkeys = {"primary"}, !.drops = {"stale"}, !.maxOps = 4]}
=============================================================================
