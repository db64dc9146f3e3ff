------------------------------ MODULE Snapshot -------------------------------
(***************************************************************************)
(* internal/snapshot for the dmaps of one partition at one node: put and    *)
(* delete leave a mark in an operation log, a worker writes the marked keys *)
(* to Badger, and Start loads them again.                                   *)
(*                                                                         *)
(* A dmap is named by its table (dkey) and its name; the primary and the    *)
(* backup dmap of a name share the key list, the values and the slot in     *)
(* s.oplogs.  A WriteBatch of Badger is one transaction or, when it is too  *)
(* big for that, several: each is written as a whole or not at all.         *)
(***************************************************************************)
EXTENDS Integers

CONSTANTS DKey,      \* tables the dmaps are in: "primary", "backup"
          Name,      \* names of dmaps
          HKey,      \* hashed keys of a dmap
          Val,       \* values
          None,      \* no value, no key list, no dkey
          User,      \* operations that may run at the same time
          Setup      \* the settings a run covers: the tables (dkeys) and keys (hkeys) in
                     \* use, the ways to drop a dmap (drops), whether dmaps are merged
                     \* (merges), whether a batch may be too big for one transaction
                     \* (splits), the calls of Badger that may fail (fails), and bounds: of
                     \* puts, deletes and drops (maxOps), of failing calls (maxFails), of
                     \* crashes and shutdowns (maxStops)

D     == DKey \X Name
Entry == Val \cup {None}
Marks == {"none", "put", "del"}

ASSUME DKeyType   == DKey \subseteq {"primary", "backup"}
ASSUME NoneFresh  == None \notin Val /\ None \notin DKey /\ None \notin D /\ \A ks \in SUBSET HKey : ks # None
ASSUME SetupType  == \A s \in Setup : /\ s.dkeys \subseteq DKey /\ s.hkeys \subseteq HKey
                                      /\ s.drops \subseteq {"stale", "destroy", "move"}
                                      /\ {s.merges, s.splits} \subseteq BOOLEAN
                                      /\ s.fails \subseteq {"view", "set", "big", "keys", "commit", "update"}
                                      /\ {s.maxOps, s.maxFails, s.maxStops} \subseteq Nat

VARIABLES setup,
          proc,       \* the process: up, stopping, down, failed (Start returned an error)
          inMap,      \* dmaps that are in part.m
          closed,     \* dmaps whose storage is closed
          str,        \* their storage
          log,        \* OpLog.m
          slot,       \* s.oplogs[partID][name]: the dkey of the dmap the log belongs to
          hasWorker,  \* s.workers[partID] is there
          cancelled,  \* and was called
          w,          \* the worker
          user,       \* what an operation has still to do
          dr,         \* the goroutine that drops a dmap
          reg,        \* Badger: names registered under a dkey
          keys,       \* Badger: the key list of a name, None when there is none
          disk,       \* Badger: the values
          clean,      \* the process was shut down, not killed
          panic,      \* a method of a closed storage was called
          ops, fails, stops

mem  == <<inMap, closed, str, log>>
snap == <<slot, hasWorker, cancelled>>
db   == <<reg, keys, disk>>
rest == <<clean, panic, stops>>
vars == <<setup, proc, mem, snap, w, user, dr, db, rest, ops, fails>>

Idle   == [step |-> "none", d |-> None, h |-> None, mark |-> "none"]
NoDrop == [kind |-> "none", step |-> "none", d |-> None, hkeys |-> {}]

unmarked == [h \in HKey |-> "none"]
empty    == [h \in HKey |-> None]

\* The worker: what it does, the names left in this round, whether it is the last
\* round, and the local variables of syncDMap.  Of its WriteBatch: the keys in it (set)
\* and their values (batch), the keys whose transaction is committed (sent), whether
\* the key list is in it (list), and wb.err (err), which is "late" as long as the
\* callback of a failed commit has not set it.
Worker(step) == [step |-> step, left |-> {}, last |-> FALSE, name |-> None, copy |-> unmarked, todo |-> {},
                 hkeys |-> {}, batch |-> empty, set |-> {}, sent |-> {}, list |-> FALSE, err |-> "no",
                 failed |-> unmarked]

Init ==
  /\ setup \in Setup
  /\ proc = "up"
  /\ inMap = [d \in D |-> FALSE]
  /\ closed = [d \in D |-> FALSE]
  /\ str = [d \in D |-> empty]
  /\ log = [d \in D |-> unmarked]
  /\ slot = [n \in Name |-> None]
  /\ hasWorker = FALSE
  /\ cancelled = FALSE
  /\ w = Worker("none")
  /\ user = [u \in User |-> Idle]
  /\ dr = NoDrop
  /\ reg = [k \in DKey |-> {}]
  /\ keys = [n \in Name |-> None]
  /\ disk = [n \in Name |-> empty]
  /\ clean = TRUE
  /\ panic = FALSE
  /\ ops = 0 /\ fails = 0 /\ stops = 0

up     == proc = "up"
runs   == proc \in {"up", "stopping"}
begins == up /\ ops < setup.maxOps /\ ops' = ops + 1
fail(call) == call \in setup.fails /\ fails < setup.maxFails /\ fails' = fails + 1

\* s.mu: a round of the worker has it for reading, the other methods for writing.
muFree == w.step \in {"none", "wait"}

\* dm.Lock(): all but putBackupOperation and destroyDMapOperation take it.  The lock
\* moveDMap has is that of a dmap which is off part.m.
lockFree(d) == /\ \A u \in User : user[u].d = d => d[1] = "backup" /\ user[u].mark = "put"
               /\ dr.d = d => dr.kind # "stale"

-----------------------------------------------------------------------------
(* createDMap and RegisterDMap. *)

startWorker == /\ hasWorker' = TRUE
               /\ UNCHANGED cancelled
               /\ w' = IF hasWorker THEN w ELSE Worker("wait")

\* The operations on an earlier dmap of the name are over.
Create(d) ==
  /\ up /\ ~inMap[d] /\ muFree
  /\ \A u \in User : user[u].d # d
  /\ reg' = [reg EXCEPT ![d[1]] = @ \cup {d[2]}]
  /\ slot' = [slot EXCEPT ![d[2]] = d[1]]
  /\ startWorker
  /\ inMap' = [inMap EXCEPT ![d] = TRUE]
  /\ closed' = [closed EXCEPT ![d] = FALSE]
  /\ str' = [str EXCEPT ![d] = empty]
  /\ log' = [log EXCEPT ![d] = unmarked]
  /\ UNCHANGED <<setup, proc, user, dr, keys, disk, rest, ops, fails>>

-----------------------------------------------------------------------------
(* Puts and deletes: the storage and the log change one after the other.   *)

enter(u, d) == begins /\ user[u] = Idle /\ inMap[d] /\ ~closed[d]

owes(u, step, d, h, mark) == user' = [user EXCEPT ![u] = [step |-> step, d |-> d, h |-> h, mark |-> mark]]

PutStr(u, d, h, v) ==
  /\ enter(u, d) /\ (d[1] = "backup" \/ lockFree(d))
  /\ str' = [str EXCEPT ![d][h] = v]
  /\ owes(u, "log", d, h, "put")
  /\ UNCHANGED <<setup, proc, inMap, closed, log, snap, w, dr, db, rest, fails>>

\* deletePrevOperation, deleteBackupOperation: the storage first.
DeleteStr(u, d, h) ==
  /\ enter(u, d) /\ lockFree(d)
  /\ str' = [str EXCEPT ![d][h] = None]
  /\ owes(u, "log", d, h, "del")
  /\ UNCHANGED <<setup, proc, inMap, closed, log, snap, w, dr, db, rest, fails>>

\* delKeyVal: the log first.
DeleteLog(u, d, h) ==
  /\ enter(u, d) /\ lockFree(d) /\ d[1] = "primary"
  /\ log' = [log EXCEPT ![d][h] = "del"]
  /\ owes(u, "str", d, h, "del")
  /\ UNCHANGED <<setup, proc, inMap, closed, str, snap, w, dr, db, rest, fails>>

\* OpLog.Put and OpLog.Delete
LogOp(u) ==
  /\ runs /\ user[u].step = "log"
  /\ log' = [log EXCEPT ![user[u].d][user[u].h] = user[u].mark]
  /\ user' = [user EXCEPT ![u] = Idle]
  /\ UNCHANGED <<setup, proc, inMap, closed, str, snap, w, dr, db, rest, ops, fails>>

\* Storage.Delete at the end of delKeyVal
StrOp(u) ==
  LET d == user[u].d
  IN  /\ runs /\ user[u].step = "str"
      /\ \/ ~closed[d] /\ str' = [str EXCEPT ![d][user[u].h] = None] /\ UNCHANGED <<proc, panic>>
         \/ closed[d] /\ panic' = TRUE /\ proc' = "down" /\ UNCHANGED str
      /\ user' = [user EXCEPT ![u] = Idle]
      /\ UNCHANGED <<setup, inMap, closed, log, snap, w, dr, db, clean, stops, ops, fails>>

\* mergeDMaps puts a key of a moved dmap into the one that is there, without a mark.
MergePut(d, h, v) ==
  /\ begins /\ inMap[d] /\ ~closed[d] /\ lockFree(d)
  /\ str[d][h] = None
  /\ str' = [str EXCEPT ![d][h] = v]
  /\ UNCHANGED <<setup, proc, inMap, closed, log, snap, w, user, dr, db, rest, fails>>

-----------------------------------------------------------------------------
(* The worker. *)

workerOnly == UNCHANGED <<setup, inMap, closed, str, snap, user, dr, reg, clean, stops, ops>>

logOf(n) == <<slot[n], n>>

\* After the interval, or for the last time when the process stops.
SyncStart ==
  /\ runs /\ w.step = "wait"
  /\ w' = [w EXCEPT !.step = "next", !.left = {n \in Name : slot[n] # None}, !.last = ~up]
  /\ workerOnly /\ UNCHANGED <<proc, log, keys, disk, panic, fails>>

\* "No more data on the partition"
WorkerStops ==
  /\ runs /\ w.step = "wait" /\ cancelled
  /\ w' = Worker("none")
  /\ workerOnly /\ UNCHANGED <<proc, log, keys, disk, panic, fails>>

\* syncDMap: copy the log and clear it.
Take(n) ==
  LET d == logOf(n)
  IN  /\ runs /\ w.step = "next" /\ n \in w.left
      /\ log' = [log EXCEPT ![d] = unmarked]
      /\ w' = IF log[d] = unmarked THEN [w EXCEPT !.left = @ \ {n}]
              ELSE [w EXCEPT !.left = @ \ {n}, !.step = "read", !.name = n, !.copy = log[d]]
      /\ workerOnly /\ UNCHANGED <<proc, keys, disk, panic, fails>>

\* Read the key list; when that fails the copy is gone.
ReadKeys ==
  /\ runs /\ w.step = "read"
  /\ \/ /\ w' = [w EXCEPT !.step = "stage", !.hkeys = IF keys[w.name] = None THEN {} ELSE keys[w.name],
                          !.todo = {h \in HKey : w.copy[h] # "none"}]
        /\ UNCHANGED fails
     \/ /\ fail("view")
        /\ w' = [Worker("next") EXCEPT !.left = w.left, !.last = w.last]
  /\ workerOnly /\ UNCHANGED <<proc, log, keys, disk, panic>>

\* Mutant: a deleted key stays in the key list.
StageKeepsKey(h) ==
  /\ runs /\ w.step = "stage" /\ h \in w.todo
  /\ w' = [w EXCEPT !.todo = @ \ {h}, !.set = @ \cup {h}, !.hkeys = @ \cup {h},
                    !.batch[h] = IF w.copy[h] = "put" THEN str[logOf(w.name)][h] ELSE None]
  /\ workerOnly /\ UNCHANGED <<proc, log, keys, disk, panic, fails>>

puts(h)  == w.copy[h] = "put"
found(h) == str[logOf(w.name)][h]
open     == ~closed[logOf(w.name)]

\* WriteBatch.commit writes the open transaction.
written == [disk EXCEPT ![w.name] = [h \in HKey |-> IF h \in w.set \ w.sent THEN w.batch[h] ELSE @[h]]]

\* A Set or Delete that is too big for the open transaction commits it and begins
\* another one.  An error of the commit comes later, with its callback.
splits(err) ==
  /\ setup.splits /\ w.set # w.sent /\ w.err # "yes"
  /\ \/ disk' = written /\ err = w.err /\ UNCHANGED fails
     \/ fail("commit") /\ err = "late" /\ UNCHANGED disk

\* One that is too big for any transaction sets wb.err, for good.
tooBig == w.err # "yes" /\ fail("big") /\ disk' = written

\* Nothing is committed any more once wb.err is set.
refused == w.err # "no" /\ UNCHANGED <<disk, fails>>

\* A put of a closed storage panics.
StagePanics(h) == puts(h) /\ ~open /\ panic' = TRUE /\ proc' = "down" /\ UNCHANGED <<w, disk, fails>>

\* A put whose key is not in the storage any more is passed over.
StagePasses(h) == /\ puts(h) /\ open /\ found(h) = None
                  /\ w' = [w EXCEPT !.todo = @ \ {h}]
                  /\ UNCHANGED <<proc, disk, panic, fails>>

\* The key is in the batch: in the open transaction, or in a new one.
StageSets(h) ==
  /\ puts(h) => open /\ found(h) # None
  /\ \E err \in {"no", "late", "yes"}, sent \in {w.sent, w.set} :
       /\ \/ sent = w.sent /\ err = w.err /\ UNCHANGED <<disk, fails>>
          \/ sent = w.set /\ splits(err)
       /\ w' = [w EXCEPT !.todo = @ \ {h}, !.set = @ \cup {h}, !.sent = sent, !.err = err,
                         !.batch[h] = IF puts(h) THEN found(h) ELSE None,
                         !.hkeys = IF puts(h) THEN @ \cup {h} ELSE @ \ {h}]
  /\ UNCHANGED <<proc, panic>>

\* The key is not: an invalid entry, one that is too big, or the batch has failed.
StageFails(h) ==
  /\ puts(h) => open /\ found(h) # None
  /\ \/ fail("set") /\ UNCHANGED disk /\ w' = [w EXCEPT !.todo = @ \ {h}, !.failed[h] = w.copy[h]]
     \/ (tooBig \/ (setup.splits /\ refused))
        /\ w' = [w EXCEPT !.todo = @ \ {h}, !.failed[h] = w.copy[h], !.sent = w.set, !.err = "yes"]
  /\ UNCHANGED <<proc, panic>>

\* One key of the copy: into the batch, or into failed.
Stage(h) ==
  /\ runs /\ w.step = "stage" /\ h \in w.todo
  /\ StagePanics(h) \/ StagePasses(h) \/ StageSets(h) \/ StageFails(h)
  /\ workerOnly /\ UNCHANGED <<log, keys>>

\* Set of the key list.  Without it all keys are to be written again.
SetKeys ==
  /\ runs /\ w.step = "stage" /\ w.todo = {}
  /\ \/ /\ w' = [w EXCEPT !.step = "flush", !.list = TRUE]
        /\ UNCHANGED <<disk, fails>>
     \/ \E err \in {"no", "late", "yes"} :
          /\ splits(err)
          /\ w' = [w EXCEPT !.step = "flush", !.list = TRUE, !.sent = w.set, !.err = err]
     \/ /\ fail("keys") /\ UNCHANGED disk
        /\ w' = [w EXCEPT !.step = "flush", !.failed = w.copy]
     \/ /\ tooBig \/ (setup.splits /\ refused)
        /\ w' = [w EXCEPT !.step = "flush", !.failed = w.copy, !.sent = w.set, !.err = "yes"]
  /\ workerOnly /\ UNCHANGED <<proc, log, keys, panic>>

\* Flush commits what is left.  The keys of a transaction that is not written are
\* forgotten.
Flush ==
  /\ runs /\ w.step = "flush"
  /\ \/ /\ w.err # "yes"
        /\ disk' = written
        /\ keys' = IF w.list THEN [keys EXCEPT ![w.name] = w.hkeys] ELSE keys
        /\ UNCHANGED fails
     \/ w.err # "yes" /\ fail("commit") /\ UNCHANGED <<keys, disk>>
     \/ refused /\ UNCHANGED keys
  /\ w' = [w EXCEPT !.step = "readd"]
  /\ workerOnly /\ UNCHANGED <<proc, log, panic>>

\* Mutant: a failed key replaces what was logged since.
ReaddOver ==
  LET d == logOf(w.name)
  IN  /\ runs /\ w.step = "readd"
      /\ log' = [log EXCEPT ![d] = [h \in HKey |-> IF w.failed[h] # "none" THEN w.failed[h] ELSE @[h]]]
      /\ w' = [Worker("next") EXCEPT !.left = w.left, !.last = w.last]
      /\ workerOnly /\ UNCHANGED <<proc, keys, disk, panic, fails>>

\* "Re-add failed hkeys to OpLog for later processing"
Readd ==
  LET d == logOf(w.name)
  IN  /\ runs /\ w.step = "readd"
      /\ log' = [log EXCEPT ![d] = [h \in HKey |-> IF @[h] = "none" THEN w.failed[h] ELSE @[h]]]
      /\ w' = [Worker("next") EXCEPT !.left = w.left, !.last = w.last]
      /\ workerOnly /\ UNCHANGED <<proc, keys, disk, panic, fails>>

\* Mutant: the worker returns after its first round.
SyncEndReturns ==
  /\ runs /\ w.step = "next" /\ w.left = {}
  /\ w' = Worker("none")
  /\ workerOnly /\ UNCHANGED <<proc, log, keys, disk, panic, fails>>

SyncEnd ==
  /\ runs /\ w.step = "next" /\ w.left = {}
  /\ w' = Worker(IF w.last THEN "none" ELSE "wait")
  /\ workerOnly /\ UNCHANGED <<proc, log, keys, disk, panic, fails>>

-----------------------------------------------------------------------------
(* Dropping a dmap: the janitor, Destroy, and moveDMap after the move. *)

goesTo(step) == dr' = [dr EXCEPT !.step = step]

\* A closed storage has no keys and cannot be exported; it may be closed again.
DropStart(kind, d) ==
  /\ begins /\ dr = NoDrop /\ inMap[d]
  /\ kind # "destroy" => lockFree(d)
  /\ kind = "stale" => closed[d] \/ str[d] = empty
  /\ kind = "move" => ~closed[d]
  /\ closed' = [closed EXCEPT ![d] = TRUE]
  /\ inMap' = [inMap EXCEPT ![d] = kind # "move"]
  /\ dr' = [kind |-> kind, d |-> d, hkeys |-> {}, step |-> IF kind = "stale" THEN "unregister" ELSE "view"]
  /\ UNCHANGED <<setup, proc, str, log, snap, w, user, db, rest, fails>>

\* DestroyDMap reads the key list; when there is none that is an error, and the
\* dmap stays as it is.
DestroyView ==
  /\ runs /\ dr.step = "view"
  /\ \/ /\ keys[dr.d[2]] # None
        /\ dr' = [dr EXCEPT !.step = "wipe", !.hkeys = keys[dr.d[2]]]
        /\ UNCHANGED fails
     \/ /\ IF keys[dr.d[2]] = None THEN UNCHANGED fails ELSE fail("view")
        /\ dr' = NoDrop
  /\ UNCHANGED <<setup, proc, mem, snap, w, user, db, rest, ops>>

wipe(hs) == disk' = [disk EXCEPT ![dr.d[2]] = [h \in HKey |-> IF h \in hs THEN None ELSE @[h]]]

\* The values go, in one transaction or in several; the key list stays.
DestroyWipe ==
  /\ runs /\ dr.step = "wipe"
  /\ \/ wipe(dr.hkeys) /\ goesTo("unregister") /\ UNCHANGED fails
     \/ /\ setup.splits
        /\ \E hs \in SUBSET dr.hkeys \ {{}, dr.hkeys} : wipe(hs) /\ dr' = [dr EXCEPT !.hkeys = @ \ hs]
        /\ UNCHANGED fails
     \/ fail("commit") /\ dr' = NoDrop /\ UNCHANGED disk
  /\ UNCHANGED <<setup, proc, mem, snap, w, user, reg, keys, rest, ops>>

\* The dmap is off part.m when its goroutine has come to the end; what is there after
\* a move is another one.
dropped == /\ inMap' = IF dr.kind = "move" THEN inMap ELSE [inMap EXCEPT ![dr.d] = FALSE]
           /\ dr' = NoDrop

\* Mutant: the log stays in s.oplogs.
UnregisterKeepsLog ==
  /\ runs /\ dr.step = "unregister" /\ muFree
  /\ reg' = [reg EXCEPT ![dr.d[1]] = @ \ {dr.d[2]}]
  /\ dropped
  /\ UNCHANGED <<setup, proc, closed, str, log, snap, w, user, keys, disk, rest, ops, fails>>

\* UnregisterDMap: the slot of the name goes, whichever dmap has it, and the worker
\* with the last slot.
Unregister ==
  /\ runs /\ dr.step = "unregister" /\ muFree
  /\ \/ /\ \A n \in Name : slot[n] = None
        /\ dropped
        /\ UNCHANGED <<reg, slot, cancelled, fails>>
     \/ /\ \E n \in Name : slot[n] # None
        /\ reg' = [reg EXCEPT ![dr.d[1]] = @ \ {dr.d[2]}]
        /\ slot' = [slot EXCEPT ![dr.d[2]] = None]
        /\ cancelled' = (cancelled \/ \A n \in Name : slot'[n] = None)
        /\ dropped
        /\ UNCHANGED fails
     \/ /\ \E n \in Name : slot[n] # None
        /\ fail("update")
        /\ dr' = NoDrop
        /\ UNCHANGED <<inMap, reg, slot, cancelled>>
  /\ UNCHANGED <<setup, proc, closed, str, log, hasWorker, w, user, keys, disk, rest, ops>>

-----------------------------------------------------------------------------
(* Shutdown, crash and Start. *)

\* The callers have stopped before Shutdown is called.
Shutdown ==
  /\ up /\ stops < setup.maxStops /\ stops' = stops + 1
  /\ \A u \in User : user[u] = Idle
  /\ proc' = "stopping"
  /\ UNCHANGED <<setup, mem, snap, w, user, dr, db, clean, panic, ops, fails>>

\* Mutant: s.wg.Wait() is missing.
ShutdownNoWait ==
  /\ proc = "stopping"
  /\ proc' = "down" /\ clean' = TRUE
  /\ UNCHANGED <<setup, mem, snap, w, user, dr, db, panic, stops, ops, fails>>

\* s.wg.Wait() and s.db.Close()
ShutdownEnd ==
  /\ proc = "stopping" /\ w.step = "none"
  /\ proc' = "down" /\ clean' = TRUE
  /\ UNCHANGED <<setup, mem, snap, w, user, dr, db, panic, stops, ops, fails>>

Crash ==
  /\ runs /\ stops < setup.maxStops /\ stops' = stops + 1
  /\ proc' = "down" /\ clean' = FALSE
  /\ UNCHANGED <<setup, mem, snap, w, user, dr, db, panic, ops, fails>>

\* Loader.Next finds the key list of the name and all its values.
loads(n) == keys[n] # None /\ \A h \in keys[n] : disk[n][h] # None

\* Start returns the error of the loader.
StartFails ==
  /\ proc = "down" /\ ~panic
  /\ \E k \in DKey : \E n \in reg[k] : ~loads(n)
  /\ proc' = "failed"
  /\ UNCHANGED <<setup, mem, snap, w, user, dr, db, rest, ops, fails>>

\* restoreFromSnapshot for the primary and then for the backup dmaps: each is
\* registered again, with an empty log.
Restart ==
  /\ proc = "down" /\ ~panic
  /\ \A k \in DKey : \A n \in reg[k] : loads(n)
  /\ proc' = "up"
  /\ inMap' = [d \in D |-> d[2] \in reg[d[1]]]
  /\ closed' = [d \in D |-> FALSE]
  /\ str' = [d \in D |-> [h \in HKey |-> IF d[2] \in reg[d[1]] /\ h \in keys[d[2]] THEN disk[d[2]][h] ELSE None]]
  /\ log' = [d \in D |-> unmarked]
  /\ slot' = [n \in Name |-> IF \E k \in DKey : k = "backup" /\ n \in reg[k] THEN "backup"
                             ELSE IF \E k \in DKey : n \in reg[k] THEN "primary" ELSE None]
  /\ hasWorker' = (\E k \in DKey : reg[k] # {})
  /\ cancelled' = FALSE
  /\ w' = Worker(IF hasWorker' THEN "wait" ELSE "none")
  /\ user' = [u \in User |-> Idle]
  /\ dr' = NoDrop
  /\ UNCHANGED <<setup, db, rest, ops, fails>>

-----------------------------------------------------------------------------
WorkerStep == \/ SyncStart \/ WorkerStops \/ ReadKeys \/ SetKeys \/ Flush \/ Readd \/ SyncEnd
              \/ \E n \in Name : Take(n)
              \/ \E h \in HKey : Stage(h)

UserStep(u) == LogOp(u) \/ StrOp(u)

DropStep == DestroyView \/ DestroyWipe \/ Unregister

Next == \/ \E d \in setup.dkeys \X Name :
             \/ Create(d)
             \/ \E u \in User, h \in setup.hkeys : \/ \E v \in Val : PutStr(u, d, h, v)
                                                  \/ DeleteStr(u, d, h)
                                                  \/ DeleteLog(u, d, h)
             \/ setup.merges /\ \E h \in setup.hkeys, v \in Val : MergePut(d, h, v)
             \/ \E kind \in setup.drops : DropStart(kind, d)
        \/ \E u \in User : UserStep(u)
        \/ WorkerStep
        \/ DropStep
        \/ Shutdown \/ ShutdownEnd \/ Crash \/ StartFails \/ Restart

Spec == Init /\ [][Next]_vars

\* The worker and the operations go on when they can.
FairSpec == Spec /\ WF_vars(WorkerStep) /\ \A u \in User : WF_vars(UserStep(u))

-----------------------------------------------------------------------------
(* Properties that hold. *)

WorkerState == [step : {"none", "wait", "next", "read", "stage", "flush", "readd"}, left : SUBSET Name,
                last : BOOLEAN, name : Name \cup {None}, copy : [HKey -> Marks], todo : SUBSET HKey,
                hkeys : SUBSET HKey, batch : [HKey -> Entry], set : SUBSET HKey, sent : SUBSET HKey,
                list : BOOLEAN, err : {"no", "late", "yes"}, failed : [HKey -> Marks]]

DropState == [kind : {"none", "stale", "destroy", "move"}, step : {"none", "view", "wipe", "unregister"},
              d : D \cup {None}, hkeys : SUBSET HKey]

TypeOK ==
  /\ setup \in Setup
  /\ proc \in {"up", "stopping", "down", "failed"}
  /\ inMap \in [D -> BOOLEAN] /\ closed \in [D -> BOOLEAN]
  /\ str \in [D -> [HKey -> Entry]] /\ log \in [D -> [HKey -> Marks]]
  /\ slot \in [Name -> DKey \cup {None}] /\ hasWorker \in BOOLEAN /\ cancelled \in BOOLEAN
  /\ w \in WorkerState
  /\ user \in [User -> [step : {"none", "log", "str"}, d : D \cup {None}, h : HKey \cup {None}, mark : Marks]]
  /\ dr \in DropState
  /\ reg \in [DKey -> SUBSET Name] /\ keys \in [Name -> {None} \cup SUBSET HKey]
  /\ disk \in [Name -> [HKey -> Entry]]
  /\ clean \in BOOLEAN /\ panic \in BOOLEAN
  /\ ops \in Nat /\ fails \in Nat /\ stops \in Nat

\* All but LoggedIsRegistered hold only as long as no dmap is dropped or merged, there
\* is no backup dmap, and no call of Badger fails but the Set of an invalid entry.
steady == /\ setup.drops = {} /\ ~setup.merges /\ setup.dkeys = {"primary"}
          /\ setup.fails \subseteq {"set"}

listed(n) == IF keys[n] = None THEN {} ELSE keys[n]

\* The loader will find in Badger what the storage of d has of h.  A value that is not
\* in the key list is not looked for.
saved(d, h) == /\ h \in listed(d[2]) <=> str[d][h] # None
               /\ h \in listed(d[2]) => disk[d[2]][h] = str[d][h]

inWork(d, h) == w.step \in {"read", "stage", "flush", "readd"} /\ logOf(w.name) = d
                /\ (IF w.step = "readd" THEN w.failed[h] # "none" ELSE w.copy[h] # "none")

\* snapshot.go:262, "Failed keys will be processed again by the next call": a key
\* that differs from its value in Badger is marked, or an operation or the worker
\* is about to deal with it.
NothingForgotten ==
  steady => \A d \in D, h \in HKey :
    (up /\ inMap[d] /\ ~closed[d] /\ log[d][h] = "none" /\ ~inWork(d, h)
     /\ \A u \in User : ~(user[u].d = d /\ user[u].h = h))
    => saved(d, h)

\* The value of h was deleted in an early transaction of a batch that is not flushed:
\* the key list of Badger, which comes with the last one, has h still.
torn(n, h) == /\ w.step \in {"stage", "flush"} /\ w.name = n
              /\ w.copy[h] = "del" /\ h \in w.sent

\* Whenever the process ends, each key in the list of a registered name has a value,
\* so that the loader finds all it looks for (loader.go, Next).  The exception is a
\* crash inside a batch that was too big for one transaction, and a key it deletes.
ListHasValues ==
  steady /\ proc = "down" => \A k \in DKey : \A n \in reg[k] : \A h \in listed(n) :
                               disk[n][h] # None \/ (torn(n, h) /\ ~clean)

\* config.go:57-58, "The in-memory data is durable at that mode": after Shutdown
\* Badger has what the dmaps had, if no call of Badger failed.
Durable ==
  (proc = "down" /\ clean /\ stops > 0 /\ fails = 0 /\ ~panic)
    => \A d \in D, h \in HKey : inMap[d] => saved(d, h)

\* Shutdown waits for the last round of the worker, which writes every mark: as long
\* as no dmap was dropped all is saved.
ShutdownSaves == steady => Durable

\* A log the worker synchronizes belongs to a dmap that Start will load.
LoggedIsRegistered == \A n \in Name : slot[n] # None => n \in reg[slot[n]]

\* A mark does not stay for ever: the worker gets to every key.
MarksGo == steady => \A d \in D, h \in HKey :
             (up /\ log[d][h] # "none") ~> (~up \/ closed[d] \/ log[d][h] = "none")

-----------------------------------------------------------------------------
(* Properties the documentation states and the code does not have. *)

\* config.go:57-58, "The in-memory data is durable at that mode": after Shutdown
\* Badger has a value for each key that has one in a primary or a backup dmap.
NoValueLost ==
  (proc = "down" /\ clean /\ stops > 0 /\ fails = 0 /\ ~panic)
    => \A d \in D, h \in HKey : inMap[d] /\ str[d][h] # None => disk[d[2]][h] # None

\* olric.go:310, "Start starts background servers and joins the cluster": it does
\* not fail on what an orderly Shutdown has left in Badger.
StartSucceeds == proc = "failed" => ~clean

\* storage.go:97-98, "closing an storage instance or Olric's itself, doesn't mean
\* closing the process": the keys the worker has still to read are in an open storage,
\* a method of a closed one panics.
NoClosedReads ==
  w.step = "stage" => \A h \in w.todo : w.copy[h] = "put" => ~closed[logOf(w.name)]
=============================================================================
