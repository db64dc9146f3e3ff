-------------------------------- MODULE DMap ---------------------------------
(***************************************************************************)
(* The operations on one key of one DMap of one partition: dmap_put.go,    *)
(* dmap_get.go, dmap_delete.go, dmap_destroy.go and dmap_eviction.go, with *)
(* the parts of olric.go they use.                                         *)
(*                                                                         *)
(* A thread executes one operation.  It runs at the node whose code is     *)
(* executed, and while it waits for the answer to a request it also stands *)
(* for the handler at the other node, since the caller does nothing else   *)
(* meanwhile.  A dmap is an object: a thread may have a pointer to one     *)
(* that is no longer in the partition's map.  The storage of a dmap is     *)
(* what the documentation of storage.go promises, a value or none.         *)
(***************************************************************************)
EXTENDS Integers, Sequences, FiniteSets, SequencesExt

CONSTANTS Node,      \* members of clusters
          Thread,    \* operations
          None,      \* no node, object, thread or value
          Old,       \* the value the owners may have at first
          Setup,     \* clusters, their configurations and the operations called
          MaxGen     \* bound: dmap objects a partition creates one after the other

Kinds == {"put", "get", "delete", "evict", "stale", "destroy", "none"}

\* A put writes the value that bears its name.
Value == Thread \cup {Old}
Entry == Value \cup {None}

Part == {"primary", "backup"}

\* A dmap object: the node and partition that made it, and how many before it.
Obj == Node \X Part \X (1 .. MaxGen)

ASSUME NoneFresh  == None \notin Node \cup Thread \cup Obj \cup {Old}
ASSUME SetupType  == \A s \in Setup :
         /\ s.members \subseteq Node /\ s.kind \in [Thread -> Kinds]
         /\ s.owners \in Seq(s.members) /\ s.owners # <<>> /\ s.backups \in Seq(s.members)
         /\ s.has \subseteq Range(s.owners) /\ s.copies \subseteq Range(s.backups)
         /\ s.copies # {} => Last(s.owners) \in s.has
         /\ s.backupCount \in Nat /\ s.async \in BOOLEAN /\ s.snapshot \in BOOLEAN
         /\ s.ttl \subseteq Value /\ s.losses \in Nat
ASSUME BoundsType == MaxGen \in Nat

VARIABLES setup,     \* which of the setups this is
          owners,    \* part.owners at each node
          backups,   \* bpart.owners at each node
          m,         \* part.m: the dmap object in the map, or None
          count,     \* part.count
          plock,     \* part.Lock as createDMap has it
          obj,       \* the dmap objects: storage, mutex, oplog
          gen,       \* number of objects each partition has made
          pc, at,    \* what a thread does and the node it runs at
          own,       \* dm in putKeyVal, getKeyVal, deleteKey
          todo,      \* requests it has still to send
          call,      \* the request it waits for
          good, bad, \* answers so far: successes, failures
          res,       \* what the operation returned
          bg,        \* backups still to be written by asynchronous goroutines
          expired,   \* values whose timeout has passed
          down,      \* nodes whose process ended with a panic
          lost,      \* number of requests that failed
          latest,    \* the value written last at a primary owner
          before     \* what had been written and had expired when a get or a destroy started

routeVars  == <<setup, owners, backups>>
mapVars    == <<m, count, plock>>
objVars    == <<obj, gen>>
threadVars == <<pc, at, own, todo, call, good, bad, res>>
restVars   == <<bg, expired, down, lost, latest, before>>
vars       == <<routeVars, mapVars, objVars, threadVars, restVars>>

Member      == setup.members      \* members of the cluster
Owners0     == setup.owners       \* the partition owners list, the primary owner last
Backups0    == setup.backups      \* the backup owners list
Kind        == setup.kind         \* what each thread does
BackupCount == setup.backupCount  \* config.BackupCount
Async       == setup.async        \* config.BackupMode = AsyncBackupMode
Snapshot    == setup.snapshot     \* config.OperationMode = OpInMemoryWithSnapshot
Ttl         == setup.ttl          \* values put with a timeout
MaxLoss     == setup.losses       \* bound: number of requests that fail

-----------------------------------------------------------------------------
(* Requests. *)

NoCall == [op |-> "none", to |-> None, step |-> "none", dm |-> None]

Request(op, to) == [op |-> op, to |-> to, step |-> "load", dm |-> None]

Requests(op, nodes) == [i \in 1 .. Len(nodes) |-> Request(op, nodes[i])]

\* The partition table the handler of an operation looks at.
PartOf(op) == IF op \in {"PutBackup", "DeleteBackup", "GetBackup", "DestroyBackup", "StaleBackup"}
              THEN "backup" ELSE "primary"

\* Mutant: the slice keeps the primary owner.
PrevOwnersAll(n) == Reverse(owners[n])

\* The previous owners, the last one first.
PrevOwners(n) == Reverse(Front(owners[n]))

\* Mutant: one backup less than the cluster can have.
calcMaxBackupCountLow(bc, memCount) == IF memCount - 2 < bc THEN memCount - 2 ELSE bc

\* routing.go, with maxBackupCount = 3
calcMaxBackupCount(bc, memCount) ==
  LET b == IF bc > 3 THEN 3 ELSE bc IN IF memCount - 1 < b THEN memCount - 1 ELSE b

\* The backup owners a put writes to.
PutTargets(n) ==
  LET b == calcMaxBackupCount(BackupCount, Cardinality(Member \ down))
      s == backups[n]
  IN  IF Len(s) > b THEN SubSeq(s, Len(s) - b + 1, Len(s)) ELSE s

-----------------------------------------------------------------------------
NewObj(v, oplog) == [val |-> v, closed |-> FALSE, mutex |-> None, oplog |-> oplog]

\* The owners that have the dmap may have the key, and the backups have it when
\* the primary owner has it.
Init ==
  /\ setup \in Setup
  /\ owners = [n \in Node |-> Owners0]
  /\ backups = [n \in Node |-> Backups0]
  /\ gen = [n \in Node |-> [primary |-> IF n \in setup.has THEN 1 ELSE 0,
                           backup  |-> IF n \in setup.copies THEN 1 ELSE 0]]
  /\ m = [n \in Node |-> [k \in Part |-> IF gen[n][k] = 1 THEN <<n, k, 1>> ELSE None]]
  /\ count = gen
  /\ \E v \in [setup.has -> {None, Old}] :
       obj = [o \in Obj |-> NewObj(IF o[3] > gen[o[1]][o[2]] THEN None
                                  ELSE v[IF o[2] = "primary" THEN o[1] ELSE Last(Owners0)], Snapshot)]
  /\ plock = [n \in Node |-> [k \in Part |-> None]]
  /\ pc = [t \in Thread |-> "idle"]
  /\ at = [t \in Thread |-> None]
  /\ own = [t \in Thread |-> None]
  /\ todo = [t \in Thread |-> <<>>]
  /\ call = [t \in Thread |-> NoCall]
  /\ good = [t \in Thread |-> 0]
  /\ bad = [t \in Thread |-> 0]
  /\ res = [t \in Thread |-> "none"]
  /\ bg = {}
  /\ expired = {}
  /\ down = {}
  /\ lost = 0
  /\ latest = IF \E o \in Obj : obj[o].val = Old THEN Old ELSE None
  /\ before = [t \in Thread |-> [val |-> None, done |-> {}, gone |-> {}]]

-----------------------------------------------------------------------------
(* Ends of an operation and of a request. *)

writer(t) == Kind[t] \in {"put", "delete", "evict"}
acked(t)  == pc[t] = "done" /\ res[t] = "ok"
live(t)   == at[t] \notin down

\* Mutant: no defer.
releaseNever(t, f) == f

\* defer dm.Unlock()
release(t, f) == IF own[t] = None THEN f ELSE [f EXCEPT ![own[t]].mutex = IF @ = t THEN None ELSE @]

\* The operation returns r, with f the objects it leaves.
Return(t, r, f) ==
  /\ pc' = [pc EXCEPT ![t] = "done"]
  /\ res' = [res EXCEPT ![t] = r]
  /\ obj' = release(t, f)
  /\ at' = [at EXCEPT ![t] = None]
  /\ own' = [own EXCEPT ![t] = None]
  /\ todo' = [todo EXCEPT ![t] = <<>>]
  /\ call' = [call EXCEPT ![t] = NoCall]
  /\ good' = [good EXCEPT ![t] = 0]
  /\ bad' = [bad EXCEPT ![t] = 0]

\* An answer after which the operation returns at once.
stops(t, r) == \/ Kind[t] = "get" /\ r # "notfound"
               \/ Kind[t] \in {"delete", "evict"} /\ pc[t] = "prevs" /\ r = "err"

\* The answer r to a request of t, with rest the requests that are left.
Answer(t, r, f, rest) ==
  \/ /\ stops(t, r)
     /\ Return(t, r, f)
  \/ /\ ~stops(t, r)
     /\ call' = [call EXCEPT ![t] = NoCall]
     /\ todo' = [todo EXCEPT ![t] = rest]
     /\ good' = [good EXCEPT ![t] = IF r = "err" THEN @ ELSE @ + 1]
     /\ bad' = [bad EXCEPT ![t] = IF r = "err" THEN @ + 1 ELSE @]
     /\ obj' = f
     /\ UNCHANGED <<pc, at, own, res>>

\* panic: the process of node n ends, and with it every thread that runs there.
Panic(n) ==
  /\ down' = down \cup {n}
  /\ UNCHANGED <<routeVars, mapVars, objVars, threadVars, bg, expired, lost, latest, before>>

Abandon(t) ==
  /\ pc[t] \notin {"idle", "done"} /\ ~live(t)
  /\ Return(t, "err", obj)
  /\ UNCHANGED <<routeVars, mapVars, gen, restVars>>

-----------------------------------------------------------------------------
(* A call of getDMap, getBackupDMap or of the map of the partition, at this *)
(* node or in the handler of a request.                                     *)

\* Handlers and loops that do nothing when the map has no dmap.
loadOnly == {"GetPrev", "Scan", "StalePrimary", "StaleBackup", "DestroyPrimary", "DestroyBackup"}

\* The dmap is in the map, or createDMap starts: it takes part.Lock() and looks
\* again.
getDMap(t, r) ==
  LET n == r.to  k == PartOf(r.op)
  IN  /\ n \notin down
      /\ \/ /\ m[n][k] # None
            /\ call' = [call EXCEPT ![t] = [r EXCEPT !.step = "run", !.dm = m[n][k]]]
            /\ UNCHANGED plock
         \/ /\ m[n][k] = None /\ r.op \notin loadOnly
            /\ plock[n][k] = None
            /\ plock' = [plock EXCEPT ![n][k] = t]
            /\ call' = [call EXCEPT ![t] = [r EXCEPT !.step = "create"]]

atCall(t, step) == call[t].step = step /\ call[t].to \notin down /\ live(t)

\* createDMap makes the dmap and stores it in the map.
Create(t) ==
  LET n == call[t].to  k == PartOf(call[t].op)  o == <<n, k, gen[n][k] + 1>>
  IN  /\ atCall(t, "create")
      /\ o \in Obj
      /\ gen' = [gen EXCEPT ![n][k] = @ + 1]
      /\ obj' = [obj EXCEPT ![o] = NewObj(None, Snapshot)]
      /\ m' = [m EXCEPT ![n][k] = o]
      /\ count' = [count EXCEPT ![n][k] = @ + 1]
      /\ plock' = [plock EXCEPT ![n][k] = None]
      /\ call' = [call EXCEPT ![t].step = "run", ![t].dm = o]
      /\ UNCHANGED <<routeVars, pc, at, own, todo, good, bad, res, restVars>>

-----------------------------------------------------------------------------
(* Starting an operation, and finding the primary owner. *)

\* Mutant: the backups are forgotten.
destroyPrimaries == Requests("DestroyPrimary", SetToSeq(Member))

\* The requests of destroyDMap, and what deleteStaleDMaps goes through.
destroyCalls == Requests("DestroyPrimary", SetToSeq(Member))
                \o IF BackupCount # 0 THEN Requests("DestroyBackup", SetToSeq(Member)) ELSE <<>>
staleCalls(n) == <<Request("StalePrimary", n), Request("StaleBackup", n)>>

Start(t, n) ==
  /\ pc[t] = "idle" /\ n \in Member \ down
  /\ at' = [at EXCEPT ![t] = n]
  /\ before' = IF writer(t) THEN before
               ELSE [before EXCEPT ![t] = [val |-> latest, gone |-> expired,
                        done |-> {w \in Thread : writer(w) /\ acked(w) /\ (Kind[t] = "destroy" => \A e \in bg : e[1] # w)}]]
  /\ \/ /\ Kind[t] \in {"put", "get", "delete"}
        /\ pc' = [pc EXCEPT ![t] = "locate"]
        /\ UNCHANGED <<call, todo, plock>>
     \/ /\ Kind[t] = "evict"
        /\ pc' = [pc EXCEPT ![t] = "own"]
        /\ getDMap(t, Request("Scan", n))
        /\ UNCHANGED todo
     \/ /\ Kind[t] \in {"stale", "destroy"}
        /\ pc' = [pc EXCEPT ![t] = "calls"]
        /\ todo' = [todo EXCEPT ![t] = IF Kind[t] = "stale" THEN staleCalls(n) ELSE destroyCalls]
        /\ UNCHANGED <<call, plock>>
  /\ UNCHANGED <<routeVars, m, count, objVars, own, good, bad, res, bg, expired, down, lost, latest>>

\* Mutant: a get does not ask who the owner is.
LocateHere(t) ==
  LET owner == IF Kind[t] = "get" THEN at[t] ELSE Last(owners[at[t]])
  IN  /\ pc[t] = "locate" /\ live(t)
      /\ \/ /\ owner = at[t]
            /\ pc' = [pc EXCEPT ![t] = "own"]
            /\ getDMap(t, Request("Own", owner))
            /\ UNCHANGED at
         \/ /\ owner # at[t]
            /\ at' = [at EXCEPT ![t] = owner]
            /\ UNCHANGED <<plock, pc, call>>
      /\ UNCHANGED <<routeVars, m, count, objVars, own, todo, good, bad, res, restVars>>

\* put, get, deleteKey: the operation runs here when this node is the primary
\* owner, and is sent to that node otherwise, which locates the key again.
Locate(t) ==
  LET owner == Last(owners[at[t]])
  IN  /\ pc[t] = "locate" /\ live(t)
      /\ \/ /\ owner = at[t]
            /\ pc' = [pc EXCEPT ![t] = "own"]
            /\ getDMap(t, Request("Own", owner))
            /\ UNCHANGED <<obj, at, own, todo, good, bad, res, lost>>
         \/ /\ owner # at[t] /\ owner \notin down
            /\ at' = [at EXCEPT ![t] = owner]
            /\ UNCHANGED <<obj, plock, pc, own, todo, call, good, bad, res, lost>>
         \/ /\ owner # at[t] /\ (owner \in down \/ lost < MaxLoss)
            /\ Return(t, "err", obj)
            /\ lost' = IF owner \in down THEN lost ELSE lost + 1
            /\ UNCHANGED plock
      /\ UNCHANGED <<routeVars, m, count, gen, bg, expired, down, latest, before>>

-----------------------------------------------------------------------------
(* Sending a list of requests: one after the other to the previous owners, *)
(* and in goroutines of an errgroup to the backups and to the members.     *)

sending(t) == pc[t] \in {"prevs", "backups", "calls"} /\ call[t] = NoCall /\ live(t)

parallel(t) == Kind[t] = "destroy" \/ (pc[t] = "backups" /\ Kind[t] # "get")

next(t, i) == /\ sending(t) /\ i \in 1 .. Len(todo[t])
              /\ IF parallel(t) THEN \A j \in 1 .. i - 1 : todo[t][j].to # todo[t][i].to ELSE i = 1

\* The two halves of destroyDMapOperation serve one request.
rest(t, i) == IF Kind[t] = "destroy" THEN SelectSeq(todo[t], LAMBDA r : r.to # todo[t][i].to)
              ELSE RemoveAt(todo[t], i)

\* The answer r to a request arrives, or is lost.
Reply(t, op, r, f, left) ==
  \/ Answer(t, r, f, left) /\ UNCHANGED lost
  \/ /\ lost < MaxLoss /\ lost' = lost + 1
     /\ Kind[t] # "stale" /\ (op = "DestroyPrimary" => BackupCount = 0)
     /\ Answer(t, "err", f, left)

\* The request arrives and its handler gets the dmap, or finds none.
Send(t, i) ==
  LET r == todo[t][i]  left == RemoveAt(todo[t], i)
  IN  /\ next(t, i)
      /\ \/ /\ getDMap(t, r)
            /\ todo' = [todo EXCEPT ![t] = left]
            /\ UNCHANGED <<obj, pc, at, own, good, bad, res, lost>>
         \/ /\ r.op \in loadOnly /\ r.to \notin down /\ m[r.to][PartOf(r.op)] = None
            /\ Reply(t, r.op, IF r.op = "GetPrev" THEN "notfound" ELSE "ok", obj, left)
            /\ UNCHANGED plock
      /\ UNCHANGED <<routeVars, m, count, gen, bg, expired, down, latest, before>>

\* It does not arrive.
SendFails(t, i) ==
  /\ next(t, i) /\ Kind[t] # "stale"
  /\ \/ todo[t][i].to \in down /\ UNCHANGED lost
     \/ /\ todo[t][i].to \notin down /\ todo[t][i].op # "DestroyBackup"
        /\ lost < MaxLoss /\ lost' = lost + 1
  /\ Answer(t, "err", obj, rest(t, i))
  /\ UNCHANGED <<routeVars, mapVars, gen, bg, expired, down, latest, before>>

\* The node goes down while t waits for the answer.
CallFails(t) ==
  /\ call[t].to \in down /\ live(t)
  /\ Answer(t, "err", obj, SelectSeq(todo[t], LAMBDA r : r.to # call[t].to))
  /\ UNCHANGED <<routeVars, mapVars, gen, restVars>>

\* The handler answers r.
handled(t, r, f) ==
  /\ Reply(t, call[t].op, r, f, todo[t])
  /\ UNCHANGED <<routeVars, gen, bg, expired, down, latest, before>>

-----------------------------------------------------------------------------
(* The handlers.  Every method of a closed storage panics, and so does an   *)
(* entry in an operation log that is not there.                             *)

handles(t, ops) == atCall(t, "run") /\ call[t].op \in ops

theObj(t) == obj[call[t].dm]

usable(o) == ~o.closed /\ (Snapshot => o.oplog)

HandlerPanics(t) ==
  /\ \/ handles(t, {"PutBackup"}) /\ ~usable(theObj(t))
     \/ handles(t, {"DeletePrev", "DeleteBackup"}) /\ ~usable(theObj(t)) /\ theObj(t).mutex = None
     \/ handles(t, {"GetPrev", "GetBackup"}) /\ theObj(t).closed
  /\ Panic(call[t].to)

\* putBackupOperation does not lock the dmap.
PutBackup(t) ==
  /\ handles(t, {"PutBackup"}) /\ usable(theObj(t))
  /\ handled(t, "ok", [obj EXCEPT ![call[t].dm].val = t])
  /\ UNCHANGED mapVars

\* deletePrevOperation and deleteBackupOperation: lock, delete, unlock.
DeleteCopy(t) ==
  /\ handles(t, {"DeletePrev", "DeleteBackup"}) /\ usable(theObj(t))
  /\ theObj(t).mutex = None
  /\ handled(t, "ok", [obj EXCEPT ![call[t].dm].val = None])
  /\ UNCHANGED mapVars

\* getPrevOperation and getBackupOperation.  The timeout does not reach the
\* backups: protocol.go does not decode the extras of OpPutBackup.
GetCopy(t) ==
  LET v == theObj(t).val
  IN  /\ handles(t, {"GetPrev", "GetBackup"}) /\ ~theObj(t).closed
      /\ handled(t, IF v = None \/ (call[t].op = "GetPrev" /\ v \in expired) THEN "notfound" ELSE v, obj)
      /\ UNCHANGED mapVars

\* destroyDMapOperation: close the storage, then take the dmap off the map.
\* Neither step locks the dmap, and the counter stays.  Close waits while a scan
\* is in Range of the storage.
DestroyClose(t) ==
  /\ handles(t, {"DestroyPrimary", "DestroyBackup"})
  /\ \A u \in Thread : Kind[u] = "evict" => own[u] # call[t].dm
  /\ obj' = [obj EXCEPT ![call[t].dm].closed = TRUE]
  /\ call' = [call EXCEPT ![t].step = "drop"]
  /\ UNCHANGED <<routeVars, mapVars, gen, pc, at, own, todo, good, bad, res, restVars>>

DestroyDrop(t) ==
  /\ atCall(t, "drop") /\ Kind[t] = "destroy"
  /\ m' = [m EXCEPT ![call[t].to][PartOf(call[t].op)] = None]
  /\ handled(t, "ok", obj)
  /\ UNCHANGED <<count, plock>>

\* Mutant: a dmap that has keys is dropped, too.
StaleCheckAny(t) ==
  /\ handles(t, {"StalePrimary", "StaleBackup"})
  /\ theObj(t).mutex = None
  /\ obj' = [obj EXCEPT ![call[t].dm].mutex = t]
  /\ own' = [own EXCEPT ![t] = call[t].dm]
  /\ call' = [call EXCEPT ![t].step = "drop"]
  /\ UNCHANGED <<routeVars, mapVars, gen, pc, at, todo, good, bad, res, restVars>>

\* deleteStaleDMaps: with the dmap locked, look whether it is empty; then close
\* it and take it off the map.
StaleCheck(t) ==
  LET empty == theObj(t).closed \/ theObj(t).val = None
  IN  /\ handles(t, {"StalePrimary", "StaleBackup"})
      /\ theObj(t).mutex = None
      /\ \/ /\ ~empty /\ Answer(t, "ok", obj, todo[t])
         \/ /\ empty
            /\ obj' = [obj EXCEPT ![call[t].dm].mutex = t]
            /\ own' = [own EXCEPT ![t] = call[t].dm]
            /\ call' = [call EXCEPT ![t].step = "drop"]
            /\ UNCHANGED <<pc, at, todo, good, bad, res>>
      /\ UNCHANGED <<routeVars, mapVars, gen, restVars>>

\* Mutant: part.count stays.
StaleDropUncounted(t) ==
  /\ atCall(t, "drop") /\ Kind[t] = "stale"
  /\ obj' = [obj EXCEPT ![own[t]].closed = TRUE, ![own[t]].mutex = None]
  /\ own' = [own EXCEPT ![t] = None]
  /\ call' = [call EXCEPT ![t] = NoCall]
  /\ m' = [m EXCEPT ![call[t].to][PartOf(call[t].op)] = None]
  /\ UNCHANGED <<routeVars, count, plock, gen, pc, at, todo, good, bad, res, restVars>>

StaleDrop(t) ==
  LET n == call[t].to  k == PartOf(call[t].op)
  IN  /\ atCall(t, "drop") /\ Kind[t] = "stale"
      /\ obj' = [obj EXCEPT ![own[t]].closed = TRUE, ![own[t]].mutex = None]
      /\ own' = [own EXCEPT ![t] = None]
      /\ call' = [call EXCEPT ![t] = NoCall]
      /\ m' = [m EXCEPT ![n][k] = None]
      /\ count' = [count EXCEPT ![n][k] = @ - 1]
      /\ UNCHANGED <<routeVars, plock, gen, pc, at, todo, good, bad, res, restVars>>

-----------------------------------------------------------------------------
(* At the primary owner: putKeyVal, deleteKey, delKeyVal, getKeyVal and    *)
(* scanDMapForEviction.                                                    *)

\* dm.Lock(), and the first list of requests.
lock(t, stage, requests) ==
  /\ theObj(t).mutex = None
  /\ obj' = [obj EXCEPT ![call[t].dm].mutex = t]
  /\ own' = [own EXCEPT ![t] = call[t].dm]
  /\ call' = [call EXCEPT ![t] = NoCall]
  /\ pc' = [pc EXCEPT ![t] = stage]
  /\ todo' = [todo EXCEPT ![t] = requests]
  /\ UNCHANGED <<routeVars, mapVars, gen, at, good, bad, res, expired, down, lost, latest, before>>

\* The backups are written before the primary copy, or in a goroutine.
LockPut(t) ==
  /\ handles(t, {"Own"}) /\ Kind[t] = "put"
  /\ lock(t, "backups", IF BackupCount = 0 \/ Async THEN <<>> ELSE Requests("PutBackup", PutTargets(at[t])))
  /\ bg' = IF Async /\ BackupCount # 0 THEN bg \cup {<<t, at[t], None>>} ELSE bg

\* The copies on the previous owners go first.
LockDelete(t) ==
  /\ \/ handles(t, {"Own"}) /\ Kind[t] = "delete"
     \/ handles(t, {"Scan"}) /\ ~theObj(t).closed /\ theObj(t).val \in expired
  /\ lock(t, "prevs", Requests("DeletePrev", PrevOwners(at[t])))
  /\ UNCHANGED bg

\* The scan finds nothing to evict.
ScanNothing(t) ==
  /\ handles(t, {"Scan"}) /\ ~theObj(t).closed /\ theObj(t).val \notin expired
  /\ theObj(t).mutex = None
  /\ Return(t, "ok", obj)
  /\ UNCHANGED <<routeVars, mapVars, gen, restVars>>

\* Mutant: isKeyExpired is not called.
GetOwnUnchecked(t) ==
  LET v == theObj(t).val
  IN  /\ handles(t, {"Own"}) /\ Kind[t] = "get" /\ ~theObj(t).closed /\ v # None
      /\ Return(t, v, obj)
      /\ UNCHANGED <<routeVars, mapVars, gen, restVars>>

\* getKeyVal does not lock the dmap.  An expired key is not looked for on the
\* other owners.
GetOwn(t) ==
  LET v == theObj(t).val
  IN  /\ handles(t, {"Own"}) /\ Kind[t] = "get" /\ ~theObj(t).closed
      /\ \/ /\ v # None
            /\ Return(t, IF v \in expired THEN "notfound" ELSE v, obj)
         \/ /\ v = None
            /\ call' = [call EXCEPT ![t] = NoCall]
            /\ pc' = [pc EXCEPT ![t] = "prevs"]
            /\ todo' = [todo EXCEPT ![t] = Requests("GetPrev", PrevOwners(at[t]))]
            /\ UNCHANGED <<obj, at, own, good, bad, res>>
      /\ UNCHANGED <<routeVars, mapVars, gen, restVars>>

OwnPanics(t) ==
  /\ \/ handles(t, {"Own"}) /\ Kind[t] = "get" /\ theObj(t).closed
     \/ handles(t, {"Scan"}) /\ theObj(t).closed /\ theObj(t).mutex = None
     \/ pc[t] = "store" /\ live(t) /\ ~usable(obj[own[t]])
  /\ Panic(at[t])

\* All requests of a list are answered.
answered(t, stage) == sending(t) /\ todo[t] = <<>> /\ pc[t] = stage

\* Mutant: failed backups are ignored.
backupOKAlways(t) == TRUE

\* putKeyValBackup needs one backup; deleteKeyValBackup needs all.
backupOK(t) == bad[t] = 0 \/ (Kind[t] = "put" /\ good[t] > 0)

BackupsDone(t) ==
  /\ answered(t, "backups")
  /\ \/ Kind[t] = "get" /\ Return(t, "notfound", obj)
     \/ Kind[t] # "get" /\ ~backupOK(t) /\ Return(t, "err", obj)
     \/ /\ Kind[t] # "get" /\ backupOK(t)
        /\ pc' = [pc EXCEPT ![t] = "store"]
        /\ UNCHANGED <<obj, at, own, todo, call, good, bad, res>>
  /\ UNCHANGED <<routeVars, mapVars, gen, restVars>>

\* A put ends with the previous owners; the others go on to the backups.
PrevsDone(t) ==
  /\ answered(t, "prevs")
  /\ \/ Kind[t] = "put" /\ Return(t, "ok", obj)
     \/ /\ Kind[t] # "put"
        /\ pc' = [pc EXCEPT ![t] = "backups"]
        /\ todo' = [todo EXCEPT ![t] = CASE Kind[t] = "get"  -> Requests("GetBackup", backups[at[t]])
                                         [] BackupCount = 0 -> <<>>
                                         [] OTHER           -> Requests("DeleteBackup", backups[at[t]])]
        /\ good' = [good EXCEPT ![t] = 0] /\ bad' = [bad EXCEPT ![t] = 0]
        /\ UNCHANGED <<obj, at, own, call, res>>
  /\ UNCHANGED <<routeVars, mapVars, gen, restVars>>

CallsDone(t) ==
  /\ answered(t, "calls")
  /\ Return(t, IF bad[t] = 0 THEN "ok" ELSE "err", obj)
  /\ UNCHANGED <<routeVars, mapVars, gen, restVars>>

\* Mutant: no purgeOldVersions.
StoreNoPurge(t) ==
  /\ pc[t] = "store" /\ live(t) /\ usable(obj[own[t]]) /\ Kind[t] = "put"
  /\ Return(t, "ok", [obj EXCEPT ![own[t]].val = t])
  /\ latest' = t
  /\ UNCHANGED <<routeVars, mapVars, gen, bg, expired, down, lost, before>>

\* dm.str.Put and purgeOldVersions, or dm.str.Delete.
Store(t) ==
  /\ pc[t] = "store" /\ live(t) /\ usable(obj[own[t]])
  /\ \/ /\ Kind[t] = "put"
        /\ obj' = [obj EXCEPT ![own[t]].val = t]
        /\ pc' = [pc EXCEPT ![t] = "prevs"]
        /\ todo' = [todo EXCEPT ![t] = Requests("DeletePrev",
                      SelectSeq(PrevOwners(at[t]), LAMBDA n : n # at[t]))]
        /\ latest' = t
        /\ UNCHANGED <<at, own, call, good, bad, res>>
     \/ /\ Kind[t] # "put"
        /\ Return(t, "ok", [obj EXCEPT ![own[t]].val = None])
        /\ latest' = IF Kind[t] = "delete" THEN None ELSE latest
  /\ UNCHANGED <<routeVars, mapVars, gen, bg, expired, down, lost, before>>

-----------------------------------------------------------------------------
(* The goroutine of putKeyVal in AsyncBackupMode, and the clock. *)

BgStart(t, n) ==
  /\ <<t, n, None>> \in bg /\ n \notin down
  /\ bg' = (bg \ {<<t, n, None>>}) \cup {<<t, n, b>> : b \in Range(PutTargets(n))}
  /\ UNCHANGED <<routeVars, mapVars, objVars, threadVars, expired, down, lost, latest, before>>

\* The handler of the request at b, as one step.
BgPut(t, n, b) ==
  LET fresh == m[b]["backup"] = None
      o == IF fresh THEN <<b, "backup", gen[b]["backup"] + 1>> ELSE m[b]["backup"]
  IN  /\ <<t, n, b>> \in bg /\ n \notin down /\ b \notin down
      /\ plock[b]["backup"] = None
      /\ o \in Obj /\ (fresh \/ usable(obj[o]))
      /\ bg' = bg \ {<<t, n, b>>}
      /\ obj' = [obj EXCEPT ![o] = IF fresh THEN NewObj(t, Snapshot) ELSE [@ EXCEPT !.val = t]]
      /\ gen' = [gen EXCEPT ![b]["backup"] = IF fresh THEN @ + 1 ELSE @]
      /\ m' = [m EXCEPT ![b]["backup"] = o]
      /\ count' = [count EXCEPT ![b]["backup"] = IF fresh THEN @ + 1 ELSE @]
      /\ UNCHANGED <<routeVars, plock, threadVars, expired, down, lost, latest, before>>

BgPanics(t, n, b) ==
  /\ <<t, n, b>> \in bg /\ n \notin down /\ b \notin down
  /\ m[b]["backup"] # None /\ ~usable(obj[m[b]["backup"]])
  /\ Panic(b)

BgLost(t, n, b) ==
  /\ <<t, n, b>> \in bg
  /\ \/ b \in down /\ UNCHANGED lost
     \/ b \notin down /\ lost < MaxLoss /\ lost' = lost + 1
  /\ bg' = bg \ {<<t, n, b>>}
  /\ UNCHANGED <<routeVars, mapVars, objVars, threadVars, expired, down, latest, before>>

\* putKeyVal computes the time when it stores the value.
Expire(v) ==
  /\ v \in Ttl \ expired
  /\ v \in Thread => pc[v] \in {"prevs", "done"}
  /\ expired' = expired \cup {v}
  /\ UNCHANGED <<routeVars, mapVars, objVars, threadVars, bg, down, lost, latest, before>>

-----------------------------------------------------------------------------
Own(t) == \/ Locate(t) \/ LockPut(t) \/ LockDelete(t) \/ ScanNothing(t) \/ GetOwn(t) \/ OwnPanics(t)
          \/ BackupsDone(t) \/ PrevsDone(t) \/ CallsDone(t) \/ Store(t)

Handle(t) == \/ Create(t)
             \/ HandlerPanics(t) \/ PutBackup(t) \/ DeleteCopy(t) \/ GetCopy(t)
             \/ DestroyClose(t) \/ DestroyDrop(t) \/ StaleCheck(t) \/ StaleDrop(t)

Step(t) == \/ Own(t)
           \/ Handle(t)
           \/ \E i \in 1 .. Len(todo[t]) : Send(t, i) \/ SendFails(t, i)
           \/ CallFails(t)
           \/ Abandon(t)

Background(t) == \E n \in Node : \/ BgStart(t, n)
                                 \/ \E b \in Node : BgPut(t, n, b) \/ BgPanics(t, n, b) \/ BgLost(t, n, b)

Next == \/ \E t \in Thread : \/ \E n \in Node : Start(t, n)
                             \/ Step(t)
                             \/ Background(t)
        \/ \E v \in Value : Expire(v)

Spec == Init /\ [][Next]_vars

\* Every goroutine that can go on goes on, and every request that reaches a
\* node that is up is served.
FairSpec == Spec /\ \A t \in Thread : WF_vars(Step(t)) /\ WF_vars(Background(t))

-----------------------------------------------------------------------------
(* Properties that hold. *)

Calls == [op   : {"none", "Own", "Scan", "PutBackup", "DeletePrev", "DeleteBackup", "GetPrev", "GetBackup",
                  "DestroyPrimary", "DestroyBackup", "StalePrimary", "StaleBackup"},
          to   : Node \cup {None},
          step : {"none", "load", "create", "run", "drop"},
          dm   : Obj \cup {None}]

TypeOK ==
  /\ setup \in Setup
  /\ owners \in [Node -> Seq(Node)] /\ backups \in [Node -> Seq(Node)]
  /\ m \in [Node -> [Part -> Obj \cup {None}]]
  /\ count \in [Node -> [Part -> Int]]
  /\ plock \in [Node -> [Part -> Thread \cup {None}]]
  /\ obj \in [Obj -> [val : Entry, closed : BOOLEAN, mutex : Thread \cup {None}, oplog : BOOLEAN]]
  /\ gen \in [Node -> [Part -> 0 .. MaxGen]]
  /\ pc \in [Thread -> {"idle", "locate", "own", "prevs", "backups", "calls", "store", "done"}]
  /\ at \in [Thread -> Node \cup {None}]
  /\ own \in [Thread -> Obj \cup {None}]
  /\ todo \in [Thread -> Seq(Calls)]
  /\ call \in [Thread -> Calls]
  /\ good \in [Thread -> Nat] /\ bad \in [Thread -> Nat]
  /\ res \in [Thread -> {"none", "ok", "err", "notfound"} \cup Value]
  /\ bg \in SUBSET (Thread \X Node \X (Node \cup {None}))
  /\ expired \in SUBSET Ttl
  /\ down \in SUBSET Node
  /\ lost \in 0 .. MaxLoss
  /\ latest \in Entry
  /\ before \in [Thread -> [val : Entry, done : SUBSET Thread, gone : SUBSET Ttl]]

\* No destroy has started.
undestroyed == \A t \in Thread : Kind[t] = "destroy" => pc[t] = "idle"

\* The janitor has not started.
unswept == \A t \in Thread : Kind[t] = "stale" => pc[t] = "idle"

\* The values a get may return: the one written last when it started, and those
\* of the puts and deletes that had not succeeded by then.
MayReturn(t) == {before[t].val}
                \cup {w \in Thread : Kind[w] = "put" /\ w \notin before[t].done}
                \cup {None : w \in {x \in Thread : Kind[x] = "delete" /\ x \notin before[t].done}}

\* README.md:248, "Each request hits the most up-to-date version of a particular
\* data entry in a stable cluster", unless the DMap is being destroyed.
UpToDate ==
  \A t \in Thread : (Kind[t] = "get" /\ pc[t] = "done" /\ res[t] # "err" /\ undestroyed)
     => IF res[t] = "notfound" THEN None \in MayReturn(t) \/ MayReturn(t) \cap expired # {}
        ELSE res[t] \in MayReturn(t)

\* A get that starts after the timeout of a value does not return it, though the
\* backups do not know the timeout.
ExpiredHidden == \A t \in Thread : (Kind[t] = "get" /\ pc[t] = "done" /\ undestroyed) => res[t] \notin before[t].gone

\* No put or delete is under way or has failed.
quiet == lost = 0 /\ down = {} /\ \A t \in Thread : writer(t) => pc[t] = "idle" \/ acked(t)

here(n, k) == IF m[n][k] = None THEN None ELSE obj[m[n][k]].val

\* In sync mode the backups have what the primary owner has.  The janitor breaks
\* this: putBackupOperation does not lock the dmap, so it may write to one that
\* deleteStaleDMaps has found empty and is about to drop.
CopiesAgree == (quiet /\ undestroyed /\ unswept /\ ~Async) =>
  \A n \in Range(Backups0) : here(n, "backup") = here(Last(Owners0), "primary")

\* The primary owner has the value that was written last: neither eviction nor
\* the janitor takes away one that has not expired.
PrimaryHasLatest ==
  (quiet /\ undestroyed) =>
     \/ here(Last(Owners0), "primary") = latest
     \/ here(Last(Owners0), "primary") = None /\ latest \in expired \cup {Old}

\* A put that was acknowledged is on a backup, even if some requests failed:
\* dmap_put.go:223, "Return nil if one of the backup nodes has the key/value pair".
\* The janitor breaks it, as above.
AckedBackedUp ==
  \A t \in Thread :
    (/\ Kind[t] = "put" /\ acked(t) /\ ~Async /\ BackupCount > 0 /\ down = {} /\ undestroyed /\ unswept
     /\ here(Last(Owners0), "primary") = t
     /\ \A u \in Thread : writer(u) => pc[u] = "idle" \/ acked(u))
    => \E n \in Range(Backups0) : here(n, "backup") = t

\* After a put or a delete the previous owners have no version of the key.
OldVersionsPurged ==
  (quiet /\ \E t \in Thread : writer(t) /\ Kind[t] # "evict" /\ acked(t))
    => \A n \in Range(Front(Owners0)) : here(n, "primary") = None

\* part.count is the number of dmaps in the map of the partition.
CountExact == undestroyed => \A n \in Node, k \in Part :
                 plock[n][k] = None => count[n][k] = IF m[n][k] = None THEN 0 ELSE 1

\* README.md:193, "Destroy flushes the given DMap on the cluster": no node that
\* is up has a value when a destroy has succeeded, if every put and delete that
\* was called had succeeded, its goroutines included, before the destroy was called.
DestroyFlushes ==
  \A t \in Thread :
    (/\ Kind[t] = "destroy" /\ acked(t) /\ bg = {}
     /\ \A w \in Thread : writer(w) => w \in before[t].done \/ pc[w] = "idle")
    => \A n \in Node \ down, k \in Part : here(n, k) = None

\* dmap_eviction.go:64, "Delete all the keys found expired".
EvictionDeletes == \A t \in Thread : (Kind[t] = "evict" /\ own[t] # None) ~> (acked(t) \/ lost > 0 \/ down # {})

\* README.md:304, async backups are "fire & forget": the goroutine outlives the
\* put, and the backups of an acknowledged put get the key unless a request fails.
AsyncBackups ==
  \A t \in Thread : (Kind[t] = "put" /\ acked(t) /\ Async /\ undestroyed)
     ~> (lost > 0 \/ down # {} \/ ~undestroyed \/ \A n \in Range(Backups0) : here(n, "backup") # None)

\* Every operation returns.
Returns == \A t \in Thread : pc[t] # "idle" ~> pc[t] = "done"

-----------------------------------------------------------------------------
(* A property the documentation states and the code does not have. *)

\* dmap_put.go:131, put is "thread-safe": no operation calls a method of a storage
\* that a destroy, the janitor or a move has closed, which ends the process.
NoPanic == down = {}
=============================================================================
