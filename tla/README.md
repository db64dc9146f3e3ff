# A TLA+ model of Olric

Olric is a distributed in-memory map: every key belongs to a partition, every
partition has a list of owners and of backup owners, and a coordinator gives the
lists out when members come and go. This directory has TLA+ modules for its
concurrent parts, the TLC runs that check them on small instances, and proofs,
checked by TLAPS, for six of the parts.

`PROJECT.json` lists the runs, the source lines behind every definition
(`map`), a mutation of the code for every property that holds (`mutants`), the
disagreements between code and documentation (`findings`), the hazards and the
theorems.

## The system and its modules

| part | source | module | proofs |
|---|---|---|---|
| named locks | `locker.go` | `Locker`, abstract specification `NamedLock` | `LockerProofs` |
| locks of keys, `Incr`, `Decr`, `GetPut` | `dmap_lock.go`, `dmap_atomic.go` | `LockTimeout` (extends `Locker`) on one node, `KeyLock` (extends it) in a cluster | `KeyLockProofs` |
| storage of a dmap | `internal/storage` | `Storage` | `StorageProofs` |
| operations on a DMap | `dmap_put.go`, `dmap_get.go`, `dmap_delete.go`, `dmap_destroy.go`, `dmap_eviction.go`, parts of `olric.go` | `DMap` | |
| members and routing table | `discovery.go`, `routing.go`, the start of a node in `olric.go` | `Cluster` | `ClusterProofs` |
| data moving | `fsck.go`, `routing.go` | `Fsck` (extends `DMap`) | |
| snapshot | `internal/snapshot`, restoring in `olric.go` | `Snapshot` | `SnapshotProofs` |
| connections | `internal/transport`, `internal/protocol`, `client/client.go` | `Transport` | `TransportConns`, `TransportAnswers`, `TransportProofs` |

How they interact: a request arrives over a connection at any node, which
forwards it to the primary owner (the last of the owners list). The primary owner
takes the dmap from its partition, locks it, writes to the backups, changes its storage, marks
the key in the operation log of the snapshot, and removes the key from the
previous owners. When the members change, the coordinator computes new lists and
sends them to all members; each member then runs fsck, which sends the dmaps it
should no longer have to their new hosts. A janitor drops empty dmaps, an
eviction goroutine deletes expired keys, and a worker for every partition writes
the marked keys to Badger. A lock belongs to the locker of a dmap, so that a node
that looks for one asks the previous owners as well.

### Locker, LockTimeout and KeyLock

`locks` is the map from names to `lockCtr` objects, `waiters`, the mutex and the
`done` channel are the fields of such an object; an object is identified by the
call that made it, so an entry that was deleted and made again is a different
one. `LockEnter` is the part of `lock` under `l.mu`; `LockAcquire` and `LockDec`
follow outside it; `Unlock` is `unlock`. `LockTimeout` adds what
`LockWithTimeout` does after `lock` has returned: the goroutine that asks for the
channel (`Notifier`), waits for it or the timeout (`AlreadyUnlocked`, `Expire`),
and the calls of `Unlock`.

`KeyLock` is the lock of one key in a cluster. A name of the locker is a dmap
object there, so a node that drops its dmap and makes another one has an empty
locker. A call goes to the primary owner in the table of the node it is at
(`Locate`, as often as the tables disagree), looks for the lock in the dmap there
(`Check`) and at the previous owners (`Ask`), and then locks
(`LockHere`, `LockPrev`); `unlockKey` searches again and releases what it finds.
Any request of a lock or an unlock may fail (`RequestFails`), and the answer to a
lock request may be lost when the handler has begun to wait (`AnswerLost`): the
caller has an error then, and the lock is taken for nobody.
`GetValue`, `PutValue` and `Fails` are `atomicIncrDecr` and `getPut` under the
lock. Around the calls tables are taken over (`TakeOver`), fsck moves a dmap whose
locker it found empty (`MoveCheck`, `MoveDrop`), and the janitor drops a dmap
without keys, whatever its locker has (`DropStale`).

### Storage

`tables` is the slice of tables, each with its entries and the counters
`allocated`, `offset`, `inuse` and `garbage`; `mu` says who has the mutex when
that lasts longer than a step; `merging`, `wg` and the merge goroutine are the
fields of the same names. `Put`, `PutGrow` and the loop `PutRetry`,
`PutGrowAgain`, `PutFails` are one call of `Put` or `PutRaw`. `MergeMove`,
`MergeFull`, `MergeNoMemory` and `MergeSweep` are the steps of
`chunkedMergeTables`, `MergeExit` and `WgDone` its deferred calls. The variable
`kv` is what the callers put last; the code has no such thing.

### DMap and Fsck

One key of one DMap in one partition. A thread executes one operation, and stands
for the handler at the other node while it waits for the answer. A dmap is an
object, because a thread may have a pointer to one that has left the partition's
map. The storage is a value or none, as its documentation promises. A call to a
closed storage is a panic, which ends the process of the node (`down`). A request
may be lost before it is served, or its answer after it.

`Fsck` adds the coordinator (`Distribute`, `Pushed`), the members that take over
a table (`UpdateOwners`, `UpdateBackups`), and `moveDMap` with the merge at the
receiver (`MoveLock`, `MergeLoad`, `MergeStore`, `MergeCheck`, `MergePut`,
`MoveDrop`). `Ring`, a field of `setup`, is the hash ring, a library: it names an
owner and the closest members.

### Cluster

memberlist, a library, knows who is alive: `LearnAlive` and `LearnDead` are its
callbacks, late or wrong, and a callback that finds `eventsCh` full waits with
memberlist's lock (`pend`, `Unblock`). `eventLoop` and `SendEvent` are the
goroutine that passes events on, a changed birthdate as a leave and a join;
`Listen` applies one to the ring and, like the ticker (`Tick`), goes into
`updateRouting`: `CheckCoordinator`, then under `routingMx` `Distribute`, the
pushes, and `UpdateReturns`. `updateRoutingOperation` is the handler at a member,
which knows the coordinator from its own view. `Start`, `JoinReturns` and `Begin`
are the start of a node, in the order of `startDiscovery`. One partition without
data stands for all; what `distributePrimaryCopies` does with data is in `Fsck`.

### Transport

One server and one client with its pool. The server's goroutines are `acceptor`
(`waitForConnections`), `starter` (`handleConns`), and for each connection a
handler and the closer that ends it when the server shuts down. A connection has
two ends and a queue in each direction; `ReadRequest`, `MarkBusy`, `Execute`,
`WriteAnswer` and `WriteError` are the loop of `handleConn`; a request for an unknown
operation marks its connection as well, and takes the mark back (`UnknownOp`) before
the error is written. The calls that
`Shutdown` makes are `Shutdown`, `CloseListener`, `ShutdownReturns` or, when the
caller's context is done first, `ShutdownExpires`. A call of the client makes the
pool when there is none (`NewPool`, `StorePool`), takes a connection, and puts it
back whatever happened (`PutBack`). `outcome` is what the client library reports.

### Snapshot

The dmaps of one partition at one node: their storage `str`, their operation log
`log`, the slot in `s.oplogs` the worker reads, the worker `w` with a step for
each call of Badger in `syncDMap`, and the contents of Badger: registered names
`reg`, key lists `keys`, values `disk`. Any call of Badger in `setup.fails` may fail;
the process may crash in any state, or be shut down, and starts again from
Badger.

A `WriteBatch` of Badger is not atomic. A `Set` or `Delete` that does not fit into
the open transaction commits it and begins another one (`splits`), so that values and
deletes may be on disk before the key list, which `SetKeys` sets last; `Flush` commits
what is left. An error of a commit comes with its callback, and one that is too big
for any transaction at once (`tooBig`); from then on nothing is committed
(`refused`). The deletes of `DestroyDMap` go the same way (`DestroyWipe`). A move that
ends puts keys into the dmap that is there, without a mark (`MergePut`).

## What the runs check

TLC finds no error in these.

| run | shows |
|---|---|
| `Locker` | `Locker` implements `NamedLock`, so at most one call has a name; no entry is left over; every lock returns |
| `KeyLock` | there is one holder of a lock, whatever timeouts, moves and other nodes do, and no lock is deleted under a call that uses it; a lock nobody else asks for is released by its timeout, though the unlock or the answer to the lock was lost; `Incr` and `GetPut` do not overwrite each other's updates, outside the three cases the property names; they return, though updates fail and tables change |
| `Storage` | no key is lost by growth, merging and compaction; the counters are exact; a merge ends; it changes nothing for keys that are in one table; the table a put appends has room |
| `DMapOperations` | gets are up to date, with two backups, with a previous owner that has an old value, and with async backups; backups agree with the primary owner, and an acknowledged put is on a backup though requests fail; writes purge the old value; a destroy flushes what was written before it; the janitor drops empty dmaps only, and counts them; expired values are hidden, others stay |
| `FsckMove` | while a dmap is moved, and moved again because the answer was lost, its value stays available, and one copy, the latest, is left |
| `FsckLive` | every operation returns; fsck ends, though a request is lost; a backup is moved to a new backup owner; eviction deletes what it finds expired; async backups reach the backup owners |
| `Snapshot` | what differs between memory and Badger is marked; the worker gets to every mark; key lists name keys with values, wherever a crash cuts a batch off, but for the keys that batch deletes; Shutdown saves everything; and, however dmaps are dropped and whatever call fails, the worker reads logs of registered dmaps only |
| `Transport` | a call reads the answer to its own request; `Shutdown` returns when handlers and closers have, and not before, unless its context is done; requests of known operations that are marked busy when it starts are answered; a connection is in a pool or closed when its call has returned; calls return |
| `Cluster` | the ring has the members of memberlist once all events are handled; when members stop changing all nodes get the same table, without dead owners |

In these TLC finds a behaviour of the code that contradicts its documentation;
`findings` has the quotation for each.

| run | behaviour |
|---|---|
| `StorageLostUpdate` | a merge writes an old value over a newer one |
| `FsckDeadlock` | a put and a move wait for each other's dmap |
| `SnapshotWorkerGone` | a partition whose last dmap was dropped has no worker any more |

### Settings

`DMap`, `Fsck`, `KeyLock`, `Snapshot`, `Transport` and `Cluster` have a variable
`setup`, chosen in the initial state from the constant `Setup` and never changed:
the members, the tables they have, who has the dmap, the configuration, the calls
that are made, what may fail and how often. One run so covers several settings;
the modules `MC...` name them. The properties of `Snapshot` that need a dmap to
stay are of its steady settings, in which none is dropped or merged into and no call of
Badger fails but the `Set` of an invalid entry; the batches of such a setting may be
committed in parts.

### Where the properties stop

The properties that hold are stated, or their instances chosen, so that they stay
clear of the following behaviours, which the models have as well. Each was found
by TLC, by checking the property named on the instance named.

| property | instance | behaviour |
|---|---|---|
| `LockExpires` of `LockTimeout` | `Timeouts` of `MCKeyLock` | a lock never expires: its goroutine got a channel that is closed already |
| `UnlockNeverAborts` of `LockTimeout` | the same | an unlock after the timeout unlocks a free mutex, which ends the process |
| `TimeoutReleasesOwnLock` of `LockTimeout` | the same | a timeout that is late releases the lock of another call; `dmap_lock.go:62` has "release the key if it's still locked" |
| `IncrAtomic` of `KeyLock` | `NoKey`, `HandOver` | the janitor drops a dmap with its lock between `lock` and `Put`; or two calls search and lock at the old and the new owner at once. Two `Incr` then read the same value |
| `DeletedIsGone` of `Storage` | as `StorageLostUpdate` | a delete uncovers an older copy of the key |
| `FragmentationEnds` of `Storage` | as `Storage`, small values | two tables remain and no merge runs: `merging` is reset outside the mutex |
| `CloseReturns` of `Storage` | the same | `Close` and the merge wait for each other |
| `VDataIsOwnCopy` of `Storage` | the same | a value returned by `Get` lies in memory that is unmapped |
| `NewTableHasRoom` without its bound on the size | `Storage` | for a large entry `Put` appends table after table |
| `UpToDate` | async backup, a put and a delete | a backup that is written late brings a deleted key back |
| `CopiesAgree`, `AckedBackedUp` without `unswept` | a put and the janitor | `putBackupOperation` writes to a dmap the janitor is about to drop |
| `CountExact` without `undestroyed` | a put and a destroy | destroy leaves `part.count` as it was |
| `NoPanic` of `DMap` | a put beside a destroy, the janitor or a move | a closed storage is used |
| `EvictionDeletes` | an expired value at a previous owner | it waits for the lock it has |
| `DataAvailable` | the new owner has no dmap yet, and there is a put, or the owner changes again | a moved dmap replaces one a put has written to; it is not counted, and the coordinator drops its owner |
| `BackupsMoved` | two new backup owners | the second gets nothing |
| `DestroyFlushes` | a destroy beside a move | the destroy misses the dmap that is being moved |
| `StartSucceeds` of `Snapshot` | a dmap without keys | Start fails for lack of a key list |
| `ListHasValues` | a crash inside `DestroyDMap` | the key list names values that are gone |
| `ListHasValues` without `torn` | `Steady` of `MCSnapshot` | a crash cuts a batch off after a delete was committed in an early transaction: the key list has the key still, and Start fails |
| `NothingForgotten` | `TooBig`; a backup put races a delete | a commit fails, or a `Set` is too big for any transaction, and the keys of the batch are neither in Badger nor marked |
| `NothingForgotten` | `merges` in a steady setting | the keys `mergeDMaps` adds to a dmap that is there are not marked (`fsck.go:146`) |
| `NoValueLost` of `Snapshot` | a primary and a backup dmap of one name | they share a slot, and the log of one is not read |
| `NoClosedReads` of `Snapshot` | a destroy beside the worker | the worker reads a closed storage |
| `NoPanic` of `Cluster` | `Restarts`, `Suspects`, `Three` | the ring names an owner the view has lost, and `tmp[:len(tmp)-1]` of an empty list ends the process |
| `StartJoins` of `Cluster` | `JoinsFull` | `join` fills the channel of events before `eventLoop` is started, and waits for good; the code's capacity is 32 |
| `LateTableServes` of `Cluster` | `Joins` | a table that comes after the bootstrap deadline does not help: `locateHKey` fails for good |
| `GracefulShutdown` of `Transport` | `Stops` | a request that is read and not marked busy yet is executed, and its connection closed under the answer |
| `BusyAnswered` without `known` | `Unknown` | the error of an unknown operation is written when the connection is idle again, and may be cut off by `Shutdown` |
| `ListenReturns` of `Transport` | `Stops` | the acceptor waits in `s.connCh <- conn` when `handleConns` has returned |
| `BrokenNotReused` of `Transport` | `Stops` | a connection that failed goes back to the pool, and fails the next call |
| `OwnAnswer` without `clean` | `TooBig` | the server takes the rest of a request that is too big for the next one |
| `FailuresReported` of `Transport` | `Shares` | `Put`, `Delete` and others of the client library ignore the status of the answer |

A moved dmap that finds none at its new owner has no operation log either
(`fsck.go:130`), so that nothing of it gets to the snapshot.

## Bounds

Every bound is a constant of its module or a field of `setup`.

- `Locker`: four calls on two names. Two calls contend, the third and fourth find
  the entry while it is deleted and made again. Calls are used once.
- `KeyLock`: two nodes, three calls, of which one to three are used, three dmap
  objects, up to two requests or answers that are lost, one change of the table. Two
  nodes are the previous and the new owner; a third would be asked like the previous
  one. `Timeouts` has two calls and a fixed list of both nodes, `Moved` one call whose
  lock stays behind at the previous owner: both at once are too many states for
  liveness.
- `Storage`: two keys, an entry of size 2 and one as large as the smallest table,
  which has 6 bytes, so that a table fills after two entries; a fourth table is
  reached, and with it a put during a merge, a merge that fills its table, a put
  that finds no memory, and compaction. `chunkLimit` 1 stands for 1000: the merge
  pauses after two entries. `MaxOps` counts calls, `MaxTables` tables.
- `DMap`: two or three nodes, up to four operations of which two or three write,
  up to two lost requests (`losses`), two dmap objects per partition (`MaxGen`),
  enough for one to be destroyed and made again.
- `Fsck`: one or two updates of the routing table (`updates`), up to three
  operations, three dmap objects.
- `Snapshot`: one name, primary and backup, one or two keys, up to three
  operations (four in `SnapshotWorkerGone`), one failing call of Badger, two stops
  of the process. Two keys are enough for a batch in parts: one key and the other, or
  the keys and the key list, are in different transactions.
- `Transport`: two calls over three connections and pools of one connection, so
  that calls meet in a pool that is full and in one that is empty, and make two
  pools at once. `Unknown` has one call, of an unknown operation.
- `Cluster`: three names, up to three processes, one fault (a live node taken for
  dead, or a push lost), channels of one event or of four instead of 32: with one
  every send may have to wait.

`CHECK_DEADLOCK` is off in all runs: the operations of an instance are finitely
many and the behaviour ends when they have returned. A system that is stuck is
found by the liveness properties instead, as in `FsckDeadlock`.

Symmetry is used in runs of invariants only, over sets the specifications treat
alike.

## Fairness

Weak fairness, with one exception in `Cluster`: a goroutine that may run and goes on being able to runs in
the end, which is what Go's scheduler gives.

- `Locker`: for each call, its wait for the mutex, the decrement and its unlock:
  a holder gives the lock back. A call that waits may lose to another one; as
  calls are used once it loses finitely often.
- `KeyLock`: for the steps of a call, the timeouts and the taking over of tables,
  none for a client that has a plain lock, who may keep it, nor for moves, drops
  and failures. As in `Locker` calls are used once.
- `Storage`: for the loop of `Put`, the merge goroutine (its timer fires), and
  the rest of `Close`.
- `DMap`: for each operation once it has started, and for async goroutines. A
  request is answered or fails.
- `Fsck`: also for fsck and its movers, none for changes of the members.
- `Snapshot`: for the worker (its timer fires) and for operations under way, none
  for crashes, shutdowns, failures or new operations.
- `Transport`: for each goroutine and call, sockets deliver what is written; none
  for `Shutdown`, its context, and `Close`.
- `Cluster`: for each goroutine, for requests, which are executed or refused, and
  for memberlist finding out who is alive, which its gossip gives to nodes that have
  joined (a node whose join failed may stay alone in the code); strong fairness for a goroutine that
  waits for `routingMx`, as Go's mutex does not starve one (after 1 ms it is handed
  over in order); none for starts, crashes and wrong suspicions.

## Proofs

TLAPS proves, for every set of calls, names and nodes (calls finite), of keys,
values, sizes and table sizes, and of connections (finite), for every capacity of
the channels and every setting:

| theorem | statement |
|---|---|
| `LockerTypeOK` | the variables of `Locker` keep their types |
| `LockerMutualExclusion`, `LockerEntryKept`, `LockerCleanup` | at most one call has a name; no entry is deleted under a call; `LockerCleanup` is the invariant of the run `Locker`, and says also that `unlock` always finds its entry and `waiters` is exact |
| `LockerImplementsNamedLock` | the locker implements `NamedLock` |
| `StorageTypeOK`, `StorageAccounting`, `StorageNoKeyLost`, `StorageMergerAlone` | types, the invariants of the run `Storage`, and that one goroutine merges at most |
| `StorageMergeKeepsUniqueKeys` | its action property |
| `StorageNewTableHasRoom` | the table a put appends has room for an entry smaller than `minimumSize` |
| `KeyLockOneHolder` | the invariant `OneHolderPerName` of the run `KeyLock` |
| `OnlyRegisteredLogs` | the invariant `LoggedIsRegistered` of the run `Snapshot`, in every use of the node |
| `NoUpdateForgotten`, `LoaderFindsValues`, `ShutdownIsDurable` | its invariants `NothingForgotten`, `ListHasValues` and `ShutdownSaves`, of the steady settings, in however many transactions a batch is committed; `LoaderFindsValues` excepts a key whose delete was committed in a batch that a crash has cut off |
| `TransportShutdownWaits`, `TransportOwnAnswer`, `TransportBusyAnswered`, `TransportNoConnLost` | the four invariants of the run `Transport`; `TransportBusyAnswered` is of known operations, the busy mark of an unknown one being gone when its error is written |
| `ClusterRingFollowsView` | the invariant `RingFollowsView` of the run `Cluster` |

The constants are assumed to be what their names say: `None` is no call, event or
answer, the fields of a setting have their types, a dmap is a primary or a backup
one. TLC evaluates these assumptions in the runs.

**Locker.** Mutual exclusion is not inductive: nothing in it says that two calls
with the same name use the same `lockCtr`. The invariant `IInv` adds that every
`lockCtr` in use is the one in the map (`EntryInv`), that a mutex is held exactly
by the call that has it (`MutexInv`), what each call knows at each stage
(`CallsInv`), and that `waiters` counts the calls between `inc` and `dec`
(`WaitersExact`), which is why `unlock` never deletes an entry under a waiter. The
count is the cardinality of a finite set, hence the assumption that calls are
finite. The refinement maps the holder of a name to the holder in `NamedLock`.

**Storage.** `IInv` has the counters of every table (`TablesOK`), who may have the
mutex when (`Control`), and that a key that was put is in some table. It needs
`Control` because a merge between two parts of a `Put` would use a table that is
not the last one. `Rest` adds the types of the other variables; `Fresh`, that
the table `Put` has just appended is empty, gives `NewTableHasRoom`.

**KeyLock.** Here anybody may unlock: a timeout that is late, a call that found
the lock at another owner. So the holder's mutex protects nothing, and the argument
of `LockerProofs` does not carry over. `KInv` rests on the counter alone: who waits
for a `lockCtr` or has it was served by the entry of its name, which is still in
the map (`Served`), an entry belongs to the name its maker asked for (`OwnName`),
who waits does nothing else (`Placed`), and the counter is exact (`WaitersExact`).
Steps of the cluster leave the locker alone; each step that does not is a step of
`Locker` with a dmap as the name.

**Transport.** `Shutdown` looks at nothing but `s.wg`, so the invariant is that
`s.wg` counts the goroutines that run (`WgExact`): `handleConns`, handlers, closers.
A connection handed over twice would break the count, hence `Fresh`: a connection
in the backlog or held by the acceptor has never had a handler, and is there once.
`Stopped` says that `Shutdown` is not called before `handleConns` is started.
When `s.wg` is 0 two finite sets are empty. The other three invariants follow from
`CInv`. `TransportConns` proves who owns a connection: an open one is at one place of
one pool, or one call has it (`Owned`), and the pool of a call is the one in the map
unless the call is making it (`Pooled`). So a message on the way that belongs to a
call that still reads belongs to the one call that may read it; `TransportAnswers`
proves that on a connection that has carried no oversized request there is one message
at most (`Paired`), and that a call in `graced` has its answer, or the answer is on its
way, or its handler is busy with it and the closer still waits (`Awaits`).

**Snapshot.** `SInv` has the types, what an operation, a drop and the worker have in
hand (`Sound`), and `LoggedIsRegistered`; it holds in every setting.
In a steady setting `Steady` says for each key what its value in Badger will be
(`want`) and who is about to write it: it is marked (`Marked`), an operation is about
to mark it (`pend`), the worker has it in its copy, in its batch, or among the keys
that failed (`InHand`, `Staged`), and what none of them has is in Badger already
(`Kept`). A step of a batch that may commit its open transaction keeps this because
the worker has a key in hand until `Readd`, committed or not (`BatchSteady`, from which
`Stage`, `SetKeys` and `Flush` follow). `Lists` says that key list and values agree but
for the keys of the batch, `LastRound` that the worker,
once told to stop, makes its last round after the last operation.

**Cluster.** An event says how the view of memberlist changed when it was sent, and
gets to the ring after up to three queues and a send that waits. The invariant is that
the events under way lead from the names in the ring to those in the view
(`Follows`): each finds its name missing or present as it says, in the set the
events before it have left. So a join never finds its name in the ring, which
matters because `consistent.Add` keeps the host it has, with its old birthdate.
`Dated` says that a host in the ring has the birthdate memberlist knows, or is about
to leave. That a sequence of events leads from one set to another (`Leads`) is
stated with the sequence of the sets between, not by recursion, so that appending an
event and taking the first one need no induction.

Only model-checked: all liveness properties (fairness and ENABLED are outside
the prover's reach), the other properties of `KeyLock`, and everything about `DMap`
and `Fsck`.

## Abstractions, and what is not modelled

- `DMap` and `Fsck`: one partition, one DMap, one key. The requests of an
  `errgroup` are served one at a time, in any order. The answer of a forwarded
  request to the client is not lost. `Distribute` asks the owners and replaces both
  lists in one step, and the janitor takes a dmap off the map and the count down in one.
  The panic on an empty list of owners (`fsck.go:215`, `fsck.go:239`) is left out: a
  list has an owner in every setting. Members are down only after a panic, and all
  see that at once. Storage is atomic, so the deadlock of eviction with a writer
  of the storage's `RWMutex` (a read lock taken twice) is outside. With a
  snapshot, destroying always succeeds; its failures are in `Snapshot`.
- `Storage`: `Delete` is one step, though it has only the read lock; `Export`,
  `Import`, `Range`, `Len` and `GetTTL` only read or make new storages and are
  left out. Timeouts of entries are part of the value.
- `Snapshot`: callers have stopped before Shutdown, though `olric.go:411` saves the
  snapshot before it waits for them at `olric.go:417`; a name is not made again while
  an operation on its earlier dmap is under way; use of closed storages by operations
  is left to `DMap`, and the missing log of moved dmaps to `Fsck`. A `RegisterDMap`
  that fails changes nothing and is left out. A transaction is on disk as a whole or
  not at all, and transactions of one batch in their order.
- `KeyLock`: one key. Reads and writes of it are one step each, their own requests
  and locks being the matter of `DMap`, and a put goes to the owner in the table of the
  caller's node without being forwarded again. The lost answer of an unlock changes
  nothing but the caller's result and is left out; a move is two steps, the check of the
  locker and the drop. An unlock of a free mutex ends the process, and the
  behaviour with it.
- `Cluster`: one partition without data, so that fsck, which ends each update, has
  nothing to move. A member handles a push in one step; `Fsck` has the two parts
  of it. `distributePartitions` and the choice of those who get the table are one step,
  and an owner that is alive and does not answer `OpIsPartEmpty`
  (`routing.go:208`), which the code keeps in the list, is left out. The ring takes
  the first host in a fixed order, one of the distributions `consistent` can
  make. Refutations and indirect probes of memberlist are folded into who is
  believed to be alive. A join that fails leaves the node alone in its cluster until
  memberlist hears of it from others; that this happens is assumed, so `TablesAgree`
  says nothing of a cluster that a failed join has split for good.
- `Transport`: one address. A message is written and read as a whole, except that
  what is too big stays unread. `net.Listen` and `SetKeepAlive` do not fail.
  `ListenAndServeTLS` is left out: its listener is not the `*net.TCPListener` that
  `waitForConnections` (`server.go:173`) asserts. `CloseWithAddr` is not called by
  anything.
- `Olric.Shutdown` calls the parts in turn (stop the server, stop memberlist, save
  the snapshot, wait for the goroutines, close the storages); the parts are
  modelled, their sequence is not. `discovery.shutdown`, called when a starting
  node does not find itself among the members, is left out.
- Not modelled, having no control state of their own: the layout of the wire
  protocol, hashing, serializers, configuration, and the commands `olricd` and
  `olric-cli`.

## Plan

1. `sync.RWMutex` in the storage: `Range` and `Delete` in eviction, two deletes.
2. `Olric.Shutdown` as a whole: operations that arrive while the parts stop.
3. `Cluster` and `Fsck` together: data in the partition while coordinators differ.
4. Proofs: `CountExact` and `PrimaryHasLatest` of `DMap`.
