-------------------------------- MODULE Fsck ---------------------------------
(***************************************************************************)
(* The coordinator distributes the partition (routing.go), the members     *)
(* take over its table and fsck moves the dmap to its new hosts (fsck.go), *)
(* while the operations of module DMap run.                                *)
(*                                                                         *)
(* The hash ring is the library buraksezer/consistent: all that is used of *)
(* it is that it names an owner and the closest members.                   *)
(***************************************************************************)
EXTENDS DMap

ASSUME RoutingType == \A s \in Setup :
         /\ s.coordinator \in s.members
         /\ \A r \in s.ring : r.owner \in s.members /\ r.closest \in Seq(s.members)
         /\ s.updates \in Nat

VARIABLES updates,  \* number of calls of updateRouting so far
          phase,    \* what the coordinator does under routingMx
          push,     \* tables on their way to the members
          queue,    \* calls of fsck at each node that are not finished
          running,  \* nodes where one of them has fsckMx
          movers    \* goroutines of moveDMap

moveVars == <<updates, phase, push, queue, running, movers>>
allVars  == <<vars, moveVars>>

Coordinator == setup.coordinator  \* the oldest member
Ring        == setup.ring         \* what the hash ring may answer
MaxUpdates  == setup.updates      \* bound: number of calls of updateRouting

InitFsck ==
  /\ Init
  /\ updates = 0
  /\ phase = "idle"
  /\ push = {}
  /\ queue = [n \in Node |-> 0]
  /\ running = {}
  /\ movers = {}

-----------------------------------------------------------------------------
(* The coordinator. *)

\* "Remove it from the current position, append it again to head"
moveToEnd(s, n) == Append(SelectSeq(s, LAMBDA x : x # n), n)

pruneDead(s) == SelectSeq(s, LAMBDA n : n \notin down)

\* The owners before the last keep of s stay when part.count is not 0, or when
\* the request that asks for it fails.
pruneEmpty(s, keep, k, unreachable) ==
  SelectSeq(SubSeq(s, 1, Len(s) - keep), LAMBDA n : n \in unreachable \/ count[n][k] # 0)
  \o SubSeq(s, Len(s) - keep + 1, Len(s))

distributePrimaryCopies(owner, unreachable) ==
  pruneEmpty(pruneDead(moveToEnd(owners[Coordinator], owner)), 1, "primary", unreachable)

distributeBackups(closest, unreachable) ==
  LET s == backups[Coordinator]
  IN  IF s = <<>> THEN closest
      ELSE pruneEmpty(pruneDead(FoldLeft(moveToEnd, s, closest)), Len(closest), "backup", unreachable)

backupCountNow == calcMaxBackupCount(BackupCount, Cardinality(Member \ down))

\* updateRouting, when a member joined or left and every five minutes.
Distribute(r, unreachable) ==
  /\ phase = "idle" /\ updates < MaxUpdates /\ Coordinator \notin down
  /\ r.owner \notin down /\ Range(r.closest) \cap down = {} /\ Len(r.closest) = backupCountNow
  /\ plock[Coordinator]["primary"] = None /\ plock[Coordinator]["backup"] = None
  /\ unreachable \subseteq (Range(owners[Coordinator]) \cup Range(backups[Coordinator])) \ {Coordinator}
  /\ lost + Cardinality(unreachable) <= MaxLoss
  /\ lost' = lost + Cardinality(unreachable)
  /\ LET os == distributePrimaryCopies(r.owner, unreachable)
         bs == IF r.closest = <<>> THEN backups[Coordinator] ELSE distributeBackups(r.closest, unreachable)
     IN  /\ owners' = [owners EXCEPT ![Coordinator] = os]
         /\ backups' = [backups EXCEPT ![Coordinator] = bs]
         /\ push' = {[to |-> n, step |-> "owners", owners |-> os, backups |-> IF r.closest = <<>> THEN <<>> ELSE bs] :
                        n \in Member \ (down \cup {Coordinator})}
  /\ updates' = updates + 1
  /\ phase' = "push"
  /\ UNCHANGED <<setup, mapVars, objVars, threadVars, bg, expired, down, latest, before, queue, running, movers>>

\* updateRoutingOperation: the two lists, one after the other, then fsck in a
\* goroutine.
UpdateOwners(p) ==
  /\ p \in push /\ p.step = "owners" /\ p.to \notin down
  /\ plock[p.to]["primary"] = None
  /\ owners' = [owners EXCEPT ![p.to] = p.owners]
  /\ push' = (push \ {p}) \cup {[p EXCEPT !.step = "backups"]}
  /\ UNCHANGED <<setup, backups, mapVars, objVars, threadVars, restVars, updates, phase, queue, running, movers>>

UpdateBackups(p) ==
  /\ p \in push /\ p.step = "backups" /\ p.to \notin down
  /\ plock[p.to]["backup"] = None
  /\ backups' = [backups EXCEPT ![p.to] = p.backups]
  /\ push' = push \ {p}
  /\ queue' = [queue EXCEPT ![p.to] = @ + 1]
  /\ UNCHANGED <<setup, owners, mapVars, objVars, threadVars, restVars, updates, phase, running, movers>>

\* The table does not arrive.
PushFails(p) ==
  /\ p \in push
  /\ \/ p.to \in down /\ UNCHANGED lost
     \/ p.to \notin down /\ p.step = "owners" /\ lost < MaxLoss /\ lost' = lost + 1
  /\ push' = push \ {p}
  /\ UNCHANGED <<routeVars, mapVars, objVars, threadVars, bg, expired, down, latest, before,
                 updates, phase, queue, running, movers>>

\* g.Wait() returned: the coordinator calls fsck itself, with routingMx locked.
Pushed ==
  /\ phase = "push" /\ push = {} /\ Coordinator \notin down
  /\ phase' = "fsck"
  /\ queue' = [queue EXCEPT ![Coordinator] = @ + 1]
  /\ UNCHANGED <<vars, updates, push, running, movers>>

-----------------------------------------------------------------------------
(* fsck *)

Mover(n, k, to) == [from |-> n, part |-> k, to |-> to, dm |-> m[n][k], step |-> "lock", val |-> None, into |-> None]

\* Mutant: one stale backup owner too many is tolerated.
moveBackupDMapsLate(n) ==
  LET s == backups[n]  b == backupCountNow
  IN  IF count[n]["backup"] # 0 /\ m[n]["backup"] # None /\ Len(s) > b + 1 /\ n \in Range(SubSeq(s, 1, Len(s) - b))
      THEN {Mover(n, "backup", to) : to \in Range(SubSeq(s, Len(s) - b + 1, Len(s)))} ELSE {}

\* moveDMaps at a previous owner, moveBackupDMaps at a backup owner that is not
\* one any more: a goroutine for every dmap and host.
moveDMaps(n) ==
  {Mover(n, "primary", Last(owners[n])) : k \in {x \in Part : x = "primary" /\ n \in Range(Front(owners[n]))
                                                           /\ count[n][x] # 0 /\ m[n][x] # None}}

moveBackupDMaps(n) ==
  LET s == backups[n]  b == backupCountNow
  IN  IF count[n]["backup"] # 0 /\ m[n]["backup"] # None /\ Len(s) > b /\ n \in Range(SubSeq(s, 1, Len(s) - b))
      THEN {Mover(n, "backup", to) : to \in Range(SubSeq(s, Len(s) - b + 1, Len(s)))} ELSE {}

FsckStart(n) ==
  /\ queue[n] > 0 /\ n \notin running /\ n \notin down
  /\ running' = running \cup {n}
  /\ movers' = movers \cup moveDMaps(n) \cup moveBackupDMaps(n)
  /\ UNCHANGED <<vars, updates, phase, push, queue>>

\* wg.Wait(), fsckMx.Unlock(); at the coordinator also routingMx.Unlock()
FsckEnd(n) ==
  /\ n \in running /\ n \notin down
  /\ \A v \in movers : v.from # n
  /\ running' = running \ {n}
  /\ queue' = [queue EXCEPT ![n] = @ - 1]
  /\ phase' = IF n = Coordinator THEN "idle" ELSE phase
  /\ UNCHANGED <<vars, updates, push, movers>>

-----------------------------------------------------------------------------
(* moveDMap at the sender, and mergeDMaps at the receiver. *)

moverId(v) == <<v.from, v.part, v.to>>

unlocked(f, o) == [f EXCEPT ![o].mutex = None]

becomes(v, w) == movers' = (movers \ {v}) \cup {w}

canMove(v, step) == v \in movers /\ v.step = step /\ v.from \notin down

quietMove == /\ UNCHANGED <<routeVars, plock, threadVars, bg, expired, latest, before>>
             /\ UNCHANGED <<updates, phase, push, queue, running>>

\* dm.Lock() and Export, which fails on a closed storage.
MoveLock(v) ==
  /\ canMove(v, "lock") /\ obj[v.dm].mutex = None
  /\ IF obj[v.dm].closed
     THEN movers' = movers \ {v} /\ UNCHANGED obj
     ELSE /\ obj' = [obj EXCEPT ![v.dm].mutex = moverId(v)]
          /\ becomes(v, [v EXCEPT !.step = "load", !.val = obj[v.dm].val])
  /\ quietMove /\ UNCHANGED <<m, count, gen, down, lost>>

\* Mutant: the dmap stays locked after an error.
MoveFailsLocked(v) ==
  /\ v.step \in {"load", "drop"} /\ lost < MaxLoss /\ lost' = lost + 1
  /\ canMove(v, v.step)
  /\ movers' = movers \ {v}
  /\ quietMove /\ UNCHANGED <<m, count, objVars, down>>

\* A key is locked in the dmap, its storage has several tables, the request or
\* its answer is lost, the receiver is down: the dmap stays here.
MoveFails(v) ==
  /\ \/ v.step \in {"load", "drop"} /\ lost < MaxLoss /\ lost' = lost + 1
     \/ v.step \in {"load", "store", "check", "put"} /\ v.to \in down /\ UNCHANGED lost
  /\ canMove(v, v.step)
  /\ movers' = movers \ {v}
  /\ obj' = unlocked(obj, v.dm)
  /\ quietMove /\ UNCHANGED <<m, count, gen, down>>

MergeLoad(v) ==
  LET o == m[v.to][v.part]
  IN  /\ canMove(v, "load") /\ v.to \notin down
      /\ becomes(v, [v EXCEPT !.step = IF o = None THEN "store" ELSE "check", !.into = o])
      /\ quietMove /\ UNCHANGED <<m, count, objVars, down, lost>>

\* part.m.Store: whatever is in the map by now is replaced, part.count stays,
\* and the dmap has no operation log.
MergeStore(v) ==
  LET o == <<v.to, v.part, gen[v.to][v.part] + 1>>
  IN  /\ canMove(v, "store") /\ v.to \notin down
      /\ o \in Obj
      /\ gen' = [gen EXCEPT ![v.to][v.part] = @ + 1]
      /\ obj' = [obj EXCEPT ![o] = NewObj(v.val, FALSE)]
      /\ m' = [m EXCEPT ![v.to][v.part] = o]
      /\ becomes(v, [v EXCEPT !.step = "drop"])
      /\ quietMove /\ UNCHANGED <<count, down, lost>>

\* Mutant: Check is not called.
MergeCheckNot(v) ==
  /\ canMove(v, "check") /\ v.to \notin down
  /\ obj[v.into].mutex = None /\ ~obj[v.into].closed
  /\ obj' = [obj EXCEPT ![v.into].mutex = moverId(v)]
  /\ becomes(v, [v EXCEPT !.step = "put"])
  /\ quietMove /\ UNCHANGED <<m, count, gen, down, lost>>

\* dm.Lock() at the receiver and Check: a key that is there stays.
MergeCheck(v) ==
  /\ canMove(v, "check") /\ v.to \notin down
  /\ obj[v.into].mutex = None /\ (obj[v.into].closed => v.val = None)
  /\ IF v.val = None \/ obj[v.into].val # None
     THEN becomes(v, [v EXCEPT !.step = "drop"]) /\ UNCHANGED obj
     ELSE /\ obj' = [obj EXCEPT ![v.into].mutex = moverId(v)]
          /\ becomes(v, [v EXCEPT !.step = "put"])
  /\ quietMove /\ UNCHANGED <<m, count, gen, down, lost>>

MergePut(v) ==
  /\ canMove(v, "put") /\ v.to \notin down /\ ~obj[v.into].closed
  /\ obj' = [obj EXCEPT ![v.into].val = v.val, ![v.into].mutex = None]
  /\ becomes(v, [v EXCEPT !.step = "drop"])
  /\ quietMove /\ UNCHANGED <<m, count, gen, down, lost>>

MergePanics(v) ==
  /\ v.from \notin down /\ v.to \notin down /\ v \in movers
  /\ \/ v.step = "check" /\ obj[v.into].mutex = None /\ obj[v.into].closed /\ v.val # None
     \/ v.step = "put" /\ obj[v.into].closed
  /\ Panic(v.to)
  /\ UNCHANGED moveVars

\* Mutant: the moved dmap is not removed.
MoveDropNot(v) ==
  /\ canMove(v, "drop")
  /\ obj' = unlocked(obj, v.dm)
  /\ movers' = movers \ {v}
  /\ quietMove /\ UNCHANGED <<m, count, gen, down, lost>>

\* The dmap is taken off the map and its storage closed, under its lock.
MoveDrop(v) ==
  /\ canMove(v, "drop")
  /\ m' = [m EXCEPT ![v.from][v.part] = None]
  /\ count' = [count EXCEPT ![v.from][v.part] = @ - 1]
  /\ obj' = [obj EXCEPT ![v.dm].closed = TRUE, ![v.dm].mutex = None]
  /\ movers' = movers \ {v}
  /\ quietMove /\ UNCHANGED <<gen, down, lost>>

Move(v) == \/ MoveLock(v) \/ MergeLoad(v) \/ MergeStore(v) \/ MergeCheck(v) \/ MergePut(v)
           \/ MergePanics(v) \/ MoveDrop(v) \/ MoveFails(v)

-----------------------------------------------------------------------------
FsckNext == \/ Next /\ UNCHANGED moveVars
            \/ \E r \in Ring, u \in SUBSET Node : Distribute(r, u)
            \/ \E p \in push : UpdateOwners(p) \/ UpdateBackups(p) \/ PushFails(p)
            \/ Pushed
            \/ \E n \in Node : FsckStart(n) \/ FsckEnd(n)
            \/ \E v \in movers : Move(v)

FsckSpec == InitFsck /\ [][FsckNext]_allVars

\* Goroutines go on when they can, and requests reach a node that is up.
MoveStep == \/ \E p \in push : UpdateOwners(p) \/ UpdateBackups(p) \/ PushFails(p)
            \/ Pushed
            \/ \E n \in Node : FsckStart(n) \/ FsckEnd(n)
            \/ \E v \in movers : Move(v)

FairFsckSpec == /\ FsckSpec
                /\ WF_allVars(MoveStep)
                /\ \A t \in Thread : /\ WF_allVars(Step(t) /\ UNCHANGED moveVars)
                                    /\ WF_allVars(Background(t) /\ UNCHANGED moveVars)

-----------------------------------------------------------------------------
(* Properties. *)

TypeOKFsck ==
  /\ owners \in [Node -> Seq(Node)] /\ backups \in [Node -> Seq(Node)]
  /\ m \in [Node -> [Part -> Obj \cup {None}]] /\ count \in [Node -> [Part -> Int]]
  /\ updates \in 0 .. MaxUpdates /\ phase \in {"idle", "push", "fsck"}
  /\ \A p \in push : p.to \in Node /\ p.owners \in Seq(Node) /\ p.owners # <<>> /\ p.backups \in Seq(Node)
  /\ queue \in [Node -> Nat] /\ running \subseteq Node
  /\ \A v \in movers : v.from \in Node /\ v.to \in Node /\ v.dm \in Obj /\ v.val \in Entry

\* No table is on its way, no fsck runs and no operation is under way.
settled == /\ phase = "idle" /\ push = {} /\ \A n \in Node : queue[n] = 0
           /\ \A t \in Thread : pc[t] \in {"idle", "done"}

primaryOwner == Last(owners[Coordinator])

\* README.md:284, "Until the move is done, the data remains available on the
\* previous owners": an owner the coordinator knows of has the value written last,
\* whichever requests are lost, unless a delete is under way or has failed.
DataAvailable ==
  (/\ down = {} /\ latest # None /\ undestroyed
   /\ \A t \in Thread : Kind[t] = "delete" => pc[t] = "idle" \/ acked(t))
  => \E n \in Range(owners[Coordinator]) : here(n, "primary") = latest

\* When fsck has moved a dmap without failures the primary owner has the value
\* written last, and nobody else has a value: neither an older copy that comes
\* with the dmap nor one left behind wins over a put or a delete.
OneCopyLeft ==
  (settled /\ quiet /\ undestroyed /\ updates > 0) =>
     \A n \in Node : here(n, "primary") = IF n = primaryOwner THEN latest ELSE None

\* README.md:273, fsck "moves the partitions and backups to their new hosts": a
\* value that does not change meanwhile is on the backups a put would write to.
BackupsMoved ==
  (settled /\ quiet /\ updates > 0 /\ BackupCount > 0 /\ \A t \in Thread : writer(t) => pc[t] = "idle") =>
     \A n \in Range(PutTargets(Coordinator)) : here(n, "backup") = latest

\* README.md:287, "the fsck component is designed to fix that in a short time".
FsckEnds == \A n \in Node : queue[n] > 0 ~> queue[n] = 0 \/ n \in down
=============================================================================
