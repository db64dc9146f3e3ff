------------------------------- MODULE Cluster -------------------------------
(***************************************************************************)
(* Membership and the partition table: discovery.go, routing.go and the    *)
(* start of a node (olric.go).                                             *)
(*                                                                         *)
(* memberlist tells a node who is alive.  It calls the event delegate with *)
(* its nodeLock held, and the delegate sends the event to eventsCh         *)
(* (capacity 32 in the code, Cap here); eventLoop forwards it to the       *)
(* subscriber's channel of the same capacity; listenMemberlistEvents       *)
(* applies it to the hash ring and, on the coordinator, computes and       *)
(* pushes the table.  So a node works with two pictures of the cluster:    *)
(* the view of memberlist, read through Members(), and the ring, which     *)
(* lags behind it by the events in flight.                                 *)
(*                                                                         *)
(* One partition without data stands for all of them.  A host is a name    *)
(* with the birthdate of the process that carries it: hostCmp compares     *)
(* both, the ring only the name.  memberlist and consistent are external.  *)
(***************************************************************************)
EXTENDS Integers, Sequences, FiniteSets

CONSTANTS
    Node,       \* names of the nodes
    None,
    Setup       \* set of the initial situations to explore

\* The events of memberlist.
Event == [ev : {"join", "leave", "update"}, name : Node]

ASSUME NoneFresh == \A e \in Event : e # None
ASSUME SetupType == \A s \in Setup : /\ s.up \subseteq Node /\ Cardinality(s.up) \in Nat
                                     /\ \A n \in s.up : s.birth[n] \in Nat

VARIABLES
    setup,
    clock,      \* birthdate of the process started last
    stage,      \* stage[n]: "off", "joining" (in join), "joined", "running"
    birth,      \* birthdate of the process that carries the name n
    live,       \* live[n]: the names memberlist on n holds to be alive
    meta,       \* meta[n][m]: the birthdate it knows of m, dead or alive
    pend,       \* event whose send to eventsCh blocks, nodeLock held; or None
    eventsCh,
    sends,      \* what handleEvent on n has still to send to the subscriber
    eventCh,    \* the channel listenMemberlistEvents receives from
    ring,       \* db.consistent: hosts, at most one of a name
    upd,        \* upd[n][u]: the goroutine u of n in updateRouting
    owners,     \* part.owners on n
    boot,       \* db.bcx: "wait", "ok" (bcancel called), "timeout"
    push,       \* OpUpdateRouting requests that have not been executed
    panicked,   \* a process ended in a slice out of range
    losses      \* wrong suspicions and broken connections so far

vars == <<setup, clock, stage, birth, live, meta, pend, eventsCh, sends, eventCh,
          ring, upd, owners, boot, push, panicked, losses>>

\* The state of a node that neither memberlist nor the channels touch.
table == <<ring, upd, owners, boot, push, panicked>>

\* eventChanCapacity: 32 in the code, a few in a setup.
Cap == setup.cap

\* The callers of updateRouting: listenMemberlistEvents and
\* updateRoutingPeriodically.
Updater == {"listen", "tick"}

host(n) == [name |-> n, birth |-> birth[n]]
Alive(n) == stage[n] # "off"
event(e, n) == [ev |-> e, name |-> n]

\* getMembers: the hosts memberlist on n holds to be alive.
getMembers(n) == {[name |-> m, birth |-> meta[n][m]] : m \in live[n]}

\* isCoordinator: the oldest host of the node's own view is the node itself.
isCoordinator(n) == \A h \in getMembers(n) : birth[n] <= h.birth

\* GetPartitionOwner: consistent hashing picks a member by the names alone;
\* the order of the setup stands for the hash function.
GetPartitionOwner(r) ==
    LET rank(h) == CHOOSE i \in DOMAIN setup.order : setup.order[i] = h.name
    IN  CHOOSE h \in r : \A g \in r : rank(h) <= rank(g)

Init ==
    /\ setup \in Setup
    /\ clock = Cardinality(setup.up)
    /\ stage = [n \in Node |-> IF n \in setup.up THEN "running" ELSE "off"]
    /\ birth = [n \in Node |-> IF n \in setup.up THEN setup.birth[n] ELSE 0]
    /\ live = [n \in Node |-> IF n \in setup.up THEN setup.up ELSE {}]
    /\ meta = [n \in Node |-> IF n \in setup.up THEN birth ELSE [m \in Node |-> 0]]
    /\ ring = [n \in Node |-> getMembers(n)]
    /\ pend = [n \in Node |-> None]
    /\ eventsCh = [n \in Node |-> <<>>]
    /\ sends = eventsCh
    /\ eventCh = eventsCh
    /\ upd = [n \in Node |-> [u \in Updater |-> "idle"]]
    /\ owners = [n \in Node |-> IF n \in setup.up
                                THEN <<GetPartitionOwner(ring[n])>> ELSE <<>>]
    /\ boot = [n \in Node |-> IF n \in setup.up THEN "ok" ELSE "wait"]
    /\ push = {}
    /\ panicked = {}
    /\ losses = 0

-----------------------------------------------------------------------------
(* memberlist (external) and the channels of discovery                      *)

\* A call of the event delegate: the send blocks while eventsCh is full.
Notify(n, e) ==
    IF Len(eventsCh[n]) < Cap
    THEN /\ eventsCh' = [eventsCh EXCEPT ![n] = Append(@, e)]
         /\ UNCHANGED pend
    ELSE /\ pend' = [pend EXCEPT ![n] = e]
         /\ UNCHANGED eventsCh

\* The blocked send goes through when eventLoop has made room.
Unblock(n) ==
    /\ pend[n] # None
    /\ Len(eventsCh[n]) < Cap
    /\ eventsCh' = [eventsCh EXCEPT ![n] = Append(@, pend[n])]
    /\ pend' = [pend EXCEPT ![n] = None]
    /\ UNCHANGED <<setup, clock, stage, birth, live, meta, sends, eventCh, ring,
                   upd, owners, boot, push, panicked, losses>>

\* n learns of the process that carries m now: a join, or an update when it
\* knew of an earlier process of that name.
LearnAlive(n, m) ==
    /\ Alive(n) /\ Alive(m) /\ n # m
    /\ pend[n] = None
    /\ host(m) \notin getMembers(n)
    /\ live' = [live EXCEPT ![n] = @ \cup {m}]
    /\ meta' = [meta EXCEPT ![n][m] = birth[m]]
    /\ Notify(n, event(IF m \in live[n] THEN "update" ELSE "join", m))
    /\ UNCHANGED <<setup, clock, stage, birth, sends, eventCh, ring, upd,
                   owners, boot, push, panicked, losses>>

\* n takes m for dead: m is, or (a fault) n has not heard of it for a while.
LearnDead(n, m) ==
    /\ Alive(n) /\ n # m
    /\ pend[n] = None
    /\ m \in live[n]
    /\ \/ ~Alive(m) /\ UNCHANGED losses
       \/ Alive(m) /\ losses < setup.losses /\ losses' = losses + 1
    /\ live' = [live EXCEPT ![n] = @ \ {m}]
    /\ Notify(n, event("leave", m))
    /\ UNCHANGED <<setup, clock, stage, birth, meta, sends, eventCh, ring, upd,
                   owners, boot, push, panicked>>

\* Mutant: an update is sent on as a join.
handleEventJoins(n, e) ==
    IF e.name = n THEN <<>> ELSE <<[e EXCEPT !.ev = IF @ = "update" THEN "join" ELSE @]>>

\* handleEvent: the node's own events are skipped, an update is sent on as a
\* leave and a join.
handleEvent(n, e) ==
    IF e.name = n THEN <<>>
    ELSE IF e.ev = "update" THEN <<event("leave", e.name), event("join", e.name)>>
    ELSE <<e>>

\* eventLoop receives an event; it runs as soon as join has returned.
eventLoop(n) ==
    /\ stage[n] \in {"joined", "running"}
    /\ sends[n] = <<>>
    /\ eventsCh[n] # <<>>
    /\ sends' = [sends EXCEPT ![n] = handleEvent(n, Head(eventsCh[n]))]
    /\ eventsCh' = [eventsCh EXCEPT ![n] = Tail(@)]
    /\ UNCHANGED <<setup, clock, stage, birth, live, meta, pend, eventCh, ring, upd,
                   owners, boot, push, panicked, losses>>

\* One `ch <- event` of handleEvent; it blocks while the channel is full.
SendEvent(n) ==
    /\ sends[n] # <<>>
    /\ Len(eventCh[n]) < Cap
    /\ eventCh' = [eventCh EXCEPT ![n] = Append(@, Head(sends[n]))]
    /\ sends' = [sends EXCEPT ![n] = Tail(@)]
    /\ UNCHANGED <<setup, clock, stage, birth, live, meta, pend, eventsCh, ring,
                   upd, owners, boot, push, panicked, losses>>

-----------------------------------------------------------------------------
(* The partition table                                                      *)

Last(s) == s[Len(s)]
Front(s) == SubSeq(s, 1, Len(s) - 1)

\* distributePrimaryCopies up to "Prune empty nodes": the list with the
\* owner the ring names at its end, without the hosts the view does not have.
pruneDead(n, r) ==
    LET own == GetPartitionOwner(r)
        isAnother(h) == h # own
        inView(h) == h \in getMembers(n)
    IN  SelectSeq(Append(SelectSeq(owners[n], isAnother), own), inView)

\* "Prune empty nodes": an owner before the last stays when it cannot be
\* asked (a partition without data says it is empty).
distributePrimaryCopies(n, r) ==
    LET tmp == pruneDead(n, r)
        silent(h) == ~Alive(h.name)
    IN  IF owners[n] = <<>>
        THEN <<GetPartitionOwner(r)>>
        ELSE SelectSeq(Front(tmp), silent) \o <<Last(tmp)>>

\* tmp[:len(tmp)-1] with an empty tmp.
outOfRange(n) == owners[n] # <<>> /\ pruneDead(n, ring[n]) = <<>>

\* The process of n ends; requests it has not executed are lost with it,
\* those it has sent are not.
Dies(n) ==
    /\ stage' = [stage EXCEPT ![n] = "off"]
    /\ live' = [live EXCEPT ![n] = {}]
    /\ meta' = [meta EXCEPT ![n] = [m \in Node |-> 0]]
    /\ ring' = [ring EXCEPT ![n] = {}]
    /\ pend' = [pend EXCEPT ![n] = None]
    /\ eventsCh' = [eventsCh EXCEPT ![n] = <<>>]
    /\ sends' = [sends EXCEPT ![n] = <<>>]
    /\ eventCh' = [eventCh EXCEPT ![n] = <<>>]
    /\ upd' = [upd EXCEPT ![n] = [u \in Updater |-> "idle"]]
    /\ owners' = [owners EXCEPT ![n] = <<>>]
    /\ boot' = [boot EXCEPT ![n] = "wait"]
    /\ push' = {r \in push : r.to # n}
    /\ UNCHANGED <<setup, clock, birth, losses>>

\* processNodeEvent: consistent.Add does nothing when it has the name, and
\* takes the metadata memberlist holds by now (the event has a pointer);
\* consistent.Remove goes by the name.
processNodeEvent(n, e) ==
    LET same == {h \in ring[n] : h.name = e.name}
    IN  IF e.ev = "leave" THEN ring[n] \ same
        ELSE IF same # {} THEN ring[n]
        ELSE ring[n] \cup {[name |-> e.name, birth |-> meta[n][e.name]]}

\* listenMemberlistEvents receives an event and calls updateRouting.
Listen(n) ==
    /\ stage[n] = "running"
    /\ upd[n]["listen"] = "idle"
    /\ eventCh[n] # <<>>
    /\ ring' = [ring EXCEPT ![n] = processNodeEvent(n, Head(eventCh[n]))]
    /\ eventCh' = [eventCh EXCEPT ![n] = Tail(@)]
    /\ upd' = [upd EXCEPT ![n]["listen"] = "check"]
    /\ UNCHANGED <<setup, clock, stage, birth, live, meta, pend, eventsCh, sends,
                   owners, boot, push, panicked, losses>>

\* Mutant: updateRoutingPeriodically is never started.
TickNot(n) == FALSE /\ UNCHANGED vars

\* The 5 minute ticker of updateRoutingPeriodically fires.
Tick(n) ==
    /\ stage[n] = "running"
    /\ upd[n]["tick"] = "idle"
    /\ upd' = [upd EXCEPT ![n]["tick"] = "check"]
    /\ UNCHANGED <<setup, clock, stage, birth, live, meta, pend, eventsCh,
                   sends, eventCh, ring, owners, boot, push, panicked, losses>>

\* updateRouting asks isCoordinator, before it takes routingMx.  Members()
\* waits for nodeLock.
CheckCoordinator(n, u) ==
    /\ upd[n][u] = "check"
    /\ pend[n] = None
    /\ upd' = [upd EXCEPT ![n][u] = IF isCoordinator(n) THEN "want" ELSE "idle"]
    /\ UNCHANGED <<setup, clock, stage, birth, live, meta, pend, eventsCh,
                   sends, eventCh, ring, owners, boot, push, panicked, losses>>

\* Under routingMx: distributePartitions, and the requests of
\* updateRoutingOnCluster to the members of the ring.
Distribute(n, u) ==
    /\ upd[n][u] = "want"
    /\ \A w \in Updater : upd[n][w] # "push"
    /\ pend[n] = None
    /\ ~outOfRange(n)
    /\ LET rt == distributePrimaryCopies(n, ring[n])
       IN  /\ owners' = [owners EXCEPT ![n] = rt]
           /\ push' = push \cup
                 {[from |-> host(n), to |-> h.name, rt |-> rt] : h \in ring[n] \ {host(n)}}
    /\ upd' = [upd EXCEPT ![n][u] = "push"]
    /\ UNCHANGED <<setup, clock, stage, birth, live, meta, pend, eventsCh,
                   sends, eventCh, ring, boot, panicked, losses>>

\* distributePrimaryCopies panics: the process ends.
DistributePanics(n, u) ==
    /\ upd[n][u] = "want"
    /\ \A w \in Updater : upd[n][w] # "push"
    /\ pend[n] = None
    /\ outOfRange(n)
    /\ Dies(n)
    /\ panicked' = panicked \cup {n}

\* updateRoutingOperation: the table is replaced, the node is bootstrapped.
\* bcancel after the deadline does nothing.
updateRoutingOperation(r) ==
    /\ r \in push
    /\ Alive(r.to)
    /\ owners' = [owners EXCEPT ![r.to] = r.rt]
    /\ boot' = [boot EXCEPT ![r.to] = IF @ = "wait" THEN "ok" ELSE @]
    /\ push' = push \ {r}
    /\ UNCHANGED <<setup, clock, stage, birth, live, meta, pend, eventsCh,
                   sends, eventCh, ring, upd, panicked, losses>>

\* The request fails: nobody listens at the address, or (a fault) the
\* connection breaks.  The error is only logged.
PushFails(r) ==
    /\ r \in push
    /\ \/ ~Alive(r.to) /\ UNCHANGED losses
       \/ Alive(r.to) /\ losses < setup.losses /\ losses' = losses + 1
    /\ push' = push \ {r}
    /\ UNCHANGED <<setup, clock, stage, birth, live, meta, pend, eventsCh,
                   sends, eventCh, ring, upd, owners, boot, panicked>>

\* g.Wait returns when every request is answered; routingMx is released.
UpdateReturns(n, u) ==
    /\ upd[n][u] = "push"
    /\ \A r \in push : r.from # host(n)
    /\ upd' = [upd EXCEPT ![n][u] = "idle"]
    /\ UNCHANGED <<setup, clock, stage, birth, live, meta, pend, eventsCh,
                   sends, eventCh, ring, owners, boot, push, panicked, losses>>

-----------------------------------------------------------------------------
(* The life of a process                                                    *)

\* New and newDiscovery: memberlist.Create sends the join of the node itself.
Start(n) ==
    /\ stage[n] = "off"
    /\ n \in setup.start
    /\ clock < setup.births
    /\ clock' = clock + 1
    /\ stage' = [stage EXCEPT ![n] = "joining"]
    /\ birth' = [birth EXCEPT ![n] = clock + 1]
    /\ live' = [live EXCEPT ![n] = {n}]
    /\ meta' = [meta EXCEPT ![n][n] = clock + 1]
    /\ eventsCh' = [eventsCh EXCEPT ![n] = <<event("join", n)>>]
    /\ UNCHANGED <<setup, pend, sends, eventCh, ring, upd, owners, boot, push,
                   panicked, losses>>

\* join returns: the peers' members are merged, or no peer was reached.  A
\* blocked send holds it up.
JoinReturns(n) ==
    /\ stage[n] = "joining"
    /\ pend[n] = None
    /\ stage' = [stage EXCEPT ![n] = "joined"]
    /\ UNCHANGED <<setup, clock, birth, live, meta, pend, eventsCh, sends,
                   eventCh, table, losses>>

\* The rest of startDiscovery: the node adds itself to the ring; the
\* coordinator distributes the partitions and bootstraps itself.
Begin(n) ==
    /\ stage[n] = "joined"
    /\ pend[n] = None
    /\ stage' = [stage EXCEPT ![n] = "running"]
    /\ ring' = [ring EXCEPT ![n] = {host(n)}]
    /\ IF isCoordinator(n)
       THEN /\ owners' = [owners EXCEPT ![n] = distributePrimaryCopies(n, {host(n)})]
            /\ boot' = [boot EXCEPT ![n] = IF @ = "wait" THEN "ok" ELSE @]
       ELSE UNCHANGED <<owners, boot>>
    /\ UNCHANGED <<setup, clock, birth, live, meta, pend, eventsCh, sends,
                   eventCh, upd, push, panicked, losses>>

\* bootstrapTimeoutDuration is over.
BootTimeout(n) ==
    /\ setup.slow
    /\ Alive(n)
    /\ boot[n] = "wait"
    /\ boot' = [boot EXCEPT ![n] = "timeout"]
    /\ UNCHANGED <<setup, clock, stage, birth, live, meta, pend, eventsCh,
                   sends, eventCh, ring, upd, owners, push, panicked, losses>>

\* A process of the initial cluster is killed; setup.crash are the names
\* this may happen to.
Crash(n) ==
    /\ n \in setup.crash
    /\ Alive(n)
    /\ birth[n] = setup.birth[n]
    /\ Dies(n)
    /\ UNCHANGED panicked

-----------------------------------------------------------------------------
\* The goroutines of a process: memberlist's, eventLoop, the one that runs
\* Start, and the two that call updateRouting.
DiscoveryStep(n) == eventLoop(n) \/ SendEvent(n)
StartStep(n) == JoinReturns(n) \/ Begin(n)
UpdateStep(n, u) ==
    \/ u = "listen" /\ Listen(n)
    \/ u = "tick" /\ Tick(n)
    \/ CheckCoordinator(n, u) \/ UpdateReturns(n, u)
LockedStep(n, u) == Distribute(n, u) \/ DistributePanics(n, u)
Requests == \E r \in push : updateRoutingOperation(r) \/ PushFails(r)

Next ==
    \/ \E n \in Node :
          \/ Unblock(n) \/ DiscoveryStep(n) \/ StartStep(n)
          \/ \E u \in Updater : UpdateStep(n, u) \/ LockedStep(n, u)
          \/ Start(n) \/ BootTimeout(n) \/ Crash(n)
          \/ \E m \in Node : LearnAlive(n, m) \/ LearnDead(n, m)
    \/ Requests

Spec == Init /\ [][Next]_vars

\* The goroutines of a live process are scheduled and the ticker fires; a
\* goroutine that waits for routingMx gets it in the end, Go's mutex being
\* free of starvation; requests are executed or refused; memberlist finds
\* out who is alive.
FairSpec ==
    /\ Spec
    /\ WF_vars(Requests)
    /\ \A n \in Node : WF_vars(Unblock(n)) /\ WF_vars(DiscoveryStep(n)) /\ WF_vars(StartStep(n))
    /\ \A n \in Node, u \in Updater : WF_vars(UpdateStep(n, u)) /\ SF_vars(LockedStep(n, u))
    /\ \A n, m \in Node : WF_vars(LearnAlive(n, m)) /\ WF_vars(LearnDead(n, m) /\ ~Alive(m))

-----------------------------------------------------------------------------
\* Type invariant of the membership and the table (discovery.go, routing.go):
\* the channels keep to their capacity, a ring has one host of a name.
TypeOK ==
    /\ clock \in 0..setup.births
    /\ \A n \in Node :
          /\ live[n] \subseteq Node
          /\ Len(eventsCh[n]) <= Cap /\ Len(eventCh[n]) <= Cap
          /\ \A g, h \in ring[n] : g.name = h.name => g = h

\* No event of n is in flight between memberlist and the ring.
Quiet(n) == /\ stage[n] = "running"
            /\ pend[n] = None
            /\ eventsCh[n] = <<>> /\ sends[n] = <<>> /\ eventCh[n] = <<>>

\* The ring of a node (processNodeEvent) catches up with memberlist: once
\* every event has been handled it has the hosts of the view, each with the
\* birthdate of its present process, whatever joined, left, restarted or was
\* wrongly suspected while events were waiting in the two channels.
RingFollowsView ==
    \A n \in Node : Quiet(n) => ring[n] = getMembers(n)

\* All the nodes that are up have the same table, and it names one of the
\* processes that are up.
Agreed ==
    LET up == {n \in Node : Alive(n)}
    IN  up # {} => \E n \in up : \A m \in up : owners[m] = <<host(n)>>

\* When the cluster stays as it is, the nodes agree in the end on a table
\* without dead owners (updateRouting, updateRoutingOperation), although two
\* nodes may have taken themselves for the coordinator and a request of a
\* dead coordinator may overwrite the table of the next one.
TablesAgree == <>[]Agreed

\* What the code does not guarantee.  distributePrimaryCopies finds a live
\* owner in the list ("tmp" is never empty): the ring still names a host the
\* view has lost, and the slice expression ends the process.
NoPanic == panicked = {}

\* "Start starts background servers and joins the cluster." (olric.go:310):
\* a node that joins gets past join.  It does not when the members it learns
\* of outnumber eventChanCapacity, as nobody receives from eventsCh yet.
StartJoins == \A n \in Node : stage[n] = "joining" ~> stage[n] \in {"running", "off"}

\* A running node that has been given the table serves: not when the table
\* comes after bootstrapTimeoutDuration, as locateHKey then fails for good.
LateTableServes ==
    \A n \in Node : (stage[n] = "running" /\ owners[n] # <<>>) ~> (boot[n] = "ok" \/ ~Alive(n))
=============================================================================
