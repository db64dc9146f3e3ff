---------------------------- MODULE ClusterProofs ----------------------------
(***************************************************************************)
(* The hash ring of a node catches up with memberlist, for any number of   *)
(* nodes, any capacity of the channels and any joins, leaves, restarts and *)
(* wrong suspicions.                                                       *)
(*                                                                         *)
(* An event says how the view changed when it was sent, and the ring gets  *)
(* it later.  The invariant is that the events that are on their way lead  *)
(* from the names in the ring to the names in the view (Follows): through  *)
(* the channel of the subscriber, what eventLoop still has to send, the    *)
(* channel of memberlist, and the send that waits.  A join so always finds *)
(* its name missing in the ring, which is why consistent.Add, that keeps   *)
(* what it has, never keeps an earlier process of the name.  A host in the *)
(* ring has the birthdate memberlist knows, or is about to leave (Dated).  *)
(***************************************************************************)
EXTENDS Cluster, TLAPS

Host == [name : Node, birth : Nat]
Sent == [ev : {"join", "leave"}, name : Node]

TypesOK ==
  /\ setup \in Setup
  /\ clock \in Nat
  /\ stage \in [Node -> {"off", "joining", "joined", "running"}]
  /\ birth \in [Node -> Nat]
  /\ live \in [Node -> SUBSET Node]
  /\ meta \in [Node -> [Node -> Nat]]
  /\ pend \in [Node -> Event \cup {None}]
  /\ eventsCh \in [Node -> Seq(Event)]
  /\ sends \in [Node -> Seq(Sent)]
  /\ eventCh \in [Node -> Seq(Sent)]
  /\ ring \in [Node -> SUBSET Host]

\* What an event does to a set of names at n; its own name is there always.
Turn(n, e, X, Y) ==
  \/ e.name = n /\ e.ev = "join" /\ Y = X
  \/ e.name # n /\ e.ev = "join" /\ e.name \notin X /\ Y = X \cup {e.name}
  \/ e.name # n /\ e.ev = "leave" /\ e.name \in X /\ Y = X \ {e.name}
  \/ e.name # n /\ e.ev = "update" /\ e.name \in X /\ Y = X

\* An event that takes m away, if only to bring it back.
takes(e, m) == e.name = m /\ e.ev # "join"
Takes(s, m, i) == \E j \in i..Len(s) : takes(s[j], m)

\* The events of s lead from X to Y, by way of the sets in v.
Path(n, s, v) ==
  /\ Len(v) = Len(s) + 1
  /\ \A i \in 1..Len(s) : Turn(n, s[i], v[i], v[i + 1])
  /\ \A i \in 1..Len(s) + 1 : \A m \in v[i] : m \in v[Len(s) + 1] \/ Takes(s, m, i)

Leads(n, s, X, Y) == \E v \in Seq(SUBSET Node) : Path(n, s, v) /\ v[1] = X /\ v[Len(s) + 1] = Y

names(n) == {h.name : h \in ring[n]}

\* The ring follows the view.
Follows(n) ==
  \E A, B, C \in SUBSET Node :
     /\ Leads(n, eventCh[n], names(n) \cup {n}, A)
     /\ Leads(n, sends[n], A, B)
     /\ Leads(n, eventsCh[n], B, C)
     /\ IF pend[n] = None THEN C = live[n] ELSE Turn(n, pend[n], C, live[n])

\* m is about to leave the ring of n.
leaves(n, m) == \/ Takes(eventCh[n], m, 1) \/ Takes(sends[n], m, 1) \/ Takes(eventsCh[n], m, 1)
                \/ pend[n] # None /\ takes(pend[n], m)

Dated(n) == \A h \in ring[n] : h.birth = meta[n][h.name] \/ leaves(n, h.name)

Local(n) ==
  /\ stage[n] = "off" => /\ ring[n] = {} /\ pend[n] = None
                         /\ eventsCh[n] = <<>> /\ sends[n] = <<>> /\ eventCh[n] = <<>>
  /\ stage[n] \in {"joining", "joined"} => ring[n] = {}
  /\ stage[n] = "running" => n \in names(n)
  /\ stage[n] # "off" => meta[n][n] = birth[n] /\ Follows(n) /\ Dated(n)

RInv == TypesOK /\ \A n \in Node : Local(n)

-----------------------------------------------------------------------------
(* Sequences of events. *)

\* No event leads nowhere.
LEMMA LeadsEmpty ==
  ASSUME NEW n, NEW X \in SUBSET Node
  PROVE  /\ Leads(n, <<>>, X, X)
         /\ \A Y : Leads(n, <<>>, X, Y) => Y = X
         /\ \A m : ~Takes(<<>>, m, 1)
  <1>1. ASSUME NEW v, v = <<X>> PROVE v \in Seq(SUBSET Node) /\ Path(n, <<>>, v) /\ v[1] = X /\ v[Len(<<>>) + 1] = X
    BY <1>1 DEF Path
  <1>2. Leads(n, <<>>, X, X)
    BY <1>1, Zenon DEF Leads
  <1>3. \A Y : Leads(n, <<>>, X, Y) => Y = X
    BY DEF Leads
  <1>4. \A m : ~Takes(<<>>, m, 1)
    BY DEF Takes
  <1> QED
    BY <1>2, <1>3, <1>4, Zenon

\* One event more leads one step further.
LEMMA LeadsAppend ==
  ASSUME NEW n, NEW E, NEW s \in Seq(E), NEW e \in E,
         NEW X \in SUBSET Node, NEW Y \in SUBSET Node, NEW Z \in SUBSET Node,
         Leads(n, s, X, Y), Turn(n, e, Y, Z)
  PROVE  /\ Append(s, e) \in Seq(E) /\ Leads(n, Append(s, e), X, Z)
         /\ \A m : Takes(Append(s, e), m, 1) <=> Takes(s, m, 1) \/ takes(e, m)
  <1>1. PICK v \in Seq(SUBSET Node) : Path(n, s, v) /\ v[1] = X /\ v[Len(s) + 1] = Y
    BY Zenon DEF Leads
  <1>2. PICK t : t = Append(s, e)
    OBVIOUS
  <1>3. PICK x : x = Append(v, Z)
    OBVIOUS
  <1>4. /\ t \in Seq(E) /\ Len(t) = Len(s) + 1 /\ Len(s) \in Nat
        /\ t[Len(s) + 1] = e /\ \A i \in 1..Len(s) : t[i] = s[i]
    BY <1>2
  <1>5. /\ x \in Seq(SUBSET Node) /\ Len(x) = Len(v) + 1 /\ Len(v) \in Nat /\ Len(v) = Len(s) + 1
        /\ x[Len(v) + 1] = Z /\ \A i \in 1..Len(v) : x[i] = v[i]
    BY <1>1, <1>3 DEF Path
  <1>6. \A m, i : i \in 1..Len(t) => (Takes(t, m, i) <=> (i \in 1..Len(s) /\ Takes(s, m, i)) \/ takes(e, m))
    <2>1. ASSUME NEW m, NEW i \in 1..Len(t) PROVE Takes(t, m, i) <=> (i \in 1..Len(s) /\ Takes(s, m, i)) \/ takes(e, m)
      <3>1. \A j : j \in i..Len(t) <=> (i \in 1..Len(s) /\ j \in i..Len(s)) \/ j = Len(s) + 1
        BY <1>4
      <3>2. \A j \in i..Len(s) : j \in 1..Len(s)
        BY <1>4
      <3> QED
        BY <1>4, <3>1, <3>2, Zenon DEF Takes
    <2> QED
      BY <2>1, Zenon
  <1>7. Len(x) = Len(t) + 1
    BY <1>4, <1>5
  <1>8. ASSUME NEW i \in 1..Len(t) PROVE Turn(n, t[i], x[i], x[i + 1])
    <2>1. CASE i \in 1..Len(s)
      <3>1. Turn(n, s[i], v[i], v[i + 1])
        BY <1>1, <2>1, Zenon DEF Path
      <3>2. t[i] = s[i] /\ x[i] = v[i] /\ x[i + 1] = v[i + 1]
        BY <1>4, <1>5, <2>1
      <3> QED
        BY <3>1, <3>2, Zenon
    <2>2. CASE i = Len(s) + 1
      <3>1. t[i] = e /\ x[i] = Y /\ x[i + 1] = Z
        BY <1>1, <1>4, <1>5, <2>2
      <3> QED
        BY <3>1, Zenon
    <2>3. i \in 1..Len(s) \/ i = Len(s) + 1
      BY <1>4
    <2> QED
      BY <2>1, <2>2, <2>3, Zenon
  <1>9. ASSUME NEW i \in 1..Len(t) + 1, NEW m \in x[i] PROVE m \in x[Len(t) + 1] \/ Takes(t, m, i)
    <2>1. x[Len(t) + 1] = Z
      BY <1>4, <1>5
    <2>2. m \in Y => m \in Z \/ takes(e, m)
      BY DEF Turn, takes
    <2>3. CASE i = Len(t) + 1
      BY <2>3, Zenon
    <2>4. CASE i \in 1..Len(t)
      <3>1. x[i] = v[i] /\ i \in 1..Len(s) + 1
        BY <1>4, <1>5, <2>4
      <3>2. m \in Y \/ Takes(s, m, i)
        BY <1>1, <3>1, Zenon DEF Path
      <3>3. Takes(s, m, i) => i \in 1..Len(s)
        BY <1>4, <2>4 DEF Takes
      <3> QED
        BY <1>6, <2>1, <2>2, <2>4, <3>2, <3>3, Zenon
    <2>5. i = Len(t) + 1 \/ i \in 1..Len(t)
      BY <1>4
    <2> QED
      BY <2>3, <2>4, <2>5, Zenon
  <1>10. Path(n, t, x)
    BY <1>7, <1>8, <1>9, Zenon DEF Path
  <1>11. x[1] = X /\ x[Len(t) + 1] = Z
    BY <1>1, <1>4, <1>5
  <1>12. Leads(n, t, X, Z)
    BY <1>5, <1>10, <1>11, Zenon DEF Leads
  <1>13. \A m : Takes(t, m, 1) <=> Takes(s, m, 1) \/ takes(e, m)
    <2>1. 1 \in 1..Len(t)
      BY <1>4
    <2>2. \A m : Takes(s, m, 1) => 1 \in 1..Len(s)
      BY <1>4 DEF Takes
    <2> QED
      BY <1>6, <2>1, <2>2, Zenon
  <1> QED
    BY <1>2, <1>4, <1>12, <1>13, Zenon

\* The first event leads the first step.
LEMMA LeadsTail ==
  ASSUME NEW n, NEW E, NEW s \in Seq(E), s # <<>>,
         NEW X \in SUBSET Node, NEW Y \in SUBSET Node, Leads(n, s, X, Y)
  PROVE  /\ Tail(s) \in Seq(E) /\ Head(s) \in E
         /\ \E Z \in SUBSET Node : Turn(n, Head(s), X, Z) /\ Leads(n, Tail(s), Z, Y)
         /\ \A m : Takes(s, m, 1) <=> takes(Head(s), m) \/ Takes(Tail(s), m, 1)
  <1>1. PICK v \in Seq(SUBSET Node) : Path(n, s, v) /\ v[1] = X /\ v[Len(s) + 1] = Y
    BY Zenon DEF Leads
  <1>2. PICK t : t = Tail(s)
    OBVIOUS
  <1>3. PICK x : x = Tail(v)
    OBVIOUS
  <1>4. /\ t \in Seq(E) /\ Len(s) = Len(t) + 1 /\ Len(t) \in Nat /\ Head(s) = s[1] /\ Head(s) \in E
        /\ \A i \in 1..Len(t) : t[i] = s[i + 1]
    BY <1>2
  <1>5. Len(v) = Len(t) + 2
    BY <1>1, <1>4 DEF Path
  <1>6. /\ x \in Seq(SUBSET Node) /\ Len(x) = Len(t) + 1
        /\ \A i \in 1..Len(t) + 1 : x[i] = v[i + 1]
    BY <1>3, <1>4, <1>5
  <1>7. ASSUME NEW i \in 1..Len(t) PROVE Turn(n, t[i], x[i], x[i + 1])
    <2>1. i + 1 \in 1..Len(s) /\ t[i] = s[i + 1] /\ x[i] = v[i + 1] /\ x[i + 1] = v[i + 1 + 1]
      BY <1>4, <1>6
    <2> QED
      BY <1>1, <2>1, Zenon DEF Path
  <1>8. \A m : \A i \in 1..Len(t) + 1 : Takes(s, m, i + 1) <=> Takes(t, m, i)
    <2>1. ASSUME NEW m, NEW i \in 1..Len(t) + 1, Takes(s, m, i + 1) PROVE Takes(t, m, i)
      <3>1. PICK j \in i + 1..Len(s) : takes(s[j], m)
        BY <2>1, Zenon DEF Takes
      <3>2. j - 1 \in i..Len(t) /\ t[j - 1] = s[j]
        BY <1>4, <3>1
      <3> QED
        BY <3>1, <3>2, Zenon DEF Takes
    <2>2. ASSUME NEW m, NEW i \in 1..Len(t) + 1, Takes(t, m, i) PROVE Takes(s, m, i + 1)
      <3>1. PICK j \in i..Len(t) : takes(t[j], m)
        BY <2>2, Zenon DEF Takes
      <3>2. j + 1 \in i + 1..Len(s) /\ t[j] = s[j + 1]
        BY <1>4, <3>1
      <3> QED
        BY <3>1, <3>2, Zenon DEF Takes
    <2> QED
      BY <2>1, <2>2, Zenon
  <1>9. x[Len(t) + 1] = Y /\ x[1] = v[2] /\ x[1] \in SUBSET Node
    BY <1>1, <1>4, <1>6
  <1>10. ASSUME NEW i \in 1..Len(t) + 1, NEW m \in x[i] PROVE m \in x[Len(t) + 1] \/ Takes(t, m, i)
    <2>1. i + 1 \in 1..Len(s) + 1 /\ x[i] = v[i + 1]
      BY <1>4, <1>6
    <2>2. m \in Y \/ Takes(s, m, i + 1)
      BY <1>1, <2>1, Zenon DEF Path
    <2> QED
      BY <1>8, <1>9, <2>2, Zenon
  <1>11. Leads(n, t, x[1], Y)
    <2>1. Path(n, t, x)
      BY <1>6, <1>7, <1>10, Zenon DEF Path
    <2> QED
      BY <1>6, <1>9, <2>1, Zenon DEF Leads
  <1>12. Turn(n, Head(s), X, x[1])
    <2>1. 1 \in 1..Len(s) /\ v[1 + 1] = v[2]
      BY <1>4
    <2>2. Turn(n, s[1], v[1], v[1 + 1])
      BY <1>1, <2>1, Zenon DEF Path
    <2> QED
      BY <1>1, <1>4, <1>9, <2>1, <2>2, Zenon
  <1>13. \A m : Takes(s, m, 1) <=> takes(Head(s), m) \/ Takes(t, m, 1)
    <2>1. \A m : Takes(s, m, 1) <=> takes(s[1], m) \/ Takes(s, m, 1 + 1)
      <3>1. \A j : j \in 1..Len(s) <=> j = 1 \/ j \in 1 + 1..Len(s)
        BY <1>4
      <3> QED
        BY <3>1, Zenon DEF Takes
    <2>2. 1 \in 1..Len(t) + 1
      BY <1>4
    <2> QED
      BY <1>4, <1>8, <2>1, <2>2, Zenon
  <1> QED
    BY <1>2, <1>4, <1>9, <1>11, <1>12, <1>13, Zenon

\* A name that is there at the beginning is there at the end, or is taken away.
LEMMA LeadsKeeps ==
  ASSUME NEW n, NEW E, NEW s \in Seq(E), NEW X, NEW Y, Leads(n, s, X, Y), NEW m \in X
  PROVE  m \in Y \/ Takes(s, m, 1)
  <1>1. 1 \in 1..Len(s) + 1
    OBVIOUS
  <1> QED
    BY <1>1, Zenon DEF Leads, Path

\* Nothing changes at a node.
LEMMA Elsewhere ==
  ASSUME NEW k \in Node, Local(k),
         stage'[k] = stage[k], birth'[k] = birth[k], live'[k] = live[k], meta'[k] = meta[k], pend'[k] = pend[k],
         eventsCh'[k] = eventsCh[k], sends'[k] = sends[k], eventCh'[k] = eventCh[k], ring'[k] = ring[k]
  PROVE  Local(k)'
  <1>1. names(k)' = names(k)
    BY Zenon DEF names
  <1>2. Follows(k) => Follows(k)'
    BY <1>1, Zenon DEF Follows
  <1>3. Dated(k) => Dated(k)'
    BY Zenon DEF Dated, leaves
  <1> QED
    BY <1>1, <1>2, <1>3, Zenon DEF Local

-----------------------------------------------------------------------------
(* The invariant holds at the beginning. *)

LEMMA InitRInv == Init => RInv
  <1> SUFFICES ASSUME Init PROVE RInv
    OBVIOUS
  <1>1. PICK up : up = setup.up
    OBVIOUS
  <1>2. up \in SUBSET Node /\ clock \in Nat /\ \A n \in up : setup.birth[n] \in Nat
    BY <1>1, SetupType DEF Init
  <1>3. /\ stage = [n \in Node |-> IF n \in up THEN "running" ELSE "off"]
        /\ birth = [n \in Node |-> IF n \in up THEN setup.birth[n] ELSE 0]
        /\ live = [n \in Node |-> IF n \in up THEN up ELSE {}]
        /\ meta = [n \in Node |-> IF n \in up THEN birth ELSE [m \in Node |-> 0]]
        /\ ring = [n \in Node |-> getMembers(n)]
        /\ pend = [n \in Node |-> None]
        /\ eventsCh = [n \in Node |-> <<>>] /\ sends = eventsCh /\ eventCh = eventsCh
        /\ setup \in Setup
    BY <1>1, Zenon DEF Init
  <1>4. birth \in [Node -> Nat]
    BY <1>2, <1>3
  <1>5. meta \in [Node -> [Node -> Nat]]
    BY <1>3, <1>4
  <1>6. live \in [Node -> SUBSET Node] /\ stage \in [Node -> {"off", "joining", "joined", "running"}]
    BY <1>2, <1>3
  <1>7. ring \in [Node -> SUBSET Host]
    <2>1. ASSUME NEW n \in Node PROVE getMembers(n) \in SUBSET Host
      <3>1. \A m \in live[n] : m \in Node /\ meta[n][m] \in Nat
        BY <1>5, <1>6
      <3> QED
        BY <3>1 DEF getMembers, Host
    <2> QED
      BY <1>3, <2>1, Zenon
  <1>8. /\ pend \in [Node -> Event \cup {None}] /\ eventsCh \in [Node -> Seq(Event)]
        /\ sends \in [Node -> Seq(Sent)] /\ eventCh \in [Node -> Seq(Sent)]
    BY <1>3
  <1>9. TypesOK
    BY <1>2, <1>3, <1>4, <1>5, <1>6, <1>7, <1>8, Zenon DEF TypesOK
  <1>10. ASSUME NEW n \in Node PROVE Local(n)
    <2>1. /\ ring[n] = getMembers(n) /\ pend[n] = None
          /\ eventsCh[n] = <<>> /\ sends[n] = <<>> /\ eventCh[n] = <<>>
      BY <1>3, Zenon
    <2>2. CASE n \notin up
      <3>1. stage[n] = "off" /\ live[n] = {}
        BY <1>3, <2>2, Zenon
      <3>2. ring[n] = {}
        BY <2>1, <3>1, Zenon DEF getMembers
      <3>3. "off" # "running" /\ "off" \notin {"joining", "joined"}
        OBVIOUS
      <3> QED
        BY <2>1, <3>1, <3>2, <3>3, Zenon DEF Local
    <2>3. CASE n \in up
      <3>1. stage[n] = "running" /\ live[n] = up /\ meta[n] = birth
        BY <1>3, <2>3, Zenon
      <3>2. names(n) = up
        <4>1. \A h \in ring[n] : h.name \in up
          BY <2>1, <3>1 DEF getMembers
        <4>2. \A m \in up : [name |-> m, birth |-> meta[n][m]] \in ring[n] /\ [name |-> m, birth |-> meta[n][m]].name = m
          BY <2>1, <3>1 DEF getMembers
        <4>3. \A m \in up : m \in names(n)
          BY <4>2, Zenon DEF names
        <4>4. \A m \in names(n) : m \in up
          BY <4>1, Zenon DEF names
        <4> QED
          BY <4>3, <4>4, Zenon
      <3>3. names(n) \cup {n} = up
        BY <3>2, <2>3
      <3>4. Follows(n)
        <4>1. Leads(n, <<>>, up, up)
          BY <1>2, LeadsEmpty, Zenon
        <4>2. Leads(n, eventCh[n], names(n) \cup {n}, up) /\ Leads(n, sends[n], up, up) /\ Leads(n, eventsCh[n], up, up)
          BY <2>1, <3>3, <4>1, Zenon
        <4>3. IF pend[n] = None THEN up = live[n] ELSE Turn(n, pend[n], up, live[n])
          BY <2>1, <3>1, Zenon
        <4> QED
          BY <1>2, <4>2, <4>3, Zenon DEF Follows
      <3>5. Dated(n)
        BY <2>1 DEF Dated, getMembers
      <3>6. "off" # "running" /\ "running" \notin {"joining", "joined"}
        OBVIOUS
      <3> QED
        BY <2>3, <3>1, <3>2, <3>4, <3>5, <3>6, Zenon DEF Local
    <2> QED
      BY <2>2, <2>3, Zenon
  <1> QED
    BY <1>9, <1>10, Zenon DEF RInv

-----------------------------------------------------------------------------
(* The steps. *)

watched == <<setup, clock, stage, birth, live, meta, pend, eventsCh, sends, eventCh, ring>>

Touches(n) ==
  \/ Unblock(n) \/ eventLoop(n) \/ SendEvent(n) \/ Listen(n)
  \/ Start(n) \/ JoinReturns(n) \/ Begin(n) \/ Dies(n)
  \/ \E m \in Node : LearnAlive(n, m) \/ LearnDead(n, m)

\* The table does not reach back to the members.
LEMMA TableApart == [Next]_vars => UNCHANGED watched \/ \E n \in Node : Touches(n)
  <1> SUFFICES ASSUME [Next]_vars PROVE UNCHANGED watched \/ \E n \in Node : Touches(n)
    OBVIOUS
  <1>1. CASE UNCHANGED vars
    BY <1>1 DEF vars, watched
  <1>2. CASE Requests
    <2>1. PICK r \in push : updateRoutingOperation(r) \/ PushFails(r)
      BY <1>2, Zenon DEF Requests
    <2>2. CASE updateRoutingOperation(r)
      BY <2>2 DEF updateRoutingOperation, watched
    <2>3. CASE PushFails(r)
      BY <2>3 DEF PushFails, watched
    <2> QED
      BY <2>1, <2>2, <2>3, Zenon
  <1>3. ASSUME NEW n \in Node, NEW u \in Updater, UpdateStep(n, u) \/ LockedStep(n, u) PROVE UNCHANGED watched \/ Touches(n)
    <2>1. CASE Listen(n)
      BY <2>1, Zenon DEF Touches
    <2>2. CASE Tick(n)
      BY <2>2 DEF Tick, watched
    <2>3. CASE CheckCoordinator(n, u)
      BY <2>3 DEF CheckCoordinator, watched
    <2>4. CASE UpdateReturns(n, u)
      BY <2>4 DEF UpdateReturns, watched
    <2>5. CASE Distribute(n, u)
      BY <2>5 DEF Distribute, watched
    <2>6. CASE DistributePanics(n, u)
      BY <2>6, Zenon DEF DistributePanics, Touches
    <2> QED
      BY <1>3, <2>1, <2>2, <2>3, <2>4, <2>5, <2>6, Zenon DEF UpdateStep, LockedStep
  <1>4. ASSUME NEW n \in Node, BootTimeout(n) PROVE UNCHANGED watched
    BY <1>4 DEF BootTimeout, watched
  <1>5. ASSUME NEW n \in Node,
               \/ Unblock(n) \/ DiscoveryStep(n) \/ StartStep(n) \/ Start(n) \/ Crash(n)
               \/ \E m \in Node : LearnAlive(n, m) \/ LearnDead(n, m)
        PROVE  Touches(n)
    BY <1>5, Zenon DEF DiscoveryStep, StartStep, Crash, Touches
  <1> QED
    BY <1>1, <1>2, <1>3, <1>4, <1>5, Zenon DEF Next

\* The types of a node.
LEMMA NodeTypes ==
  ASSUME TypesOK, NEW n \in Node
  PROVE  /\ stage[n] \in {"off", "joining", "joined", "running"} /\ birth[n] \in Nat
         /\ live[n] \in SUBSET Node /\ meta[n] \in [Node -> Nat] /\ pend[n] \in Event \cup {None}
         /\ eventsCh[n] \in Seq(Event) /\ sends[n] \in Seq(Sent) /\ eventCh[n] \in Seq(Sent)
         /\ ring[n] \in SUBSET Host /\ names(n) \in SUBSET Node /\ names(n) \cup {n} \in SUBSET Node
  <1>1. ring[n] \in SUBSET Host
    BY Zenon DEF TypesOK
  <1>2. \A h \in ring[n] : h.name \in Node
    BY <1>1 DEF Host
  <1>3. names(n) \in SUBSET Node
    BY <1>2, Zenon DEF names
  <1>4. names(n) \cup {n} \in SUBSET Node
    BY <1>3
  <1> QED
    BY <1>1, <1>3, <1>4, Zenon DEF TypesOK

\* What a call of the event delegate sends.
LEMMA NotifyTypes ==
  ASSUME TypesOK, NEW n \in Node, NEW e \in Event, Notify(n, e)
  PROVE  eventsCh' \in [Node -> Seq(Event)] /\ pend' \in [Node -> Event \cup {None}]
  <1>1. eventsCh \in [Node -> Seq(Event)] /\ pend \in [Node -> Event \cup {None}] /\ eventsCh[n] \in Seq(Event)
    BY Zenon DEF TypesOK
  <1>2. Append(eventsCh[n], e) \in Seq(Event)
    BY <1>1
  <1>3. CASE Len(eventsCh[n]) < Cap
    <2>1. eventsCh' = [eventsCh EXCEPT ![n] = Append(@, e)] /\ pend' = pend
      BY <1>3, Zenon DEF Notify
    <2> QED
      BY <1>1, <1>2, <2>1, Zenon
  <1>4. CASE ~(Len(eventsCh[n]) < Cap)
    <2>1. pend' = [pend EXCEPT ![n] = e] /\ eventsCh' = eventsCh
      BY <1>4, Zenon DEF Notify
    <2> QED
      BY <1>1, <2>1, Zenon
  <1> QED
    BY <1>3, <1>4, Zenon

LEMMA LearnTypes ==
  ASSUME TypesOK, NEW n \in Node, NEW m \in Node, LearnAlive(n, m) \/ LearnDead(n, m)
  PROVE  TypesOK'
  <1>1. CASE LearnAlive(n, m)
    <2>1. PICK e \in Event : Notify(n, e)
      BY <1>1 DEF LearnAlive, event, Event
    <2>2. birth[m] \in Nat
      BY Zenon DEF TypesOK
    <2>3. live' \in [Node -> SUBSET Node] /\ meta' \in [Node -> [Node -> Nat]]
      BY <1>1, <2>2 DEF LearnAlive, TypesOK
    <2> QED
      BY <1>1, <2>1, <2>3, NotifyTypes, Zenon DEF LearnAlive, TypesOK
  <1>2. CASE LearnDead(n, m)
    <2>1. PICK e \in Event : Notify(n, e)
      BY <1>2 DEF LearnDead, event, Event
    <2>2. live' \in [Node -> SUBSET Node]
      BY <1>2 DEF LearnDead, TypesOK
    <2> QED
      BY <1>2, <2>1, <2>2, NotifyTypes, Zenon DEF LearnDead, TypesOK
  <1> QED
    BY <1>1, <1>2, Zenon

LEMMA EventTypes ==
  ASSUME TypesOK, NEW n \in Node, Unblock(n) \/ eventLoop(n) \/ SendEvent(n) \/ Listen(n)
  PROVE  TypesOK'
  <1>1. CASE Unblock(n)
    <2>1. pend[n] \in Event
      BY <1>1, NodeTypes, Zenon DEF Unblock
    <2>2. eventsCh' \in [Node -> Seq(Event)] /\ pend' \in [Node -> Event \cup {None}]
      BY <1>1, <2>1 DEF Unblock, TypesOK
    <2> QED
      BY <1>1, <2>2, Zenon DEF Unblock, TypesOK
  <1>2. CASE eventLoop(n)
    <2>1. eventsCh[n] \in Seq(Event) /\ eventsCh[n] # <<>>
      BY <1>2, NodeTypes, Zenon DEF eventLoop
    <2>2. PICK e \in Event : e = Head(eventsCh[n])
      BY <2>1
    <2>3. e.ev \in {"join", "leave", "update"} /\ e.name \in Node /\ (e.ev # "update" => e \in Sent)
      BY DEF Event, Sent
    <2>4. handleEvent(n, e) \in Seq(Sent)
      <3>1. event("leave", e.name) \in Sent /\ event("join", e.name) \in Sent
        BY <2>3 DEF event, Sent
      <3>2. <<event("leave", e.name), event("join", e.name)>> \in Seq(Sent) /\ <<>> \in Seq(Sent)
        BY <3>1
      <3>3. e.ev # "update" => <<e>> \in Seq(Sent)
        BY <2>3
      <3> QED
        BY <3>2, <3>3, Zenon DEF handleEvent
    <2>5. sends' \in [Node -> Seq(Sent)] /\ eventsCh' \in [Node -> Seq(Event)]
      BY <1>2, <2>1, <2>2, <2>4 DEF eventLoop, TypesOK
    <2> QED
      BY <1>2, <2>5, Zenon DEF eventLoop, TypesOK
  <1>3. CASE SendEvent(n)
    <2>1. sends[n] \in Seq(Sent) /\ sends[n] # <<>> /\ eventCh[n] \in Seq(Sent)
      BY <1>3, NodeTypes, Zenon DEF SendEvent
    <2>2. Head(sends[n]) \in Sent /\ Tail(sends[n]) \in Seq(Sent)
      BY <2>1
    <2>3. sends' \in [Node -> Seq(Sent)] /\ eventCh' \in [Node -> Seq(Sent)]
      BY <1>3, <2>1, <2>2 DEF SendEvent, TypesOK
    <2> QED
      BY <1>3, <2>3, Zenon DEF SendEvent, TypesOK
  <1>4. CASE Listen(n)
    <2>1. eventCh[n] \in Seq(Sent) /\ eventCh[n] # <<>> /\ meta[n] \in [Node -> Nat] /\ ring[n] \in SUBSET Host
      BY <1>4, NodeTypes, Zenon DEF Listen
    <2>2. Tail(eventCh[n]) \in Seq(Sent)
      BY <2>1
    <2>3. PICK e \in Sent : e = Head(eventCh[n])
      BY <2>1
    <2>4. [name |-> e.name, birth |-> meta[n][e.name]] \in Host
      BY <2>1 DEF Sent, Host
    <2>5. processNodeEvent(n, e) \in SUBSET Host
      BY <2>1, <2>4 DEF processNodeEvent
    <2>6. ring' \in [Node -> SUBSET Host] /\ eventCh' \in [Node -> Seq(Sent)]
      BY <1>4, <2>2, <2>3, <2>5 DEF Listen, TypesOK
    <2> QED
      BY <1>4, <2>6, Zenon DEF Listen, TypesOK
  <1> QED
    BY <1>1, <1>2, <1>3, <1>4, Zenon

LEMMA LifeTypes ==
  ASSUME TypesOK, NEW n \in Node, Start(n) \/ JoinReturns(n) \/ Begin(n) \/ Dies(n)
  PROVE  TypesOK'
  <1>1. CASE Start(n)
    <2>1. event("join", n) \in Event
      BY DEF event, Event
    <2>2. <<event("join", n)>> \in Seq(Event)
      BY <2>1
    <2>3. clock + 1 \in Nat
      BY DEF TypesOK
    <2>4. clock' \in Nat /\ birth' \in [Node -> Nat] /\ meta' \in [Node -> [Node -> Nat]]
      BY <1>1, <2>3 DEF Start, TypesOK
    <2>5. /\ stage' \in [Node -> {"off", "joining", "joined", "running"}]
          /\ live' \in [Node -> SUBSET Node] /\ eventsCh' \in [Node -> Seq(Event)]
      BY <1>1, <2>2 DEF Start, TypesOK
    <2> QED
      BY <1>1, <2>4, <2>5, Zenon DEF Start, TypesOK
  <1>2. CASE JoinReturns(n)
    <2>1. stage' \in [Node -> {"off", "joining", "joined", "running"}]
      BY <1>2 DEF JoinReturns, TypesOK
    <2> QED
      BY <1>2, <2>1, Zenon DEF JoinReturns, TypesOK, table
  <1>3. CASE Begin(n)
    <2>1. host(n) \in Host
      BY DEF host, Host, TypesOK
    <2>2. /\ stage' \in [Node -> {"off", "joining", "joined", "running"}]
          /\ ring' \in [Node -> SUBSET Host]
      BY <1>3, <2>1 DEF Begin, TypesOK
    <2> QED
      BY <1>3, <2>2, Zenon DEF Begin, TypesOK
  <1>4. CASE Dies(n)
    <2>1. /\ stage' \in [Node -> {"off", "joining", "joined", "running"}]
          /\ live' \in [Node -> SUBSET Node]
          /\ meta' \in [Node -> [Node -> Nat]]
      BY <1>4 DEF Dies, TypesOK
    <2>2. /\ pend' \in [Node -> Event \cup {None}]
          /\ eventsCh' \in [Node -> Seq(Event)]
          /\ sends' \in [Node -> Seq(Sent)]
          /\ eventCh' \in [Node -> Seq(Sent)]
          /\ ring' \in [Node -> SUBSET Host]
      BY <1>4 DEF Dies, TypesOK
    <2> QED
      BY <1>4, <2>1, <2>2, Zenon DEF Dies, TypesOK
  <1> QED
    BY <1>1, <1>2, <1>3, <1>4, Zenon

\* A step of a node leaves the other nodes as they are.
LEMMA Others ==
  ASSUME TypesOK, NEW n \in Node, Touches(n), NEW k \in Node, k # n, Local(k)
  PROVE  Local(k)'
  <1>1. /\ setup \in Setup
        /\ stage \in [Node -> {"off", "joining", "joined", "running"}]
        /\ birth \in [Node -> Nat] /\ live \in [Node -> SUBSET Node]
        /\ meta \in [Node -> [Node -> Nat]]
        /\ pend \in [Node -> Event \cup {None}] /\ eventsCh \in [Node -> Seq(Event)]
        /\ sends \in [Node -> Seq(Sent)] /\ eventCh \in [Node -> Seq(Sent)]
        /\ ring \in [Node -> SUBSET Host]
    BY Zenon DEF TypesOK
  <1>2. ASSUME NEW e, Notify(n, e) PROVE eventsCh'[k] = eventsCh[k] /\ pend'[k] = pend[k]
    BY <1>1, <1>2, Zenon DEF Notify
  <1>3. CASE Unblock(n)
    BY <1>1, <1>3, Elsewhere, Zenon DEF Unblock
  <1>4. CASE eventLoop(n)
    BY <1>1, <1>4, Elsewhere, Zenon DEF eventLoop
  <1>5. CASE SendEvent(n)
    BY <1>1, <1>5, Elsewhere, Zenon DEF SendEvent
  <1>6. CASE Listen(n)
    BY <1>1, <1>6, Elsewhere, Zenon DEF Listen
  <1>7. CASE Start(n)
    BY <1>1, <1>7, Elsewhere, Zenon DEF Start
  <1>8. CASE JoinReturns(n)
    BY <1>1, <1>8, Elsewhere, Zenon DEF JoinReturns, table
  <1>9. CASE Begin(n)
    BY <1>1, <1>9, Elsewhere, Zenon DEF Begin
  <1>10. CASE Dies(n)
    BY <1>1, <1>10, Elsewhere, Zenon DEF Dies
  <1>11. ASSUME NEW m \in Node, LearnAlive(n, m) PROVE Local(k)'
    BY <1>1, <1>2, <1>11, Elsewhere, Zenon DEF LearnAlive
  <1>12. ASSUME NEW m \in Node, LearnDead(n, m) PROVE Local(k)'
    BY <1>1, <1>2, <1>12, Elsewhere, Zenon DEF LearnDead
  <1> QED
    BY <1>3, <1>4, <1>5, <1>6, <1>7, <1>8, <1>9, <1>10, <1>11, <1>12, Zenon DEF Touches

\* The event of a change of the view leads from the view before to the one after it.
LEMMA NotifyLeads ==
  ASSUME TypesOK, NEW n \in Node, NEW e \in Event, pend[n] = None, Notify(n, e),
         NEW B \in SUBSET Node, NEW L \in SUBSET Node, NEW Z \in SUBSET Node,
         Leads(n, eventsCh[n], B, L), Turn(n, e, L, Z)
  PROVE  /\ \E C \in SUBSET Node : /\ Leads(n, eventsCh'[n], B, C)
                                   /\ IF pend'[n] = None THEN C = Z ELSE Turn(n, pend'[n], C, Z)
         /\ \A m : Takes(eventsCh'[n], m, 1) \/ (pend'[n] # None /\ takes(pend'[n], m))
                   <=> Takes(eventsCh[n], m, 1) \/ takes(e, m)
  <1>1. eventsCh \in [Node -> Seq(Event)] /\ pend \in [Node -> Event \cup {None}] /\ eventsCh[n] \in Seq(Event)
    BY Zenon DEF TypesOK
  <1>2. CASE Len(eventsCh[n]) < Cap
    <2>1. eventsCh'[n] = Append(eventsCh[n], e) /\ pend'[n] = None
      BY <1>1, <1>2, Zenon DEF Notify
    <2>2. /\ Leads(n, Append(eventsCh[n], e), B, Z)
          /\ \A m : Takes(Append(eventsCh[n], e), m, 1) <=> Takes(eventsCh[n], m, 1) \/ takes(e, m)
      BY <1>1, LeadsAppend, Zenon
    <2> QED
      BY <2>1, <2>2, Zenon
  <1>3. CASE ~(Len(eventsCh[n]) < Cap)
    <2>1. eventsCh'[n] = eventsCh[n] /\ pend'[n] = e /\ e # None
      BY <1>1, <1>3, NoneFresh, Zenon DEF Notify
    <2> QED
      BY <2>1, Zenon
  <1> QED
    BY <1>2, <1>3, Zenon

\* A name in the ring is in the view, or is about to leave the ring.
LEMMA InViewOrLeaves ==
  ASSUME TypesOK, NEW n \in Node, Follows(n), pend[n] = None, NEW m \in names(n)
  PROVE  m \in live[n] \/ leaves(n, m)
  <1>1. PICK A, B, C \in SUBSET Node :
          /\ Leads(n, eventCh[n], names(n) \cup {n}, A)
          /\ Leads(n, sends[n], A, B)
          /\ Leads(n, eventsCh[n], B, C)
          /\ C = live[n]
    BY Zenon DEF Follows
  <1>2. eventsCh[n] \in Seq(Event) /\ sends[n] \in Seq(Sent) /\ eventCh[n] \in Seq(Sent)
    BY NodeTypes, Zenon
  <1>3. m \in names(n) \cup {n}
    OBVIOUS
  <1>4. m \in A \/ Takes(eventCh[n], m, 1)
    BY <1>1, <1>2, <1>3, LeadsKeeps, Zenon
  <1>5. m \in A => m \in B \/ Takes(sends[n], m, 1)
    BY <1>1, <1>2, LeadsKeeps, Zenon
  <1>6. m \in B => m \in C \/ Takes(eventsCh[n], m, 1)
    BY <1>1, <1>2, LeadsKeeps, Zenon
  <1> QED
    BY <1>1, <1>4, <1>5, <1>6, Zenon DEF leaves

\* The view changes and the event is sent.
LEMMA ViewChanges ==
  ASSUME TypesOK, NEW n \in Node, NEW e \in Event, pend[n] = None, Follows(n), Notify(n, e),
         live'[n] \in SUBSET Node, Turn(n, e, live[n], live'[n]),
         sends' = sends, eventCh' = eventCh, ring' = ring
  PROVE  /\ Follows(n)'
         /\ \A m : leaves(n, m)' <=> leaves(n, m) \/ takes(e, m)
  <1>1. PICK A, B \in SUBSET Node :
          /\ Leads(n, eventCh[n], names(n) \cup {n}, A)
          /\ Leads(n, sends[n], A, B)
          /\ Leads(n, eventsCh[n], B, live[n])
    BY Zenon DEF Follows
  <1>2. live[n] \in SUBSET Node
    BY NodeTypes, Zenon
  <1>3. /\ \E C \in SUBSET Node : /\ Leads(n, eventsCh'[n], B, C)
                                  /\ IF pend'[n] = None THEN C = live'[n] ELSE Turn(n, pend'[n], C, live'[n])
        /\ \A m : Takes(eventsCh'[n], m, 1) \/ (pend'[n] # None /\ takes(pend'[n], m))
                  <=> Takes(eventsCh[n], m, 1) \/ takes(e, m)
    BY <1>1, <1>2, NotifyLeads, Zenon
  <1>4. names(n)' = names(n)
    BY Zenon DEF names
  <1>5. Leads(n, eventCh'[n], names(n)' \cup {n}, A) /\ Leads(n, sends'[n], A, B)
    BY <1>1, <1>4, Zenon
  <1>6. Follows(n)'
    BY <1>3, <1>5, Zenon DEF Follows
  <1>7. \A m : leaves(n, m)' <=> leaves(n, m) \/ takes(e, m)
    BY <1>3, Zenon DEF leaves
  <1> QED
    BY <1>6, <1>7, Zenon

\* memberlist finds a process.
LEMMA LearnAliveLocal ==
  ASSUME TypesOK, TypesOK', NEW n \in Node, Local(n), NEW m \in Node, LearnAlive(n, m)
  PROVE  Local(n)'
  <1>1. PICK e : e = event(IF m \in live[n] THEN "update" ELSE "join", m)
    OBVIOUS
  <1>2. /\ e \in Event /\ e.name = m /\ (m \in live[n] => e.ev = "update") /\ (m \notin live[n] => e.ev = "join")
        /\ "update" # "join"
    BY <1>1 DEF event, Event
  <1>3. /\ Notify(n, e) /\ pend[n] = None /\ stage[n] # "off" /\ n # m
        /\ sends' = sends /\ eventCh' = eventCh /\ ring' = ring /\ stage' = stage /\ birth' = birth
    BY <1>1, Zenon DEF LearnAlive, Alive
  <1>4. live'[n] = live[n] \cup {m} /\ live'[n] \in SUBSET Node
    <2>1. live \in [Node -> SUBSET Node] /\ live' \in [Node -> SUBSET Node] /\ live' = [live EXCEPT ![n] = @ \cup {m}]
      BY Zenon DEF LearnAlive, TypesOK
    <2> QED
      BY <2>1, Zenon
  <1>5. meta[n] \in [Node -> Nat] /\ ring[n] \in SUBSET Host
    BY NodeTypes, Zenon
  <1>6. \A k \in Node : k # m => meta'[n][k] = meta[n][k]
    <2>1. meta \in [Node -> [Node -> Nat]] /\ meta' = [meta EXCEPT ![n][m] = birth[m]]
      BY Zenon DEF LearnAlive, TypesOK
    <2> QED
      BY <2>1
  <1>7. Turn(n, e, live[n], live'[n])
    <2>1. m \in live[n] => live[n] \cup {m} = live[n]
      OBVIOUS
    <2> QED
      BY <1>2, <1>3, <1>4, <2>1, Zenon DEF Turn
  <1>8. Follows(n) /\ Dated(n) /\ meta[n][n] = birth[n]
    BY <1>3, Zenon DEF Local
  <1>9. Follows(n)' /\ \A k : leaves(n, k)' <=> leaves(n, k) \/ takes(e, k)
    BY <1>2, <1>3, <1>4, <1>7, <1>8, ViewChanges, Zenon
  <1>10. Dated(n)'
    <2>1. ASSUME NEW h \in ring[n] PROVE h.birth = meta'[n][h.name] \/ leaves(n, h.name)'
      <3>1. h.name \in Node /\ h.name \in names(n)
        BY <1>5 DEF Host, names
      <3>2. CASE h.name # m
        BY <1>6, <1>8, <1>9, <3>1, <3>2, Zenon DEF Dated
      <3>3. CASE h.name = m /\ m \in live[n]
        BY <1>2, <1>9, <3>3, Zenon DEF takes
      <3>4. CASE h.name = m /\ m \notin live[n]
        BY <1>3, <1>8, <1>9, <3>1, <3>4, InViewOrLeaves, Zenon
      <3> QED
        BY <3>2, <3>3, <3>4, Zenon
    <2> QED
      BY <1>3, <2>1, Zenon DEF Dated
  <1>11. names(n)' = names(n)
    BY <1>3, Zenon DEF names
  <1>12. meta'[n][n] = birth'[n]
    BY <1>3, <1>6, <1>8, Zenon
  <1> QED
    BY <1>3, <1>9, <1>10, <1>11, <1>12, Zenon DEF Local

\* memberlist takes a node for dead.
LEMMA LearnDeadLocal ==
  ASSUME TypesOK, TypesOK', NEW n \in Node, Local(n), NEW m \in Node, LearnDead(n, m)
  PROVE  Local(n)'
  <1>1. PICK e : e = event("leave", m)
    OBVIOUS
  <1>2. e \in Event /\ e.name = m /\ e.ev = "leave"
    BY <1>1 DEF event, Event
  <1>3. /\ Notify(n, e) /\ pend[n] = None /\ stage[n] # "off" /\ n # m /\ m \in live[n] /\ meta' = meta
        /\ sends' = sends /\ eventCh' = eventCh /\ ring' = ring /\ stage' = stage /\ birth' = birth
    BY <1>1, Zenon DEF LearnDead, Alive
  <1>4. live'[n] = live[n] \ {m} /\ live'[n] \in SUBSET Node
    BY Zenon DEF LearnDead, TypesOK
  <1>5. Turn(n, e, live[n], live'[n])
    BY <1>2, <1>3, <1>4, Zenon DEF Turn
  <1>6. Follows(n) /\ Dated(n)
    BY <1>3, Zenon DEF Local
  <1>7. Follows(n)' /\ \A k : leaves(n, k)' <=> leaves(n, k) \/ takes(e, k)
    BY <1>2, <1>3, <1>4, <1>5, <1>6, ViewChanges, Zenon
  <1>8. Dated(n)'
    BY <1>3, <1>6, <1>7, Zenon DEF Dated
  <1>9. names(n)' = names(n)
    BY <1>3, Zenon DEF names
  <1> QED
    BY <1>3, <1>7, <1>8, <1>9, Zenon DEF Local

\* The send that waits goes through.
LEMMA UnblockLocal ==
  ASSUME TypesOK, NEW n \in Node, Local(n), Unblock(n)
  PROVE  Local(n)'
  <1>1. /\ pend[n] # None /\ stage' = stage /\ birth' = birth /\ live' = live /\ meta' = meta
        /\ sends' = sends /\ eventCh' = eventCh /\ ring' = ring
    BY Zenon DEF Unblock
  <1>2. pend[n] \in Event /\ eventsCh[n] \in Seq(Event) /\ live[n] \in SUBSET Node
    BY <1>1, NodeTypes, Zenon
  <1>3. eventsCh'[n] = Append(eventsCh[n], pend[n]) /\ pend'[n] = None
    BY Zenon DEF Unblock, TypesOK
  <1>4. stage[n] # "off" /\ Follows(n) /\ Dated(n)
    BY <1>1, Zenon DEF Local
  <1>5. PICK A, B, C \in SUBSET Node :
          /\ Leads(n, eventCh[n], names(n) \cup {n}, A)
          /\ Leads(n, sends[n], A, B)
          /\ Leads(n, eventsCh[n], B, C)
          /\ Turn(n, pend[n], C, live[n])
    BY <1>1, <1>4, Zenon DEF Follows
  <1>6. /\ Leads(n, Append(eventsCh[n], pend[n]), B, live[n])
        /\ \A m : Takes(Append(eventsCh[n], pend[n]), m, 1) <=> Takes(eventsCh[n], m, 1) \/ takes(pend[n], m)
    BY <1>2, <1>5, LeadsAppend, Zenon
  <1>7. names(n)' = names(n)
    BY <1>1, Zenon DEF names
  <1>8. Follows(n)'
    <2>1. /\ Leads(n, eventCh'[n], names(n)' \cup {n}, A) /\ Leads(n, sends'[n], A, B)
          /\ Leads(n, eventsCh'[n], B, live[n])
          /\ IF pend'[n] = None THEN live[n] = live'[n] ELSE Turn(n, pend'[n], live[n], live'[n])
      BY <1>1, <1>3, <1>5, <1>6, <1>7, Zenon
    <2> QED
      BY <1>2, <2>1, Zenon DEF Follows
  <1>9. \A m : leaves(n, m) => leaves(n, m)'
    BY <1>1, <1>3, <1>6, Zenon DEF leaves
  <1>10. Dated(n)'
    BY <1>1, <1>4, <1>9, Zenon DEF Dated
  <1> QED
    BY <1>1, <1>4, <1>7, <1>8, <1>10, Zenon DEF Local

\* handleEvent leads where its event leads.
LEMMA HandleEventLeads ==
  ASSUME NEW n \in Node, NEW e \in Event, NEW A \in SUBSET Node, NEW Z \in SUBSET Node, Turn(n, e, A, Z)
  PROVE  /\ Leads(n, handleEvent(n, e), A, Z)
         /\ \A m : Takes(handleEvent(n, e), m, 1) <=> takes(e, m)
  <1>1. e.ev \in {"join", "leave", "update"} /\ e.name \in Node /\ (e.ev # "update" => e \in Sent)
    BY DEF Event, Sent
  <1>2. ASSUME NEW d \in Sent, NEW Y \in SUBSET Node, Turn(n, d, A, Y)
        PROVE  /\ <<d>> \in Seq(Sent) /\ Leads(n, <<d>>, A, Y)
               /\ \A m : Takes(<<d>>, m, 1) <=> takes(d, m)
    <2>1. <<>> \in Seq(Sent) /\ Append(<<>>, d) = <<d>>
      OBVIOUS
    <2>2. Leads(n, <<>>, A, A) /\ \A m : ~Takes(<<>>, m, 1)
      BY LeadsEmpty, Zenon
    <2>3. /\ Append(<<>>, d) \in Seq(Sent) /\ Leads(n, Append(<<>>, d), A, Y)
          /\ \A m : Takes(Append(<<>>, d), m, 1) <=> Takes(<<>>, m, 1) \/ takes(d, m)
      BY <1>2, <2>1, <2>2, LeadsAppend, Zenon
    <2> QED
      BY <2>1, <2>2, <2>3, Zenon
  <1>3. CASE e.name = n
    <2>1. e.ev = "join" /\ Z = A
      BY <1>3, Zenon DEF Turn
    <2>2. handleEvent(n, e) = <<>>
      BY <1>3, Zenon DEF handleEvent
    <2>3. Leads(n, <<>>, A, A) /\ \A m : ~Takes(<<>>, m, 1)
      BY LeadsEmpty, Zenon
    <2> QED
      BY <2>1, <2>2, <2>3, Zenon DEF takes
  <1>4. CASE e.name # n /\ e.ev = "update"
    <2>1. "update" # "leave" /\ "update" # "join" /\ "leave" # "join"
      OBVIOUS
    <2>2. e.name \in A /\ Z = A
      BY <1>4, <2>1, Zenon DEF Turn
    <2>3. PICK d \in Sent : d = event("leave", e.name) /\ d.ev = "leave" /\ d.name = e.name
      <3>1. event("leave", e.name) \in Sent /\ event("leave", e.name).ev = "leave" /\ event("leave", e.name).name = e.name
        BY <1>1 DEF event, Sent
      <3> QED
        BY <3>1, Zenon
    <2>4. PICK j \in Sent : j = event("join", e.name) /\ j.ev = "join" /\ j.name = e.name
      <3>1. event("join", e.name) \in Sent /\ event("join", e.name).ev = "join" /\ event("join", e.name).name = e.name
        BY <1>1 DEF event, Sent
      <3> QED
        BY <3>1, Zenon
    <2>5. PICK Y \in SUBSET Node : Y = A \ {e.name}
      OBVIOUS
    <2>6. e.name \notin Y /\ A = Y \cup {e.name}
      BY <2>2, <2>5
    <2>7. Turn(n, d, A, Y) /\ Turn(n, j, Y, Z)
      BY <1>4, <2>2, <2>3, <2>4, <2>5, <2>6, Zenon DEF Turn
    <2>8. <<d>> \in Seq(Sent) /\ Leads(n, <<d>>, A, Y) /\ \A m : Takes(<<d>>, m, 1) <=> takes(d, m)
      BY <1>2, <2>7, Zenon
    <2>9. /\ Leads(n, Append(<<d>>, j), A, Z)
          /\ \A m : Takes(Append(<<d>>, j), m, 1) <=> Takes(<<d>>, m, 1) \/ takes(j, m)
      BY <2>7, <2>8, LeadsAppend, Zenon
    <2>10. Append(<<d>>, j) = <<d, j>>
      <3>1. PICK x \in Seq({d, j}) : x = Append(<<d>>, j) /\ Len(x) = 2 /\ x[1] = d /\ x[2] = j
        <4>1. <<d>> \in Seq({d, j}) /\ Len(<<d>>) = 1 /\ <<d>>[1] = d
          OBVIOUS
        <4>2. /\ Append(<<d>>, j) \in Seq({d, j}) /\ Len(Append(<<d>>, j)) = 2
              /\ Append(<<d>>, j)[1] = d /\ Append(<<d>>, j)[2] = j
          BY <4>1
        <4> QED
          BY <4>2, Zenon
      <3>2. x = <<d, j>>
        <4>1. PICK y \in Seq({d, j}) : y = <<d, j>> /\ Len(y) = 2 /\ y[1] = d /\ y[2] = j
          <5>1. <<d, j>> \in Seq({d, j}) /\ Len(<<d, j>>) = 2 /\ <<d, j>>[1] = d /\ <<d, j>>[2] = j
            OBVIOUS
          <5> QED
            BY <5>1, Zenon
        <4>2. x = [i \in 1..Len(x) |-> x[i]] /\ y = [i \in 1..Len(y) |-> y[i]]
          OBVIOUS
        <4>3. \A i \in 1..2 : x[i] = y[i]
          BY <3>1, <4>1
        <4>4. [i \in 1..2 |-> x[i]] = [i \in 1..2 |-> y[i]]
          BY <4>3, Zenon
        <4> QED
          BY <3>1, <4>1, <4>2, <4>4, Zenon
      <3> QED
        BY <3>1, <3>2, Zenon
    <2>11. handleEvent(n, e) = Append(<<d>>, j)
      BY <1>4, <2>3, <2>4, <2>10, Zenon DEF handleEvent
    <2>12. \A m : takes(d, m) \/ takes(j, m) <=> takes(e, m)
      BY <1>4, <2>1, <2>3, <2>4, Zenon DEF takes
    <2> QED
      BY <2>8, <2>9, <2>11, <2>12, Zenon
  <1>5. CASE e.name # n /\ e.ev # "update"
    <2>1. handleEvent(n, e) = <<e>>
      BY <1>5, Zenon DEF handleEvent
    <2> QED
      BY <1>1, <1>2, <1>5, <2>1, Zenon
  <1> QED
    BY <1>3, <1>4, <1>5, Zenon

\* eventLoop receives an event.
LEMMA EventLoopLocal ==
  ASSUME TypesOK, NEW n \in Node, Local(n), eventLoop(n)
  PROVE  Local(n)'
  <1>1. /\ sends[n] = <<>> /\ eventsCh[n] # <<>> /\ stage' = stage /\ birth' = birth /\ live' = live /\ meta' = meta
        /\ pend' = pend /\ eventCh' = eventCh /\ ring' = ring
    BY Zenon DEF eventLoop
  <1>2. eventsCh[n] \in Seq(Event) /\ live[n] \in SUBSET Node
    BY NodeTypes, Zenon
  <1>3. sends'[n] = handleEvent(n, Head(eventsCh[n])) /\ eventsCh'[n] = Tail(eventsCh[n])
    BY Zenon DEF eventLoop, TypesOK
  <1>4. stage[n] # "off" /\ Follows(n) /\ Dated(n)
    BY <1>1, Zenon DEF Local
  <1>5. PICK A, B, C \in SUBSET Node :
          /\ Leads(n, eventCh[n], names(n) \cup {n}, A)
          /\ Leads(n, sends[n], A, B)
          /\ Leads(n, eventsCh[n], B, C)
          /\ IF pend[n] = None THEN C = live[n] ELSE Turn(n, pend[n], C, live[n])
    BY <1>4, Zenon DEF Follows
  <1>6. B = A /\ \A m : ~Takes(sends[n], m, 1)
    <2>1. Leads(n, <<>>, A, B)
      BY <1>1, <1>5, Zenon
    <2> QED
      BY <1>1, <2>1, LeadsEmpty, Zenon
  <1>7. /\ Head(eventsCh[n]) \in Event
        /\ \E Z \in SUBSET Node : Turn(n, Head(eventsCh[n]), B, Z) /\ Leads(n, Tail(eventsCh[n]), Z, C)
        /\ \A m : Takes(eventsCh[n], m, 1) <=> takes(Head(eventsCh[n]), m) \/ Takes(Tail(eventsCh[n]), m, 1)
    BY <1>1, <1>2, <1>5, LeadsTail, Zenon
  <1>8. PICK Z \in SUBSET Node : Turn(n, Head(eventsCh[n]), A, Z) /\ Leads(n, Tail(eventsCh[n]), Z, C)
    BY <1>6, <1>7, Zenon
  <1>9. /\ Leads(n, sends'[n], A, Z)
        /\ \A m : Takes(sends'[n], m, 1) <=> takes(Head(eventsCh[n]), m)
    BY <1>3, <1>7, <1>8, HandleEventLeads, Zenon
  <1>10. names(n)' = names(n)
    BY <1>1, Zenon DEF names
  <1>11. Follows(n)'
    <2>1. /\ Leads(n, eventCh'[n], names(n)' \cup {n}, A) /\ Leads(n, sends'[n], A, Z)
          /\ Leads(n, eventsCh'[n], Z, C)
          /\ IF pend'[n] = None THEN C = live'[n] ELSE Turn(n, pend'[n], C, live'[n])
      BY <1>1, <1>3, <1>5, <1>8, <1>9, <1>10, Zenon
    <2> QED
      BY <2>1, Zenon DEF Follows
  <1>12. \A m : leaves(n, m) => leaves(n, m)'
    BY <1>1, <1>3, <1>6, <1>7, <1>9, Zenon DEF leaves
  <1>13. Dated(n)'
    BY <1>1, <1>4, <1>12, Zenon DEF Dated
  <1> QED
    BY <1>1, <1>4, <1>10, <1>11, <1>13, Zenon DEF Local

\* handleEvent sends an event to the subscriber.
LEMMA SendEventLocal ==
  ASSUME TypesOK, NEW n \in Node, Local(n), SendEvent(n)
  PROVE  Local(n)'
  <1>1. /\ sends[n] # <<>> /\ stage' = stage /\ birth' = birth /\ live' = live /\ meta' = meta
        /\ pend' = pend /\ eventsCh' = eventsCh /\ ring' = ring
    BY Zenon DEF SendEvent
  <1>2. eventCh[n] \in Seq(Sent) /\ sends[n] \in Seq(Sent) /\ names(n) \cup {n} \in SUBSET Node
    BY NodeTypes, Zenon
  <1>3. eventCh'[n] = Append(eventCh[n], Head(sends[n])) /\ sends'[n] = Tail(sends[n])
    BY Zenon DEF SendEvent, TypesOK
  <1>4. stage[n] # "off" /\ Follows(n) /\ Dated(n)
    BY <1>1, Zenon DEF Local
  <1>5. PICK A, B, C \in SUBSET Node :
          /\ Leads(n, eventCh[n], names(n) \cup {n}, A)
          /\ Leads(n, sends[n], A, B)
          /\ Leads(n, eventsCh[n], B, C)
          /\ IF pend[n] = None THEN C = live[n] ELSE Turn(n, pend[n], C, live[n])
    BY <1>4, Zenon DEF Follows
  <1>6. /\ Head(sends[n]) \in Sent
        /\ \E Z \in SUBSET Node : Turn(n, Head(sends[n]), A, Z) /\ Leads(n, Tail(sends[n]), Z, B)
        /\ \A m : Takes(sends[n], m, 1) <=> takes(Head(sends[n]), m) \/ Takes(Tail(sends[n]), m, 1)
    BY <1>1, <1>2, <1>5, LeadsTail, Zenon
  <1>7. PICK Z \in SUBSET Node : Turn(n, Head(sends[n]), A, Z) /\ Leads(n, Tail(sends[n]), Z, B)
    BY <1>6, Zenon
  <1>8. /\ Leads(n, Append(eventCh[n], Head(sends[n])), names(n) \cup {n}, Z)
        /\ \A m : Takes(Append(eventCh[n], Head(sends[n])), m, 1) <=> Takes(eventCh[n], m, 1) \/ takes(Head(sends[n]), m)
    BY <1>2, <1>5, <1>6, <1>7, LeadsAppend, Zenon
  <1>9. names(n)' = names(n)
    BY <1>1, Zenon DEF names
  <1>10. Follows(n)'
    <2>1. /\ Leads(n, eventCh'[n], names(n)' \cup {n}, Z) /\ Leads(n, sends'[n], Z, B)
          /\ Leads(n, eventsCh'[n], B, C)
          /\ IF pend'[n] = None THEN C = live'[n] ELSE Turn(n, pend'[n], C, live'[n])
      BY <1>1, <1>3, <1>5, <1>7, <1>8, <1>9, Zenon
    <2> QED
      BY <2>1, Zenon DEF Follows
  <1>11. \A m : leaves(n, m) => leaves(n, m)'
    BY <1>1, <1>3, <1>6, <1>8, Zenon DEF leaves
  <1>12. Dated(n)'
    BY <1>1, <1>4, <1>11, Zenon DEF Dated
  <1> QED
    BY <1>1, <1>4, <1>9, <1>10, <1>12, Zenon DEF Local

\* processNodeEvent does to the names in the ring what the event says.
LEMMA ProcessNodeEventTurns ==
  ASSUME TypesOK, NEW n \in Node, n \in names(n), NEW e \in Sent, NEW Z, Turn(n, e, names(n) \cup {n}, Z),
         ring'[n] = processNodeEvent(n, e)
  PROVE  /\ names(n)' \cup {n} = Z /\ n \in names(n)'
         /\ \A h \in ring'[n] : (h \in ring[n] /\ ~takes(e, h.name)) \/ h.birth = meta[n][h.name]
  <1>1. names(n) \cup {n} = names(n)
    OBVIOUS
  <1>2. e.ev \in {"join", "leave"} /\ e.name \in Node
    BY DEF Sent
  <1>3. PICK same : same = {h \in ring[n] : h.name = e.name}
    OBVIOUS
  <1>4. \A h : h \in same <=> h \in ring[n] /\ h.name = e.name
    BY <1>3
  <1>5. e.name \in names(n) <=> same # {}
    BY <1>4, Zenon DEF names
  <1>6. \A m : m \in names(n) <=> \E h \in ring[n] : m = h.name
    BY Zenon DEF names
  <1>7. \A m : m \in names(n)' <=> \E h \in ring'[n] : m = h.name
    BY Zenon DEF names
  <1>8. CASE e.name = n
    <2>1. e.ev = "join" /\ Z = names(n)
      BY <1>1, <1>8, Zenon DEF Turn
    <2>2. "join" # "leave"
      OBVIOUS
    <2>3. ring'[n] = ring[n]
      BY <1>3, <1>5, <1>8, <2>1, <2>2, Zenon DEF processNodeEvent
    <2>4. names(n)' = names(n)
      BY <1>6, <1>7, <2>3, Zenon
    <2> QED
      BY <1>1, <2>1, <2>3, <2>4, Zenon DEF takes
  <1>9. CASE e.name # n /\ e.ev = "leave"
    <2>1. "leave" # "join" /\ "leave" # "update"
      OBVIOUS
    <2>2. Z = names(n) \ {e.name}
      BY <1>1, <1>9, <2>1, Zenon DEF Turn
    <2>3. ring'[n] = ring[n] \ same
      BY <1>3, <1>9, Zenon DEF processNodeEvent
    <2>4. \A h : h \in ring'[n] <=> h \in ring[n] /\ h.name # e.name
      BY <1>4, <2>3, Zenon
    <2>5. \A m : m \in names(n)' <=> m \in names(n) /\ m # e.name
      BY <1>6, <1>7, <2>4, Zenon
    <2>6. n \in names(n)'
      BY <1>9, <2>5, Zenon
    <2>7. names(n)' \cup {n} = Z
      BY <2>2, <2>5, <2>6, Zenon
    <2> QED
      BY <2>4, <2>6, <2>7, Zenon DEF takes
  <1>10. CASE e.name # n /\ e.ev = "join"
    <2>1. "leave" # "join" /\ "join" # "update"
      OBVIOUS
    <2>2. Z = names(n) \cup {e.name} /\ e.name \notin names(n)
      BY <1>1, <1>10, <2>1, Zenon DEF Turn
    <2>3. PICK g : g = [name |-> e.name, birth |-> meta[n][e.name]]
      OBVIOUS
    <2>4. g.name = e.name /\ g.birth = meta[n][e.name]
      BY <2>3
    <2>5. ring'[n] = ring[n] \cup {g}
      BY <1>3, <1>5, <1>10, <2>1, <2>2, <2>3, Zenon DEF processNodeEvent
    <2>6. \A m : m \in names(n)' <=> m \in names(n) \/ m = e.name
      BY <1>6, <1>7, <2>4, <2>5, Zenon
    <2>7. names(n)' \cup {n} = Z
      BY <2>2, <2>6, Zenon
    <2>8. ASSUME NEW h \in ring'[n] PROVE (h \in ring[n] /\ ~takes(e, h.name)) \/ h.birth = meta[n][h.name]
      BY <1>10, <2>4, <2>5, Zenon DEF takes
    <2> QED
      BY <2>6, <2>7, <2>8, Zenon
  <1> QED
    BY <1>2, <1>8, <1>9, <1>10, Zenon

\* listenMemberlistEvents receives an event.
LEMMA ListenLocal ==
  ASSUME TypesOK, NEW n \in Node, Local(n), Listen(n)
  PROVE  Local(n)'
  <1>1. /\ eventCh[n] # <<>> /\ stage' = stage /\ birth' = birth /\ live' = live /\ meta' = meta
        /\ pend' = pend /\ eventsCh' = eventsCh /\ sends' = sends /\ stage[n] = "running"
    BY Zenon DEF Listen
  <1>2. eventCh[n] \in Seq(Sent) /\ names(n) \cup {n} \in SUBSET Node
    BY NodeTypes, Zenon
  <1>3. ring'[n] = processNodeEvent(n, Head(eventCh[n])) /\ eventCh'[n] = Tail(eventCh[n])
    BY Zenon DEF Listen, TypesOK
  <1>4. "running" # "off" /\ "running" \notin {"joining", "joined"}
    OBVIOUS
  <1>5. n \in names(n) /\ Follows(n) /\ Dated(n) /\ meta[n][n] = birth[n]
    BY <1>1, <1>4, Zenon DEF Local
  <1>6. PICK A, B, C \in SUBSET Node :
          /\ Leads(n, eventCh[n], names(n) \cup {n}, A)
          /\ Leads(n, sends[n], A, B)
          /\ Leads(n, eventsCh[n], B, C)
          /\ IF pend[n] = None THEN C = live[n] ELSE Turn(n, pend[n], C, live[n])
    BY <1>5, Zenon DEF Follows
  <1>7. /\ Head(eventCh[n]) \in Sent
        /\ \E Z \in SUBSET Node : Turn(n, Head(eventCh[n]), names(n) \cup {n}, Z) /\ Leads(n, Tail(eventCh[n]), Z, A)
        /\ \A m : Takes(eventCh[n], m, 1) <=> takes(Head(eventCh[n]), m) \/ Takes(Tail(eventCh[n]), m, 1)
    BY <1>1, <1>2, <1>6, LeadsTail, Zenon
  <1>8. PICK Z \in SUBSET Node : Turn(n, Head(eventCh[n]), names(n) \cup {n}, Z) /\ Leads(n, Tail(eventCh[n]), Z, A)
    BY <1>7, Zenon
  <1>9. /\ names(n)' \cup {n} = Z /\ n \in names(n)'
        /\ \A h \in ring'[n] : (h \in ring[n] /\ ~takes(Head(eventCh[n]), h.name)) \/ h.birth = meta[n][h.name]
    BY <1>3, <1>5, <1>7, <1>8, ProcessNodeEventTurns, ZenonT(30)
  <1>10. Follows(n)'
    <2>1. /\ Leads(n, eventCh'[n], names(n)' \cup {n}, A) /\ Leads(n, sends'[n], A, B)
          /\ Leads(n, eventsCh'[n], B, C)
          /\ IF pend'[n] = None THEN C = live'[n] ELSE Turn(n, pend'[n], C, live'[n])
      BY <1>1, <1>3, <1>6, <1>8, <1>9, Zenon
    <2> QED
      BY <2>1, Zenon DEF Follows
  <1>11. \A m : leaves(n, m) => leaves(n, m)' \/ takes(Head(eventCh[n]), m)
    BY <1>1, <1>3, <1>7, Zenon DEF leaves
  <1>12. Dated(n)'
    BY <1>1, <1>5, <1>9, <1>11, Zenon DEF Dated
  <1> QED
    BY <1>1, <1>4, <1>5, <1>9, <1>10, <1>12, Zenon DEF Local

\* A process starts.
LEMMA StartLocal ==
  ASSUME TypesOK, NEW n \in Node, Local(n), Start(n)
  PROVE  Local(n)'
  <1>1. stage[n] = "off" /\ pend' = pend /\ sends' = sends /\ eventCh' = eventCh /\ ring' = ring
    BY Zenon DEF Start
  <1>2. /\ ring[n] = {} /\ pend[n] = None
        /\ eventsCh[n] = <<>> /\ sends[n] = <<>> /\ eventCh[n] = <<>>
    BY <1>1, Zenon DEF Local
  <1>3. PICK e : e = event("join", n)
    OBVIOUS
  <1>4. /\ stage'[n] = "joining" /\ birth'[n] = clock + 1 /\ live'[n] = {n} /\ eventsCh'[n] = <<e>>
    BY <1>3, Zenon DEF Start, TypesOK
  <1>5. meta'[n][n] = clock + 1
    BY DEF Start, TypesOK
  <1>6. e \in Event /\ e.ev = "join" /\ e.name = n
    BY <1>3 DEF event, Event
  <1>7. {n} \in SUBSET Node
    OBVIOUS
  <1>8. Leads(n, <<>>, {n}, {n})
    BY <1>7, LeadsEmpty, Zenon
  <1>9. Leads(n, <<e>>, {n}, {n})
    <2>1. <<>> \in Seq(Event) /\ Append(<<>>, e) = <<e>>
      OBVIOUS
    <2>2. Turn(n, e, {n}, {n})
      BY <1>6, Zenon DEF Turn
    <2>3. Leads(n, Append(<<>>, e), {n}, {n})
      BY <1>6, <1>7, <1>8, <2>1, <2>2, LeadsAppend, Zenon
    <2> QED
      BY <2>1, <2>3, Zenon
  <1>10. names(n)' \cup {n} = {n}
    BY <1>1, <1>2, Zenon DEF names
  <1>11. Follows(n)'
    <2>1. /\ Leads(n, eventCh'[n], names(n)' \cup {n}, {n}) /\ Leads(n, sends'[n], {n}, {n})
          /\ Leads(n, eventsCh'[n], {n}, {n})
          /\ IF pend'[n] = None THEN {n} = live'[n] ELSE Turn(n, pend'[n], {n}, live'[n])
      BY <1>1, <1>2, <1>4, <1>8, <1>9, <1>10, Zenon
    <2> QED
      BY <1>7, <2>1, Zenon DEF Follows
  <1>12. Dated(n)'
    BY <1>1, <1>2, Zenon DEF Dated
  <1>13. "joining" # "off" /\ "joining" # "running"
    OBVIOUS
  <1> QED
    BY <1>1, <1>2, <1>4, <1>5, <1>11, <1>12, <1>13, Zenon DEF Local

\* join returns.
LEMMA JoinReturnsLocal ==
  ASSUME TypesOK, NEW n \in Node, Local(n), JoinReturns(n)
  PROVE  Local(n)'
  <1>1. /\ stage[n] = "joining" /\ birth' = birth /\ live' = live /\ meta' = meta /\ pend' = pend
        /\ eventsCh' = eventsCh /\ sends' = sends /\ eventCh' = eventCh /\ ring' = ring
    BY Zenon DEF JoinReturns, table
  <1>2. stage'[n] = "joined"
    BY Zenon DEF JoinReturns, TypesOK
  <1>3. "joined" # "off" /\ "joined" # "running" /\ "joining" # "off"
    OBVIOUS
  <1>4. ring[n] = {} /\ Follows(n) /\ Dated(n) /\ meta[n][n] = birth[n]
    BY <1>1, <1>3, Zenon DEF Local
  <1>5. names(n)' = names(n)
    BY <1>1, Zenon DEF names
  <1>6. Follows(n)'
    BY <1>1, <1>4, <1>5, Zenon DEF Follows
  <1>7. Dated(n)'
    BY <1>1, <1>4, Zenon DEF Dated
  <1> QED
    BY <1>1, <1>2, <1>3, <1>4, <1>6, <1>7, Zenon DEF Local

\* The node adds itself to its ring.
LEMMA BeginLocal ==
  ASSUME TypesOK, NEW n \in Node, Local(n), Begin(n)
  PROVE  Local(n)'
  <1>1. /\ stage[n] = "joined" /\ birth' = birth /\ live' = live /\ meta' = meta /\ pend' = pend
        /\ eventsCh' = eventsCh /\ sends' = sends /\ eventCh' = eventCh
    BY Zenon DEF Begin
  <1>2. stage'[n] = "running" /\ ring'[n] = {host(n)}
    BY Zenon DEF Begin, TypesOK
  <1>3. "running" # "off" /\ "running" \notin {"joining", "joined"} /\ "joined" # "off"
    OBVIOUS
  <1>4. ring[n] = {} /\ Follows(n) /\ meta[n][n] = birth[n]
    BY <1>1, <1>3, Zenon DEF Local
  <1>5. host(n).name = n /\ host(n).birth = birth[n]
    BY DEF host
  <1>6. names(n)' = {n}
    BY <1>2, <1>5, Zenon DEF names
  <1>7. names(n) \cup {n} = names(n)' \cup {n}
    BY <1>4, <1>6, Zenon DEF names
  <1>8. Follows(n)'
    BY <1>1, <1>4, <1>7, Zenon DEF Follows
  <1>9. Dated(n)'
    BY <1>1, <1>2, <1>4, <1>5, Zenon DEF Dated
  <1>10. n \in names(n)'
    BY <1>6, Zenon
  <1> QED
    BY <1>1, <1>2, <1>3, <1>4, <1>8, <1>9, <1>10, Zenon DEF Local

\* A process ends.
LEMMA DiesLocal ==
  ASSUME TypesOK, NEW n \in Node, Dies(n)
  PROVE  Local(n)'
  <1>1. /\ stage'[n] = "off" /\ ring'[n] = {} /\ pend'[n] = None
        /\ eventsCh'[n] = <<>> /\ sends'[n] = <<>> /\ eventCh'[n] = <<>>
    BY Zenon DEF Dies, TypesOK
  <1>2. "off" # "running" /\ "off" \notin {"joining", "joined"}
    OBVIOUS
  <1> QED
    BY <1>1, <1>2, Zenon DEF Local

-----------------------------------------------------------------------------

\* Every step keeps the invariant.
LEMMA NextRInv == RInv /\ [Next]_vars => RInv'
  <1> SUFFICES ASSUME RInv, [Next]_vars PROVE RInv'
    OBVIOUS
  <1>1. TypesOK /\ \A n \in Node : Local(n)
    BY Zenon DEF RInv
  <1>2. CASE UNCHANGED watched
    <2>1. TypesOK'
      BY <1>1, <1>2, Zenon DEF TypesOK, watched
    <2>2. \A n \in Node : Local(n)'
      BY <1>1, <1>2, Elsewhere, Zenon DEF watched
    <2> QED
      BY <2>1, <2>2, Zenon DEF RInv
  <1>3. ASSUME NEW n \in Node, Touches(n) PROVE RInv'
    <2>1. TypesOK'
      BY <1>1, <1>3, LearnTypes, EventTypes, LifeTypes, Zenon DEF Touches
    <2>2. Local(n)'
      BY <1>1, <1>3, <2>1, UnblockLocal, EventLoopLocal, SendEventLocal, ListenLocal, StartLocal, JoinReturnsLocal,
         BeginLocal, DiesLocal, LearnAliveLocal, LearnDeadLocal, Zenon DEF Touches
    <2>3. \A k \in Node : k # n => Local(k)'
      BY <1>1, <1>3, Others, Zenon
    <2> QED
      BY <2>1, <2>2, <2>3, Zenon DEF RInv
  <1> QED
    BY <1>2, <1>3, TableApart, Zenon

\* When nothing is on its way the ring is the view.
LEMMA RInvRing == RInv => RingFollowsView
  <1> SUFFICES ASSUME RInv, NEW n \in Node, Quiet(n) PROVE ring[n] = getMembers(n)
    BY Zenon DEF RingFollowsView
  <1>1. /\ stage[n] = "running" /\ pend[n] = None
        /\ eventsCh[n] = <<>> /\ sends[n] = <<>> /\ eventCh[n] = <<>>
    BY Zenon DEF Quiet
  <1>2. "running" # "off"
    OBVIOUS
  <1>3. n \in names(n) /\ Follows(n) /\ Dated(n)
    BY <1>1, <1>2, Zenon DEF RInv, Local
  <1>4. names(n) \cup {n} \in SUBSET Node /\ live[n] \in SUBSET Node /\ ring[n] \in SUBSET Host
    BY NodeTypes, Zenon DEF RInv
  <1>5. PICK A, B, C \in SUBSET Node :
          /\ Leads(n, <<>>, names(n) \cup {n}, A)
          /\ Leads(n, <<>>, A, B)
          /\ Leads(n, <<>>, B, C)
          /\ C = live[n]
    BY <1>1, <1>3, Zenon DEF Follows
  <1>6. A = names(n) \cup {n} /\ B = A /\ C = B
    BY <1>4, <1>5, LeadsEmpty, Zenon
  <1>7. \A m : m \in names(n) <=> m \in live[n]
    BY <1>3, <1>5, <1>6, Zenon
  <1>8. \A m : ~leaves(n, m)
    BY <1>1, LeadsEmpty, Zenon DEF leaves
  <1>9. \A h \in ring[n] : h.birth = meta[n][h.name]
    BY <1>3, <1>8, Zenon DEF Dated
  <1>10. \A h \in ring[n] : h = [name |-> h.name, birth |-> meta[n][h.name]]
    BY <1>4, <1>9 DEF Host
  <1>11. \A h \in ring[n] : h \in getMembers(n)
    BY <1>7, <1>10, Zenon DEF getMembers, names
  <1>12. ASSUME NEW m \in live[n] PROVE [name |-> m, birth |-> meta[n][m]] \in ring[n]
    <2>1. PICK h \in ring[n] : m = h.name
      BY <1>7, Zenon DEF names
    <2> QED
      BY <1>10, <2>1, Zenon
  <1>13. \A h \in getMembers(n) : h \in ring[n]
    BY <1>12, Zenon DEF getMembers
  <1> QED
    BY <1>11, <1>13, Zenon

\* The ring of a node catches up with memberlist (discovery.go, routing.go):
\* once every event is handled, the ring of listenMemberlistEvents has the
\* hosts memberlist holds to be alive, with their present birthdates.
THEOREM ClusterRingFollowsView == Spec => []RingFollowsView
  BY InitRInv, NextRInv, RInvRing, PTL DEF Spec

=============================================================================
