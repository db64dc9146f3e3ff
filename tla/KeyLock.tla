------------------------------- MODULE KeyLock -------------------------------
(***************************************************************************)
(* The lock of one key in a cluster, and what is built on it: dmap_lock.go  *)
(* with its forwarding and its search over the owners of the partition, and *)
(* Incr, Decr and GetPut of dmap_atomic.go, a get and a put under the lock. *)
(*                                                                         *)
(* Every dmap object has a locker of its own, so a Name of LockTimeout is a *)
(* dmap object here, and a node that drops its dmap and makes another one   *)
(* has forgotten its locks.  A call carries the node that is executing it;  *)
(* a request to another node and its handler are steps of the same call.    *)
(* Reads and writes of the key are atomic: that is what DMap is about.      *)
(***************************************************************************)
EXTENDS LockTimeout, SequencesExt

CONSTANTS Node,
          Setup      \* the settings a run covers: see MCKeyLock

VARIABLES setup,     \* the setting, chosen in the initial state
          table,     \* part.owners of the key's partition, as each node knows it
          dm,        \* the dmap in each node's partition, None when there is none
          made,      \* the dmap objects that have been made
          has,       \* the nodes whose dmap has the key
          moving,    \* the nodes whose moveDMap has passed its check of the locker
          losses,    \* how many requests or answers may still be lost
          step,      \* where each call is, while it is not inside the locker
          at,        \* the node that executes a call
          mine,      \* the variable dm of lockKey
          ask,       \* the owners findLockKey has still to ask
          asked,     \* the nodes that had no lock when the call looked
          raced,     \* calls that locked at a node after another had asked it
          val,       \* the value of the key, 0 when it is not there
          got        \* what the get of a call has read

kvars == <<setup, table, dm, made, has, moving, losses, step, at, mine, ask,
           asked, raced, val, got>>
dmvars == <<dm, made>>
callvars == <<step, at, mine, ask, asked, raced, val, got>>
clustervars == <<setup, table, dm, made, has, moving, losses>>

InitKey ==
  /\ InitTimeout
  /\ name = [p \in Call |-> CHOOSE d \in Name : TRUE]
  /\ setup \in Setup
  /\ table = [n \in Node |-> setup.owners]
  /\ dm = [n \in Node |-> IF n \in setup.has THEN CHOOSE d \in Name : TRUE ELSE None]
  /\ made = {dm[n] : n \in setup.has}
  /\ has = setup.has
  /\ moving = {}
  /\ losses = setup.losses
  /\ step = [p \in Call |-> IF setup.work[p] = "none" THEN "end" ELSE "locate"]
  /\ at = setup.client
  /\ mine = [p \in Call |-> None]
  /\ ask = [p \in Call |-> <<>>]
  /\ asked = [p \in Call |-> {}]
  /\ raced = {}
  /\ val = Cardinality(setup.has)
  /\ got = [p \in Call |-> 0]

-----------------------------------------------------------------------------
(* The partition at a node. *)

\* The calls that are inside findLockKey at n, which keeps part.RLock.
Searching(n) == {p \in Call : step[p] \in {"find", "ufind"} /\ at[p] = n}

\* getDMap: the dmap in the map, or the new one createDMap stores under
\* part.Lock.  Name bounds how many are made.
getDMap(n) == IF dm[n] # None THEN dm[n] ELSE CHOOSE d \in Name : d \notin made

Load(n) == /\ dm[n] = None => Searching(n) = {}
           /\ getDMap(n) \in Name
           /\ dm' = [dm EXCEPT ![n] = getDMap(n)]
           /\ made' = made \cup {getDMap(n)}

\* A dmap may be dropped: Name bounds how often that happens.
Spare == Cardinality({n \in Node : dm[n] = None}) < Cardinality(Name \ made)

\* The owners findLockKey asks: all but the node itself, the last one first.
others(n) == Reverse(SelectSeq(table[n], LAMBDA o : o # n))

-----------------------------------------------------------------------------
(* lockWithTimeout and unlock: find the node, the same way for both. *)

goto(p, s) == step' = [step EXCEPT ![p] = s]

\* locateKey: forward the call to the primary owner, or go on here.
Locate(p) ==
  LET n == at[p]
      o == Last(table[n])
  IN  /\ ~crashed
      /\ step[p] \in {"locate", "ulocate"}
      /\ at' = [at EXCEPT ![p] = o]
      /\ ask' = [ask EXCEPT ![p] = others(n)]
      /\ goto(p, CASE o # n -> step[p]
                   [] o = n /\ step[p] = "locate" -> "check"
                   [] OTHER -> "ufind")
      /\ UNCHANGED <<vars, tvars, clustervars, mine, asked, raced, val, got>>

\* lockKey begins with this node's own locker and does without the search
\* when it has the lock already.
Check(p) ==
  LET n == at[p]
      found == locks[getDMap(n)] # None
  IN  /\ ~crashed
      /\ step[p] = "check"
      /\ Load(n)
      /\ mine' = [mine EXCEPT ![p] = getDMap(n)]
      /\ ask' = [ask EXCEPT ![p] = others(n)]
      /\ asked' = [asked EXCEPT ![p] = IF found THEN {} ELSE {n}]
      /\ goto(p, IF found THEN "lock" ELSE "find")
      /\ UNCHANGED <<vars, tvars, setup, table, has, moving, losses, at, raced, val, got>>

\* Mutant: the answer of the previous owners is ignored.
AskDeaf(p) ==
  /\ ~crashed
  /\ step[p] \in {"find", "ufind"}
  /\ ask[p] # <<>>
  /\ Load(Head(ask[p]))
  /\ ask' = [ask EXCEPT ![p] = Tail(@)]
  /\ asked' = IF locks[getDMap(Head(ask[p]))] # None THEN asked
              ELSE [asked EXCEPT ![p] = @ \cup {Head(ask[p])}]
  /\ UNCHANGED <<vars, tvars, setup, table, has, moving, losses, step, at, mine, raced, val, got>>

\* findLockKey asks the next owner (findLockOperation there).  The call goes
\* on at that owner when it has the lock (OpLockPrev, OpUnlockPrev).
Ask(p) ==
  LET o == Head(ask[p])
      found == locks[getDMap(o)] # None
  IN  /\ ~crashed
      /\ step[p] \in {"find", "ufind"}
      /\ ask[p] # <<>>
      /\ Load(o)
      /\ IF found
         THEN /\ at' = [at EXCEPT ![p] = o]
              /\ goto(p, IF step[p] = "find" THEN "prev" ELSE "unlock")
              /\ UNCHANGED <<ask, asked>>
         ELSE /\ ask' = [ask EXCEPT ![p] = Tail(@)]
              /\ asked' = [asked EXCEPT ![p] = @ \cup {o}]
              /\ UNCHANGED <<at, step>>
      /\ UNCHANGED <<vars, tvars, setup, table, has, moving, losses, mine, raced, val, got>>

\* No owner has the lock: it is, or will be, on this node.
FindThis(p) ==
  /\ ~crashed
  /\ step[p] \in {"find", "ufind"}
  /\ ask[p] = <<>>
  /\ goto(p, IF step[p] = "find" THEN "lock" ELSE "unlock")
  /\ UNCHANGED <<vars, tvars, clustervars, at, mine, ask, asked, raced, val, got>>

\* The call executes at a previous owner, which had the lock.
redirected(p) == ask[p] # <<>> /\ Head(ask[p]) = at[p]

\* A request to another node: to the primary owner, OpFindLock, OpLockPrev and
\* OpUnlockPrev.
requests(p) == \/ step[p] \in {"locate", "ulocate"} /\ Last(table[at[p]]) # at[p]
               \/ step[p] \in {"find", "ufind"} /\ ask[p] # <<>>
               \/ step[p] = "prev"
               \/ step[p] = "unlock" /\ redirected(p)

\* It fails, and with it the lock or the unlock.  Whoever has the lock does not
\* give it back then.
RequestFails(p) ==
  /\ ~crashed
  /\ requests(p)
  /\ losses > 0
  /\ losses' = losses - 1
  /\ goto(p, "end")
  /\ UNCHANGED <<vars, tvars, setup, table, dm, made, has, moving, at, mine, ask, asked, raced, val, got>>

-----------------------------------------------------------------------------
(* The lock itself. *)

\* p locks at node n: calls that have asked n before know nothing of it.
races(p, n) == {{p, q} : q \in {c \in Call \ {p} : n \in asked[c]}}

\* dm.locker.lock(key), with the dmap lockKey loaded in the beginning.
LockHere(p) ==
  /\ step[p] = "lock"
  /\ Enter(p, mine[p])
  /\ raced' = raced \cup races(p, at[p])
  /\ goto(p, "wait")
  /\ UNCHANGED <<clustervars, at, mine, ask, asked, val, got>>

\* lockPrevOperation at the owner that had the lock when it was asked.
LockPrev(p) ==
  /\ step[p] = "prev"
  /\ Load(at[p])
  /\ Enter(p, getDMap(at[p]))
  /\ raced' = raced \cup races(p, at[p])
  /\ goto(p, "wait")
  /\ UNCHANGED <<setup, table, has, moving, losses, at, mine, ask, asked, val, got>>

Acquires(p) == Acquire(p) /\ UNCHANGED kvars

\* The answer to a lock request is lost: the caller has an error, and the
\* handler goes on and takes the lock.
AnswerLost(p) ==
  /\ ~crashed
  /\ step[p] = "wait"
  /\ at[p] # setup.client[p] \/ redirected(p)
  /\ losses > 0
  /\ losses' = losses - 1
  /\ goto(p, "lost")
  /\ UNCHANGED <<vars, tvars, setup, table, dm, made, has, moving, at, mine, ask, asked, raced, val, got>>

\* lock returns, the timeout goroutine is started.
Locked(p) ==
  /\ LockReturns(p)
  /\ goto(p, CASE step[p] = "lost" -> "end"
               [] step[p] # "lost" /\ setup.work[p] = "lock" -> "held"
               [] OTHER -> "get")
  /\ UNCHANGED <<clustervars, at, mine, ask, asked, raced, val, got>>

\* DMap.Unlock, and the deferred unlock of dmap_atomic.go: it starts anew at
\* the caller's node.
UnlockCall(p) ==
  /\ ~crashed
  /\ step[p] \in {"held", "release"}
  /\ goto(p, "ulocate")
  /\ at' = [at EXCEPT ![p] = setup.client[p]]
  /\ UNCHANGED <<vars, tvars, clustervars, mine, ask, asked, raced, val, got>>

\* unlockKey on this node and unlockPrevOperation: unlock what the dmap has
\* under the key now.
UnlockHere(p) ==
  LET d == getDMap(at[p])
  IN  /\ ~crashed
      /\ step[p] = "unlock"
      /\ Load(at[p])
      /\ unlock(d)
      /\ pc' = [pc EXCEPT ![p] = IF locks[d] = None THEN "nolock" ELSE "done"]
      /\ goto(p, "end")
      /\ UNCHANGED <<waiters, done, name, nameLock, tvars, setup, table, has,
                     moving, losses, at, mine, ask, asked, raced, val, got>>

-----------------------------------------------------------------------------
(* atomicIncrDecr and getPut. *)

GetValue(p) ==
  /\ ~crashed
  /\ step[p] = "get"
  /\ got' = [got EXCEPT ![p] = val]
  /\ goto(p, "put")
  /\ UNCHANGED <<vars, tvars, clustervars, at, mine, ask, asked, raced, val>>

newval(p) == IF setup.work[p] = "incr" THEN got[p] + 1 ELSE setup.value

\* The put goes to the primary owner, found anew, whose dmap has the key then.
PutValue(p) ==
  LET o == Last(table[setup.client[p]])
  IN  /\ ~crashed
      /\ step[p] = "put"
      /\ val' = newval(p)
      /\ Load(o)
      /\ has' = has \cup {o}
      /\ goto(p, "release")
      /\ UNCHANGED <<vars, tvars, setup, table, moving, losses, at, mine, ask, asked, raced, got>>

\* Mutant: an error returns without the deferred unlock.
FailsLocked(p) ==
  /\ ~crashed
  /\ step[p] \in {"get", "put"}
  /\ p \in setup.errors
  /\ goto(p, "end")
  /\ UNCHANGED <<vars, tvars, clustervars, at, mine, ask, asked, raced, val, got>>

\* The value has another type, or the get or the put fails: return the error,
\* after the deferred unlock.
Fails(p) ==
  /\ ~crashed
  /\ step[p] \in {"get", "put"}
  /\ p \in setup.errors
  /\ goto(p, "release")
  /\ UNCHANGED <<vars, tvars, clustervars, at, mine, ask, asked, raced, val, got>>

-----------------------------------------------------------------------------
(* What happens around the calls. *)

\* waitLockForTimeout, in settings with timeouts short enough to expire.
Timeout(p) == /\ setup.expire
              /\ Notifier(p) \/ AlreadyUnlocked(p) \/ Expire(p)
              /\ UNCHANGED kvars

\* updateRoutingOperation replaces part.owners under part.Lock.
TakeOver(n) ==
  /\ ~crashed
  /\ table[n] # setup.next
  /\ Searching(n) = {}
  /\ table' = [table EXCEPT ![n] = setup.next]
  /\ UNCHANGED <<vars, tvars, setup, dm, made, has, moving, losses, callvars>>

\* moveDMap at a previous owner does nothing while its locker has a lock...
MoveCheck(n) ==
  /\ ~crashed
  /\ setup.fsck
  /\ n \in Range(Front(table[n])) \ moving
  /\ dm[n] # None
  /\ locks[dm[n]] = None
  /\ Spare
  /\ moving' = moving \cup {n}
  /\ UNCHANGED <<vars, tvars, setup, table, dm, made, has, losses, callvars>>

\* ... and drops the dmap when the primary owner has merged its data.
MoveDrop(n) ==
  LET o == Last(table[n])
  IN  /\ ~crashed
      /\ n \in moving
      /\ Spare
      /\ moving' = moving \ {n}
      /\ dm' = [dm EXCEPT ![n] = None, ![o] = getDMap(o)]
      /\ made' = made \cup {getDMap(o)}
      /\ has' = IF n \in has THEN (has \ {n}) \cup {o} ELSE has
      /\ UNCHANGED <<vars, tvars, setup, table, losses, callvars>>

\* deleteStaleDMaps looks at the storage only.
DropStale(n) ==
  /\ ~crashed
  /\ setup.janitor
  /\ dm[n] # None
  /\ n \notin has \cup moving
  /\ Spare
  /\ dm' = [dm EXCEPT ![n] = None]
  /\ UNCHANGED <<vars, tvars, setup, table, made, has, moving, losses, callvars>>

-----------------------------------------------------------------------------
CallStep(p) == \/ Locate(p)   \/ Check(p)    \/ Ask(p)        \/ FindThis(p)
               \/ LockHere(p) \/ LockPrev(p) \/ Acquires(p)   \/ Locked(p)
               \/ GetValue(p) \/ PutValue(p) \/ UnlockHere(p)
               \/ UnlockCall(p)

NextKey == \/ \E p \in Call : CallStep(p) \/ RequestFails(p) \/ AnswerLost(p) \/ Fails(p) \/ Timeout(p)
           \/ \E n \in Node : TakeOver(n) \/ MoveCheck(n) \/ MoveDrop(n) \/ DropStale(n)

allkvars == <<allvars, kvars>>

SpecKey == InitKey /\ [][NextKey]_allkvars

\* Requests are answered, goroutines run, members get the table in the end.
\* The holder of a plain lock (step "held") may keep it; Incr and GetPut
\* release theirs.
FairSpecKey ==
  /\ SpecKey
  /\ \A p \in Call : WF_allkvars(CallStep(p) /\ step[p] # "held")
                     /\ WF_allkvars(Timeout(p))
  /\ \A n \in Node : WF_allkvars(TakeOver(n))

-----------------------------------------------------------------------------
(* Properties that hold. *)

\* A dmap was dropped with a lock in its locker.
forgotten == \E d \in made \ Range(dm) : locks[d] # None

\* Two calls have locked in two dmaps, one after the other had asked there.
astray == \E p, q \in Call : /\ {p, q} \in raced
                             /\ pc[p] # "idle" /\ pc[q] # "idle"
                             /\ name[p] # name[q]

\* dmap_atomic.go:79, "Incr atomically increments key by delta", with what has
\* to be excluded: an update overwrites another one only when a timeout has
\* fired, a dmap was dropped with its locks, or two calls searched and locked
\* at two owners at the same time.  In particular a lock that was taken at the
\* previous owner holds back the calls at the new one.
UpdatesExact ==
  [][\A p \in Call : (PutValue(p) /\ val # got[p]) =>
        \/ astray
        \/ forgotten
        \/ \E q \in Call : timer[q] = "fired"]_allkvars

\* Without timeouts no Incr and no GetPut waits for ever, whatever tables its
\* forwarding meets, whether updates fail, and though findLockKey has the
\* partition's lock while it waits for another node.  The exceptions are a
\* lock that was dropped with its dmap, and two locks at two owners, where
\* unlockKey releases the one at the other owner whosever it is.  Requests are
\* lost only in settings with timeouts: UncontendedLockExpires is about those.
EveryCallReturns ==
  \A p \in Call : step[p] = "locate" ~> (step[p] = "end" \/ forgotten \/ astray \/ setup.expire)

-----------------------------------------------------------------------------
(* What the documentation states and the code does not have. *)

\* dmap_atomic.go:79, "Incr atomically increments key by delta": what the put
\* replaces is what the get has read.
IncrAtomic == [][\A p \in Call : PutValue(p) => val = got[p]]_allkvars
=============================================================================
