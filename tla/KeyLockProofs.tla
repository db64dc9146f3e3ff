---------------------------- MODULE KeyLockProofs ----------------------------
(***************************************************************************)
(* One holder for each locker of the cluster, for every set of calls,      *)
(* nodes and settings: whatever unlock comes from a timeout, from a call   *)
(* that found the lock at another owner, or for a lock that is not its     *)
(* own.  In LockerProofs a call unlocks only what it has; here it is only  *)
(* the counter of the waiters that protects an entry, so KInv says less    *)
(* about the mutex and more about where the calls are: a call that waits   *)
(* in the locker does nothing else.                                        *)
(***************************************************************************)
EXTENDS KeyLock, LockerProofs

KTypeOK == /\ locks \in [Name -> Ptr]
           /\ waiters \in [Call -> Int]
           /\ mutex \in [Call -> Ptr]
           /\ pc \in [Call -> PCs]
           /\ name \in [Call -> Name]
           /\ nameLock \in [Call -> Ptr]
           /\ DOMAIN step = Call
           /\ DOMAIN mine = Call

\* A call that waits for a lockCtr or has it was served by the map entry of
\* its name, and the entry is still there.
Served == \A p \in Call : Uses(p) => /\ nameLock[p] \in Call
                                     /\ locks[name[p]] = nameLock[p]

\* A lockCtr is in the map only under the name its creator asked for.
OwnName == \A n \in Name : locks[n] # None => /\ pc[locks[n]] # "idle"
                                              /\ name[locks[n]] = n

\* A call that is counted as a waiter is inside locker.lock, and one that is
\* about to lock has loaded a dmap.
Placed == \A p \in Call : /\ Waits(p) => step[p] \in {"wait", "lost"}
                          /\ step[p] \in {"find", "lock"} => mine[p] \in Name

KInv == KTypeOK /\ Served /\ OwnName /\ Placed /\ WaitersExact

lockerState == <<locks, waiters, mutex, pc, name, nameLock>>

-----------------------------------------------------------------------------
(* The locker under the calls of the cluster. *)

\* KInv is about the locker and about where the calls are: a step that leaves
\* the locker alone preserves it when it preserves Placed.
LEMMA LockerUntouched ==
  ASSUME KInv, UNCHANGED lockerState, DOMAIN step' = Call, DOMAIN mine' = Call, Placed'
  PROVE  KInv'
  <1>1. KTypeOK' /\ Served' /\ OwnName'
    BY DEF KInv, KTypeOK, Served, OwnName, Uses, Waits, Has, lockerState
  <1>2. WaitersExact'
    BY DEF KInv, WaitersExact, Waits, lockerState
  <1> QED
    BY <1>1, <1>2 DEF KInv

\* locker.lock under l.mu.
LEMMA EnterKInv ==
  ASSUME KInv, NEW p \in Call, NEW n \in Name, LockEnter(p, n),
         step' = [step EXCEPT ![p] = "wait"], mine' = mine
  PROVE  KInv'
  <1> USE NoneFresh
  <1>0. pc[p] = "idle"
    BY Zenon DEF LockEnter
  <1>1. PICK c \in Call : c = IF locks[n] = None THEN p ELSE locks[n]
    BY DEF KInv, KTypeOK, Ptr
  <1>2. KTypeOK'
    BY <1>1 DEF KInv, KTypeOK, LockEnter, PCs, Ptr
  <1>3. Served'
    <2> SUFFICES ASSUME NEW q \in Call, Uses(q)'
                 PROVE  nameLock'[q] \in Call /\ locks'[name'[q]] = nameLock'[q]
      BY DEF Served
    <2>1. CASE q = p
      BY <1>1, <2>1 DEF LockEnter, KInv, KTypeOK
    <2>2. CASE q # p
      <3>1. Uses(q) /\ nameLock'[q] = nameLock[q] /\ name'[q] = name[q]
        BY <2>2 DEF Uses, Waits, Has, LockEnter, KInv, KTypeOK
      <3>2. nameLock[q] \in Call /\ locks[name[q]] = nameLock[q]
        BY <3>1 DEF KInv, Served
      <3> QED
        BY <1>1, <3>1, <3>2 DEF LockEnter, KInv, KTypeOK
    <2> QED
      BY <2>1, <2>2
  <1>4. OwnName'
    BY <1>0 DEF OwnName, LockEnter, KInv, KTypeOK, Ptr
  <1>5. Placed'
    BY DEF Placed, Waits, LockEnter, KInv, KTypeOK
  <1>6. WaitersExact'
    <2>1. /\ p \notin Waiting(c)
          /\ Waiting(c)' = Waiting(c) \cup {p}
      BY <1>0, <1>1 DEF Waiting, Waits, LockEnter, KInv, KTypeOK
    <2>2. Cardinality(Waiting(c)') = Cardinality(Waiting(c)) + 1
      BY <2>1, WaitingFinite, FS_AddElement, Zenon
    <2>3. \A d \in Call \ {c} : Waiting(d)' = Waiting(d)
      BY <1>0, <1>1 DEF Waiting, Waits, LockEnter, KInv, KTypeOK
    <2>4. /\ waiters'[c] = waiters[c] + 1
          /\ \A d \in Call \ {c} : waiters'[d] = waiters[d]
      BY <1>1 DEF LockEnter, KInv, KTypeOK
    <2>5. \A d \in Call : waiters'[d] = Cardinality(Waiting(d)')
      <3> TAKE d \in Call
      <3>1. waiters[d] = Cardinality(Waiting(d))
        BY WaitersCount DEF KInv
      <3>2. CASE d = c
        BY <2>2, <2>4, <3>1, <3>2
      <3>3. CASE d # c
        BY <2>3, <2>4, <3>1, <3>3
      <3> QED
        BY <3>2, <3>3
    <2> QED
      BY <2>5, Zenon DEF WaitersExact, Waiting
  <1> QED
    BY <1>2, <1>3, <1>4, <1>5, <1>6 DEF KInv

\* nameLock.lock() of a call.
LEMMA AcquireKInv ==
  ASSUME KInv, NEW p \in Call, LockAcquire(p), step' = step, mine' = mine
  PROVE  KInv'
  <1> USE NoneFresh
  <1>1. pc[p] = "waiting" /\ Uses(p) /\ nameLock[p] \in Call
    BY DEF LockAcquire, KInv, Served, Uses, Waits
  <1>2. KTypeOK'
    BY <1>1 DEF KInv, KTypeOK, LockAcquire, PCs, Ptr
  <1>3. \A q \in Call : Uses(q)' => Uses(q)
    BY <1>1 DEF Uses, Waits, Has, LockAcquire, KInv, KTypeOK
  <1>4. Served' /\ OwnName' /\ Placed'
    BY <1>1, <1>3 DEF Served, OwnName, Placed, Waits, LockAcquire, KInv, KTypeOK, Ptr
  <1>5. \A d \in Call : Waiting(d)' = Waiting(d)
    BY <1>1 DEF Waiting, Waits, LockAcquire, KInv, KTypeOK
  <1>6. WaitersExact'
    BY <1>5 DEF WaitersExact, Waiting, LockAcquire, KInv
  <1> QED
    BY <1>2, <1>4, <1>6 DEF KInv

\* nameLock.dec(), and the call goes on with what it needs the lock for.
LEMMA DecKInv ==
  ASSUME KInv, NEW p \in Call, LockDec(p), NEW s,
         step' = [step EXCEPT ![p] = s], s \notin {"find", "lock"}, mine' = mine
  PROVE  KInv'
  <1> USE NoneFresh
  <1>1. pc[p] = "acquired" /\ Uses(p)
    BY DEF LockDec, Uses, Waits
  <1>2. PICK c \in Call : c = nameLock[p]
    BY <1>1 DEF KInv, Served
  <1>3. KTypeOK'
    BY <1>2 DEF KInv, KTypeOK, LockDec, PCs, Ptr
  <1>4. \A q \in Call : Uses(q)' => Uses(q)
    BY <1>1 DEF Uses, Waits, Has, LockDec, KInv, KTypeOK
  <1>5. Served' /\ OwnName'
    BY <1>1, <1>4 DEF Served, OwnName, LockDec, KInv, KTypeOK, Ptr
  <1>6. Placed'
    BY DEF Placed, Waits, LockDec, KInv, KTypeOK
  <1>7. WaitersExact'
    <2>1. /\ p \in Waiting(c)
          /\ Waiting(c)' = Waiting(c) \ {p}
      BY <1>1, <1>2 DEF Waiting, Waits, LockDec, KInv, KTypeOK
    <2>2. Cardinality(Waiting(c)') = Cardinality(Waiting(c)) - 1
      BY <2>1, WaitingFinite, FS_RemoveElement
    <2>3. \A d \in Call \ {c} : Waiting(d)' = Waiting(d)
      BY <1>1, <1>2 DEF Waiting, Waits, LockDec, KInv, KTypeOK
    <2>4. /\ waiters'[c] = waiters[c] - 1
          /\ \A d \in Call \ {c} : waiters'[d] = waiters[d]
      BY <1>2 DEF LockDec, KInv, KTypeOK
    <2>5. \A d \in Call : waiters'[d] = Cardinality(Waiting(d)')
      <3> TAKE d \in Call
      <3>1. waiters[d] = Cardinality(Waiting(d))
        BY WaitersCount DEF KInv
      <3>2. CASE d = c
        BY <2>2, <2>4, <3>1, <3>2
      <3>3. CASE d # c
        BY <2>3, <2>4, <3>1, <3>3
      <3> QED
        BY <3>2, <3>3
    <2> QED
      BY <2>5 DEF WaitersExact, Waiting
  <1> QED
    BY <1>3, <1>5, <1>6, <1>7 DEF KInv

\* unlock by anybody, for whatever the name stands for: the entry goes only
\* when its mutex is free and nobody waits for it.  The pc of a call that is
\* not a waiter may change to one that is outside the lock.
LEMMA UnlockKInv ==
  ASSUME KInv, NEW n \in Name, unlock(n), NEW p \in Call,
         DOMAIN step' = Call, mine' = mine, Placed',
         \/ pc' = pc
         \/ ~Waits(p) /\ pc' = [pc EXCEPT ![p] = "done"]
         \/ ~Waits(p) /\ pc' = [pc EXCEPT ![p] = "nolock"],
         UNCHANGED <<waiters, name, nameLock>>
  PROVE  KInv'
  <1> USE NoneFresh
  <1>1. KTypeOK'
    <2>1. CASE locks[n] = None
      BY <2>1 DEF unlock, KInv, KTypeOK, PCs, Ptr
    <2>2. CASE locks[n] # None
      BY <2>2 DEF unlock, KInv, KTypeOK, PCs, Ptr
    <2> QED
      BY <2>1, <2>2
  <1>2. \A q \in Call : Waits(q)' <=> Waits(q)
    BY DEF Waits, KInv, KTypeOK
  <1>3. \A d \in Call : Waiting(d)' = Waiting(d)
    BY <1>2 DEF Waiting
  <1>4. WaitersExact'
    BY <1>3, WaitersCount DEF WaitersExact, Waiting, KInv
  <1>5. OwnName'
    <2>1. \A m \in Name : locks'[m] # None => locks'[m] = locks[m]
      BY DEF unlock, KInv, KTypeOK
    <2>2. \A q \in Call : pc[q] # "idle" => pc'[q] # "idle"
      BY DEF KInv, KTypeOK
    <2> QED
      BY <2>1, <2>2 DEF OwnName, KInv, KTypeOK, Ptr
  <1>6. Served'
    <2> SUFFICES ASSUME NEW q \in Call, Uses(q)'
                 PROVE  nameLock[q] \in Call /\ locks'[name[q]] = nameLock[q]
      BY DEF Served
    <2>1. Uses(q)
      BY <1>2 DEF Uses, Has, unlock, KInv, KTypeOK, Ptr
    <2>2. nameLock[q] \in Call /\ locks[name[q]] = nameLock[q]
      BY <2>1 DEF KInv, Served
    <2>3. CASE name[q] # n
      BY <2>2, <2>3 DEF unlock, KInv, KTypeOK
    <2>4. CASE name[q] = n
      <3>1. locks[n] = nameLock[q] /\ locks[n] # None
        BY <2>2, <2>4
      <3>2. Waits(q)
        <4>1. mutex' = [mutex EXCEPT ![nameLock[q]] = None]
          BY <3>1 DEF unlock
        <4>2. ~Has(q)'
          BY <2>2, <4>1 DEF Has, KInv, KTypeOK
        <4> QED
          BY <1>2, <4>2 DEF Uses
      <3>3. q \in Waiting(nameLock[q])
        BY <3>2 DEF Waiting
      <3>4. waiters[nameLock[q]] # 0
        BY <2>2, <3>3, WaitersCount, WaitingFinite, FS_EmptySet DEF KInv
      <3> QED
        BY <2>2, <2>4, <3>1, <3>4 DEF unlock, KInv, KTypeOK
    <2> QED
      BY <2>3, <2>4
  <1> QED
    BY <1>1, <1>4, <1>5, <1>6 DEF KInv, KTypeOK

-----------------------------------------------------------------------------
(* The steps of the calls, and of what happens around them. *)

\* Initially no call is in a locker.
LEMMA InitKInv == InitKey => KInv
  <1> SUFFICES ASSUME InitKey PROVE KInv
    OBVIOUS
  <1> USE NoneFresh
  <1>1. KTypeOK
    BY DEF InitKey, InitTimeout, Init, KTypeOK, PCs, Ptr
  <1>2. Served /\ OwnName /\ Placed
    BY DEF InitKey, InitTimeout, Init, Served, OwnName, Placed, Uses, Waits, Has
  <1>3. \A c \in Call : Waiting(c) = {}
    BY DEF InitKey, InitTimeout, Init, Waiting, Waits
  <1>4. WaitersExact
    BY <1>3, WaitersCount, FS_EmptySet, Zenon DEF InitKey, InitTimeout, Init
  <1> QED
    BY <1>1, <1>2, <1>4 DEF KInv

\* The steps of a call outside the locker: the call was not a waiter, and
\* goes on to lock only with a dmap it has loaded.
LEMMA OutsideKInv ==
  ASSUME KInv, NEW p \in Call,
         \/ Locate(p) \/ Check(p) \/ Ask(p) \/ FindThis(p) \/ RequestFails(p)
         \/ UnlockCall(p) \/ GetValue(p) \/ PutValue(p) \/ Fails(p)
  PROVE  KInv'
  <1>1. UNCHANGED lockerState
    BY Zenon DEF lockerState, vars, Locate, Check, Ask, FindThis, RequestFails, UnlockCall,
           GetValue, PutValue, Fails
  <1>2. \A q \in Call : Waits(q)' <=> Waits(q)
    BY <1>1, Zenon DEF Waits, lockerState
  <1>3. step[p] \notin {"wait", "lost"}
    BY Zenon DEF Locate, Check, Ask, FindThis, RequestFails, requests, UnlockCall, GetValue, PutValue, Fails
  <1>4. ~Waits(p)
    BY <1>3, Zenon DEF KInv, Placed
  <1>5. /\ DOMAIN step' = Call /\ DOMAIN mine' = Call
        /\ \A q \in Call \ {p} : step'[q] = step[q] /\ mine'[q] = mine[q]
    BY Zenon DEF KInv, KTypeOK, goto, Locate, Check, Ask, FindThis, RequestFails, UnlockCall,
           GetValue, PutValue, Fails
  <1>6. step'[p] \in {"find", "lock"} => mine'[p] \in Name
    <2>1. CASE Check(p)
      BY <2>1, Zenon DEF Check, Load, KInv, KTypeOK
    <2>2. CASE FindThis(p) \/ Ask(p)
      BY <2>2 DEF FindThis, Ask, goto, KInv, KTypeOK, Placed
    <2>3. CASE Locate(p) \/ RequestFails(p) \/ UnlockCall(p) \/ GetValue(p) \/ PutValue(p) \/ Fails(p)
      BY <2>3, Zenon DEF Locate, RequestFails, UnlockCall, GetValue, PutValue, Fails, goto, KInv, KTypeOK
    <2> QED
      BY <2>1, <2>2, <2>3
  <1>7. Placed'
    BY <1>2, <1>4, <1>5, <1>6, Zenon DEF Placed, KInv
  <1> QED
    BY <1>1, <1>5, <1>7, LockerUntouched

\* The answer is lost while the call waits in the locker, where it stays.
LEMMA AnswerLostKInv ==
  ASSUME KInv, NEW p \in Call, AnswerLost(p)
  PROVE  KInv'
  <1>1. UNCHANGED lockerState /\ mine' = mine /\ step' = [step EXCEPT ![p] = "lost"]
    BY Zenon DEF AnswerLost, goto, vars, lockerState
  <1>2. DOMAIN step' = Call /\ DOMAIN mine' = Call
    BY <1>1, Zenon DEF KInv, KTypeOK
  <1>3. Placed'
    BY <1>1 DEF Placed, Waits, lockerState, KInv, KTypeOK
  <1> QED
    BY <1>1, <1>2, <1>3, LockerUntouched, Zenon

\* The steps of a call into the locker, in it and out of it.
LEMMA InsideKInv ==
  ASSUME KInv, NEW p \in Call,
         LockHere(p) \/ LockPrev(p) \/ Acquires(p) \/ Locked(p) \/ UnlockHere(p)
  PROVE  KInv'
  <1>1. CASE LockHere(p)
    <2>1. mine[p] \in Name
      BY <1>1 DEF LockHere, KInv, Placed
    <2> QED
      BY <1>1, <2>1, EnterKInv, Zenon DEF LockHere, Enter, goto
  <1>2. CASE LockPrev(p)
    BY <1>2, EnterKInv, Zenon DEF LockPrev, Load, Enter, goto
  <1>3. CASE Acquires(p)
    BY <1>3, AcquireKInv DEF Acquires, Acquire, kvars
  <1>4. CASE Locked(p)
    <2>1. PICK s \in {"held", "get", "end"} : step' = [step EXCEPT ![p] = s]
      BY <1>4, Zenon DEF Locked, goto
    <2>2. LockDec(p) /\ mine' = mine
      BY <1>4 DEF Locked, LockReturns
    <2> QED
      BY <2>1, <2>2, DecKInv, Zenon
  <1>5. CASE UnlockHere(p)
    <2> DEFINE d == getDMap(at[p])
    <2>1. d \in Name /\ unlock(d) /\ step[p] = "unlock"
      BY <1>5, Zenon DEF UnlockHere, Load
    <2>2. ~Waits(p)
      BY <2>1 DEF KInv, Placed
    <2>3. /\ step' = [step EXCEPT ![p] = "end"]
          /\ mine' = mine
          /\ UNCHANGED <<waiters, name, nameLock>>
      BY <1>5 DEF UnlockHere, goto
    <2>4. pc' = [pc EXCEPT ![p] = "done"] \/ pc' = [pc EXCEPT ![p] = "nolock"]
      BY <1>5, Zenon DEF UnlockHere
    <2>5. Placed'
      BY <2>2, <2>3, <2>4, Zenon DEF Placed, Waits, KInv, KTypeOK
    <2>6. DOMAIN step' = Call
      BY <2>3 DEF KInv, KTypeOK
    <2> HIDE DEF d
    <2> QED
      BY <2>1, <2>2, <2>3, <2>4, <2>5, <2>6, UnlockKInv
  <1> QED
    BY <1>1, <1>2, <1>3, <1>4, <1>5

\* waitLockForTimeout: the unlock of Expire is nobody's in particular.
LEMMA TimeoutKInv ==
  ASSUME KInv, NEW p \in Call, Timeout(p)
  PROVE  KInv'
  <1>1. UNCHANGED <<step, mine>>
    BY Zenon DEF Timeout, kvars
  <1>2. CASE Notifier(p) \/ AlreadyUnlocked(p)
    <2>1. UNCHANGED lockerState
      BY <1>2 DEF Notifier, AlreadyUnlocked, vars, lockerState
    <2>2. Placed'
      BY <1>1, <2>1 DEF Placed, Waits, lockerState, KInv
    <2> QED
      BY <1>1, <2>1, <2>2, LockerUntouched DEF KInv, KTypeOK
  <1>3. CASE Expire(p)
    <2>1. /\ unlock(name[p]) /\ pc' = pc
          /\ UNCHANGED <<waiters, name, nameLock>>
      BY <1>3, Zenon DEF Expire
    <2>2. Placed'
      BY <1>1, <2>1 DEF Placed, Waits, KInv
    <2>3. name[p] \in Name /\ DOMAIN step' = Call
      BY <1>1, Zenon DEF KInv, KTypeOK
    <2> QED
      BY <1>1, <2>1, <2>2, <2>3, UnlockKInv
  <1> QED
    BY <1>2, <1>3 DEF Timeout

\* Tables, moves and the janitor leave the locker objects and the calls alone.
LEMMA AroundKInv ==
  ASSUME KInv, NEW n \in Node,
         TakeOver(n) \/ MoveCheck(n) \/ MoveDrop(n) \/ DropStale(n)
  PROVE  KInv'
  <1>1. UNCHANGED lockerState /\ UNCHANGED <<step, mine>>
    BY Zenon DEF TakeOver, MoveCheck, MoveDrop, DropStale, vars, callvars, lockerState
  <1>2. Placed'
    BY <1>1 DEF Placed, Waits, lockerState, KInv
  <1> QED
    BY <1>1, <1>2, LockerUntouched, Zenon DEF KInv, KTypeOK

\* Every step preserves KInv.
LEMMA NextKInv == KInv /\ [NextKey]_allkvars => KInv'
  <1> SUFFICES ASSUME KInv, [NextKey]_allkvars PROVE KInv'
    OBVIOUS
  <1>1. ASSUME NEW p \in Call, CallStep(p) \/ RequestFails(p) \/ AnswerLost(p) \/ Fails(p) \/ Timeout(p)
        PROVE  KInv'
    BY <1>1, OutsideKInv, AnswerLostKInv, InsideKInv, TimeoutKInv DEF CallStep
  <1>2. ASSUME NEW n \in Node, TakeOver(n) \/ MoveCheck(n) \/ MoveDrop(n) \/ DropStale(n)
        PROVE  KInv'
    BY <1>2, AroundKInv, Zenon
  <1>3. CASE UNCHANGED allkvars
    <2>1. UNCHANGED lockerState /\ UNCHANGED <<step, mine>>
      BY <1>3 DEF allkvars, allvars, vars, kvars, lockerState
    <2>2. Placed'
      BY <2>1 DEF Placed, Waits, lockerState, KInv
    <2> QED
      BY <2>1, <2>2, LockerUntouched DEF KInv, KTypeOK
  <1> QED
    BY <1>1, <1>2, <1>3 DEF NextKey

\* KInv gives the property: two holders of a name have the same lockCtr, and
\* its mutex has one owner.
LEMMA KInvImplies == KInv => OneHolderPerName
  <1> SUFFICES ASSUME KInv PROVE OneHolderPerName
    OBVIOUS
  <1>1. EntryKept
    BY DEF KInv, Served, EntryKept
  <1>2. MutualExclusion
    BY <1>1 DEF MutualExclusion, EntryKept, Uses, Has
  <1> QED
    BY <1>1, <1>2 DEF KInv, OneHolderPerName

\* dmap_lock.go over locker.go: at every dmap of the cluster at most one call
\* has the lock, an entry that is waited for is never deleted and the waiters
\* are counted exactly, although timeouts and searches at other owners unlock
\* what belongs to others.
THEOREM KeyLockOneHolder == SpecKey => []OneHolderPerName
  BY InitKInv, NextKInv, KInvImplies, PTL DEF SpecKey
=============================================================================
