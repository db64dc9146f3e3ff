---------------------------- MODULE LockerProofs ----------------------------
(***************************************************************************)
(* The locker is correct for every finite set of calls and every set of    *)
(* names.  IInv is the inductive invariant: the type invariant, the exact  *)
(* meaning of the map entries, counters and mutexes, and the fact that a   *)
(* call that has not started owns nothing (the lockCtr it may allocate is  *)
(* fresh).                                                                 *)
(***************************************************************************)
EXTENDS Locker, FiniteSetTheorems, TLAPS

Waiting(c) == {p \in Call : Waits(p) /\ nameLock[p] = c}

\* A call that has entered lock and not left unlock is served by the map entry
\* of its name, and its pc says whether it has locked the mutex.
CallsInv ==
  \A p \in Call :
    /\ pc[p] \in {"waiting", "acquired", "holding"} =>
         nameLock[p] \in Call /\ locks[name[p]] = nameLock[p]
    /\ pc[p] \in {"acquired", "holding"} => mutex[nameLock[p]] = p

\* A locked mutex is locked by a call that is past lock and before unlock.
MutexInv ==
  \A c \in Call : mutex[c] # None =>
    pc[mutex[c]] \in {"acquired", "holding"} /\ nameLock[mutex[c]] = c

\* A lockCtr is in the map only under the name its creator asked for, and has
\* a channel.
EntryInv ==
  \A n \in Name : locks[n] # None =>
    pc[locks[n]] # "idle" /\ name[locks[n]] = n /\ done[locks[n]] \in Call

IInv == /\ TypeOK
        /\ CallsInv
        /\ MutexInv
        /\ EntryInv
        /\ NoLeftover
        /\ UnlockSucceeds
        /\ WaitersExact

-----------------------------------------------------------------------------
(* Counting the waiters of a lockCtr. *)

\* The set of waiters of a lockCtr is finite, so that its size is a number.
LEMMA WaitingFinite ==
  ASSUME NEW c
  PROVE  IsFiniteSet(Waiting(c)) /\ Cardinality(Waiting(c)) \in Nat
  <1>1. Waiting(c) \in SUBSET Call
    BY DEF Waiting
  <1>2. IsFiniteSet(Waiting(c))
    BY <1>1, CallFinite, FS_Subset
  <1> QED
    BY <1>2, FS_CardinalityType

\* waiters[c] is the number of calls between inc() and dec() on c.
LEMMA WaitersCount == WaitersExact <=> \A c \in Call : waiters[c] = Cardinality(Waiting(c))
  BY DEF WaitersExact, Waiting

\* Initially nobody has called lock and the map is empty.
LEMMA InitIInv == Init => IInv
  <1> SUFFICES ASSUME Init PROVE IInv
    OBVIOUS
  <1> USE NoneFresh
  <1>0. crashed \in BOOLEAN
    BY Zenon DEF Init
  <1>1. TypeOK
    BY <1>0 DEF Init, TypeOK, PCs, Ptr
  <1>2. CallsInv /\ MutexInv /\ EntryInv /\ NoLeftover /\ UnlockSucceeds
    BY DEF Init, CallsInv, MutexInv, EntryInv, NoLeftover, UnlockSucceeds
  <1>3. \A c \in Call : Waiting(c) = {}
    BY DEF Init, Waiting, Waits
  <1>4. WaitersExact
    BY <1>3, WaitersCount, FS_EmptySet DEF Init
  <1> QED
    BY <1>1, <1>2, <1>4 DEF IInv

-----------------------------------------------------------------------------
(* Each action preserves IInv. *)

\* lock under l.mu: the entry found or created is the one others use.
LEMMA LockEnterIInv ==
  ASSUME IInv, NEW p \in Call, NEW n \in Name, LockEnter(p, n)
  PROVE  IInv'
  <1> USE NoneFresh
  <1>0. pc[p] = "idle"
    BY DEF LockEnter
  <1>1. PICK c \in Call : c = IF locks[n] = None THEN p ELSE locks[n]
    BY DEF IInv, TypeOK, Ptr
  <1>2. TypeOK'
    <2>1. crashed' \in BOOLEAN
      BY Zenon DEF LockEnter, IInv, TypeOK
    <2> QED
      BY <1>1, <2>1 DEF IInv, TypeOK, LockEnter, PCs, Ptr
  <1>3. CallsInv'
    BY DEF IInv, TypeOK, CallsInv, LockEnter, Ptr
  <1>4. MutexInv'
    BY DEF IInv, TypeOK, MutexInv, LockEnter, Ptr
  <1>5. EntryInv'
    BY DEF IInv, TypeOK, EntryInv, LockEnter, Ptr
  <1>6. NoLeftover'
    <2> SUFFICES ASSUME NEW m \in Name, locks'[m] # None
                 PROVE  \E q \in Call : Uses(q)' /\ name'[q] = m
      BY DEF NoLeftover
    <2>1. CASE m = n
      <3>1. Uses(p)' /\ name'[p] = n
        BY DEF LockEnter, IInv, TypeOK, Uses, Waits
      <3> QED
        BY <2>1, <3>1
    <2>2. CASE m # n
      <3>1. PICK q \in Call : Uses(q) /\ name[q] = m
        BY <2>2 DEF LockEnter, IInv, TypeOK, NoLeftover
      <3>2. q # p
        BY <1>0, <3>1 DEF Uses, Waits, Has
      <3>3. Uses(q)' /\ name'[q] = m
        BY <3>1, <3>2 DEF LockEnter, IInv, TypeOK, Uses, Waits, Has
      <3> QED
        BY <3>3
    <2> QED
      BY <2>1, <2>2
  <1>7. UnlockSucceeds'
    BY DEF LockEnter, IInv, TypeOK, UnlockSucceeds
  <1>8. WaitersExact'
    <2>1. /\ p \notin Waiting(c)
          /\ Waiting(c)' = Waiting(c) \cup {p}
      BY <1>0, <1>1 DEF Waiting, Waits, LockEnter, IInv, TypeOK
    <2>2. Cardinality(Waiting(c)') = Cardinality(Waiting(c)) + 1
      BY <2>1, WaitingFinite, FS_AddElement, Zenon
    <2>3. \A d \in Call \ {c} : Waiting(d)' = Waiting(d)
      BY <1>0, <1>1 DEF Waiting, Waits, LockEnter, IInv, TypeOK
    <2>4. /\ waiters'[c] = waiters[c] + 1
          /\ \A d \in Call \ {c} : waiters'[d] = waiters[d]
      BY <1>1 DEF LockEnter, IInv, TypeOK
    <2>5. \A d \in Call : waiters'[d] = Cardinality(Waiting(d)')
      <3> TAKE d \in Call
      <3>1. waiters[d] = Cardinality(Waiting(d))
        BY WaitersCount DEF IInv
      <3>2. CASE d = c
        BY <2>2, <2>4, <3>1, <3>2
      <3>3. CASE d # c
        BY <2>3, <2>4, <3>1, <3>3
      <3> QED
        BY <3>2, <3>3
    <2> QED
      BY <2>5 DEF WaitersExact, Waiting
  <1> QED
    BY <1>2, <1>3, <1>4, <1>5, <1>6, <1>7, <1>8 DEF IInv

\* nameLock.lock(): the caller becomes the one call that has the name.
LEMMA LockAcquireIInv ==
  ASSUME IInv, NEW p \in Call, LockAcquire(p)
  PROVE  IInv'
  <1> USE NoneFresh
  <1>1. nameLock[p] \in Call /\ pc[p] = "waiting"
    BY DEF IInv, CallsInv, LockAcquire
  <1>2. TypeOK'
    <2>1. crashed' \in BOOLEAN
      BY Zenon DEF LockAcquire, IInv, TypeOK
    <2> QED
      BY <1>1, <2>1 DEF IInv, TypeOK, LockAcquire, PCs, Ptr
  <1>3. CallsInv'
    BY <1>1 DEF IInv, TypeOK, CallsInv, LockAcquire, Ptr
  <1>4. MutexInv'
    BY <1>1 DEF IInv, TypeOK, MutexInv, LockAcquire, Ptr
  <1>5. EntryInv'
    BY DEF IInv, TypeOK, EntryInv, LockAcquire, Ptr
  <1>6. NoLeftover'
    <2>1. \A q \in Call : Uses(q) => Uses(q)'
      BY <1>1 DEF Uses, Waits, Has, LockAcquire, IInv, TypeOK
    <2> QED
      BY <2>1 DEF NoLeftover, LockAcquire, IInv
  <1>7. UnlockSucceeds'
    BY DEF LockAcquire, IInv, TypeOK, UnlockSucceeds
  <1>8. WaitersExact'
    <2>1. \A d \in Call : Waiting(d)' = Waiting(d)
      BY DEF Waiting, Waits, LockAcquire, IInv, TypeOK
    <2> QED
      BY <2>1 DEF WaitersExact, Waiting, LockAcquire, IInv
  <1> QED
    BY <1>2, <1>3, <1>4, <1>5, <1>6, <1>7, <1>8 DEF IInv

\* nameLock.dec(): one waiter less, the same entries and mutexes.
LEMMA LockDecIInv ==
  ASSUME IInv, NEW p \in Call, LockDec(p)
  PROVE  IInv'
  <1> USE NoneFresh
  <1>1. PICK c \in Call : c = nameLock[p] /\ pc[p] = "acquired" /\ mutex[c] = p
    BY DEF IInv, CallsInv, LockDec
  <1>2. TypeOK'
    <2>1. crashed' \in BOOLEAN
      BY Zenon DEF LockDec, IInv, TypeOK
    <2> QED
      BY <1>1, <2>1 DEF IInv, TypeOK, LockDec, PCs, Ptr
  <1>3. CallsInv'
    BY <1>1 DEF IInv, TypeOK, CallsInv, LockDec, Ptr
  <1>4. MutexInv'
    BY <1>1 DEF IInv, TypeOK, MutexInv, LockDec, Ptr
  <1>5. EntryInv'
    BY DEF IInv, TypeOK, EntryInv, LockDec, Ptr
  <1>6. NoLeftover'
    <2>1. \A q \in Call : Uses(q) => Uses(q)'
      BY <1>1 DEF Uses, Waits, Has, LockDec, IInv, TypeOK
    <2> QED
      BY <2>1 DEF NoLeftover, LockDec, IInv
  <1>7. UnlockSucceeds'
    BY DEF LockDec, IInv, TypeOK, UnlockSucceeds
  <1>8. WaitersExact'
    <2>1. /\ p \in Waiting(c)
          /\ Waiting(c)' = Waiting(c) \ {p}
      BY <1>1 DEF Waiting, Waits, LockDec, IInv, TypeOK
    <2>2. Cardinality(Waiting(c)') = Cardinality(Waiting(c)) - 1
      BY <2>1, WaitingFinite, FS_RemoveElement, Zenon
    <2>3. \A d \in Call \ {c} : Waiting(d)' = Waiting(d)
      BY <1>1 DEF Waiting, Waits, LockDec, IInv, TypeOK
    <2>4. /\ waiters'[c] = waiters[c] - 1
          /\ \A d \in Call \ {c} : waiters'[d] = waiters[d]
      BY <1>1 DEF LockDec, IInv, TypeOK
    <2>5. \A d \in Call : waiters'[d] = Cardinality(Waiting(d)')
      <3> TAKE d \in Call
      <3>1. waiters[d] = Cardinality(Waiting(d))
        BY WaitersCount DEF IInv
      <3>2. CASE d = c
        BY <2>2, <2>4, <3>1, <3>2
      <3>3. CASE d # c
        BY <2>3, <2>4, <3>1, <3>3
      <3> QED
        BY <3>2, <3>3
    <2> QED
      BY <2>5 DEF WaitersExact, Waiting
  <1> QED
    BY <1>2, <1>3, <1>4, <1>5, <1>6, <1>7, <1>8 DEF IInv

\* unlock by the call that has the lock: it finds the entry and the locked
\* mutex, and deletes the entry only when no other call uses it.
LEMMA UnlockIInv ==
  ASSUME IInv, NEW p \in Call, Unlock(p)
  PROVE  IInv'
  <1> USE NoneFresh
  <1>1. PICK c \in Call : /\ c = nameLock[p] /\ locks[name[p]] = c
                          /\ mutex[c] = p /\ pc[p] = "holding"
    BY DEF IInv, CallsInv, Unlock
  <1>2. /\ locks' = [locks EXCEPT ![name[p]] = IF waiters[c] = 0 THEN None ELSE c]
        /\ mutex' = [mutex EXCEPT ![c] = None]
        /\ closed' = closed \cup {done[c]}
        /\ pc' = [pc EXCEPT ![p] = "done"]
        /\ UNCHANGED <<waiters, name, nameLock, done>>
    BY <1>1, Zenon DEF Unlock, unlock
  <1>3. crashed' = FALSE
    BY <1>1, Zenon DEF Unlock, unlock
  <1>4. \A q \in Call \ {p} : /\ pc[q] \in {"acquired", "holding"} => nameLock[q] # c
                              /\ pc[q] \in {"waiting", "acquired", "holding"}
                                   => (name[q] = name[p] <=> nameLock[q] = c)
    BY <1>1 DEF IInv, TypeOK, CallsInv, EntryInv, Ptr
  <1>5. waiters[c] = 0 <=> Waiting(c) = {}
    BY WaitersCount, WaitingFinite, FS_EmptySet DEF IInv
  <1>6. TypeOK'
    <2>1. crashed' \in BOOLEAN
      BY <1>3, Zenon
    <2>2. closed' \in SUBSET Call
      <3>1. done[c] \in Call
        BY <1>1 DEF IInv, TypeOK, EntryInv
      <3> QED
        BY <1>2, <3>1 DEF IInv, TypeOK
    <2> QED
      BY <1>1, <1>2, <2>1, <2>2 DEF IInv, TypeOK, PCs, Ptr
  <1>7. CallsInv'
    <2> SUFFICES ASSUME NEW q \in Call \ {p}
                 PROVE  /\ pc'[q] \in {"waiting", "acquired", "holding"} =>
                             nameLock'[q] \in Call /\ locks'[name'[q]] = nameLock'[q]
                        /\ pc'[q] \in {"acquired", "holding"} => mutex'[nameLock'[q]] = q
      BY <1>2 DEF CallsInv, IInv, TypeOK
    <2>1. pc[q] \in {"acquired", "holding"} => mutex'[nameLock'[q]] = q
      BY <1>1, <1>2, <1>4 DEF IInv, TypeOK, CallsInv, Ptr
    <2>2. CASE pc[q] \in {"waiting", "acquired", "holding"} /\ name[q] = name[p]
      <3>1. q \in Waiting(c)
        BY <1>4, <2>2 DEF Waiting, Waits, IInv, TypeOK
      <3> QED
        BY <1>1, <1>2, <1>5, <2>1, <2>2, <3>1 DEF IInv, TypeOK, CallsInv
    <2>3. CASE pc[q] \in {"waiting", "acquired", "holding"} /\ name[q] # name[p]
      BY <1>2, <2>1, <2>3 DEF IInv, TypeOK, CallsInv
    <2> QED
      BY <1>2, <2>2, <2>3 DEF IInv, TypeOK
  <1>8. MutexInv'
    BY <1>1, <1>2 DEF IInv, TypeOK, MutexInv, Ptr
  <1>9. EntryInv'
    BY <1>1, <1>2 DEF IInv, TypeOK, EntryInv, Ptr
  <1>10. NoLeftover'
    <2> SUFFICES ASSUME NEW m \in Name, locks'[m] # None
                 PROVE  \E q \in Call : Uses(q)' /\ name'[q] = m
      BY DEF NoLeftover
    <2>1. CASE m = name[p]
      <3>1. PICK q \in Call : q \in Waiting(c)
        BY <1>2, <1>5, <2>1 DEF IInv, TypeOK, Waiting
      <3>2. Waits(q)' /\ name'[q] = m
        BY <1>1, <1>2, <1>4, <2>1, <3>1 DEF Waiting, Waits, IInv, TypeOK
      <3> QED
        BY <3>2 DEF Uses
    <2>2. CASE m # name[p]
      <3>1. PICK q \in Call : Uses(q) /\ name[q] = m
        BY <1>2, <2>2 DEF IInv, TypeOK, NoLeftover
      <3>2. q # p /\ nameLock[q] # c
        BY <1>4, <2>2, <3>1 DEF Uses, Waits, Has, IInv
      <3>3. Uses(q)' /\ name'[q] = m
        BY <1>2, <3>1, <3>2 DEF Uses, Waits, Has, IInv, TypeOK
      <3> QED
        BY <3>3
    <2> QED
      BY <2>1, <2>2
  <1>11. UnlockSucceeds'
    BY <1>2, <1>3 DEF IInv, TypeOK, UnlockSucceeds
  <1>12. WaitersExact'
    <2>1. \A d \in Call : Waiting(d)' = Waiting(d)
      BY <1>1, <1>2 DEF Waiting, Waits, IInv, TypeOK
    <2> QED
      BY <1>2, <2>1 DEF WaitersExact, Waiting, IInv
  <1> QED
    BY <1>6, <1>7, <1>8, <1>9, <1>10, <1>11, <1>12 DEF IInv

-----------------------------------------------------------------------------
(* The theorems. *)

\* Every step of the locker preserves IInv.
LEMMA NextIInv == IInv /\ [Next]_vars => IInv'
  <1> SUFFICES ASSUME IInv, [Next]_vars PROVE IInv'
    OBVIOUS
  <1>1. ASSUME NEW p \in Call, NEW n \in Name, LockEnter(p, n) PROVE IInv'
    BY <1>1, LockEnterIInv
  <1>2. ASSUME NEW p \in Call, LockAcquire(p) PROVE IInv'
    BY <1>2, LockAcquireIInv
  <1>3. ASSUME NEW p \in Call, LockDec(p) PROVE IInv'
    BY <1>3, LockDecIInv
  <1>4. ASSUME NEW p \in Call, Unlock(p) PROVE IInv'
    BY <1>4, UnlockIInv
  <1>5. CASE UNCHANGED vars
    BY <1>5 DEF vars, IInv, TypeOK, CallsInv, MutexInv, EntryInv, NoLeftover, UnlockSucceeds,
                WaitersExact, Uses, Waits, Has
  <1> QED
    BY <1>1, <1>2, <1>3, <1>4, <1>5 DEF Next

\* IInv holds in every reachable state of locker.go.
THEOREM LockerInvariant == Spec => []IInv
  BY InitIInv, NextIInv, PTL DEF Spec

\* Every variable of the locker keeps its type.
THEOREM LockerTypeOK == Spec => []TypeOK
  <1>1. IInv => TypeOK
    BY DEF IInv
  <1> QED
    BY <1>1, LockerInvariant, PTL

\* IInv gives the two properties that are not among its conjuncts: a used
\* lockCtr is the one in the map, hence two holders of a name are the same.
LEMMA IInvImplies == IInv => MutualExclusion /\ EntryKept
  <1> SUFFICES ASSUME IInv PROVE MutualExclusion /\ EntryKept
    OBVIOUS
  <1>1. \A p \in Call : Uses(p) => pc[p] \in {"waiting", "acquired", "holding"}
    BY DEF Uses, Waits, Has
  <1>2. EntryKept
    BY <1>1 DEF IInv, CallsInv, EntryKept
  <1>3. MutualExclusion
    BY <1>1, <1>2 DEF MutualExclusion, EntryKept, Uses, Has
  <1> QED
    BY <1>2, <1>3

\* Two calls never have the same name at once (lock and unlock of locker.go).
THEOREM LockerMutualExclusion == Spec => []MutualExclusion
  BY LockerInvariant, IInvImplies, PTL

\* unlock never deletes a lockCtr that a concurrent lock uses.
THEOREM LockerEntryKept == Spec => []EntryKept
  BY LockerInvariant, IInvImplies, PTL

\* Every entry of the map is there for a call, the waiter counters are exact,
\* and no unlock of a holder fails.
THEOREM LockerCleanup == Spec => [](NoLeftover /\ WaitersExact /\ UnlockSucceeds)
  <1>1. IInv => NoLeftover /\ WaitersExact /\ UnlockSucceeds
    BY DEF IInv
  <1> QED
    BY <1>1, LockerInvariant, PTL

-----------------------------------------------------------------------------
(* Refinement. *)

\* stage, the refinement mapping, by cases on pc.
LEMMA StageOf ==
  ASSUME TypeOK, NEW p \in Call
  PROVE  stage[p] = IF pc[p] \in {"acquired", "holding"} THEN "has"
                    ELSE IF pc[p] = "nolock" THEN "done" ELSE pc[p]
  BY DEF stage, TypeOK, PCs

\* A step of the locker is a step of NamedLock or leaves its variables alone.
LEMMA StepRefines ==
  ASSUME IInv, IInv', [Next]_vars
  PROVE  [Abstract!Next]_<<stage, name>>
  <1>1. TypeOK /\ TypeOK'
    BY DEF IInv
  <1>2. ASSUME NEW p \in Call, NEW n \in Name, LockEnter(p, n)
        PROVE  Abstract!Request(p, n)
    <2>1. stage[p] = "idle"
      BY <1>1, <1>2, StageOf DEF LockEnter
    <2>2. stage' = [stage EXCEPT ![p] = "waiting"]
      BY <1>1, <1>2, Zenon DEF LockEnter, TypeOK, stage, PCs
    <2> QED
      BY <1>2, <2>1, <2>2 DEF Abstract!Request, LockEnter
  <1>3. ASSUME NEW p \in Call, LockAcquire(p)
        PROVE  Abstract!Grant(p)
    <2>1. stage[p] = "waiting"
      BY <1>1, <1>3, StageOf DEF LockAcquire
    <2>2. stage' = [stage EXCEPT ![p] = "has"]
      BY <1>1, <1>3, Zenon DEF LockAcquire, TypeOK, stage, PCs
    <2>3. \A q \in Call : stage[q] = "has" => name[q] # name[p]
      <3> SUFFICES ASSUME NEW q \in Call, stage[q] = "has", name[q] = name[p]
                   PROVE  FALSE
        OBVIOUS
      <3>1. pc[q] \in {"acquired", "holding"}
        BY <1>1, StageOf DEF TypeOK, PCs
      <3>2. nameLock[q] = nameLock[p] /\ mutex[nameLock[q]] = q
        BY <1>3, <3>1 DEF IInv, CallsInv, LockAcquire
      <3> QED
        BY <1>3, <3>2, NoneFresh DEF LockAcquire
    <2> QED
      BY <1>3, <2>1, <2>2, <2>3 DEF Abstract!Grant, LockAcquire
  <1>4. ASSUME NEW p \in Call, LockDec(p)
        PROVE  UNCHANGED <<stage, name>>
    <2>1. stage' = stage
      BY <1>1, <1>4 DEF LockDec, TypeOK, stage, PCs
    <2> QED
      BY <1>4, <2>1 DEF LockDec
  <1>5. ASSUME NEW p \in Call, Unlock(p)
        PROVE  Abstract!Release(p)
    <2>1. stage[p] = "has"
      BY <1>1, <1>5, StageOf DEF Unlock
    <2>2. stage' = [stage EXCEPT ![p] = "done"]
      BY <1>1, <1>5, Zenon DEF Unlock, TypeOK, stage, PCs
    <2> QED
      BY <1>5, <2>1, <2>2 DEF Abstract!Release, Unlock
  <1>6. CASE UNCHANGED vars
    BY <1>6 DEF vars, stage
  <1> QED
    BY <1>2, <1>3, <1>4, <1>5, <1>6 DEF Next, Abstract!Next

\* The locker implements a family of mutexes addressed by name.
THEOREM LockerImplementsNamedLock == Spec => ImplementsNamedLock
  <1>1. Init => Abstract!Init
    BY DEF Init, Abstract!Init, stage
  <1>2. IInv /\ IInv' /\ [Next]_vars => [Abstract!Next]_<<stage, name>>
    BY StepRefines
  <1> QED
    BY <1>1, <1>2, LockerInvariant, PTL DEF Spec, Abstract!Spec, ImplementsNamedLock
=============================================================================
