------------------------------- MODULE Locker -------------------------------
(***************************************************************************)
(* locker.go: mutexes addressed by name.  The locker keeps a map of        *)
(* lockCtr records under l.mu; a lockCtr has its own mutex, a counter of   *)
(* the calls waiting for it and a channel that unlock closes.              *)
(*                                                                         *)
(* A Call is one invocation of lock(name) and the unlock(name) that ends   *)
(* it, the way locker_test.go and dmap_atomic.go use the locker.  Calls    *)
(* are used once, so the lockCtr and the channel a call allocates are      *)
(* named after the call.                                                   *)
(*                                                                         *)
(* Each action is one critical section of l.mu, or one step outside it.    *)
(***************************************************************************)
EXTENDS Integers, FiniteSets

CONSTANTS Call,      \* invocations of lock
          Name,      \* lock names
          None       \* the nil pointer, the free mutex, the missing map entry

ASSUME CallFinite == IsFiniteSet(Call)
ASSUME NoneFresh  == None \notin Call

VARIABLES locks,     \* l.locks: name -> lockCtr, None when there is no entry
          waiters,   \* lockCtr.waiters
          mutex,     \* lockCtr.mu: None when free, else the call that locked it
          done,      \* lockCtr.done: the channel made by the latest lock call
          closed,    \* the channels that have been closed
          pc,        \* where a call is
          name,      \* the argument of a call
          nameLock,  \* the local variable nameLock of a call
          crashed    \* Go aborted: unlock of an unlocked sync.Mutex

vars == <<locks, waiters, mutex, done, closed, pc, name, nameLock, crashed>>

PCs == {"idle",      \* lock not called yet
        "waiting",   \* l.mu released, blocked in nameLock.lock()
        "acquired",  \* mutex locked, nameLock.dec() still to come
        "holding",   \* lock has returned
        "done",      \* unlock has returned nil
        "nolock"}    \* unlock has returned ErrNoSuchLock

Ptr == Call \cup {None}

TypeOK == /\ locks \in [Name -> Ptr]
          /\ waiters \in [Call -> Int]
          /\ mutex \in [Call -> Ptr]
          /\ done \in [Call -> Ptr]
          /\ closed \in SUBSET Call
          /\ pc \in [Call -> PCs]
          /\ name \in [Call -> Name]
          /\ nameLock \in [Call -> Ptr]
          /\ crashed \in BOOLEAN

Init == /\ locks = [n \in Name |-> None]
        /\ waiters = [c \in Call |-> 0]
        /\ mutex = [c \in Call |-> None]
        /\ done = [c \in Call |-> None]
        /\ closed = {}
        /\ pc = [p \in Call |-> "idle"]
        /\ name \in [Call -> Name]
        /\ nameLock = [p \in Call |-> None]
        /\ crashed = FALSE

-----------------------------------------------------------------------------
(* What a lock call has of the lock it asked for. *)

Waits(p) == pc[p] \in {"waiting", "acquired"}     \* counted in waiters

Has(p) == pc[p] \in {"acquired", "holding"} /\ mutex[nameLock[p]] = p

Uses(p) == Waits(p) \/ Has(p)

-----------------------------------------------------------------------------
(* lock(name), in its three steps. *)

\* Under l.mu: find or create the lockCtr, count the waiter, and replace the
\* channel that announces the unlock.
LockEnter(p, n) ==
  LET c == IF locks[n] = None THEN p ELSE locks[n]
  IN  /\ ~crashed
      /\ pc[p] = "idle"
      /\ locks' = [locks EXCEPT ![n] = c]
      /\ waiters' = [waiters EXCEPT ![c] = @ + 1]
      /\ done' = [done EXCEPT ![c] = p]
      /\ pc' = [pc EXCEPT ![p] = "waiting"]
      /\ name' = [name EXCEPT ![p] = n]
      /\ nameLock' = [nameLock EXCEPT ![p] = c]
      /\ UNCHANGED <<mutex, closed, crashed>>

\* nameLock.lock()
LockAcquire(p) ==
  /\ ~crashed
  /\ pc[p] = "waiting"
  /\ mutex[nameLock[p]] = None
  /\ mutex' = [mutex EXCEPT ![nameLock[p]] = p]
  /\ pc' = [pc EXCEPT ![p] = "acquired"]
  /\ UNCHANGED <<locks, waiters, done, closed, name, nameLock, crashed>>

\* Mutant: the waiter is never uncounted.
LockDecMissing(p) ==
  /\ ~crashed
  /\ pc[p] = "acquired"
  /\ pc' = [pc EXCEPT ![p] = "holding"]
  /\ UNCHANGED <<locks, waiters, mutex, done, closed, name, nameLock, crashed>>

\* nameLock.dec(), and lock returns.
LockDec(p) ==
  /\ ~crashed
  /\ pc[p] = "acquired"
  /\ waiters' = [waiters EXCEPT ![nameLock[p]] = @ - 1]
  /\ pc' = [pc EXCEPT ![p] = "holding"]
  /\ UNCHANGED <<locks, mutex, done, closed, name, nameLock, crashed>>

-----------------------------------------------------------------------------
(* unlock(name): one critical section of l.mu.  Nothing in it says who the *)
(* caller is.                                                              *)

\* Mutant: the entry goes even though somebody waits for the lock.
unlockAlwaysDelete(n) ==
  LET c == locks[n]
  IN  /\ locks' = [locks EXCEPT ![n] = None]
      /\ mutex' = IF c = None THEN mutex ELSE [mutex EXCEPT ![c] = None]
      /\ closed' = IF c = None THEN closed ELSE closed \cup {done[c]}
      /\ crashed' = (c # None /\ mutex[c] = None)

\* Mutant: the mutex is left locked.
unlockKeepsMutex(n) ==
  LET c == locks[n]
  IN  /\ locks' = [locks EXCEPT ![n] = IF c # None /\ waiters[c] = 0 THEN None ELSE c]
      /\ mutex' = mutex
      /\ closed' = IF c = None THEN closed ELSE closed \cup {done[c]}
      /\ crashed' = (c # None /\ mutex[c] = None)

\* With no entry it returns ErrNoSuchLock and changes nothing.  Otherwise it
\* deletes the entry when nobody waits, unlocks the mutex (Go aborts if it is
\* not locked) and closes the channel unless that is closed already.
unlock(n) ==
  LET c == locks[n]
  IN  /\ locks' = [locks EXCEPT ![n] = IF c # None /\ waiters[c] = 0 THEN None ELSE c]
      /\ mutex' = IF c = None THEN mutex ELSE [mutex EXCEPT ![c] = None]
      /\ closed' = IF c = None THEN closed ELSE closed \cup {done[c]}
      /\ crashed' = (c # None /\ mutex[c] = None)

\* The call that has returned from lock calls unlock.
Unlock(p) ==
  /\ ~crashed
  /\ pc[p] = "holding"
  /\ unlock(name[p])
  /\ pc' = [pc EXCEPT ![p] = IF locks[name[p]] = None THEN "nolock" ELSE "done"]
  /\ UNCHANGED <<waiters, done, name, nameLock>>

Next == \E p \in Call : \/ \E n \in Name : LockEnter(p, n)
                        \/ LockAcquire(p)
                        \/ LockDec(p)
                        \/ Unlock(p)

Spec == Init /\ [][Next]_vars

\* A goroutine that may run does run, and whoever has the lock gives it back.
\* Nobody is obliged to call lock.
FairSpec == Spec /\ \A p \in Call : WF_vars(LockAcquire(p) \/ LockDec(p) \/ Unlock(p))

-----------------------------------------------------------------------------
(* Properties. *)

\* Two calls never have the same name at once, even when the lockCtr of the
\* name was deleted and made again in between.
MutualExclusion ==
  \A p, q \in Call : (Has(p) /\ Has(q) /\ name[p] = name[q]) => p = q

\* locker.go:120-121, "this makes sure that the lock isn't deleted if `Lock`
\* and `Unlock` are called concurrently": a lockCtr that a call waits for or
\* has is the one the map holds under that name.
EntryKept == \A p \in Call : Uses(p) => locks[name[p]] = nameLock[p]

\* locker.go:21-22, "Lock references are automatically cleaned up on `Unlock`
\* if nothing else is waiting for the lock": an entry is there for somebody.
\* moveDMap refuses to move a DMap while length() is not 0, so a leftover
\* entry would pin the DMap to its old owner.
NoLeftover ==
  \A n \in Name : locks[n] # None => \E p \in Call : Uses(p) /\ name[p] = n

\* The unlock of a call that has the lock finds the entry and a locked mutex:
\* it neither returns ErrNoSuchLock nor aborts the program.
UnlockSucceeds == ~crashed /\ \A p \in Call : pc[p] # "nolock"

\* The counter that decides whether unlock deletes the entry counts exactly
\* the calls between inc() and dec().
WaitersExact ==
  \A c \in Call : waiters[c] = Cardinality({p \in Call : Waits(p) /\ nameLock[p] = c})

\* Every call of lock returns: no wake-up is lost between the unlock of one
\* call and the deletion of the lockCtr others wait for.
EveryLockReturns == \A p \in Call : pc[p] = "waiting" ~> pc[p] = "holding"

\* The locker implements NamedLock.
stage == [p \in Call |-> CASE pc[p] \in {"idle", "waiting", "done"} -> pc[p]
                           [] pc[p] = "acquired" -> "has"
                           [] pc[p] = "holding"  -> "has"
                           [] OTHER -> "done"]

Abstract == INSTANCE NamedLock WITH wants <- name

ImplementsNamedLock == Abstract!Spec
=============================================================================
