----------------------------- MODULE LockTimeout -----------------------------
(***************************************************************************)
(* dmap_lock.go on the node that keeps the lock: the lock of a key and the  *)
(* goroutine that releases it when its holder does not give it back.  The   *)
(* way to that node, and Unlock, are in KeyLock.                            *)
(*                                                                         *)
(* Clients are well behaved: each one calls Unlock at most once, and only   *)
(* after its own LockWithTimeout has returned.  A timeout may expire at any *)
(* moment after the goroutine started to wait for it, because every client  *)
(* chooses its own duration.                                                *)
(***************************************************************************)
EXTENDS Locker

VARIABLES timer,      \* the waitLockForTimeout goroutine of a call
          unlockCh    \* the channel it got from unlockNotifier, None for nil

tvars == <<timer, unlockCh>>
allvars == <<vars, tvars>>

Timers == {"off",       \* not started
           "spawned",   \* started, unlockNotifier not called yet
           "armed",     \* in the select
           "returned",  \* left the select because unlockCh was closed
           "fired"}     \* left the select by timeout or shutdown, has unlocked

InitTimeout == /\ Init
               /\ timer = [p \in Call |-> "off"]
               /\ unlockCh = [p \in Call |-> None]

-----------------------------------------------------------------------------
(* LockWithTimeout: lockKey calls locker.lock and then starts the goroutine.*)

Enter(p, n) == LockEnter(p, n) /\ UNCHANGED tvars

Acquire(p) == LockAcquire(p) /\ UNCHANGED tvars

\* lock returns; `go db.waitLockForTimeout(dm, key, timeout)`.
LockReturns(p) == /\ LockDec(p)
                  /\ timer' = [timer EXCEPT ![p] = "spawned"]
                  /\ UNCHANGED unlockCh

-----------------------------------------------------------------------------
(* waitLockForTimeout. *)

\* Mutant: the goroutine returns at once and releases nothing.
NotifierNil(p) ==
  /\ ~crashed
  /\ timer[p] = "spawned"
  /\ unlockCh' = unlockCh
  /\ timer' = [timer EXCEPT ![p] = "returned"]
  /\ UNCHANGED vars

\* unlockCh := dm.locker.unlockNotifier(key): the channel of the entry that
\* is in the map now, nil when there is none.
Notifier(p) ==
  LET c == locks[name[p]]
  IN  /\ ~crashed
      /\ timer[p] = "spawned"
      /\ unlockCh' = [unlockCh EXCEPT ![p] = IF c = None THEN None ELSE done[c]]
      /\ timer' = [timer EXCEPT ![p] = "armed"]
      /\ UNCHANGED vars

\* case <-unlockCh
AlreadyUnlocked(p) ==
  /\ ~crashed
  /\ timer[p] = "armed"
  /\ unlockCh[p] \in closed
  /\ timer' = [timer EXCEPT ![p] = "returned"]
  /\ UNCHANGED <<vars, unlockCh>>

\* case <-time.After(timeout), case <-db.ctx.Done(): unlock whatever the key
\* names now; ErrNoSuchLock is ignored.
Expire(p) ==
  /\ ~crashed
  /\ timer[p] = "armed"
  /\ unlock(name[p])
  /\ timer' = [timer EXCEPT ![p] = "fired"]
  /\ UNCHANGED <<waiters, done, pc, name, nameLock, unlockCh>>

-----------------------------------------------------------------------------
(* Properties that hold. *)

\* Whatever timeouts release and whenever they do, at most one call has a
\* name: unlock deletes a lockCtr only together with freeing its mutex, and
\* never while a call waits for it.
OneHolderPerName == MutualExclusion /\ EntryKept /\ WaitersExact

\* Nobody else has ever asked for the name of p.
Alone(p) == \A q \in Call \ {p} : pc[q] = "idle" \/ name[q] # name[p]

\* dmap_lock.go:137-138, "If the lock is still unreleased the end of given
\* period of time, it automatically releases the lock": true of a lock that
\* nobody contends for.
UncontendedLockExpires ==
  \A p \in Call : (Has(p) /\ Alone(p)) ~> (~Has(p) \/ ~Alone(p))

-----------------------------------------------------------------------------
(* Properties the documentation states and the code does not have. *)

\* dmap_lock.go:62, "release the key if it's still locked": the goroutine of
\* a call releases the lock of that call and no other.
TimeoutReleasesOwnLock ==
  [][\A p, q \in Call : (Expire(p) /\ p # q /\ Has(q)) => Has(q)']_allvars

\* dmap_lock.go:137-138: a lock that its holder does not give back is released
\* in the end, contended or not.
LockExpires == \A p \in Call : Has(p) ~> ~Has(p)

\* dmap_lock.go:189, "It returns ErrNoSuchLock if there is no lock for the
\* given key": no Unlock and no timeout aborts the program.
UnlockNeverAborts == ~crashed
=============================================================================
