----------------------------- MODULE NamedLock -----------------------------
(***************************************************************************)
(* What locker.go promises: a family of mutexes addressed by name.  A call *)
(* of lock(name) waits, is granted the name when nobody has it, and gives  *)
(* it back with unlock(name).  There are no lockCtr records here, no map   *)
(* and no waiter counters: those are the implementation, module Locker.    *)
(***************************************************************************)
CONSTANTS Call,     \* calls of lock, each followed by at most one unlock
          Name      \* lock names (the keys of a DMap)

VARIABLES stage,    \* where each call is
          wants     \* the name a call has asked for, once it has asked

Stages == {"idle", "waiting", "has", "done"}

Init == /\ stage = [p \in Call |-> "idle"]
        /\ wants \in [Call -> Name]

Request(p, n) == /\ stage[p] = "idle"
                 /\ stage' = [stage EXCEPT ![p] = "waiting"]
                 /\ wants' = [wants EXCEPT ![p] = n]

Grant(p) == /\ stage[p] = "waiting"
            /\ \A q \in Call : stage[q] = "has" => wants[q] # wants[p]
            /\ stage' = [stage EXCEPT ![p] = "has"]
            /\ UNCHANGED wants

Release(p) == /\ stage[p] = "has"
              /\ stage' = [stage EXCEPT ![p] = "done"]
              /\ UNCHANGED wants

Next == \E p \in Call : \/ \E n \in Name : Request(p, n)
                        \/ Grant(p)
                        \/ Release(p)

Spec == Init /\ [][Next]_<<stage, wants>>
=============================================================================
