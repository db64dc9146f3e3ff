--------------------------- MODULE SnapshotProofs ----------------------------
(***************************************************************************)
(* The snapshot of a node, for any dmaps, keys, values, number of callers  *)
(* and settings: a log the worker looks after belongs to a registered dmap, *)
(* and, as long as no dmap is dropped and only the Set of a value may fail *)
(* (steady), every key that differs from Badger is on its way there, what  *)
(* Badger lists it has, and Shutdown leaves nothing behind.                *)
(*                                                                         *)
(* The key of the argument is want, the value of a key once the delete that *)
(* has logged but not yet deleted it is through: the log, the copy the     *)
(* worker has taken, its batch and Badger are all compared with it, and    *)
(* pend, a change the worker has not taken yet, excuses all four.          *)
(***************************************************************************)
EXTENDS Snapshot, TLAPS

inRound == w.step \in {"read", "stage", "flush", "readd"}

\* What the operations, the worker and the janitor hold is there.
Sound ==
  /\ \A u \in User : user[u].step # "none" => user[u].d \in D /\ user[u].h \in HKey
  /\ dr.step # "none" => dr.d \in D
  /\ dr.step = "none" => dr.d = None
  /\ w.step \in {"next", "read", "stage", "flush", "readd"} => \A n \in w.left : slot[n] # None
  /\ inRound => w.name \in Name /\ slot[w.name] # None

SInv == TypeOK /\ Sound /\ LoggedIsRegistered

-----------------------------------------------------------------------------
(* Types, and LoggedIsRegistered, for any use of the node. *)

\* A worker that starts has the type of a worker.
LEMMA WorkerType ==
  ASSUME NEW step \in {"none", "wait", "next"}
  PROVE  /\ Worker(step) \in WorkerState
         /\ Worker(step).step = step /\ Worker(step).left = {} /\ Worker(step).last = FALSE
         /\ Worker(step).failed = unmarked
  BY Zenon DEF Worker, WorkerState, unmarked, empty, Marks, Entry

\* Initially nothing is registered.
LEMMA InitSInv == Init => SInv
  <1> SUFFICES ASSUME Init PROVE SInv
    OBVIOUS
  <1>1. TypeOK
    BY WorkerType, Zenon DEF Init, TypeOK, Idle, NoDrop, DropState, Marks, unmarked, empty, Entry
  <1>2. Sound
    BY WorkerType, Zenon DEF Init, Sound, Idle, NoDrop, inRound
  <1> QED
    BY <1>1, <1>2, Zenon DEF Init, SInv, LoggedIsRegistered

\* createDMap registers what it gives a log to.
LEMMA CreateSInv ==
  ASSUME SInv, NEW d \in setup.dkeys \X Name, Create(d)
  PROVE  SInv'
  <1> USE DEF SInv
  <1>1. d \in D /\ d[1] \in DKey /\ d[2] \in Name /\ d = <<d[1], d[2]>>
    BY SetupType DEF TypeOK, D
  <1>2. w' \in WorkerState /\ w'.step \in {"none", "wait"}
    BY WorkerType, Zenon DEF Create, startWorker, TypeOK, muFree
  <1>3. TypeOK'
    BY <1>1, <1>2, Zenon DEF Create, startWorker, TypeOK, rest, unmarked, empty, Marks, Entry
  <1>4. Sound'
    BY <1>2, Zenon DEF Create, startWorker, TypeOK, Sound, inRound, rest
  <1>5. LoggedIsRegistered'
    BY <1>1, Zenon DEF Create, TypeOK, LoggedIsRegistered
  <1> QED
    BY <1>3, <1>4, <1>5, Zenon

\* A put or a delete changes the storage or the log, and owes the other.
LEMMA OperationSInv ==
  ASSUME SInv, NEW d \in setup.dkeys \X Name, NEW u \in User, NEW h \in setup.hkeys,
         (\E v \in Val : PutStr(u, d, h, v)) \/ DeleteStr(u, d, h) \/ DeleteLog(u, d, h)
  PROVE  SInv'
  <1> USE DEF SInv
  <1>1. d \in D /\ h \in HKey
    BY SetupType, Zenon DEF TypeOK, D
  <1>a. /\ UNCHANGED <<setup, proc, inMap, closed, slot, hasWorker, cancelled, w, dr, reg, keys, disk,
                       clean, panic, stops, fails>>
        /\ ops' \in Nat
    BY <1>1 DEF PutStr, DeleteStr, DeleteLog, enter, begins, TypeOK, snap, db, rest
  <1>b. str \in [D -> [HKey -> Entry]] /\ log \in [D -> [HKey -> Marks]]
    BY Zenon DEF TypeOK
  <1>d. str' \in [D -> [HKey -> Entry]]
    <2>1. str' = str \/ \E v \in Entry : str' = [str EXCEPT ![d][h] = v]
      BY Zenon DEF PutStr, DeleteStr, DeleteLog, Entry
    <2>2. ASSUME NEW v \in Entry, str' = [str EXCEPT ![d][h] = v] PROVE str' \in [D -> [HKey -> Entry]]
      BY <1>1, <1>b, <2>2, Zenon
    <2> QED
      BY <1>b, <2>1, <2>2, Zenon
  <1>e. log' \in [D -> [HKey -> Marks]]
    <2>1. log' = log \/ \E m \in Marks : log' = [log EXCEPT ![d][h] = m]
      BY Zenon DEF PutStr, DeleteStr, DeleteLog, Marks
    <2>2. ASSUME NEW m \in Marks, log' = [log EXCEPT ![d][h] = m] PROVE log' \in [D -> [HKey -> Marks]]
      BY <1>1, <1>b, <2>2, Zenon
    <2> QED
      BY <1>b, <2>1, <2>2, Zenon
  <1>2. /\ UNCHANGED <<setup, proc, inMap, closed, slot, hasWorker, cancelled, w, dr, reg, keys, disk,
                       clean, panic, stops, fails>>
        /\ ops' \in Nat
        /\ str' \in [D -> [HKey -> Entry]] /\ log' \in [D -> [HKey -> Marks]]
    BY <1>a, <1>d, <1>e, Zenon
  <1>3. \E s \in {"log", "str"}, m \in Marks : user' = [user EXCEPT ![u] = [step |-> s, d |-> d, h |-> h, mark |-> m]]
    BY Zenon DEF PutStr, DeleteStr, DeleteLog, owes, Marks
  <1>4. TypeOK'
    BY <1>1, <1>2, <1>3 DEF TypeOK
  <1>5. Sound'
    BY <1>1, <1>2, <1>3 DEF TypeOK, Sound, inRound
  <1>6. LoggedIsRegistered'
    BY <1>2, Zenon DEF LoggedIsRegistered
  <1> QED
    BY <1>4, <1>5, <1>6, Zenon

\* A merged key changes the storage only.
LEMMA MergeSInv ==
  ASSUME SInv, NEW d \in setup.dkeys \X Name, NEW h \in setup.hkeys, NEW v \in Val, MergePut(d, h, v)
  PROVE  SInv'
  <1> USE DEF SInv
  <1>1. d \in D /\ h \in HKey /\ v \in Entry
    BY SetupType, Zenon DEF TypeOK, D, Entry
  <1>2. UNCHANGED <<setup, proc, inMap, closed, log, slot, hasWorker, cancelled, w, user, dr, reg, keys, disk,
                    clean, panic, stops, fails>>
    BY Zenon DEF MergePut, snap, db, rest
  <1>3. ops' \in Nat
    BY DEF MergePut, begins, TypeOK
  <1>4. str' \in [D -> [HKey -> Entry]]
    <2>1. str \in [D -> [HKey -> Entry]] /\ str' = [str EXCEPT ![d][h] = v]
      BY Zenon DEF MergePut, TypeOK
    <2> QED
      BY <1>1, <2>1, Zenon
  <1>5. TypeOK'
    BY <1>2, <1>3, <1>4, Zenon DEF TypeOK
  <1>6. Sound'
    BY <1>2, Zenon DEF Sound, inRound
  <1> QED
    BY <1>2, <1>5, <1>6, Zenon DEF LoggedIsRegistered

\* An operation pays what it owes.
LEMMA UserStepSInv ==
  ASSUME SInv, NEW u \in User, UserStep(u)
  PROVE  SInv'
  <1> USE DEF SInv
  <1>1. user[u].step # "none" /\ user[u].d \in D /\ user[u].h \in HKey /\ user[u].mark \in Marks
    BY Zenon DEF UserStep, LogOp, StrOp, Sound, TypeOK
  <1>a. /\ UNCHANGED <<setup, inMap, closed, slot, hasWorker, cancelled, w, dr, reg, keys, disk, clean, stops, ops, fails>>
        /\ user' = [user EXCEPT ![u] = Idle]
        /\ proc' \in {proc, "down"} /\ panic' \in BOOLEAN
    BY Zenon DEF UserStep, LogOp, StrOp, TypeOK, snap, db, rest
  <1>b. str \in [D -> [HKey -> Entry]] /\ log \in [D -> [HKey -> Marks]] /\ None \in Entry
    BY Zenon DEF TypeOK, Entry
  <1>d. str' \in [D -> [HKey -> Entry]]
    <2>1. str' = str \/ str' = [str EXCEPT ![user[u].d][user[u].h] = None]
      BY Zenon DEF UserStep, LogOp, StrOp
    <2>2. ASSUME str' = [str EXCEPT ![user[u].d][user[u].h] = None] PROVE str' \in [D -> [HKey -> Entry]]
      BY <1>1, <1>b, <2>2, Zenon
    <2> QED
      BY <1>b, <2>1, <2>2, Zenon
  <1>e. log' \in [D -> [HKey -> Marks]]
    <2>1. log' = log \/ log' = [log EXCEPT ![user[u].d][user[u].h] = user[u].mark]
      BY Zenon DEF UserStep, LogOp, StrOp
    <2>2. ASSUME log' = [log EXCEPT ![user[u].d][user[u].h] = user[u].mark] PROVE log' \in [D -> [HKey -> Marks]]
      BY <1>1, <1>b, <2>2, Zenon
    <2> QED
      BY <1>b, <2>1, <2>2, Zenon
  <1>2. /\ UNCHANGED <<setup, inMap, closed, slot, hasWorker, cancelled, w, dr, reg, keys, disk, clean, stops, ops, fails>>
        /\ user' = [user EXCEPT ![u] = Idle]
        /\ proc' \in {proc, "down"} /\ panic' \in BOOLEAN
        /\ str' \in [D -> [HKey -> Entry]] /\ log' \in [D -> [HKey -> Marks]]
    BY <1>a, <1>d, <1>e, Zenon
  <1>3. TypeOK'
    BY <1>1, <1>2, Zenon DEF TypeOK, Idle, Marks
  <1>4. Sound'
    BY <1>1, <1>2, Zenon DEF TypeOK, Sound, inRound, Idle
  <1>5. LoggedIsRegistered'
    BY <1>2, Zenon DEF LoggedIsRegistered
  <1> QED
    BY <1>3, <1>4, <1>5, Zenon

\* What a commit leaves in Badger has the type of Badger.
LEMMA WrittenType ==
  ASSUME SInv, w.name \in Name
  PROVE  written \in [Name -> [HKey -> Entry]]
  <1>1. disk \in [Name -> [HKey -> Entry]] /\ w.batch \in [HKey -> Entry]
    BY Zenon DEF SInv, TypeOK, WorkerState
  <1> QED
    BY <1>1, Zenon DEF written

\* A worker in a round keeps its name and what is left, or takes a name of what is left.
LEMMA WorkerSInv ==
  ASSUME SInv, WorkerStep
  PROVE  SInv'
  <1> USE DEF SInv
  <1>1. UNCHANGED <<setup, inMap, closed, str, slot, hasWorker, cancelled, user, dr, reg, clean, stops, ops>>
    BY Zenon DEF WorkerStep, workerOnly, SyncStart, WorkerStops, ReadKeys, SetKeys, Flush, Readd, SyncEnd, Take, Stage, snap
  <1>2. LoggedIsRegistered'
    BY <1>1, Zenon DEF LoggedIsRegistered
  <1>3. ASSUME /\ w' \in WorkerState /\ proc' \in {proc, "down"} /\ panic' \in BOOLEAN /\ fails' \in Nat
               /\ log' \in [D -> [HKey -> Marks]] /\ keys' \in [Name -> {None} \cup SUBSET HKey]
               /\ disk' \in [Name -> [HKey -> Entry]]
               /\ w'.left \subseteq w.left \/ \A n \in w'.left : slot[n] # None
               /\ w'.step \in {"read", "stage", "flush", "readd"} => w'.name \in Name /\ slot[w'.name] # None
               /\ w.step \in {"next", "read", "stage", "flush", "readd"} \/ \A n \in w'.left : slot[n] # None
        PROVE  SInv'
    <2>1. TypeOK'
      BY <1>1, <1>3, Zenon DEF TypeOK
    <2>2. Sound'
      BY <1>1, <1>3, Zenon DEF TypeOK, Sound, inRound
    <2> QED
      BY <1>2, <2>1, <2>2, Zenon
  <1>4. CASE SyncStart
    BY <1>3, <1>4, Zenon DEF SyncStart, TypeOK, WorkerState
  <1>5. CASE WorkerStops
    BY <1>3, <1>5, WorkerType, Zenon DEF WorkerStops, TypeOK
  <1>6. ASSUME NEW n \in Name, Take(n) PROVE SInv'
    <2> DEFINE d == logOf(n)
    <2>1. slot[n] # None /\ d \in D
      BY <1>6, Zenon DEF Take, Sound, TypeOK, logOf, D
    <2>2. log' \in [D -> [HKey -> Marks]] /\ log[d] \in [HKey -> Marks]
      BY <1>6, <2>1, Zenon DEF Take, TypeOK, unmarked, Marks
    <2>3. w' \in WorkerState /\ w'.left \subseteq w.left /\ (w'.step \in {"read", "stage", "flush", "readd"} => w'.name = n)
      BY <1>6, <2>2, Zenon DEF Take, TypeOK, WorkerState
    <2>4. proc' = proc /\ keys' = keys /\ disk' = disk /\ panic' = panic /\ fails' = fails /\ w.step = "next"
      BY <1>6, Zenon DEF Take
    <2> QED
      BY <1>3, <2>1, <2>2, <2>3, <2>4, Zenon DEF TypeOK
  <1>7. CASE ReadKeys
    <2>1. w' \in WorkerState /\ w'.left = w.left /\ w'.step \in {"stage", "next"} /\ (w'.step = "stage" => w'.name = w.name)
      <3>1. CASE w' = [w EXCEPT !.step = "stage", !.hkeys = IF keys[w.name] = None THEN {} ELSE keys[w.name],
                                !.todo = {h \in HKey : w.copy[h] # "none"}]
        BY <1>7, <3>1, Zenon DEF ReadKeys, TypeOK, WorkerState, Sound, inRound
      <3>2. CASE w' = [Worker("next") EXCEPT !.left = w.left, !.last = w.last]
        BY <3>2, Zenon DEF Worker, TypeOK, WorkerState, unmarked, empty, Marks, Entry
      <3> QED
        BY <1>7, <3>1, <3>2, Zenon DEF ReadKeys
    <2>2. fails' \in Nat /\ proc' = proc /\ log' = log /\ keys' = keys /\ disk' = disk /\ panic' = panic /\ w.step = "read"
      BY <1>7 DEF ReadKeys, fail, TypeOK
    <2> QED
      BY <1>3, <2>1, <2>2, Zenon DEF TypeOK, Sound, inRound
  <1>8. ASSUME NEW h \in HKey, Stage(h) PROVE SInv'
    <2>1. logOf(w.name) \in D /\ w.step = "stage" /\ w.name \in Name /\ slot[w.name] # None /\ w \in WorkerState
      BY <1>8, Zenon DEF Stage, Sound, TypeOK, logOf, D, inRound
    <2>2. found(h) \in Entry /\ None \in Entry /\ w.copy[h] \in Marks
      BY <2>1 DEF TypeOK, Entry, WorkerState, found
    <2>3. log' = log /\ keys' = keys
      BY <1>8, Zenon DEF Stage
    <2>a. disk' \in [Name -> [HKey -> Entry]]
      <3>1. disk' = disk \/ disk' = written
        BY <1>8, Zenon DEF Stage, StagePanics, StagePasses, StageSets, StageFails, splits, tooBig, refused
      <3> QED
        BY <2>1, <3>1, WrittenType, Zenon DEF TypeOK
    <2>4. SUFFICES /\ w' \in WorkerState /\ w'.left = w.left /\ w'.name = w.name /\ w'.step = "stage"
                   /\ proc' \in {proc, "down"} /\ panic' \in BOOLEAN /\ fails' \in Nat
      BY <1>3, <2>1, <2>3, <2>a, Zenon DEF TypeOK
    <2>5. CASE StagePanics(h)
      BY <2>1, <2>5, Zenon DEF StagePanics, TypeOK
    <2>6. CASE StagePasses(h)
      BY <2>1, <2>6, Zenon DEF StagePasses, TypeOK, WorkerState
    <2>7. CASE StageSets(h)
      <3>1. PICK v \in Entry, ks \in SUBSET HKey, sent \in SUBSET HKey, err \in {"no", "late", "yes"} :
              w' = [w EXCEPT !.todo = @ \ {h}, !.set = @ \cup {h}, !.sent = sent, !.err = err,
                             !.batch[h] = v, !.hkeys = ks]
        <4> DEFINE v == IF puts(h) THEN found(h) ELSE None
                   ks == IF puts(h) THEN w.hkeys \cup {h} ELSE w.hkeys \ {h}
        <4>1. v \in Entry /\ ks \in SUBSET HKey /\ w.sent \in SUBSET HKey /\ w.set \in SUBSET HKey
          BY <2>1, <2>2, Zenon DEF WorkerState
        <4>2. \E err \in {"no", "late", "yes"}, sent \in {w.sent, w.set} :
                w' = [w EXCEPT !.todo = @ \ {h}, !.set = @ \cup {h}, !.sent = sent, !.err = err,
                               !.batch[h] = v, !.hkeys = ks]
          BY <2>7, Zenon DEF StageSets
        <4> HIDE DEF v, ks
        <4> QED
          BY <4>1, <4>2, Zenon
      <3>2. w' \in WorkerState /\ w'.left = w.left /\ w'.name = w.name /\ w'.step = "stage"
        BY <2>1, <3>1, Zenon DEF WorkerState
      <3>3. fails' \in Nat
        BY <2>7 DEF StageSets, splits, fail, TypeOK
      <3> QED
        BY <2>7, <3>2, <3>3, Zenon DEF StageSets, TypeOK
    <2>8. CASE StageFails(h)
      <3>1. \/ w' = [w EXCEPT !.todo = @ \ {h}, !.failed[h] = w.copy[h]]
            \/ w' = [w EXCEPT !.todo = @ \ {h}, !.failed[h] = w.copy[h], !.sent = w.set, !.err = "yes"]
        BY <2>8, Zenon DEF StageFails
      <3>2. w' \in WorkerState /\ w'.left = w.left /\ w'.name = w.name /\ w'.step = "stage"
        <4>1. CASE w' = [w EXCEPT !.todo = @ \ {h}, !.failed[h] = w.copy[h]]
          BY <2>1, <2>2, <4>1, Zenon DEF WorkerState
        <4>2. CASE w' = [w EXCEPT !.todo = @ \ {h}, !.failed[h] = w.copy[h], !.sent = w.set, !.err = "yes"]
          BY <2>1, <2>2, <4>2, Zenon DEF WorkerState
        <4> QED
          BY <3>1, <4>1, <4>2, Zenon
      <3>3. fails' \in Nat
        BY <2>8 DEF StageFails, tooBig, refused, fail, TypeOK
      <3> QED
        BY <2>8, <3>2, <3>3, Zenon DEF StageFails, TypeOK
    <2> QED
      BY <1>8, <2>5, <2>6, <2>7, <2>8, Zenon DEF Stage
  <1>9. CASE SetKeys \/ Flush
    <2>1. w.step \in {"stage", "flush"} /\ w.name \in Name /\ slot[w.name] # None /\ w \in WorkerState
      BY <1>9, Zenon DEF SetKeys, Flush, Sound, inRound, TypeOK
    <2>2. w' \in WorkerState /\ w'.left = w.left /\ w'.name = w.name
      <3>1. PICK step \in {"flush", "readd"}, list \in BOOLEAN, sent \in SUBSET HKey, err \in {"no", "late", "yes"},
                 failed \in [HKey -> Marks] :
              w' = [w EXCEPT !.step = step, !.list = list, !.sent = sent, !.err = err, !.failed = failed]
        <4>1. /\ w.list \in BOOLEAN /\ w.sent \in SUBSET HKey /\ w.set \in SUBSET HKey /\ w.err \in {"no", "late", "yes"}
              /\ w.failed \in [HKey -> Marks] /\ w.copy \in [HKey -> Marks]
          BY <2>1, Zenon DEF WorkerState
        <4>2. CASE Flush
          <5>1. w' = [w EXCEPT !.step = "readd", !.list = w.list, !.sent = w.sent, !.err = w.err, !.failed = w.failed]
            BY <2>1, <4>2, Zenon DEF Flush, WorkerState
          <5> QED
            BY <4>1, <5>1, Zenon
        <4>3. CASE w' = [w EXCEPT !.step = "flush", !.list = TRUE]
          <5>1. w' = [w EXCEPT !.step = "flush", !.list = TRUE, !.sent = w.sent, !.err = w.err, !.failed = w.failed]
            BY <2>1, <4>3, Zenon DEF WorkerState
          <5> QED
            BY <4>1, <5>1, Zenon
        <4>4. ASSUME NEW err \in {"no", "late", "yes"},
                     w' = [w EXCEPT !.step = "flush", !.list = TRUE, !.sent = w.set, !.err = err]
              PROVE  w' = [w EXCEPT !.step = "flush", !.list = TRUE, !.sent = w.set, !.err = err, !.failed = w.failed]
          BY <2>1, <4>4, Zenon DEF WorkerState
        <4>5. CASE w' = [w EXCEPT !.step = "flush", !.failed = w.copy]
          <5>1. w' = [w EXCEPT !.step = "flush", !.list = w.list, !.sent = w.sent, !.err = w.err, !.failed = w.copy]
            BY <2>1, <4>5, Zenon DEF WorkerState
          <5> QED
            BY <4>1, <5>1, Zenon
        <4>6. CASE w' = [w EXCEPT !.step = "flush", !.failed = w.copy, !.sent = w.set, !.err = "yes"]
          <5>1. w' = [w EXCEPT !.step = "flush", !.list = w.list, !.sent = w.set, !.err = "yes", !.failed = w.copy]
            BY <2>1, <4>6, Zenon DEF WorkerState
          <5> QED
            BY <4>1, <5>1, Zenon
        <4>7. CASE SetKeys
          <5>1. \/ w' = [w EXCEPT !.step = "flush", !.list = TRUE]
                \/ \E err \in {"no", "late", "yes"} :
                     w' = [w EXCEPT !.step = "flush", !.list = TRUE, !.sent = w.set, !.err = err]
                \/ w' = [w EXCEPT !.step = "flush", !.failed = w.copy]
                \/ w' = [w EXCEPT !.step = "flush", !.failed = w.copy, !.sent = w.set, !.err = "yes"]
            BY <4>7, Zenon DEF SetKeys
          <5>2. CASE \E err \in {"no", "late", "yes"} :
                       w' = [w EXCEPT !.step = "flush", !.list = TRUE, !.sent = w.set, !.err = err]
            <6>1. PICK err \in {"no", "late", "yes"} :
                    w' = [w EXCEPT !.step = "flush", !.list = TRUE, !.sent = w.set, !.err = err]
              BY <5>2, Zenon
            <6>2. w' = [w EXCEPT !.step = "flush", !.list = TRUE, !.sent = w.set, !.err = err, !.failed = w.failed]
              BY <4>4, <6>1, Zenon
            <6> QED
              BY <4>1, <6>2, Zenon
          <5> QED
            BY <4>3, <4>5, <4>6, <5>1, <5>2, Zenon
        <4> QED
          BY <1>9, <4>2, <4>7, Zenon
      <3> QED
        BY <2>1, <3>1, Zenon DEF WorkerState
    <2>3. proc' = proc /\ log' = log /\ panic' = panic
      BY <1>9, Zenon DEF SetKeys, Flush
    <2>4. fails' \in Nat
      BY <1>9 DEF SetKeys, Flush, splits, tooBig, refused, fail, TypeOK
    <2>5. disk' \in [Name -> [HKey -> Entry]]
      <3>1. disk' = disk \/ disk' = written
        BY <1>9, Zenon DEF SetKeys, Flush, splits, tooBig, refused
      <3> QED
        BY <2>1, <3>1, WrittenType, Zenon DEF TypeOK
    <2>6. keys' \in [Name -> {None} \cup SUBSET HKey]
      <3>1. keys' = keys \/ keys' = [keys EXCEPT ![w.name] = w.hkeys]
        BY <1>9, Zenon DEF SetKeys, Flush
      <3>2. keys \in [Name -> {None} \cup SUBSET HKey] /\ w.hkeys \in SUBSET HKey
        BY Zenon DEF TypeOK, WorkerState
      <3> QED
        BY <2>1, <3>1, <3>2, Zenon
    <2> QED
      BY <1>3, <2>1, <2>2, <2>3, <2>4, <2>5, <2>6, Zenon DEF TypeOK
  <1>10. CASE Readd
    <2>1. logOf(w.name) \in D /\ w.step = "readd" /\ w.name \in Name /\ slot[w.name] # None
      BY <1>10, Zenon DEF Readd, Sound, TypeOK, logOf, D, inRound
    <2>2. w' \in WorkerState /\ w'.left = w.left /\ w'.step = "next"
      BY <1>10, Zenon DEF Readd, Worker, TypeOK, WorkerState, unmarked, empty, Marks, Entry
    <2>3. log' \in [D -> [HKey -> Marks]]
      BY <1>10, <2>1 DEF Readd, TypeOK, WorkerState
    <2>4. fails' = fails /\ proc' = proc /\ panic' = panic /\ keys' = keys /\ disk' = disk
      BY <1>10, Zenon DEF Readd
    <2> QED
      BY <1>3, <2>1, <2>2, <2>3, <2>4, Zenon DEF TypeOK
  <1>11. CASE SyncEnd
    BY <1>3, <1>11, WorkerType, Zenon DEF SyncEnd, TypeOK
  <1> QED
    BY <1>4, <1>5, <1>6, <1>7, <1>8, <1>9, <1>10, <1>11, Zenon DEF WorkerStep

\* A dmap is dropped with its log, and loses its registration only then.
LEMMA DropSInv ==
  ASSUME SInv, DropStep \/ \E d \in setup.dkeys \X Name, kind \in setup.drops : DropStart(kind, d)
  PROVE  SInv'
  <1> USE DEF SInv
  <1>1. ASSUME NEW d \in setup.dkeys \X Name, NEW kind \in setup.drops, DropStart(kind, d) PROVE SInv'
    <2>1. d \in D /\ kind \in {"stale", "destroy", "move"}
      BY SetupType, Zenon DEF TypeOK, D
    <2>2. UNCHANGED <<setup, proc, str, log, slot, hasWorker, cancelled, w, user, reg, keys, disk, clean, panic, stops, fails>>
      BY <1>1, Zenon DEF DropStart, snap, db, rest
    <2>3. /\ closed' \in [D -> BOOLEAN] /\ inMap' \in [D -> BOOLEAN] /\ ops' \in Nat
          /\ dr' \in DropState
          /\ dr'.d = d /\ dr'.step # "none"
      BY <1>1, <2>1 DEF DropStart, begins, TypeOK, DropState
    <2>4. TypeOK'
      BY <2>2, <2>3, Zenon DEF TypeOK
    <2>5. Sound'
      BY <2>1, <2>2, <2>3, Zenon DEF Sound, inRound
    <2> QED
      BY <2>2, <2>4, <2>5, Zenon DEF LoggedIsRegistered
  <1>2. CASE DestroyView
    <2>1. dr.d \in D /\ dr.d[2] \in Name
      BY <1>2, Zenon DEF DestroyView, Sound, D
    <2>2. UNCHANGED <<setup, proc, inMap, closed, str, log, slot, hasWorker, cancelled, w, user, reg, keys, disk,
                      clean, panic, stops, ops>> /\ fails' \in Nat
      BY <1>2 DEF DestroyView, mem, snap, db, rest, fail, TypeOK
    <2>3. /\ dr' \in DropState
          /\ dr'.step # "none" => dr'.d \in D
          /\ dr'.step = "none" => dr'.d = None
      <3>1. dr \in DropState /\ dr.step = "view" /\ keys[dr.d[2]] \in {None} \cup SUBSET HKey
        BY <1>2, <2>1, Zenon DEF DestroyView, TypeOK
      <3>2. CASE dr' = NoDrop
        BY <3>2, Zenon DEF NoDrop, DropState
      <3>3. CASE keys[dr.d[2]] # None /\ dr' = [dr EXCEPT !.step = "wipe", !.hkeys = keys[dr.d[2]]]
        BY <2>1, <3>1, <3>3, Zenon DEF DropState
      <3> QED
        BY <1>2, <3>2, <3>3, Zenon DEF DestroyView
    <2>4. TypeOK'
      BY <2>2, <2>3, Zenon DEF TypeOK
    <2>5. Sound'
      BY <2>1, <2>2, <2>3, Zenon DEF Sound, inRound
    <2> QED
      BY <2>2, <2>4, <2>5, Zenon DEF LoggedIsRegistered
  <1>3. CASE DestroyWipe
    <2>1. dr.d \in D /\ dr.d[2] \in Name
      BY <1>3, Zenon DEF DestroyWipe, Sound, D
    <2>2. UNCHANGED <<setup, proc, inMap, closed, str, log, slot, hasWorker, cancelled, w, user, reg, keys,
                      clean, panic, stops, ops>> /\ fails' \in Nat
      BY <1>3 DEF DestroyWipe, mem, snap, rest, fail, TypeOK
    <2>3. /\ dr' \in DropState
          /\ dr'.step # "none" => dr'.d \in D
          /\ dr'.step = "none" => dr'.d = None
      <3>1. dr \in DropState
        BY Zenon DEF TypeOK
      <3>2. CASE dr' = NoDrop
        BY <3>2, Zenon DEF NoDrop, DropState
      <3>3. CASE dr' = [dr EXCEPT !.step = "unregister"]
        BY <2>1, <3>1, <3>3, Zenon DEF DropState
      <3>4. ASSUME NEW hs, dr' = [dr EXCEPT !.hkeys = @ \ hs]
            PROVE  dr' \in DropState /\ dr'.d = dr.d /\ dr'.step = dr.step
        BY <3>1, <3>4, Zenon DEF DropState
      <3>5. dr.step = "wipe"
        BY <1>3, Zenon DEF DestroyWipe
      <3> QED
        BY <1>3, <2>1, <3>2, <3>3, <3>4, <3>5, Zenon DEF DestroyWipe, goesTo
    <2>4. disk' \in [Name -> [HKey -> Entry]]
      <3>1. disk' = disk \/ \E hs : disk' = [disk EXCEPT ![dr.d[2]] = [h \in HKey |-> IF h \in hs THEN None ELSE @[h]]]
        BY <1>3, Zenon DEF DestroyWipe, wipe
      <3>2. disk \in [Name -> [HKey -> Entry]] /\ None \in Entry
        BY Zenon DEF TypeOK, Entry
      <3>3. ASSUME NEW hs, disk' = [disk EXCEPT ![dr.d[2]] = [h \in HKey |-> IF h \in hs THEN None ELSE @[h]]]
            PROVE  disk' \in [Name -> [HKey -> Entry]]
        <4>1. [h \in HKey |-> IF h \in hs THEN None ELSE disk[dr.d[2]][h]] \in [HKey -> Entry]
          BY <2>1, <3>2, Zenon
        <4> QED
          BY <2>1, <3>2, <3>3, <4>1, Zenon
      <3> QED
        BY <3>1, <3>2, <3>3, Zenon
    <2>5. TypeOK'
      BY <2>2, <2>3, <2>4, Zenon DEF TypeOK
    <2>6. Sound'
      BY <2>1, <2>2, <2>3, Zenon DEF Sound, inRound
    <2> QED
      BY <2>2, <2>5, <2>6, Zenon DEF LoggedIsRegistered
  <1>4. CASE Unregister
    <2>1. dr.d \in D /\ dr.d[1] \in DKey /\ dr.d[2] \in Name
      BY <1>4, Zenon DEF Unregister, Sound, D
    <2>2. UNCHANGED <<setup, proc, closed, str, log, hasWorker, w, user, keys, disk, clean, panic, stops, ops>>
          /\ fails' \in Nat /\ dr' = NoDrop
      BY <1>4 DEF Unregister, dropped, rest, fail, TypeOK
    <2>3. /\ inMap' \in [D -> BOOLEAN] /\ cancelled' \in BOOLEAN
      BY <1>4, <2>1, Zenon DEF Unregister, dropped, TypeOK
    <2>4. \/ reg' = reg /\ slot' = slot
          \/ /\ reg' = [reg EXCEPT ![dr.d[1]] = @ \ {dr.d[2]}]
             /\ slot' = [slot EXCEPT ![dr.d[2]] = None]
      BY <1>4, Zenon DEF Unregister
    <2>5. TypeOK'
      <3>0. reg \in [DKey -> SUBSET Name] /\ slot \in [Name -> DKey \cup {None}]
        BY Zenon DEF TypeOK
      <3>1. reg' \in [DKey -> SUBSET Name] /\ slot' \in [Name -> DKey \cup {None}]
        <4>1. CASE reg' = reg /\ slot' = slot
          BY <3>0, <4>1, Zenon
        <4>2. CASE /\ reg' = [reg EXCEPT ![dr.d[1]] = @ \ {dr.d[2]}]
                   /\ slot' = [slot EXCEPT ![dr.d[2]] = None]
          BY <2>1, <3>0, <4>2, Zenon
        <4> QED
          BY <2>4, <4>1, <4>2, Zenon
      <3>2. dr' \in DropState
        BY <2>2, Zenon DEF NoDrop, DropState
      <3> QED
        BY <2>2, <2>3, <3>1, <3>2, Zenon DEF TypeOK
    <2>6. Sound'
      BY <1>4, <2>2, Zenon DEF Sound, inRound, Unregister, muFree, NoDrop
    <2>7. LoggedIsRegistered'
      <3>0. reg \in [DKey -> SUBSET Name] /\ slot \in [Name -> DKey \cup {None}]
        BY Zenon DEF TypeOK
      <3>a. CASE reg' = reg /\ slot' = slot
        BY <3>0, <3>a, Zenon DEF LoggedIsRegistered
      <3>b. CASE /\ reg' = [reg EXCEPT ![dr.d[1]] = @ \ {dr.d[2]}]
                 /\ slot' = [slot EXCEPT ![dr.d[2]] = None]
        BY <2>1, <3>0, <3>b, Zenon DEF LoggedIsRegistered
      <3> QED
        BY <2>4, <3>a, <3>b, Zenon
    <2> QED
      BY <2>5, <2>6, <2>7, Zenon
  <1> QED
    BY <1>1, <1>2, <1>3, <1>4, Zenon DEF DropStep

\* Start gives a log to every registered name, that of its last registration.
LEMMA ProcessSInv ==
  ASSUME SInv, Shutdown \/ ShutdownEnd \/ Crash \/ StartFails \/ Restart
  PROVE  SInv'
  <1> USE DEF SInv
  <1>1. CASE Shutdown \/ ShutdownEnd \/ Crash \/ StartFails
    <2>1. /\ UNCHANGED <<setup, inMap, closed, str, log, slot, hasWorker, cancelled, w, user, dr, reg, keys, disk,
                         panic, ops, fails>>
          /\ proc' \in {"stopping", "down", "failed"} /\ clean' \in BOOLEAN /\ stops' \in Nat
      <3>1. CASE Shutdown
        BY <3>1 DEF Shutdown, mem, snap, db, TypeOK
      <3>2. CASE ShutdownEnd
        BY <3>2, Zenon DEF ShutdownEnd, mem, snap, db, TypeOK
      <3>3. CASE Crash
        <4>1. UNCHANGED <<setup, inMap, closed, str, log, slot, hasWorker, cancelled, w, user, dr, reg, keys, disk,
                         panic, ops, fails>> /\ proc' = "down" /\ clean' = FALSE
          BY <3>3, Zenon DEF Crash, mem, snap, db
        <4>2. stops' \in Nat
          BY <3>3 DEF Crash, TypeOK
        <4> QED
          BY <4>1, <4>2, Zenon
      <3>4. CASE StartFails
        BY <3>4, Zenon DEF StartFails, mem, snap, db, rest, TypeOK
      <3> QED
        BY <1>1, <3>1, <3>2, <3>3, <3>4, Zenon
    <2>2. TypeOK'
      BY <2>1, Zenon DEF TypeOK
    <2>3. Sound'
      BY <2>1, Zenon DEF Sound, inRound
    <2> QED
      BY <2>1, <2>2, <2>3, Zenon DEF LoggedIsRegistered
  <1>2. CASE Restart
    <2>1. UNCHANGED <<setup, reg, keys, disk, clean, panic, stops, ops, fails>>
          /\ dr' = NoDrop /\ user' = [u \in User |-> Idle] /\ proc' = "up" /\ cancelled' = FALSE
      BY <1>2, Zenon DEF Restart, db, rest
    <2>2. w' \in WorkerState /\ w'.step \in {"none", "wait"}
      BY <1>2, WorkerType, Zenon DEF Restart
    <2>3. /\ inMap' \in [D -> BOOLEAN] /\ closed' \in [D -> BOOLEAN] /\ hasWorker' \in BOOLEAN
          /\ log' \in [D -> [HKey -> Marks]]
      BY <1>2 DEF Restart, unmarked, Marks
    <2>4. str' \in [D -> [HKey -> Entry]]
      <3>1. disk \in [Name -> [HKey -> Entry]] /\ None \in Entry /\ \A d \in D : d[2] \in Name
        BY Zenon DEF TypeOK, Entry, D
      <3> QED
        BY <1>2, <3>1 DEF Restart
    <2>5. \A n \in Name : /\ slot'[n] \in {"primary", "backup", None}
                          /\ slot'[n] # None => slot'[n] \in DKey /\ n \in reg[slot'[n]]
      BY <1>2, DKeyType, NoneFresh, Zenon DEF Restart
    <2>6. slot' \in [Name -> DKey \cup {None}]
      BY <1>2, <2>5, Zenon DEF Restart
    <2>7. TypeOK'
      BY <2>1, <2>2, <2>3, <2>4, <2>6, Zenon DEF TypeOK, NoDrop, DropState, Idle, Marks
    <2>8. Sound'
      BY <2>1, <2>2, Zenon DEF Sound, inRound, NoDrop, Idle
    <2> QED
      BY <2>1, <2>5, <2>7, <2>8, Zenon DEF LoggedIsRegistered
  <1> QED
    BY <1>1, <1>2, Zenon

\* Every step keeps the types and the registrations.
LEMMA NextSInv == SInv /\ [Next]_vars => SInv'
  <1> SUFFICES ASSUME SInv, [Next]_vars PROVE SInv'
    OBVIOUS
  <1>1. CASE UNCHANGED vars
    BY <1>1 DEF SInv, TypeOK, Sound, inRound, LoggedIsRegistered, vars, mem, snap, db, rest
  <1>2. ASSUME NEW d \in setup.dkeys \X Name,
               \/ Create(d)
               \/ \E u \in User, h \in setup.hkeys : \/ \E v \in Val : PutStr(u, d, h, v)
                                                    \/ DeleteStr(u, d, h)
                                                    \/ DeleteLog(u, d, h)
        PROVE  SInv'
    BY <1>2, CreateSInv, OperationSInv, Zenon
  <1>7. ASSUME NEW d \in setup.dkeys \X Name, \E h \in setup.hkeys, v \in Val : MergePut(d, h, v) PROVE SInv'
    BY <1>7, MergeSInv, Zenon
  <1>3. CASE DropStep \/ \E d \in setup.dkeys \X Name, kind \in setup.drops : DropStart(kind, d)
    BY <1>3, DropSInv, Zenon
  <1>4. CASE WorkerStep
    BY <1>4, WorkerSInv, Zenon
  <1>5. CASE \E u \in User : UserStep(u)
    BY <1>5, UserStepSInv, Zenon
  <1>6. CASE Shutdown \/ ShutdownEnd \/ Crash \/ StartFails \/ Restart
    BY <1>6, ProcessSInv, Zenon
  <1> QED
    BY <1>1, <1>2, <1>3, <1>4, <1>5, <1>6, <1>7, Zenon DEF Next

\* A log the worker synchronizes is that of a dmap Start will load (RegisterDMap and
\* UnregisterDMap, snapshot.go), in any use of the node.
THEOREM OnlyRegisteredLogs == Spec => []LoggedIsRegistered
  <1>1. SInv => LoggedIsRegistered
    BY Zenon DEF SInv
  <1> QED
    BY <1>1, InitSInv, NextSInv, PTL DEF Spec

-----------------------------------------------------------------------------
(* Nothing is forgotten. *)

P(n) == <<"primary", n>>

at(u, n, h) == user[u].d = P(n) /\ user[u].h = h
logs(n, h)  == \E u \in User : user[u].step = "log" /\ at(u, n, h)
cuts(n, h)  == \E u \in User : user[u].step = "str" /\ at(u, n, h)
pend(n, h)  == log[P(n)][h] # "none" \/ logs(n, h)
want(n, h)  == IF cuts(n, h) THEN None ELSE str[P(n)][h]

working(n) == inRound /\ w.name = n

\* A mark says what became of the key.
Agrees(mark, v) == (mark = "put" => v # None) /\ (mark = "del" => v = None)

\* Only primary dmaps are created and none is dropped.
Shape ==
  /\ dr = NoDrop /\ ~cancelled /\ ~panic
  /\ \A d \in D : ~closed[d] /\ (inMap[d] <=> d[1] = "primary" /\ slot[d[2]] # None)
  /\ \A n \in Name : slot[n] \in {"primary", None}
  /\ \A k \in DKey, n \in Name : n \in reg[k] <=> slot[n] = k
  /\ hasWorker <=> \E n \in Name : slot[n] # None
  /\ w.step # "none" => hasWorker

\* dm.Lock(): there is one operation at a time on a dmap.
Locked ==
  /\ \A u \in User : user[u].step = "none" => user[u] = Idle
  /\ \A u \in User : user[u].step # "none" => \E n \in Name : user[u].d = P(n) /\ slot[n] # None
  /\ \A u, v \in User : user[u].step # "none" /\ user[v].step # "none" /\ user[u].d = user[v].d => u = v
  /\ \A u \in User : user[u].step = "log"
       => user[u].mark # "none" /\ Agrees(user[u].mark, str[user[u].d][user[u].h])

\* The log and the copy of it agree with the storage.
Marked == /\ \A n \in Name, h \in HKey : ~logs(n, h) => Agrees(log[P(n)][h], want(n, h))
          /\ \A n \in Name : slot[n] = None => log[P(n)] = unmarked /\ listed(n) = {}
InHand == \A n \in Name, h \in HKey : working(n) =>
  /\ ~pend(n, h) => Agrees(w.copy[h], want(n, h))
  /\ w.failed[h] \in {"none", w.copy[h]}

\* The keys of the copy are in the batch, except those the worker has still to look
\* at, those it will log again, and those that are logged anew.  What was committed
\* early is in Badger; the list is not, before the end.
Staged == \A n \in Name, h \in HKey : working(n) /\ w.step \in {"stage", "flush"} =>
  /\ h \in w.todo => w.copy[h] # "none" /\ h \notin w.set
  /\ h \in w.set => w.copy[h] # "none" /\ (w.batch[h] = None => w.copy[h] = "del")
  /\ h \in w.set /\ ~pend(n, h) => w.batch[h] = want(n, h)
  /\ w.copy[h] # "none" /\ ~pend(n, h) => h \in w.todo \cup w.set \/ w.failed[h] # "none"
  /\ h \in w.hkeys <=> IF h \in w.set THEN w.batch[h] # None ELSE h \in listed(n)
  /\ h \in w.sent => h \in w.set /\ disk[n][h] = w.batch[h]

\* A round begins with an empty batch, no batch fails as a whole, and the list is in it
\* when it is flushed.
Fresh == /\ w.step \in {"none", "wait", "next", "read"} => w.set = {} /\ w.sent = {} /\ w.failed = unmarked
         /\ w.err = "no"
         /\ w.step = "flush" => w.todo = {} /\ w.list

\* What the loader would find of a key.
has(n, h) == IF h \in listed(n) THEN disk[n][h] ELSE None

\* What is nowhere on its way is in Badger.
Kept == \A n \in Name, h \in HKey :
  ~pend(n, h) /\ (working(n) => IF w.step = "readd" THEN w.failed[h] = "none" ELSE w.copy[h] = "none")
  => has(n, h) = want(n, h)

\* Badger has a value of every key it lists, but for the deletes of an unfinished batch.
Lists == \A n \in Name, h \in HKey : h \in listed(n) => disk[n][h] # None \/ torn(n, h)

allIdle == \A u \in User : user[u] = Idle
noMarks(n) == log[P(n)] = unmarked

\* The last round of the worker, after which nothing is marked if nothing failed.
LastRound ==
  /\ up => ~w.last /\ (hasWorker => w.step # "none")
  /\ proc = "stopping" \/ w.last => allIdle
  /\ ~runs /\ clean => w.step = "none"
  /\ hasWorker /\ w.step = "none" => allIdle /\ (fails = 0 => \A n \in Name : noMarks(n))
  /\ fails = 0 => w.failed = unmarked
  /\ w.last /\ fails = 0 => \A n \in Name \ w.left : noMarks(n)

Data   == Marked /\ InHand /\ Staged /\ Fresh /\ Kept /\ Lists
Steady == Shape /\ Locked /\ Data /\ LastRound

-----------------------------------------------------------------------------
\* The dmaps are primary dmaps.
LEMMA Primary ==
  ASSUME SInv, steady
  PROVE  /\ "primary" \in DKey /\ None \notin DKey /\ None # "primary"
         /\ setup.dkeys = {"primary"} /\ setup.drops = {} /\ ~setup.merges /\ setup.fails \subseteq {"set"}
         /\ \A n \in Name : P(n) \in D /\ P(n)[1] = "primary" /\ P(n)[2] = n /\ P(n) # None
         /\ \A d \in D : d[2] \in Name /\ (d[1] = "primary" => d = P(d[2]))
         /\ \A m, n \in Name : P(m) = P(n) => m = n
         /\ \A d \in setup.dkeys \X Name : d \in D /\ d[2] \in Name /\ d = P(d[2])
  <1>1. /\ "primary" \in DKey /\ setup.dkeys = {"primary"} /\ setup.drops = {} /\ ~setup.merges
        /\ setup.fails \subseteq {"set"}
    BY SetupType, Zenon DEF SInv, TypeOK, steady
  <1> QED
    BY <1>1, NoneFresh DEF P, D

\* Initially there is nothing.
LEMMA InitSteady == Init /\ steady => Steady
  <1> SUFFICES ASSUME Init, steady PROVE Steady
    OBVIOUS
  <1>1. SInv
    BY InitSInv, Zenon
  <1>2. \A n \in Name : P(n) \in D /\ log[P(n)] = unmarked /\ str[P(n)] = empty /\ listed(n) = {}
    BY <1>1, Primary, Zenon DEF Init, listed
  <1>3. \A u \in User : user[u] = Idle
    BY Zenon DEF Init
  <1>4. w.step = "none" /\ w.last = FALSE /\ w.set = {} /\ w.sent = {} /\ w.failed = unmarked /\ w.err = "no"
    BY Zenon DEF Init, Worker
  <1>5. \A n \in Name, h \in HKey : log[P(n)][h] = "none" /\ want(n, h) = None /\ has(n, h) = None
    BY <1>2, <1>3 DEF want, has, cuts, Idle, unmarked, empty
  <1>6. Shape
    BY <1>1, <1>4, Primary, Zenon DEF Init, Shape
  <1>7. Locked
    BY <1>3 DEF Locked, Idle
  <1>8. Marked
    BY <1>2, <1>5, Zenon DEF Marked, Agrees
  <1>9. InHand /\ Staged /\ Fresh
    BY <1>4, Zenon DEF InHand, Staged, working, inRound, Fresh
  <1>10. Kept
    BY <1>5, Zenon DEF Kept
  <1>11. Lists
    BY <1>2, Zenon DEF Lists
  <1>12. LastRound
    BY <1>2, <1>3, <1>4, Zenon DEF Init, LastRound, allIdle, noMarks, up, runs
  <1> QED
    BY <1>6, <1>7, <1>8, <1>9, <1>10, <1>11, <1>12, Zenon DEF Steady, Data

\* A step of an operation touches one key of one dmap: it leaves the key pending and
\* rightly marked, or as it was.
LEMMA OperationData ==
  ASSUME SInv, steady, Steady, UNCHANGED <<w, slot, keys, disk>>,
         \A n \in Name, h \in HKey :
           \/ log'[P(n)][h] = log[P(n)][h] /\ (logs(n, h)' <=> logs(n, h)) /\ want(n, h)' = want(n, h)
           \/ pend(n, h)' /\ (logs(n, h)' \/ Agrees(log'[P(n)][h], want(n, h)'))
                          /\ slot[n] # None,
         \A n \in Name : slot[n] = None => log'[P(n)] = log[P(n)]
  PROVE  Data'
  <1> USE DEF Steady, Data
  <1>1. \A n \in Name, h \in HKey : ~pend(n, h)' => ~pend(n, h) /\ want(n, h)' = want(n, h)
    BY Zenon DEF pend
  <1>4. \A n \in Name : listed(n)' = listed(n) /\ \A h \in HKey : has(n, h)' = has(n, h) /\ torn(n, h)' = torn(n, h)
    BY Zenon DEF listed, has, torn
  <1>2. Marked'
    BY <1>4, Zenon DEF Marked
  <1>3. \A n \in Name : working(n)' <=> working(n)
    BY Zenon DEF working, inRound
  <1>5. InHand'
    BY <1>1, <1>3, Zenon DEF InHand
  <1>6. Staged'
    BY <1>1, <1>3, <1>4, Zenon DEF Staged
  <1>7. Kept'
    BY <1>1, <1>3, <1>4, Zenon DEF Kept
  <1>8. Lists' /\ Fresh'
    BY <1>4, Zenon DEF Lists, Fresh
  <1> QED
    BY <1>2, <1>5, <1>6, <1>7, <1>8, Zenon

\* createDMap: the new dmap is empty, and so is what Badger has of it.
LEMMA CreateSteady ==
  ASSUME SInv, steady, Steady, NEW d \in setup.dkeys \X Name, Create(d)
  PROVE  Steady'
  <1> USE DEF Steady, Data
  <1>1. PICK n \in Name : d = P(n) /\ d \in D
    BY Primary, Zenon
  <1>2. /\ up /\ w.step \in {"none", "wait"} /\ w'.step = "wait" /\ ~w'.last
        /\ w'.set = {} /\ w'.sent = {} /\ w'.failed = unmarked /\ w'.err = "no"
    BY WorkerType, Zenon DEF Create, startWorker, muFree, LastRound, SInv, TypeOK, WorkerState, Fresh, Worker
  <1>3. slot[n] = None
    BY <1>1, Primary, Zenon DEF Create, Shape
  <1>4. /\ slot' = [slot EXCEPT ![n] = "primary"] /\ reg' = [reg EXCEPT !["primary"] = @ \cup {n}]
        /\ inMap' = [inMap EXCEPT ![d] = TRUE] /\ closed' = [closed EXCEPT ![d] = FALSE]
        /\ str' = [str EXCEPT ![d] = empty] /\ log' = [log EXCEPT ![d] = unmarked]
        /\ hasWorker' /\ UNCHANGED <<cancelled, proc, user, dr, keys, disk, clean, panic, stops, fails>>
    BY <1>1, Primary, Zenon DEF Create, startWorker, rest
  <1>5. /\ slot \in [Name -> DKey \cup {None}] /\ reg \in [DKey -> SUBSET Name]
        /\ inMap \in [D -> BOOLEAN] /\ closed \in [D -> BOOLEAN]
        /\ str \in [D -> [HKey -> Entry]] /\ log \in [D -> [HKey -> Marks]]
    BY Zenon DEF SInv, TypeOK
  <1>6. \A m \in Name : /\ slot'[m] = IF m = n THEN "primary" ELSE slot[m]
                        /\ log'[P(m)] = IF m = n THEN unmarked ELSE log[P(m)]
                        /\ str'[P(m)] = IF m = n THEN empty ELSE str[P(m)]
    BY <1>1, <1>4, <1>5, Primary
  <1>a. \A m \in Name : listed(m)' = listed(m) /\ \A h \in HKey : has(m, h)' = has(m, h) /\ ~torn(m, h)
    BY <1>2, <1>4, Zenon DEF listed, has, torn
  <1>7. \A m \in Name, h \in HKey : (logs(m, h)' <=> logs(m, h)) /\ (cuts(m, h)' <=> cuts(m, h))
    BY <1>4, Zenon DEF logs, cuts, at
  <1>8. \A m \in Name, h \in HKey : IF m = n THEN want(m, h)' = None ELSE want(m, h)' = want(m, h)
    BY <1>6, <1>7 DEF want, empty
  <1>9. Shape'
    <2>1. dr' = NoDrop /\ ~cancelled' /\ ~panic'
      BY <1>4, Zenon DEF Shape
    <2>2. \A e \in D : ~closed'[e] /\ (inMap'[e] <=> e[1] = "primary" /\ slot'[e[2]] # None)
      BY <1>1, <1>4, <1>5, <1>6, Primary, SMTT(30) DEF Shape
    <2>3. \A m \in Name : slot'[m] \in {"primary", None}
      BY <1>6, Zenon DEF Shape
    <2>4. \A k \in DKey, m \in Name : m \in reg'[k] <=> slot'[m] = k
      BY <1>4, <1>5, <1>6, <1>3, Primary DEF Shape
    <2>5. (hasWorker' <=> \E m \in Name : slot'[m] # None) /\ (w'.step # "none" => hasWorker')
      BY <1>4, <1>6, Primary
    <2> QED
      BY <2>1, <2>2, <2>3, <2>4, <2>5, Zenon DEF Shape
  <1>10. Locked'
    <2>1. \A u \in User : user[u].step # "none" => user[u].d # d /\ user[u].d \in D
      BY Zenon DEF Create, SInv, Sound
    <2>2. \A u \in User : user[u].step # "none" => str'[user[u].d] = str[user[u].d]
      BY <1>4, <1>5, <2>1, Zenon
    <2>3. \A u \in User : user[u].step # "none" => \E m \in Name : user[u].d = P(m) /\ slot'[m] # None
      BY <1>6, Primary DEF Locked
    <2> QED
      BY <1>4, <2>2, <2>3, Zenon DEF Locked
  <1>11. Marked'
    <2>1. ASSUME NEW m \in Name, NEW h \in HKey, ~logs(m, h)' PROVE Agrees(log'[P(m)][h], want(m, h)')
      <3>1. CASE m = n
        BY <1>6, <3>1, Zenon DEF unmarked, Agrees
      <3>2. CASE m # n
        BY <1>6, <1>7, <1>8, <2>1, <3>2, Zenon DEF Marked
      <3> QED
        BY <3>1, <3>2, Zenon
    <2>2. ASSUME NEW m \in Name, slot'[m] = None PROVE log'[P(m)] = unmarked /\ listed(m)' = {}
      <3>1. slot[m] = None /\ m # n
        BY <1>6, <2>2, Primary, Zenon
      <3>2. log[P(m)] = unmarked /\ listed(m) = {}
        BY <3>1, Zenon DEF Marked
      <3> QED
        BY <1>6, <1>a, <3>1, <3>2, Zenon
    <2> QED
      BY <2>1, <2>2, Zenon DEF Marked
  <1>12. (InHand /\ Staged /\ Fresh)'
    BY <1>2, Zenon DEF InHand, Staged, working, inRound, Fresh
  <1>13. Kept'
    <2> SUFFICES ASSUME NEW m \in Name, NEW h \in HKey, ~pend(m, h)'
                 PROVE  has(m, h)' = want(m, h)'
      BY Zenon DEF Kept
    <2>1. CASE m = n
      BY <1>3, <1>8, <1>a, <2>1 DEF Marked, has
    <2>2. CASE m # n
      <3>1. ~pend(m, h)
        BY <1>6, <1>7, <2>2, Zenon DEF pend
      <3> QED
        BY <1>2, <1>8, <1>a, <2>2, <3>1, Zenon DEF Kept, working, inRound
    <2> QED
      BY <2>1, <2>2, Zenon
  <1>14. Lists'
    BY <1>4, <1>a, Zenon DEF Lists
  <1>15. LastRound'
    BY <1>2, <1>4, Zenon DEF LastRound, up, runs, allIdle
  <1> QED
    BY <1>9, <1>10, <1>11, <1>12, <1>13, <1>14, <1>15, Zenon

\* dm.Lock(): an operation that begins is alone on its dmap.
LEMMA Alone ==
  ASSUME SInv, steady, Steady, NEW n \in Name, NEW u \in User, inMap[P(n)], lockFree(P(n)), user[u] = Idle
  PROVE  slot[n] # None /\ \A v \in User : user[v].d # P(n)
  BY Primary DEF Steady, Shape, lockFree

\* The other operations are on other dmaps.
LEMMA Beside ==
  ASSUME SInv, steady, Steady, NEW n \in Name, NEW u \in User,
         \A v \in User \ {u} : user[v].d # P(n) /\ user'[v] = user[v],
         user[u] = Idle \/ user[u].d = P(n),
         user'[u] = Idle \/ user'[u].d = P(n)
  PROVE  /\ \A m \in Name, x \in HKey : m # n => (logs(m, x)' <=> logs(m, x)) /\ (cuts(m, x)' <=> cuts(m, x))
         /\ \A x \in HKey : /\ logs(n, x)' <=> (user'[u].step = "log" /\ user'[u].h = x)
                            /\ cuts(n, x)' <=> (user'[u].step = "str" /\ user'[u].h = x)
                            /\ logs(n, x) <=> (user[u].step = "log" /\ user[u].h = x)
                            /\ cuts(n, x) <=> (user[u].step = "str" /\ user[u].h = x)
  <1>2. Idle.step = "none" /\ Idle.d = None
    BY Zenon DEF Idle
  <1>3. ASSUME NEW m \in Name, NEW x \in HKey, m # n
        PROVE  (logs(m, x)' <=> logs(m, x)) /\ (cuts(m, x)' <=> cuts(m, x))
    <2>1. \A v \in User : user'[v].d = P(m) <=> user[v].d = P(m)
      BY <1>2, <1>3, Primary
    <2>2. \A v \in User : user'[v].d = P(m) => user'[v] = user[v]
      BY <1>2, <1>3, Primary
    <2> QED
      BY <2>1, <2>2, Zenon DEF logs, cuts, at
  <1>4. ASSUME NEW x \in HKey
        PROVE  /\ logs(n, x)' <=> (user'[u].step = "log" /\ user'[u].h = x)
               /\ cuts(n, x)' <=> (user'[u].step = "str" /\ user'[u].h = x)
    BY <1>2, Primary DEF logs, cuts, at
  <1>5. ASSUME NEW x \in HKey
        PROVE  /\ logs(n, x) <=> (user[u].step = "log" /\ user[u].h = x)
               /\ cuts(n, x) <=> (user[u].step = "str" /\ user[u].h = x)
    BY <1>2, Primary, Zenon DEF logs, cuts, at
  <1> QED
    BY <1>3, <1>4, <1>5, Zenon

\* PutStr, DeleteStr: the storage has changed, the mark is owed.
LEMMA StorageFirst ==
  ASSUME SInv, steady, Steady, NEW d \in setup.dkeys \X Name, NEW u \in User, NEW h \in setup.hkeys,
         (\E v \in Val : PutStr(u, d, h, v)) \/ DeleteStr(u, d, h)
  PROVE  Steady'
  <1> USE DEF Steady
  <1>1. PICK n \in Name : d = P(n) /\ d \in D
    BY Primary, Zenon
  <1>2. h \in HKey
    BY SetupType, Zenon DEF SInv, TypeOK
  <1>3. PICK v \in Entry, mark \in {"put", "del"} :
          /\ Agrees(mark, v)
          /\ str' = [str EXCEPT ![d][h] = v]
          /\ user' = [user EXCEPT ![u] = [step |-> "log", d |-> d, h |-> h, mark |-> mark]]
    <2>1. CASE \E v \in Val : PutStr(u, d, h, v)
      BY <2>1, NoneFresh, Zenon DEF PutStr, owes, Agrees, Entry
    <2>2. CASE DeleteStr(u, d, h)
      BY <2>2, Zenon DEF DeleteStr, owes, Agrees, Entry
    <2> QED
      BY <2>1, <2>2, Zenon
  <1>4. enter(u, d) /\ lockFree(d)
    BY <1>1, Primary, Zenon DEF PutStr, DeleteStr
  <1>5. UNCHANGED <<setup, proc, inMap, closed, log, slot, hasWorker, cancelled, w, dr, reg, keys, disk, clean, panic, stops, fails>>
    BY Zenon DEF PutStr, DeleteStr, snap, db, rest
  <1>6. up /\ user[u] = Idle /\ inMap[P(n)]
    BY <1>1, <1>4, Zenon DEF enter, begins
  <1>7. slot[n] # None /\ \A v2 \in User : user[v2].d # P(n)
    BY <1>1, <1>4, <1>6, Alone, Zenon
  <1>8. /\ user'[u] = [step |-> "log", d |-> d, h |-> h, mark |-> mark]
        /\ \A v2 \in User \ {u} : user'[v2] = user[v2]
        /\ \A m \in Name, x \in HKey : m # n => (logs(m, x)' <=> logs(m, x)) /\ (cuts(m, x)' <=> cuts(m, x))
        /\ \A x \in HKey : (logs(n, x)' <=> x = h) /\ ~cuts(n, x)' /\ ~logs(n, x) /\ ~cuts(n, x)
    <2>1. user'[u] = [step |-> "log", d |-> d, h |-> h, mark |-> mark] /\ \A v2 \in User \ {u} : user'[v2] = user[v2]
      BY <1>3, Zenon DEF SInv, TypeOK
    <2>2. user'[u].step = "log" /\ user'[u].d = P(n) /\ user'[u].h = h /\ user[u].step = "none"
      BY <1>1, <1>6, <2>1 DEF Idle
    <2> QED
      BY <1>6, <1>7, <2>1, <2>2, Beside
  <1>9. \A e \in D, x \in HKey : str'[e][x] = IF e = d /\ x = h THEN v ELSE str[e][x]
    <2>1. str \in [D -> [HKey -> Entry]]
      BY Zenon DEF SInv, TypeOK
    <2> QED
      BY <1>1, <1>2, <1>3, <2>1, Zenon
  <1>10. \A m \in Name, x \in HKey :
           \/ (logs(m, x)' <=> logs(m, x)) /\ want(m, x)' = want(m, x)
           \/ m = n /\ logs(m, x)'
    BY <1>1, <1>8, <1>9, Primary DEF want
  <1>11. Data'
    BY <1>5, <1>7, <1>10, OperationData, Zenon DEF pend
  <1>12. Shape'
    BY <1>5, Zenon DEF Shape
  <1>13. Locked'
    <2>1. \A v2 \in User : user'[v2].step = "none" => user'[v2] = Idle
      <3>1. user'[u].step # "none"
        BY <1>8
      <3> QED
        BY <1>8, <3>1, Zenon DEF Locked
    <2>2. \A v2 \in User : user'[v2].step # "none" => \E m \in Name : user'[v2].d = P(m) /\ slot'[m] # None
      <3>1. user'[u].d = P(n) /\ slot'[n] # None /\ slot' = slot
        BY <1>1, <1>5, <1>7, <1>8
      <3>2. \A v2 \in User \ {u} : user[v2].step # "none" => \E m \in Name : user[v2].d = P(m) /\ slot[m] # None
        BY Zenon DEF Locked
      <3>3. \A v2 \in User \ {u} : user'[v2] = user[v2]
        BY <1>8, Zenon
      <3> QED
        BY <3>1, <3>2, <3>3, Zenon
    <2>3. \A x, y \in User : user'[x].step # "none" /\ user'[y].step # "none" /\ user'[x].d = user'[y].d => x = y
      <3>1. user'[u].d = P(n)
        BY <1>1, <1>8
      <3>2. \A x, y \in User \ {u} : user[x].step # "none" /\ user[y].step # "none" /\ user[x].d = user[y].d => x = y
        BY Zenon DEF Locked
      <3>3. \A x \in User \ {u} : user'[x] = user[x] /\ user[x].d # P(n)
        BY <1>7, <1>8, Zenon
      <3>4. ASSUME NEW x \in User, NEW y \in User, user'[x].step # "none", user'[y].step # "none", user'[x].d = user'[y].d
            PROVE  x = y
        <4>1. CASE x = u \/ y = u
          BY <3>1, <3>3, <3>4, <4>1, Zenon
        <4>2. CASE x # u /\ y # u
          BY <3>2, <3>3, <3>4, <4>2, Zenon
        <4> QED
          BY <4>1, <4>2, Zenon
      <3> QED
        BY <3>4, Zenon
    <2>4. ASSUME NEW x \in User, user'[x].step = "log"
          PROVE  user'[x].mark # "none" /\ Agrees(user'[x].mark, str'[user'[x].d][user'[x].h])
      <3>1. CASE x = u
        BY <1>1, <1>2, <1>3, <1>8, <1>9, <3>1
      <3>2. CASE x # u
        <4>1. user'[x] = user[x] /\ user[x].d \in D /\ user[x].h \in HKey /\ user[x].d # d
          BY <1>1, <1>7, <1>8, <2>4, <3>2, Zenon DEF SInv, Sound
        <4> QED
          BY <1>9, <2>4, <4>1 DEF Locked
      <3> QED
        BY <3>1, <3>2, Zenon
    <2> QED
      BY <2>1, <2>2, <2>3, <2>4, Zenon DEF Locked
  <1>14. LastRound'
    BY <1>5, <1>6, Zenon DEF LastRound, up, runs, noMarks
  <1> QED
    BY <1>11, <1>12, <1>13, <1>14, Zenon

\* DeleteLog: the key is marked, and as good as gone.
LEMMA LogFirst ==
  ASSUME SInv, steady, Steady, NEW d \in setup.dkeys \X Name, NEW u \in User, NEW h \in setup.hkeys,
         DeleteLog(u, d, h)
  PROVE  Steady'
  <1> USE DEF Steady
  <1>1. PICK n \in Name : d = P(n) /\ d \in D
    BY Primary, Zenon
  <1>2. h \in HKey
    BY SetupType, Zenon DEF SInv, TypeOK
  <1>3. /\ log' = [log EXCEPT ![d][h] = "del"]
        /\ user' = [user EXCEPT ![u] = [step |-> "str", d |-> d, h |-> h, mark |-> "del"]]
        /\ UNCHANGED <<setup, proc, inMap, closed, str, slot, hasWorker, cancelled, w, dr, reg, keys, disk, clean, panic, stops, fails>>
    BY Zenon DEF DeleteLog, owes, snap, db, rest
  <1>4. up /\ user[u] = Idle /\ inMap[P(n)] /\ lockFree(P(n))
    BY <1>1, Zenon DEF DeleteLog, enter, begins
  <1>5. slot[n] # None /\ \A v \in User : user[v].d # P(n)
    BY <1>4, Alone, Zenon
  <1>6. /\ user'[u] = [step |-> "str", d |-> d, h |-> h, mark |-> "del"]
        /\ \A v \in User \ {u} : user'[v] = user[v]
    BY <1>3, Zenon DEF SInv, TypeOK
  <1>7. /\ \A m \in Name, x \in HKey : m # n => (logs(m, x)' <=> logs(m, x)) /\ (cuts(m, x)' <=> cuts(m, x))
        /\ \A x \in HKey : (cuts(n, x)' <=> x = h) /\ ~logs(n, x)' /\ ~logs(n, x) /\ ~cuts(n, x)
    <2>1. user'[u].step = "str" /\ user'[u].d = P(n) /\ user'[u].h = h /\ user[u].step = "none"
      BY <1>1, <1>4, <1>6 DEF Idle
    <2> QED
      BY <1>4, <1>5, <1>6, <2>1, Beside
  <1>8. \A e \in D, x \in HKey : log'[e][x] = IF e = d /\ x = h THEN "del" ELSE log[e][x]
    <2>1. log \in [D -> [HKey -> Marks]]
      BY Zenon DEF SInv, TypeOK
    <2> QED
      BY <1>1, <1>2, <1>3, <2>1, Zenon
  <1>9. \A m \in Name : m # n => log'[P(m)] = log[P(m)]
    <2>1. log \in [D -> [HKey -> Marks]]
      BY Zenon DEF SInv, TypeOK
    <2> QED
      BY <1>1, <1>2, <1>3, <2>1, Primary, ZenonT(30)
  <1>10. ASSUME NEW m \in Name, NEW x \in HKey
         PROVE  \/ log'[P(m)][x] = log[P(m)][x] /\ (logs(m, x)' <=> logs(m, x)) /\ want(m, x)' = want(m, x)
                \/ pend(m, x)' /\ Agrees(log'[P(m)][x], want(m, x)') /\ slot[m] # None
    <2>1. CASE m = n /\ x = h
      <3>1. log'[P(m)][x] = "del" /\ want(m, x)' = None
        BY <1>1, <1>2, <1>7, <1>8, <2>1, Zenon DEF want
      <3> QED
        BY <1>5, <2>1, <3>1, Zenon DEF pend, Agrees
    <2>2. CASE ~(m = n /\ x = h)
      BY <1>1, <1>3, <1>7, <1>8, <2>2, Primary DEF want
    <2> QED
      BY <2>1, <2>2, Zenon
  <1>11. Data'
    BY <1>3, <1>5, <1>9, <1>10, OperationData, Zenon
  <1>12. Shape'
    BY <1>3, Zenon DEF Shape
  <1>13. Locked'
    <2>1. \A v \in User : user'[v].step = "none" => user'[v] = Idle
      BY <1>6 DEF Locked
    <2>2. \A v \in User : user'[v].step # "none" => \E m \in Name : user'[v].d = P(m) /\ slot'[m] # None
      BY <1>1, <1>3, <1>5, <1>6 DEF Locked
    <2>3. \A x, y \in User : user'[x].step # "none" /\ user'[y].step # "none" /\ user'[x].d = user'[y].d => x = y
      BY <1>1, <1>5, <1>6 DEF Locked
    <2>4. \A x \in User : user'[x].step = "log"
            => user'[x].mark # "none" /\ Agrees(user'[x].mark, str'[user'[x].d][user'[x].h])
      BY <1>3, <1>6 DEF Locked
    <2> QED
      BY <2>1, <2>2, <2>3, <2>4, Zenon DEF Locked
  <1>14. LastRound'
    BY <1>3, <1>4, Zenon DEF LastRound, up, runs, noMarks
  <1> QED
    BY <1>11, <1>12, <1>13, <1>14, Zenon

\* LogOp, StrOp: the operation is done, and what it did is marked.
LEMMA OperationEnds ==
  ASSUME SInv, steady, Steady, NEW u \in User, UserStep(u)
  PROVE  Steady'
  <1> USE DEF Steady
  <1> DEFINE d == user[u].d
             h == user[u].h
  <1>1. runs /\ user[u].step \in {"log", "str"}
    BY Zenon DEF UserStep, LogOp, StrOp
  <1>2. PICK n \in Name : d = P(n) /\ slot[n] # None /\ d \in D /\ h \in HKey
    BY <1>1, Primary DEF Locked, SInv, Sound
  <1>3. ~closed[d]
    BY <1>2, Zenon DEF Shape
  <1>4. /\ user' = [user EXCEPT ![u] = Idle]
        /\ UNCHANGED <<setup, proc, inMap, closed, slot, hasWorker, cancelled, w, dr, reg, keys, disk, clean, panic, stops, fails>>
    <2>1. CASE LogOp(u)
      BY <2>1, Zenon DEF LogOp, snap, db, rest
    <2>2. CASE StrOp(u)
      BY <1>3, <2>2, Zenon DEF StrOp, snap, db
    <2> QED
      BY <2>1, <2>2, Zenon DEF UserStep
  <1>5. user'[u] = Idle /\ \A v \in User \ {u} : user'[v] = user[v] /\ user[v].d # P(n)
    <2>1. user'[u] = Idle /\ \A v \in User \ {u} : user'[v] = user[v]
      BY <1>4, Zenon DEF SInv, TypeOK
    <2>2. \A v \in User \ {u} : user[v].d # P(n)
      BY <1>1, <1>2, Primary, SMTT(30) DEF Locked, Idle
    <2> QED
      BY <2>1, <2>2, Zenon
  <1>6. /\ \A m \in Name, x \in HKey : m # n => (logs(m, x)' <=> logs(m, x)) /\ (cuts(m, x)' <=> cuts(m, x))
        /\ \A x \in HKey : /\ ~cuts(n, x)' /\ ~logs(n, x)'
                           /\ cuts(n, x) <=> user[u].step = "str" /\ x = h
                           /\ logs(n, x) <=> user[u].step = "log" /\ x = h
    <2>1. Idle.step = "none"
      BY Zenon DEF Idle
    <2> QED
      BY <1>2, <1>5, <2>1, Beside
  <1>7. Data'
    <2>1. CASE LogOp(u)
      <3>1. user[u].step = "log" /\ str' = str /\ log' = [log EXCEPT ![d][h] = user[u].mark]
        BY <2>1, Zenon DEF LogOp
      <3>2. user[u].mark \in {"put", "del"} /\ Agrees(user[u].mark, str[d][h])
        BY <3>1, Zenon DEF Locked, SInv, TypeOK, Marks
      <3>3. log \in [D -> [HKey -> Marks]]
        BY Zenon DEF SInv, TypeOK
      <3>4. \A e \in D, x \in HKey : log'[e][x] = IF e = d /\ x = h THEN user[u].mark ELSE log[e][x]
        BY <1>2, <3>1, <3>3, Zenon
      <3>5. \A m \in Name : m # n => log'[P(m)] = log[P(m)]
        BY <1>2, <3>1, <3>3, Primary
      <3>6. ASSUME NEW m \in Name, NEW x \in HKey
            PROVE  \/ log'[P(m)][x] = log[P(m)][x] /\ (logs(m, x)' <=> logs(m, x)) /\ want(m, x)' = want(m, x)
                   \/ pend(m, x)' /\ Agrees(log'[P(m)][x], want(m, x)') /\ slot[m] # None
        <4>1. CASE m = n /\ x = h
          <5>1. log'[P(m)][x] = user[u].mark /\ want(m, x)' = str[d][h]
            BY <1>2, <1>6, <3>1, <3>4, <4>1 DEF want
          <5> QED
            BY <1>2, <3>2, <4>1, <5>1, Zenon DEF pend
        <4>2. CASE ~(m = n /\ x = h)
          BY <1>2, <1>6, <3>1, <3>4, <4>2, Primary DEF want
        <4> QED
          BY <4>1, <4>2, Zenon
      <3> QED
        BY <1>2, <1>4, <3>5, <3>6, OperationData, Zenon
    <2>2. CASE StrOp(u)
      <3>1. user[u].step = "str" /\ log' = log /\ str' = [str EXCEPT ![d][h] = None]
        BY <1>3, <2>2, Zenon DEF StrOp
      <3>2. str \in [D -> [HKey -> Entry]]
        BY Zenon DEF SInv, TypeOK
      <3>3. \A e \in D, x \in HKey : str'[e][x] = IF e = d /\ x = h THEN None ELSE str[e][x]
        BY <1>2, <3>1, <3>2, Zenon
      <3>4. ASSUME NEW m \in Name, NEW x \in HKey
            PROVE  (logs(m, x)' <=> logs(m, x)) /\ want(m, x)' = want(m, x)
        <4>1. CASE m = n
          BY <1>2, <1>6, <3>1, <3>3, <4>1, Primary DEF want
        <4>2. CASE m # n
          BY <1>2, <1>6, <3>1, <3>3, <4>2, Primary DEF want
        <4> QED
          BY <4>1, <4>2, Zenon
      <3> QED
        BY <1>4, <3>1, <3>4, OperationData, Zenon
    <2> QED
      BY <2>1, <2>2, Zenon DEF UserStep
  <1>8. Shape'
    BY <1>4, Zenon DEF Shape
  <1>9. Locked'
    <2>1. \A v \in User : user'[v].step # "none" => user'[v] = user[v] /\ v # u
      BY <1>5 DEF Idle
    <2>2. \A v \in User : user'[v].step = "none" => user'[v] = Idle
      BY <1>5, Zenon DEF Locked
    <2>3. ASSUME NEW x \in User, user'[x].step = "log"
          PROVE  user'[x].mark # "none" /\ Agrees(user'[x].mark, str'[user'[x].d][user'[x].h])
      <3>1. user'[x] = user[x] /\ user[x].d # d /\ user[x].d \in D /\ user[x].h \in HKey /\ user[x].step = "log"
        BY <1>2, <1>5, <2>1, <2>3, Zenon DEF SInv, Sound
      <3>2. str'[user[x].d][user[x].h] = str[user[x].d][user[x].h]
        <4>1. str' = str \/ str' = [str EXCEPT ![d][h] = None]
          BY Zenon DEF UserStep, LogOp, StrOp
        <4>2. str \in [D -> [HKey -> Entry]]
          BY Zenon DEF SInv, TypeOK
        <4> HIDE DEF d, h
        <4>3. ASSUME str' = [str EXCEPT ![d][h] = None] PROVE str'[user[x].d][user[x].h] = str[user[x].d][user[x].h]
          BY <1>2, <3>1, <4>2, <4>3, Zenon
        <4> QED
          BY <4>1, <4>3, Zenon
      <3> QED
        BY <3>1, <3>2, Zenon DEF Locked
    <2> QED
      BY <1>4, <2>1, <2>2, <2>3 DEF Locked
  <1>10. LastRound'
    <2>1. ~allIdle
      BY <1>1 DEF allIdle, Idle
    <2>2. up /\ ~w.last
      BY <1>1, <2>1, Zenon DEF LastRound, up, runs
    <2> QED
      BY <1>4, <2>2, Zenon DEF LastRound, up, runs
  <1> QED
    BY <1>7, <1>8, <1>9, <1>10, Zenon

\* The worker leaves the dmaps and the operations alone, and never panics.
LEMMA WorkerKeeps ==
  ASSUME SInv, steady, Steady, WorkerStep
  PROVE  /\ UNCHANGED <<setup, proc, inMap, closed, str, slot, hasWorker, cancelled, user, dr, reg, clean, panic, stops, ops>>
         /\ runs /\ w.step # "none" /\ Shape' /\ Locked'
         /\ \A n \in Name, h \in HKey : (logs(n, h)' <=> logs(n, h)) /\ want(n, h)' = want(n, h)
  <1> USE DEF Steady
  <1>1. UNCHANGED <<setup, inMap, closed, str, slot, hasWorker, cancelled, user, dr, reg, clean, stops, ops>>
    BY Zenon DEF WorkerStep, workerOnly, SyncStart, WorkerStops, ReadKeys, SetKeys, Flush, Readd, SyncEnd, Take, Stage, snap
  <1>2. ASSUME NEW h \in HKey, Stage(h) PROVE proc' = proc /\ panic' = panic
    <2>1. open
      BY <1>2, Primary, Zenon DEF Stage, open, logOf, SInv, Sound, inRound, Shape, TypeOK, D
    <2> QED
      BY <1>2, <2>1, Zenon DEF Stage, StagePanics, StagePasses, StageSets, StageFails
  <1>3. proc' = proc /\ panic' = panic
    BY <1>2, Zenon DEF WorkerStep, SyncStart, WorkerStops, ReadKeys, SetKeys, Flush, Readd, SyncEnd, Take
  <1>4. runs /\ w.step # "none"
    BY Zenon DEF WorkerStep, SyncStart, WorkerStops, ReadKeys, SetKeys, Flush, Readd, SyncEnd, Take, Stage
  <1>5. Shape'
    BY <1>1, <1>3, <1>4, Zenon DEF Shape
  <1>6. Locked'
    BY <1>1, Zenon DEF Locked
  <1>7. \A n \in Name, h \in HKey : (logs(n, h)' <=> logs(n, h)) /\ want(n, h)' = want(n, h)
    BY <1>1, Zenon DEF logs, cuts, want, at
  <1> QED
    BY <1>1, <1>3, <1>4, <1>5, <1>6, <1>7, Zenon

\* A step outside of the batch leaves Badger alone, and no batch is unfinished.
LEMMA BadgerKept ==
  ASSUME Lists, UNCHANGED <<keys, disk>>, w.step \notin {"stage", "flush"}
  PROVE  /\ \A n \in Name : listed(n)' = listed(n) /\ \A h \in HKey : has(n, h)' = has(n, h)
         /\ Lists'
  <1>1. \A n \in Name : listed(n)' = listed(n) /\ \A h \in HKey : has(n, h)' = has(n, h) /\ ~torn(n, h)
    BY Zenon DEF listed, has, torn
  <1> QED
    BY <1>1, Zenon DEF Lists

\* A round begins, the last one when the callers have stopped.
LEMMA SyncStartSteady ==
  ASSUME SInv, steady, Steady, SyncStart
  PROVE  Steady'
  <1> USE DEF Steady, Data
  <1>1. WorkerStep
    BY Zenon DEF WorkerStep
  <1>2. /\ w.step = "wait" /\ w' = [w EXCEPT !.step = "next", !.left = {n \in Name : slot[n] # None}, !.last = ~up]
        /\ log' = log /\ keys' = keys /\ disk' = disk /\ fails' = fails /\ w \in WorkerState
    BY Zenon DEF SyncStart, SInv, TypeOK
  <1>3. /\ w'.step = "next" /\ w'.left = {n \in Name : slot[n] # None} /\ w'.last = ~up
        /\ w'.set = w.set /\ w'.sent = w.sent /\ w'.failed = w.failed /\ w'.err = w.err
    BY <1>2, Zenon DEF WorkerState
  <1>4. \A n \in Name, h \in HKey : pend(n, h)' <=> pend(n, h)
    BY <1>1, <1>2, WorkerKeeps, Zenon DEF pend
  <1>5. Marked' /\ Lists'
    BY <1>1, <1>2, WorkerKeeps, BadgerKept, Zenon DEF Marked
  <1>6. InHand' /\ Staged' /\ Fresh'
    BY <1>2, <1>3, Zenon DEF InHand, Staged, Fresh, working, inRound
  <1>7. Kept'
    BY <1>1, <1>2, <1>3, <1>4, WorkerKeeps, BadgerKept, Zenon DEF Kept, working, inRound
  <1>8. LastRound'
    <2>1. ~up => allIdle
      BY <1>1, WorkerKeeps, Zenon DEF LastRound, runs, up
    <2>2. \A n \in Name \ w'.left : noMarks(n)
      BY <1>3, Zenon DEF Marked, noMarks
    <2>3. up' = up /\ runs' = runs /\ allIdle' = allIdle /\ clean' = clean /\ hasWorker' = hasWorker /\ \A n \in Name : noMarks(n)' = noMarks(n)
      BY <1>1, <1>2, WorkerKeeps, Zenon DEF up, runs, allIdle, noMarks
    <2>4. proc' = proc
      BY <1>1, WorkerKeeps, Zenon
    <2> QED
      BY <1>1, <1>2, <1>3, <2>1, <2>2, <2>3, <2>4, WorkerKeeps, Zenon DEF LastRound
  <1> QED
    BY <1>1, <1>5, <1>6, <1>7, <1>8, WorkerKeeps, Zenon

\* The marks of a name are taken over by the worker.
LEMMA TakeSteady ==
  ASSUME SInv, steady, Steady, NEW n \in Name, Take(n)
  PROVE  Steady'
  <1> USE DEF Steady, Data
  <1>1. WorkerStep
    BY Zenon DEF WorkerStep
  <1>2. slot[n] = "primary" /\ logOf(n) = P(n) /\ P(n) \in D
    BY Primary, Zenon DEF Take, SInv, Sound, Shape, logOf, P
  <1>3. /\ w.step = "next" /\ log' = [log EXCEPT ![P(n)] = unmarked] /\ keys' = keys /\ disk' = disk /\ fails' = fails
        /\ w' = IF log[P(n)] = unmarked THEN [w EXCEPT !.left = @ \ {n}]
                ELSE [w EXCEPT !.left = @ \ {n}, !.step = "read", !.name = n, !.copy = log[P(n)]]
    BY <1>2, Zenon DEF Take
  <1>4. /\ w'.set = {} /\ w'.sent = {} /\ w'.failed = unmarked /\ w'.err = "no"
        /\ w'.left = w.left \ {n} /\ w'.last = w.last /\ w'.step \in {"next", "read"}
        /\ w'.step = "next" => log[P(n)] = unmarked
        /\ w'.step = "read" => w'.name = n /\ w'.copy = log[P(n)]
    <2>1. w \in WorkerState
      BY Zenon DEF SInv, TypeOK
    <2>2. w.set = {} /\ w.sent = {} /\ w.failed = unmarked /\ w.err = "no"
      BY <1>3, Zenon DEF Fresh
    <2>3. CASE log[P(n)] = unmarked
      BY <1>3, <2>1, <2>2, <2>3, Zenon DEF WorkerState
    <2>4. CASE log[P(n)] # unmarked
      BY <1>3, <2>1, <2>2, <2>4, Zenon DEF WorkerState
    <2> QED
      BY <2>3, <2>4, Zenon
  <1>5. \A m \in Name : log'[P(m)] = IF m = n THEN unmarked ELSE log[P(m)]
    BY <1>2, <1>3, Primary, Zenon DEF SInv, TypeOK
  <1>6. /\ \A h \in HKey : (pend(n, h)' <=> logs(n, h))
        /\ \A m \in Name, h \in HKey : m # n => (pend(m, h)' <=> pend(m, h))
    BY <1>1, <1>5, WorkerKeeps, Zenon DEF pend, unmarked
  <1>7. Marked'
    <2>1. \A m \in Name, h \in HKey : ~logs(m, h)' => Agrees(log'[P(m)][h], want(m, h)')
      <3> SUFFICES ASSUME NEW m \in Name, NEW h \in HKey, ~logs(m, h)'
                   PROVE  Agrees(log'[P(m)][h], want(m, h)')
        OBVIOUS
      <3>1. CASE m = n
        BY <1>5, <3>1, Zenon DEF unmarked, Agrees
      <3>2. CASE m # n
        BY <1>1, <1>5, <3>2, WorkerKeeps, Zenon DEF Marked
      <3> QED
        BY <3>1, <3>2, Zenon
    <2>2. \A m \in Name : slot'[m] = None => log'[P(m)] = unmarked /\ listed(m)' = {}
      BY <1>1, <1>3, <1>5, WorkerKeeps, BadgerKept, Zenon DEF Marked
    <2> QED
      BY <2>1, <2>2, Zenon DEF Marked
  <1>8. InHand'
    <2> SUFFICES ASSUME NEW m \in Name, NEW h \in HKey, working(m)'
                 PROVE  /\ ~pend(m, h)' => Agrees(w'.copy[h], want(m, h)')
                        /\ w'.failed[h] \in {"none", w'.copy[h]}
      BY Zenon DEF InHand
    <2>1. m = n /\ w'.copy = log[P(n)]
      BY <1>4, Zenon DEF working, inRound
    <2>2. ~pend(n, h)' => Agrees(w'.copy[h], want(n, h)')
      BY <1>1, <1>6, <2>1, WorkerKeeps, Zenon DEF Marked
    <2>3. w'.failed[h] = "none"
      BY <1>4, Zenon DEF unmarked
    <2> QED
      BY <2>1, <2>2, <2>3, Zenon
  <1>9. Staged' /\ Fresh'
    BY <1>4, Zenon DEF Staged, Fresh
  <1>10. Kept'
    <2> SUFFICES ASSUME NEW m \in Name, NEW h \in HKey, ~pend(m, h)', working(m)' => w'.copy[h] = "none"
                 PROVE  has(m, h)' = want(m, h)'
      BY <1>4, Zenon DEF Kept
    <2>1. ~working(m)
      BY <1>3, Zenon DEF working, inRound
    <2>2. ~pend(m, h)
      <3>1. CASE m # n
        BY <1>6, <3>1, Zenon
      <3>2. CASE m = n /\ w'.step = "next"
        BY <1>4, <1>6, <3>2, Zenon DEF pend, unmarked
      <3>3. CASE m = n /\ w'.step = "read"
        BY <1>4, <1>6, <3>3, Zenon DEF pend, working, inRound
      <3> QED
        BY <1>4, <3>1, <3>2, <3>3, Zenon
    <2> QED
      BY <1>1, <1>3, <2>1, <2>2, WorkerKeeps, BadgerKept, Zenon DEF Kept
  <1>11. Lists'
    BY <1>3, BadgerKept, Zenon
  <1>12. LastRound'
    <2>1. \A m \in Name : (m = n => noMarks(m)') /\ (noMarks(m) => noMarks(m)')
      BY <1>5, Zenon DEF noMarks
    <2>2. up' = up /\ runs' = runs /\ allIdle' = allIdle /\ clean' = clean /\ hasWorker' = hasWorker /\ proc' = proc
      BY <1>1, WorkerKeeps, Zenon DEF up, runs, allIdle
    <2> QED
      BY <1>3, <1>4, <2>1, <2>2, Zenon DEF LastRound
  <1> QED
    BY <1>1, <1>7, <1>8, <1>9, <1>10, <1>11, <1>12, WorkerKeeps, Zenon

\* The worker looks up what Badger lists.
LEMMA ReadKeysSteady ==
  ASSUME SInv, steady, Steady, ReadKeys
  PROVE  Steady'
  <1> USE DEF Steady, Data
  <1>1. WorkerStep
    BY Zenon DEF WorkerStep
  <1>2. /\ w.step = "read" /\ log' = log /\ keys' = keys /\ disk' = disk /\ fails' = fails /\ w \in WorkerState
        /\ w.name \in Name
        /\ w' = [w EXCEPT !.step = "stage", !.hkeys = IF keys[w.name] = None THEN {} ELSE keys[w.name],
                          !.todo = {h \in HKey : w.copy[h] # "none"}]
    BY Primary DEF ReadKeys, SInv, TypeOK, fail, Sound, inRound
  <1>3. /\ w'.step = "stage" /\ w'.name = w.name /\ w'.copy = w.copy /\ w'.set = w.set /\ w'.failed = w.failed
        /\ w'.hkeys = listed(w.name) /\ w'.todo = {h \in HKey : w.copy[h] # "none"}
        /\ w'.left = w.left /\ w'.last = w.last /\ w'.sent = w.sent /\ w'.err = w.err
    BY <1>2, Zenon DEF WorkerState, listed
  <1>4. w.set = {} /\ w.sent = {} /\ w.failed = unmarked
    BY <1>2, Zenon DEF Fresh
  <1>5. \A n \in Name, h \in HKey : (pend(n, h)' <=> pend(n, h)) /\ want(n, h)' = want(n, h)
    BY <1>1, <1>2, WorkerKeeps, Zenon DEF pend
  <1>6. \A n \in Name : working(n)' <=> working(n)
    BY <1>2, <1>3, Zenon DEF working, inRound
  <1>7. Marked' /\ Lists'
    BY <1>1, <1>2, WorkerKeeps, BadgerKept, Zenon DEF Marked
  <1>8. InHand' /\ Fresh'
    BY <1>3, <1>5, <1>6, Zenon DEF InHand, Fresh
  <1>9. Staged'
    <2>1. \A n \in Name : listed(n)' = listed(n)
      BY <1>2, BadgerKept, Zenon
    <2> QED
      BY <1>2, <1>3, <1>4, <1>6, <2>1 DEF Staged, working
  <1>10. Kept'
    BY <1>2, <1>3, <1>5, <1>6, BadgerKept DEF Kept
  <1>11. LastRound'
    <2>1. up' = up /\ runs' = runs /\ allIdle' = allIdle /\ clean' = clean /\ hasWorker' = hasWorker /\ proc' = proc
      BY <1>1, WorkerKeeps, Zenon DEF up, runs, allIdle
    <2>2. \A m \in Name : noMarks(m)' <=> noMarks(m)
      BY <1>2, Zenon DEF noMarks
    <2> QED
      BY <1>2, <1>3, <2>1, <2>2, Zenon DEF LastRound
  <1> QED
    BY <1>1, <1>7, <1>8, <1>9, <1>10, <1>11, WorkerKeeps, Zenon

\* A commit writes the keys of the open transaction and no others.
LEMMA WrittenIs ==
  ASSUME SInv, NEW n \in Name, w.name = n
  PROVE  \A m \in Name, x \in HKey :
           written[m][x] = IF m = n /\ x \in w.set \ w.sent THEN w.batch[x] ELSE disk[m][x]
  <1>1. disk \in [Name -> [HKey -> Entry]]
    BY Zenon DEF SInv, TypeOK
  <1> QED
    BY <1>1, Zenon DEF written

\* A step of the batch of name n: the worker, ...
BatchWorker(n) ==
  /\ w.step = "stage" /\ w.name = n /\ log' = log /\ keys' = keys
  /\ w'.step \in {"stage", "flush"} /\ w'.name = n /\ w'.copy = w.copy /\ w'.left = w.left /\ w'.last = w.last
  /\ w'.err = "no" /\ (w'.step = "flush" => w'.todo = {} /\ w'.list)
  /\ \A x \in HKey : w'.failed[x] \in {"none", w.copy[x]}
  /\ fails' = 0 => fails = 0 /\ w'.failed = w.failed

\* ... the transaction it may commit, ...
BatchDisk ==
  /\ (disk' = disk /\ w'.sent = w.sent) \/ (disk' = written /\ w'.sent = w.set)
  /\ \A x \in w.set : x \in w'.set /\ w'.batch[x] = w.batch[x]

\* ... and what is in the batch.
BatchKeys(n) ==
  \A x \in HKey :
    /\ x \in w'.todo => w.copy[x] # "none" /\ x \notin w'.set
    /\ x \in w'.set => w.copy[x] # "none" /\ (w'.batch[x] = None => w.copy[x] = "del")
    /\ x \in w'.set /\ ~pend(n, x) => w'.batch[x] = want(n, x)
    /\ w.copy[x] # "none" /\ ~pend(n, x) => x \in w'.todo \cup w'.set \/ w'.failed[x] # "none"
    /\ x \in w'.hkeys <=> IF x \in w'.set THEN w'.batch[x] # None ELSE x \in listed(n)

\* The batch grows, and its open transaction may be committed: Badger may then have
\* lost values of keys it lists, those the batch deletes.
LEMMA BatchSteady ==
  ASSUME SInv, steady, Steady, WorkerStep, NEW n \in Name, BatchWorker(n), BatchDisk, BatchKeys(n)
  PROVE  Steady'
  <1> USE DEF Steady, Data
  <1>1. \A m \in Name : (working(m) <=> m = n) /\ (working(m)' <=> m = n)
    BY Zenon DEF BatchWorker, working, inRound
  <1>2. \A m \in Name, x \in HKey : (pend(m, x)' <=> pend(m, x)) /\ want(m, x)' = want(m, x)
    BY WorkerKeeps, Zenon DEF BatchWorker, pend
  <1>3. \A m \in Name : listed(m)' = listed(m)
    BY Zenon DEF BatchWorker, listed
  <1>4. \A x \in HKey : /\ x \in w.set => w.copy[x] # "none" /\ (w.batch[x] = None => w.copy[x] = "del")
                        /\ x \in w.sent => x \in w.set /\ disk[n][x] = w.batch[x]
    BY <1>1, Zenon DEF BatchWorker, Staged
  <1>b. w.name = n
    BY Zenon DEF BatchWorker
  <1>5. \A m \in Name, x \in HKey : disk'[m][x] = disk[m][x] \/ (m = n /\ x \in w.set \ w.sent /\ disk'[m][x] = w.batch[x])
    <2>1. \A m \in Name, x \in HKey :
            written[m][x] = IF m = n /\ x \in w.set \ w.sent THEN w.batch[x] ELSE disk[m][x]
      BY <1>b, WrittenIs, Zenon
    <2>2. disk' = disk \/ disk' = written
      BY Zenon DEF BatchDisk
    <2>3. CASE disk' = disk
      BY <2>3, Zenon
    <2>4. CASE disk' = written
      BY <2>1, <2>4, Zenon
    <2> QED
      BY <2>2, <2>3, <2>4, Zenon
  <1>6. \A x \in HKey : x \in w'.sent => x \in w.set /\ disk'[n][x] = w.batch[x]
    <2>1. CASE disk' = disk /\ w'.sent = w.sent
      BY <1>4, <2>1, Zenon
    <2>2. CASE disk' = written /\ w'.sent = w.set
      <3> SUFFICES ASSUME NEW x \in HKey, x \in w.set PROVE disk'[n][x] = w.batch[x]
        BY <2>2, Zenon
      <3>1. disk'[n][x] = IF n = n /\ x \in w.set \ w.sent THEN w.batch[x] ELSE disk[n][x]
        BY <1>b, <2>2, WrittenIs, Zenon
      <3> QED
        BY <1>4, <3>1, Zenon
    <2> QED
      BY <2>1, <2>2, Zenon DEF BatchDisk
  <1>7. \A x \in HKey : (x \in w.sent => x \in w'.sent) /\ (disk'[n][x] # disk[n][x] => x \in w'.sent)
    <2>1. CASE disk' = disk /\ w'.sent = w.sent
      BY <2>1, Zenon
    <2>2. CASE disk' = written /\ w'.sent = w.set
      BY <1>4, <1>5, <2>2, Zenon
    <2> QED
      BY <2>1, <2>2, Zenon DEF BatchDisk
  <1>8. Marked'
    BY <1>3, WorkerKeeps, Zenon DEF BatchWorker, Marked
  <1>9. InHand'
    BY <1>1, <1>2, Zenon DEF BatchWorker, InHand
  <1>10. Staged'
    <2>1. \A x \in HKey : x \in w'.sent => x \in w'.set /\ disk'[n][x] = w'.batch[x]
      BY <1>6, Zenon DEF BatchDisk
    <2>2. w'.copy = w.copy
      BY Zenon DEF BatchWorker
    <2> SUFFICES ASSUME NEW x \in HKey
                 PROVE  /\ x \in w'.todo => w'.copy[x] # "none" /\ x \notin w'.set
                        /\ x \in w'.set => w'.copy[x] # "none" /\ (w'.batch[x] = None => w'.copy[x] = "del")
                        /\ x \in w'.set /\ ~pend(n, x)' => w'.batch[x] = want(n, x)'
                        /\ w'.copy[x] # "none" /\ ~pend(n, x)' => x \in w'.todo \cup w'.set \/ w'.failed[x] # "none"
                        /\ x \in w'.hkeys <=> IF x \in w'.set THEN w'.batch[x] # None ELSE x \in listed(n)'
      BY <1>1, <2>1, Zenon DEF Staged
    <2> QED
      BY <1>2, <1>3, <2>2, Zenon DEF BatchKeys
  <1>11. Fresh'
    BY Zenon DEF BatchWorker, Fresh
  <1>12. Kept'
    <2>a. w'.copy = w.copy /\ w.step = "stage" /\ w'.step \in {"stage", "flush"}
      BY Zenon DEF BatchWorker
    <2> SUFFICES ASSUME NEW m \in Name, NEW x \in HKey, ~pend(m, x), m = n => w.copy[x] = "none"
                 PROVE  has(m, x)' = want(m, x)
      BY <1>1, <1>2, <2>a, Zenon DEF Kept
    <2>1. disk'[m][x] = disk[m][x]
      BY <1>4, <1>5, Zenon
    <2>2. has(m, x) = want(m, x)
      BY <1>1, <2>a, Zenon DEF Kept
    <2> QED
      BY <1>3, <2>1, <2>2, Zenon DEF has
  <1>13. Lists'
    <2>a. w'.name = n /\ w'.copy = w.copy /\ w'.step \in {"stage", "flush"}
      BY Zenon DEF BatchWorker
    <2> SUFFICES ASSUME NEW m \in Name, NEW x \in HKey, x \in listed(m), disk'[m][x] = None
                 PROVE  m = n /\ w.copy[x] = "del" /\ x \in w'.sent
      <3>1. \A m \in Name, x \in HKey : m = n /\ w.copy[x] = "del" /\ x \in w'.sent => torn(m, x)'
        BY <2>a, Zenon DEF torn
      <3> QED
        BY <1>3, <3>1, Zenon DEF Lists
    <2>1. CASE disk[m][x] = None
      BY <1>b, <1>7, <2>1, Zenon DEF Lists, torn
    <2>2. CASE disk[m][x] # None
      <3>1. m = n /\ x \in w.set /\ w.batch[x] = None
        BY <1>5, <2>2, Zenon
      <3> QED
        BY <1>4, <1>7, <2>2, <3>1, Zenon
    <2> QED
      BY <2>1, <2>2, Zenon
  <1>14. LastRound'
    <2>1. up' = up /\ runs' = runs /\ allIdle' = allIdle /\ clean' = clean /\ hasWorker' = hasWorker /\ proc' = proc
      BY WorkerKeeps, Zenon DEF up, runs, allIdle
    <2>2. \A m \in Name : noMarks(m)' <=> noMarks(m)
      BY Zenon DEF BatchWorker, noMarks
    <2> QED
      BY <2>1, <2>2, Zenon DEF BatchWorker, LastRound
  <1> QED
    BY <1>8, <1>9, <1>10, <1>11, <1>12, <1>13, <1>14, WorkerKeeps, Zenon

\* Nothing fails in a batch but the Set of an invalid entry.
LEMMA NoneRefused ==
  ASSUME SInv, steady, Steady
  PROVE  /\ ~fail("commit") /\ ~tooBig /\ ~refused /\ ~fail("keys") /\ ~fail("view")
         /\ \A err : splits(err) => disk' = written /\ err = "no" /\ fails' = fails
  <1>1. w.err = "no" /\ setup.fails \subseteq {"set"}
    BY Primary, Zenon DEF Steady, Data, Fresh
  <1>2. ~fail("commit") /\ ~fail("big") /\ ~fail("keys") /\ ~fail("view")
    BY <1>1 DEF fail
  <1> QED
    BY <1>1, <1>2, Zenon DEF tooBig, refused, splits

\* One key of the copy.  A put that finds no key was overtaken by a delete, which
\* has left a mark of its own.
LEMMA StageSteady ==
  ASSUME SInv, steady, Steady, NEW h \in HKey, Stage(h)
  PROVE  Steady'
  <1> USE DEF Steady, Data
  <1>1. WorkerStep
    BY Zenon DEF WorkerStep
  <1>2. w.step = "stage" /\ h \in w.todo /\ log' = log /\ keys' = keys /\ w \in WorkerState
    BY Zenon DEF Stage, SInv, TypeOK
  <1>3. PICK n \in Name : w.name = n /\ slot[n] = "primary" /\ logOf(w.name) = P(n) /\ P(n) \in D
    BY <1>2, Primary, Zenon DEF SInv, Sound, inRound, Shape, logOf, P
  <1>4. open /\ found(h) = str[P(n)][h]
    BY <1>3 DEF open, found, Shape
  <1>5. working(n)
    BY <1>2, <1>3, Zenon DEF working, inRound
  <1>7. ~pend(n, h) => (w.copy[h] = "put" => want(n, h) = found(h) /\ found(h) # None) /\ (w.copy[h] = "del" => want(n, h) = None)
    BY <1>4, <1>5, Zenon DEF InHand, Agrees, want
  <1>8. w.copy[h] \in Marks /\ w.set \subseteq HKey
    BY <1>2, Zenon DEF WorkerState
  <1>9. w.err = "no"
    BY Zenon DEF Fresh
  <1>10. \A x \in HKey : w.failed[x] \in {"none", w.copy[x]}
    BY <1>5, Zenon DEF InHand
  <1>11. \A x \in HKey : /\ x \in w.todo => w.copy[x] # "none" /\ x \notin w.set
                         /\ x \in w.set => w.copy[x] # "none" /\ (w.batch[x] = None => w.copy[x] = "del")
                         /\ x \in w.set /\ ~pend(n, x) => w.batch[x] = want(n, x)
                         /\ w.copy[x] # "none" /\ ~pend(n, x) => x \in w.todo \cup w.set \/ w.failed[x] # "none"
                         /\ x \in w.hkeys <=> IF x \in w.set THEN w.batch[x] # None ELSE x \in listed(n)
    BY <1>2, <1>5, Zenon DEF Staged
  <1>12. CASE StagePasses(h)
    <2>1. w' = [w EXCEPT !.todo = @ \ {h}] /\ fails' = fails /\ disk' = disk /\ pend(n, h)
      BY <1>7, <1>12, Zenon DEF StagePasses, puts
    <2>2. /\ w'.step = "stage" /\ w'.name = n /\ w'.copy = w.copy /\ w'.left = w.left /\ w'.last = w.last
          /\ w'.failed = w.failed /\ w'.set = w.set /\ w'.batch = w.batch /\ w'.hkeys = w.hkeys /\ w'.todo = w.todo \ {h}
          /\ w'.sent = w.sent /\ w'.err = "no"
      BY <1>2, <1>3, <1>9, <2>1, Zenon DEF WorkerState
    <2>3. \A x \in HKey : w.copy[x] # "none" /\ ~pend(n, x) => x \in w'.todo \cup w'.set \/ w'.failed[x] # "none"
      BY <1>11, <2>1, <2>2, Zenon
    <2> QED
      BY <1>1, <1>2, <1>3, <1>10, <1>11, <2>1, <2>2, <2>3, BatchSteady, Zenon DEF BatchWorker, BatchDisk, BatchKeys
  <1>13. CASE StageSets(h)
    <2> DEFINE v == IF puts(h) THEN found(h) ELSE None
               ks == IF puts(h) THEN w.hkeys \cup {h} ELSE w.hkeys \ {h}
    <2>1. PICK sent \in {w.sent, w.set} :
            /\ w' = [w EXCEPT !.todo = @ \ {h}, !.set = @ \cup {h}, !.sent = sent, !.err = "no", !.batch[h] = v, !.hkeys = ks]
            /\ (sent = w.sent /\ disk' = disk) \/ (sent = w.set /\ disk' = written)
            /\ fails' = fails
      BY <1>9, <1>13, NoneRefused, Zenon DEF StageSets
    <2>a. puts(h) => found(h) # None
      BY <1>13, Zenon DEF StageSets
    <2>2. w.copy[h] \in {"put", "del"}
      BY <1>2, <1>8, <1>11, Zenon DEF Marks
    <2>3. (v # None <=> puts(h)) /\ (~pend(n, h) => v = want(n, h)) /\ (v = None => w.copy[h] = "del")
      BY <1>7, <2>a, <2>2, Zenon DEF puts
    <2>4. \A x \in HKey : x \in ks <=> IF x = h THEN v # None ELSE x \in w.hkeys
      BY <2>3, Zenon
    <2> HIDE DEF v, ks
    <2>5. /\ w'.step = "stage" /\ w'.name = n /\ w'.copy = w.copy /\ w'.left = w.left /\ w'.last = w.last
          /\ w'.failed = w.failed /\ w'.set = w.set \cup {h} /\ w'.hkeys = ks /\ w'.todo = w.todo \ {h}
          /\ w'.batch = [w.batch EXCEPT ![h] = v] /\ w'.sent = sent /\ w'.err = "no"
      BY <1>2, <1>3, <2>1, Zenon DEF WorkerState
    <2>6. \A x \in HKey : w'.batch[x] = IF x = h THEN v ELSE w.batch[x]
      BY <1>2, <2>5, Zenon DEF WorkerState
    <2>7. \A x \in HKey :
            /\ x \in w'.todo => w.copy[x] # "none" /\ x \notin w'.set
            /\ x \in w'.set => w.copy[x] # "none" /\ (w'.batch[x] = None => w.copy[x] = "del")
            /\ x \in w'.set /\ ~pend(n, x) => w'.batch[x] = want(n, x)
            /\ w.copy[x] # "none" /\ ~pend(n, x) => x \in w'.todo \cup w'.set \/ w'.failed[x] # "none"
      BY <1>2, <1>11, <2>3, <2>5, <2>6, Zenon
    <2>8. \A x \in HKey : x \in w'.hkeys <=> IF x \in w'.set THEN w'.batch[x] # None ELSE x \in listed(n)
      BY <1>11, <2>4, <2>5, <2>6, Zenon
    <2>9. \A x \in w.set : x \in w'.set /\ w'.batch[x] = w.batch[x]
      BY <1>2, <1>8, <1>11, <2>5, <2>6, Zenon
    <2>10. (disk' = disk /\ w'.sent = w.sent) \/ (disk' = written /\ w'.sent = w.set)
      BY <2>1, <2>5, Zenon
    <2> QED
      BY <1>1, <1>2, <1>3, <1>10, <2>1, <2>5, <2>7, <2>8, <2>9, <2>10, BatchSteady, Zenon DEF BatchWorker, BatchDisk, BatchKeys
  <1>14. CASE StageFails(h)
    <2>1. w' = [w EXCEPT !.todo = @ \ {h}, !.failed[h] = w.copy[h]] /\ disk' = disk /\ fails' = fails + 1
      BY <1>14, NoneRefused, Zenon DEF StageFails, fail
    <2>2. /\ w'.step = "stage" /\ w'.name = n /\ w'.copy = w.copy /\ w'.left = w.left /\ w'.last = w.last
          /\ w'.failed = [w.failed EXCEPT ![h] = w.copy[h]] /\ w'.set = w.set /\ w'.hkeys = w.hkeys
          /\ w'.todo = w.todo \ {h} /\ w'.batch = w.batch /\ w'.sent = w.sent /\ w'.err = "no"
      BY <1>2, <1>3, <1>9, <2>1, Zenon DEF WorkerState
    <2>3. \A x \in HKey : w'.failed[x] = IF x = h THEN w.copy[x] ELSE w.failed[x]
      BY <1>2, <2>2, Zenon DEF WorkerState
    <2>4. fails' # 0
      BY <2>1 DEF SInv, TypeOK
    <2>5. \A x \in HKey : /\ w'.failed[x] \in {"none", w.copy[x]}
                          /\ w.copy[x] # "none" /\ ~pend(n, x) => x \in w'.todo \cup w'.set \/ w'.failed[x] # "none"
      BY <1>10, <1>11, <2>2, <2>3, Zenon
    <2> QED
      BY <1>1, <1>2, <1>3, <1>11, <2>1, <2>2, <2>4, <2>5, BatchSteady, Zenon DEF BatchWorker, BatchDisk, BatchKeys
  <1> QED
    BY <1>4, <1>12, <1>13, <1>14, Zenon DEF Stage, StagePanics

\* The key list is in the batch, in the transaction that is committed last.
LEMMA SetKeysSteady ==
  ASSUME SInv, steady, Steady, SetKeys
  PROVE  Steady'
  <1> USE DEF Steady, Data
  <1>1. WorkerStep
    BY Zenon DEF WorkerStep
  <1>2. w.step = "stage" /\ w.todo = {} /\ log' = log /\ keys' = keys /\ w \in WorkerState /\ w.err = "no"
    BY Zenon DEF SetKeys, SInv, TypeOK, Fresh
  <1>3. PICK n \in Name : w.name = n
    BY <1>2, Zenon DEF SInv, Sound, inRound
  <1>4. /\ \/ w' = [w EXCEPT !.step = "flush", !.list = TRUE] /\ disk' = disk
           \/ w' = [w EXCEPT !.step = "flush", !.list = TRUE, !.sent = w.set, !.err = "no"] /\ disk' = written
        /\ fails' = fails
    BY NoneRefused, Zenon DEF SetKeys
  <1>5. /\ w'.step = "flush" /\ w'.name = n /\ w'.copy = w.copy /\ w'.left = w.left /\ w'.last = w.last
        /\ w'.failed = w.failed /\ w'.set = w.set /\ w'.hkeys = w.hkeys /\ w'.todo = {} /\ w'.batch = w.batch
        /\ w'.list /\ w'.err = "no"
        /\ (disk' = disk /\ w'.sent = w.sent) \/ (disk' = written /\ w'.sent = w.set)
    <2>1. CASE w' = [w EXCEPT !.step = "flush", !.list = TRUE] /\ disk' = disk
      BY <1>2, <1>3, <2>1, Zenon DEF WorkerState
    <2>2. CASE w' = [w EXCEPT !.step = "flush", !.list = TRUE, !.sent = w.set, !.err = "no"] /\ disk' = written
      BY <1>2, <1>3, <2>2, Zenon DEF WorkerState
    <2> QED
      BY <1>4, <2>1, <2>2, Zenon
  <1>6. working(n)
    BY <1>2, <1>3, Zenon DEF working, inRound
  <1>7. \A x \in HKey : w.failed[x] \in {"none", w.copy[x]}
    BY <1>6, Zenon DEF InHand
  <1>8. \A x \in HKey : /\ x \in w.set => w.copy[x] # "none" /\ (w.batch[x] = None => w.copy[x] = "del")
                        /\ x \in w.set /\ ~pend(n, x) => w.batch[x] = want(n, x)
                        /\ w.copy[x] # "none" /\ ~pend(n, x) => x \in w.todo \cup w.set \/ w.failed[x] # "none"
                        /\ x \in w.hkeys <=> IF x \in w.set THEN w.batch[x] # None ELSE x \in listed(n)
    BY <1>2, <1>6, Zenon DEF Staged
  <1>9. BatchWorker(n)
    BY <1>2, <1>3, <1>4, <1>5, <1>7, Zenon DEF BatchWorker
  <1>10. BatchDisk
    BY <1>5, Zenon DEF BatchDisk
  <1>11. BatchKeys(n)
    <2>1. w'.todo = w.todo /\ w'.set = w.set /\ w'.failed = w.failed /\ w'.batch = w.batch /\ w'.hkeys = w.hkeys
      BY <1>2, <1>5, Zenon
    <2>2. \A x \in HKey : x \notin w.todo
      BY <1>2
    <2> QED
      BY <1>8, <2>1, <2>2, Zenon DEF BatchKeys
  <1> QED
    BY <1>1, <1>9, <1>10, <1>11, BatchSteady, Zenon

\* Flush: the rest of the batch and the list that goes with it are written together.
LEMMA FlushSteady ==
  ASSUME SInv, steady, Steady, Flush
  PROVE  Steady'
  <1> USE DEF Steady, Data
  <1>1. WorkerStep
    BY Zenon DEF WorkerStep
  <1>2. /\ w.step = "flush" /\ w.todo = {} /\ log' = log /\ fails' = fails /\ w \in WorkerState /\ w.err = "no"
        /\ disk' = written /\ keys' = [keys EXCEPT ![w.name] = w.hkeys] /\ w' = [w EXCEPT !.step = "readd"]
    BY NoneRefused, Zenon DEF Flush, SInv, TypeOK, Fresh
  <1>3. PICK n \in Name : w.name = n /\ slot[n] # None
    BY <1>2, Zenon DEF SInv, Sound, inRound
  <1>4. /\ w'.step = "readd" /\ w'.name = n /\ w'.copy = w.copy /\ w'.left = w.left /\ w'.last = w.last
        /\ w'.failed = w.failed /\ w.hkeys \in SUBSET HKey /\ w'.err = "no"
    BY <1>2, <1>3, Zenon DEF WorkerState
  <1>5. \A m \in Name : (working(m) <=> m = n) /\ (working(m)' <=> m = n)
    BY <1>2, <1>3, <1>4, Zenon DEF working, inRound
  <1>6. \A m \in Name, x \in HKey : (pend(m, x)' <=> pend(m, x)) /\ want(m, x)' = want(m, x)
    BY <1>1, <1>2, WorkerKeeps, Zenon DEF pend
  <1>7. \A m \in Name, x \in HKey : disk'[m][x] = IF m = n /\ x \in w.set THEN w.batch[x] ELSE disk[m][x]
    <2>1. \A x \in HKey : x \in w.sent => x \in w.set /\ disk[n][x] = w.batch[x]
      BY <1>2, <1>5, Zenon DEF Staged
    <2> SUFFICES ASSUME NEW m \in Name, NEW x \in HKey
                 PROVE  disk'[m][x] = IF m = n /\ x \in w.set THEN w.batch[x] ELSE disk[m][x]
      OBVIOUS
    <2>2. disk'[m][x] = IF m = n /\ x \in w.set \ w.sent THEN w.batch[x] ELSE disk[m][x]
      <3>a. w.name = n
        BY <1>3
      <3>1. \A y \in Name, z \in HKey :
              written[y][z] = IF y = n /\ z \in w.set \ w.sent THEN w.batch[z] ELSE disk[y][z]
        BY <3>a, WrittenIs, Zenon
      <3> QED
        BY <1>2, <3>1, Zenon
    <2>3. CASE m = n /\ x \in w.sent
      BY <2>1, <2>2, <2>3, Zenon
    <2>4. CASE m = n /\ x \notin w.sent
      BY <2>2, <2>4, Zenon
    <2> QED
      BY <2>2, <2>3, <2>4, Zenon
  <1>8. \A m \in Name : listed(m)' = IF m = n THEN w.hkeys ELSE listed(m)
    BY <1>2, <1>3, <1>4, NoneFresh, Zenon DEF listed, SInv, TypeOK
  <1>a. \A x \in HKey : x \in w.hkeys <=> IF x \in w.set THEN w.batch[x] # None ELSE x \in listed(n)
    BY <1>2, <1>5, Zenon DEF Staged
  <1>9. Lists'
    <2> SUFFICES ASSUME NEW m \in Name, NEW x \in HKey, x \in listed(m)' PROVE disk'[m][x] # None
      BY Zenon DEF Lists
    <2>1. CASE m = n /\ x \in w.set
      BY <1>7, <1>8, <1>a, <2>1, Zenon
    <2>2. CASE ~(m = n /\ x \in w.set)
      <3>1. x \in listed(m)
        BY <1>8, <1>a, <2>2, Zenon
      <3>2. ~torn(m, x)
        BY <1>2, <1>3, <1>5, <2>2, Zenon DEF torn, Staged
      <3> QED
        BY <1>7, <2>2, <3>1, <3>2, Zenon DEF Lists
    <2> QED
      BY <2>1, <2>2, Zenon
  <1>10. Marked'
    <2>1. log' = log /\ slot' = slot /\ \A m \in Name, x \in HKey : logs(m, x)' <=> logs(m, x)
      BY <1>1, <1>2, WorkerKeeps, Zenon
    <2>2. \A m \in Name : slot'[m] = None => log'[P(m)] = unmarked /\ listed(m)' = {}
      BY <1>3, <1>8, <2>1, Zenon DEF Marked
    <2> QED
      BY <1>6, <2>1, <2>2, Zenon DEF Marked
  <1>11. InHand'
    BY <1>4, <1>5, <1>6, ZenonT(30) DEF InHand
  <1>12. Staged' /\ Fresh'
    BY <1>4, Zenon DEF Staged, Fresh
  <1>13. Kept'
    <2> SUFFICES ASSUME NEW m \in Name, NEW x \in HKey, ~pend(m, x), m = n => w.failed[x] = "none"
                 PROVE  has(m, x)' = want(m, x)
      BY <1>4, <1>5, <1>6, ZenonT(60) DEF Kept
    <2>1. CASE m # n
      <3>1. has(m, x)' = has(m, x)
        BY <1>7, <1>8, <2>1, Zenon DEF has
      <3> QED
        BY <1>5, <2>1, <3>1, Zenon DEF Kept
    <2>2. CASE m = n /\ w.copy[x] = "none"
      <3>1. has(n, x) = want(n, x) /\ x \notin w.set
        BY <1>2, <1>5, <2>2, Zenon DEF Kept, Staged
      <3>2. has(n, x)' = has(n, x)
        BY <1>7, <1>8, <1>a, <3>1, Zenon DEF has
      <3> QED
        BY <2>2, <3>1, <3>2, Zenon
    <2>3. CASE m = n /\ w.copy[x] # "none"
      <3>1. x \in w.set /\ w.batch[x] = want(n, x)
        BY <1>2, <1>5, <2>3, Zenon DEF Staged
      <3>2. disk'[n][x] = w.batch[x] /\ (x \in listed(n)' <=> w.batch[x] # None)
        BY <1>7, <1>8, <1>a, <3>1, Zenon
      <3> QED
        BY <2>3, <3>1, <3>2, Zenon DEF has
    <2> QED
      BY <2>1, <2>2, <2>3, Zenon
  <1>14. LastRound'
    <2>1. up' = up /\ runs' = runs /\ allIdle' = allIdle /\ clean' = clean /\ hasWorker' = hasWorker /\ proc' = proc
      BY <1>1, WorkerKeeps, Zenon DEF up, runs, allIdle
    <2>2. \A m \in Name : noMarks(m)' <=> noMarks(m)
      BY <1>2, Zenon DEF noMarks
    <2> QED
      BY <1>2, <1>4, <2>1, <2>2, Zenon DEF LastRound
  <1> QED
    BY <1>1, <1>9, <1>10, <1>11, <1>12, <1>13, <1>14, WorkerKeeps, Zenon

\* What failed is marked again, unless it was marked meanwhile.
LEMMA ReaddSteady ==
  ASSUME SInv, steady, Steady, Readd
  PROVE  Steady'
  <1> USE DEF Steady, Data
  <1>1. WorkerStep
    BY Zenon DEF WorkerStep
  <1>2. PICK n \in Name : w.name = n /\ slot[n] = "primary" /\ logOf(w.name) = P(n) /\ P(n) \in D
    BY Primary, Zenon DEF Readd, SInv, Sound, inRound, Shape, logOf, P
  <1>3. /\ w.step = "readd" /\ keys' = keys /\ disk' = disk /\ fails' = fails /\ w \in WorkerState
        /\ log' = [log EXCEPT ![P(n)] = [h \in HKey |-> IF @[h] = "none" THEN w.failed[h] ELSE @[h]]]
        /\ w' = [Worker("next") EXCEPT !.left = w.left, !.last = w.last]
    BY <1>2, Zenon DEF Readd, SInv, TypeOK
  <1>4. w'.step = "next" /\ w'.left = w.left /\ w'.last = w.last /\ w'.set = {} /\ w'.sent = {} /\ w'.failed = unmarked /\ w'.err = "no"
    BY <1>3, Zenon DEF Worker
  <1>5. /\ \A m \in Name : m # n => log'[P(m)] = log[P(m)]
        /\ \A h \in HKey : log'[P(n)][h] = IF log[P(n)][h] = "none" THEN w.failed[h] ELSE log[P(n)][h]
    <2>1. log \in [D -> [HKey -> Marks]]
      BY Zenon DEF SInv, TypeOK
    <2> QED
      BY <1>2, <1>3, <2>1, Primary
  <1>6. \A m \in Name : (working(m) <=> m = n) /\ ~working(m)'
    BY <1>2, <1>3, <1>4, Zenon DEF working, inRound
  <1>7. Marked'
    <2>1. ASSUME NEW m \in Name, NEW h \in HKey, ~logs(m, h) PROVE Agrees(log'[P(m)][h], want(m, h))
      <3>1. CASE m # n \/ log[P(m)][h] # "none"
        BY <1>5, <2>1, <3>1, Zenon DEF Marked
      <3>2. CASE m = n /\ log[P(m)][h] = "none"
        <4>1. ~pend(n, h) /\ log'[P(n)][h] = w.failed[h]
          BY <1>5, <2>1, <3>2, Zenon DEF pend
        <4>2. Agrees(w.copy[h], want(n, h)) /\ w.failed[h] \in {"none", w.copy[h]}
          BY <1>6, <4>1, Zenon DEF InHand
        <4> QED
          BY <3>2, <4>1, <4>2, Zenon DEF Agrees
      <3> QED
        BY <3>1, <3>2, Zenon
    <2>2. \A m \in Name : slot[m] = None => log'[P(m)] = unmarked /\ listed(m)' = {}
      BY <1>2, <1>3, <1>5, Primary, BadgerKept DEF Marked
    <2> QED
      BY <1>1, <2>1, <2>2, WorkerKeeps, Zenon DEF Marked
  <1>8. InHand' /\ Staged' /\ Fresh'
    BY <1>4, <1>6, Zenon DEF InHand, Staged, Fresh
  <1>9. Kept'
    <2>a. \A m \in Name, h \in HKey : has(m, h)' = has(m, h) /\ want(m, h)' = want(m, h)
      BY <1>1, <1>3, WorkerKeeps, BadgerKept, Zenon
    <2> SUFFICES ASSUME NEW m \in Name, NEW h \in HKey, ~pend(m, h)'
                 PROVE  has(m, h)' = want(m, h)'
      BY Zenon DEF Kept
    <2>1. log'[P(m)][h] = "none" /\ ~logs(m, h)
      BY <1>1, WorkerKeeps, Zenon DEF pend
    <2>2. ~pend(m, h) /\ (m = n => w.failed[h] = "none")
      BY <1>5, <2>1, Zenon DEF pend
    <2>3. has(m, h) = want(m, h)
      BY <1>3, <1>6, <2>2, Zenon DEF Kept
    <2> QED
      BY <2>a, <2>3, Zenon
  <1>10. Lists'
    BY <1>3, BadgerKept, Zenon
  <1>11. LastRound'
    <2>1. up' = up /\ runs' = runs /\ allIdle' = allIdle /\ clean' = clean /\ hasWorker' = hasWorker /\ proc' = proc
      BY <1>1, WorkerKeeps, Zenon DEF up, runs, allIdle
    <2>2. fails = 0 => \A m \in Name : noMarks(m) => noMarks(m)'
      <3> SUFFICES ASSUME fails = 0, NEW m \in Name, log[P(m)] = unmarked PROVE log'[P(m)] = unmarked
        BY Zenon DEF noMarks
      <3>1. w.failed = unmarked
        BY Zenon DEF LastRound
      <3>2. log' \in [D -> [HKey -> Marks]] /\ P(m) \in D
        BY <1>1, Primary, WorkerSInv, Zenon DEF SInv, TypeOK
      <3>3. \A h \in HKey : log'[P(m)][h] = "none"
        BY <1>5, <3>1, ZenonT(30) DEF unmarked
      <3> QED
        BY <3>2, <3>3, Zenon DEF unmarked
    <2> QED
      BY <1>3, <1>4, <2>1, <2>2, Zenon DEF LastRound
  <1> QED
    BY <1>1, <1>7, <1>8, <1>9, <1>10, <1>11, WorkerKeeps, Zenon

\* The worker waits again, or ends after the last round.
LEMMA SyncEndSteady ==
  ASSUME SInv, steady, Steady, SyncEnd
  PROVE  Steady'
  <1> USE DEF Steady, Data
  <1>1. WorkerStep
    BY Zenon DEF WorkerStep
  <1>2. /\ w.step = "next" /\ w.left = {} /\ w' = Worker(IF w.last THEN "none" ELSE "wait")
        /\ log' = log /\ keys' = keys /\ disk' = disk /\ fails' = fails
    BY Zenon DEF SyncEnd
  <1>3. /\ w'.step = (IF w.last THEN "none" ELSE "wait") /\ w'.left = {} /\ ~w'.last /\ w'.set = {} /\ w'.sent = {} /\ w'.failed = unmarked
        /\ w'.err = "no"
    BY <1>2, Zenon DEF Worker
  <1>4. \A m \in Name : ~working(m) /\ ~working(m)'
    BY <1>2, <1>3, Zenon DEF working, inRound
  <1>5. \A m \in Name, x \in HKey : (pend(m, x)' <=> pend(m, x)) /\ want(m, x)' = want(m, x)
    BY <1>1, <1>2, WorkerKeeps, Zenon DEF pend
  <1>6. Marked' /\ Lists'
    BY <1>1, <1>2, WorkerKeeps, BadgerKept, Zenon DEF Marked
  <1>7. InHand' /\ Staged' /\ Fresh'
    BY <1>3, <1>4, Zenon DEF InHand, Staged, Fresh
  <1>8. Kept'
    BY <1>2, <1>4, <1>5, BadgerKept, Zenon DEF Kept
  <1>9. LastRound'
    <2>1. up' = up /\ runs' = runs /\ allIdle' = allIdle /\ clean' = clean /\ hasWorker' = hasWorker /\ proc' = proc
      BY <1>1, WorkerKeeps, Zenon DEF up, runs, allIdle
    <2>2. \A m \in Name : noMarks(m)' <=> noMarks(m)
      BY <1>2, Zenon DEF noMarks
    <2>3. runs
      BY <1>1, WorkerKeeps, Zenon
    <2> QED
      BY <1>2, <1>3, <2>1, <2>2, <2>3, Zenon DEF LastRound
  <1> QED
    BY <1>1, <1>6, <1>7, <1>8, <1>9, WorkerKeeps, Zenon

\* Shutdown waits for the callers, and the end of it for the worker.
LEMMA StopSteady ==
  ASSUME SInv, steady, Steady, Shutdown \/ ShutdownEnd \/ Crash \/ StartFails
  PROVE  Steady'
  <1> USE DEF Steady, Data
  <1>1. /\ UNCHANGED <<setup, inMap, closed, str, log, slot, hasWorker, cancelled, w, user, dr, reg, keys, disk,
                       panic, ops, fails>>
        /\ proc' # "up"
    BY Zenon DEF Shutdown, ShutdownEnd, Crash, StartFails, mem, snap, db, rest
  <1>2. \A n \in Name, h \in HKey : (logs(n, h)' <=> logs(n, h)) /\ (pend(n, h)' <=> pend(n, h)) /\ want(n, h)' = want(n, h)
    BY <1>1, Zenon DEF pend, logs, cuts, want, at
  <1>3. \A n \in Name : (working(n)' <=> working(n)) /\ (noMarks(n)' <=> noMarks(n))
    BY <1>1, Zenon DEF working, inRound, noMarks
  <1>8. \A n \in Name : listed(n)' = listed(n) /\ \A h \in HKey : has(n, h)' = has(n, h) /\ torn(n, h)' = torn(n, h)
    BY <1>1, Zenon DEF listed, has, torn
  <1>4. Shape' /\ Locked'
    BY <1>1, Zenon DEF Shape, Locked
  <1>5. Marked' /\ InHand' /\ Fresh' /\ Kept' /\ Lists'
    <2>1. Marked'
      BY <1>1, <1>2, <1>8, Zenon DEF Marked
    <2>2. InHand'
      BY <1>1, <1>2, <1>3, Zenon DEF InHand
    <2>3. Fresh'
      BY <1>1, Zenon DEF Fresh
    <2>4. Kept'
      BY <1>1, <1>2, <1>3, <1>8, Zenon DEF Kept
    <2>5. Lists'
      BY <1>1, <1>8, Zenon DEF Lists
    <2> QED
      BY <2>1, <2>2, <2>3, <2>4, <2>5, Zenon
  <1>6. Staged'
    BY <1>1, <1>2, <1>3, <1>8, Zenon DEF Staged
  <1>7. LastRound'
    <2>1. ~up' /\ (allIdle' <=> allIdle)
      BY <1>1, Zenon DEF up, allIdle
    <2>2. proc' = "stopping" => allIdle
      BY Zenon DEF Shutdown, ShutdownEnd, Crash, StartFails, allIdle
    <2>3. ~runs' /\ clean' => w.step = "none"
      BY Zenon DEF Shutdown, ShutdownEnd, Crash, StartFails, runs, rest, LastRound
    <2> QED
      BY <1>1, <1>3, <2>1, <2>2, <2>3, Zenon DEF LastRound
  <1> QED
    BY <1>4, <1>5, <1>6, <1>7, Zenon

\* Start loads exactly what Badger has.
LEMMA RestartSteady ==
  ASSUME SInv, steady, Steady, Restart
  PROVE  Steady'
  <1> USE DEF Steady, Data
  <1>1. UNCHANGED <<setup, reg, keys, disk, clean, panic, stops, ops, fails>>
        /\ dr' = NoDrop /\ user' = [u \in User |-> Idle] /\ proc' = "up" /\ cancelled' = FALSE
    BY Zenon DEF Restart, db, rest
  <1>2. \A u \in User : user'[u] = Idle
    BY <1>1, Zenon
  <1>3. \A n \in Name : slot'[n] = slot[n]
    <2>1. \A k \in DKey, n \in Name : n \in reg[k] <=> k = "primary" /\ slot[n] = "primary"
      BY Primary DEF Shape
    <2>2. \A n \in Name : slot[n] \in {"primary", None}
      BY Zenon DEF Shape
    <2> QED
      BY <2>1, <2>2, Primary, Zenon DEF Restart
  <1>4. /\ \A d \in D : ~closed'[d] /\ (inMap'[d] <=> d[2] \in reg[d[1]]) /\ log'[d] = unmarked
        /\ hasWorker' <=> \E k \in DKey : reg[k] # {}
        /\ w' = Worker(IF hasWorker' THEN "wait" ELSE "none")
    BY Zenon DEF Restart
  <1>5. w'.step = (IF hasWorker' THEN "wait" ELSE "none") /\ ~w'.last /\ w'.set = {} /\ w'.sent = {} /\ w'.failed = unmarked
        /\ w'.err = "no"
    BY <1>4, Zenon DEF Worker
  <1>6. ASSUME NEW n \in Name, NEW h \in HKey
        PROVE  /\ str'[P(n)][h] = has(n, h)
               /\ h \in listed(n) => disk[n][h] # None
    <2>1. str'[P(n)][h] = IF n \in reg["primary"] /\ h \in keys[n] THEN disk[n][h] ELSE None
      BY Primary, ZenonT(30) DEF Restart
    <2>2. CASE n \in reg["primary"]
      <3>1. loads(n)
        BY <2>2, Primary, Zenon DEF Restart
      <3> QED
        BY <2>1, <2>2, <3>1, Zenon DEF loads, listed, has
    <2>3. CASE n \notin reg["primary"]
      <3>1. slot[n] = None
        BY <2>3, Primary, Zenon DEF Shape
      <3>2. listed(n) = {}
        BY <3>1, Zenon DEF Marked
      <3> QED
        BY <2>1, <2>3, <3>2 DEF has
    <2> QED
      BY <2>2, <2>3, Zenon
  <1>a. \A n \in Name : listed(n)' = listed(n) /\ \A h \in HKey : has(n, h)' = has(n, h)
    BY <1>1, Zenon DEF listed, has
  <1>7. \A n \in Name, h \in HKey : ~logs(n, h)' /\ log'[P(n)][h] = "none" /\ want(n, h)' = has(n, h)'
    BY <1>1, <1>2, <1>4, <1>6, <1>a, Primary, SMTT(30) DEF logs, cuts, want, at, Idle, unmarked
  <1>8. Shape'
    <2>1. \A d \in D : ~closed'[d] /\ (inMap'[d] <=> d[1] = "primary" /\ slot'[d[2]] # None)
      <3> SUFFICES ASSUME NEW d \in D PROVE inMap'[d] <=> d[1] = "primary" /\ slot'[d[2]] # None
        BY <1>4, Zenon
      <3>1. d[1] \in DKey /\ d[2] \in Name
        BY Zenon DEF D
      <3> QED
        BY <1>3, <1>4, <3>1, Primary DEF Shape
    <2>2. \A n \in Name : slot'[n] \in {"primary", None}
      BY <1>3, Zenon DEF Shape
    <2>3. \A k \in DKey, n \in Name : n \in reg'[k] <=> slot'[n] = k
      BY <1>1, <1>3, Zenon DEF Shape
    <2>4. hasWorker' <=> \E n \in Name : slot'[n] # None
      <3>1. \A k \in DKey : reg[k] \subseteq Name
        BY Zenon DEF SInv, TypeOK
      <3>2. \A k \in DKey, n \in Name : n \in reg[k] <=> slot[n] = k
        BY Zenon DEF Shape
      <3>3. \A n \in Name : slot[n] # None => slot[n] \in DKey
        BY Zenon DEF SInv, TypeOK
      <3>4. (\E k \in DKey : reg[k] # {}) <=> \E n \in Name : slot[n] # None
        BY <3>1, <3>2, <3>3, Primary, SMTT(30)
      <3> QED
        BY <1>3, <1>4, <3>4, Zenon
    <2> QED
      BY <1>1, <1>5, <2>1, <2>2, <2>3, <2>4, ZenonT(40) DEF Shape
  <1>9. Locked'
    BY <1>2 DEF Locked, Idle
  <1>10. Marked'
    <2>1. "none" # "put" /\ "none" # "del"
      OBVIOUS
    <2>2. \A n \in Name, h \in HKey : ~logs(n, h)' => Agrees(log'[P(n)][h], want(n, h)')
      BY <1>7, <2>1, Zenon DEF Agrees
    <2>3. \A n \in Name : slot'[n] = None => log'[P(n)] = unmarked /\ listed(n)' = {}
      <3>1. \A n \in Name : slot'[n] = None => slot[n] = None
        BY <1>3, Zenon
      <3>2. \A n \in Name : log'[P(n)] = unmarked
        BY <1>4, Primary, Zenon
      <3> QED
        BY <1>a, <3>1, <3>2, Zenon DEF Marked
    <2> QED
      BY <2>2, <2>3, Zenon DEF Marked
  <1>11. InHand' /\ Staged' /\ Fresh'
    BY <1>5, Zenon DEF InHand, Staged, Fresh, working, inRound
  <1>12. Kept' /\ Lists'
    BY <1>1, <1>6, <1>7, <1>a, Zenon DEF Kept, Lists
  <1>13. LastRound'
    BY <1>1, <1>5, Zenon DEF LastRound, up, runs
  <1> QED
    BY <1>8, <1>9, <1>10, <1>11, <1>12, <1>13, Zenon

\* Every step keeps the steady case steady.
LEMMA NextSteady == SInv /\ (steady => Steady) /\ [Next]_vars => (steady => Steady)'
  <1> SUFFICES ASSUME SInv, steady => Steady, [Next]_vars, steady' PROVE Steady'
    OBVIOUS
  <1>1. setup' = setup
    <2>1. CASE DropStep \/ Shutdown \/ ShutdownEnd \/ Crash \/ StartFails \/ Restart
      BY <2>1, Zenon DEF DropStep, DestroyView, DestroyWipe, Unregister, Shutdown, ShutdownEnd, Crash, StartFails, Restart
    <2>2. CASE WorkerStep \/ \E u \in User : UserStep(u)
      BY <2>2, Zenon DEF WorkerStep, workerOnly, SyncStart, WorkerStops, ReadKeys, SetKeys, Flush, Readd, SyncEnd, Take, Stage,
                  UserStep, LogOp, StrOp
    <2>3. ASSUME NEW d \in setup.dkeys \X Name,
                 \/ Create(d)
                 \/ \E u \in User, h \in setup.hkeys : \/ \E v \in Val : PutStr(u, d, h, v)
                                                      \/ DeleteStr(u, d, h)
                                                      \/ DeleteLog(u, d, h)
                 \/ setup.merges /\ \E h \in setup.hkeys, v \in Val : MergePut(d, h, v)
                 \/ \E kind \in setup.drops : DropStart(kind, d)
          PROVE  setup' = setup
      BY <2>3, Zenon DEF Create, PutStr, DeleteStr, DeleteLog, MergePut, DropStart
    <2> QED
      BY <2>1, <2>2, <2>3, Zenon DEF Next, vars
  <1>2. steady /\ Steady
    BY <1>1, Zenon DEF steady
  <1>3. CASE UNCHANGED vars
    <2>1. UNCHANGED <<setup, proc, inMap, closed, str, log, slot, hasWorker, cancelled, w, user, dr, reg, keys, disk,
                      clean, panic, stops, ops, fails>>
      BY <1>3, Zenon DEF vars, mem, snap, db, rest
    <2>2. Shape'
      BY <1>2, <2>1, Zenon DEF Steady, Shape
    <2>3. Locked'
      BY <1>2, <2>1, Zenon DEF Steady, Locked
    <2>4. LastRound'
      BY <1>2, <2>1, Zenon DEF Steady, LastRound, up, runs, allIdle, noMarks
    <2>5. \A n \in Name, h \in HKey : (logs(n, h)' <=> logs(n, h)) /\ want(n, h)' = want(n, h)
      BY <2>1, Zenon DEF logs, cuts, want, at
    <2>6. Data'
      BY <1>2, <2>1, <2>5, OperationData, Zenon
    <2> QED
      BY <2>2, <2>3, <2>4, <2>6, Zenon DEF Steady
  <1>4. ASSUME NEW d \in setup.dkeys \X Name,
               \/ Create(d)
               \/ \E u \in User, h \in setup.hkeys : \/ \E v \in Val : PutStr(u, d, h, v)
                                                    \/ DeleteStr(u, d, h)
                                                    \/ DeleteLog(u, d, h)
        PROVE  Steady'
    BY <1>2, <1>4, CreateSteady, StorageFirst, LogFirst, Zenon
  <1>5. setup.drops = {} /\ ~setup.merges
    BY <1>2, Primary, Zenon
  <1>6. CASE WorkerStep
    <2>1. ~WorkerStops
      BY <1>2, Zenon DEF WorkerStops, Steady, Shape
    <2> QED
      BY <1>2, <1>6, <2>1, SyncStartSteady, TakeSteady, ReadKeysSteady, StageSteady, SetKeysSteady, FlushSteady, ReaddSteady,
         SyncEndSteady, Zenon DEF WorkerStep
  <1>7. CASE \E u \in User : UserStep(u)
    BY <1>2, <1>7, OperationEnds, Zenon
  <1>8. CASE DropStep
    BY <1>2, <1>8, Zenon DEF DropStep, DestroyView, DestroyWipe, Unregister, Steady, Shape, NoDrop
  <1>9. CASE Shutdown \/ ShutdownEnd \/ Crash \/ StartFails \/ Restart
    BY <1>2, <1>9, StopSteady, RestartSteady, Zenon
  <1> QED
    BY <1>3, <1>4, <1>5, <1>6, <1>7, <1>8, <1>9, Zenon DEF Next

\* The invariant of the two parts.
LEMMA SteadyInvariant == Spec => [](SInv /\ (steady => Steady))
  <1>1. Init => SInv /\ (steady => Steady)
    BY InitSInv, InitSteady, Zenon
  <1>2. SInv /\ (steady => Steady) /\ [Next]_vars => (SInv /\ (steady => Steady))'
    BY NextSInv, NextSteady, Zenon
  <1> QED
    BY <1>1, <1>2, PTL DEF Spec

\* snapshot.go, syncDMap: as long as no dmap is dropped, a key that differs from its
\* value in Badger is marked in the log, or an operation or the worker has it in hand,
\* however the puts, the deletes, the failing writes, crashes and restarts interleave.
THEOREM NoUpdateForgotten == Spec => []NothingForgotten
  <1>1. SInv /\ (steady => Steady) => NothingForgotten
    <2> SUFFICES ASSUME SInv, steady, Steady, NEW d \in D, NEW h \in HKey,
                        inMap[d], log[d][h] = "none", ~inWork(d, h),
                        \A u \in User : ~(user[u].d = d /\ user[u].h = h)
                 PROVE  saved(d, h)
      BY ZenonT(40) DEF NothingForgotten
    <2>1. PICK n \in Name : d = P(n) /\ d[2] = n /\ slot[n] = "primary"
      BY Primary DEF Steady, Shape
    <2>2. ~pend(n, h) /\ want(n, h) = str[d][h]
      BY <2>1, Zenon DEF pend, logs, cuts, want, at
    <2>3. working(n) => IF w.step = "readd" THEN w.failed[h] = "none" ELSE w.copy[h] = "none"
      <3> SUFFICES ASSUME working(n) PROVE IF w.step = "readd" THEN w.failed[h] = "none" ELSE w.copy[h] = "none"
        OBVIOUS
      <3>1. w.step \in {"read", "stage", "flush", "readd"} /\ logOf(w.name) = d
        BY <2>1, Zenon DEF working, inRound, logOf, P
      <3> QED
        BY <3>1, Zenon DEF inWork
    <2>4. has(n, h) = str[d][h]
      BY <2>2, <2>3, Zenon DEF Steady, Data, Kept
    <2>5. ~torn(n, h)
      BY <2>3, Zenon DEF torn, working, inRound
    <2> QED
      BY <2>1, <2>4, <2>5, Zenon DEF saved, has, Steady, Data, Lists
  <1> QED
    BY <1>1, SteadyInvariant, PTL

\* loader.go, Loader.Next: as long as no dmap is dropped, each key in the list of a
\* registered name has a value whenever the process ends, so that Start finds it.  The
\* one exception is a key whose delete was committed in an early transaction of the
\* batch a crash has cut off.
THEOREM LoaderFindsValues == Spec => []ListHasValues
  <1>1. SInv /\ (steady => Steady) => ListHasValues
    <2> SUFFICES ASSUME SInv, steady, Steady, proc = "down", NEW k \in DKey, NEW n \in reg[k], NEW h \in listed(n)
                 PROVE  disk[n][h] # None \/ (torn(n, h) /\ ~clean)
      BY Zenon DEF ListHasValues
    <2>1. n \in Name /\ listed(n) \subseteq HKey
      BY Zenon DEF SInv, TypeOK, listed
    <2>2. torn(n, h) => ~clean
      BY Zenon DEF torn, Steady, LastRound, runs
    <2> QED
      BY <2>1, <2>2, Zenon DEF Steady, Data, Lists
  <1> QED
    BY <1>1, SteadyInvariant, PTL

\* snapshot.go, Shutdown: as long as no dmap is dropped and no write failed, Badger has
\* what the dmaps had when Shutdown returns.
THEOREM ShutdownIsDurable == Spec => []ShutdownSaves
  <1>1. SInv /\ (steady => Steady) => ShutdownSaves
    <2> SUFFICES ASSUME SInv, steady, Steady, proc = "down", clean, fails = 0,
                        NEW d \in D, NEW h \in HKey, inMap[d]
                 PROVE  saved(d, h)
      BY Zenon DEF ShutdownSaves, Durable
    <2>1. PICK n \in Name : d = P(n) /\ d[2] = n /\ slot[n] # None
      <3>1. d[1] = "primary" /\ slot[d[2]] # None
        BY Zenon DEF Steady, Shape
      <3> QED
        BY <3>1, Primary, Zenon
    <2>2. w.step = "none" /\ hasWorker
      BY <2>1, Zenon DEF Steady, Shape, LastRound, runs
    <2>3. allIdle /\ log[d] = unmarked
      BY <2>1, <2>2, ZenonT(40) DEF Steady, LastRound, noMarks
    <2>4. ~pend(n, h) /\ want(n, h) = str[d][h] /\ ~working(n)
      BY <2>1, <2>2, <2>3 DEF pend, logs, cuts, want, at, working, inRound, allIdle, Idle, unmarked
    <2> QED
      BY <2>1, <2>2, <2>4 DEF saved, has, torn, Steady, Data, Kept, Lists
  <1> QED
    BY <1>1, SteadyInvariant, PTL
=============================================================================
