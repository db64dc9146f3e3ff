------------------------------- MODULE Storage -------------------------------
(***************************************************************************)
(* internal/storage: the off-heap store behind every DMap.  A Storage is a *)
(* sequence of append-only tables.  Writes go to the last table; when it   *)
(* is full a larger one is appended and a goroutine moves the entries of   *)
(* the older tables into it, a chunk at a time.                            *)
(*                                                                         *)
(* Every exported method runs under s.mu, so a method is one action unless *)
(* it loops or waits while it holds s.mu; then mu says who has it.  An     *)
(* entry is abstracted to its value; its size in bytes is kept, because    *)
(* the sizes decide when tables grow and when garbage is collected.        *)
(***************************************************************************)
EXTENDS Integers, Sequences

CONSTANTS HKey,         \* hashed keys
          Val,          \* entries: key, TTL and value of a VData
          NoVal,        \* no entry
          Size,         \* bytes of an entry: len(Key) + len(Value) + 13
          minimumSize,  \* smallest table, 1 << 20 in the code
          chunkLimit,   \* entries a merge moves before it pauses, 1000 in the code
          MaxTables,    \* tables for which there is memory: mmap fails at this number
          MaxOps        \* bound: number of puts and deletes

ASSUME SizeType   == Size \in [Val -> Nat \ {0}]
ASSUME NoValFresh == NoVal \notin Val
ASSUME SizesNat   == minimumSize \in Nat \ {0} /\ chunkLimit \in Nat
                     /\ MaxTables \in Nat /\ MaxOps \in Nat

VARIABLES tables,     \* s.tables
          mu,         \* s.mu: free, or the method that keeps it over several steps
          pend,       \* the arguments of the put that is looping
          merging,    \* s.merging
          merge,      \* the goroutine that runs mergeTables
          total,      \* chunkedMergeTables: entries moved in this chunk
          leaving,    \* merge goroutines between merging := 0 and wg.Done()
          cancelled,  \* s.ctx is done
          view,       \* the table a VData returned by Get points into: its index,
                      \* 0 when no VData is in use, -1 when it was unmapped
          loading,    \* only the snapshot loader has the store so far
          kv,         \* what the callers have put and not deleted
          ops         \* number of puts and deletes so far

vars == <<tables, mu, pend, merging, merge, total, leaving, cancelled, view, loading, kv, ops>>

-----------------------------------------------------------------------------
(* table.go *)

Entry == Val \cup {NoVal}

Table == [hkeys : [HKey -> Entry], offset : Int, allocated : Int, inuse : Int, garbage : Int]

newTable(size) == [hkeys     |-> [h \in HKey |-> NoVal],
                   offset    |-> 0,
                   allocated |-> IF size < minimumSize THEN minimumSize ELSE size,
                   inuse     |-> 0,
                   garbage   |-> 0]

\* The negation of errNotEnoughSpace.
hasSpace(t, n) == n + t.offset < t.allocated

\* A deleted entry stays in memory as garbage.
delete(t, h) ==
  IF t.hkeys[h] = NoVal THEN t
  ELSE [t EXCEPT !.hkeys[h] = NoVal,
                 !.garbage = @ + Size[t.hkeys[h]],
                 !.inuse = @ - Size[t.hkeys[h]]]

put(t, h, v) ==
  LET d == delete(t, h)
  IN  [d EXCEPT !.hkeys[h] = v, !.inuse = @ + Size[v], !.offset = @ + Size[v]]

\* getRaw returns one byte more than the entry has.
rawSize(v) == Size[v] + 1

\* Mutant: the offset advances by the size of the entry, not of the raw value.
putRawShort(t, h, v) ==
  [t EXCEPT !.hkeys[h] = v, !.inuse = @ + rawSize(v), !.offset = @ + Size[v]]

\* putRaw does not delete the entry it replaces.
putRaw(t, h, v) ==
  [t EXCEPT !.hkeys[h] = v, !.inuse = @ + rawSize(v), !.offset = @ + rawSize(v)]

-----------------------------------------------------------------------------
(* storage.go: what the read-only methods return. *)

N == Len(tables)

Holding(h) == {i \in 1 .. N : tables[i].hkeys[h] # NoVal}

Check(h) == Holding(h) # {}

\* The tables are scanned from the last one.
IsNewest(i, h) == i \in Holding(h) /\ \A j \in Holding(h) : j <= i

\* Get and GetRaw; NoVal stands for ErrKeyNotFound.
Lookup(h) == IF Check(h) THEN tables[CHOOSE i \in Holding(h) : IsNewest(i, h)].hkeys[h] ELSE NoVal

\* Export returns ErrFragmented.
Fragmented == N # 1

-----------------------------------------------------------------------------
Init == /\ tables = <<newTable(0)>>
        /\ mu = "free"
        /\ pend = <<>>
        /\ merging = 0
        /\ merge = "none"
        /\ total = 0
        /\ leaving = 0
        /\ cancelled = FALSE
        /\ view = 0
        /\ loading = TRUE
        /\ kv = [h \in HKey |-> NoVal]
        /\ ops = 0

wg == leaving + (IF merge = "none" THEN 0 ELSE 1)

\* mmap succeeds.
mmapOK == N < MaxTables

\* A caller enters a method that changes the store.
called == /\ mu = "free" /\ ~cancelled
          /\ ops < MaxOps
          /\ ops' = ops + 1

\* Start mergeTables unless it runs.
spawn == /\ merging' = 1
         /\ merge' = IF merging = 0 THEN "start" ELSE merge

-----------------------------------------------------------------------------
(* Put and PutRaw.  PutRaw is what the snapshot loader fills a new Storage *)
(* with, each key once and before anybody else can reach it.               *)

bytes(v, raw) == IF raw THEN rawSize(v) ELSE Size[v]

putLast(h, v, raw) == IF raw THEN putRaw(tables[N], h, v) ELSE put(tables[N], h, v)

mayPut(h, raw) == raw => loading /\ kv[h] = NoVal

\* The last table has room.
Put(h, v, raw) ==
  /\ called /\ mayPut(h, raw)
  /\ hasSpace(tables[N], bytes(v, raw))
  /\ tables' = [tables EXCEPT ![N] = putLast(h, v, raw)]
  /\ kv' = [kv EXCEPT ![h] = v]
  /\ loading' = raw
  /\ UNCHANGED <<mu, pend, merging, merge, total, leaving, cancelled, view>>

\* Mutant: the new table is smaller than the least size.
growTooSmall == Append(tables, [newTable(0) EXCEPT !.allocated = 2 * tables[N].inuse])

grow == Append(tables, newTable(2 * tables[N].inuse))

\* It has none: append a table, start the merge, and go round the loop.
PutGrow(h, v, raw) ==
  /\ called /\ mayPut(h, raw)
  /\ ~hasSpace(tables[N], bytes(v, raw))
  /\ mmapOK
  /\ tables' = grow
  /\ spawn
  /\ mu' = "put"
  /\ pend' = <<h, v, raw>>
  /\ loading' = raw
  /\ UNCHANGED <<total, leaving, cancelled, view, kv>>

\* The next iteration puts the entry into the new table.
PutRetry ==
  LET h == pend[1]  v == pend[2]  raw == pend[3]
  IN  /\ mu = "put"
      /\ hasSpace(tables[N], bytes(v, raw))
      /\ tables' = [tables EXCEPT ![N] = putLast(h, v, raw)]
      /\ kv' = [kv EXCEPT ![h] = v]
      /\ mu' = "free"
      /\ pend' = <<>>
      /\ UNCHANGED <<merging, merge, total, leaving, cancelled, view, loading, ops>>

\* Or the new table is too small as well, and another one is appended.
PutGrowAgain ==
  /\ mu = "put"
  /\ ~hasSpace(tables[N], bytes(pend[2], pend[3]))
  /\ mmapOK
  /\ tables' = grow
  /\ spawn
  /\ UNCHANGED <<mu, pend, total, leaving, cancelled, view, loading, kv, ops>>

\* Or there is no memory left, and Put returns the error of mmap.
PutFails ==
  /\ mu = "put"
  /\ ~hasSpace(tables[N], bytes(pend[2], pend[3]))
  /\ ~mmapOK
  /\ mu' = "free"
  /\ pend' = <<>>
  /\ UNCHANGED <<tables, merging, merge, total, leaving, cancelled, view, loading, kv, ops>>

-----------------------------------------------------------------------------
(* Delete. *)

\* float64(t.allocated) * 0.40 <= float64(t.garbage)
TooMuchGarbage(t) == 2 * t.allocated <= 5 * t.garbage

\* A single table with too much garbage is merged into a new one.
compacts(ts) == /\ Len(ts) = 1
                /\ TooMuchGarbage(ts[1])
                /\ merging = 0
                /\ mmapOK

compactSize(t) == IF 2 * t.inuse > t.allocated THEN t.allocated ELSE 2 * t.inuse

\* The entry goes from the newest table that has it (none when i = 0), and
\* from no other.
Delete(h) ==
  /\ called
  /\ kv' = [kv EXCEPT ![h] = NoVal]
  /\ loading' = FALSE
  /\ \E i \in 0 .. N :
       LET ts == IF i = 0 THEN tables ELSE [tables EXCEPT ![i] = delete(@, h)]
       IN  /\ IF i = 0 THEN ~Check(h) ELSE IsNewest(i, h)
           /\ \/ /\ compacts(ts)
                 /\ tables' = Append(ts, newTable(compactSize(ts[1])))
                 /\ spawn
              \/ /\ ~compacts(ts)
                 /\ tables' = ts
                 /\ UNCHANGED <<merging, merge>>
  /\ UNCHANGED <<mu, pend, total, leaving, cancelled, view>>

-----------------------------------------------------------------------------
(* Get returns a VData whose Value is a slice of the memory of the table.   *)
(* The caller decodes it, or writes it to a connection, without s.mu.       *)

Get(h) ==
  /\ mu = "free" /\ ~cancelled
  /\ view = 0
  /\ \E i \in 1 .. N : IsNewest(i, h) /\ view' = i
  /\ loading' = FALSE
  /\ UNCHANGED <<tables, mu, pend, merging, merge, total, leaving, cancelled, kv, ops>>

Forget ==
  /\ view > 0
  /\ view' = 0
  /\ UNCHANGED <<tables, mu, pend, merging, merge, total, leaving, cancelled, loading, kv, ops>>

-----------------------------------------------------------------------------
(* merge.go: chunkedMergeTables, one action per entry it moves. *)

mergeIdle == UNCHANGED <<pend, merging, leaving, cancelled, loading, kv, ops>>

\* Take s.mu; with one table there is nothing to do.
MergeBegin ==
  /\ merge = "start" /\ mu = "free"
  /\ \/ N = 1 /\ merge' = "exit" /\ UNCHANGED <<mu, total>>
     \/ N > 1 /\ mu' = "merge" /\ total' = 0 /\ UNCHANGED merge
  /\ UNCHANGED <<tables, view>> /\ mergeIdle

\* The loop is at entry h of table i, the first of the older tables that still
\* has entries; Go ranges over a map in any order.
oldEntry(i, h) == /\ mu = "merge"
                  /\ tables[i].hkeys[h] # NoVal
                  /\ \A j \in 1 .. i - 1 : \A g \in HKey : tables[j].hkeys[g] = NoVal

room(i, h) == hasSpace(tables[N], rawSize(tables[i].hkeys[h]))

\* return false: release s.mu and wait for the ticker.
pause == mu' = "free" /\ merge' = "wait"

\* Mutant: the entry leaves the old table and is not written to the last one.
movedDrop(i, h) == [tables EXCEPT ![i] = delete(@, h)]

moved(i, h) == [tables EXCEPT ![N] = putRaw(@, h, tables[i].hkeys[h]),
                              ![i] = delete(@, h)]

\* Move one entry; after more than chunkLimit of them, pause.
MergeMove(i, h) ==
  /\ oldEntry(i, h) /\ room(i, h)
  /\ tables' = moved(i, h)
  /\ total' = total + 1
  /\ IF total' > chunkLimit THEN pause ELSE UNCHANGED <<mu, merge>>
  /\ UNCHANGED view /\ mergeIdle

\* The last table is full: append one of twice its size and pause.
MergeFull(i, h) ==
  /\ oldEntry(i, h) /\ ~room(i, h) /\ mmapOK
  /\ tables' = Append(tables, newTable(2 * tables[N].allocated))
  /\ pause
  /\ UNCHANGED <<total, view>> /\ mergeIdle

\* There is no memory for it: pause.
MergeNoMemory(i, h) ==
  /\ oldEntry(i, h) /\ ~room(i, h) /\ ~mmapOK
  /\ pause
  /\ UNCHANGED <<tables, total, view>> /\ mergeIdle

\* All older tables are empty: unmap them and keep the last.
MergeSweep ==
  /\ mu = "merge"
  /\ \A i \in 1 .. N - 1 : \A h \in HKey : tables[i].hkeys[h] = NoVal
  /\ tables' = <<tables[N]>>
  /\ view' = IF view \in 1 .. N - 1 THEN -1 ELSE IF view = N THEN 1 ELSE view
  /\ mu' = "free"
  /\ merge' = "exit"
  /\ UNCHANGED total /\ mergeIdle

-----------------------------------------------------------------------------
(* merge.go: mergeTables around it. *)

\* Mutant: the timer is not started again after a chunk that has moved entries.
MergeTickOnce == /\ merge = "wait" /\ total = 0
                 /\ merge' = "start"
                 /\ UNCHANGED <<tables, mu, total, view>> /\ mergeIdle

\* case <-time.After(50 * time.Millisecond)
MergeTick == /\ merge = "wait"
             /\ merge' = "start"
             /\ UNCHANGED <<tables, mu, total, view>> /\ mergeIdle

\* case <-s.ctx.Done()
MergeCancelled == /\ merge = "wait" /\ cancelled
                  /\ merge' = "exit"
                  /\ UNCHANGED <<tables, mu, total, view>> /\ mergeIdle

\* The deferred calls: merging := 0 first, wg.Done() after it.
MergeExit == /\ merge = "exit"
             /\ merge' = "none"
             /\ merging' = 0
             /\ leaving' = leaving + 1
             /\ UNCHANGED <<tables, mu, pend, total, cancelled, view, loading, kv, ops>>

WgDone == /\ leaving > 0
          /\ leaving' = leaving - 1
          /\ UNCHANGED <<tables, mu, pend, merging, merge, total, cancelled, view, loading, kv, ops>>

-----------------------------------------------------------------------------
(* Close waits for the merge goroutines while it has s.mu. *)

CloseBegin ==
  /\ mu = "free" /\ ~cancelled
  /\ mu' = "close"
  /\ cancelled' = TRUE
  /\ UNCHANGED <<tables, pend, merging, merge, total, leaving, view, loading, kv, ops>>

CloseEnd ==
  /\ mu = "close"
  /\ wg = 0
  /\ tables' = <<>>
  /\ view' = IF view = 0 THEN 0 ELSE -1
  /\ mu' = "free"
  /\ UNCHANGED <<pend, merging, merge, total, leaving, cancelled, loading, kv, ops>>

-----------------------------------------------------------------------------
MergeChunk == \/ MergeBegin
              \/ MergeSweep
              \/ \E i \in 1 .. N - 1, h \in HKey : \/ MergeMove(i, h)
                                                 \/ MergeFull(i, h)
                                                 \/ MergeNoMemory(i, h)

Work == \/ PutRetry \/ PutGrowAgain \/ PutFails
        \/ MergeChunk \/ MergeTick \/ MergeCancelled \/ MergeExit
        \/ WgDone
        \/ CloseEnd

Use == \/ \E h \in HKey : \/ \E v \in Val, raw \in BOOLEAN : Put(h, v, raw) \/ PutGrow(h, v, raw)
                          \/ Delete(h)
                          \/ Get(h)
       \/ Forget

Next == Use \/ Work \/ CloseBegin

Spec == Init /\ [][Next]_vars

\* A goroutine that can take a step takes it, and a timer that was started
\* expires.  Callers call as they like.
FairSpec == /\ Spec
            /\ WF_vars(PutRetry \/ PutGrowAgain \/ PutFails)
            /\ WF_vars(MergeChunk) /\ WF_vars(MergeTick \/ MergeCancelled) /\ WF_vars(MergeExit)
            /\ WF_vars(WgDone) /\ WF_vars(CloseEnd)

-----------------------------------------------------------------------------
(* Properties that hold. *)

TypeOK == /\ tables \in Seq(Table)
          /\ mu \in {"free", "put", "merge", "close"}
          /\ pend \in {<<>>} \cup (HKey \X Val \X BOOLEAN)
          /\ merging \in {0, 1}
          /\ merge \in {"none", "start", "wait", "exit"}
          /\ total \in Nat
          /\ leaving \in Nat
          /\ cancelled \in BOOLEAN
          /\ view \in Int
          /\ loading \in BOOLEAN
          /\ kv \in [HKey -> Entry]
          /\ ops \in Nat

\* Every byte of a table up to offset is in use or garbage, and offset stays
\* inside the mapped memory: no put writes past it.
Accounting ==
  \A i \in 1 .. N : LET t == tables[i] IN /\ t.inuse + t.garbage = t.offset
                                          /\ t.offset < t.allocated
                                          /\ minimumSize <= t.allocated

\* A key that was put and not deleted is found, whatever growing, merging and
\* compaction have done since.
NoKeyLost == \A h \in HKey : (kv[h] # NoVal /\ N > 0) => Check(h)

\* At most one goroutine merges, the flag says so, and none is left when Close
\* has unmapped the tables.
MergerAlone == /\ merge # "none" => merging = 1
               /\ mu = "merge" => merge = "start" /\ N > 1
               /\ N = 0 => merge = "none" /\ leaving = 0

\* storage.go:150, "Create a new table and put the new k/v pair in it": the
\* new table has room for a pair smaller than the least table, so the loop of Put
\* goes round once.  For a larger one it may append table after table.
NewTableHasRoom ==
  (mu = "put" /\ bytes(pend[2], pend[3]) < minimumSize) => hasSpace(tables[N], bytes(pend[2], pend[3]))

\* A merge changes what Get returns only for a key that two tables have.
MergeKeepsUniqueKeys ==
  [][MergeChunk => \A h \in HKey : (\A i, j \in Holding(h) : i = j) => Lookup(h)' = Lookup(h)]_vars

\* A merge that was started ends, unless the storage is closed under it or there
\* is no memory for another table.
MergeEnds == merge # "none" ~> (merge = "none" \/ cancelled \/ ~mmapOK)

-----------------------------------------------------------------------------
(* Properties the documentation states and the code does not have. *)

\* storage.go:136, "It overwrites any previous value for that key".
GetReturnsLastPut == \A h \in HKey : (kv[h] # NoVal /\ mu = "free" /\ N > 0) => Lookup(h) = kv[h]

\* storage.go:220, "Delete deletes the value for the given key".
DeletedIsGone == \A h \in HKey : (kv[h] = NoVal /\ mu = "free") => ~Check(h)

\* storage.go:276-277, "If you get this error, you should try to call Export
\* again some time later": a fragmented storage does not stay fragmented.
FragmentationEnds == Fragmented ~> (~Fragmented \/ cancelled)

\* storage.go:73-74, Close "blocks until everything is done": it returns.
CloseReturns == mu = "close" ~> mu = "free"

\* storage.go:195-196, "The returned VData is its own copy": nothing the
\* storage does takes it away.
VDataIsOwnCopy == view # -1
=============================================================================
