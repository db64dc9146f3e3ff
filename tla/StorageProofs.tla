---------------------------- MODULE StorageProofs ----------------------------
(***************************************************************************)
(* What internal/storage guarantees for every set of keys and entries and  *)
(* every table size: the byte accounting of the tables, that no live key   *)
(* is lost by growing, merging and compaction, that at most one goroutine  *)
(* merges, and that a merge leaves keys that only one table has alone.     *)
(***************************************************************************)
EXTENDS Storage, TLAPS

TabOK(t) == /\ t \in Table
            /\ t.inuse + t.garbage = t.offset
            /\ t.offset < t.allocated
            /\ minimumSize <= t.allocated

TablesOK == /\ tables \in Seq(Table)
            /\ \A i \in 1 .. N : TabOK(tables[i])

\* The control state: who has s.mu, and what that says about the rest.
Control == /\ mu \in {"free", "put", "merge", "close"}
           /\ mu = "put" => pend \in HKey \X Val \X BOOLEAN /\ ~cancelled
           /\ mu = "close" => cancelled /\ N > 0
           /\ mu = "merge" => merge = "start" /\ N > 1
           /\ N = 0 => cancelled /\ mu = "free" /\ merge = "none" /\ leaving = 0
           /\ merge \in {"none", "start", "wait", "exit"}
           /\ merging \in {0, 1}
           /\ merge # "none" => merging = 1
           /\ leaving \in Nat

IInv == /\ TablesOK
        /\ Control
        /\ kv \in [HKey -> Entry]
        /\ NoKeyLost

-----------------------------------------------------------------------------
(* Operations on one table. *)

\* A table made by newTable is empty and in order.
LEMMA NewTableOK ==
  ASSUME NEW size \in Int
  PROVE  TabOK(newTable(size)) /\ \A h \in HKey : newTable(size).hkeys[h] = NoVal
  BY SizesNat DEF TabOK, newTable, Table, Entry

\* delete turns the bytes of the entry into garbage.
LEMMA DeleteOK ==
  ASSUME NEW t, TabOK(t), NEW h \in HKey
  PROVE  /\ TabOK(delete(t, h))
         /\ delete(t, h).hkeys = [t.hkeys EXCEPT ![h] = NoVal]
  <1>1. CASE t.hkeys[h] = NoVal
    BY <1>1 DEF TabOK, delete, Table
  <1>2. CASE t.hkeys[h] # NoVal
    <2>1. t.hkeys[h] \in Val /\ Size[t.hkeys[h]] \in Int
      BY <1>2, SizeType DEF TabOK, Table, Entry
    <2>2. delete(t, h) = [t EXCEPT !.hkeys = [t.hkeys EXCEPT ![h] = NoVal],
                                   !.garbage = t.garbage + Size[t.hkeys[h]],
                                   !.inuse = t.inuse - Size[t.hkeys[h]]]
      BY <1>2 DEF delete, TabOK, Table
    <2> DEFINE u == delete(t, h)
    <2>3. /\ u.hkeys = [t.hkeys EXCEPT ![h] = NoVal]
          /\ u.garbage = t.garbage + Size[t.hkeys[h]]
          /\ u.inuse = t.inuse - Size[t.hkeys[h]]
          /\ u.offset = t.offset
          /\ u.allocated = t.allocated
      BY <2>2 DEF TabOK, Table
    <2>4. u \in Table
      <3>1. [t.hkeys EXCEPT ![h] = NoVal] \in [HKey -> Entry]
        BY DEF TabOK, Table, Entry
      <3>2. t \in Table /\ t.garbage + Size[t.hkeys[h]] \in Int /\ t.inuse - Size[t.hkeys[h]] \in Int
        BY <2>1 DEF TabOK, Table
      <3>3. PICK m \in [HKey -> Entry], a \in Int, b \in Int :
              u = [t EXCEPT !.hkeys = m, !.garbage = a, !.inuse = b]
        BY <2>2, <3>1, <3>2, Zenon
      <3> QED
        BY <3>2, <3>3, Zenon DEF Table
    <2> HIDE DEF u
    <2> QED
      BY <2>1, <2>3, <2>4 DEF TabOK, Table, u
  <1> QED
    BY <1>1, <1>2

\* put keeps the accounting when there is space for the entry.
LEMMA PutOK ==
  ASSUME NEW t, TabOK(t), NEW h \in HKey, NEW v \in Val, hasSpace(t, Size[v])
  PROVE  /\ TabOK(put(t, h, v))
         /\ put(t, h, v).hkeys = [t.hkeys EXCEPT ![h] = v]
  <1> DEFINE d == delete(t, h)
  <1>1. TabOK(d) /\ d.hkeys = [t.hkeys EXCEPT ![h] = NoVal]
    BY DeleteOK
  <1>2. d.offset = t.offset /\ d.allocated = t.allocated
    BY DEF delete, TabOK, Table
  <1>3. Size[v] \in Nat
    BY SizeType
  <1>4. put(t, h, v) = [d EXCEPT !.hkeys = [d.hkeys EXCEPT ![h] = v],
                                 !.inuse = d.inuse + Size[v], !.offset = d.offset + Size[v]]
    BY DEF put
  <1> DEFINE u == put(t, h, v)
  <1> HIDE DEF d
  <1>5. /\ u.hkeys = [t.hkeys EXCEPT ![h] = v]
        /\ u.garbage = d.garbage
        /\ u.inuse = d.inuse + Size[v]
        /\ u.offset = d.offset + Size[v]
        /\ u.allocated = d.allocated
    BY <1>1, <1>4 DEF TabOK, Table
  <1>6. u \in Table
    <2>1. [d.hkeys EXCEPT ![h] = v] \in [HKey -> Entry]
      BY <1>1 DEF TabOK, Table, Entry
    <2>2. d \in Table /\ d.inuse + Size[v] \in Int /\ d.offset + Size[v] \in Int
      BY <1>1, <1>3 DEF TabOK, Table
    <2>3. PICK m \in [HKey -> Entry], a \in Int, b \in Int :
            u = [d EXCEPT !.hkeys = m, !.inuse = a, !.offset = b]
      BY <1>4, <2>1, <2>2, Zenon
    <2> QED
      BY <2>2, <2>3, Zenon DEF Table
  <1> HIDE DEF u
  <1>7. TabOK(u)
    BY <1>1, <1>2, <1>3, <1>5, <1>6 DEF TabOK, Table, hasSpace
  <1> QED
    BY <1>5, <1>7 DEF u

\* putRaw leaves the entry it replaces uncounted, and the sum is still right.
LEMMA PutRawOK ==
  ASSUME NEW t, TabOK(t), NEW h \in HKey, NEW v \in Val, hasSpace(t, rawSize(v))
  PROVE  /\ TabOK(putRaw(t, h, v))
         /\ putRaw(t, h, v).hkeys = [t.hkeys EXCEPT ![h] = v]
  <1>1. Size[v] \in Nat
    BY SizeType
  <1>2. putRaw(t, h, v) = [t EXCEPT !.hkeys = [t.hkeys EXCEPT ![h] = v],
                                    !.inuse = t.inuse + rawSize(v), !.offset = t.offset + rawSize(v)]
    BY DEF putRaw
  <1> DEFINE u == putRaw(t, h, v)
  <1>3. /\ u.hkeys = [t.hkeys EXCEPT ![h] = v]
        /\ u.garbage = t.garbage
        /\ u.inuse = t.inuse + rawSize(v)
        /\ u.offset = t.offset + rawSize(v)
        /\ u.allocated = t.allocated
    BY <1>2 DEF TabOK, Table
  <1>4. u \in Table
    <2>1. [t.hkeys EXCEPT ![h] = v] \in [HKey -> Entry]
      BY DEF TabOK, Table, Entry
    <2>2. t \in Table /\ t.inuse + rawSize(v) \in Int /\ t.offset + rawSize(v) \in Int
      BY <1>1 DEF TabOK, Table, rawSize
    <2>3. PICK m \in [HKey -> Entry], a \in Int, b \in Int :
            u = [t EXCEPT !.hkeys = m, !.inuse = a, !.offset = b]
      BY <1>2, <2>1, <2>2, Zenon
    <2> QED
      BY <2>2, <2>3, Zenon DEF Table
  <1> HIDE DEF u
  <1>5. TabOK(u)
    BY <1>1, <1>3, <1>4 DEF TabOK, Table, hasSpace, rawSize
  <1> QED
    BY <1>3, <1>5 DEF u

-----------------------------------------------------------------------------
(* Operations on the sequence of tables. *)

\* Replacing a table by one in order, and appending one, keep TablesOK.
LEMMA ReplaceOK ==
  ASSUME TablesOK, NEW i \in 1 .. N, NEW x, TabOK(x), tables' = [tables EXCEPT ![i] = x]
  PROVE  TablesOK' /\ N' = N /\ tables'[i] = x /\ \A j \in 1 .. N : j # i => tables'[j] = tables[j]
  BY DEF TablesOK, N, TabOK

\* A sequence of well-formed tables stays one when a well-formed table is
\* appended, as Put, Delete and the merge do.
LEMMA ExtendOK ==
  ASSUME TablesOK, NEW x, TabOK(x), N' = N + 1, tables'[N + 1] = x,
         \A j \in 1 .. N : tables'[j] = tables[j]
  PROVE  \A j \in 1 .. N' : TabOK(tables'[j])
  <1> TAKE j \in 1 .. N'
  <1>1. N \in Nat /\ j \in 1 .. N + 1
    BY DEF TablesOK, N
  <1>2. CASE j \in 1 .. N
    BY <1>2 DEF TablesOK
  <1>3. CASE j = N + 1
    BY <1>3
  <1> QED
    BY <1>1, <1>2, <1>3

\* Appending a new table (storage.go Put and Delete, merge.go) keeps all tables
\* well-formed.
LEMMA AppendOK ==
  ASSUME TablesOK, NEW x, TabOK(x), tables' = Append(tables, x)
  PROVE  TablesOK' /\ N' = N + 1 /\ tables'[N + 1] = x /\ \A j \in 1 .. N : tables'[j] = tables[j]
  <1>1. N \in Nat /\ tables \in Seq(Table) /\ x \in Table
    BY DEF TablesOK, N, TabOK
  <1>2. /\ tables' \in Seq(Table) /\ N' = N + 1 /\ tables'[N + 1] = x
        /\ \A j \in 1 .. N : tables'[j] = tables[j]
    BY <1>1 DEF N
  <1>3. \A j \in 1 .. N' : TabOK(tables'[j])
    BY <1>2, ExtendOK, Zenon
  <1> QED
    BY <1>2, <1>3, Zenon DEF TablesOK

\* NoKeyLost in terms of the tables.
LEMMA KeptIff ==
  NoKeyLost <=> \A h \in HKey : (kv[h] # NoVal /\ N > 0) => \E i \in 1 .. N : tables[i].hkeys[h] # NoVal
  BY DEF NoKeyLost, Check, Holding

\* The table a put writes to is in order afterwards, and has the entry.
LEMMA PutLastOK ==
  ASSUME TablesOK, N > 0, NEW h \in HKey, NEW v \in Val, NEW raw \in BOOLEAN,
         hasSpace(tables[N], bytes(v, raw))
  PROVE  /\ TabOK(putLast(h, v, raw))
         /\ putLast(h, v, raw).hkeys = [tables[N].hkeys EXCEPT ![h] = v]
  <1>1. TabOK(tables[N])
    BY DEF TablesOK, N
  <1>2. CASE raw
    <2>1. hasSpace(tables[N], rawSize(v)) /\ putLast(h, v, raw) = putRaw(tables[N], h, v)
      BY <1>2 DEF bytes, putLast
    <2> QED
      BY <1>1, <2>1, PutRawOK
  <1>3. CASE ~raw
    <2>1. hasSpace(tables[N], Size[v]) /\ putLast(h, v, raw) = put(tables[N], h, v)
      BY <1>3 DEF bytes, putLast
    <2> QED
      BY <1>1, <2>1, PutOK
  <1> QED
    BY <1>2, <1>3

\* Writing an entry to the last table loses no key.
LEMMA WriteKeeps ==
  ASSUME IInv, N > 0, NEW h \in HKey, NEW v \in Val, NEW raw \in BOOLEAN,
         hasSpace(tables[N], bytes(v, raw)),
         tables' = [tables EXCEPT ![N] = putLast(h, v, raw)],
         kv' = [kv EXCEPT ![h] = v]
  PROVE  TablesOK' /\ N' = N /\ kv' \in [HKey -> Entry] /\ NoKeyLost'
  <1>1. N \in 1 .. N
    BY DEF IInv, TablesOK, N
  <1>2. /\ TabOK(putLast(h, v, raw))
        /\ putLast(h, v, raw).hkeys = [tables[N].hkeys EXCEPT ![h] = v]
    BY PutLastOK DEF IInv
  <1>3. /\ TablesOK' /\ N' = N /\ tables'[N] = putLast(h, v, raw)
        /\ \A j \in 1 .. N : j # N => tables'[j] = tables[j]
    BY <1>1, <1>2, ReplaceOK, Zenon DEF IInv
  <1>4. kv' \in [HKey -> Entry]
    BY DEF IInv, Entry
  <1>5. ASSUME NEW g \in HKey, kv'[g] # NoVal
        PROVE  \E i \in 1 .. N' : tables'[i].hkeys[g] # NoVal
    <2>1. tables[N].hkeys \in [HKey -> Entry]
      BY <1>1 DEF IInv, TablesOK, TabOK, Table
    <2>2. CASE g = h
      BY <1>1, <1>2, <1>3, <2>1, <2>2, NoValFresh
    <2>3. CASE g # h
      <3>1. PICK i \in 1 .. N : tables[i].hkeys[g] # NoVal
        BY <1>5, <2>3, KeptIff DEF IInv
      <3> QED
        BY <1>1, <1>2, <1>3, <2>1, <2>3, <3>1
    <2> QED
      BY <2>2, <2>3
  <1>6. NoKeyLost'
    BY <1>5 DEF NoKeyLost, Check, Holding
  <1> QED
    BY <1>3, <1>4, <1>6

\* Appending an empty table loses no key.
LEMMA ExtendKeeps ==
  ASSUME IInv, N > 0, N' = N + 1, \A j \in 1 .. N : tables'[j] = tables[j], kv' = kv
  PROVE  NoKeyLost'
  <1> SUFFICES ASSUME NEW h \in HKey, kv[h] # NoVal
               PROVE  \E i \in 1 .. N' : tables'[i].hkeys[h] # NoVal
    BY DEF NoKeyLost, Check, Holding
  <1>1. N \in Nat
    BY DEF IInv, TablesOK, N
  <1>2. PICK i \in 1 .. N : tables[i].hkeys[h] # NoVal
    BY KeptIff DEF IInv
  <1>3. i \in 1 .. N'
    BY <1>1
  <1>4. tables'[i] = tables[i]
    OBVIOUS
  <1> QED
    BY <1>2, <1>3, <1>4

\* Appending a new table takes no key away, as Put does when it grows.
LEMMA AppendKeeps ==
  ASSUME IInv, N > 0, NEW size \in Int, tables' = Append(tables, newTable(size)), kv' = kv
  PROVE  TablesOK' /\ N' = N + 1 /\ NoKeyLost'
  <1>1. /\ TablesOK' /\ N' = N + 1 /\ \A j \in 1 .. N : tables'[j] = tables[j]
    BY AppendOK, NewTableOK, Zenon DEF IInv
  <1> QED
    BY <1>1, ExtendKeeps, Zenon

\* A step that leaves the tables alone.
LEMMA SameTables ==
  ASSUME IInv, UNCHANGED <<tables, kv>>
  PROVE  TablesOK' /\ N' = N /\ kv' \in [HKey -> Entry] /\ NoKeyLost'
  BY DEF IInv, TablesOK, N, NoKeyLost, Check, Holding

-----------------------------------------------------------------------------
(* The invariant holds at first, and every action keeps it. *)

\* The inductive invariant holds in a store that New has just made.
LEMMA InitIInv == Init => IInv
  <1> SUFFICES ASSUME Init PROVE IInv
    OBVIOUS
  <1>1. TabOK(newTable(0)) /\ N = 1 /\ tables[1] = newTable(0) /\ tables \in Seq({newTable(0)})
    BY NewTableOK DEF Init, N
  <1>2. TablesOK
    BY <1>1 DEF TablesOK, TabOK, N
  <1>3. Control
    BY <1>1 DEF Init, Control
  <1>4. kv \in [HKey -> Entry] /\ NoKeyLost
    BY DEF Init, Entry, NoKeyLost
  <1> QED
    BY <1>2, <1>3, <1>4 DEF IInv

\* A caller finds a storage that has a table.
LEMMA OpenHasTable == IInv /\ ~cancelled => N \in Nat /\ N > 0
  BY DEF IInv, Control, TablesOK, N

\* Put and PutRaw keep the invariant when the last table has room.
LEMMA PutIInv ==
  ASSUME IInv, NEW h \in HKey, NEW v \in Val, NEW raw \in BOOLEAN, Put(h, v, raw)
  PROVE  IInv'
  <1>1. TablesOK' /\ N' = N /\ kv' \in [HKey -> Entry] /\ NoKeyLost'
    BY OpenHasTable, WriteKeeps, Zenon DEF Put, called
  <1>2. Control'
    BY <1>1 DEF IInv, Control, Put, called
  <1> QED
    BY <1>1, <1>2 DEF IInv

\* The table a put appends.
LEMMA GrowKeeps ==
  ASSUME IInv, N > 0, tables' = grow, kv' = kv
  PROVE  TablesOK' /\ N' = N + 1 /\ kv' \in [HKey -> Entry] /\ NoKeyLost'
  <1>1. 2 * tables[N].inuse \in Int
    <2>1. tables[N] \in Table
      BY DEF IInv, TablesOK, N
    <2> QED
      BY <2>1 DEF Table
  <1>2. TablesOK' /\ N' = N + 1 /\ NoKeyLost'
    BY <1>1, AppendKeeps DEF grow
  <1> QED
    BY <1>2 DEF IInv

\* Put keeps the invariant when it appends a table and starts the merge.
LEMMA PutGrowIInv ==
  ASSUME IInv, NEW h \in HKey, NEW v \in Val, NEW raw \in BOOLEAN, PutGrow(h, v, raw)
  PROVE  IInv'
  <1>0. N \in Nat /\ N > 0
    BY OpenHasTable DEF PutGrow, called
  <1>1. TablesOK' /\ N' = N + 1 /\ kv' \in [HKey -> Entry] /\ NoKeyLost'
    BY <1>0, GrowKeeps DEF PutGrow
  <1>2. pend' \in HKey \X Val \X BOOLEAN
    BY DEF PutGrow
  <1>3. Control'
    BY <1>0, <1>1, <1>2 DEF IInv, Control, PutGrow, called, spawn
  <1> QED
    BY <1>1, <1>3 DEF IInv

\* Put keeps the invariant when the next iteration of its loop writes the entry.
LEMMA PutRetryIInv == IInv /\ PutRetry => IInv'
  <1> SUFFICES ASSUME IInv, PutRetry PROVE IInv'
    OBVIOUS
  <1>0. N \in Nat /\ N > 0 /\ pend \in HKey \X Val \X BOOLEAN
    BY DEF IInv, Control, PutRetry, TablesOK, N
  <1>1. pend[1] \in HKey /\ pend[2] \in Val /\ pend[3] \in BOOLEAN
    BY <1>0
  <1>2. TablesOK' /\ N' = N /\ kv' \in [HKey -> Entry] /\ NoKeyLost'
    BY <1>0, <1>1, WriteKeeps, Zenon DEF PutRetry
  <1>3. Control'
    BY <1>0, <1>2 DEF IInv, Control, PutRetry
  <1> QED
    BY <1>2, <1>3 DEF IInv

\* Put keeps the invariant when its loop appends another table.
LEMMA PutGrowAgainIInv == IInv /\ PutGrowAgain => IInv'
  <1> SUFFICES ASSUME IInv, PutGrowAgain PROVE IInv'
    OBVIOUS
  <1>0. N \in Nat /\ N > 0
    BY DEF IInv, Control, PutGrowAgain, TablesOK, N
  <1>1. TablesOK' /\ N' = N + 1 /\ kv' \in [HKey -> Entry] /\ NoKeyLost'
    BY <1>0, GrowKeeps DEF PutGrowAgain
  <1>2. Control'
    BY <1>0, <1>1 DEF IInv, Control, PutGrowAgain, spawn
  <1> QED
    BY <1>1, <1>2 DEF IInv

\* The steps that leave the tables alone.
LEMMA QuietIInv ==
  ASSUME IInv,
         \/ PutFails \/ Forget \/ \E h \in HKey : Get(h)
         \/ MergeBegin \/ MergeTick \/ MergeCancelled \/ MergeExit
         \/ \E i \in 1 .. N - 1, h \in HKey : MergeNoMemory(i, h)
         \/ WgDone \/ CloseBegin
  PROVE  IInv'
  <1>1. UNCHANGED <<tables, kv>>
    BY DEF PutFails, Forget, Get, MergeBegin, MergeTick, MergeCancelled, MergeExit, MergeNoMemory,
           WgDone, CloseBegin, mergeIdle
  <1>2. TablesOK' /\ N' = N /\ kv' \in [HKey -> Entry] /\ NoKeyLost' /\ N \in Nat
    BY <1>1, SameTables DEF IInv, TablesOK, N
  <1>3. Control'
    BY <1>2 DEF IInv, Control, PutFails, Forget, Get, MergeBegin, MergeTick, MergeCancelled,
           MergeExit, MergeNoMemory, WgDone, CloseBegin, mergeIdle, oldEntry, pause
  <1> QED
    BY <1>2, <1>3 DEF IInv

\* Deleting a key from one table, and starting a compaction, lose no other key.
LEMMA ShrinkKeeps ==
  ASSUME IInv, N > 0, NEW h \in HKey, NEW ts \in Seq(Table), Len(ts) = N,
         \A j \in 1 .. N : TabOK(ts[j]),
         \A j \in 1 .. N, g \in HKey : g # h => ts[j].hkeys[g] = tables[j].hkeys[g],
         kv' = [kv EXCEPT ![h] = NoVal],
         TablesOK', N' = N \/ N' = N + 1, \A j \in 1 .. N : tables'[j] = ts[j]
  PROVE  kv' \in [HKey -> Entry] /\ NoKeyLost'
  <1>1. kv' \in [HKey -> Entry]
    BY DEF IInv, Entry
  <1>2. ASSUME NEW g \in HKey, kv'[g] # NoVal
        PROVE  \E i \in 1 .. N' : tables'[i].hkeys[g] # NoVal
    <2>1. g # h /\ kv[g] # NoVal
      BY <1>2 DEF IInv
    <2>2. PICK i \in 1 .. N : tables[i].hkeys[g] # NoVal
      BY <2>1, KeptIff DEF IInv
    <2>3. N \in Nat /\ i \in 1 .. N'
      BY DEF IInv, TablesOK, N
    <2>4. tables'[i] = ts[i] /\ ts[i].hkeys[g] # NoVal
      BY <2>1, <2>2
    <2> QED
      BY <2>3, <2>4
  <1>3. NoKeyLost'
    BY <1>2 DEF NoKeyLost, Check, Holding
  <1> QED
    BY <1>1, <1>3

\* The tables after a delete of h, before compaction.
LEMMA DeletedTables ==
  ASSUME IInv, N > 0, NEW h \in HKey, NEW i \in 1 .. N
  PROVE  LET ts == [tables EXCEPT ![i] = delete(@, h)]
         IN  /\ ts \in Seq(Table) /\ Len(ts) = N
             /\ \A j \in 1 .. N : TabOK(ts[j])
             /\ \A j \in 1 .. N, g \in HKey : g # h => ts[j].hkeys[g] = tables[j].hkeys[g]
  <1> DEFINE d == delete(tables[i], h)
  <1>1. TabOK(tables[i]) /\ tables \in Seq(Table) /\ N = Len(tables)
    BY DEF IInv, TablesOK, N
  <1>2. TabOK(d) /\ d.hkeys = [tables[i].hkeys EXCEPT ![h] = NoVal] /\ d \in Table
    BY <1>1, DeleteOK DEF TabOK
  <1>3. tables[i].hkeys \in [HKey -> Entry]
    BY <1>1 DEF TabOK, Table
  <1> DEFINE ts == [tables EXCEPT ![i] = d]
  <1> HIDE DEF d
  <1>4. ts \in Seq(Table) /\ Len(ts) = N /\ ts[i] = d /\ \A j \in 1 .. N : j # i => ts[j] = tables[j]
    BY <1>1, <1>2
  <1> HIDE DEF ts
  <1>5. \A j \in 1 .. N : TabOK(ts[j])
    BY <1>2, <1>4 DEF IInv, TablesOK
  <1>6. \A j \in 1 .. N, g \in HKey : g # h => ts[j].hkeys[g] = tables[j].hkeys[g]
    BY <1>2, <1>3, <1>4
  <1> QED
    BY <1>4, <1>5, <1>6 DEF ts, d

\* Delete keeps the invariant, with and without compaction.
LEMMA DeleteIInv ==
  ASSUME IInv, NEW h \in HKey, Delete(h)
  PROVE  IInv'
  <1>0. N \in Nat /\ N > 0
    BY OpenHasTable DEF Delete, called
  <1>1. PICK i \in 0 .. N :
          LET ts == IF i = 0 THEN tables ELSE [tables EXCEPT ![i] = delete(@, h)]
          IN  \/ /\ compacts(ts)
                 /\ tables' = Append(ts, newTable(compactSize(ts[1])))
                 /\ spawn
              \/ /\ ~compacts(ts)
                 /\ tables' = ts
                 /\ UNCHANGED <<merging, merge>>
    BY DEF Delete
  <1> DEFINE ts == IF i = 0 THEN tables ELSE [tables EXCEPT ![i] = delete(@, h)]
  <1>2. /\ ts \in Seq(Table) /\ Len(ts) = N
        /\ \A j \in 1 .. N : TabOK(ts[j])
        /\ \A j \in 1 .. N, g \in HKey : g # h => ts[j].hkeys[g] = tables[j].hkeys[g]
    <2>1. CASE i = 0
      BY <2>1 DEF IInv, TablesOK, N
    <2>2. CASE i # 0
      <3>1. i \in 1 .. N
        BY <1>0, <2>2
      <3> QED
        BY <1>0, <2>2, <3>1, DeletedTables
    <2> QED
      BY <2>1, <2>2
  <1>3. \/ /\ tables' = Append(ts, newTable(compactSize(ts[1])))
           /\ spawn
        \/ /\ tables' = ts
           /\ UNCHANGED <<merging, merge>>
    BY <1>1
  <1> HIDE DEF ts
  <1>4. compactSize(ts[1]) \in Int
    <2>1. ts[1] \in Table
      BY <1>0, <1>2
    <2> QED
      BY <2>1 DEF compactSize, Table
  <1>5. /\ tables' \in Seq(Table) /\ (N' = N \/ N' = N + 1)
        /\ \A j \in 1 .. N : tables'[j] = ts[j]
        /\ \A j \in 1 .. N' : TabOK(tables'[j])
    <2>1. CASE tables' = ts
      BY <2>1, <1>2 DEF N
    <2>2. ASSUME NEW x, x = newTable(compactSize(ts[1])), tables' = Append(ts, x)
          PROVE  <1>5!:
      <3>1. TabOK(x) /\ x \in Table
        BY <2>2, <1>4, NewTableOK DEF TabOK
      <3>2. /\ tables' \in Seq(Table) /\ Len(tables') = N + 1 /\ tables'[N + 1] = x
            /\ \A j \in 1 .. N : tables'[j] = ts[j]
        BY <1>0, <1>2, <2>2, <3>1
      <3>3. ASSUME NEW j \in 1 .. N' PROVE TabOK(tables'[j])
        <4>1. N' = N + 1
          BY <3>2 DEF N
        <4>2. CASE j \in 1 .. N
          BY <1>2, <3>2, <4>2
        <4>3. CASE j = N + 1
          BY <3>1, <3>2, <4>3
        <4> QED
          BY <1>0, <4>1, <4>2, <4>3
      <3> QED
        BY <3>2, <3>3 DEF N
    <2> QED
      BY <1>3, <2>1, <2>2
  <1>6. TablesOK'
    BY <1>5 DEF TablesOK
  <1>7. kv' \in [HKey -> Entry] /\ NoKeyLost'
    BY <1>0, <1>2, <1>5, <1>6, ShrinkKeeps, Zenon DEF Delete
  <1>8. Control'
    BY <1>0, <1>3, <1>5 DEF IInv, Control, Delete, called, spawn
  <1> QED
    BY <1>6, <1>7, <1>8 DEF IInv

\* The tables after chunkedMergeTables has moved entry h of table i.
LEMMA MovedTables ==
  ASSUME IInv, NEW h \in HKey, NEW i \in 1 .. N - 1, oldEntry(i, h), room(i, h), tables' = moved(i, h)
  PROVE  /\ TablesOK' /\ N' = N
         /\ tables[i].hkeys[h] \in Val
         /\ tables'[N].hkeys = [tables[N].hkeys EXCEPT ![h] = tables[i].hkeys[h]]
         /\ tables'[i].hkeys = [tables[i].hkeys EXCEPT ![h] = NoVal]
         /\ \A j \in 1 .. N : j # i /\ j # N => tables'[j] = tables[j]
  <1> DEFINE v == tables[i].hkeys[h]
             p == putRaw(tables[N], h, v)
             d == delete(tables[i], h)
  <1>1. tables \in Seq(Table) /\ N = Len(tables) /\ N \in Nat /\ i \in 1 .. N /\ N \in 1 .. N /\ i # N
    BY DEF IInv, TablesOK, N
  <1>2. TabOK(tables[i]) /\ TabOK(tables[N])
    BY <1>1 DEF IInv, TablesOK
  <1>3. v \in Val
    <2>1. tables[i].hkeys[h] \in Entry
      BY <1>2 DEF TabOK, Table
    <2> QED
      BY <2>1 DEF oldEntry, Entry
  <1>4. TabOK(p) /\ p.hkeys = [tables[N].hkeys EXCEPT ![h] = v]
    BY <1>2, <1>3, PutRawOK DEF room
  <1>5. TabOK(d) /\ d.hkeys = [tables[i].hkeys EXCEPT ![h] = NoVal]
    BY <1>2, DeleteOK
  <1>6. tables' = [[tables EXCEPT ![N] = p] EXCEPT ![i] = d]
    BY <1>1 DEF moved
  <1> HIDE DEF v, p, d
  <1>7. /\ tables' \in Seq(Table) /\ N' = N /\ tables'[N] = p /\ tables'[i] = d
        /\ \A j \in 1 .. N : j # i /\ j # N => tables'[j] = tables[j]
    BY <1>1, <1>4, <1>5, <1>6 DEF TabOK, N
  <1>8. TablesOK'
    BY <1>1, <1>4, <1>5, <1>7 DEF IInv, TablesOK
  <1> QED
    BY <1>3, <1>4, <1>5, <1>7, <1>8 DEF v

\* chunkedMergeTables keeps the invariant when it moves one entry.
LEMMA MergeMoveIInv ==
  ASSUME IInv, NEW h \in HKey, NEW i \in 1 .. N - 1, MergeMove(i, h)
  PROVE  IInv'
  <1>1. /\ TablesOK' /\ N' = N
        /\ tables[i].hkeys[h] \in Val
        /\ tables'[N].hkeys = [tables[N].hkeys EXCEPT ![h] = tables[i].hkeys[h]]
        /\ tables'[i].hkeys = [tables[i].hkeys EXCEPT ![h] = NoVal]
        /\ \A j \in 1 .. N : j # i /\ j # N => tables'[j] = tables[j]
    BY MovedTables DEF MergeMove
  <1>2. N \in Nat /\ N \in 1 .. N /\ i \in 1 .. N /\ i # N
    BY DEF IInv, TablesOK, N
  <1>3. kv' = kv
    BY DEF MergeMove, mergeIdle
  <1>4. \A j \in 1 .. N : tables[j].hkeys \in [HKey -> Entry]
    BY DEF IInv, TablesOK, TabOK, Table
  <1>5. ASSUME NEW g \in HKey, kv[g] # NoVal
        PROVE  \E j \in 1 .. N : tables'[j].hkeys[g] # NoVal
    <2>1. CASE g = h
      BY <1>1, <1>2, <1>4, <2>1, NoValFresh
    <2>2. CASE g # h
      <3>1. PICK j \in 1 .. N : tables[j].hkeys[g] # NoVal
        BY <1>5, KeptIff, <1>2 DEF IInv
      <3>2. tables'[j].hkeys[g] = tables[j].hkeys[g]
        BY <1>1, <1>2, <1>4, <2>2
      <3> QED
        BY <3>1, <3>2
    <2> QED
      BY <2>1, <2>2
  <1>6. NoKeyLost'
    BY <1>1, <1>3, <1>5 DEF NoKeyLost, Check, Holding
  <1>7. Control'
    BY <1>1, <1>2 DEF IInv, Control, MergeMove, oldEntry, pause, mergeIdle
  <1> QED
    BY <1>1, <1>3, <1>6, <1>7 DEF IInv

\* chunkedMergeTables keeps the invariant when it appends a larger table.
LEMMA MergeFullIInv ==
  ASSUME IInv, NEW h \in HKey, NEW i \in 1 .. N - 1, MergeFull(i, h)
  PROVE  IInv'
  <1>1. N \in Nat /\ N > 0 /\ kv' = kv
    BY DEF IInv, TablesOK, N, MergeFull, mergeIdle
  <1>2. 2 * tables[N].allocated \in Int
    <2>1. tables[N] \in Table
      BY <1>1 DEF IInv, TablesOK, N
    <2> QED
      BY <2>1 DEF Table
  <1>3. TablesOK' /\ N' = N + 1 /\ NoKeyLost'
    BY <1>1, <1>2, AppendKeeps DEF MergeFull
  <1>4. Control'
    BY <1>1, <1>3 DEF IInv, Control, MergeFull, oldEntry, pause, mergeIdle
  <1> QED
    BY <1>1, <1>3, <1>4 DEF IInv

\* chunkedMergeTables keeps the invariant when it drops the empty tables.
LEMMA MergeSweepIInv == IInv /\ MergeSweep => IInv'
  <1> SUFFICES ASSUME IInv, MergeSweep PROVE IInv'
    OBVIOUS
  <1>1. N \in Nat /\ N > 1 /\ N \in 1 .. N /\ kv' = kv
    BY DEF IInv, Control, TablesOK, N, MergeSweep, mergeIdle
  <1>2. TabOK(tables[N]) /\ tables[N] \in Table
    BY <1>1 DEF IInv, TablesOK, TabOK
  <1>3. tables' \in Seq(Table) /\ N' = 1 /\ tables'[1] = tables[N]
    BY <1>2 DEF MergeSweep, N
  <1>4. TablesOK'
    BY <1>2, <1>3 DEF TablesOK
  <1>5. ASSUME NEW g \in HKey, kv[g] # NoVal
        PROVE  tables[N].hkeys[g] # NoVal
    <2>1. PICK j \in 1 .. N : tables[j].hkeys[g] # NoVal
      BY <1>1, <1>5, KeptIff DEF IInv
    <2>2. j = N
      BY <1>1, <2>1 DEF MergeSweep
    <2> QED
      BY <2>1, <2>2
  <1>6. NoKeyLost'
    BY <1>1, <1>3, <1>5 DEF NoKeyLost, Check, Holding
  <1>7. Control'
    BY <1>1, <1>3 DEF IInv, Control, MergeSweep, mergeIdle
  <1> QED
    BY <1>1, <1>4, <1>6, <1>7 DEF IInv

\* Close keeps the invariant when it unmaps the tables.
LEMMA CloseEndIInv == IInv /\ CloseEnd => IInv'
  <1> SUFFICES ASSUME IInv, CloseEnd PROVE IInv'
    OBVIOUS
  <1>1. tables' \in Seq(Table) /\ N' = 0 /\ kv' = kv
    BY DEF CloseEnd, N
  <1>2. TablesOK' /\ NoKeyLost'
    BY <1>1 DEF TablesOK, NoKeyLost
  <1>3. merge = "none" /\ leaving = 0
    BY DEF IInv, Control, CloseEnd, wg
  <1>4. Control'
    BY <1>1, <1>3 DEF IInv, Control, CloseEnd
  <1> QED
    BY <1>1, <1>2, <1>4 DEF IInv

\* Every step of the storage keeps the invariant: one case for each action.
LEMMA NextIInv == IInv /\ [Next]_vars => IInv'
  <1> SUFFICES ASSUME IInv, [Next]_vars PROVE IInv'
    OBVIOUS
  <1>1. CASE Use
    <2>1. ASSUME NEW h \in HKey, NEW v \in Val, NEW raw \in BOOLEAN, Put(h, v, raw) \/ PutGrow(h, v, raw)
          PROVE  IInv'
      BY <2>1, PutIInv, PutGrowIInv
    <2>2. ASSUME NEW h \in HKey, Delete(h) \/ Get(h) PROVE IInv'
      BY <2>2, DeleteIInv, QuietIInv
    <2> QED
      BY <1>1, <2>1, <2>2, QuietIInv DEF Use
  <1>2. CASE Work
    <2>1. CASE MergeChunk
      BY <2>1, QuietIInv, MergeSweepIInv, MergeMoveIInv, MergeFullIInv DEF MergeChunk
    <2> QED
      BY <1>2, <2>1, QuietIInv, PutRetryIInv, PutGrowAgainIInv, CloseEndIInv DEF Work
  <1>3. CASE CloseBegin
    BY <1>3, QuietIInv
  <1>4. CASE UNCHANGED vars
    <2>1. UNCHANGED <<tables, kv>>
      BY <1>4 DEF vars
    <2>2. Control'
      BY <1>4 DEF IInv, Control, vars, N
    <2> QED
      BY <2>1, <2>2, SameTables DEF IInv
  <1> QED
    BY <1>1, <1>2, <1>3, <1>4 DEF Next

-----------------------------------------------------------------------------
(* What follows. *)

\* The inductive invariant holds in every state of the storage.
LEMMA StorageInvariant == Spec => []IInv
  BY InitIInv, NextIInv, PTL DEF Spec

\* Every table's bytes add up and no put leaves its memory, for every method and
\* every interleaving with the merge goroutine.
THEOREM StorageAccounting == Spec => []Accounting
  <1>1. IInv => Accounting
    BY DEF IInv, TablesOK, TabOK, Accounting
  <1> QED
    BY <1>1, StorageInvariant, PTL

\* storage.go's tables always hold every key that was put and not deleted.
THEOREM StorageNoKeyLost == Spec => []NoKeyLost
  <1>1. IInv => NoKeyLost
    BY DEF IInv
  <1> QED
    BY <1>1, StorageInvariant, PTL

\* The merging flag of storage.go keeps mergeTables to one goroutine, and Close
\* leaves none behind.
THEOREM StorageMergerAlone == Spec => []MergerAlone
  <1>1. IInv => MergerAlone
    BY DEF IInv, Control, MergerAlone
  <1> QED
    BY <1>1, StorageInvariant, PTL

\* The variables IInv says nothing about.
Rest == /\ pend \in {<<>>} \cup (HKey \X Val \X BOOLEAN)
        /\ total \in Nat
        /\ cancelled \in BOOLEAN
        /\ view \in Int
        /\ loading \in BOOLEAN
        /\ ops \in Nat

\* Every step keeps the types of the variables the invariant does not mention.
LEMMA NextRest == IInv /\ Rest /\ [Next]_vars => Rest'
  <1> SUFFICES ASSUME IInv, Rest, [Next]_vars PROVE Rest'
    OBVIOUS
  <1> USE DEF Next, Use, Work, MergeChunk, vars, Put, PutGrow, PutRetry, PutGrowAgain, PutFails, Delete,
              Get, Forget, MergeBegin, MergeMove, MergeFull, MergeNoMemory, MergeSweep, MergeTick,
              MergeCancelled, MergeExit, WgDone, CloseBegin, CloseEnd, mergeIdle, called
  <1>1. pend' \in {<<>>} \cup (HKey \X Val \X BOOLEAN)
    <2>1. \/ pend' = pend \/ pend' = <<>>
          \/ \E h \in HKey, v \in Val, raw \in BOOLEAN : pend' = <<h, v, raw>>
      BY ZenonT(40)
    <2> HIDE DEF Next, vars
    <2>2. pend \in {<<>>} \cup (HKey \X Val \X BOOLEAN)
      BY DEF Rest
    <2> QED
      BY <2>1, <2>2
  <1>2. total' \in Nat
    <2>1. total' = total \/ total' = 0 \/ total' = total + 1
      BY ZenonT(40)
    <2> HIDE DEF Next, vars
    <2> QED
      BY <2>1 DEF Rest
  <1>3. cancelled' \in BOOLEAN
    <2>1. cancelled' = cancelled \/ cancelled' = TRUE
      BY ZenonT(40)
    <2> HIDE DEF Next, vars
    <2> QED
      BY <2>1, Zenon DEF Rest
  <1>4. view' \in Int
    <2>1. view' = view \/ view' = 0 \/ view' = 1 \/ view' = -1 \/ \E i \in 1 .. N : view' = i
      BY ZenonT(40)
    <2> HIDE DEF Next, vars
    <2> QED
      BY <2>1 DEF Rest
  <1>5. loading' \in BOOLEAN
    <2> HIDE DEF Next, Use, Work, vars
    <2>1. loading' = loading \/ loading' = FALSE \/ \E raw \in BOOLEAN : loading' = raw
      <3>1. CASE Use
        BY <3>1, ZenonT(40) DEF Use
      <3>2. CASE Work
        BY <3>2, Zenon DEF Work
      <3>3. CASE CloseBegin \/ UNCHANGED vars
        BY <3>3, Zenon DEF vars
      <3> QED
        BY <3>1, <3>2, <3>3, Zenon DEF Next
    <2> QED
      BY <2>1, Zenon DEF Rest
  <1>6. ops' \in Nat
    <2>1. ops' = ops \/ ops' = ops + 1
      BY ZenonT(40)
    <2> HIDE DEF Next, vars
    <2> QED
      BY <2>1 DEF Rest
  <1> QED
    BY <1>1, <1>2, <1>3, <1>4, <1>5, <1>6 DEF Rest

\* Every variable of the storage keeps its type.
THEOREM StorageTypeOK == Spec => []TypeOK
  <1>1. Init => Rest
    <2>1. Init => pend \in {<<>>} /\ total \in Nat /\ view \in Int /\ ops \in Nat
      BY DEF Init
    <2>2. Init => cancelled \in BOOLEAN /\ loading \in BOOLEAN
      BY Zenon DEF Init
    <2> QED
      BY <2>1, <2>2, Zenon DEF Rest
  <1>2. IInv /\ Rest => TypeOK
    BY DEF IInv, TablesOK, Control, Rest, TypeOK
  <1> QED
    BY <1>1, <1>2, NextRest, StorageInvariant, PTL DEF Spec

-----------------------------------------------------------------------------
(* A merge and the value Get returns. *)

\* Get returns the entry of the newest table that has the key.
LEMMA LookupNewest ==
  ASSUME NEW h, NEW i, N \in Nat, Holding(h) = {i}, i \in 1 .. N
  PROVE  Lookup(h) = tables[i].hkeys[h]
  <1>1. \A j \in Holding(h) : IsNewest(j, h) <=> j = i
    BY DEF IsNewest
  <1>2. (CHOOSE j \in Holding(h) : IsNewest(j, h)) = i
    BY <1>1
  <1> QED
    BY <1>2, Zenon DEF Lookup, Check

\* Two steps apart, a key that one table has at each end with the same entry.
LEMMA LookupSame ==
  ASSUME NEW h, NEW i, NEW j, N \in Nat, N' \in Nat,
         i \in 1 .. N, j \in 1 .. N', Holding(h) = {i}, Holding(h)' = {j},
         tables'[j].hkeys[h] = tables[i].hkeys[h]
  PROVE  Lookup(h)' = Lookup(h)
  <1>1. Lookup(h) = tables[i].hkeys[h]
    BY LookupNewest
  <1>2. \A k \in Holding(h)' : IsNewest(k, h)' <=> k = j
    BY DEF IsNewest
  <1>3. (CHOOSE k \in Holding(h)' : IsNewest(k, h)') = j
    BY <1>2
  <1> QED
    BY <1>1, <1>3, Zenon DEF Lookup, Check

\* The one table that has h gives it to the last one: chunkedMergeTables.
LEMMA MoveKeepsLookup ==
  ASSUME IInv, NEW g \in HKey, NEW i \in 1 .. N - 1, MergeMove(i, g),
         NEW h \in HKey, NEW k \in 1 .. N, Holding(h) = {k}
  PROVE  Lookup(h)' = Lookup(h)
  <1>1. /\ N' = N
        /\ tables[i].hkeys[g] \in Val
        /\ tables'[N].hkeys = [tables[N].hkeys EXCEPT ![g] = tables[i].hkeys[g]]
        /\ tables'[i].hkeys = [tables[i].hkeys EXCEPT ![g] = NoVal]
        /\ \A j \in 1 .. N : j # i /\ j # N => tables'[j] = tables[j]
    BY MovedTables DEF MergeMove
  <1>2. N \in Nat /\ N \in 1 .. N /\ i \in 1 .. N /\ i # N
    BY DEF IInv, TablesOK, N
  <1>3. \A j \in 1 .. N : tables[j].hkeys \in [HKey -> Entry]
    BY DEF IInv, TablesOK, TabOK, Table
  <1>4. \A j \in 1 .. N : tables[j].hkeys[h] # NoVal <=> j = k
    BY DEF Holding
  <1>5. CASE h = g
    <2>1. k = i
      BY <1>2, <1>4, <1>5 DEF MergeMove, oldEntry
    <2>2. \A j \in 1 .. N : tables'[j].hkeys[h] # NoVal <=> j = N
      BY <1>1, <1>2, <1>3, <1>4, <1>5, <2>1, NoValFresh
    <2>3. Holding(h)' = {N} /\ tables'[N].hkeys[h] = tables[k].hkeys[h]
      BY <1>1, <1>2, <1>3, <1>5, <2>1, <2>2 DEF Holding
    <2> QED
      BY <1>1, <1>2, <2>3, LookupSame, Zenon
  <1>6. CASE h # g
    <2>1. tables'[N].hkeys[h] = tables[N].hkeys[h]
      BY <1>1, <1>2, <1>3, <1>6
    <2>2. tables'[i].hkeys[h] = tables[i].hkeys[h]
      BY <1>1, <1>2, <1>3, <1>6
    <2>3. \A j \in 1 .. N : tables'[j].hkeys[h] = tables[j].hkeys[h]
      BY <1>1, <2>1, <2>2, Zenon
    <2>4. Holding(h)' = {k}
      BY <1>1, <1>4, <2>3 DEF Holding
    <2> QED
      BY <1>1, <1>2, <2>3, <2>4, LookupSame, Zenon
  <1> QED
    BY <1>5, <1>6

\* Dropping the empty older tables: the end of chunkedMergeTables.
LEMMA SweepKeepsLookup ==
  ASSUME IInv, MergeSweep, NEW h \in HKey, NEW k \in 1 .. N, Holding(h) = {k}
  PROVE  Lookup(h)' = Lookup(h)
  <1>1. N \in Nat /\ N > 1 /\ N \in 1 .. N
    BY DEF IInv, Control, TablesOK, N, MergeSweep
  <1>2. tables[N] \in Table
    BY <1>1 DEF IInv, TablesOK, TabOK
  <1>3. N' = 1 /\ tables'[1] = tables[N]
    BY <1>2 DEF MergeSweep, N
  <1>4. tables[k].hkeys[h] # NoVal
    BY DEF Holding
  <1>5. k = N
    BY <1>1, <1>4 DEF MergeSweep
  <1>6. Holding(h)' = {1}
    BY <1>3, <1>4, <1>5 DEF Holding
  <1>7. N' \in Nat /\ 1 \in 1 .. N' /\ tables'[1].hkeys[h] = tables[k].hkeys[h]
    BY <1>3, <1>5
  <1> QED
    BY <1>1, <1>6, <1>7, LookupSame, Zenon

\* A full last table: the tables there were stay as they are.
LEMMA FullKeepsLookup ==
  ASSUME IInv, NEW g \in HKey, NEW i \in 1 .. N - 1, MergeFull(i, g),
         NEW h \in HKey, NEW k \in 1 .. N, Holding(h) = {k}
  PROVE  Lookup(h)' = Lookup(h)
  <1>1. N \in Nat /\ N > 0
    BY DEF IInv, TablesOK, N
  <1>2. 2 * tables[N].allocated \in Int
    <2>1. tables[N] \in Table
      BY <1>1 DEF IInv, TablesOK, N
    <2> QED
      BY <2>1 DEF Table
  <1>3. PICK x : x = newTable(2 * tables[N].allocated)
    OBVIOUS
  <1>4. TabOK(x) /\ x.hkeys[h] = NoVal
    BY <1>2, <1>3, NewTableOK
  <1>5. tables' = Append(tables, x)
    BY <1>3 DEF MergeFull
  <1>6. N' = N + 1 /\ tables'[N + 1] = x /\ \A j \in 1 .. N : tables'[j] = tables[j]
    BY <1>4, <1>5, AppendOK, Zenon DEF IInv
  <1>7. \A j \in 1 .. N : tables[j].hkeys[h] # NoVal <=> j = k
    BY DEF Holding
  <1>8. ASSUME NEW j \in 1 .. N' PROVE tables'[j].hkeys[h] # NoVal <=> j = k
    <2>1. CASE j \in 1 .. N
      BY <1>6, <1>7, <2>1
    <2>2. CASE j = N + 1
      BY <1>1, <1>4, <1>6, <2>2
    <2> QED
      BY <1>1, <1>6, <2>1, <2>2
  <1>9. Holding(h)' = {k} /\ k \in 1 .. N' /\ tables'[k] = tables[k]
    <2>1. k \in 1 .. N'
      BY <1>1, <1>6
    <2> QED
      BY <1>6, <1>8, <2>1 DEF Holding
  <1>10. N' \in Nat /\ tables'[k].hkeys[h] = tables[k].hkeys[h]
    BY <1>1, <1>6, <1>9
  <1> QED
    BY <1>1, <1>9, <1>10, LookupSame, Zenon

\* A key no table has: it has none after a merge step either.
LEMMA AbsentStays ==
  ASSUME IInv, MergeChunk, NEW h \in HKey, Holding(h) = {}
  PROVE  Lookup(h)' = Lookup(h)
  <1>1. N \in Nat /\ \A j \in 1 .. N : tables[j].hkeys[h] = NoVal
    BY DEF IInv, TablesOK, N, Holding
  <1>2. \A j \in 1 .. N : tables[j].hkeys \in [HKey -> Entry]
    BY DEF IInv, TablesOK, TabOK, Table
  <1>3. CASE UNCHANGED tables
    BY <1>3 DEF Lookup, Check, Holding, N, IsNewest
  <1>4. CASE MergeSweep
    <2>1. N' = 1 /\ tables'[1] = tables[N] /\ N \in 1 .. N
      BY <1>1, <1>4 DEF MergeSweep, N, IInv, Control
    <2>2. Holding(h)' = {}
      BY <1>1, <2>1 DEF Holding
    <2> QED
      BY <2>2 DEF Lookup, Check
  <1>5. ASSUME NEW g \in HKey, NEW i \in 1 .. N - 1, MergeMove(i, g)
        PROVE  Lookup(h)' = Lookup(h)
    <2>1. /\ N' = N
          /\ tables'[N].hkeys = [tables[N].hkeys EXCEPT ![g] = tables[i].hkeys[g]]
          /\ tables'[i].hkeys = [tables[i].hkeys EXCEPT ![g] = NoVal]
          /\ \A j \in 1 .. N : j # i /\ j # N => tables'[j] = tables[j]
      BY <1>5, MovedTables DEF MergeMove
    <2>2. N \in 1 .. N /\ i \in 1 .. N /\ g # h
      BY <1>1, <1>5 DEF MergeMove, oldEntry
    <2>3. \A j \in 1 .. N : tables'[j].hkeys[h] = NoVal
      BY <1>1, <1>2, <2>1, <2>2
    <2>4. Holding(h)' = {}
      BY <2>1, <2>3 DEF Holding
    <2> QED
      BY <2>4 DEF Lookup, Check
  <1>6. ASSUME NEW g \in HKey, NEW i \in 1 .. N - 1, MergeFull(i, g)
        PROVE  Lookup(h)' = Lookup(h)
    <2>1. 2 * tables[N].allocated \in Int
      <3>1. tables[N] \in Table
        BY <1>1 DEF IInv, TablesOK, N
      <3> QED
        BY <3>1 DEF Table
    <2>2. PICK x : x = newTable(2 * tables[N].allocated)
      OBVIOUS
    <2>3. TabOK(x) /\ x.hkeys[h] = NoVal
      BY <2>1, <2>2, NewTableOK
    <2>4. tables' = Append(tables, x)
      BY <1>6, <2>2 DEF MergeFull
    <2>5. N' = N + 1 /\ tables'[N + 1] = x /\ \A j \in 1 .. N : tables'[j] = tables[j]
      BY <2>3, <2>4, AppendOK, Zenon DEF IInv
    <2>6. ASSUME NEW j \in 1 .. N' PROVE tables'[j].hkeys[h] = NoVal
      <3>1. CASE j \in 1 .. N
        BY <1>1, <2>5, <3>1
      <3>2. CASE j = N + 1
        BY <2>3, <2>5, <3>2
      <3> QED
        BY <1>1, <2>5, <3>1, <3>2
    <2>7. Holding(h)' = {}
      BY <2>6 DEF Holding
    <2> QED
      BY <2>7 DEF Lookup, Check
  <1> QED
    BY <1>3, <1>4, <1>5, <1>6 DEF MergeChunk, MergeBegin, MergeNoMemory

\* merge.go never changes what Get returns for a key that only one table has;
\* by GetReturnsLastPut's counterexample the restriction is needed.
THEOREM StorageMergeKeepsUniqueKeys == Spec => MergeKeepsUniqueKeys
  <1>1. ASSUME IInv, MergeChunk, NEW h \in HKey, \A i, j \in Holding(h) : i = j
        PROVE  Lookup(h)' = Lookup(h)
    <2>1. CASE Holding(h) = {}
      BY <1>1, <2>1, AbsentStays
    <2>2. CASE Holding(h) # {}
      <3>1. PICK k \in 1 .. N : Holding(h) = {k}
        BY <1>1, <2>2 DEF Holding
      <3>2. CASE UNCHANGED tables
        BY <3>2 DEF Lookup, Check, Holding, N, IsNewest
      <3> QED
        BY <1>1, <3>1, <3>2, SweepKeepsLookup, MoveKeepsLookup, FullKeepsLookup
           DEF MergeChunk, MergeBegin, MergeNoMemory
    <2> QED
      BY <2>1, <2>2
  <1>2. IInv /\ [Next]_vars
        => [MergeChunk => \A h \in HKey : (\A i, j \in Holding(h) : i = j) => Lookup(h)' = Lookup(h)]_vars
    BY <1>1
  <1> QED
    BY <1>2, StorageInvariant, PTL DEF Spec, MergeKeepsUniqueKeys

-----------------------------------------------------------------------------
(* The table a put appends is empty until that put writes to it. *)

Fresh == mu = "put" => tables[N].offset = 0

\* The table Put appends is empty.
LEMMA GrownIsFresh ==
  ASSUME IInv, N \in Nat, N > 0, tables' = grow
  PROVE  tables'[N'].offset = 0
  <1>1. 2 * tables[N].inuse \in Int
    <2>1. tables[N] \in Table
      BY DEF IInv, TablesOK, N
    <2> QED
      BY <2>1 DEF Table
  <1>2. PICK x : x = newTable(2 * tables[N].inuse)
    OBVIOUS
  <1>3. TabOK(x) /\ x.offset = 0
    BY <1>1, <1>2, NewTableOK DEF newTable
  <1>4. tables' = Append(tables, x)
    BY <1>2 DEF grow
  <1>5. N' = N + 1 /\ tables'[N + 1] = x
    BY <1>3, <1>4, AppendOK, Zenon DEF IInv
  <1> QED
    BY <1>3, <1>5

\* While Put loops, the table it appended last is empty: s.mu keeps the merge out.
LEMMA NextFresh == IInv /\ Fresh /\ [Next]_vars => Fresh'
  <1> SUFFICES ASSUME IInv, Fresh, [Next]_vars, mu' = "put" PROVE tables'[N'].offset = 0
    BY DEF Fresh
  <1>1. \/ UNCHANGED <<tables, mu>>
        \/ PutGrowAgain
        \/ \E h \in HKey, v \in Val, raw \in BOOLEAN : PutGrow(h, v, raw)
    BY Zenon DEF Next, Use, Work, MergeChunk, vars, Put, PutRetry, PutFails, Delete, Get, Forget, MergeBegin,
           MergeMove, MergeFull, MergeNoMemory, MergeSweep, MergeTick, MergeCancelled, MergeExit,
           WgDone, CloseBegin, CloseEnd, mergeIdle, called, oldEntry, pause
  <1>2. CASE UNCHANGED <<tables, mu>>
    BY <1>2 DEF Fresh, N
  <1>3. CASE PutGrowAgain
    <2>1. N \in Nat /\ N > 0
      BY <1>3 DEF IInv, Control, PutGrowAgain, TablesOK, N
    <2> QED
      BY <1>3, <2>1, GrownIsFresh DEF PutGrowAgain
  <1>4. ASSUME NEW h \in HKey, NEW v \in Val, NEW raw \in BOOLEAN, PutGrow(h, v, raw)
        PROVE  tables'[N'].offset = 0
    <2>1. N \in Nat /\ N > 0
      BY <1>4, OpenHasTable DEF PutGrow, called
    <2> QED
      BY <1>4, <2>1, GrownIsFresh DEF PutGrow
  <1> QED
    BY <1>1, <1>2, <1>3, <1>4

\* For an entry that fits the smallest table the loop of Put and PutRaw goes
\* round once: the table they append has room.
THEOREM StorageNewTableHasRoom == Spec => []NewTableHasRoom
  <1>1. Init => Fresh
    BY DEF Init, Fresh
  <1>2. IInv /\ Fresh => NewTableHasRoom
    <2> SUFFICES ASSUME IInv, Fresh, mu = "put", bytes(pend[2], pend[3]) < minimumSize
                 PROVE  hasSpace(tables[N], bytes(pend[2], pend[3]))
      BY DEF NewTableHasRoom
    <2>1. N \in 1 .. N /\ pend \in HKey \X Val \X BOOLEAN /\ tables[N].offset = 0
      BY DEF IInv, Control, TablesOK, N, Fresh
    <2>2. tables[N].allocated \in Int /\ minimumSize <= tables[N].allocated
      BY <2>1 DEF IInv, TablesOK, TabOK, Table
    <2>3. pend[2] \in Val /\ Size[pend[2]] \in Nat
      BY <2>1, SizeType
    <2>4. bytes(pend[2], pend[3]) \in Nat
      BY <2>3, SizesNat DEF bytes, rawSize
    <2> QED
      BY <2>1, <2>2, <2>4, SizesNat DEF hasSpace
  <1> QED
    BY <1>1, <1>2, NextFresh, StorageInvariant, PTL DEF Spec
=============================================================================
