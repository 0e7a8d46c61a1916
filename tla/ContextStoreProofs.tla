------------------------- MODULE ContextStoreProofs -------------------------
(***************************************************************************)
(* What TLAPS proves of ContextStore, for every set of keys, transactions  *)
(* and callers and every bound on the number of writes.                    *)
(***************************************************************************)
EXTENDS ContextStore, TLAPS

USE WritersAssumption, NobodyAssumption, VersionsAssumption, BoundAssumption

-----------------------------------------------------------------------------
(* What an accepted write leaves behind.                                   *)

LEMMA WrittenIsRecord ==
  ASSUME NEW map \in RecordMap, NEW k \in Keys, NEW op \in Operations,
         NEW w \in Writers, NEW n \in Nat
  PROVE  Written(map, op, k, w, n) \in Record
BY DEF Written, Record, RecordMap, Absent

LEMMA WrittenByWriter ==
  ASSUME NEW map \in RecordMap, NEW k \in Keys, NEW op \in Operations,
         NEW w \in Writers, NEW n \in Nat
  PROVE  \/ Written(map, op, k, w, n) = Absent
         \/ Written(map, op, k, w, n).writer = w
BY DEF Written, Record, RecordMap, Absent

(* The version a write returns is at least the version it leaves.          *)
LEMMA ReturnedCoversWritten ==
  ASSUME NEW map \in RecordMap, NEW k \in Keys, NEW op \in Operations,
         NEW w \in Writers, NEW n \in Nat
  PROVE  /\ ReturnedVersion(map, op, k) \in Nat
         /\ Written(map, op, k, w, n).version <= ReturnedVersion(map, op, k)
         /\ Written(map, op, k, w, n).version <= map[k].version + 1
BY DEF Written, ReturnedVersion, Record, RecordMap, Absent

-----------------------------------------------------------------------------
(* The type invariant.                                                     *)

LEMMA EmptyMapIsRecordMap == EmptyMap \in RecordMap
BY DEF EmptyMap, RecordMap, Absent, Record

LEMMA TypeInit == Init => TypeOK
<1> SUFFICES ASSUME Init PROVE TypeOK
  OBVIOUS
<1>1. records \in RecordMap /\ base \in [Txs -> RecordMap]
      /\ working \in [Txs -> RecordMap]
  BY EmptyMapIsRecordMap DEF Init
<1>2. revision \in Nat /\ serial \in [Writers -> Nat] /\ id \in [Txs -> Nat]
      /\ txRevision \in [Txs -> Nat]
  BY DEF Init
<1>3. << >> \in Seq(Continuation)
  OBVIOUS
<1>4. pending \in [Txs -> Seq(Continuation)]
  BY <1>3 DEF Init
<1>5. state \in [Txs -> States] /\ touched \in [Txs -> SUBSET Keys]
  BY DEF Init, States
<1>6. hasty \in BOOLEAN
  BY DEF Init
<1>7. QED
  BY <1>1, <1>2, <1>4, <1>5, <1>6 DEF TypeOK

LEMMA TypeWrite ==
  ASSUME TypeOK, NEW c \in Callers, NEW op \in Operations, NEW k \in Keys,
         Write(c, op, k)
  PROVE  TypeOK'
<1>1. Written(records, op, k, c, serial[c] + 1) \in Record
  BY WrittenIsRecord DEF TypeOK
<1>2. records' \in RecordMap
  BY <1>1 DEF Write, TypeOK, RecordMap
<1>3. revision' \in Nat /\ serial' \in [Writers -> Nat]
  BY DEF Write, TypeOK
<1>4. QED
  BY <1>2, <1>3 DEF Write, TypeOK, txVars

LEMMA TypeTxWrite ==
  ASSUME TypeOK, NEW t \in Txs, NEW op \in Operations, NEW k \in Keys,
         TxWrite(t, op, k)
  PROVE  TypeOK'
<1>1. working[t] \in RecordMap
  BY DEF TypeOK
<1>2. Written(working[t], op, k, t, serial[t] + 1) \in Record
  BY <1>1, WrittenIsRecord DEF TypeOK
<1>3. working' \in [Txs -> RecordMap]
  BY <1>1, <1>2 DEF TxWrite, TypeOK, RecordMap
<1>4. [key |-> k, version |-> ReturnedVersion(working[t], op, k)] \in Continuation
  BY <1>1, ReturnedCoversWritten DEF Continuation, TypeOK
<1>5. pending' \in [Txs -> Seq(Continuation)]
  BY <1>4 DEF TxWrite, TypeOK
<1>6. serial' \in [Writers -> Nat]
  BY DEF TxWrite, TypeOK
<1>7. QED
  BY <1>3, <1>5, <1>6 DEF TxWrite, TypeOK, storeVars

LEMMA TypeSettle ==
  ASSUME TypeOK, NEW t \in Txs, Settle(t)
  PROVE  TypeOK'
<1>1. pending[t] \in Seq(Continuation) /\ pending[t] # << >>
  BY DEF Settle, TypeOK
<1>2. Head(pending[t]) \in Continuation /\ Tail(pending[t]) \in Seq(Continuation)
  BY <1>1
<1>3. touched' \in [Txs -> SUBSET Keys]
  BY <1>2 DEF Settle, TypeOK, Continuation
<1>4. txRevision' \in [Txs -> Nat]
  BY <1>2 DEF Settle, TypeOK, Continuation, Maximum
<1>5. pending' \in [Txs -> Seq(Continuation)]
  BY <1>2 DEF Settle, TypeOK
<1>6. QED
  BY <1>3, <1>4, <1>5 DEF Settle, TypeOK, storeVars

LEMMA TypeStep == TypeOK /\ [Next]_vars => TypeOK'
<1> SUFFICES ASSUME TypeOK, [Next]_vars PROVE TypeOK'
  OBVIOUS
<1>1. CASE \E c \in Callers, op \in Operations, k \in Keys : Write(c, op, k)
  BY <1>1, TypeWrite
<1>2. ASSUME NEW t \in Txs, Begin(t) PROVE TypeOK'
  BY <1>2 DEF Begin, TypeOK, States, storeVars
<1>3. ASSUME NEW t \in Txs, NEW op \in Operations, NEW k \in Keys, TxWrite(t, op, k)
      PROVE  TypeOK'
  BY <1>3, TypeTxWrite
<1>4. ASSUME NEW t \in Txs, Settle(t) PROVE TypeOK'
  BY <1>4, TypeSettle
<1>5. ASSUME NEW t \in Txs, Commit(t) PROVE TypeOK'
  BY <1>5 DEF Commit, TypeOK, States
<1>6. ASSUME NEW t \in Txs, Rollback(t) PROVE TypeOK'
  BY <1>6 DEF Rollback, TypeOK, States, storeVars
<1>7. CASE UNCHANGED vars
  BY <1>7 DEF TypeOK, vars
<1>8. QED
  BY <1>1, <1>2, <1>3, <1>4, <1>5, <1>6, <1>7 DEF Next, DirectStep, TxStep

(* The fields of the store and of every transaction keep their types.      *)
THEOREM TypeCorrect == Spec => []TypeOK
BY TypeInit, TypeStep, PTL DEF Spec

-----------------------------------------------------------------------------
(* No dirty reads.  The invariant is inductive relative to the types: a    *)
(* working copy begins as the store, so what holds of the store's records  *)
(* holds of the copy, and commit hands the copy back.                      *)

LEMMA DirtyInit == Init => NoDirtyRead
BY DEF Init, NoDirtyRead, EmptyMap, Absent

LEMMA DirtyWrite ==
  ASSUME TypeOK, NoDirtyRead,
         NEW c \in Callers, NEW op \in Operations, NEW k \in Keys, Write(c, op, k)
  PROVE  NoDirtyRead'
<1>1. \A t \in Txs : Written(records, op, k, c, serial[c] + 1).writer # t
  BY WrittenByWriter DEF TypeOK, Absent
<1>2. \A j \in Keys, t \in Txs :
        records'[j].writer = t => records[j].writer = t
  BY <1>1 DEF Write, TypeOK, RecordMap
<1>3. QED
  BY <1>2 DEF Write, NoDirtyRead, txVars

LEMMA DirtyBegin ==
  ASSUME TypeOK, NoDirtyRead, NEW u \in Txs, Begin(u)
  PROVE  NoDirtyRead'
<1>1. \A v \in Txs : v # u => working'[v] = working[v]
  BY DEF Begin, TypeOK
<1>2. working'[u] = records
  BY DEF Begin, TypeOK
<1>3. \A t \in Txs : state'[t] # "committed" => state[t] # "committed"
  BY DEF Begin, TypeOK
<1>4. records' = records
  BY DEF Begin, storeVars
<1>5. QED
  BY <1>1, <1>2, <1>3, <1>4 DEF NoDirtyRead

LEMMA DirtyTxWrite ==
  ASSUME TypeOK, NoDirtyRead,
         NEW u \in Txs, NEW op \in Operations, NEW k \in Keys, TxWrite(u, op, k)
  PROVE  NoDirtyRead'
<1>1. working[u] \in RecordMap /\ serial[u] + 1 \in Nat
  BY DEF TypeOK
<1>2. \A t \in Txs \ {u} : Written(working[u], op, k, u, serial[u] + 1).writer # t
  BY <1>1, WrittenByWriter DEF Absent
<1>3. \A j \in Keys, v \in Txs, t \in Txs \ {u} :
        working'[v][j].writer = t => working[v][j].writer = t
  BY <1>1, <1>2 DEF TxWrite, TypeOK, RecordMap
<1>4. \A v \in Txs \ {u} : working'[v] = working[v]
  BY DEF TxWrite, TypeOK
<1>5. records' = records /\ state' = state
  BY DEF TxWrite, storeVars
<1>6. QED
  BY <1>3, <1>4, <1>5 DEF NoDirtyRead

LEMMA DirtyCommit ==
  ASSUME TypeOK, NoDirtyRead, NEW u \in Txs, Commit(u)
  PROVE  NoDirtyRead'
<1>1. \A t \in Txs : state'[t] # "committed" => t # u /\ state[t] # "committed"
  BY DEF Commit, TypeOK
<1>2. records' = working[u] /\ working' = working
  BY DEF Commit
<1>3. QED
  BY <1>1, <1>2 DEF NoDirtyRead

LEMMA DirtyStep == TypeOK /\ NoDirtyRead /\ [Next]_vars => NoDirtyRead'
<1> SUFFICES ASSUME TypeOK, NoDirtyRead, [Next]_vars PROVE NoDirtyRead'
  OBVIOUS
<1>1. CASE \E c \in Callers, op \in Operations, k \in Keys : Write(c, op, k)
  BY <1>1, DirtyWrite
<1>2. ASSUME NEW u \in Txs, Begin(u) PROVE NoDirtyRead'
  BY <1>2, DirtyBegin
<1>3. ASSUME NEW u \in Txs, NEW op \in Operations, NEW k \in Keys, TxWrite(u, op, k)
      PROVE  NoDirtyRead'
  BY <1>3, DirtyTxWrite
<1>4. ASSUME NEW u \in Txs, Settle(u) PROVE NoDirtyRead'
  BY <1>4 DEF Settle, NoDirtyRead, storeVars
<1>5. ASSUME NEW u \in Txs, Commit(u) PROVE NoDirtyRead'
  BY <1>5, DirtyCommit
<1>6. ASSUME NEW u \in Txs, Rollback(u) PROVE NoDirtyRead'
  BY <1>6 DEF Rollback, NoDirtyRead, TypeOK, storeVars
<1>7. CASE UNCHANGED vars
  BY <1>7 DEF NoDirtyRead, vars
<1>8. QED
  BY <1>1, <1>2, <1>3, <1>4, <1>5, <1>6, <1>7 DEF Next, DirectStep, TxStep

(* No record written by a transaction that has not committed is ever in    *)
(* the store or in another transaction's working copy.                     *)
THEOREM NoDirtyReadCorrect == Spec => []NoDirtyRead
BY TypeCorrect, DirtyInit, DirtyStep, PTL DEF Spec

-----------------------------------------------------------------------------
(* Snapshots.  A write leaves its mark in `pending` in the step that       *)
(* changes the working copy, and Settle moves the mark to `touched`: no    *)
(* step loses one.                                                         *)

LEMMA TxWriteMarks ==
  ASSUME TypeOK,
         NEW u \in Txs, NEW op \in Operations, NEW k \in Keys, TxWrite(u, op, k)
  PROVE  /\ Marked(u, k)'
         /\ \A t \in Txs, j \in Keys : Marked(t, j) => Marked(t, j)'
<1> DEFINE c == [key |-> k, version |-> ReturnedVersion(working[u], op, k)]
<1>1. pending[u] \in Seq(Continuation) /\ c \in Continuation
  BY ReturnedCoversWritten DEF TypeOK, Continuation
<1>2. pending'[u] = Append(pending[u], c) /\ touched' = touched
  BY DEF TxWrite, TypeOK
<1>3. /\ Len(pending'[u]) = Len(pending[u]) + 1
      /\ Len(pending[u]) \in Nat
      /\ pending'[u][Len(pending[u]) + 1] = c
      /\ \A i \in 1 .. Len(pending[u]) : pending'[u][i] = pending[u][i]
  BY <1>1, <1>2
<1>4. Marked(u, k)'
  BY <1>3 DEF Marked
<1>5. \A t \in Txs \ {u} : pending'[t] = pending[t]
  BY DEF TxWrite, TypeOK
<1>6. ASSUME NEW j \in Keys, Marked(u, j) PROVE Marked(u, j)'
  BY <1>2, <1>3, <1>6 DEF Marked
<1>7. QED
  BY <1>2, <1>4, <1>5, <1>6 DEF Marked

LEMMA SettleMarks ==
  ASSUME TypeOK, NEW u \in Txs, Settle(u)
  PROVE  \A t \in Txs, j \in Keys : Marked(t, j) => Marked(t, j)'
<1>1. pending[u] \in Seq(Continuation) /\ pending[u] # << >>
  BY DEF Settle, TypeOK
<1>2. /\ touched'[u] = touched[u] \cup {Head(pending[u]).key}
      /\ pending'[u] = Tail(pending[u])
      /\ \A t \in Txs \ {u} : touched'[t] = touched[t] /\ pending'[t] = pending[t]
  BY DEF Settle, TypeOK
<1>3. /\ Head(pending[u]) = pending[u][1]
      /\ Len(pending[u]) \in Nat
      /\ Len(pending'[u]) = Len(pending[u]) - 1
      /\ \A i \in 1 .. Len(pending[u]) - 1 : pending'[u][i] = pending[u][i + 1]
  BY <1>1, <1>2
<1>4. ASSUME NEW j \in Keys, NEW i \in 1 .. Len(pending[u]), pending[u][i].key = j
      PROVE  Marked(u, j)'
  <2>1. CASE i = 1
    BY <1>2, <1>3, <1>4, <2>1 DEF Marked
  <2>2. CASE i # 1
    <3>1. i - 1 \in 1 .. Len(pending'[u]) /\ pending'[u][i - 1] = pending[u][i]
      BY <1>3, <2>2
    <3>2. QED
      BY <1>4, <3>1 DEF Marked
  <2>3. QED
    BY <2>1, <2>2
<1>5. QED
  BY <1>2, <1>4 DEF Marked

LEMMA SnapshotTxWrite ==
  ASSUME TypeOK, SnapshotPlusOwnWrites,
         NEW u \in Txs, NEW op \in Operations, NEW k \in Keys, TxWrite(u, op, k)
  PROVE  SnapshotPlusOwnWrites'
<1>1. working[u] \in RecordMap /\ serial[u] + 1 \in Nat
  BY DEF TypeOK
<1>2. working'[u][k] = Absent \/ working'[u][k].writer = u
  <2>1. working'[u][k] = Written(working[u], op, k, u, serial[u] + 1)
    BY <1>1 DEF TxWrite, TypeOK, RecordMap
  <2>2. QED
    BY <1>1, <2>1, WrittenByWriter
<1>3. \A t \in Txs, j \in Keys : t # u \/ j # k => working'[t][j] = working[t][j]
  BY <1>1 DEF TxWrite, TypeOK, RecordMap
<1>4. base' = base
  BY DEF TxWrite
<1>5. QED
  BY <1>2, <1>3, <1>4, TxWriteMarks DEF SnapshotPlusOwnWrites

LEMMA SnapshotBegin ==
  ASSUME TypeOK, SnapshotPlusOwnWrites, NEW u \in Txs, Begin(u)
  PROVE  SnapshotPlusOwnWrites'
<1>1. working'[u] = base'[u]
  BY DEF Begin, TypeOK
<1>2. \A t \in Txs \ {u} : working'[t] = working[t] /\ base'[t] = base[t]
  BY DEF Begin, TypeOK
<1>3. touched' = touched /\ pending' = pending
  BY DEF Begin
<1>4. QED
  BY <1>1, <1>2, <1>3 DEF SnapshotPlusOwnWrites, Marked

LEMMA SnapshotStep ==
  TypeOK /\ SnapshotPlusOwnWrites /\ [Next]_vars => SnapshotPlusOwnWrites'
<1> SUFFICES ASSUME TypeOK, SnapshotPlusOwnWrites, [Next]_vars
             PROVE  SnapshotPlusOwnWrites'
  OBVIOUS
<1>1. ASSUME NEW c \in Callers, NEW op \in Operations, NEW k \in Keys, Write(c, op, k)
      PROVE  SnapshotPlusOwnWrites'
  BY <1>1 DEF Write, SnapshotPlusOwnWrites, Marked, txVars
<1>2. ASSUME NEW u \in Txs, Begin(u) PROVE SnapshotPlusOwnWrites'
  BY <1>2, SnapshotBegin
<1>3. ASSUME NEW u \in Txs, NEW op \in Operations, NEW k \in Keys, TxWrite(u, op, k)
      PROVE  SnapshotPlusOwnWrites'
  BY <1>3, SnapshotTxWrite
<1>4. ASSUME NEW u \in Txs, Settle(u) PROVE SnapshotPlusOwnWrites'
  <2>1. working' = working /\ base' = base
    BY <1>4 DEF Settle
  <2>2. QED
    BY <1>4, <2>1, SettleMarks DEF SnapshotPlusOwnWrites
<1>5. ASSUME NEW u \in Txs, Commit(u) PROVE SnapshotPlusOwnWrites'
  BY <1>5 DEF Commit, SnapshotPlusOwnWrites, Marked
<1>6. ASSUME NEW u \in Txs, Rollback(u) PROVE SnapshotPlusOwnWrites'
  BY <1>6 DEF Rollback, SnapshotPlusOwnWrites, Marked
<1>7. CASE UNCHANGED vars
  BY <1>7 DEF SnapshotPlusOwnWrites, Marked, vars
<1>8. QED
  BY <1>1, <1>2, <1>3, <1>4, <1>5, <1>6, <1>7 DEF Next, DirectStep, TxStep

(* A transaction's copy is its snapshot changed by its own writes, and     *)
(* every changed key is one its commit compares.                           *)
THEOREM SnapshotCorrect == Spec => []SnapshotPlusOwnWrites
<1>1. Init => SnapshotPlusOwnWrites
  BY DEF Init, SnapshotPlusOwnWrites
<1>2. QED
  BY <1>1, TypeCorrect, SnapshotStep, PTL DEF Spec

-----------------------------------------------------------------------------
(* Commits.                                                                *)

LEMMA ConflictsStep ==
  ASSUME TypeOK, SnapshotPlusOwnWrites, Next, NEW t \in Txs, Commits(t),
         pending[t] = << >>, NEW k \in Keys, working[t][k] # base[t][k]
  PROVE  records[k].version = base[t][k].version
<1>1. Commit(t)
  <2>1. ASSUME NEW c \in Callers, NEW op \in Operations, NEW j \in Keys, Write(c, op, j)
        PROVE  FALSE
    BY <2>1 DEF Write, Commits, txVars
  <2>2. ASSUME NEW u \in Txs, Begin(u) PROVE FALSE
    BY <2>2 DEF Begin, Commits, TypeOK
  <2>3. ASSUME NEW u \in Txs, NEW op \in Operations, NEW j \in Keys, TxWrite(u, op, j)
        PROVE  FALSE
    BY <2>3 DEF TxWrite, Commits
  <2>4. ASSUME NEW u \in Txs, Settle(u) PROVE FALSE
    BY <2>4 DEF Settle, Commits
  <2>5. ASSUME NEW u \in Txs, u # t, Commit(u) PROVE FALSE
    BY <2>5 DEF Commit, Commits, TypeOK
  <2>6. ASSUME NEW u \in Txs, Rollback(u) PROVE FALSE
    BY <2>6 DEF Rollback, Commits, TypeOK
  <2>7. QED
    BY <2>1, <2>2, <2>3, <2>4, <2>5, <2>6 DEF Next, DirectStep, TxStep
<1>2. Len(pending[t]) = 0
  OBVIOUS
<1>3. k \in touched[t]
  BY <1>2 DEF SnapshotPlusOwnWrites, Marked
<1>4. QED
  BY <1>1, <1>3 DEF Commit, Conflicts

(* No awaited transaction commits over a key whose version moved.          *)
THEOREM ConflictsDetectedCorrect == Spec => ConflictsDetected
<1> DEFINE Detected == \A t \in Txs : Commits(t) /\ pending[t] = << >> =>
                         \A k \in Keys : working[t][k] # base[t][k] =>
                           records[k].version = base[t][k].version
<1>1. TypeOK /\ SnapshotPlusOwnWrites /\ [Next]_vars => [Detected]_vars
  BY ConflictsStep
<1>2. QED
  BY <1>1, TypeCorrect, SnapshotCorrect, PTL DEF Spec, ConflictsDetected

LEMMA ClosedStep ==
  ASSUME TypeOK, Next, NEW t \in Txs, state[t] \in Closed
  PROVE  state'[t] = state[t] /\ working'[t] = working[t]
<1>1. ASSUME NEW c \in Callers, NEW op \in Operations, NEW j \in Keys, Write(c, op, j)
      PROVE  state' = state /\ working' = working
  BY <1>1 DEF Write, txVars
<1>2. ASSUME NEW u \in Txs, Begin(u)
      PROVE  state'[t] = state[t] /\ working'[t] = working[t]
  BY <1>2 DEF Begin, TypeOK, Closed
<1>3. ASSUME NEW u \in Txs, NEW op \in Operations, NEW j \in Keys, TxWrite(u, op, j)
      PROVE  state'[t] = state[t] /\ working'[t] = working[t]
  BY <1>3 DEF TxWrite, TypeOK, Closed
<1>4. ASSUME NEW u \in Txs, Settle(u) PROVE state' = state /\ working' = working
  BY <1>4 DEF Settle
<1>5. ASSUME NEW u \in Txs, Commit(u) \/ Rollback(u)
      PROVE  state'[t] = state[t] /\ working'[t] = working[t]
  BY <1>5 DEF Commit, Rollback, TypeOK, Closed
<1>6. QED
  BY <1>1, <1>2, <1>3, <1>4, <1>5 DEF Next, DirectStep, TxStep

(* A closed transaction stays closed, with its working copy frozen.        *)
THEOREM ClosedIsFinalCorrect == Spec => ClosedIsFinal
<1> DEFINE Final == \A t \in Txs : state[t] \in Closed =>
                      state'[t] = state[t] /\ working'[t] = working[t]
<1>1. TypeOK /\ [Next]_vars => [Final]_vars
  BY ClosedStep
<1>2. QED
  BY <1>1, TypeCorrect, PTL DEF Spec, ClosedIsFinal
-----------------------------------------------------------------------------
(* The store implements SnapshotStore.  Each action takes one step of it,  *)
(* or none when a continuation leaves others waiting.                      *)

USE DEF Snapshots!OneWrite

LEMMA WrittenVersion ==
  ASSUME NEW map \in RecordMap, NEW k \in Keys, NEW op \in Operations,
         NEW w \in Writers, NEW n \in Nat
  PROVE  Written(map, op, k, w, n).version \in {0, map[k].version + 1}
BY DEF Written, RecordMap, Record, Absent

(* What the copies become when nothing opens or ends a transaction.        *)
LEMMA CopiesKept ==
  state' = state /\ base' = base =>
    /\ OpenBase' = OpenBase
    /\ working' = working => OpenCopy' = OpenCopy
BY DEF OpenBase, OpenCopy, Open

LEMMA SnapshotsWrite ==
  ASSUME TypeOK, NEW c \in Callers, NEW op \in Operations, NEW k \in Keys,
         Write(c, op, k)
  PROVE  Snapshots!Write
<1> DEFINE w == Written(records, op, k, c, serial[c] + 1)
<1>1. records \in RecordMap /\ serial[c] + 1 \in Nat
  BY DEF TypeOK
<1>2. w.version \in {0, records[k].version + 1}
  BY <1>1, WrittenVersion
<1>3. records' = [records EXCEPT ![k] = w]
  BY DEF Write
<1>4. records'[k] = w /\ \A j \in Keys \ {k} : records'[j] = records[j]
  BY <1>1, <1>3 DEF RecordMap
<1>5. state' = state /\ base' = base /\ working' = working /\ pending' = pending
  BY DEF Write, txVars
<1>6. UNCHANGED <<state, OpenBase, OpenCopy, Awaiting>>
  BY <1>5, CopiesKept DEF Awaiting
<1>7. QED
  BY <1>2, <1>4, <1>6 DEF Snapshots!Write

LEMMA SnapshotsBegin ==
  ASSUME TypeOK, NEW t \in Txs, Begin(t)
  PROVE  Snapshots!Begin(t)
<1>1. /\ state[t] = "unused" /\ state' = [state EXCEPT ![t] = "active"]
      /\ records' = records /\ pending' = pending
  BY DEF Begin, storeVars
<1>2. /\ base'[t] = records /\ working'[t] = records /\ state'[t] = "active"
      /\ \A u \in Txs \ {t} : /\ base'[u] = base[u] /\ working'[u] = working[u]
                              /\ state'[u] = state[u]
  BY DEF Begin, TypeOK
<1>3. OpenBase' = [OpenBase EXCEPT ![t] = records]
  BY <1>2 DEF OpenBase, Open
<1>4. OpenCopy' = [OpenCopy EXCEPT ![t] = records]
  BY <1>2 DEF OpenCopy, Open
<1>5. UNCHANGED <<records, Awaiting>>
  BY <1>1 DEF Awaiting
<1>6. QED
  BY <1>1, <1>3, <1>4, <1>5 DEF Snapshots!Begin

LEMMA SnapshotsChange ==
  ASSUME TypeOK, NEW t \in Txs, NEW op \in Operations, NEW k \in Keys,
         TxWrite(t, op, k)
  PROVE  Snapshots!Change(t)
<1> DEFINE w == Written(working[t], op, k, t, serial[t] + 1)
<1>1. working[t] \in RecordMap /\ serial[t] + 1 \in Nat
  BY DEF TypeOK
<1>2. w.version \in {0, working[t][k].version + 1}
  BY <1>1, WrittenVersion
<1>3. /\ state[t] = "active" /\ state' = state /\ base' = base /\ records' = records
      /\ \A u \in Txs \ {t} : working'[u] = working[u]
  BY DEF TxWrite, TypeOK, storeVars
<1>4. working'[t][k] = w /\ \A j \in Keys \ {k} : working'[t][j] = working[t][j]
  BY <1>1 DEF TxWrite, TypeOK, RecordMap
<1>5. OpenCopy[t] = working[t] /\ OpenCopy'[t] = working'[t]
  BY <1>3 DEF OpenCopy, Open
<1>6. OpenCopy' = [OpenCopy EXCEPT ![t] = OpenCopy'[t]]
  BY <1>3 DEF OpenCopy, Open
<1>7. Awaiting' = Awaiting \cup {t}
  <2>1. \A u \in Txs \ {t} : pending'[u] = pending[u]
    BY DEF TxWrite, TypeOK
  <2>2. pending'[t] # << >>
    <3>1. pending[t] \in Seq(Continuation)
      BY DEF TypeOK
    <3>2. \E c : pending'[t] = Append(pending[t], c)
      BY DEF TxWrite, TypeOK
    <3>3. QED
      BY <3>1, <3>2
  <2>3. QED
    BY <2>1, <2>2 DEF Awaiting
<1>8. Snapshots!OneWrite(OpenCopy[t], OpenCopy'[t])
  BY <1>2, <1>4, <1>5
<1>9. UNCHANGED <<records, state, OpenBase>>
  BY <1>3, CopiesKept
<1>10. QED
  BY <1>3, <1>6, <1>7, <1>8, <1>9 DEF Snapshots!Change

LEMMA SnapshotsSettle ==
  ASSUME TypeOK, NEW t \in Txs, Settle(t)
  PROVE  Snapshots!Resume(t) \/ UNCHANGED Snapshots!vars
<1>1. UNCHANGED <<records, state, OpenBase, OpenCopy>>
  BY CopiesKept DEF Settle, storeVars
<1>2. Awaiting' \in {Awaiting, Awaiting \ {t}}
  <2>1. \A u \in Txs \ {t} : pending'[u] = pending[u]
    BY DEF Settle, TypeOK
  <2>2. t \in Awaiting
    BY DEF Settle, Awaiting
  <2>3. QED
    BY <2>1, <2>2 DEF Awaiting
<1>3. QED
  BY <1>1, <1>2 DEF Snapshots!Resume, Snapshots!vars

(* A transaction that ends loses its copies, and the others keep theirs.   *)
LEMMA SnapshotsEnd ==
  ASSUME TypeOK, NEW t \in Txs, NEW outcome \in Closed, state[t] = "active",
         state' = [state EXCEPT ![t] = outcome],
         base' = base, working' = working, pending' = pending
  PROVE  Snapshots!End({t}, outcome)
<1>1. /\ outcome # "active" /\ state'[t] = outcome
      /\ \A u \in Txs \ {t} : state'[u] = state[u]
  BY DEF TypeOK, Closed
<1>2. state' = [u \in Txs |-> IF u \in {t} THEN outcome ELSE state[u]]
  BY DEF TypeOK
<1>3. OpenBase' = [u \in Txs |-> IF u \in {t} THEN EmptyMap ELSE OpenBase[u]]
  BY <1>1 DEF OpenBase, Open
<1>4. OpenCopy' = [u \in Txs |-> IF u \in {t} THEN EmptyMap ELSE OpenCopy[u]]
  BY <1>1 DEF OpenCopy, Open
<1>5. UNCHANGED Awaiting
  BY DEF Awaiting
<1>6. QED
  BY <1>2, <1>3, <1>4, <1>5 DEF Snapshots!End

LEMMA SnapshotsCommit ==
  ASSUME TypeOK, SnapshotPlusOwnWrites, NEW t \in Txs, Commit(t)
  PROVE  Snapshots!Commit(t)
<1>1. /\ state[t] = "active" /\ records' = working[t]
      /\ OpenCopy[t] = working[t] /\ OpenBase[t] = base[t]
  BY DEF Commit, OpenCopy, OpenBase, Open
<1>2. Snapshots!End({t}, "committed")
  BY SnapshotsEnd DEF Commit, Closed
<1>3. ASSUME t \notin Awaiting, NEW k \in Keys, working[t][k] # base[t][k]
      PROVE  records[k].version = base[t][k].version
  <2>1. Len(pending[t]) = 0
    BY <1>3 DEF Awaiting
  <2>2. k \in touched[t]
    BY <1>3, <2>1 DEF SnapshotPlusOwnWrites, Marked
  <2>3. QED
    BY <2>2 DEF Commit, Conflicts
<1>4. QED
  BY <1>1, <1>2, <1>3 DEF Snapshots!Commit, Snapshots!Unchanged

LEMMA SnapshotsRollback ==
  ASSUME TypeOK, NEW t \in Txs, Rollback(t)
  PROVE  Snapshots!Rollback(t)
BY SnapshotsEnd DEF Rollback, Closed, storeVars, Snapshots!Rollback

LEMMA SnapshotsStep ==
  TypeOK /\ SnapshotPlusOwnWrites /\ [Next]_vars => [Snapshots!Next]_(Snapshots!vars)
<1> SUFFICES ASSUME TypeOK, SnapshotPlusOwnWrites, [Next]_vars
             PROVE  Snapshots!Next \/ UNCHANGED Snapshots!vars
  OBVIOUS
<1>1. CASE \E c \in Callers, op \in Operations, k \in Keys : Write(c, op, k)
  BY <1>1, SnapshotsWrite DEF Snapshots!Next
<1>2. ASSUME NEW t \in Txs, Begin(t) PROVE Snapshots!Next
  BY <1>2, SnapshotsBegin DEF Snapshots!Next
<1>3. ASSUME NEW t \in Txs, NEW op \in Operations, NEW k \in Keys, TxWrite(t, op, k)
      PROVE  Snapshots!Next
  BY <1>3, SnapshotsChange DEF Snapshots!Next
<1>4. ASSUME NEW t \in Txs, Settle(t) PROVE Snapshots!Next \/ UNCHANGED Snapshots!vars
  BY <1>4, SnapshotsSettle DEF Snapshots!Next
<1>5. ASSUME NEW t \in Txs, Commit(t) PROVE Snapshots!Next
  BY <1>5, SnapshotsCommit DEF Snapshots!Next
<1>6. ASSUME NEW t \in Txs, Rollback(t) PROVE Snapshots!Next
  BY <1>6, SnapshotsRollback DEF Snapshots!Next
<1>7. CASE UNCHANGED vars
  <2>1. UNCHANGED <<records, state, OpenBase, OpenCopy>>
    BY <1>7, CopiesKept DEF vars
  <2>2. UNCHANGED Awaiting
    BY <1>7 DEF vars, Awaiting
  <2>3. QED
    BY <2>1, <2>2 DEF Snapshots!vars
<1>8. QED
  BY <1>1, <1>2, <1>3, <1>4, <1>5, <1>6, <1>7 DEF Next, DirectStep, TxStep

(* The store keeps the promise of SnapshotStore, for every number of keys, *)
(* transactions and callers: commits are atomic, and a commit whose writes *)
(* have been awaited changes no key that has another version than the      *)
(* transaction began with.                                                 *)
THEOREM ImplementsSnapshotsCorrect == Spec => ImplementsSnapshots
<1>1. Init => Snapshots!Init
  BY DEF Init, Snapshots!Init, OpenBase, OpenCopy, Open, Awaiting
<1>2. QED
  BY <1>1, TypeCorrect, SnapshotCorrect, SnapshotsStep, PTL
     DEF Spec, ImplementsSnapshots, Snapshots!Spec

-----------------------------------------------------------------------------
(* Revisions.  RevisionCoversVersions is not inductive: a commit brings in *)
(* the working copy and the transaction's own revision, so it has to be    *)
(* known that this revision covers the copy, up to the awaited writes that *)
(* have still to raise it.                                                 *)

Covered(t, k) ==
  \/ working[t][k].version <= txRevision[t]
  \/ \E i \in 1 .. Len(pending[t]) : working[t][k].version <= pending[t][i].version

CopiesCovered == \A t \in Txs, k \in Keys : Covered(t, k)

RevisionInv == ~hasty => RevisionCoversVersions /\ CopiesCovered

LEMMA CoveredTxWrite ==
  ASSUME TypeOK, CopiesCovered,
         NEW u \in Txs, NEW op \in Operations, NEW k \in Keys, TxWrite(u, op, k)
  PROVE  CopiesCovered'
<1> DEFINE c == [key |-> k, version |-> ReturnedVersion(working[u], op, k)]
<1>1. working[u] \in RecordMap /\ serial[u] + 1 \in Nat
  BY DEF TypeOK
<1>2. pending[u] \in Seq(Continuation) /\ c \in Continuation
  BY <1>1, ReturnedCoversWritten DEF TypeOK, Continuation
<1>3. /\ pending'[u] = Append(pending[u], c)
      /\ txRevision' = txRevision
      /\ working'[u][k] = Written(working[u], op, k, u, serial[u] + 1)
      /\ \A j \in Keys \ {k} : working'[u][j] = working[u][j]
      /\ \A t \in Txs \ {u} : working'[t] = working[t] /\ pending'[t] = pending[t]
  BY <1>1 DEF TxWrite, TypeOK, RecordMap
<1>4. /\ Len(pending'[u]) = Len(pending[u]) + 1
      /\ Len(pending[u]) \in Nat
      /\ pending'[u][Len(pending[u]) + 1] = c
      /\ \A i \in 1 .. Len(pending[u]) : pending'[u][i] = pending[u][i]
  BY <1>2, <1>3
<1>5. Covered(u, k)'
  <2>1. working'[u][k].version <= c.version
    BY <1>1, <1>3, ReturnedCoversWritten
  <2>2. QED
    BY <2>1, <1>4 DEF Covered
<1>6. ASSUME NEW j \in Keys \ {k} PROVE Covered(u, j)'
  <2>1. Covered(u, j)
    BY DEF CopiesCovered
  <2>2. QED
    BY <2>1, <1>3, <1>4 DEF Covered
<1>7. ASSUME NEW t \in Txs \ {u}, NEW j \in Keys PROVE Covered(t, j)'
  BY <1>3 DEF Covered, CopiesCovered
<1>8. QED
  BY <1>5, <1>6, <1>7 DEF CopiesCovered

LEMMA CoveredSettle ==
  ASSUME TypeOK, CopiesCovered, NEW u \in Txs, Settle(u)
  PROVE  CopiesCovered'
<1>1. pending[u] \in Seq(Continuation) /\ pending[u] # << >> /\ txRevision[u] \in Nat
  BY DEF Settle, TypeOK
<1>2. /\ txRevision'[u] = Maximum(txRevision[u], Head(pending[u]).version)
      /\ pending'[u] = Tail(pending[u])
      /\ working' = working
      /\ \A t \in Txs \ {u} : txRevision'[t] = txRevision[t] /\ pending'[t] = pending[t]
  BY DEF Settle, TypeOK
<1>3. /\ Head(pending[u]) = pending[u][1]
      /\ pending[u][1].version \in Nat
      /\ Len(pending[u]) \in Nat
      /\ Len(pending'[u]) = Len(pending[u]) - 1
      /\ \A i \in 1 .. Len(pending[u]) - 1 : pending'[u][i] = pending[u][i + 1]
  <2>1. pending[u][1] \in Continuation
    BY <1>1
  <2>2. pending[u][1].version \in Nat
    BY <2>1 DEF Continuation
  <2>3. QED
    BY <1>1, <1>2, <2>2
<1>4. /\ txRevision[u] <= txRevision'[u]
      /\ pending[u][1].version <= txRevision'[u]
      /\ txRevision'[u] \in Nat
  BY <1>1, <1>2, <1>3 DEF Maximum
<1>5. ASSUME NEW k \in Keys PROVE Covered(u, k)'
  <2>1. working[u][k].version \in Nat
    BY DEF TypeOK, RecordMap, Record
  <2>2. CASE working[u][k].version <= txRevision[u]
    BY <1>1, <1>2, <1>4, <2>1, <2>2 DEF Covered
  <2>3. ASSUME NEW i \in 1 .. Len(pending[u]), working[u][k].version <= pending[u][i].version
        PROVE  Covered(u, k)'
    <3>1. CASE i = 1
      BY <1>2, <1>3, <1>4, <2>1, <2>3, <3>1 DEF Covered
    <3>2. CASE i # 1
      <4>1. i - 1 \in 1 .. Len(pending'[u]) /\ pending'[u][i - 1] = pending[u][i]
        BY <1>3, <3>2
      <4>2. QED
        BY <1>2, <2>3, <4>1 DEF Covered
    <3>3. QED
      BY <3>1, <3>2
  <2>4. QED
    BY <2>2, <2>3 DEF CopiesCovered, Covered
<1>6. ASSUME NEW t \in Txs \ {u}, NEW k \in Keys PROVE Covered(t, k)'
  BY <1>2 DEF Covered, CopiesCovered
<1>7. QED
  BY <1>5, <1>6 DEF CopiesCovered

LEMMA RevisionStep == TypeOK /\ RevisionInv /\ [Next]_vars => RevisionInv'
<1> SUFFICES ASSUME TypeOK, RevisionInv, [Next]_vars, ~hasty'
             PROVE  RevisionCoversVersions' /\ CopiesCovered'
  BY DEF RevisionInv
<1>1. ~hasty
  BY DEF Next, DirectStep, TxStep, vars, Write, Begin, TxWrite, Settle, Commit, Rollback
<1>2. RevisionCoversVersions /\ CopiesCovered
  BY <1>1 DEF RevisionInv
<1>3. \A k \in Keys : records[k].version <= revision
  BY <1>1, <1>2 DEF RevisionCoversVersions
<1>4. ASSUME NEW c \in Callers, NEW op \in Operations, NEW k \in Keys, Write(c, op, k)
      PROVE  RevisionCoversVersions' /\ CopiesCovered'
  <2>1. /\ Written(records, op, k, c, serial[c] + 1) \in Record
        /\ Written(records, op, k, c, serial[c] + 1).version <= records[k].version + 1
    BY WrittenIsRecord, ReturnedCoversWritten DEF TypeOK
  <2>2. /\ records'[k] = Written(records, op, k, c, serial[c] + 1)
        /\ \A j \in Keys \ {k} : records'[j] = records[j]
        /\ revision' = revision + 1
    BY <1>4 DEF Write, TypeOK, RecordMap
  <2>3. /\ revision \in Nat
        /\ \A j \in Keys : records[j].version \in Nat
    BY DEF TypeOK, RecordMap, Record
  <2>4. \A j \in Keys : records'[j].version <= revision'
    BY <1>3, <2>1, <2>2, <2>3 DEF Record
  <2>5. QED
    BY <1>2, <1>4, <2>4 DEF Write, txVars, RevisionCoversVersions, CopiesCovered, Covered
<1>5. ASSUME NEW u \in Txs, Begin(u) PROVE RevisionCoversVersions' /\ CopiesCovered'
  <2>1. /\ working'[u] = records /\ txRevision'[u] = revision
        /\ \A t \in Txs \ {u} : working'[t] = working[t] /\ txRevision'[t] = txRevision[t]
        /\ pending' = pending
    BY <1>5 DEF Begin, TypeOK
  <2>2. QED
    BY <1>2, <1>3, <1>5, <2>1
       DEF Begin, storeVars, RevisionCoversVersions, CopiesCovered, Covered
<1>6. ASSUME NEW u \in Txs, NEW op \in Operations, NEW k \in Keys, TxWrite(u, op, k)
      PROVE  RevisionCoversVersions' /\ CopiesCovered'
  BY <1>2, <1>6, CoveredTxWrite DEF TxWrite, storeVars, RevisionCoversVersions
<1>7. ASSUME NEW u \in Txs, Settle(u) PROVE RevisionCoversVersions' /\ CopiesCovered'
  BY <1>2, <1>7, CoveredSettle DEF Settle, storeVars, RevisionCoversVersions
<1>8. ASSUME NEW u \in Txs, Commit(u) PROVE RevisionCoversVersions' /\ CopiesCovered'
  <2>1. pending[u] = << >>
    BY <1>8 DEF Commit
  <2>2. Len(pending[u]) = 0
    BY <2>1
  <2>3. \A k \in Keys : working[u][k].version <= txRevision[u]
    BY <1>2, <2>2 DEF CopiesCovered, Covered
  <2>4. RevisionCoversVersions'
    BY <1>8, <2>3 DEF Commit, RevisionCoversVersions
  <2>5. QED
    BY <1>2, <1>8, <2>4 DEF Commit, CopiesCovered, Covered
<1>9. ASSUME NEW u \in Txs, Rollback(u) PROVE RevisionCoversVersions' /\ CopiesCovered'
  BY <1>2, <1>9 DEF Rollback, storeVars, RevisionCoversVersions, CopiesCovered, Covered
<1>10. CASE UNCHANGED vars
  BY <1>2, <1>10 DEF vars, RevisionCoversVersions, CopiesCovered, Covered
<1>11. QED
  BY <1>4, <1>5, <1>6, <1>7, <1>8, <1>9, <1>10 DEF Next, DirectStep, TxStep

(* While every commit has awaited its writes, the store's revision is at   *)
(* least the version of every record in it.                                *)
THEOREM RevisionCorrect == Spec => []RevisionCoversVersions
<1>1. Init => RevisionInv
  BY DEF Init, RevisionInv, RevisionCoversVersions, CopiesCovered, Covered, EmptyMap, Absent
<1>2. RevisionInv => RevisionCoversVersions
  BY DEF RevisionInv, RevisionCoversVersions
<1>3. QED
  BY <1>1, <1>2, TypeCorrect, RevisionStep, PTL DEF Spec
=============================================================================
