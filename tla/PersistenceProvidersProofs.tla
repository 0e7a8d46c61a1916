---------------------- MODULE PersistenceProvidersProofs ----------------------
(***************************************************************************)
(* What TLAPS proves of PersistenceProviders, for every set of providers,  *)
(* keys, sessions, transactions and calls, and every bound on the connects.*)
(***************************************************************************)
EXTENDS PersistenceProviders, TLAPS

USE BackendsAssumption, WritersAssumption, NoSessionAssumption, ConnectsAssumption,
    FlushersAssumption, ConnectingAssumption, NobodyAssumption

USE DEF connectionVars, dataVars, sessionVars, storeTxVars, txVars, commitVars, callVars,
        flushVars, databaseVars, historyVars

-----------------------------------------------------------------------------
(* Records.                                                                *)

LEMMA EmptyMapTyped == EmptyMap \in RecordMap
BY DEF EmptyMap, RecordMap, Absent, Record

LEMMA PutTyped ==
  ASSUME NEW map \in RecordMap, NEW k \in Keys, NEW w \in Writers
  PROVE  Put(map, k, w) \in RecordMap
<1>1. Written(map, "update", k, w, 1) \in Record
  BY DEF Written, Record, RecordMap
<1>2. QED
  BY <1>1 DEF Put, RecordMap

LEMMA WorkingTyped ==
  ASSUME TypeOK, NEW t \in Txs
  PROVE  Working(t) \in RecordMap
<1>1. base[t] \in RecordMap /\ t \in Writers
  BY DEF TypeOK
<1>2. \A k \in Keys : Put(base[t], k, t) \in RecordMap
  BY <1>1, PutTyped
<1>3. QED
  BY <1>1, <1>2 DEF Working, RecordMap

LEMMA StoreTyped ==
  ASSUME TypeOK, NEW s \in Sessions
  PROVE  StoreOf(s) \in 0..MaxConnects /\ mem[StoreOf(s)] \in RecordMap
<1>1. StoreOf(s) \in 0..MaxConnects
  BY DEF TypeOK, StoreOf
<1>2. QED
  BY <1>1 DEF TypeOK

LEMMA MemTyped == TypeOK => mem[0] \in RecordMap
BY DEF TypeOK

-----------------------------------------------------------------------------
(* The type invariant.  A connect that is under way will not exceed the    *)
(* bound on the connects, and nothing else connects the provider meanwhile.*)

Connecting ==
  /\ backend = "sqlite" => epoch + connects <= MaxConnects
  /\ flush = "connect" => ~connected /\ epoch < MaxConnects /\ backend = "filesystem"

TypeInv == TypeOK /\ Connecting

LEMMA TypeInit == Init => TypeInv
<1> SUFFICES ASSUME Init PROVE TypeInv
  OBVIOUS
<1>1. /\ backend \in Backends
      /\ connected \in BOOLEAN /\ epoch \in 0..MaxConnects
      /\ connects \in 0..MaxConnecting /\ overlapped \in BOOLEAN
      /\ dangling \in BOOLEAN /\ torn \in BOOLEAN
  <2>1. epoch \in 0..MaxConnects /\ connects \in 0..MaxConnecting
    BY DEF Init
  <2>2. connected = FALSE /\ overlapped = FALSE /\ dangling = FALSE /\ torn = FALSE
    BY DEF Init
  <2>3. backend \in Backends
    BY DEF Init
  <2>4. QED
    BY <2>1, <2>2, <2>3
<1>2. /\ mem \in [0..MaxConnects -> RecordMap] /\ disk \in RecordMap /\ cand \in RecordMap
      /\ base \in [Txs -> RecordMap] /\ touched \in [Txs -> SUBSET Keys]
  BY EmptyMapTyped DEF Init
<1>3. /\ sState \in [Sessions -> SessionStates]
      /\ sEpoch \in [Sessions -> 0..MaxConnects]
      /\ owner \in [Sessions -> Owners]
      /\ sessions \subseteq Sessions /\ transactions \subseteq Txs /\ closing \subseteq Txs
  BY DEF Init, SessionStates, Owners
<1>4. /\ tState \in [Txs -> TxStates] /\ wState \in [Txs -> InnerStates]
      /\ txSession \in [Txs -> Sessions \cup {NoSession}]
      /\ commitPc \in [Txs -> CommitSteps] /\ rollbackPc \in [Txs -> RollbackSteps]
      /\ answer \in [Txs -> Answers]
  BY DEF Init, TxStates, InnerStates, CommitSteps, RollbackSteps, Answers
<1>5. /\ callPc \in [Calls -> CallSteps]
      /\ callSession \in [Calls -> Sessions \cup {NoSession}]
      /\ flush \in {"none", "connect", "disconnect"} \cup Writers
      /\ db \in {"open", "closed"} /\ schema \in SchemaStages
      /\ late \subseteq Txs /\ raced \subseteq Txs /\ unsure \subseteq Writers
  BY DEF Init, CallSteps, SchemaStages
<1>6. Connecting
  BY DEF Init, Connecting
<1>7. QED
  BY <1>1, <1>2, <1>3, <1>4, <1>5, <1>6 DEF TypeInv, TypeOK

(* Sessions.                                                               *)
LEMMA TypeSessions ==
  ASSUME TypeInv, SessionStep
  PROVE  TypeInv'
<1>1. ASSUME NEW s \in Sessions, NEW o \in Owners, OpenSession(s, o) PROVE TypeInv'
  BY <1>1 DEF OpenSession, BeginSession, TypeInv, TypeOK, Connecting, SessionStates
<1>2. ASSUME NEW s \in Sessions, CloseSession(s) PROVE TypeInv'
  BY <1>2 DEF CloseSession, Close, TypeInv, TypeOK, Connecting, SessionStates
<1>3. ASSUME NEW t \in Txs, CloseAfter(t) PROVE TypeInv'
  BY <1>3 DEF CloseAfter, Close, TypeInv, TypeOK, Connecting, SessionStates
<1>4. QED
  BY <1>1, <1>2, <1>3 DEF SessionStep

LEMMA TypeCalls ==
  ASSUME TypeInv, CallStep
  PROVE  TypeInv'
<1>1. ASSUME NEW c \in Calls, NEW s \in Sessions, CallOpen(c, s) PROVE TypeInv'
  BY <1>1 DEF CallOpen, BeginSession, TypeInv, TypeOK, Connecting, SessionStates, CallSteps, Owners
<1>2. ASSUME NEW c \in Calls, CallRefused(c) PROVE TypeInv'
  BY <1>2 DEF CallRefused, TypeInv, TypeOK, Connecting, CallSteps
<1>3. ASSUME NEW c \in Calls, CallClose(c) PROVE TypeInv'
  BY <1>3, ZenonT(30) DEF CallClose, Close, TypeInv, TypeOK, Connecting, SessionStates, CallSteps
<1>4. QED
  BY <1>1, <1>2, <1>3 DEF CallStep

(* Transactions.                                                           *)
LEMMA ThenCloseTyped ==
  ASSUME TypeInv, NEW t \in Txs, ThenClose(t)
  PROVE  closing' \subseteq Txs
BY DEF ThenClose, TypeInv, TypeOK

LEMMA RaceTyped ==
  ASSUME TypeInv, NEW t \in Txs, NEW other, Race(t, other)
  PROVE  raced' \subseteq Txs
BY DEF Race, TypeInv, TypeOK

LEMMA TypeTransactions ==
  ASSUME TypeInv, TransactionStep
  PROVE  TypeInv'
<1>1. ASSUME NEW t \in Txs, NEW k \in Keys, TxWrite(t, k) PROVE TypeInv'
  BY <1>1 DEF TxWrite, TypeInv, TypeOK, Connecting
<1>2. ASSUME NEW t \in Txs, Committed(t) PROVE TypeInv'
  BY <1>2, ThenCloseTyped
  DEF Committed, TypeInv, TypeOK, Connecting, CommitSteps, Answers, TxStates, FinalStates
<1>3. ASSUME NEW t \in Txs, Refused(t) PROVE TypeInv'
  BY <1>3, ThenCloseTyped DEF Refused, TypeInv, TypeOK, Connecting, Answers
<1>4. ASSUME NEW t \in Txs, Rollback(t) PROVE TypeInv'
  BY <1>4, RaceTyped DEF Rollback, TypeInv, TypeOK, Connecting, RollbackSteps, InnerStates
<1>5. ASSUME NEW t \in Txs, RolledBack(t) PROVE TypeInv'
  BY <1>5, ThenCloseTyped
  DEF RolledBack, TypeInv, TypeOK, Connecting, RollbackSteps, Answers, TxStates, FinalStates
<1>6. ASSUME NEW t \in Txs, RollbackFailed(t) PROVE TypeInv'
  BY <1>6, ThenCloseTyped DEF RollbackFailed, TypeInv, TypeOK, Connecting, RollbackSteps, Answers
<1>7. QED
  BY <1>1, <1>2, <1>3, <1>4, <1>5, <1>6 DEF TransactionStep

LEMMA TypeCommitFailed ==
  ASSUME TypeInv, NEW t \in Txs, NEW code \in Answers, CommitFailed(t, code)
  PROVE  TypeInv'
BY ThenCloseTyped DEF CommitFailed, TypeInv, TypeOK, Connecting, CommitSteps

LEMMA SnapshotTyped ==
  ASSUME TypeInv, NEW t \in Txs, NEW s \in Sessions, Snapshot(t, s)
  PROVE  base' \in [Txs -> RecordMap] /\ txSession' \in [Txs -> Sessions \cup {NoSession}]
<1>1. mem[StoreOf(s)] \in RecordMap
  BY StoreTyped DEF TypeInv
<1>2. QED
  BY <1>1 DEF Snapshot, TypeInv, TypeOK

LEMMA ForceCloseTyped ==
  ASSUME TypeInv, ForceClose
  PROVE  /\ tState' \in [Txs -> TxStates] /\ sState' \in [Sessions -> SessionStates]
         /\ sessions' = {} /\ transactions' = {} /\ raced' \subseteq Txs
<1>1. tState' \in [Txs -> TxStates]
  BY DEF ForceClose, TypeInv, TypeOK, TxStates, FinalStates
<1>2. sState' \in [Sessions -> SessionStates]
  BY DEF ForceClose, TypeInv, TypeOK, SessionStates
<1>3. raced' \subseteq Txs
  BY DEF ForceClose, TypeInv, TypeOK
<1>4. QED
  BY <1>1, <1>2, <1>3 DEF ForceClose

(* The in-memory provider.                                                 *)
LEMMA TypeMemory ==
  ASSUME TypeInv,
         (backend = "memory" /\ (MemoryConnect \/ MemoryDisconnect)) \/ MemoryNext
  PROVE  TypeInv'
<1>0. backend = "memory"
  BY DEF MemoryNext
<1>1. CASE MemoryConnect
  BY <1>0, <1>1 DEF MemoryConnect, TypeInv, TypeOK, Connecting
<1>2. CASE MemoryDisconnect
  <2>1. UNCHANGED <<sEpoch, owner, txSession, late, unsure>>
    BY <1>2 DEF MemoryDisconnect, ForceClose
  <2>2. connected' \in BOOLEAN
    BY <1>2 DEF MemoryDisconnect
  <2>3. QED
    BY <1>0, <1>2, <2>1, <2>2, ForceCloseTyped DEF MemoryDisconnect, TypeInv, TypeOK, Connecting
<1>3. ASSUME NEW t \in Txs, NEW s \in Sessions, MemoryBeginTransaction(t, s) PROVE TypeInv'
  BY <1>0, <1>3, SnapshotTyped
  DEF MemoryBeginTransaction, TypeInv, TypeOK, Connecting, TxStates
<1>4. ASSUME NEW t \in Txs, MemoryRegister(t) PROVE TypeInv'
  BY <1>0, <1>4 DEF MemoryRegister, TypeInv, TypeOK, Connecting, TxStates
<1>5. ASSUME NEW t \in Txs, MemoryCommit(t) PROVE TypeInv'
  <2>1. /\ mem' \in [0..MaxConnects -> RecordMap] /\ wState' \in [Txs -> InnerStates]
        /\ commitPc' \in [Txs -> CommitSteps]
    <3>1. CASE MemoryApply(t)
      <4>1. Working(t) \in RecordMap
        BY WorkingTyped DEF TypeInv
      <4>2. QED
        BY <3>1, <4>1 DEF MemoryApply, TypeInv, TypeOK, InnerStates, CommitSteps
    <3>2. CASE MemoryRefuse(t)
      BY <3>2 DEF MemoryRefuse, TypeInv, TypeOK, CommitSteps
    <3>3. QED
      BY <1>5, <3>1, <3>2 DEF MemoryCommit
  <2>2. raced' \subseteq Txs
    BY <1>5, RaceTyped DEF MemoryCommit
  <2>3. QED
    BY <1>0, <1>5, <2>1, <2>2 DEF MemoryCommit, TypeInv, TypeOK, Connecting
<1>6. ASSUME NEW t \in Txs, MemoryCommitFailed(t) PROVE TypeInv'
  BY <1>6, TypeCommitFailed DEF MemoryCommitFailed, Answers
<1>7. ASSUME NEW c \in Calls, NEW k \in Keys, MemoryCallRun(c, k) PROVE TypeInv'
  <2>1. mem' \in [0..MaxConnects -> RecordMap]
    <3>1. PICK i : i = StoreOf(callSession[c])
      OBVIOUS
    <3>2. mem' = [mem EXCEPT ![i] = Put(mem[i], k, c)]
      BY <1>7, <3>1 DEF MemoryCallRun
    <3>3. CASE i \in 0..MaxConnects
      <4>1. Put(mem[i], k, c) \in RecordMap
        BY <3>3, PutTyped DEF TypeInv, TypeOK
      <4>2. QED
        BY <3>2, <4>1 DEF TypeInv, TypeOK
    <3>4. CASE i \notin 0..MaxConnects
      BY <3>2, <3>4, ZenonT(30) DEF TypeInv, TypeOK
    <3>5. QED
      BY <3>3, <3>4
  <2>2. callPc' \in [Calls -> CallSteps]
    BY <1>7 DEF MemoryCallRun, TypeInv, TypeOK, CallSteps
  <2>3. QED
    BY <1>0, <1>7, <2>1, <2>2 DEF MemoryCallRun, TypeInv, TypeOK, Connecting
<1>8. QED
  BY <1>1, <1>2, <1>3, <1>4, <1>5, <1>6, <1>7 DEF MemoryNext

(* The filesystem provider.                                                *)
LEMMA StartFlushTyped ==
  ASSUME TypeInv, NEW map \in RecordMap,
         NEW who \in {"connect", "disconnect"} \cup Writers, StartFlush(who, map)
  PROVE  /\ flush' \in {"none", "connect", "disconnect"} \cup Writers
         /\ flush' = who /\ cand' \in RecordMap
BY DEF StartFlush

LEMMA FlushedTyped ==
  ASSUME TypeInv, NEW who, Flushed(who) \/ FlushFailed(who)
  PROVE  /\ flush' = "none" /\ disk' \in RecordMap /\ mem' \in [0..MaxConnects -> RecordMap]
         /\ cand' = cand /\ late' = late /\ raced' = raced
         /\ unsure' \subseteq Writers /\ torn' \in BOOLEAN
<1>1. CASE Flushed(who)
  BY <1>1 DEF Flushed, TypeInv, TypeOK
<1>2. CASE FlushFailed(who)
  BY <1>2 DEF FlushFailed, TypeInv, TypeOK
<1>3. QED
  BY <1>1, <1>2

LEMMA TypeFilesystem ==
  ASSUME TypeInv,
         (backend = "filesystem" /\ (FsConnect \/ FsDisconnect)) \/ FilesystemNext
  PROVE  TypeInv'
<1>0. backend = "filesystem"
  BY DEF FilesystemNext
<1>1. CASE FsConnect
  <2>1. flush' = "connect" /\ cand' \in RecordMap
    BY <1>1 DEF FsConnect, StartFlush, TypeInv, TypeOK
  <2>2. QED
    BY <1>0, <1>1, <2>1 DEF FsConnect, TypeInv, TypeOK, Connecting
<1>2. CASE FsDisconnect
  <2>1. flush' = "disconnect" /\ cand' \in RecordMap
    BY <1>2, MemTyped DEF FsDisconnect, StartFlush, TypeInv
  <2>2. QED
    BY <1>0, <1>2, <2>1 DEF FsDisconnect, TypeInv, TypeOK, Connecting
<1>3. CASE FsConnected
  <2>1. Flushed("connect") /\ flush = "connect"
    BY <1>3 DEF FsConnected, Flushed
  <2>2. epoch' \in 0..MaxConnects /\ connected' \in BOOLEAN
    BY <1>3, <2>1 DEF FsConnected, TypeInv, TypeOK, Connecting
  <2>3. UNCHANGED <<connects, overlapped, backend, sessionVars, storeTxVars, txVars,
                    commitVars, callVars, databaseVars>>
    BY <1>3 DEF FsConnected
  <2>4. QED
    BY <1>0, <2>1, <2>2, <2>3, FlushedTyped DEF TypeInv, TypeOK, Connecting
<1>4. CASE FsDisconnected
  <2>1. /\ flush' = "none" /\ disk' \in RecordMap /\ torn' \in BOOLEAN /\ connected' \in BOOLEAN
    BY <1>4 DEF FsDisconnected, TypeInv, TypeOK
  <2>2. ForceClose /\ UNCHANGED <<sEpoch, owner, txSession, late, unsure>>
    BY <1>4 DEF FsDisconnected, ForceClose
  <2>3. QED
    BY <1>0, <1>4, <2>1, <2>2, ForceCloseTyped DEF FsDisconnected, TypeInv, TypeOK, Connecting
<1>5. CASE FsFlushFailed
  <2>1. PICK who : FlushFailed(who)
    BY <1>5 DEF FsFlushFailed
  <2>2. QED
    BY <1>0, <1>5, <2>1, FlushedTyped DEF FsFlushFailed, TypeInv, TypeOK, Connecting
<1>6. ASSUME NEW t \in Txs, NEW s \in Sessions, FsBeginTransaction(t, s) PROVE TypeInv'
  BY <1>0, <1>6, SnapshotTyped DEF FsBeginTransaction, TypeInv, TypeOK, Connecting, TxStates
<1>7. ASSUME NEW t \in Txs, FsCommit(t) PROVE TypeInv'
  <2>1. /\ flush' \in {"none", "connect", "disconnect"} \cup Writers
        /\ flush' = flush \/ flush' = t
        /\ cand' \in RecordMap
        /\ commitPc' \in [Txs -> CommitSteps]
    <3>1. CASE FsStartCommit(t)
      <4>1. Working(t) \in RecordMap
        BY WorkingTyped DEF TypeInv
      <4>2. QED
        BY <3>1, <4>1, StartFlushTyped DEF FsStartCommit, TypeInv, TypeOK, CommitSteps
    <3>2. CASE FsRefuse(t)
      BY <3>2 DEF FsRefuse, TypeInv, TypeOK, CommitSteps
    <3>3. QED
      BY <1>7, <3>1, <3>2 DEF FsCommit
  <2>2. raced' \subseteq Txs
    BY <1>7, RaceTyped DEF FsCommit
  <2>3. QED
    BY <1>0, <1>7, <2>1, <2>2 DEF FsCommit, TypeInv, TypeOK, Connecting
<1>8. ASSUME NEW t \in Txs, FsPersisted(t) PROVE TypeInv'
  <2>1. commitPc' \in [Txs -> CommitSteps] /\ (Flushed(t) \/ FlushFailed(t))
    BY <1>8 DEF FsPersisted, TypeInv, TypeOK, CommitSteps
  <2>2. QED
    BY <1>0, <1>8, <2>1, FlushedTyped DEF FsPersisted, TypeInv, TypeOK, Connecting
<1>9. ASSUME NEW t \in Txs, FsLanded(t) PROVE TypeInv'
  BY <1>0, <1>9 DEF FsLanded, TypeInv, TypeOK, Connecting, CommitSteps, InnerStates
<1>10. ASSUME NEW t \in Txs, FsCommitFailed(t) PROVE TypeInv'
  <2>1. PICK code \in Answers : CommitFailed(t, code)
    BY <1>10 DEF FsCommitFailed, Answers
  <2>2. QED
    BY <2>1, TypeCommitFailed
<1>11. ASSUME NEW c \in Calls, NEW k \in Keys, FsCallRun(c, k) PROVE TypeInv'
  <2>1. Put(mem[0], k, c) \in RecordMap
    BY MemTyped, PutTyped DEF TypeInv
  <2>2. flush' = c /\ cand' \in RecordMap /\ callPc' \in [Calls -> CallSteps]
    BY <1>11, <2>1 DEF FsCallRun, StartFlush, TypeInv, TypeOK, CallSteps
  <2>3. QED
    BY <1>0, <1>11, <2>2 DEF FsCallRun, TypeInv, TypeOK, Connecting
<1>12. ASSUME NEW c \in Calls, FsCallFlushed(c) PROVE TypeInv'
  <2>1. callPc' \in [Calls -> CallSteps] /\ (Flushed(c) \/ FlushFailed(c))
    BY <1>12 DEF FsCallFlushed, TypeInv, TypeOK, CallSteps
  <2>2. QED
    BY <1>0, <1>12, <2>1, FlushedTyped DEF FsCallFlushed, TypeInv, TypeOK, Connecting
<1>13. QED
  BY <1>1, <1>2, <1>3, <1>4, <1>5, <1>6, <1>7, <1>8, <1>9, <1>10, <1>11, <1>12
  DEF FilesystemNext

(* The SQLite provider.                                                    *)
LEMMA ReachedStages == TypeOK => SchemaReached \subseteq SchemaStages
BY DEF SchemaReached, TypeOK

LEMMA PersistTyped ==
  ASSUME TypeInv, NEW map \in RecordMap, Persisted(map) \/ PersistFailed
  PROVE  mem' \in [0..MaxConnects -> RecordMap] /\ disk' \in RecordMap /\ dangling' \in BOOLEAN
<1>1. CASE Persisted(map)
  BY <1>1 DEF Persisted, TypeInv, TypeOK
<1>2. CASE PersistFailed
  <2>1. mem' = mem /\ disk' = disk
    BY <1>2 DEF PersistFailed
  <2>2. dangling' \in BOOLEAN \/ dangling' = dangling
    BY <1>2 DEF PersistFailed
  <2>3. QED
    BY <2>1, <2>2 DEF TypeInv, TypeOK
<1>3. QED
  BY <1>1, <1>2

LEMMA TypeSqlite ==
  ASSUME TypeInv,
         (backend = "sqlite" /\ (SqliteConnect \/ SqliteDisconnect)) \/ SqliteNext
  PROVE  TypeInv'
<1>0. backend = "sqlite"
  BY DEF SqliteNext
<1>1. CASE SqliteConnect
  <2>1. overlapped' \in BOOLEAN
    BY <1>1 DEF SqliteConnect, TypeInv, TypeOK
  <2>2. connects' \in 0..MaxConnecting /\ epoch + connects' <= MaxConnects
    BY <1>1 DEF SqliteConnect, TypeInv, TypeOK
  <2>3. QED
    BY <1>0, <1>1, <2>1, <2>2 DEF SqliteConnect, TypeInv, TypeOK, Connecting
<1>2. CASE SqliteDisconnect
  <2>1. connected' \in BOOLEAN /\ db' \in {"open", "closed"} /\ dangling' \in BOOLEAN
    <3>1. CASE connected' = FALSE /\ db' = "closed" /\ dangling' = FALSE
      BY <3>1
    <3>2. CASE UNCHANGED <<connected, db, dangling>>
      BY <3>2 DEF TypeInv, TypeOK
    <3>3. QED
      BY <1>2, <3>1, <3>2 DEF SqliteDisconnect
  <2>2. ForceClose /\ UNCHANGED <<sEpoch, owner, txSession, late, unsure>>
    BY <1>2 DEF SqliteDisconnect, ForceClose
  <2>3. QED
    BY <1>0, <1>2, <2>1, <2>2, ForceCloseTyped
    DEF SqliteDisconnect, TypeInv, TypeOK, Connecting
<1>3. CASE SqliteConnected
  <2>1. connected' = TRUE /\ dangling' = FALSE
    BY <1>3 DEF SqliteConnected
  <2>2. /\ connects' \in 0..MaxConnecting /\ epoch' \in 0..MaxConnects
        /\ epoch' + connects' <= MaxConnects
    <3>1. connects' = connects - 1 /\ connects > 0 /\ (epoch' = epoch \/ epoch' = epoch + 1)
      BY <1>3 DEF SqliteConnected
    <3>2. epoch + connects <= MaxConnects /\ epoch \in Nat /\ connects \in Nat
      BY <1>0 DEF TypeInv, TypeOK, Connecting
    <3>3. QED
      BY <3>1, <3>2 DEF TypeInv, TypeOK
  <2>3. mem' \in [0..MaxConnects -> RecordMap] /\ schema' \in SchemaStages
    BY <1>3 DEF SqliteConnected, TypeInv, TypeOK, SchemaStages
  <2>4. QED
    BY <1>0, <1>3, <2>1, <2>2, <2>3 DEF SqliteConnected, TypeInv, TypeOK, Connecting
<1>4. CASE SqliteConnectFailed
  <2>1. connects' \in 0..MaxConnecting /\ epoch + connects' <= MaxConnects
    BY <1>0, <1>4 DEF SqliteConnectFailed, TypeInv, TypeOK, Connecting
  <2>2. schema' \in SchemaStages
    BY <1>4, ReachedStages DEF SqliteConnectFailed, TypeInv
  <2>3. dangling' \in BOOLEAN
    BY <1>4 DEF SqliteConnectFailed
  <2>4. QED
    BY <1>0, <1>4, <2>1, <2>2, <2>3 DEF SqliteConnectFailed, TypeInv, TypeOK, Connecting
<1>5. ASSUME NEW t \in Txs, NEW s \in Sessions, SqliteBeginTransaction(t, s) PROVE TypeInv'
  BY <1>0, <1>5, SnapshotTyped
  DEF SqliteBeginTransaction, TypeInv, TypeOK, Connecting, TxStates
<1>6. ASSUME NEW t \in Txs, SqliteCommit(t) PROVE TypeInv'
  <2>1. /\ mem' \in [0..MaxConnects -> RecordMap] /\ disk' \in RecordMap
        /\ dangling' \in BOOLEAN /\ commitPc' \in [Txs -> CommitSteps]
    <3>1. CASE SqliteApply(t)
      <4>1. Working(t) \in RecordMap
        BY WorkingTyped DEF TypeInv
      <4>2. Persisted(Working(t)) \/ PersistFailed
        BY <3>1 DEF SqliteApply
      <4>3. commitPc' \in [Txs -> CommitSteps]
        BY <3>1 DEF SqliteApply, TypeInv, TypeOK, CommitSteps
      <4>4. QED
        BY <4>1, <4>2, <4>3, PersistTyped
    <3>2. CASE SqliteRefuse(t)
      BY <3>2 DEF SqliteRefuse, TypeInv, TypeOK, CommitSteps
    <3>3. QED
      BY <1>6, <3>1, <3>2 DEF SqliteCommit
  <2>2. raced' \subseteq Txs
    BY <1>6, RaceTyped DEF SqliteCommit
  <2>3. QED
    BY <1>0, <1>6, <2>1, <2>2 DEF SqliteCommit, TypeInv, TypeOK, Connecting
<1>7. ASSUME NEW t \in Txs, SqliteLanded(t) PROVE TypeInv'
  BY <1>0, <1>7 DEF SqliteLanded, TypeInv, TypeOK, Connecting, CommitSteps, InnerStates
<1>8. ASSUME NEW t \in Txs, SqliteCommitFailed(t) PROVE TypeInv'
  <2>1. PICK code \in Answers : CommitFailed(t, code)
    BY <1>8 DEF SqliteCommitFailed, Answers
  <2>2. QED
    BY <2>1, TypeCommitFailed
<1>9. ASSUME NEW c \in Calls, NEW k \in Keys, SqliteCallRun(c, k) PROVE TypeInv'
  <2>1. Put(mem[0], k, c) \in RecordMap
    BY MemTyped, PutTyped DEF TypeInv
  <2>2. Persisted(Put(mem[0], k, c)) \/ PersistFailed
    BY <1>9 DEF SqliteCallRun
  <2>3. callPc' \in [Calls -> CallSteps]
    BY <1>9 DEF SqliteCallRun, TypeInv, TypeOK, CallSteps
  <2>4. QED
    BY <1>0, <1>9, <2>1, <2>2, <2>3, PersistTyped
    DEF SqliteCallRun, TypeInv, TypeOK, Connecting
<1>10. QED
  BY <1>1, <1>2, <1>3, <1>4, <1>5, <1>6, <1>7, <1>8, <1>9 DEF SqliteNext

(* A crash.                                                                *)
LEMMA TypeCrash ==
  ASSUME TypeInv, Crash
  PROVE  TypeInv'
<1>1. connected' = FALSE /\ connects' = 0 /\ flush' = "none" /\ dangling' = FALSE
  BY DEF Crash
<1>2. disk' \in RecordMap
  BY DEF Crash, TypeInv, TypeOK
<1>3. mem' \in [0..MaxConnects -> RecordMap]
  BY EmptyMapTyped DEF Crash
<1>4. schema' \in SchemaStages
  BY ReachedStages DEF Crash, TypeInv, TypeOK
<1>5. /\ sState' \in [Sessions -> SessionStates] /\ tState' \in [Txs -> TxStates]
      /\ callPc' \in [Calls -> CallSteps]
  BY DEF Crash, TypeInv, TypeOK, SessionStates, TxStates, FinalStates, CallSteps
<1>6. /\ commitPc' \in [Txs -> CommitSteps] /\ rollbackPc' \in [Txs -> RollbackSteps]
  BY DEF Crash, CommitSteps, RollbackSteps
<1>7. connects' \in 0..MaxConnecting
  BY <1>1
<1>10. connected' \in BOOLEAN /\ dangling' \in BOOLEAN
  BY <1>1
<1>8. Connecting'
  BY <1>1 DEF Crash, TypeInv, TypeOK, Connecting
<1>9. QED
  BY <1>1, <1>2, <1>3, <1>4, <1>5, <1>6, <1>7, <1>8, <1>10 DEF Crash, TypeInv, TypeOK

LEMMA TypeStep == TypeInv /\ [Next]_vars => TypeInv'
<1> SUFFICES ASSUME TypeInv, [Next]_vars PROVE TypeInv'
  OBVIOUS
<1>1. CASE Crash
  BY <1>1, TypeCrash
<1>2. CASE SessionStep
  BY <1>2, TypeSessions
<1>3. CASE TransactionStep
  BY <1>3, TypeTransactions
<1>4. CASE CallStep
  BY <1>4, TypeCalls
<1>5. CASE (backend = "memory" /\ (MemoryConnect \/ MemoryDisconnect)) \/ MemoryNext
  BY <1>5, TypeMemory
<1>6. CASE (backend = "filesystem" /\ (FsConnect \/ FsDisconnect)) \/ FilesystemNext
  BY <1>6, TypeFilesystem
<1>7. CASE (backend = "sqlite" /\ (SqliteConnect \/ SqliteDisconnect)) \/ SqliteNext
  BY <1>7, TypeSqlite
<1>8. CASE UNCHANGED vars
  BY <1>8 DEF vars, TypeInv, TypeOK, Connecting
<1>9. QED
  BY <1>1, <1>2, <1>3, <1>4, <1>5, <1>6, <1>7, <1>8 DEF Next, Start, Stop

LEMMA TypeInvCorrect == Spec => []TypeInv
<1>1. QED
  BY TypeInit, TypeStep, PTL DEF Spec

(* Every variable of the providers keeps its type: the connections counted *)
(* never exceed their bound, a commit and a rollback are at one of their   *)
(* steps, and what is written to the file is a map of records.             *)
THEOREM TypeCorrect == Spec => []TypeOK
<1>1. TypeInv => TypeOK
  BY DEF TypeInv
<1>2. QED
  BY <1>1, TypeInvCorrect, PTL

-----------------------------------------------------------------------------
(* The connection, the records and the database.  Most steps leave all     *)
(* three alone.                                                            *)

Resting == UNCHANGED <<backend, connectionVars, dataVars, databaseVars, torn>>

LEMMA WhatMoves ==
  ASSUME [Next]_vars
  PROVE  \/ Resting
         \/ backend = "memory" /\ backend' = backend
         \/ /\ backend = "filesystem"
            /\ \/ FsConnected \/ FsDisconnected \/ FsFlushFailed
               \/ \E t \in Txs : FsPersisted(t)
               \/ \E c \in Calls : FsCallFlushed(c)
         \/ /\ backend = "sqlite"
            /\ \/ SqliteConnect \/ SqliteDisconnect \/ SqliteConnected \/ SqliteConnectFailed
               \/ \E t \in Txs : SqliteCommit(t)
               \/ \E c \in Calls, k \in Keys : SqliteCallRun(c, k)
         \/ Crash
<1>1. CASE SessionStep
  BY <1>1 DEF SessionStep, OpenSession, CloseSession, CloseAfter, Resting
<1>2. CASE TransactionStep
  BY <1>2
  DEF TransactionStep, TxWrite, Committed, Refused, Rollback, RolledBack, RollbackFailed, Resting
<1>3. CASE CallStep
  BY <1>3 DEF CallStep, CallOpen, CallRefused, CallClose, Resting
<1>4. CASE (backend = "memory" /\ (MemoryConnect \/ MemoryDisconnect)) \/ MemoryNext
  BY <1>4
  DEF MemoryConnect, MemoryDisconnect, MemoryNext, MemoryBeginTransaction, MemoryRegister,
      MemoryCommit, MemoryCommitFailed, CommitFailed, MemoryCallRun
<1>5. CASE (backend = "filesystem" /\ (FsConnect \/ FsDisconnect)) \/ FilesystemNext
  BY <1>5
  DEF FsConnect, FsDisconnect, FilesystemNext, FsBeginTransaction, FsCommit, FsLanded,
      FsCommitFailed, CommitFailed, FsCallRun, Resting
<1>6. CASE (backend = "sqlite" /\ (SqliteConnect \/ SqliteDisconnect)) \/ SqliteNext
  BY <1>6
  DEF SqliteNext, SqliteBeginTransaction, SqliteLanded, SqliteCommitFailed, CommitFailed, Resting
<1>7. CASE UNCHANGED vars
  BY <1>7 DEF vars, Resting
<1>8. QED
  BY <1>1, <1>2, <1>3, <1>4, <1>5, <1>6, <1>7 DEF Next, Start, Stop

LEMMA ReadersInit == Init => ReadersSeeDisk
BY DEF Init, ReadersSeeDisk

LEMMA ReadersStep == TypeInv /\ ReadersSeeDisk /\ [Next]_vars => ReadersSeeDisk'
<1> SUFFICES ASSUME TypeInv, ReadersSeeDisk, [Next]_vars PROVE ReadersSeeDisk'
  OBVIOUS
<1>0. 0 \in 0..MaxConnects /\ DOMAIN mem = 0..MaxConnects
  BY DEF TypeInv, TypeOK
<1>1. CASE Resting
  BY <1>1 DEF Resting, ReadersSeeDisk
<1>2. CASE backend = "memory" /\ backend' = backend
  BY <1>2 DEF ReadersSeeDisk
<1>3. CASE FsConnected \/ FsDisconnected \/ FsFlushFailed
  BY <1>0, <1>3
  DEF FsConnected, FsDisconnected, FsFlushFailed, Flushed, FlushFailed, ReadersSeeDisk,
      TypeInv, TypeOK
<1>4. ASSUME NEW t \in Txs, FsPersisted(t) PROVE ReadersSeeDisk'
  BY <1>0, <1>4 DEF FsPersisted, Flushed, FlushFailed, ReadersSeeDisk, TypeInv, TypeOK
<1>5. ASSUME NEW c \in Calls, FsCallFlushed(c) PROVE ReadersSeeDisk'
  BY <1>0, <1>5 DEF FsCallFlushed, Flushed, FlushFailed, ReadersSeeDisk, TypeInv, TypeOK
<1>6. CASE SqliteConnect
  BY <1>6 DEF SqliteConnect, ReadersSeeDisk
<1>7. CASE SqliteDisconnect
  <2>1. UNCHANGED <<backend, dataVars, torn>> /\ (connected' = FALSE \/ connected' = connected)
    BY <1>7 DEF SqliteDisconnect
  <2>2. QED
    BY <2>1 DEF ReadersSeeDisk
<1>8. CASE SqliteConnected
  BY <1>0, <1>8 DEF SqliteConnected, ReadersSeeDisk
<1>9. CASE SqliteConnectFailed
  BY <1>9 DEF SqliteConnectFailed, ReadersSeeDisk
<1>10. ASSUME NEW t \in Txs, SqliteCommit(t) PROVE ReadersSeeDisk'
  BY <1>0, <1>10
  DEF SqliteCommit, SqliteApply, SqliteRefuse, Persisted, PersistFailed, ReadersSeeDisk
<1>11. ASSUME NEW c \in Calls, NEW k \in Keys, SqliteCallRun(c, k) PROVE ReadersSeeDisk'
  BY <1>0, <1>11 DEF SqliteCallRun, Persisted, PersistFailed, ReadersSeeDisk
<1>12. CASE Crash
  BY <1>12 DEF Crash, ReadersSeeDisk
<1>13. QED
  BY WhatMoves, <1>1, <1>2, <1>3, <1>4, <1>5, <1>6, <1>7, <1>8, <1>9, <1>10, <1>11, <1>12

(* What a connected provider shows its readers is what it would load after *)
(* a restart, unless the last write of the file failed: no commit and no   *)
(* direct write is visible before it is durable, or durable and invisible. *)
THEOREM ReadersSeeDiskCorrect == Spec => []ReadersSeeDisk
<1>1. QED
  BY ReadersInit, ReadersStep, TypeInvCorrect, PTL DEF Spec

(* A connect that waits while the provider is connected overlapped with    *)
(* the one that connected it.                                              *)
SoleConnect ==
  backend = "sqlite" /\ ~overlapped => connects <= 1 /\ (connected => connects = 0)

(* The database of a provider that was connected once has its tables.      *)
SchemaMade == backend = "sqlite" /\ epoch > 0 => schema \in {"no-revision", "complete"}

DatabaseInv == SoleConnect /\ ConnectedHasDatabase /\ SchemaMade

LEMMA DatabaseInit == Init => DatabaseInv
BY DEF Init, DatabaseInv, SoleConnect, ConnectedHasDatabase, SchemaMade

LEMMA DatabaseStep == TypeInv /\ DatabaseInv /\ [Next]_vars => DatabaseInv'
<1> SUFFICES ASSUME TypeInv, DatabaseInv, [Next]_vars PROVE DatabaseInv'
  OBVIOUS
<1> USE DEF DatabaseInv, SoleConnect, ConnectedHasDatabase, SchemaMade
<1>1. CASE Resting
  BY <1>1 DEF Resting
<1>2. CASE backend # "sqlite" /\ backend' = backend
  BY <1>2
<1>3. CASE SqliteConnect
  <2>1. /\ ~connected /\ ~connected' /\ connects' = connects + 1
        /\ overlapped' = (overlapped \/ connects > 0)
        /\ UNCHANGED <<backend, epoch, schema, db>>
    BY <1>3 DEF SqliteConnect
  <2>2. connects \in Nat
    BY DEF TypeInv, TypeOK
  <2>3. ~overlapped' => ~overlapped /\ ~(connects > 0)
    BY <1>3, Zenon DEF SqliteConnect
  <2>4. ~overlapped' => connects' <= 1
    BY <2>1, <2>2, <2>3
  <2>5. QED
    BY <2>1, <2>4
<1>4. CASE SqliteDisconnect
  <2>1. UNCHANGED <<backend, epoch, connects, overlapped, schema>>
    BY <1>4 DEF SqliteDisconnect
  <2>2. ~connected' \/ ((connected' <=> connected) /\ db' = "open")
    BY <1>4 DEF SqliteDisconnect
  <2>3. QED
    BY <2>1, <2>2
<1>5. CASE SqliteConnected
  <2>1. db' = "open" /\ connects' = connects - 1 /\ connects > 0 /\ connects \in Nat
    BY <1>5 DEF SqliteConnected, TypeInv, TypeOK
  <2>2. UNCHANGED <<backend, overlapped>> /\ schema' \in {"no-revision", "complete"}
    BY <1>5 DEF SqliteConnected, SchemaUsable
  <2>3. QED
    BY <2>1, <2>2
<1>6. CASE SqliteConnectFailed
  <2>1. /\ connects' = connects - 1 /\ connects > 0 /\ connects \in Nat
        /\ UNCHANGED <<backend, epoch, connected, overlapped>>
    BY <1>6 DEF SqliteConnectFailed, TypeInv, TypeOK
  <2>2. CASE backend = "sqlite" /\ epoch > 0
    BY <1>6, <2>1, <2>2 DEF SqliteConnectFailed, SchemaReached
  <2>3. CASE ~(backend = "sqlite" /\ epoch > 0)
    BY <2>1, <2>3
  <2>4. QED
    BY <2>2, <2>3
<1>7. ASSUME NEW t \in Txs, SqliteCommit(t) PROVE DatabaseInv'
  BY <1>7 DEF SqliteCommit
<1>8. ASSUME NEW c \in Calls, NEW k \in Keys, SqliteCallRun(c, k) PROVE DatabaseInv'
  BY <1>8 DEF SqliteCallRun
<1>9. CASE Crash
  <2>1. connected' = FALSE /\ connects' = 0 /\ UNCHANGED <<backend, epoch>>
    BY <1>9 DEF Crash
  <2>2. backend = "sqlite" /\ epoch > 0 => schema' = schema
    BY <1>9 DEF Crash, SchemaReached
  <2>3. QED
    BY <2>1, <2>2
<1>10. CASE /\ backend = "filesystem"
            /\ \/ FsConnected \/ FsDisconnected \/ FsFlushFailed
               \/ \E t \in Txs : FsPersisted(t)
               \/ \E c \in Calls : FsCallFlushed(c)
  BY <1>10 DEF FsConnected, FsDisconnected, FsFlushFailed, FsPersisted, FsCallFlushed
<1>11. QED
  BY WhatMoves, <1>1, <1>2, <1>3, <1>4, <1>5, <1>6, <1>7, <1>8, <1>9, <1>10

LEMMA DatabaseInvCorrect == Spec => []DatabaseInv
<1>1. QED
  BY DatabaseInit, DatabaseStep, TypeInvCorrect, PTL DEF Spec

(* As long as no two connects overlapped, a connected SQLite provider has  *)
(* its database open: no failed connect or disconnect leaves it connected  *)
(* to nothing.                                                             *)
THEOREM ConnectedHasDatabaseCorrect == Spec => []ConnectedHasDatabase
<1>1. DatabaseInv => ConnectedHasDatabase
  BY DEF DatabaseInv
<1>2. QED
  BY <1>1, DatabaseInvCorrect, PTL

(* After the first connect has succeeded, no crash and no failed connect   *)
(* can leave a schema that the next connect refuses.                       *)
THEOREM SchemaStaysUsableCorrect == Spec => []SchemaStaysUsable
<1>1. DatabaseInv => SchemaStaysUsable
  BY DEF DatabaseInv, SchemaMade, SchemaStaysUsable, SchemaUsable
<1>2. QED
  BY <1>1, DatabaseInvCorrect, PTL

-----------------------------------------------------------------------------
(* Whoever writes the file is waiting for it.                              *)

Awaited ==
  /\ \A t \in Txs   : flush = t => commitPc[t] = "flushing"
  /\ \A c \in Calls : flush = c => callPc[c] = "flushing"

\* A step that leaves the writing of the file alone.
KeepsFlush ==
  /\ flush' = flush
  /\ \A t \in Txs   : commitPc[t] = "flushing" => commitPc'[t] = "flushing"
  /\ \A c \in Calls : callPc[c] = "flushing" => callPc'[c] = "flushing"

LEMMA AwaitedInit == Init => Awaited
BY DEF Init, Awaited

LEMMA FailedKeepsFlush ==
  ASSUME TypeOK, NEW t \in Txs, NEW code, CommitFailed(t, code)
  PROVE  KeepsFlush
BY DEF CommitFailed, KeepsFlush, TypeOK

LEMMA MostKeepFlush ==
  ASSUME TypeOK, [Next]_vars
  PROVE  \/ KeepsFlush
         \/ FsConnect \/ FsDisconnect \/ FsConnected \/ FsDisconnected \/ FsFlushFailed
         \/ \E t \in Txs : FsCommit(t) \/ FsPersisted(t)
         \/ \E c \in Calls, k \in Keys : FsCallRun(c, k)
         \/ \E c \in Calls : FsCallFlushed(c)
         \/ Crash
<1> USE DEF TypeOK
<1>1. CASE SessionStep
  BY <1>1 DEF SessionStep, OpenSession, CloseSession, CloseAfter, KeepsFlush
<1>2. CASE TransactionStep
  BY <1>2
  DEF TransactionStep, TxWrite, Committed, Refused, Rollback, RolledBack, RollbackFailed,
      KeepsFlush
<1>3. CASE CallStep
  BY <1>3 DEF CallStep, CallOpen, CallRefused, CallClose, KeepsFlush
<1>4. CASE (backend = "memory" /\ (MemoryConnect \/ MemoryDisconnect)) \/ MemoryNext
  <2>1. CASE MemoryConnect \/ MemoryDisconnect
    BY <2>1 DEF MemoryConnect, MemoryDisconnect, KeepsFlush
  <2>2. ASSUME NEW t \in Txs, NEW s \in Sessions, MemoryBeginTransaction(t, s)
        PROVE  KeepsFlush
    BY <2>2 DEF MemoryBeginTransaction, KeepsFlush
  <2>3. ASSUME NEW t \in Txs, MemoryRegister(t) \/ MemoryCommit(t) PROVE KeepsFlush
    BY <2>3 DEF MemoryRegister, MemoryCommit, MemoryApply, MemoryRefuse, KeepsFlush
  <2>4. ASSUME NEW t \in Txs, MemoryCommitFailed(t) PROVE KeepsFlush
    BY <2>4, FailedKeepsFlush DEF MemoryCommitFailed
  <2>5. ASSUME NEW c \in Calls, NEW k \in Keys, MemoryCallRun(c, k) PROVE KeepsFlush
    BY <2>5 DEF MemoryCallRun, KeepsFlush
  <2>6. QED
    BY <1>4, <2>1, <2>2, <2>3, <2>4, <2>5 DEF MemoryNext
<1>5. ASSUME NEW t \in Txs, NEW s \in Sessions,
             FsBeginTransaction(t, s) \/ FsLanded(t) \/ FsCommitFailed(t)
      PROVE  KeepsFlush
  <2>1. CASE FsBeginTransaction(t, s) \/ FsLanded(t)
    BY <2>1 DEF FsBeginTransaction, FsLanded, KeepsFlush
  <2>2. CASE FsCommitFailed(t)
    BY <2>2, FailedKeepsFlush DEF FsCommitFailed
  <2>3. QED
    BY <1>5, <2>1, <2>2
<1>6. CASE (backend = "sqlite" /\ (SqliteConnect \/ SqliteDisconnect)) \/ SqliteNext
  <2>1. CASE SqliteConnect \/ SqliteDisconnect \/ SqliteConnected \/ SqliteConnectFailed
    BY <2>1
    DEF SqliteConnect, SqliteDisconnect, SqliteConnected, SqliteConnectFailed, KeepsFlush
  <2>2. ASSUME NEW t \in Txs, NEW s \in Sessions, SqliteBeginTransaction(t, s)
        PROVE  KeepsFlush
    BY <2>2 DEF SqliteBeginTransaction, KeepsFlush
  <2>3. ASSUME NEW t \in Txs, SqliteCommit(t) \/ SqliteLanded(t) PROVE KeepsFlush
    BY <2>3 DEF SqliteCommit, SqliteApply, SqliteRefuse, SqliteLanded, KeepsFlush
  <2>4. ASSUME NEW t \in Txs, SqliteCommitFailed(t) PROVE KeepsFlush
    BY <2>4, FailedKeepsFlush DEF SqliteCommitFailed
  <2>5. ASSUME NEW c \in Calls, NEW k \in Keys, SqliteCallRun(c, k) PROVE KeepsFlush
    BY <2>5 DEF SqliteCallRun, KeepsFlush
  <2>6. QED
    BY <1>6, <2>1, <2>2, <2>3, <2>4, <2>5 DEF SqliteNext
<1>7. CASE UNCHANGED vars
  BY <1>7 DEF vars, KeepsFlush
<1>8. ASSUME NEW t \in Txs, FsLanded(t) \/ FsCommitFailed(t) PROVE KeepsFlush
  <2>1. CASE FsLanded(t)
    BY <2>1 DEF FsLanded, KeepsFlush
  <2>2. CASE FsCommitFailed(t)
    BY <2>2, FailedKeepsFlush DEF FsCommitFailed
  <2>3. QED
    BY <1>8, <2>1, <2>2
<1>9. QED
  BY <1>1, <1>2, <1>3, <1>4, <1>5, <1>6, <1>7, <1>8
  DEF Next, Start, Stop, FilesystemNext

LEMMA AwaitedStep == TypeInv /\ Awaited /\ [Next]_vars => Awaited'
<1> SUFFICES ASSUME TypeInv, Awaited, [Next]_vars PROVE Awaited'
  OBVIOUS
<1>0. TypeOK
  BY DEF TypeInv
<1> USE DEF TypeOK
<1>1. CASE KeepsFlush
  BY <1>1 DEF KeepsFlush, Awaited
<1>2. CASE FsConnect \/ FsDisconnect
  <2>1. flush' \in {"connect", "disconnect"}
    BY <1>2 DEF FsConnect, FsDisconnect, StartFlush
  <2>2. \A w \in Txs \cup Calls : flush' # w
    BY <2>1
  <2>3. QED
    BY <2>2 DEF Awaited
<1>3. CASE flush' = "none"
  <2>1. \A w \in Txs \cup Calls : flush' # w
    BY <1>3
  <2>2. QED
    BY <2>1 DEF Awaited
<1>4. ASSUME NEW t \in Txs, FsCommit(t) PROVE Awaited'
  <2>1. CASE FsStartCommit(t)
    BY <1>0, <1>4, <2>1 DEF FsCommit, FsStartCommit, StartFlush, Awaited
  <2>2. CASE FsRefuse(t)
    BY <1>0, <1>4, <2>2 DEF FsCommit, FsRefuse, Awaited
  <2>3. QED
    BY <1>4, <2>1, <2>2 DEF FsCommit
<1>5. ASSUME NEW c \in Calls, NEW k \in Keys, FsCallRun(c, k) PROVE Awaited'
  BY <1>0, <1>5 DEF FsCallRun, StartFlush, Awaited
<1>6. ASSUME FsConnected \/ FsDisconnected \/ FsFlushFailed \/ Crash PROVE flush' = "none"
  BY <1>6 DEF FsConnected, FsDisconnected, FsFlushFailed, Flushed, FlushFailed, Crash
<1>7. ASSUME NEW t \in Txs, FsPersisted(t) PROVE flush' = "none"
  BY <1>7 DEF FsPersisted, Flushed, FlushFailed
<1>8. ASSUME NEW c \in Calls, FsCallFlushed(c) PROVE flush' = "none"
  BY <1>8 DEF FsCallFlushed, Flushed, FlushFailed
<1>9. QED
  BY MostKeepFlush, <1>0, <1>1, <1>2, <1>3, <1>4, <1>5, <1>6, <1>7, <1>8

LEMMA AwaitedCorrect == Spec => []Awaited
<1>1. QED
  BY AwaitedInit, AwaitedStep, TypeInvCorrect, PTL DEF Spec

-----------------------------------------------------------------------------
(* Sessions and transactions.  What a step may do to them.                 *)

lifeVars == <<sessionVars, txVars, connected, epoch, late>>

Begins(t, s) ==
  /\ tState[t] = "unused"
  /\ Usable(s)
  /\ txSession' = [txSession EXCEPT ![t] = s]
  /\ \/ /\ tState' = [tState EXCEPT ![t] = "beginning"]
        /\ transactions' = transactions
     \/ /\ tState' = [tState EXCEPT ![t] = "active"]
        /\ transactions' = transactions \cup {t}
  /\ UNCHANGED <<sessionVars, connected, epoch, late, callVars, answer, closing>>

Ends(t) ==
  /\ commitPc[t] = "ok" \/ rollbackPc[t] = "ok"
  /\ tState' = [tState EXCEPT ![t] = "committed"] \/ tState' = [tState EXCEPT ![t] = "rolled-back"]
  /\ transactions' = transactions \ {t}
  /\ ThenClose(t)
  /\ UNCHANGED <<sessionVars, txSession, connected, epoch, late, callVars>>
  /\ \E a \in Answers : answer' = [answer EXCEPT ![t] = a]

Responds(t) ==
  /\ ThenClose(t)
  /\ UNCHANGED <<lifeVars, callVars>>
  /\ \E a \in Answers : answer' = [answer EXCEPT ![t] = a]

Connects ==
  /\ connected' = TRUE
  /\ connected => epoch' = epoch
  /\ UNCHANGED <<sessionVars, txVars, late, callVars, answer, closing>>

Disconnects ==
  /\ ForceClose
  /\ connected' = FALSE \/ UNCHANGED connected
  /\ UNCHANGED <<epoch, callVars, answer, closing>>

Runs(c) ==
  /\ callPc[c] \in {"opened", "flushing"}
  /\ \E p \in {"flushing", "written", "failed"} :
       /\ callPc' = [callPc EXCEPT ![c] = p]
       /\ callPc[c] = "flushing" /\ p = "failed" => c \in unsure'
  /\ UNCHANGED <<lifeVars, callSession, answer, closing>>

Quiet == UNCHANGED <<lifeVars, callVars, answer, closing>>

LEMMA FlushedLate ==
  ASSUME NEW who, Flushed(who) \/ FlushFailed(who)
  PROVE  late' = late /\ flush = who
BY DEF Flushed, FlushFailed

LEMMA CommitAnswered ==
  ASSUME NEW t \in Txs, NEW code \in Answers, CommitFailed(t, code)
  PROVE  Responds(t)
BY DEF CommitFailed, Responds, lifeVars

LEMMA Lives ==
  ASSUME TypeInv, Awaited, [Next]_vars
  PROVE  \/ SessionStep \/ CallStep
         \/ \E t \in Txs, s \in Sessions : Begins(t, s)
         \/ \E t \in Txs : MemoryRegister(t) \/ Ends(t) \/ Responds(t)
         \/ Connects \/ Disconnects \/ Crash
         \/ \E c \in Calls : Runs(c)
         \/ Quiet
<1>1. ASSUME TransactionStep
      PROVE  (\E t \in Txs : Ends(t) \/ Responds(t)) \/ Quiet
  <2>1. ASSUME NEW t \in Txs, NEW k \in Keys, TxWrite(t, k) PROVE Quiet
    BY <2>1 DEF TxWrite, Quiet, lifeVars
  <2>2. ASSUME NEW t \in Txs, Committed(t) \/ RolledBack(t) PROVE Ends(t)
    BY <2>2 DEF Committed, RolledBack, Ends, Answers
  <2>3. ASSUME NEW t \in Txs, Refused(t) \/ RollbackFailed(t) PROVE Responds(t)
    BY <2>3 DEF Refused, RollbackFailed, Responds, lifeVars, Answers
  <2>4. ASSUME NEW t \in Txs, Rollback(t) PROVE Quiet
    BY <2>4 DEF Rollback, Quiet, lifeVars
  <2>5. QED
    BY <1>1, <2>1, <2>2, <2>3, <2>4 DEF TransactionStep
<1>2. ASSUME (backend = "memory" /\ (MemoryConnect \/ MemoryDisconnect)) \/ MemoryNext
      PROVE  \/ Connects \/ Disconnects \/ Quiet
             \/ \E t \in Txs, s \in Sessions : Begins(t, s)
             \/ \E t \in Txs : MemoryRegister(t) \/ Responds(t)
             \/ \E c \in Calls : Runs(c)
  <2>1. CASE MemoryConnect
    BY <2>1 DEF MemoryConnect, Connects
  <2>2. CASE MemoryDisconnect
    BY <2>2 DEF MemoryDisconnect, Disconnects
  <2>3. ASSUME NEW t \in Txs, NEW s \in Sessions, MemoryBeginTransaction(t, s)
        PROVE  Begins(t, s)
    BY <2>3 DEF MemoryBeginTransaction, Snapshot, Begins
  <2>4. ASSUME NEW t \in Txs, MemoryCommit(t) PROVE Quiet
    BY <2>4 DEF MemoryCommit, Quiet, lifeVars
  <2>5. ASSUME NEW t \in Txs, MemoryCommitFailed(t) PROVE Responds(t)
    BY <2>5, CommitAnswered DEF MemoryCommitFailed, Answers
  <2>6. ASSUME NEW c \in Calls, NEW k \in Keys, MemoryCallRun(c, k) PROVE Runs(c)
    BY <2>6 DEF MemoryCallRun, Runs, lifeVars
  <2>7. QED
    BY <1>2, <2>1, <2>2, <2>3, <2>4, <2>5, <2>6 DEF MemoryNext
<1>3. ASSUME (backend = "filesystem" /\ (FsConnect \/ FsDisconnect)) \/ FilesystemNext
      PROVE  \/ Connects \/ Disconnects \/ Quiet
             \/ \E t \in Txs, s \in Sessions : Begins(t, s)
             \/ \E t \in Txs : Responds(t)
             \/ \E c \in Calls : Runs(c)
  <2>1. CASE FsConnect \/ FsDisconnect
    BY <2>1 DEF FsConnect, FsDisconnect, Quiet, lifeVars
  <2>2. CASE FsConnected
    <3>1. ~connected
      BY <2>2 DEF FsConnected, Flushed, TypeInv, Connecting
    <3>2. QED
      BY <2>2, <3>1, FlushedLate DEF FsConnected, Connects
  <2>3. CASE FsDisconnected
    BY <2>3 DEF FsDisconnected, Disconnects
  <2>4. CASE FsFlushFailed
    BY <2>4, FlushedLate DEF FsFlushFailed, Quiet, lifeVars
  <2>5. ASSUME NEW t \in Txs, NEW s \in Sessions, FsBeginTransaction(t, s)
        PROVE  Begins(t, s)
    BY <2>5 DEF FsBeginTransaction, Snapshot, Begins
  <2>6. ASSUME NEW t \in Txs, FsCommit(t) \/ FsPersisted(t) \/ FsLanded(t) PROVE Quiet
    BY <2>6, FlushedLate DEF FsCommit, FsPersisted, FsLanded, Quiet, lifeVars
  <2>7. ASSUME NEW t \in Txs, FsCommitFailed(t) PROVE Responds(t)
    <3>1. PICK code \in Answers : CommitFailed(t, code)
      BY <2>7 DEF FsCommitFailed, Answers
    <3>2. QED
      BY <3>1, CommitAnswered
  <2>8. ASSUME NEW c \in Calls, NEW k \in Keys, FsCallRun(c, k) PROVE Runs(c)
    BY <2>8 DEF FsCallRun, Runs, lifeVars
  <2>9. ASSUME NEW c \in Calls, FsCallFlushed(c) PROVE Runs(c)
    <3>1. late' = late /\ flush = c
      BY <2>9, FlushedLate DEF FsCallFlushed
    <3>2. callPc[c] = "flushing"
      BY <3>1 DEF Awaited
    <3>3. FlushFailed(c) => c \in unsure'
      BY DEF FlushFailed
    <3>4. QED
      BY <2>9, <3>1, <3>2, <3>3 DEF FsCallFlushed, Runs, lifeVars
  <2>10. QED
    BY <1>3, <2>1, <2>2, <2>3, <2>4, <2>5, <2>6, <2>7, <2>8, <2>9 DEF FilesystemNext
<1>4. ASSUME (backend = "sqlite" /\ (SqliteConnect \/ SqliteDisconnect)) \/ SqliteNext
      PROVE  \/ Connects \/ Disconnects \/ Quiet
             \/ \E t \in Txs, s \in Sessions : Begins(t, s)
             \/ \E t \in Txs : Responds(t)
             \/ \E c \in Calls : Runs(c)
  <2>1. CASE SqliteConnect
    BY <2>1 DEF SqliteConnect, Quiet, lifeVars
  <2>2. CASE SqliteDisconnect
    <3>1. connected' = FALSE \/ UNCHANGED connected
      BY <2>2 DEF SqliteDisconnect
    <3>2. QED
      BY <2>2, <3>1 DEF SqliteDisconnect, Disconnects
  <2>3. CASE SqliteConnected
    BY <2>3 DEF SqliteConnected, Connects
  <2>4. CASE SqliteConnectFailed
    BY <2>4 DEF SqliteConnectFailed, Quiet, lifeVars
  <2>5. ASSUME NEW t \in Txs, NEW s \in Sessions, SqliteBeginTransaction(t, s)
        PROVE  Begins(t, s)
    BY <2>5 DEF SqliteBeginTransaction, Snapshot, Begins
  <2>6. ASSUME NEW t \in Txs, SqliteCommit(t) \/ SqliteLanded(t) PROVE Quiet
    BY <2>6 DEF SqliteCommit, SqliteLanded, Quiet, lifeVars
  <2>7. ASSUME NEW t \in Txs, SqliteCommitFailed(t) PROVE Responds(t)
    <3>1. PICK code \in Answers : CommitFailed(t, code)
      BY <2>7 DEF SqliteCommitFailed, Answers
    <3>2. QED
      BY <3>1, CommitAnswered
  <2>8. ASSUME NEW c \in Calls, NEW k \in Keys, SqliteCallRun(c, k) PROVE Runs(c)
    BY <2>8 DEF SqliteCallRun, Runs, lifeVars
  <2>9. QED
    BY <1>4, <2>1, <2>2, <2>3, <2>4, <2>5, <2>6, <2>7, <2>8 DEF SqliteNext
<1>5. CASE UNCHANGED vars
  BY <1>5 DEF vars, Quiet, lifeVars
<1>6. QED
  BY <1>1, <1>2, <1>3, <1>4, <1>5 DEF Next, Start, Stop

-----------------------------------------------------------------------------
(* The outcome of a transaction.  What a step may do to the state of the   *)
(* transactions and to the commits and rollbacks in progress.              *)

outcomeVars == <<backend, tState, wState, commitPc, rollbackPc, answer, raced>>

Appears(t) ==
  /\ tState[t] \in {"unused", "beginning"}
  /\ \E a \in {"beginning", "active"} : tState' = [tState EXCEPT ![t] = a]
  /\ UNCHANGED <<backend, wState, commitPc, rollbackPc, answer, raced>>

\* How a commit goes on from the provider's check of its own state.
Reaches(t, step) ==
  /\ commitPc' = [commitPc EXCEPT ![t] = step]
  /\ \/ step \in {"flushing", "landed", "io", "conflict"} /\ wState[t] = "active" /\ wState' = wState
     \/ step = "ok" /\ wState[t] = "active" /\ wState' = [wState EXCEPT ![t] = "committed"]
     \/ step = "closed" /\ wState[t] # "active" /\ wState' = wState

Commits(t) ==
  /\ tState[t] = "active"
  /\ commitPc[t] = "none"
  /\ \E step \in CommitSteps : Reaches(t, step)
  /\ Race(t, rollbackPc[t])
  /\ UNCHANGED <<backend, tState, rollbackPc, answer, sState, connected, late>>

Persists(t) ==
  /\ commitPc[t] = "flushing"
  /\ \E step \in {"landed", "io"} : /\ commitPc' = [commitPc EXCEPT ![t] = step]
                                    /\ step = "io" => t \in unsure'
  /\ UNCHANGED <<backend, tState, wState, rollbackPc, answer, raced>>

Lands(t) ==
  /\ commitPc[t] = "landed"
  /\ commitPc' = [commitPc EXCEPT ![t] = "ok"]
  /\ wState' = [wState EXCEPT ![t] = "committed"]
  /\ UNCHANGED <<backend, tState, rollbackPc, answer, raced>>

Fails(t) ==
  /\ commitPc[t] \in {"conflict", "closed", "io"}
  /\ commitPc' = [commitPc EXCEPT ![t] = "none"]
  /\ \/ backend = "memory" /\ answer' = [answer EXCEPT ![t] = "transaction-closed"]
     \/ \E a \in {"version-conflict", "io-failure"} : answer' = [answer EXCEPT ![t] = a]
  /\ UNCHANGED <<backend, tState, wState, rollbackPc, raced>>

Closes ==
  /\ ForceClose
  /\ connected' \in {FALSE, connected}
  /\ UNCHANGED <<backend, wState, commitPc, rollbackPc, answer>>

LEMMA FlushedRaced ==
  ASSUME NEW who, Flushed(who) \/ FlushFailed(who)
  PROVE  raced' = raced /\ flush = who
BY DEF Flushed, FlushFailed

LEMMA Outcomes ==
  ASSUME TypeInv, Awaited, [Next]_vars
  PROVE  \/ UNCHANGED outcomeVars
         \/ \E t \in Txs : \/ Appears(t) \/ Commits(t) \/ Persists(t) \/ Lands(t) \/ Fails(t)
                           \/ Committed(t) \/ Refused(t)
                           \/ Rollback(t) \/ RolledBack(t) \/ RollbackFailed(t)
         \/ Closes \/ Crash
<1> DEFINE Result == \/ UNCHANGED outcomeVars
                     \/ \E t \in Txs : \/ Appears(t) \/ Commits(t) \/ Persists(t)
                                       \/ Lands(t) \/ Fails(t)
                     \/ Closes
<1>1. CASE SessionStep
  BY <1>1 DEF SessionStep, OpenSession, CloseSession, CloseAfter, outcomeVars
<1>2. ASSUME NEW t \in Txs, NEW k \in Keys, TxWrite(t, k) PROVE UNCHANGED outcomeVars
  BY <1>2 DEF TxWrite, outcomeVars
<1>3. CASE CallStep
  BY <1>3 DEF CallStep, CallOpen, CallRefused, CallClose, outcomeVars
<1>4. ASSUME (backend = "memory" /\ (MemoryConnect \/ MemoryDisconnect)) \/ MemoryNext
      PROVE  Result
  <2>1. CASE MemoryConnect
    BY <2>1 DEF MemoryConnect, outcomeVars
  <2>2. CASE MemoryDisconnect
    BY <2>2 DEF MemoryDisconnect, Closes
  <2>3. ASSUME NEW t \in Txs, NEW s \in Sessions, MemoryBeginTransaction(t, s)
        PROVE  Appears(t)
    BY <2>3 DEF MemoryBeginTransaction, Appears
  <2>4. ASSUME NEW t \in Txs, MemoryRegister(t) PROVE Appears(t)
    BY <2>4 DEF MemoryRegister, Appears
  <2>5. ASSUME NEW t \in Txs, MemoryCommit(t) PROVE Commits(t)
    <3>1. \E step \in CommitSteps : Reaches(t, step)
      BY <2>5 DEF MemoryCommit, MemoryApply, MemoryRefuse, Reaches, CommitSteps
    <3>2. QED
      BY <2>5, <3>1 DEF MemoryCommit, Commits
  <2>6. ASSUME NEW t \in Txs, MemoryNext, MemoryCommitFailed(t) PROVE Fails(t)
    BY <2>6 DEF MemoryNext, MemoryCommitFailed, CommitFailed, Fails
  <2>7. ASSUME NEW c \in Calls, NEW k \in Keys, MemoryCallRun(c, k)
        PROVE  UNCHANGED outcomeVars
    BY <2>7 DEF MemoryCallRun, outcomeVars
  <2> HIDE DEF Result
  <2>8. QED
    <3>1. CASE MemoryNext
      BY <3>1, <2>3, <2>4, <2>5, <2>6, <2>7 DEF MemoryNext, Result
    <3>2. QED
      BY <1>4, <2>1, <2>2, <3>1 DEF Result
<1>5. ASSUME (backend = "filesystem" /\ (FsConnect \/ FsDisconnect)) \/ FilesystemNext
      PROVE  Result
  <2>1. CASE FsConnect \/ FsDisconnect
    BY <2>1 DEF FsConnect, FsDisconnect, outcomeVars
  <2>2. CASE FsConnected \/ FsFlushFailed
    BY <2>2, FlushedRaced DEF FsConnected, FsFlushFailed, outcomeVars
  <2>3. CASE FsDisconnected
    BY <2>3 DEF FsDisconnected, Closes
  <2>4. ASSUME NEW t \in Txs, NEW s \in Sessions, FsBeginTransaction(t, s)
        PROVE  Appears(t)
    BY <2>4 DEF FsBeginTransaction, Appears
  <2>5. ASSUME NEW t \in Txs, FsCommit(t) PROVE Commits(t)
    <3>1. \E step \in CommitSteps : Reaches(t, step)
      BY <2>5 DEF FsCommit, FsStartCommit, FsRefuse, Reaches, CommitSteps
    <3>2. QED
      BY <2>5, <3>1 DEF FsCommit, Commits
  <2>6. ASSUME NEW t \in Txs, FsPersisted(t) PROVE Persists(t)
    <3>1. flush = t /\ raced' = raced
      BY <2>6, FlushedRaced DEF FsPersisted
    <3>2. commitPc[t] = "flushing"
      BY <3>1 DEF Awaited
    <3>3. FlushFailed(t) => t \in unsure'
      BY DEF FlushFailed
    <3>4. QED
      BY <2>6, <3>1, <3>2, <3>3 DEF FsPersisted, Persists
  <2>7. ASSUME NEW t \in Txs, FsLanded(t) PROVE Lands(t)
    BY <2>7 DEF FsLanded, Lands
  <2>8. ASSUME NEW t \in Txs, FsCommitFailed(t) PROVE Fails(t)
    BY <2>8 DEF FsCommitFailed, CommitFailed, Fails
  <2>9. ASSUME NEW c \in Calls, NEW k \in Keys, FsCallRun(c, k)
        PROVE  UNCHANGED outcomeVars
    BY <2>9 DEF FsCallRun, outcomeVars
  <2>10. ASSUME NEW c \in Calls, FsCallFlushed(c) PROVE UNCHANGED outcomeVars
    <3>1. raced' = raced
      BY <2>10, FlushedRaced DEF FsCallFlushed
    <3>2. QED
      BY <2>10, <3>1 DEF FsCallFlushed, outcomeVars
  <2> HIDE DEF Result
  <2>11. QED
    <3>1. CASE FilesystemNext
      BY <3>1, <2>2, <2>3, <2>4, <2>5, <2>6, <2>7, <2>8, <2>9, <2>10
      DEF FilesystemNext, Result
    <3>2. QED
      BY <1>5, <2>1, <3>1 DEF Result
<1>6. ASSUME (backend = "sqlite" /\ (SqliteConnect \/ SqliteDisconnect)) \/ SqliteNext
      PROVE  Result
  <2>1. CASE SqliteConnect \/ SqliteConnected \/ SqliteConnectFailed
    BY <2>1 DEF SqliteConnect, SqliteConnected, SqliteConnectFailed, outcomeVars
  <2>2. CASE SqliteDisconnect
    <3>1. connected' \in {FALSE, connected}
      BY <2>2 DEF SqliteDisconnect
    <3>2. QED
      BY <2>2, <3>1 DEF SqliteDisconnect, Closes
  <2>3. ASSUME NEW t \in Txs, NEW s \in Sessions, SqliteBeginTransaction(t, s)
        PROVE  Appears(t)
    BY <2>3 DEF SqliteBeginTransaction, Appears
  <2>4. ASSUME NEW t \in Txs, SqliteCommit(t) PROVE Commits(t)
    <3>1. \E step \in CommitSteps : Reaches(t, step)
      BY <2>4 DEF SqliteCommit, SqliteApply, SqliteRefuse, Reaches, CommitSteps
    <3>2. QED
      BY <2>4, <3>1 DEF SqliteCommit, Commits
  <2>5. ASSUME NEW t \in Txs, SqliteLanded(t) PROVE Lands(t)
    BY <2>5 DEF SqliteLanded, Lands
  <2>6. ASSUME NEW t \in Txs, SqliteCommitFailed(t) PROVE Fails(t)
    BY <2>6 DEF SqliteCommitFailed, CommitFailed, Fails
  <2>7. ASSUME NEW c \in Calls, NEW k \in Keys, SqliteCallRun(c, k)
        PROVE  UNCHANGED outcomeVars
    BY <2>7 DEF SqliteCallRun, outcomeVars
  <2> HIDE DEF Result
  <2>8. QED
    <3>1. CASE SqliteNext
      BY <3>1, <2>1, <2>3, <2>4, <2>5, <2>6, <2>7 DEF SqliteNext, Result
    <3>2. QED
      BY <1>6, <2>1, <2>2, <3>1 DEF Result
<1>7. CASE UNCHANGED vars
  BY <1>7 DEF vars, outcomeVars
<1>8. CASE TransactionStep
  BY <1>2, <1>8 DEF TransactionStep
<1>9. QED
  BY <1>1, <1>3, <1>4, <1>5, <1>6, <1>7, <1>8 DEF Next, Start, Stop

(* A transaction on which a commit met neither a rollback nor a disconnect *)
(* has one of the two in progress, while it is active, and its store       *)
(* transaction is over only when it is about to be over itself.            *)
Orderly(t) ==
  /\ commitPc[t] = "none" \/ rollbackPc[t] = "none"
  /\ commitPc[t] # "none" \/ rollbackPc[t] # "none" => tState[t] = "active"
  /\ rollbackPc[t] # "closed" /\ commitPc[t] # "closed"
  /\ wState[t] = "committed" => commitPc[t] = "ok" \/ tState[t] \in {"committed", "gone"}
  /\ wState[t] = "rolled-back" => rollbackPc[t] = "ok" \/ tState[t] \in {"rolled-back", "gone"}

Truthful(t) ==
  /\ answer[t] = "committed"   => tState[t] = "committed"
  /\ answer[t] = "rolled-back" => tState[t] = "rolled-back"
  /\ answer[t] \in {"version-conflict", "io-failure"} => tState[t] \in {"active", "closed", "gone"}
  /\ answer[t] = "transaction-closed" => backend = "memory" \/ tState[t] \in FinalStates

\* Nothing has happened to a transaction before it begins.
Fresh(t) == tState[t] = "unused" => answer[t] = "none" /\ commitPc[t] = "none" /\ rollbackPc[t] = "none"

Settled(t) == Fresh(t) /\ (t \notin raced => Orderly(t) /\ Truthful(t))

OutcomeInv == \A t \in Txs : Settled(t)

LEMMA OutcomeInit == Init => OutcomeInv
BY DEF Init, OutcomeInv, Settled, Fresh, Orderly, Truthful

LEMMA OthersSettled ==
  ASSUME OutcomeInv, NEW t \in Txs, backend' = backend,
         tState'[t] = tState[t], wState'[t] = wState[t], commitPc'[t] = commitPc[t],
         rollbackPc'[t] = rollbackPc[t], answer'[t] = answer[t], t \in raced => t \in raced'
  PROVE  Settled(t)'
BY DEF OutcomeInv, Settled, Fresh, Orderly, Truthful

LEMMA OutcomeStep == TypeInv /\ Awaited /\ OutcomeInv /\ [Next]_vars => OutcomeInv'
<1> SUFFICES ASSUME TypeInv, Awaited, OutcomeInv, [Next]_vars PROVE OutcomeInv'
  OBVIOUS
<1>0. TypeOK
  BY DEF TypeInv
<1>a. \A t \in Txs : Settled(t)
  BY DEF OutcomeInv
<1>b. SUFFICES ASSUME NEW u \in Txs PROVE Settled(u)'
  BY DEF OutcomeInv
<1> USE DEF TypeOK
<1>1. CASE UNCHANGED outcomeVars
  BY <1>1, OthersSettled DEF outcomeVars
<1>2. ASSUME NEW t \in Txs, Appears(t) PROVE Settled(u)'
  <2>1. CASE u # t
    BY <1>0, <1>2, <2>1, OthersSettled DEF Appears
  <2>2. CASE u = t
    BY <1>0, <1>a, <1>2, <2>2 DEF Appears, Settled, Fresh, Orderly, Truthful, FinalStates
  <2>3. QED
    BY <2>1, <2>2
<1>3. ASSUME NEW t \in Txs, Commits(t) PROVE Settled(u)'
  <2>1. PICK step \in CommitSteps : Reaches(t, step)
    BY <1>3 DEF Commits
  <2>2. t \notin raced' => t \notin raced /\ rollbackPc[t] = "none"
    BY <1>3 DEF Commits, Race
  <2>3. CASE u # t
    <3>1. u \in raced => u \in raced'
      BY <1>3 DEF Commits, Race
    <3>2. QED
      BY <1>0, <1>3, <2>1, <2>3, <3>1, OthersSettled DEF Commits, Reaches
  <2>4. CASE u = t
    <3>1. Fresh(t)'
      BY <1>3 DEF Commits, Fresh
    <3>2. ASSUME t \notin raced' PROVE Orderly(t)' /\ Truthful(t)'
      <4>1. Orderly(t) /\ Truthful(t) /\ rollbackPc[t] = "none"
        BY <1>a, <2>2, <3>2 DEF Settled
      <4>2. step # "closed"
        BY <1>0, <1>3, <2>1, <4>1 DEF Commits, Reaches, Orderly, InnerStates
      <4>3. /\ tState'[t] = "active" /\ rollbackPc'[t] = "none" /\ answer'[t] = answer[t]
            /\ backend' = backend /\ tState[t] = "active"
        BY <1>3, <4>1 DEF Commits
      <4>4. /\ commitPc'[t] = step
            /\ wState'[t] = "active" \/ (step = "ok" /\ wState'[t] = "committed")
        BY <1>0, <2>1, <4>2 DEF Reaches
      <4>5. Orderly(t)'
        BY <4>2, <4>3, <4>4 DEF Orderly
      <4>6. Truthful(t)'
        BY <4>1, <4>3 DEF Truthful, FinalStates
      <4>7. QED
        BY <4>5, <4>6
    <3>3. QED
      BY <2>4, <3>1, <3>2 DEF Settled
  <2>5. QED
    BY <2>3, <2>4
<1>4. ASSUME NEW t \in Txs, Persists(t) PROVE Settled(u)'
  <2>1. CASE u # t
    BY <1>0, <1>4, <2>1, OthersSettled DEF Persists
  <2>2. CASE u = t
    BY <1>0, <1>a, <1>4, <2>2 DEF Persists, Settled, Fresh, Orderly, Truthful
  <2>3. QED
    BY <2>1, <2>2
<1>5. ASSUME NEW t \in Txs, Lands(t) PROVE Settled(u)'
  <2>1. CASE u # t
    BY <1>0, <1>5, <2>1, OthersSettled DEF Lands
  <2>2. CASE u = t
    BY <1>0, <1>a, <1>5, <2>2 DEF Lands, Settled, Fresh, Orderly, Truthful
  <2>3. QED
    BY <2>1, <2>2
<1>6. ASSUME NEW t \in Txs, Fails(t) PROVE Settled(u)'
  <2>1. CASE u # t
    BY <1>0, <1>6, <2>1, OthersSettled DEF Fails
  <2>2. CASE u = t
    BY <1>0, <1>a, <1>6, <2>2 DEF Fails, Settled, Fresh, Orderly, Truthful, FinalStates
  <2>3. QED
    BY <2>1, <2>2
<1>7. ASSUME NEW t \in Txs, Committed(t) PROVE Settled(u)'
  <2>1. CASE u # t
    BY <1>0, <1>7, <2>1, OthersSettled DEF Committed
  <2>2. CASE u = t
    BY <1>0, <1>a, <1>7, <2>2 DEF Committed, Settled, Fresh, Orderly, Truthful
  <2>3. QED
    BY <2>1, <2>2
<1>8. ASSUME NEW t \in Txs, Refused(t) PROVE Settled(u)'
  <2>1. CASE u # t
    BY <1>0, <1>8, <2>1, OthersSettled DEF Refused
  <2>2. CASE u = t
    BY <1>0, <1>a, <1>8, <2>2
    DEF Refused, Settled, Fresh, Orderly, Truthful, FinalStates
  <2>3. QED
    BY <2>1, <2>2
<1>9. ASSUME NEW t \in Txs, Rollback(t) PROVE Settled(u)'
  <2>1. t \notin raced' => t \notin raced /\ commitPc[t] = "none"
    BY <1>9 DEF Rollback, Race
  <2>2. CASE u # t
    <3>1. u \in raced => u \in raced'
      BY <1>9 DEF Rollback, Race
    <3>2. QED
      BY <1>0, <1>9, <2>2, <3>1, OthersSettled DEF Rollback
  <2>3. CASE u = t
    BY <1>0, <1>a, <1>9, <2>1, <2>3
    DEF Rollback, Settled, Fresh, Orderly, Truthful, InnerStates
  <2>4. QED
    BY <2>2, <2>3
<1>10. ASSUME NEW t \in Txs, RolledBack(t) PROVE Settled(u)'
  <2>1. CASE u # t
    BY <1>0, <1>10, <2>1, OthersSettled DEF RolledBack
  <2>2. CASE u = t
    BY <1>0, <1>a, <1>10, <2>2 DEF RolledBack, Settled, Fresh, Orderly, Truthful
  <2>3. QED
    BY <2>1, <2>2
<1>11. ASSUME NEW t \in Txs, RollbackFailed(t) PROVE Settled(u)'
  <2>1. CASE u # t
    BY <1>0, <1>11, <2>1, OthersSettled DEF RollbackFailed
  <2>2. CASE u = t
    BY <1>0, <1>a, <1>11, <2>2 DEF RollbackFailed, Settled, Fresh, Orderly
  <2>3. QED
    BY <2>1, <2>2
<1>12. CASE Closes
  <2>1. UNCHANGED <<backend, wState, commitPc, rollbackPc, answer>>
    BY <1>12 DEF Closes
  <2>2. /\ tState'[u] = tState[u] \/ (tState[u] = "active" /\ tState'[u] = "closed")
        /\ u \notin raced' => u \notin raced /\ commitPc[u] = "none" /\ rollbackPc[u] = "none"
    BY <1>12 DEF Closes, ForceClose
  <2>3. QED
    BY <1>a, <2>1, <2>2 DEF Settled, Fresh, Orderly, Truthful, FinalStates
<1>13. CASE Crash
  <2>1. /\ commitPc'[u] = "none" /\ rollbackPc'[u] = "none" /\ answer' = answer
        /\ UNCHANGED <<backend, wState, raced>>
        /\ tState'[u] = tState[u] \/ (tState[u] = "active" /\ tState'[u] = "gone")
        /\ tState[u] = "active" => tState'[u] = "gone"
    BY <1>0, <1>13 DEF Crash
  <2>2. QED
    BY <1>a, <2>1 DEF Settled, Fresh, Orderly, Truthful, FinalStates
<1>14. QED
  BY Outcomes, <1>1, <1>2, <1>3, <1>4, <1>5, <1>6, <1>7, <1>8, <1>9, <1>10, <1>11, <1>12,
     <1>13

LEMMA OutcomeInvCorrect == Spec => []OutcomeInv
<1>1. QED
  BY OutcomeInit, OutcomeStep, TypeInvCorrect, AwaitedCorrect, PTL DEF Spec

(* The last answer a caller got for a transaction tells what became of it, *)
(* over failures, connects, crashes and other writers, for every           *)
(* transaction on which no commit met a rollback or a disconnect; the in-  *)
(* memory provider's answer to a conflict is excepted.                     *)
THEOREM AnswerTellsStateCorrect == Spec => []AnswerTellsState
<1>1. OutcomeInv => AnswerTellsState
  BY DEF OutcomeInv, Settled, Truthful, AnswerTellsState
<1>2. QED
  BY <1>1, OutcomeInvCorrect, PTL

LEMMA FinalStep ==
  TypeInv /\ Awaited /\ OutcomeInv /\ [Next]_vars
    => [\A t \in Txs \ raced : tState[t] \in FinalStates => tState'[t] = tState[t]]_vars
<1> SUFFICES ASSUME TypeInv, Awaited, OutcomeInv, [Next]_vars,
                    NEW u \in Txs, u \notin raced, tState[u] \in FinalStates
             PROVE  tState'[u] = tState[u]
  OBVIOUS
<1>0. TypeOK /\ Orderly(u)
  BY DEF TypeInv, OutcomeInv, Settled
<1> USE DEF TypeOK
<1>1. commitPc[u] = "none" /\ rollbackPc[u] = "none"
  BY <1>0 DEF Orderly, FinalStates
<1>2. ASSUME NEW t \in Txs, Committed(t) \/ RolledBack(t) PROVE tState'[u] = tState[u]
  BY <1>0, <1>1, <1>2 DEF Committed, RolledBack
<1>3. ASSUME NEW t \in Txs, Appears(t) PROVE tState'[u] = tState[u]
  BY <1>0, <1>3 DEF Appears, FinalStates
<1>4. ASSUME NEW t \in Txs,
             \/ Commits(t) \/ Persists(t) \/ Lands(t) \/ Fails(t) \/ Refused(t) \/ Rollback(t)
             \/ RollbackFailed(t)
      PROVE  tState'[u] = tState[u]
  BY <1>4 DEF Commits, Persists, Lands, Fails, Refused, Rollback, RollbackFailed
<1>5. CASE Closes
  BY <1>5 DEF Closes, ForceClose, FinalStates
<1>6. CASE Crash
  BY <1>6 DEF Crash, FinalStates
<1>7. CASE UNCHANGED outcomeVars
  BY <1>7 DEF outcomeVars
<1>8. QED
  BY Outcomes, <1>2, <1>3, <1>4, <1>5, <1>6, <1>7

(* A transaction that has been committed, rolled back or closed stays so,  *)
(* unless its commit met a rollback or a disconnect.                       *)
THEOREM OutcomeIsFinalCorrect == Spec => OutcomeIsFinal
<1>1. QED
  BY FinalStep, TypeInvCorrect, AwaitedCorrect, OutcomeInvCorrect, PTL DEF Spec, OutcomeIsFinal

-----------------------------------------------------------------------------
(* Sessions.  A transaction has its session from its begin, and a call     *)
(* from its first step to its last; both sessions were opened before.      *)

Placed ==
  /\ \A t \in Txs : tState[t] \in {"beginning", "active"} => txSession[t] \in Sessions
  /\ \A t \in Txs : txSession[t] \in Sessions => sState[txSession[t]] # "unused"
  /\ \A c \in Calls : callSession[c] \in Sessions => sState[callSession[c]] # "unused"
  /\ \A c \in Calls : callPc[c] = "idle" => callSession[c] = NoSession
  /\ \A c \in Calls : callPc[c] \in {"opened", "flushing", "written", "failed"}
                        => callSession[c] \in Sessions

SessionInv ==
  Placed /\ RegisteredAreActive /\ ActiveBelongToConnection /\ ComposedSessionsClosed

LEMMA SessionInit == Init => SessionInv
BY DEF Init, SessionInv, Placed, RegisteredAreActive, ActiveBelongToConnection,
       ComposedSessionsClosed, Composed

LEMMA Reopened ==
  ASSUME TypeOK, SessionInv, NEW s \in Sessions, NEW o \in Owners, BeginSession(s, o),
         UNCHANGED <<txVars, connected, epoch, late, answer, closing>>
  PROVE  /\ RegisteredAreActive' /\ ActiveBelongToConnection'
         /\ \A u \in Sessions \ {s} : sState'[u] = sState[u] /\ owner'[u] = owner[u]
         /\ sState'[s] = "active"
         /\ \A t \in Txs : Composed(t)' /\ answer[t] # "none" /\ t \notin closing
                             => sState'[txSession[t]] # "active"
<1> USE DEF TypeOK, BeginSession
<1>1. /\ \A u \in Sessions \ {s} : /\ sState'[u] = sState[u] /\ owner'[u] = owner[u]
                                   /\ sEpoch'[u] = sEpoch[u]
      /\ sState[s] = "unused" /\ sState'[s] = "active" /\ sEpoch'[s] = epoch /\ connected
      /\ sessions' = sessions \cup {s}
      /\ UNCHANGED <<tState, txSession, transactions, connected, epoch, late>>
  OBVIOUS
<1>2. \A t \in Txs : txSession[t] # s
  BY <1>1 DEF SessionInv, Placed
<1>3. RegisteredAreActive'
  BY <1>1 DEF SessionInv, RegisteredAreActive
<1>4. ActiveBelongToConnection'
  <2>1. \A u \in Sessions : sState'[u] = "active" => connected' /\ sEpoch'[u] = epoch'
    BY <1>1 DEF SessionInv, ActiveBelongToConnection
  <2>2. \A t \in Txs : tState'[t] = "active" /\ t \notin late' =>
                         connected' /\ sEpoch'[txSession'[t]] = epoch'
    BY <1>1, <1>2 DEF SessionInv, ActiveBelongToConnection, Placed
  <2>3. QED
    BY <2>1, <2>2 DEF ActiveBelongToConnection
<1>5. \A t \in Txs : Composed(t)' /\ answer[t] # "none" /\ t \notin closing
                       => sState'[txSession[t]] # "active"
  BY <1>1, <1>2 DEF SessionInv, ComposedSessionsClosed, Composed
<1>6. QED
  BY <1>1, <1>3, <1>4, <1>5

LEMMA Shut ==
  ASSUME TypeOK, SessionInv, NEW s \in Sessions \cup {NoSession}, Close(s),
         UNCHANGED <<txVars, connected, epoch, late>>
  PROVE  /\ RegisteredAreActive' /\ ActiveBelongToConnection'
         /\ \A u \in Sessions : sState'[u] = "active" => sState[u] = "active" /\ u # s
         /\ \A u \in Sessions : sState[u] # "unused" => sState'[u] # "unused"
         /\ owner' = owner
<1> USE DEF TypeOK, Close
<1>1. /\ \A u \in Sessions : sState'[u] = IF u = s /\ sState[u] = "active" THEN "closed" ELSE sState[u]
      /\ sEpoch' = sEpoch /\ owner' = owner
      /\ UNCHANGED <<tState, txSession, transactions, connected, epoch, late>>
      /\ sessions' = IF sState[s] = "active" THEN sessions \ {s} ELSE sessions
  OBVIOUS
<1>2. RegisteredAreActive'
  BY <1>1 DEF SessionInv, RegisteredAreActive
<1>3. ActiveBelongToConnection'
  BY <1>1 DEF SessionInv, ActiveBelongToConnection
<1>4. QED
  BY <1>1, <1>2, <1>3

LEMMA SessionSessions ==
  ASSUME TypeInv, SessionInv, SessionStep
  PROVE  SessionInv'
<1>0. TypeOK
  BY DEF TypeInv
<1>1. ASSUME NEW s \in Sessions, NEW o \in Owners, OpenSession(s, o) PROVE SessionInv'
  <2>1. BeginSession(s, o) /\ UNCHANGED <<txVars, connected, epoch, late, callVars, answer, closing>>
    BY <1>1 DEF OpenSession
  <2>2. Placed'
    BY <1>0, <2>1, Reopened DEF SessionInv, Placed
  <2>3. ComposedSessionsClosed'
    <3>1. \A c \in Calls : callPc[c] \in {"acked", "rejected"} /\ callSession[c] # NoSession
                             => callSession[c] # s /\ callSession[c] \in Sessions
      BY <1>0, <2>1 DEF SessionInv, Placed, BeginSession, TypeOK
    <3>2. QED
      BY <1>0, <2>1, <3>1, Reopened DEF SessionInv, ComposedSessionsClosed
  <2>4. QED
    BY <1>0, <2>1, <2>2, <2>3, Reopened DEF SessionInv
<1>2. ASSUME NEW s \in Sessions, CloseSession(s) PROVE SessionInv'
  <2>1. Close(s) /\ UNCHANGED <<txVars, connected, epoch, late, callVars, answer, closing>>
    BY <1>2 DEF CloseSession
  <2>2. Placed'
    BY <1>0, <2>1, Shut DEF SessionInv, Placed
  <2>3. ComposedSessionsClosed'
    BY <1>0, <2>1, Shut DEF SessionInv, ComposedSessionsClosed, Composed, TypeOK
  <2>4. QED
    BY <1>0, <2>1, <2>2, <2>3, Shut DEF SessionInv
<1>3. ASSUME NEW t \in Txs, CloseAfter(t) PROVE SessionInv'
  <2>1. PICK s \in Sessions \cup {NoSession} : s = txSession[t]
    BY <1>0 DEF TypeOK
  <2>2. /\ Close(s) /\ closing' = closing \ {t}
        /\ UNCHANGED <<txVars, connected, epoch, late, callVars, answer>>
    BY <1>3, <2>1 DEF CloseAfter
  <2>3. Placed'
    BY <1>0, <2>2, Shut DEF SessionInv, Placed
  <2>4. ComposedSessionsClosed'
    BY <1>0, <2>1, <2>2, Shut DEF SessionInv, ComposedSessionsClosed, Composed, TypeOK
  <2>5. QED
    BY <1>0, <2>2, <2>3, <2>4, Shut DEF SessionInv
<1>4. QED
  BY <1>1, <1>2, <1>3 DEF SessionStep

LEMMA SessionCalls ==
  ASSUME TypeInv, SessionInv, CallStep
  PROVE  SessionInv'
<1>0. TypeOK
  BY DEF TypeInv
<1>1. ASSUME NEW c \in Calls, NEW s \in Sessions, CallOpen(c, s) PROVE SessionInv'
  <2>1. /\ BeginSession(s, "composed") /\ "composed" \in Owners
        /\ UNCHANGED <<txVars, connected, epoch, late, answer, closing>>
        /\ sState[s] = "unused"
    BY <1>1 DEF CallOpen, BeginSession, Owners
  <2>2. /\ \A d \in Calls \ {c} : callPc'[d] = callPc[d] /\ callSession'[d] = callSession[d]
        /\ callPc'[c] = "opened" /\ callSession'[c] = s
    BY <1>0, <1>1 DEF CallOpen, TypeOK
  <2>3. Placed'
    BY <1>0, <2>1, <2>2, Reopened DEF SessionInv, Placed
  <2>4. ComposedSessionsClosed'
    <3>1. \A d \in Calls : callPc'[d] \in {"acked", "rejected"} /\ callSession'[d] # NoSession
                             => d # c /\ callSession[d] # s /\ callSession[d] \in Sessions
      BY <1>0, <2>1, <2>2 DEF SessionInv, Placed, TypeOK
    <3>2. \A d \in Calls : callPc'[d] \in {"acked", "rejected"} /\ callSession'[d] # NoSession
                             => sState'[callSession'[d]] # "active"
      BY <1>0, <2>1, <2>2, <3>1, Reopened DEF SessionInv, ComposedSessionsClosed
    <3>3. QED
      BY <1>0, <2>1, <3>2, Reopened DEF ComposedSessionsClosed
  <2>5. QED
    BY <1>0, <2>1, <2>3, <2>4, Reopened DEF SessionInv
<1>2. ASSUME NEW c \in Calls, CallRefused(c) PROVE SessionInv'
  <2>1. UNCHANGED <<lifeVars, callSession, answer, closing>>
    BY <1>2 DEF CallRefused, lifeVars
  <2>2. /\ \A d \in Calls \ {c} : callPc'[d] = callPc[d]
        /\ callPc'[c] = "rejected" /\ callSession[c] = NoSession
    BY <1>0, <1>2 DEF CallRefused, TypeOK, SessionInv, Placed
  <2>3. RegisteredAreActive' /\ ActiveBelongToConnection'
    BY <2>1 DEF SessionInv, RegisteredAreActive, ActiveBelongToConnection, lifeVars
  <2>4. Placed' /\ ComposedSessionsClosed'
    BY <2>1, <2>2 DEF SessionInv, Placed, ComposedSessionsClosed, Composed, lifeVars
  <2>5. QED
    BY <2>3, <2>4 DEF SessionInv
<1>3. ASSUME NEW c \in Calls, CallClose(c) PROVE SessionInv'
  <2>1. PICK s \in Sessions : s = callSession[c]
    BY <1>3 DEF CallClose, SessionInv, Placed
  <2>2. Close(s) /\ UNCHANGED <<txVars, connected, epoch, late, callSession, answer, closing>>
    BY <1>3, <2>1 DEF CallClose
  <2>3. /\ \A d \in Calls \ {c} : callPc'[d] = callPc[d]
        /\ callPc'[c] \in {"acked", "rejected"}
    BY <1>0, <1>3 DEF CallClose, TypeOK
  <2>4. Placed'
    BY <1>0, <2>1, <2>2, <2>3, Shut DEF SessionInv, Placed
  <2>5. ComposedSessionsClosed'
    BY <1>0, <2>1, <2>2, <2>3, Shut DEF SessionInv, ComposedSessionsClosed, Composed, TypeOK
  <2>6. QED
    BY <1>0, <2>2, <2>4, <2>5, Shut DEF SessionInv
<1>4. QED
  BY <1>1, <1>2, <1>3 DEF CallStep

LEMMA SessionStays ==
  ASSUME TypeInv, OutcomeInv, SessionInv,
         \/ \E t \in Txs, s \in Sessions : Begins(t, s)
         \/ \E t \in Txs : MemoryRegister(t) \/ Ends(t) \/ Responds(t)
         \/ Connects \/ Disconnects \/ Crash
         \/ \E c \in Calls : Runs(c)
         \/ Quiet
  PROVE  SessionInv'
<1>0. TypeOK
  BY DEF TypeInv
<1> USE DEF TypeOK
<1>1. ASSUME NEW t \in Txs, NEW s \in Sessions, Begins(t, s) PROVE SessionInv'
  <2>1. /\ tState[t] = "unused" /\ sState[s] = "active"
        /\ UNCHANGED <<sState, sEpoch, owner, sessions, connected, epoch, late, callPc,
                       callSession, answer, closing>>
        /\ answer[t] = "none"
    BY <1>1 DEF Begins, Usable, OutcomeInv, Settled, Fresh
  <2>2. /\ \A u \in Txs \ {t} : tState'[u] = tState[u] /\ txSession'[u] = txSession[u]
        /\ txSession'[t] = s
        /\ tState'[t] \in {"beginning", "active"}
        /\ transactions' = IF tState'[t] = "active" THEN transactions \cup {t} ELSE transactions
    BY <1>0, <1>1 DEF Begins
  <2>3. Placed'
    BY <2>1, <2>2 DEF SessionInv, Placed
  <2>4. RegisteredAreActive'
    BY <2>1, <2>2 DEF SessionInv, RegisteredAreActive
  <2>5. ActiveBelongToConnection'
    BY <2>1, <2>2 DEF SessionInv, ActiveBelongToConnection
  <2>6. ComposedSessionsClosed'
    BY <2>1, <2>2 DEF SessionInv, ComposedSessionsClosed, Composed
  <2>7. QED
    BY <2>3, <2>4, <2>5, <2>6 DEF SessionInv
<1>2. ASSUME NEW t \in Txs, MemoryRegister(t) PROVE SessionInv'
  <2>1. /\ tState[t] = "beginning" /\ transactions' = transactions \cup {t}
        /\ UNCHANGED <<sState, sEpoch, owner, sessions, txSession, connected, epoch, callPc,
                       callSession, answer, closing>>
        /\ late' = IF sState[txSession[t]] # "active" THEN late \cup {t} ELSE late
    BY <1>2 DEF MemoryRegister
  <2>2. /\ \A u \in Txs \ {t} : tState'[u] = tState[u]
        /\ tState'[t] = "active"
    BY <1>0, <1>2 DEF MemoryRegister
  <2>3. Placed'
    BY <2>1, <2>2 DEF SessionInv, Placed
  <2>4. RegisteredAreActive'
    BY <2>1, <2>2 DEF SessionInv, RegisteredAreActive
  <2>5. ActiveBelongToConnection'
    <3>1. txSession[t] \in Sessions
      BY <2>1 DEF SessionInv, Placed
    <3>2. t \notin late' => sState[txSession[t]] = "active"
      BY <2>1
    <3>3. \A u \in Txs : u \notin late' => u \notin late
      BY <2>1
    <3>4. QED
      BY <2>1, <2>2, <3>1, <3>2, <3>3 DEF SessionInv, ActiveBelongToConnection
  <2>6. ComposedSessionsClosed'
    BY <2>1, <2>2 DEF SessionInv, ComposedSessionsClosed, Composed
  <2>7. QED
    BY <2>3, <2>4, <2>5, <2>6 DEF SessionInv
<1>3. ASSUME NEW t \in Txs, Ends(t) \/ Responds(t) PROVE SessionInv'
  <2>1. /\ UNCHANGED <<sState, sEpoch, owner, sessions, txSession, connected, epoch, late,
                       callPc, callSession>>
        /\ \A u \in Txs \ {t} : answer'[u] = answer[u]
        /\ closing' = IF Composed(t) THEN closing \cup {t} ELSE closing
    BY <1>0, <1>3 DEF Ends, Responds, lifeVars, ThenClose
  <2>2. /\ \A u \in Txs : tState'[u] \in {"beginning", "active"} => tState'[u] = tState[u]
        /\ \A u \in Txs : u \in transactions' /\ u \in transactions <=> tState'[u] = "active"
        /\ transactions' \subseteq transactions
    BY <1>0, <1>3 DEF Ends, Responds, lifeVars, SessionInv, RegisteredAreActive
  <2>3. Placed'
    BY <2>1, <2>2 DEF SessionInv, Placed
  <2>4. RegisteredAreActive'
    BY <2>1, <2>2 DEF SessionInv, RegisteredAreActive
  <2>5. ActiveBelongToConnection'
    BY <2>1, <2>2 DEF SessionInv, ActiveBelongToConnection
  <2>6. ComposedSessionsClosed'
    BY <2>1 DEF SessionInv, ComposedSessionsClosed, Composed
  <2>7. QED
    BY <2>3, <2>4, <2>5, <2>6 DEF SessionInv
<1>4. CASE Connects
  <2>1. UNCHANGED <<sState, sEpoch, owner, sessions, tState, txSession, transactions, late,
                    callPc, callSession, answer, closing>>
    BY <1>4 DEF Connects
  <2>2. connected' /\ (connected => epoch' = epoch)
    BY <1>4 DEF Connects
  <2>3. Placed' /\ RegisteredAreActive' /\ ComposedSessionsClosed'
    BY <2>1 DEF SessionInv, Placed, RegisteredAreActive, ComposedSessionsClosed, Composed
  <2>4. ActiveBelongToConnection'
    BY <2>1, <2>2 DEF SessionInv, ActiveBelongToConnection
  <2>5. QED
    BY <2>3, <2>4 DEF SessionInv
<1>5. CASE Disconnects
  <2>1. UNCHANGED <<sEpoch, owner, txSession, late, epoch, callPc, callSession, answer, closing>>
    BY <1>5 DEF Disconnects, ForceClose
  <2>2. /\ \A s \in Sessions : /\ sState'[s] # "active"
                               /\ sState[s] # "unused" => sState'[s] # "unused"
        /\ \A t \in Txs : /\ tState'[t] # "active"
                          /\ tState'[t] = "beginning" => tState[t] = "beginning"
        /\ sessions' = {} /\ transactions' = {}
    BY <1>5 DEF Disconnects, ForceClose, SessionInv, RegisteredAreActive
  <2>3. Placed'
    BY <2>1, <2>2 DEF SessionInv, Placed
  <2>4. RegisteredAreActive' /\ ActiveBelongToConnection'
    BY <2>2 DEF RegisteredAreActive, ActiveBelongToConnection
  <2>5. ComposedSessionsClosed'
    BY <1>0, <2>1, <2>2 DEF ComposedSessionsClosed, Composed
  <2>6. QED
    BY <2>3, <2>4, <2>5 DEF SessionInv
<1>6. CASE Crash
  <2>1. UNCHANGED <<sEpoch, owner, txSession, late, epoch, callSession, answer>>
    BY <1>6 DEF Crash
  <2>2. /\ \A s \in Sessions : /\ sState'[s] # "active"
                               /\ sState[s] # "unused" => sState'[s] # "unused"
        /\ \A t \in Txs : /\ tState'[t] # "active"
                          /\ tState'[t] = "beginning" => tState[t] = "beginning"
        /\ sessions' = {} /\ transactions' = {} /\ closing' = {}
    BY <1>6 DEF Crash
  <2>3. \A c \in Calls : callPc'[c] \in {"idle", "acked", "rejected", "gone"}
                           /\ (callPc'[c] # "gone" => callPc'[c] = callPc[c])
    BY <1>6 DEF Crash
  <2>4. Placed'
    BY <2>1, <2>2, <2>3 DEF SessionInv, Placed
  <2>5. RegisteredAreActive' /\ ActiveBelongToConnection'
    BY <2>2 DEF RegisteredAreActive, ActiveBelongToConnection
  <2>6. ComposedSessionsClosed'
    BY <1>0, <2>1, <2>2 DEF ComposedSessionsClosed, Composed
  <2>7. QED
    BY <2>4, <2>5, <2>6 DEF SessionInv
<1>7. ASSUME NEW c \in Calls, Runs(c) PROVE SessionInv'
  <2>1. UNCHANGED <<lifeVars, callSession, answer, closing>>
    BY <1>7 DEF Runs
  <2>2. /\ \A d \in Calls \ {c} : callPc'[d] = callPc[d]
        /\ callPc'[c] \in {"flushing", "written", "failed"} /\ callSession[c] \in Sessions
    BY <1>0, <1>7 DEF Runs, SessionInv, Placed
  <2>3. RegisteredAreActive' /\ ActiveBelongToConnection'
    BY <2>1 DEF SessionInv, RegisteredAreActive, ActiveBelongToConnection, lifeVars
  <2>4. Placed' /\ ComposedSessionsClosed'
    BY <2>1, <2>2 DEF SessionInv, Placed, ComposedSessionsClosed, Composed, lifeVars
  <2>5. QED
    BY <2>3, <2>4 DEF SessionInv
<1>8. CASE Quiet
  BY <1>8
  DEF Quiet, lifeVars, SessionInv, Placed, RegisteredAreActive, ActiveBelongToConnection,
      ComposedSessionsClosed, Composed
<1>9. QED
  BY <1>1, <1>2, <1>3, <1>4, <1>5, <1>6, <1>7, <1>8

LEMMA SessionInvStep == TypeInv /\ Awaited /\ OutcomeInv /\ SessionInv /\ [Next]_vars => SessionInv'
BY Lives, SessionSessions, SessionCalls, SessionStays

LEMMA SessionInvCorrect == Spec => []SessionInv
<1>1. QED
  BY SessionInit, SessionInvStep, TypeInvCorrect, AwaitedCorrect, OutcomeInvCorrect, PTL DEF Spec

(* What a disconnect will close is what is active, at every step of every  *)
(* provider.                                                               *)
THEOREM RegisteredAreActiveCorrect == Spec => []RegisteredAreActive
<1>1. SessionInv => RegisteredAreActive
  BY DEF SessionInv
<1>2. QED
  BY <1>1, SessionInvCorrect, PTL

(* No session outlives its connection, and no transaction does that was    *)
(* begun on a session still open.                                          *)
THEOREM ActiveBelongToConnectionCorrect == Spec => []ActiveBelongToConnection
<1>1. SessionInv => ActiveBelongToConnection
  BY DEF SessionInv
<1>2. QED
  BY <1>1, SessionInvCorrect, PTL

(* The composed store leaves no session open behind a call that returned   *)
(* or a transaction that was answered.                                     *)
THEOREM ComposedSessionsClosedCorrect == Spec => []ComposedSessionsClosed
<1>1. SessionInv => ComposedSessionsClosed
  BY DEF SessionInv
<1>2. QED
  BY <1>1, SessionInvCorrect, PTL

-----------------------------------------------------------------------------
(* The registry of resources.  A resource is a session or a transaction,   *)
(* and a step that concerns one of them leaves the others as they are.     *)

USE DEF Resources

LEMMA SessionResource ==
  ASSUME NEW s \in Sessions
  PROVE  /\ <<"session", s>> \in Resources
         /\ <<"session", s>> \notin {"transaction"} \X Txs
         /\ ResourceState[<<"session", s>>] = sState[s]
         /\ ResourceState'[<<"session", s>>] = sState'[s]
BY DEF ResourceState

LEMMA TransactionResource ==
  ASSUME NEW t \in Txs
  PROVE  /\ <<"transaction", t>> \in Resources
         /\ <<"transaction", t>> \in {"transaction"} \X Txs
         /\ ResourceState[<<"transaction", t>>] = TransactionState(t)
         /\ ResourceState'[<<"transaction", t>>] = TransactionState(t)'
BY DEF ResourceState

LEMMA ResourceCases ==
  ASSUME NEW r \in Resources
  PROVE  \/ \E s \in Sessions : r = <<"session", s>>
         \/ \E t \in Txs : r = <<"transaction", t>>
OBVIOUS

LEMMA OneMoves ==
  ASSUME NEW q \in Resources, NEW v, ResourceState'[q] = v,
         \A r \in Resources \ {q} : ResourceState'[r] = ResourceState[r]
  PROVE  ResourceState' = [ResourceState EXCEPT ![q] = v]
<1>1. /\ ResourceState = [r \in Resources |-> ResourceState[r]]
      /\ ResourceState' = [r \in Resources |-> ResourceState'[r]]
  BY DEF ResourceState
<1>2. QED
  BY <1>1

LEMMA SessionMoves ==
  ASSUME NEW s \in Sessions, NEW v,
         sState'[s] = v,
         \A u \in Sessions \ {s} : sState'[u] = sState[u],
         \A t \in Txs : TransactionState(t)' = TransactionState(t)
  PROVE  ResourceState' = [ResourceState EXCEPT ![<<"session", s>>] = v]
<1>1. ASSUME NEW r \in Resources, r # <<"session", s>>
      PROVE  ResourceState'[r] = ResourceState[r]
  <2>1. CASE \E u \in Sessions : r = <<"session", u>>
    BY <1>1, <2>1, SessionResource
  <2>2. CASE \E t \in Txs : r = <<"transaction", t>>
    BY <2>2, TransactionResource
  <2>3. QED
    BY <2>1, <2>2, ResourceCases
<1>2. QED
  BY <1>1, OneMoves, SessionResource

LEMMA TransactionMoves ==
  ASSUME NEW t \in Txs, NEW v,
         TransactionState(t)' = v,
         \A u \in Txs \ {t} : TransactionState(u)' = TransactionState(u),
         \A s \in Sessions : sState'[s] = sState[s]
  PROVE  ResourceState' = [ResourceState EXCEPT ![<<"transaction", t>>] = v]
<1>1. ASSUME NEW r \in Resources, r # <<"transaction", t>>
      PROVE  ResourceState'[r] = ResourceState[r]
  <2>1. CASE \E u \in Sessions : r = <<"session", u>>
    BY <2>1, SessionResource
  <2>2. CASE \E u \in Txs : r = <<"transaction", u>>
    BY <1>1, <2>2, TransactionResource
  <2>3. QED
    BY <2>1, <2>2, ResourceCases
<1>2. QED
  BY <1>1, OneMoves, TransactionResource

LEMMA NothingMoves ==
  ASSUME \A s \in Sessions : sState'[s] = sState[s],
         \A t \in Txs : TransactionState(t)' = TransactionState(t)
  PROVE  ResourceState' = ResourceState
BY DEF ResourceState

LEMMA OnlyOneTransaction ==
  ASSUME TypeOK, NEW t \in Txs, NEW v,
         tState' = [tState EXCEPT ![t] = v], UNCHANGED <<raced, late>>,
         NEW u \in Txs \ {t}
  PROVE  TransactionState(u)' = TransactionState(u)
BY DEF TransactionState, TypeOK

LEMMA TransactionsStay ==
  ASSUME UNCHANGED <<tState, raced, late>>
  PROVE  \A t \in Txs : TransactionState(t)' = TransactionState(t)
BY DEF TransactionState

LEMMA SessionOpens ==
  ASSUME TypeOK, NEW s \in Sessions, NEW o, BeginSession(s, o),
         UNCHANGED <<connected, tState, raced, late>>
  PROVE  [Registry!Next]_(Registry!vars)
<1>1. /\ connected /\ sState[s] = "unused" /\ sState'[s] = "active"
      /\ \A u \in Sessions \ {s} : sState'[u] = sState[u]
  BY DEF BeginSession, TypeOK
<1>2. ResourceState' = [ResourceState EXCEPT ![<<"session", s>>] = "active"]
  BY <1>1, TransactionsStay, SessionMoves
<1>3. Registry!Open(<<"session", s>>)
  BY <1>1, <1>2, SessionResource DEF Registry!Open
<1>4. QED
  BY <1>3, SessionResource DEF Registry!Next

LEMMA SessionCloses ==
  ASSUME TypeOK, NEW s \in Sessions, Close(s), UNCHANGED <<connected, tState, raced, late>>
  PROVE  [Registry!Next]_(Registry!vars)
<1>1. CASE sState[s] = "active"
  <2>1. sState'[s] = "closed" /\ \A u \in Sessions \ {s} : sState'[u] = sState[u]
    BY <1>1 DEF Close, TypeOK
  <2>2. ResourceState' = [ResourceState EXCEPT ![<<"session", s>>] = "closed"]
    BY <2>1, TransactionsStay, SessionMoves
  <2>3. Registry!End(<<"session", s>>)
    BY <1>1, <2>2, SessionResource DEF Registry!End, Registry!Outcomes
  <2>4. QED
    BY <2>3, SessionResource DEF Registry!Next
<1>2. CASE sState[s] # "active"
  <2>1. \A u \in Sessions : sState'[u] = sState[u]
    BY <1>2 DEF Close, TypeOK
  <2>2. QED
    BY <2>1, TransactionsStay, NothingMoves DEF Registry!vars
<1>3. QED
  BY <1>1, <1>2

(* A transaction that is open is open on a connection, and one that is not *)
(* disputed ends while it is open.                                         *)
LEMMA TransactionOpens ==
  ASSUME TypeOK, SessionInv, NEW t \in Txs, NEW s \in Sessions, Begins(t, s),
         raced' = raced
  PROVE  [Registry!Next]_(Registry!vars)
<1>1. connected /\ tState[t] = "unused" /\ UNCHANGED <<connected, raced, late, sState>>
  BY DEF Begins, Usable, SessionInv, ActiveBelongToConnection
<1>2. PICK v \in {"beginning", "active"} : tState' = [tState EXCEPT ![t] = v]
  BY DEF Begins
<1>3. \A u \in Txs \ {t} : TransactionState(u)' = TransactionState(u)
  BY <1>1, <1>2, OnlyOneTransaction
<1>4. tState'[t] = v
  BY <1>2 DEF TypeOK
<1>5. CASE v = "active" /\ t \notin raced \cup late
  <2>1. TransactionState(t) = "unused" /\ TransactionState(t)' = "active"
    BY <1>1, <1>4, <1>5 DEF TransactionState
  <2>2. ResourceState' = [ResourceState EXCEPT ![<<"transaction", t>>] = "active"]
    BY <1>1, <1>3, <2>1, TransactionMoves
  <2>3. Registry!Open(<<"transaction", t>>)
    BY <1>1, <2>1, <2>2, TransactionResource DEF Registry!Open
  <2>4. QED
    BY <2>3, TransactionResource DEF Registry!Next
<1>6. CASE ~(v = "active" /\ t \notin raced \cup late)
  <2>1. TransactionState(t)' = TransactionState(t)
    BY <1>1, <1>4, <1>6 DEF TransactionState
  <2>2. QED
    BY <1>1, <1>3, <2>1, NothingMoves DEF Registry!vars
<1>7. QED
  BY <1>5, <1>6

LEMMA TransactionRegisters ==
  ASSUME TypeOK, SessionInv, NEW t \in Txs, MemoryRegister(t)
  PROVE  [Registry!Next]_(Registry!vars)
<1>1. /\ tState[t] = "beginning" /\ tState' = [tState EXCEPT ![t] = "active"]
      /\ UNCHANGED <<connected, raced, sState>>
      /\ IF sState[txSession[t]] # "active" THEN late' = late \cup {t} ELSE late' = late
  BY DEF MemoryRegister
<1>2. /\ tState'[t] = "active"
      /\ \A u \in Txs \ {t} : TransactionState(u)' = TransactionState(u)
  BY <1>1 DEF TransactionState, TypeOK
<1>3. t \notin late' => connected
  BY <1>1 DEF SessionInv, Placed, ActiveBelongToConnection
<1>4. CASE t \in raced \cup late
  <2>1. TransactionState(t)' = TransactionState(t)
    BY <1>1, <1>4 DEF TransactionState
  <2>2. QED
    BY <1>1, <1>2, <2>1, NothingMoves DEF Registry!vars
<1>5. CASE t \notin raced \cup late
  <2>1. TransactionState(t) = "unused"
    BY <1>1, <1>5 DEF TransactionState
  <2>2. CASE t \in late'
    <3>1. TransactionState(t)' = "disputed"
      BY <2>2 DEF TransactionState
    <3>2. ResourceState' = [ResourceState EXCEPT ![<<"transaction", t>>] = "disputed"]
      BY <1>1, <1>2, <3>1, TransactionMoves
    <3>3. Registry!Dispute(<<"transaction", t>>)
      BY <1>1, <2>1, <3>2, TransactionResource DEF Registry!Dispute
    <3>4. QED
      BY <3>3, TransactionResource DEF Registry!Next
  <2>3. CASE t \notin late'
    <3>1. TransactionState(t)' = "active"
      BY <1>1, <1>2, <1>5, <2>3 DEF TransactionState
    <3>2. ResourceState' = [ResourceState EXCEPT ![<<"transaction", t>>] = "active"]
      BY <1>1, <1>2, <3>1, TransactionMoves
    <3>3. Registry!Open(<<"transaction", t>>)
      BY <1>1, <1>3, <2>1, <2>3, <3>2, TransactionResource DEF Registry!Open
    <3>4. QED
      BY <3>3, TransactionResource DEF Registry!Next
  <2>4. QED
    BY <2>2, <2>3
<1>6. QED
  BY <1>4, <1>5

LEMMA TransactionEnds ==
  ASSUME TypeOK, OutcomeInv, NEW t \in Txs, Ends(t), raced' = raced
  PROVE  [Registry!Next]_(Registry!vars)
<1>1. /\ UNCHANGED <<connected, raced, late, sState>>
      /\ commitPc[t] = "ok" \/ rollbackPc[t] = "ok"
  BY DEF Ends
<1>2. PICK v \in {"committed", "rolled-back"} : tState' = [tState EXCEPT ![t] = v]
  BY DEF Ends
<1>3. \A u \in Txs \ {t} : TransactionState(u)' = TransactionState(u)
  BY <1>1, <1>2, OnlyOneTransaction
<1>4. tState'[t] = v
  BY <1>2 DEF TypeOK
<1>5. CASE t \in raced \cup late
  <2>1. TransactionState(t)' = TransactionState(t)
    BY <1>1, <1>5 DEF TransactionState
  <2>2. QED
    BY <1>1, <1>3, <2>1, NothingMoves DEF Registry!vars
<1>6. CASE t \notin raced \cup late
  <2>1. tState[t] = "active"
    BY <1>1, <1>6 DEF OutcomeInv, Settled, Orderly
  <2>2. TransactionState(t) = "active" /\ TransactionState(t)' = v
    BY <1>1, <1>4, <1>6, <2>1 DEF TransactionState
  <2>3. ResourceState' = [ResourceState EXCEPT ![<<"transaction", t>>] = v]
    BY <1>1, <1>3, <2>2, TransactionMoves
  <2>4. Registry!End(<<"transaction", t>>)
    BY <1>1, <2>2, <2>3, TransactionResource DEF Registry!End, Registry!Outcomes
  <2>5. QED
    BY <2>4, TransactionResource DEF Registry!Next
<1>7. QED
  BY <1>5, <1>6

LEMMA TransactionDisputed ==
  ASSUME TypeOK, NEW t \in Txs, NEW other, tState[t] = "active", Race(t, other),
         UNCHANGED <<tState, sState, connected, late>>
  PROVE  [Registry!Next]_(Registry!vars)
<1>1. CASE raced' = raced
  BY <1>1, TransactionsStay, NothingMoves DEF Registry!vars
<1>2. CASE raced' # raced /\ t \in late
  <2>1. \A u \in Txs : TransactionState(u)' = TransactionState(u)
    BY <1>2 DEF Race, TransactionState
  <2>2. QED
    BY <2>1, NothingMoves DEF Registry!vars
<1>3. CASE raced' # raced /\ t \notin late
  <2>1. raced' = raced \cup {t} /\ t \notin raced
    BY <1>3 DEF Race
  <2>2. \A u \in Txs \ {t} : TransactionState(u)' = TransactionState(u)
    BY <2>1 DEF TransactionState
  <2>3. TransactionState(t) = "active" /\ TransactionState(t)' = "disputed"
    BY <1>3, <2>1 DEF TransactionState
  <2>4. ResourceState' = [ResourceState EXCEPT ![<<"transaction", t>>] = "disputed"]
    BY <2>2, <2>3, TransactionMoves
  <2>5. Registry!Dispute(<<"transaction", t>>)
    BY <2>3, <2>4, TransactionResource DEF Registry!Dispute
  <2>6. QED
    BY <2>5, TransactionResource DEF Registry!Next
<1>4. QED
  BY <1>1, <1>2, <1>3

(* A disconnect and a crash end everything that is open, and dispute what  *)
(* a disconnect finds a commit or a rollback in progress on.               *)
LEMMA AllEnd ==
  ASSUME NEW outcome \in {"closed", "gone"},
         \A s \in Sessions :
           sState'[s] = IF sState[s] = "active" THEN outcome ELSE sState[s],
         \A t \in Txs :
           TransactionState(t)' = IF TransactionState(t) # "active" THEN TransactionState(t)
                                  ELSE IF TransactionState(t)' = "disputed" THEN "disputed"
                                  ELSE outcome
  PROVE  Registry!EndAll(outcome)
<1> DEFINE Ended(r) == IF ResourceState[r] # "active" THEN ResourceState[r]
                       ELSE IF r \in {"transaction"} \X Txs /\ ResourceState'[r] = "disputed"
                            THEN "disputed" ELSE outcome
<1>1. ASSUME NEW r \in Resources PROVE ResourceState'[r] = Ended(r)
  <2>1. CASE \E s \in Sessions : r = <<"session", s>>
    BY <2>1, SessionResource
  <2>2. CASE \E t \in Txs : r = <<"transaction", t>>
    BY <2>2, TransactionResource
  <2>3. QED
    BY <2>1, <2>2, ResourceCases
<1>2. ResourceState' = [r \in Resources |-> ResourceState'[r]]
  BY DEF ResourceState
<1>3. ResourceState' = [r \in Resources |-> Ended(r)]
  BY <1>1, <1>2
<1>4. QED
  BY <1>3 DEF Registry!EndAll

LEMMA DisconnectEndsAll ==
  ASSUME TypeOK, OutcomeInv, RegisteredAreActive, ForceClose,
         connected' = FALSE \/ UNCHANGED connected
  PROVE  Registry!Disconnect
<1>1. ASSUME NEW s \in Sessions
      PROVE  sState'[s] = IF sState[s] = "active" THEN "closed" ELSE sState[s]
  BY DEF ForceClose, RegisteredAreActive
<1>2. ASSUME NEW t \in Txs
      PROVE  TransactionState(t)' = IF TransactionState(t) # "active" THEN TransactionState(t)
                                    ELSE IF TransactionState(t)' = "disputed" THEN "disputed"
                                    ELSE "closed"
  <2>1. /\ tState'[t] = IF tState[t] = "active" THEN "closed" ELSE tState[t]
        /\ t \in raced => t \in raced'
        /\ t \in raced' => t \in raced \/ commitPc[t] # "none" \/ rollbackPc[t] # "none"
        /\ late' = late
    BY DEF ForceClose, RegisteredAreActive
  <2>2. t \in raced' => t \in raced \/ tState[t] = "active"
    BY <2>1 DEF OutcomeInv, Settled, Orderly
  <2>3. QED
    BY <2>1, <2>2 DEF TransactionState
<1>3. Registry!EndAll("closed")
  BY <1>1, <1>2, AllEnd
<1>4. QED
  BY <1>3 DEF Registry!Disconnect

LEMMA CrashEndsAll ==
  ASSUME TypeOK, Crash
  PROVE  Registry!Crash
<1>1. ASSUME NEW s \in Sessions
      PROVE  sState'[s] = IF sState[s] = "active" THEN "gone" ELSE sState[s]
  BY DEF Crash
<1>2. ASSUME NEW t \in Txs
      PROVE  TransactionState(t)' = IF TransactionState(t) # "active" THEN TransactionState(t)
                                    ELSE IF TransactionState(t)' = "disputed" THEN "disputed"
                                    ELSE "gone"
  BY DEF Crash, TransactionState
<1>3. Registry!EndAll("gone")
  BY <1>1, <1>2, AllEnd
<1>4. QED
  BY <1>3 DEF Registry!Crash, Crash

LEMMA ConnectionMoves ==
  ASSUME TypeOK, Connects, raced' = raced
  PROVE  [Registry!Next]_(Registry!vars)
<1>1. ResourceState' = ResourceState
  BY TransactionsStay, NothingMoves DEF Connects
<1>2. Registry!Connect
  BY <1>1 DEF Registry!Connect, Connects
<1>3. QED
  BY <1>2 DEF Registry!Next

LEMMA RacedMoves ==
  ASSUME TypeInv, Awaited, [Next]_vars
  PROVE  \/ raced' = raced
         \/ Closes \/ Crash
         \/ \E t \in Txs, other \in RollbackSteps \cup CommitSteps :
              /\ tState[t] = "active" /\ Race(t, other)
              /\ UNCHANGED <<tState, sState, connected, late>>
<1>1. ASSUME NEW t \in Txs, Commits(t)
      PROVE  \E other \in RollbackSteps : /\ tState[t] = "active" /\ Race(t, other)
                                         /\ UNCHANGED <<tState, sState, connected, late>>
  BY <1>1 DEF Commits, TypeInv, TypeOK
<1>2. ASSUME NEW t \in Txs, Rollback(t)
      PROVE  \E other \in CommitSteps : /\ tState[t] = "active" /\ Race(t, other)
                                       /\ UNCHANGED <<tState, sState, connected, late>>
  BY <1>2 DEF Rollback, TypeInv, TypeOK
<1>3. ASSUME NEW t \in Txs,
             \/ Appears(t) \/ Persists(t) \/ Lands(t) \/ Fails(t)
             \/ Committed(t) \/ Refused(t) \/ RolledBack(t) \/ RollbackFailed(t)
      PROVE  raced' = raced
  BY <1>3 DEF Appears, Persists, Lands, Fails, Committed, Refused, RolledBack, RollbackFailed
<1>4. CASE UNCHANGED outcomeVars
  BY <1>4 DEF outcomeVars
<1>5. QED
  BY Outcomes, <1>1, <1>2, <1>3, <1>4

LEMMA RegistryStep ==
  TypeInv /\ Awaited /\ OutcomeInv /\ SessionInv /\ [Next]_vars
    => [Registry!Next]_(Registry!vars)
<1> SUFFICES ASSUME TypeInv, Awaited, OutcomeInv, SessionInv, [Next]_vars
             PROVE  [Registry!Next]_(Registry!vars)
  OBVIOUS
<1>0. TypeOK /\ RegisteredAreActive /\ Placed
  BY DEF TypeInv, SessionInv
<1>1. CASE Disconnects \/ Closes
  BY <1>0, <1>1, DisconnectEndsAll DEF Disconnects, Closes, Registry!Next
<1>2. CASE Crash
  BY <1>0, <1>2, CrashEndsAll DEF Registry!Next
<1>3. ASSUME NEW t \in Txs, NEW other, tState[t] = "active", Race(t, other),
             UNCHANGED <<tState, sState, connected, late>>
      PROVE  [Registry!Next]_(Registry!vars)
  BY <1>0, <1>3, TransactionDisputed
<1>4. CASE raced' = raced
  <2>1. ASSUME NEW s \in Sessions, \/ (\E o \in Owners : OpenSession(s, o))
                                   \/ (\E c \in Calls : CallOpen(c, s))
        PROVE  [Registry!Next]_(Registry!vars)
    <3>1. PICK o : BeginSession(s, o)
      BY <2>1 DEF OpenSession, CallOpen
    <3>2. UNCHANGED <<connected, tState, late>>
      BY <2>1 DEF OpenSession, CallOpen
    <3>3. QED
      BY <1>0, <1>4, <3>1, <3>2, SessionOpens
  <2>2. ASSUME NEW s \in Sessions, Close(s), UNCHANGED <<connected, tState, late>>
        PROVE  [Registry!Next]_(Registry!vars)
    BY <1>0, <1>4, <2>2, SessionCloses
  <2>3. CASE SessionStep
    <3>1. ASSUME NEW s \in Sessions, CloseSession(s) PROVE [Registry!Next]_(Registry!vars)
      BY <2>2, <3>1 DEF CloseSession
    <3>2. ASSUME NEW t \in Txs, CloseAfter(t) PROVE [Registry!Next]_(Registry!vars)
      <4>1. Close(txSession[t]) /\ UNCHANGED <<connected, tState, late>>
        BY <3>2 DEF CloseAfter
      <4>2. CASE txSession[t] \in Sessions
        BY <2>2, <4>1, <4>2
      <4>3. CASE txSession[t] \notin Sessions
        <5>1. sState' = sState
          BY <1>0, <4>1, <4>3 DEF Close, TypeOK
        <5>2. QED
          BY <1>4, <4>1, <5>1, TransactionsStay, NothingMoves DEF Registry!vars
      <4>4. QED
        BY <4>2, <4>3
    <3>3. QED
      BY <2>1, <2>3, <3>1, <3>2 DEF SessionStep
  <2>4. CASE CallStep
    <3>1. ASSUME NEW c \in Calls, CallRefused(c) PROVE [Registry!Next]_(Registry!vars)
      BY <1>4, <3>1, TransactionsStay, NothingMoves DEF CallRefused, Registry!vars
    <3>2. ASSUME NEW c \in Calls, CallClose(c) PROVE [Registry!Next]_(Registry!vars)
      BY <1>0, <2>2, <3>2 DEF CallClose, Placed
    <3>3. QED
      BY <2>1, <2>4, <3>1, <3>2 DEF CallStep
  <2>5. ASSUME NEW t \in Txs, NEW s \in Sessions, Begins(t, s)
        PROVE  [Registry!Next]_(Registry!vars)
    BY <1>0, <1>4, <2>5, TransactionOpens
  <2>6. ASSUME NEW t \in Txs, MemoryRegister(t) \/ Ends(t)
        PROVE  [Registry!Next]_(Registry!vars)
    BY <1>0, <1>4, <2>6, TransactionRegisters, TransactionEnds
  <2>7. CASE Connects
    BY <1>0, <1>4, <2>7, ConnectionMoves
  <2>8. ASSUME UNCHANGED lifeVars PROVE [Registry!Next]_(Registry!vars)
    BY <1>4, <2>8, TransactionsStay, NothingMoves DEF lifeVars, Registry!vars
  <2>9. (\E t \in Txs : Responds(t)) \/ (\E c \in Calls : Runs(c)) \/ Quiet
          => UNCHANGED lifeVars
    BY DEF Responds, Runs, Quiet
  <2>10. QED
    BY Lives, <1>1, <1>2, <2>3, <2>4, <2>5, <2>6, <2>7, <2>8, <2>9
<1>5. QED
  BY RacedMoves, <1>1, <1>2, <1>3, <1>4

(* Whichever provider it is, and whatever waits while the connection comes *)
(* and goes: sessions and transactions open on a connection only, end      *)
(* once, and end with it.                                                  *)
THEOREM ImplementsRegistryCorrect == Spec => ImplementsRegistry
<1>1. Init => Registry!Init
  <2> SUFFICES ASSUME Init PROVE ResourceState = [r \in Resources |-> "unused"]
    BY DEF Init, Registry!Init
  <2>1. ASSUME NEW r \in Resources PROVE ResourceState[r] = "unused"
    <3>1. \A t \in Txs : TransactionState(t) = "unused"
      BY DEF Init, TransactionState
    <3>2. \A s \in Sessions : sState[s] = "unused"
      BY DEF Init
    <3>3. QED
      BY <3>1, <3>2, ResourceCases, SessionResource, TransactionResource
  <2>2. QED
    BY <2>1 DEF ResourceState
<1>2. QED
  BY <1>1, RegistryStep, TypeInvCorrect, AwaitedCorrect, OutcomeInvCorrect, SessionInvCorrect,
     PTL DEF Spec, ImplementsRegistry, Registry!Spec

-----------------------------------------------------------------------------
(* What a writer leaves behind.  Its records may be copied from memory to  *)
(* the file and back, and into the base of transactions; they get there    *)
(* only while the write is on its way.                                     *)

In(map, w) == \E k \in Keys : map[k].writer = w

Copied(w) ==
  \/ In(disk, w) \/ In(cand, w)
  \/ \E e \in 0..MaxConnects : In(mem[e], w)
  \/ \E t \in Txs : In(base[t], w)

Underway(w) ==
  \/ w \in Txs   /\ commitPc[w] \in {"flushing", "landed", "ok"}
  \/ w \in Calls /\ callPc[w] \in {"flushing", "written"}

Excused(t) ==
  \/ t \in raced \cup unsure
  \/ commitPc[t] \in {"flushing", "landed", "ok"}
  \/ tState[t] \in {"committed", "gone"}

ExcusedCall(c) == c \in unsure \/ callPc[c] \in {"flushing", "written", "acked", "gone"}

LeftInv ==
  /\ \A t \in Txs   : Copied(t) => Excused(t)
  /\ \A c \in Calls : Copied(c) => ExcusedCall(c)

LEMMA EmptyHasNone == \A w \in Writers : ~In(EmptyMap, w)
BY DEF In, EmptyMap, Absent

LEMMA LeftInit == Init => LeftInv
<1> SUFFICES ASSUME Init PROVE \A w \in Writers : ~Copied(w)
  BY DEF LeftInv
<1>1. QED
  BY EmptyHasNone DEF Init, Copied

LEMMA PutWriter ==
  ASSUME NEW map \in RecordMap, NEW k \in Keys, NEW w, NEW v, In(Put(map, k, w), v)
  PROVE  v = w \/ In(map, v)
<1>1. PICK i \in Keys : Put(map, k, w)[i].writer = v
  BY DEF In
<1>2. CASE i = k
  BY <1>1, <1>2 DEF Put, Written, RecordMap
<1>3. CASE i # k
  BY <1>1, <1>3 DEF Put, RecordMap, In
<1>4. QED
  BY <1>2, <1>3

LEMMA WorkingWriter ==
  ASSUME TypeOK, NEW t \in Txs, NEW v, In(Working(t), v)
  PROVE  v = t \/ Copied(v)
<1>1. PICK i \in Keys : Working(t)[i].writer = v
  BY DEF In
<1>2. base[t] \in RecordMap
  BY DEF TypeOK
<1>3. CASE i \in touched[t]
  <2>1. Put(base[t], i, t)[i].writer = v
    BY <1>1, <1>3 DEF Working
  <2>2. Put(base[t], i, t)[i].writer = t
    BY <1>2 DEF Put, Written, RecordMap
  <2>3. QED
    BY <2>1, <2>2
<1>4. CASE i \notin touched[t]
  BY <1>1, <1>4 DEF Working, In, Copied
<1>5. QED
  BY <1>3, <1>4

LEMMA MemWriter ==
  ASSUME TypeOK, NEW i, NEW map, mem' = [mem EXCEPT ![i] = map],
         NEW v, \E e \in 0..MaxConnects : In(mem'[e], v)
  PROVE  In(map, v) \/ Copied(v)
<1>1. PICK e \in 0..MaxConnects : In(mem'[e], v)
  OBVIOUS
<1>2. mem'[e] = map \/ mem'[e] = mem[e]
  BY DEF TypeOK
<1>3. QED
  BY <1>1, <1>2 DEF Copied

LEMMA SnapshotCopies ==
  ASSUME TypeOK, NEW t \in Txs, NEW s \in Sessions, Snapshot(t, s), UNCHANGED <<dataVars, cand>>,
         NEW v, Copied(v)'
  PROVE  Copied(v)
<1>1. base' = [base EXCEPT ![t] = mem[StoreOf(s)]] /\ StoreOf(s) \in 0..MaxConnects
  BY StoreTyped DEF Snapshot
<1>2. \A u \in Txs : base'[u] = base[u] \/ base'[u] = mem[StoreOf(s)]
  BY <1>1 DEF TypeOK
<1>3. QED
  BY <1>1, <1>2 DEF Copied

LEMMA FlushCopies ==
  ASSUME TypeOK, NEW who, Flushed(who) \/ FlushFailed(who), UNCHANGED base, NEW v, Copied(v)'
  PROVE  Copied(v)
<1>1. CASE Flushed(who)
  <2>1. mem' = [mem EXCEPT ![0] = cand] /\ disk' = cand /\ cand' = cand
    BY <1>1 DEF Flushed
  <2>2. (\E e \in 0..MaxConnects : In(mem'[e], v)) => Copied(v)
    BY <2>1, MemWriter DEF Copied
  <2>3. QED
    BY <2>1, <2>2 DEF Copied
<1>2. CASE FlushFailed(who)
  BY <1>2 DEF FlushFailed, Copied
<1>3. QED
  BY <1>1, <1>2

LEMMA PersistCopies ==
  ASSUME TypeOK, NEW map, Persisted(map), UNCHANGED <<cand, base>>, NEW v, Copied(v)'
  PROVE  In(map, v) \/ Copied(v)
<1>1. mem' = [mem EXCEPT ![0] = map] /\ disk' = map
  BY DEF Persisted
<1>2. (\E e \in 0..MaxConnects : In(mem'[e], v)) => In(map, v) \/ Copied(v)
  BY <1>1, MemWriter
<1>3. QED
  BY <1>1, <1>2 DEF Copied

\* Most steps copy nothing.
LEMMA NothingCopied ==
  ASSUME UNCHANGED <<dataVars, cand, base>>, NEW v, Copied(v)'
  PROVE  Copied(v)
BY DEF Copied

LEMMA NewCopies ==
  ASSUME TypeInv, [Next]_vars, NEW v \in Writers, Copied(v)'
  PROVE  Copied(v) \/ Underway(v)'
<1>0. TypeOK
  BY DEF TypeInv
<1>1. CASE UNCHANGED <<dataVars, cand, base>>
  BY <1>1, NothingCopied
<1>2. CASE SessionStep \/ TransactionStep \/ CallStep \/ UNCHANGED vars
  BY <1>1, <1>2
  DEF SessionStep, OpenSession, CloseSession, CloseAfter, TransactionStep, TxWrite, Committed,
      Refused, Rollback, RolledBack, RollbackFailed, CallStep, CallOpen, CallRefused, CallClose,
      vars
<1>3. ASSUME (backend = "memory" /\ (MemoryConnect \/ MemoryDisconnect)) \/ MemoryNext
      PROVE  Copied(v) \/ Underway(v)'
  <2>1. CASE MemoryConnect \/ MemoryDisconnect
    BY <1>1, <2>1 DEF MemoryConnect, MemoryDisconnect
  <2>2. ASSUME NEW t \in Txs, NEW s \in Sessions, MemoryBeginTransaction(t, s)
        PROVE  Copied(v)
    BY <1>0, <2>2, SnapshotCopies DEF MemoryBeginTransaction
  <2>3. ASSUME NEW t \in Txs, MemoryRegister(t) \/ MemoryCommitFailed(t) PROVE Copied(v)
    BY <2>3, NothingCopied DEF MemoryRegister, MemoryCommitFailed, CommitFailed
  <2>4. ASSUME NEW t \in Txs, MemoryCommit(t) PROVE Copied(v) \/ Underway(v)'
    <3>1. CASE MemoryApply(t)
      <4>1. (\E e \in 0..MaxConnects : In(mem'[e], v)) => v = t \/ Copied(v)
        BY <1>0, <3>1, MemWriter, WorkingWriter DEF MemoryApply
      <4>2. disk' = disk /\ cand' = cand /\ base' = base
        BY <2>4 DEF MemoryCommit
      <4>3. v = t \/ Copied(v)
        BY <4>1, <4>2 DEF Copied
      <4>4. commitPc'[t] = "ok"
        BY <1>0, <3>1 DEF MemoryApply, TypeOK
      <4>5. QED
        BY <4>3, <4>4 DEF Underway
    <3>2. CASE MemoryRefuse(t)
      BY <2>4, <3>2, NothingCopied DEF MemoryCommit, MemoryRefuse
    <3>3. QED
      BY <2>4, <3>1, <3>2 DEF MemoryCommit
  <2>5. ASSUME NEW c \in Calls, NEW k \in Keys, MemoryCallRun(c, k)
        PROVE  Copied(v) \/ Underway(v)'
    <3>1. PICK i : i = StoreOf(callSession[c])
      OBVIOUS
    <3>2. mem' = [mem EXCEPT ![i] = Put(mem[i], k, c)]
      BY <2>5, <3>1 DEF MemoryCallRun
    <3>3. disk' = disk /\ cand' = cand /\ base' = base /\ callPc'[c] = "written"
      BY <1>0, <2>5 DEF MemoryCallRun, TypeOK
    <3>4. CASE i \in 0..MaxConnects
      <4>1. mem[i] \in RecordMap
        BY <1>0, <3>4 DEF TypeOK
      <4>2. In(Put(mem[i], k, c), v) => v = c \/ Copied(v)
        BY <3>4, <4>1, PutWriter DEF Copied
      <4>3. (\E e \in 0..MaxConnects : In(mem'[e], v)) => v = c \/ Copied(v)
        BY <1>0, <3>2, <4>2, MemWriter
      <4>4. QED
        BY <3>3, <4>3 DEF Copied, Underway
    <3>5. CASE i \notin 0..MaxConnects
      <4>1. mem' = mem
        BY <1>0, <3>2, <3>5 DEF TypeOK
      <4>2. QED
        BY <3>3, <4>1, NothingCopied
    <3>6. QED
      BY <3>4, <3>5
  <2>6. QED
    BY <1>3, <2>1, <2>2, <2>3, <2>4, <2>5 DEF MemoryNext
<1>4. ASSUME (backend = "filesystem" /\ (FsConnect \/ FsDisconnect)) \/ FilesystemNext
      PROVE  Copied(v) \/ Underway(v)'
  <2>1. CASE FsConnect \/ FsDisconnect
    <3>1. cand' \in {disk, mem[0]} /\ UNCHANGED <<dataVars, base>>
      BY <2>1 DEF FsConnect, FsDisconnect, StartFlush
    <3>2. 0 \in 0..MaxConnects
      OBVIOUS
    <3>3. QED
      BY <3>1, <3>2 DEF Copied
  <2>2. CASE FsConnected \/ FsFlushFailed
    BY <1>0, <2>2, FlushCopies DEF FsConnected, FsFlushFailed
  <2>3. CASE FsDisconnected
    <3>1. UNCHANGED <<mem, cand, base>> /\ disk' = cand
      BY <2>3 DEF FsDisconnected
    <3>2. QED
      BY <3>1 DEF Copied
  <2>4. ASSUME NEW t \in Txs, NEW s \in Sessions, FsBeginTransaction(t, s)
        PROVE  Copied(v)
    BY <1>0, <2>4, SnapshotCopies DEF FsBeginTransaction
  <2>5. ASSUME NEW t \in Txs, FsCommit(t) PROVE Copied(v) \/ Underway(v)'
    <3>1. CASE FsStartCommit(t)
      <4>1. cand' = Working(t) /\ UNCHANGED <<dataVars, base>> /\ commitPc'[t] = "flushing"
        BY <1>0, <2>5, <3>1 DEF FsCommit, FsStartCommit, StartFlush, TypeOK
      <4>2. In(cand', v) => v = t \/ Copied(v)
        BY <1>0, <4>1, WorkingWriter
      <4>3. QED
        BY <4>1, <4>2 DEF Copied, Underway
    <3>2. CASE FsRefuse(t)
      BY <2>5, <3>2, NothingCopied DEF FsCommit, FsRefuse
    <3>3. QED
      BY <2>5, <3>1, <3>2 DEF FsCommit
  <2>6. ASSUME NEW t \in Txs, FsPersisted(t) PROVE Copied(v)
    BY <1>0, <2>6, FlushCopies DEF FsPersisted
  <2>7. ASSUME NEW t \in Txs, FsLanded(t) \/ FsCommitFailed(t) PROVE Copied(v)
    BY <2>7, NothingCopied DEF FsLanded, FsCommitFailed, CommitFailed
  <2>8. ASSUME NEW c \in Calls, NEW k \in Keys, FsCallRun(c, k)
        PROVE  Copied(v) \/ Underway(v)'
    <3>1. /\ cand' = Put(mem[0], k, c) /\ UNCHANGED <<dataVars, base>>
          /\ callPc'[c] = "flushing"
      BY <1>0, <2>8 DEF FsCallRun, StartFlush, TypeOK
    <3>2. In(cand', v) => v = c \/ In(mem[0], v)
      BY <1>0, <3>1, MemTyped, PutWriter
    <3>3. 0 \in 0..MaxConnects
      OBVIOUS
    <3>4. QED
      BY <3>1, <3>2, <3>3 DEF Copied, Underway
  <2>9. ASSUME NEW c \in Calls, FsCallFlushed(c) PROVE Copied(v)
    BY <1>0, <2>9, FlushCopies DEF FsCallFlushed
  <2>10. QED
    BY <1>4, <2>1, <2>2, <2>3, <2>4, <2>5, <2>6, <2>7, <2>8, <2>9 DEF FilesystemNext
<1>5. ASSUME (backend = "sqlite" /\ (SqliteConnect \/ SqliteDisconnect)) \/ SqliteNext
      PROVE  Copied(v) \/ Underway(v)'
  <2>1. CASE SqliteConnect \/ SqliteDisconnect \/ SqliteConnectFailed
    BY <2>1, NothingCopied DEF SqliteConnect, SqliteDisconnect, SqliteConnectFailed
  <2>2. CASE SqliteConnected
    <3>1. mem' = [mem EXCEPT ![0] = disk] /\ UNCHANGED <<disk, cand, base>>
      BY <2>2 DEF SqliteConnected
    <3>2. (\E e \in 0..MaxConnects : In(mem'[e], v)) => Copied(v)
      BY <1>0, <3>1, MemWriter DEF Copied
    <3>3. QED
      BY <3>1, <3>2 DEF Copied
  <2>3. ASSUME NEW t \in Txs, NEW s \in Sessions, SqliteBeginTransaction(t, s)
        PROVE  Copied(v)
    BY <1>0, <2>3, SnapshotCopies DEF SqliteBeginTransaction
  <2>4. ASSUME NEW t \in Txs, SqliteCommit(t) PROVE Copied(v) \/ Underway(v)'
    <3>1. cand' = cand /\ base' = base
      BY <2>4 DEF SqliteCommit
    <3>2. CASE Persisted(Working(t)) /\ commitPc' = [commitPc EXCEPT ![t] = "landed"]
      <4>1. v = t \/ Copied(v)
        BY <1>0, <3>1, <3>2, PersistCopies, WorkingWriter
      <4>2. commitPc'[t] = "landed"
        BY <1>0, <3>2 DEF TypeOK
      <4>3. QED
        BY <4>1, <4>2 DEF Underway
    <3>3. CASE PersistFailed \/ SqliteRefuse(t)
      BY <3>1, <3>3, NothingCopied DEF PersistFailed, SqliteRefuse
    <3>4. QED
      BY <2>4, <3>2, <3>3 DEF SqliteCommit, SqliteApply
  <2>5. ASSUME NEW t \in Txs, SqliteLanded(t) \/ SqliteCommitFailed(t) PROVE Copied(v)
    BY <2>5, NothingCopied DEF SqliteLanded, SqliteCommitFailed, CommitFailed
  <2>6. ASSUME NEW c \in Calls, NEW k \in Keys, SqliteCallRun(c, k)
        PROVE  Copied(v) \/ Underway(v)'
    <3>1. cand' = cand /\ base' = base
      BY <2>6 DEF SqliteCallRun
    <3>2. CASE Persisted(Put(mem[0], k, c)) /\ callPc' = [callPc EXCEPT ![c] = "written"]
      <4>1. In(Put(mem[0], k, c), v) => v = c \/ Copied(v)
        <5>1. 0 \in 0..MaxConnects
          OBVIOUS
        <5>2. QED
          BY <1>0, <5>1, MemTyped, PutWriter DEF Copied
      <4>2. v = c \/ Copied(v)
        BY <1>0, <3>1, <3>2, <4>1, PersistCopies
      <4>3. callPc'[c] = "written"
        BY <1>0, <3>2 DEF TypeOK
      <4>4. QED
        BY <4>2, <4>3 DEF Underway
    <3>3. CASE PersistFailed
      BY <3>1, <3>3, NothingCopied DEF PersistFailed
    <3>4. QED
      BY <2>6, <3>2, <3>3 DEF SqliteCallRun
  <2>7. QED
    BY <1>5, <2>1, <2>2, <2>3, <2>4, <2>5, <2>6 DEF SqliteNext
<1>6. CASE Crash
  <2>1. /\ disk' \in {disk, cand} /\ cand' = cand /\ base' = base
        /\ \A e \in 0..MaxConnects : mem'[e] = EmptyMap
    BY <1>6 DEF Crash
  <2>2. QED
    BY <2>1, EmptyHasNone DEF Copied
<1>7. QED
  BY <1>2, <1>3, <1>4, <1>5, <1>6 DEF Next, Start, Stop

\* A write of the file that failed stays noted.
LEMMA UnsureStays == ASSUME [Next]_vars PROVE unsure \subseteq unsure'
<1>1. CASE SessionStep \/ TransactionStep \/ CallStep \/ Crash \/ UNCHANGED vars
  BY <1>1
  DEF SessionStep, OpenSession, CloseSession, CloseAfter, TransactionStep, TxWrite, Committed,
      Refused, Rollback, RolledBack, RollbackFailed, CallStep, CallOpen, CallRefused, CallClose,
      Crash, vars
<1>2. CASE (backend = "memory" /\ (MemoryConnect \/ MemoryDisconnect)) \/ MemoryNext
  BY <1>2
  DEF MemoryConnect, MemoryDisconnect, MemoryNext, MemoryBeginTransaction, MemoryRegister,
      MemoryCommit, MemoryCommitFailed, CommitFailed, MemoryCallRun, ForceClose
<1>3. CASE (backend = "filesystem" /\ (FsConnect \/ FsDisconnect)) \/ FilesystemNext
  <2>1. \A who : Flushed(who) \/ FlushFailed(who) => unsure \subseteq unsure'
    BY DEF Flushed, FlushFailed
  <2>2. QED
    BY <1>3, <2>1
    DEF FsConnect, FsDisconnect, FilesystemNext, FsConnected, FsDisconnected, FsFlushFailed,
        FsBeginTransaction, FsCommit, FsPersisted, FsLanded, FsCommitFailed, CommitFailed,
        FsCallRun, FsCallFlushed, ForceClose
<1>4. CASE (backend = "sqlite" /\ (SqliteConnect \/ SqliteDisconnect)) \/ SqliteNext
  BY <1>4
  DEF SqliteConnect, SqliteDisconnect, SqliteNext, SqliteConnected, SqliteConnectFailed,
      SqliteBeginTransaction, SqliteCommit, SqliteLanded, SqliteCommitFailed, CommitFailed,
      SqliteCallRun, ForceClose
<1>5. QED
  BY <1>1, <1>2, <1>3, <1>4 DEF Next, Start, Stop

(* A transaction that may have left records stays so: a commit under way   *)
(* ends with "committed", or the write of its file failed, or something    *)
(* met it.                                                                 *)
LEMMA ExcusedStays ==
  ASSUME TypeInv, Awaited, OutcomeInv, [Next]_vars, NEW u \in Txs, Excused(u)
  PROVE  Excused(u)'
<1>0. TypeOK
  BY DEF TypeInv
<1>a. Settled(u) /\ unsure \subseteq unsure'
  BY UnsureStays DEF OutcomeInv
<1>b. ASSUME u \in unsure PROVE Excused(u)'
  BY <1>a, <1>b DEF Excused
<1> USE DEF TypeOK
<1>1. ASSUME raced' = raced, tState'[u] = tState[u], commitPc'[u] = commitPc[u]
      PROVE  Excused(u)'
  BY <1>a, <1>1 DEF Excused
<1>2. CASE UNCHANGED outcomeVars
  BY <1>1, <1>2 DEF outcomeVars
<1>3. ASSUME NEW t \in Txs, Appears(t) PROVE Excused(u)'
  BY <1>0, <1>a, <1>3 DEF Appears, Excused
<1>4. ASSUME NEW t \in Txs, Commits(t) PROVE Excused(u)'
  <2>1. PICK step \in CommitSteps : commitPc' = [commitPc EXCEPT ![t] = step]
    BY <1>4 DEF Commits, Reaches
  <2>2. tState' = tState /\ raced \subseteq raced'
    BY <1>4 DEF Commits, Race
  <2>3. CASE u = t
    BY <1>4, <1>a, <2>2, <2>3 DEF Commits, Excused
  <2>4. CASE u # t
    BY <1>0, <1>a, <2>1, <2>2, <2>4 DEF Excused
  <2>5. QED
    BY <2>3, <2>4
<1>5. ASSUME NEW t \in Txs, Persists(t) PROVE Excused(u)'
  BY <1>0, <1>a, <1>5 DEF Persists, Excused
<1>6. ASSUME NEW t \in Txs, Lands(t) PROVE Excused(u)'
  BY <1>0, <1>a, <1>6 DEF Lands, Excused
<1>7. ASSUME NEW t \in Txs, Fails(t) PROVE Excused(u)'
  BY <1>0, <1>a, <1>7 DEF Fails, Excused
<1>8. ASSUME NEW t \in Txs, Committed(t) PROVE Excused(u)'
  BY <1>0, <1>a, <1>8 DEF Committed, Excused
<1>9. ASSUME NEW t \in Txs, Refused(t) \/ RollbackFailed(t) PROVE Excused(u)'
  BY <1>1, <1>9 DEF Refused, RollbackFailed
<1>10. ASSUME NEW t \in Txs, Rollback(t) PROVE Excused(u)'
  BY <1>a, <1>10 DEF Rollback, Race, Excused
<1>11. ASSUME NEW t \in Txs, RolledBack(t) PROVE Excused(u)'
  <2>1. CASE u = t /\ u \notin raced \cup unsure
    BY <1>a, <1>11, <2>1 DEF RolledBack, Excused, Settled, Orderly
  <2>2. CASE u \in raced
    BY <1>11, <2>2 DEF RolledBack, Excused
  <2>3. CASE u # t
    BY <1>0, <1>1, <1>11, <2>3 DEF RolledBack
  <2>4. QED
    BY <1>b, <2>1, <2>2, <2>3
<1>12. CASE Closes
  BY <1>a, <1>12 DEF Closes, ForceClose, Excused
<1>13. CASE Crash
  <2>1. CASE u \notin raced \cup unsure
    BY <1>0, <1>a, <1>13, <2>1 DEF Crash, Excused, Settled, Orderly
  <2>2. CASE u \in raced
    BY <1>13, <2>2 DEF Crash, Excused
  <2>3. QED
    BY <1>b, <2>1, <2>2
<1>14. QED
  BY Outcomes, <1>2, <1>3, <1>4, <1>5, <1>6, <1>7, <1>8, <1>9, <1>10, <1>11, <1>12, <1>13

LEMMA ExcusedCallStays ==
  ASSUME TypeInv, Awaited, [Next]_vars, NEW u \in Calls, ExcusedCall(u)
  PROVE  ExcusedCall(u)'
<1>0. TypeOK /\ unsure \subseteq unsure'
  BY UnsureStays DEF TypeInv
<1> USE DEF TypeOK
<1>1. ASSUME callPc'[u] = callPc[u] PROVE ExcusedCall(u)'
  BY <1>0, <1>1 DEF ExcusedCall
<1>2. CASE SessionStep
  BY <1>1, <1>2 DEF SessionStep, OpenSession, CloseSession, CloseAfter
<1>3. ASSUME NEW c \in Calls, NEW s \in Sessions, CallOpen(c, s) PROVE ExcusedCall(u)'
  BY <1>0, <1>3 DEF CallOpen, ExcusedCall
<1>4. ASSUME NEW c \in Calls, CallRefused(c) \/ CallClose(c) PROVE ExcusedCall(u)'
  BY <1>0, <1>4 DEF CallRefused, CallClose, ExcusedCall
<1>5. ASSUME NEW c \in Calls, Runs(c) PROVE ExcusedCall(u)'
  <2>1. PICK p \in {"flushing", "written", "failed"} :
               /\ callPc' = [callPc EXCEPT ![c] = p]
               /\ callPc[c] = "flushing" /\ p = "failed" => c \in unsure'
    BY <1>5 DEF Runs
  <2>2. callPc[c] \in {"opened", "flushing"}
    BY <1>5 DEF Runs
  <2>3. CASE u = c
    BY <1>0, <2>1, <2>2, <2>3 DEF ExcusedCall
  <2>4. CASE u # c
    BY <1>0, <1>1, <2>1, <2>4
  <2>5. QED
    BY <2>3, <2>4
<1>6. CASE Crash
  BY <1>0, <1>6 DEF Crash, ExcusedCall
<1>7. ASSUME NEW t \in Txs, NEW s \in Sessions, Begins(t, s) PROVE ExcusedCall(u)'
  BY <1>1, <1>7 DEF Begins
<1>8. ASSUME NEW t \in Txs, MemoryRegister(t) \/ Ends(t) \/ Responds(t) PROVE ExcusedCall(u)'
  BY <1>1, <1>8 DEF MemoryRegister, Ends, Responds
<1>9. CASE Connects \/ Disconnects \/ Quiet
  BY <1>1, <1>9 DEF Connects, Disconnects, Quiet
<1>10. QED
  BY Lives, <1>2, <1>3, <1>4, <1>5, <1>6, <1>7, <1>8, <1>9 DEF CallStep

LEMMA LeftStep == TypeInv /\ Awaited /\ OutcomeInv /\ LeftInv /\ [Next]_vars => LeftInv'
<1> SUFFICES ASSUME TypeInv, Awaited, OutcomeInv, LeftInv, [Next]_vars PROVE LeftInv'
  OBVIOUS
<1>1. ASSUME NEW t \in Txs, Copied(t)' PROVE Excused(t)'
  <2>1. CASE Copied(t)
    BY <2>1, ExcusedStays DEF LeftInv
  <2>2. CASE Underway(t)'
    BY <2>2 DEF Underway, Excused
  <2>3. QED
    BY <1>1, <2>1, <2>2, NewCopies
<1>2. ASSUME NEW c \in Calls, Copied(c)' PROVE ExcusedCall(c)'
  <2>1. CASE Copied(c)
    BY <2>1, ExcusedCallStays DEF LeftInv
  <2>2. CASE Underway(c)'
    BY <2>2 DEF Underway, ExcusedCall
  <2>3. QED
    BY <1>2, <2>1, <2>2, NewCopies
<1>3. QED
  BY <1>1, <1>2 DEF LeftInv

LEMMA LeftInvCorrect == Spec => []LeftInv
<1>1. QED
  BY LeftInit, LeftStep, TypeInvCorrect, AwaitedCorrect, OutcomeInvCorrect, PTL DEF Spec

LEMMA LeftImplies == OutcomeInv /\ LeftInv => NothingLeftBehind
<1> SUFFICES ASSUME OutcomeInv, LeftInv PROVE NothingLeftBehind
  OBVIOUS
<1>1. \A w \in Writers : Left(w) => Copied(w)
  BY DEF Left, Copied, In
<1>2. ASSUME NEW t \in Txs \ (raced \cup unsure), tState[t] \in {"rolled-back", "closed"}
      PROVE  ~Left(t)
  <2>1. Orderly(t)
    BY <1>2 DEF OutcomeInv, Settled
  <2>2. ~Excused(t)
    BY <1>2, <2>1 DEF Excused, Orderly
  <2>3. QED
    BY <1>1, <2>2 DEF LeftInv
<1>3. ASSUME NEW c \in Calls \ unsure, callPc[c] = "rejected" PROVE ~Left(c)
  BY <1>1, <1>3 DEF LeftInv, ExcusedCall
<1>4. QED
  BY <1>2, <1>3 DEF NothingLeftBehind

(* A transaction that was rolled back or closed, and a call that was       *)
(* rejected, have no record in memory or on disk, unless the commit met    *)
(* the rollback or the disconnect, or the write of the file failed.        *)
THEOREM NothingLeftBehindCorrect == Spec => []NothingLeftBehind
<1>1. QED
  BY LeftImplies, LeftInvCorrect, OutcomeInvCorrect, PTL
=============================================================================
