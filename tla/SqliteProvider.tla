--------------------------- MODULE SqliteProvider ---------------------------
(***************************************************************************)
(* The SQLite persistence provider.  Its database calls are synchronous:   *)
(* a write rewrites the tables in one SQL transaction, without letting     *)
(* other code in.  What waits is the answer of a commit, and a connect     *)
(* before it opens the database.                                           *)
(*                                                                         *)
(* A statement may fail; the ROLLBACK that follows may fail too, and then  *)
(* the connection keeps its SQL transaction until the next BEGIN fails and *)
(* is rolled back.  The schema is created by four statements that are not  *)
(* in a transaction.                                                       *)
(***************************************************************************)
EXTENDS ProviderResources

CONSTANT MaxConnecting  \* bound: connects in progress together

ASSUME ConnectingAssumption == MaxConnecting \in Nat

-----------------------------------------------------------------------------
(* The schema.                                                             *)

\* What verifySchema accepts, or creates when it finds no table at all.
SchemaUsable == schema \in {"none", "no-revision", "complete"}

\* Where verifySchema may be cut short.
SchemaReached == IF schema = "none" THEN SchemaStages ELSE {schema}

-----------------------------------------------------------------------------
(* connect awaits the directory, and does the rest in one go.              *)

SqliteConnect ==
  /\ ~connected
  /\ epoch + connects < MaxConnects
  /\ connects < MaxConnecting
  /\ connects' = connects + 1
  /\ overlapped' = (overlapped \/ connects > 0)
  /\ UNCHANGED <<connected, epoch, backend, dataVars, sessionVars, storeTxVars,
                 txVars, commitVars, callVars, flushVars, databaseVars, historyVars>>

\* A faulty variant: the schema version is not looked for.
SqliteConnectedUnverified ==
  /\ connects > 0
  /\ schema # "one-table"
  /\ connects' = connects - 1
  /\ schema' = IF schema = "none" THEN "complete" ELSE schema
  /\ db' = "open"
  /\ dangling' = FALSE
  /\ mem' = [mem EXCEPT ![0] = disk]
  /\ connected' = TRUE
  /\ epoch' = IF connected THEN epoch ELSE epoch + 1
  /\ UNCHANGED <<overlapped, backend, disk, sessionVars, storeTxVars, txVars,
                 commitVars, callVars, flushVars, historyVars>>

SqliteConnected ==
  /\ connects > 0
  /\ SchemaUsable
  /\ connects' = connects - 1
  /\ schema' = IF schema = "none" THEN "complete" ELSE schema
  /\ db' = "open"
  /\ dangling' = FALSE
  /\ mem' = [mem EXCEPT ![0] = disk]
  /\ connected' = TRUE
  /\ epoch' = IF connected THEN epoch ELSE epoch + 1
  /\ UNCHANGED <<overlapped, backend, disk, sessionVars, storeTxVars, txVars,
                 commitVars, callVars, flushVars, historyVars>>

(* Any statement may fail.  The database is closed, whichever connect had  *)
(* opened it.                                                              *)
SqliteConnectFailed ==
  /\ connects > 0
  /\ connects' = connects - 1
  /\ schema' \in SchemaReached
  /\ db' = "closed"
  /\ dangling' = FALSE
  /\ UNCHANGED <<connected, epoch, overlapped, backend, dataVars, sessionVars,
                 storeTxVars, txVars, commitVars, callVars, flushVars, historyVars>>

\* A faulty variant: the database is given up before it is closed.
SqliteDisconnectGivingUp ==
  /\ connected
  /\ ForceClose
  /\ UNCHANGED torn
  /\ db' = "closed" /\ dangling' = FALSE
  /\ connected' \in IF db = "open" THEN BOOLEAN ELSE {FALSE}
  /\ UNCHANGED <<epoch, connects, overlapped, backend, dataVars, storeTxVars,
                 commitVars, callVars, flushVars, schema>>

(* disconnect closes what is open first, and the database last.            *)
SqliteDisconnect ==
  /\ connected
  /\ ForceClose
  /\ UNCHANGED torn
  /\ \/ connected' = FALSE /\ db' = "closed" /\ dangling' = FALSE
     \/ db = "open" /\ UNCHANGED <<connected, db, dangling>>
  /\ UNCHANGED <<epoch, connects, overlapped, backend, dataVars, storeTxVars,
                 commitVars, callVars, flushVars, schema>>

-----------------------------------------------------------------------------
(* persistState and replaceCurrentState.                                   *)

Persisted(records) ==
  /\ db = "open"
  /\ ~dangling
  /\ disk' = records
  /\ mem' = [mem EXCEPT ![0] = records]
  /\ UNCHANGED dangling

\* Without a database nothing is tried; otherwise the ROLLBACK may fail.
PersistFailed ==
  /\ IF db = "open" THEN dangling' \in BOOLEAN ELSE UNCHANGED dangling
  /\ UNCHANGED <<disk, mem>>

SqliteBeginTransaction(t, s) ==
  /\ tState[t] = "unused"
  /\ Usable(s)
  /\ Snapshot(t, s)
  /\ tState' = [tState EXCEPT ![t] = "active"]
  /\ transactions' = transactions \cup {t}
  /\ UNCHANGED <<backend, connectionVars, dataVars, sessionVars, wState,
                 touched, commitVars, callVars, flushVars, databaseVars,
                 historyVars>>

\* A faulty variant: the records are replaced before they are persisted.
SqliteApplyMemoryFirst(t) ==
  /\ wState[t] = "active"
  /\ Conflicts(t) = {}
  /\ \/ Persisted(Working(t)) /\ commitPc' = [commitPc EXCEPT ![t] = "landed"]
     \/ /\ mem' = [mem EXCEPT ![0] = Working(t)]
        /\ commitPc' = [commitPc EXCEPT ![t] = "io"]
        /\ UNCHANGED <<disk, dangling>>

(* SQLiteContextStoreTransaction.commit up to its continuation.            *)
SqliteApply(t) ==
  /\ wState[t] = "active"
  /\ Conflicts(t) = {}
  /\ \/ Persisted(Working(t)) /\ commitPc' = [commitPc EXCEPT ![t] = "landed"]
     \/ PersistFailed         /\ commitPc' = [commitPc EXCEPT ![t] = "io"]

SqliteRefuse(t) ==
  /\ wState[t] = "active" => Conflicts(t) # {}
  /\ commitPc' = [commitPc EXCEPT ![t] = IF wState[t] = "active" THEN "conflict" ELSE "closed"]
  /\ UNCHANGED <<mem, disk, dangling>>

(* commit, up to its first wait.  Bound: no commit of the transaction      *)
(* waits already.                                                          *)
SqliteCommit(t) ==
  /\ tState[t] = "active"
  /\ commitPc[t] = "none"
  /\ SqliteApply(t) \/ SqliteRefuse(t)
  /\ Race(t, rollbackPc[t])
  /\ UNCHANGED <<backend, connectionVars, sessionVars, storeTxVars, txVars,
                 rollbackPc, answer, closing, callVars, flushVars, db, schema, late,
                 unsure, torn>>

SqliteLanded(t) ==
  /\ commitPc[t] = "landed"
  /\ commitPc' = [commitPc EXCEPT ![t] = "ok"]
  /\ wState' = [wState EXCEPT ![t] = "committed"]
  /\ UNCHANGED <<backend, connectionVars, dataVars, sessionVars, base, touched,
                 txVars, rollbackPc, answer, closing, callVars, flushVars,
                 databaseVars, historyVars>>

\* A faulty variant: every failure gets one code, as in the in-memory provider.
SqliteCommitFailedUnmapped(t) == CommitFailed(t, "transaction-closed")

SqliteCommitFailed(t) ==
  CommitFailed(t, IF commitPc[t] = "conflict" THEN "version-conflict" ELSE "io-failure")

\* A faulty variant: the records are replaced before they are persisted.
SqliteCallRunMemoryFirst(c, k) ==
  /\ callPc[c] = "opened"
  /\ mem' = [mem EXCEPT ![0] = Put(@, k, c)]
  /\ \/ Persisted(Put(mem[0], k, c)) /\ callPc' = [callPc EXCEPT ![c] = "written"]
     \/ callPc' = [callPc EXCEPT ![c] = "failed"] /\ UNCHANGED <<disk, dangling>>
  /\ UNCHANGED <<backend, connectionVars, sessionVars, storeTxVars, txVars,
                 commitVars, callSession, flushVars, db, schema, historyVars>>

SqliteCallRun(c, k) ==
  /\ callPc[c] = "opened"
  /\ \/ Persisted(Put(mem[0], k, c)) /\ callPc' = [callPc EXCEPT ![c] = "written"]
     \/ PersistFailed                /\ callPc' = [callPc EXCEPT ![c] = "failed"]
  /\ UNCHANGED <<backend, connectionVars, sessionVars, storeTxVars, txVars,
                 commitVars, callSession, flushVars, db, schema, historyVars>>

SqliteNext ==
  /\ backend = "sqlite"
  /\ \/ SqliteConnected \/ SqliteConnectFailed
     \/ \E t \in Txs, s \in Sessions : SqliteBeginTransaction(t, s)
     \/ \E t \in Txs : SqliteCommit(t) \/ SqliteLanded(t) \/ SqliteCommitFailed(t)
     \/ \E c \in Calls, k \in Keys : SqliteCallRun(c, k)
=============================================================================
