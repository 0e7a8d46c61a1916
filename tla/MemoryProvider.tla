--------------------------- MODULE MemoryProvider ---------------------------
(***************************************************************************)
(* The in-memory persistence provider.  Every connect builds a new store,  *)
(* and a session keeps the store of the connection it was opened on.       *)
(* Nothing here waits for I/O, but a transaction is registered only after  *)
(* the awaited begin of its store transaction: a disconnect fits between.  *)
(***************************************************************************)
EXTENDS ProviderResources

MemoryConnect ==
  /\ ~connected
  /\ epoch < MaxConnects
  /\ connected' = TRUE
  /\ epoch' = epoch + 1
  /\ UNCHANGED <<connects, overlapped, backend, dataVars, sessionVars,
                 storeTxVars, txVars, commitVars, callVars, flushVars,
                 databaseVars, historyVars>>

MemoryDisconnect ==
  /\ connected
  /\ ForceClose
  /\ UNCHANGED torn
  /\ connected' = FALSE
  /\ UNCHANGED <<epoch, connects, overlapped, backend, dataVars, storeTxVars,
                 commitVars, callVars, flushVars, databaseVars>>

(* InMemoryPersistenceSession.beginTransaction, up to its await.           *)
MemoryBeginTransaction(t, s) ==
  /\ tState[t] = "unused"
  /\ Usable(s)
  /\ Snapshot(t, s)
  /\ tState' = [tState EXCEPT ![t] = "beginning"]
  /\ UNCHANGED <<backend, connectionVars, dataVars, sessionVars, wState,
                 touched, transactions, commitVars, callVars, flushVars,
                 databaseVars, historyVars>>

(* ... and from there on.                                                  *)
MemoryRegister(t) ==
  /\ tState[t] = "beginning"
  /\ tState' = [tState EXCEPT ![t] = "active"]
  /\ transactions' = transactions \cup {t}
  /\ late' = IF sState[txSession[t]] # "active" THEN late \cup {t} ELSE late
  /\ UNCHANGED <<backend, connectionVars, dataVars, sessionVars, storeTxVars,
                 txSession, commitVars, callVars, flushVars, databaseVars, raced,
                 unsure, torn>>

(* A commit that reaches the store: the store replaces its records.        *)
MemoryApply(t) ==
  /\ wState[t] = "active"
  /\ Conflicts(t) = {}
  /\ mem' = [mem EXCEPT ![StoreOf(txSession[t])] = Working(t)]
  /\ wState' = [wState EXCEPT ![t] = "committed"]
  /\ commitPc' = [commitPc EXCEPT ![t] = "ok"]

MemoryRefuse(t) ==
  /\ wState[t] = "active" => Conflicts(t) # {}
  /\ commitPc' = [commitPc EXCEPT ![t] = IF wState[t] = "active" THEN "conflict" ELSE "closed"]
  /\ UNCHANGED <<mem, wState>>

(* commit, up to its first wait.  Bound: no commit of the transaction      *)
(* waits already.                                                          *)
MemoryCommit(t) ==
  /\ tState[t] = "active"
  /\ commitPc[t] = "none"
  /\ MemoryApply(t) \/ MemoryRefuse(t)
  /\ Race(t, rollbackPc[t])
  /\ UNCHANGED <<backend, connectionVars, disk, sessionVars, base, touched,
                 txVars, rollbackPc, answer, closing, callVars, flushVars,
                 databaseVars, late, unsure, torn>>

\* Every failure of the store's commit gets the same code, a conflict too.
MemoryCommitFailed(t) == CommitFailed(t, "transaction-closed")

MemoryCallRun(c, k) ==
  /\ callPc[c] = "opened"
  /\ mem' = [mem EXCEPT ![StoreOf(callSession[c])] = Put(@, k, c)]
  /\ callPc' = [callPc EXCEPT ![c] = "written"]
  /\ UNCHANGED <<backend, connectionVars, disk, sessionVars, storeTxVars,
                 txVars, commitVars, callSession, flushVars, databaseVars,
                 historyVars>>

MemoryNext ==
  /\ backend = "memory"
  /\ \/ \E t \in Txs, s \in Sessions : MemoryBeginTransaction(t, s)
     \/ \E t \in Txs : MemoryRegister(t) \/ MemoryCommit(t) \/ MemoryCommitFailed(t)
     \/ \E c \in Calls, k \in Keys : MemoryCallRun(c, k)
=============================================================================
