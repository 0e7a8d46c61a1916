-------------------------- MODULE ProviderResources --------------------------
(***************************************************************************)
(* What the three persistence providers have in common: sessions, the      *)
(* transactions begun on them, the two sets in which the provider keeps    *)
(* those it must close, and the context store that opens a session for     *)
(* each of its calls.  The in-memory, filesystem and SQLite providers      *)
(* carry copies of this code; MemoryProvider, FilesystemProvider and       *)
(* SqliteProvider say what each does differently: when a step waits, what  *)
(* it makes durable and how it answers.                                    *)
(*                                                                         *)
(* A provider transaction wraps a transaction of the provider's store and  *)
(* has a state of its own.  The two change in different steps, because the *)
(* outer one awaits the inner one, and other calls run in between.         *)
(*                                                                         *)
(* Bound: while a commit of a transaction waits it is not committed again, *)
(* and while a rollback waits it is not rolled back again, though the code *)
(* has no guard against either.  A commit and a rollback do meet.          *)
(***************************************************************************)
EXTENDS StoreRecords, FiniteSets

CONSTANTS
  Backends,      \* the providers considered
  Sessions,      \* session objects, each opened at most once
  Txs,           \* provider transactions, each begun at most once
  Calls,         \* writes made through the composed store outside transactions
  NoSession,     \* the session of a transaction or call that has none yet
  MaxConnects    \* bound: how often the provider may become connected

ASSUME BackendsAssumption  == Backends \subseteq {"memory", "filesystem", "sqlite"}
ASSUME WritersAssumption   == Writers = Txs \cup Calls /\ Txs \cap Calls = {}
ASSUME NoSessionAssumption == NoSession \notin Sessions
ASSUME ConnectsAssumption  == MaxConnects \in Nat
ASSUME FlushersAssumption  ==
  {"none", "connect", "disconnect"} \cap (Txs \cup Calls) = {}

VARIABLES
  backend,       \* which provider this is
  connected,     \* #connected
  epoch,         \* how often the provider became connected
  mem,           \* #state; the in-memory provider builds a store per connect
  disk,          \* the records in the file or the database
  sState,        \* #state of each session
  sEpoch,        \* the connection each session was opened on
  owner,         \* who opened each session, and so who is to close it
  sessions,      \* #sessions
  tState,        \* #state of each provider transaction
  wState,        \* #state of the store transaction each one wraps
  txSession,     \* the session each was begun on
  base,          \* #baseRecords of the store transaction
  touched,       \* #touched of the store transaction
  transactions,  \* #transactions
  commitPc,      \* the commit in progress on each transaction
  rollbackPc,    \* the rollback in progress on each transaction
  answer,        \* how the last commit or rollback of each was answered
  closing,       \* composed transactions about to close their session
  callPc,        \* the step each call is at
  callSession,   \* the session each call opened
  flush,         \* who is writing the file: "none", or whose flush it is
  cand,          \* the records being written
  db,            \* whether #database is open
  dangling,      \* whether a failed ROLLBACK left the database in a transaction
  schema,        \* how far the schema of the database has come
  connects,      \* connects in progress
  late,          \* history: begun on a session closed in the meantime
  raced,         \* history: commit, rollback or disconnect met on it
  overlapped,    \* history: a connect was started while another was in progress
  unsure,        \* history: writers whose write of the file failed
  torn           \* history: the last write of the file failed

connectionVars == <<connected, epoch, connects, overlapped>>
dataVars       == <<mem, disk>>
sessionVars    == <<sState, sEpoch, owner, sessions>>
storeTxVars    == <<wState, base, touched>>
txVars         == <<tState, txSession, transactions>>
commitVars     == <<commitPc, rollbackPc, answer, closing>>
callVars       == <<callPc, callSession>>
flushVars      == <<flush, cand>>
databaseVars   == <<db, dangling, schema>>
historyVars    == <<late, raced, unsure, torn>>

vars == <<backend, connectionVars, dataVars, sessionVars, storeTxVars, txVars,
          commitVars, callVars, flushVars, databaseVars, historyVars>>

-----------------------------------------------------------------------------
SessionStates  == {"unused", "active", "closed", "gone"}
Owners         == {"caller", "anonymous", "composed"}
InnerStates    == {"active", "committed", "rolled-back"}
FinalStates    == {"committed", "rolled-back", "closed"}
TxStates       == {"unused", "beginning", "active", "gone"} \cup FinalStates
CommitSteps    == {"none", "flushing", "landed", "ok", "conflict", "closed", "io"}
RollbackSteps  == {"none", "ok", "closed"}
Answers        == {"none", "committed", "rolled-back", "version-conflict",
                   "transaction-closed", "io-failure"}
CallSteps      == {"idle", "opened", "flushing", "written", "failed",
                   "acked", "rejected", "gone"}
SchemaStages   == {"none", "one-table", "no-version", "no-revision", "complete"}

Init ==
  /\ backend \in Backends
  /\ connected = FALSE  /\ epoch = 0  /\ connects = 0  /\ overlapped = FALSE
  /\ mem  = [e \in 0..MaxConnects |-> EmptyMap]
  /\ disk = EmptyMap
  /\ sState = [s \in Sessions |-> "unused"]
  /\ sEpoch = [s \in Sessions |-> 0]
  /\ owner  = [s \in Sessions |-> "caller"]
  /\ tState = [t \in Txs |-> "unused"]
  /\ wState = [t \in Txs |-> "active"]
  /\ txSession = [t \in Txs |-> NoSession]
  /\ base    = [t \in Txs |-> EmptyMap]
  /\ touched = [t \in Txs |-> {}]
  /\ sessions = {}  /\ transactions = {}
  /\ commitPc   = [t \in Txs |-> "none"]
  /\ rollbackPc = [t \in Txs |-> "none"]
  /\ answer     = [t \in Txs |-> "none"]
  /\ closing = {}
  /\ callPc = [c \in Calls |-> "idle"]
  /\ callSession = [c \in Calls |-> NoSession]
  /\ flush = "none"  /\ cand = EmptyMap
  /\ db = "closed"  /\ dangling = FALSE  /\ schema = "none"
  /\ late = {}  /\ raced = {}  /\ unsure = {}  /\ torn = FALSE

-----------------------------------------------------------------------------
(* The records.  A write puts a record of the next version under its key;  *)
(* creation, deletion and expected versions are the subject of             *)
(* ContextStore.                                                           *)

Put(map, k, w) == [map EXCEPT ![k] = Written(map, "update", k, w, 1)]

\* The store a session gives access to.
StoreOf(s) == IF backend = "memory" THEN sEpoch[s] ELSE 0

Current(t) == mem[StoreOf(txSession[t])]

\* #workingRecords: the base, and one write under each touched key.
Working(t) ==
  [k \in Keys |-> IF k \in touched[t] THEN Put(base[t], k, t)[k] ELSE base[t][k]]

Conflicts(t) == {k \in touched[t] : base[t][k].version # Current(t)[k].version}

-----------------------------------------------------------------------------
(* Sessions.                                                               *)

(* beginSession: by a caller who closes the session, by the provider's own *)
(* beginTransaction, or by the composed store.                             *)
BeginSession(s, o) ==
  /\ connected
  /\ sState[s] = "unused"
  /\ sState'   = [sState EXCEPT ![s] = "active"]
  /\ sEpoch'   = [sEpoch EXCEPT ![s] = epoch]
  /\ owner'    = [owner EXCEPT ![s] = o]
  /\ sessions' = sessions \cup {s}

\* A faulty variant: the session stays in the provider's set.
CloseKeepingRegistered(s) ==
  /\ sState' = [sState EXCEPT ![s] = IF @ = "active" THEN "closed" ELSE @]
  /\ UNCHANGED <<sessions, sEpoch, owner>>

(* close: a session that is not active stays as it is.                     *)
Close(s) ==
  /\ sState'   = [sState EXCEPT ![s] = IF @ = "active" THEN "closed" ELSE @]
  /\ sessions' = IF sState[s] = "active" THEN sessions \ {s} ELSE sessions
  /\ UNCHANGED <<sEpoch, owner>>

(* Only the composed store and provider.beginTransaction use a session for *)
(* a single transaction.                                                   *)
Usable(s) ==
  /\ sState[s] = "active"
  /\ \A c \in Calls : callSession[c] # s
  /\ owner[s] # "caller" => \A t \in Txs : txSession[t] # s

(* disconnect: #closeActiveResources.                                      *)
ForceClose ==
  /\ tState' = [t \in Txs |-> IF t \in transactions /\ tState[t] = "active"
                              THEN "closed" ELSE tState[t]]
  /\ sState' = [s \in Sessions |-> IF s \in sessions THEN "closed" ELSE sState[s]]
  /\ sessions' = {}
  /\ transactions' = {}
  /\ raced' = raced \cup {t \in Txs : commitPc[t] # "none" \/ rollbackPc[t] # "none"}
  /\ UNCHANGED <<sEpoch, owner, txSession, late, unsure>>

-----------------------------------------------------------------------------
(* Transactions.                                                           *)

(* The store transaction copies the records when it is constructed.        *)
Snapshot(t, s) ==
  /\ base'      = [base EXCEPT ![t] = mem[StoreOf(s)]]
  /\ txSession' = [txSession EXCEPT ![t] = s]

Begun(t) == tState[t] \notin {"unused", "beginning", "gone"}

(* create, update or delete of the store transaction, which knows nothing  *)
(* of the state of the provider's.                                         *)
TxWrite(t, k) ==
  /\ Begun(t)
  /\ wState[t] = "active"
  /\ k \notin touched[t]
  /\ touched' = [touched EXCEPT ![t] = @ \cup {k}]
  /\ UNCHANGED <<backend, connectionVars, dataVars, sessionVars, wState, base,
                 txVars, commitVars, callVars, flushVars, databaseVars, historyVars>>

Composed(t) == txSession[t] \in Sessions /\ owner[txSession[t]] = "composed"

\* A faulty variant: the session is closed after a success only.
ThenCloseOnSuccess(t) ==
  closing' = IF Composed(t) /\ answer'[t] \in {"committed", "rolled-back"}
             THEN closing \cup {t} ELSE closing

\* A composed transaction closes its session whatever the answer was.
ThenClose(t) == closing' = IF Composed(t) THEN closing \cup {t} ELSE closing

Race(t, other) == raced' = IF other # "none" THEN raced \cup {t} ELSE raced

(* The provider answers a commit of its store transaction.                 *)
Committed(t) ==
  /\ commitPc[t] = "ok"
  /\ commitPc' = [commitPc EXCEPT ![t] = "none"]
  /\ answer'   = [answer EXCEPT ![t] = "committed"]
  /\ tState'   = [tState EXCEPT ![t] = "committed"]
  /\ transactions' = transactions \ {t}
  /\ ThenClose(t)
  /\ UNCHANGED <<backend, connectionVars, dataVars, sessionVars, storeTxVars,
                 txSession, rollbackPc, callVars, flushVars, databaseVars,
                 historyVars>>

(* A failed commit leaves the transaction as it is; code is the provider's *)
(* error code for the failure of the store.                                *)
CommitFailed(t, code) ==
  /\ commitPc[t] \in {"conflict", "closed", "io"}
  /\ commitPc' = [commitPc EXCEPT ![t] = "none"]
  /\ answer'   = [answer EXCEPT ![t] = code]
  /\ ThenClose(t)
  /\ UNCHANGED <<backend, connectionVars, dataVars, sessionVars, storeTxVars,
                 txVars, rollbackPc, callVars, flushVars, databaseVars,
                 historyVars>>

(* commit or rollback of a transaction that is not active.                 *)
Refused(t) ==
  /\ tState[t] \in FinalStates
  /\ commitPc[t] = "none" /\ rollbackPc[t] = "none"
  /\ answer' = [answer EXCEPT ![t] = "transaction-closed"]
  /\ ThenClose(t)
  /\ UNCHANGED <<backend, connectionVars, dataVars, sessionVars, storeTxVars,
                 txVars, commitPc, rollbackPc, callVars, flushVars,
                 databaseVars, historyVars>>

\* A faulty variant: a rollback that a closed transaction accepts.
RollbackOfClosed(t) ==
  /\ tState[t] \in {"active", "closed"}
  /\ rollbackPc[t] = "none"
  /\ rollbackPc' = [rollbackPc EXCEPT ![t] = IF wState[t] = "active" THEN "ok" ELSE "closed"]
  /\ wState' = [wState EXCEPT ![t] = IF @ = "active" THEN "rolled-back" ELSE @]
  /\ Race(t, commitPc[t])
  /\ UNCHANGED <<backend, connectionVars, dataVars, sessionVars, base, touched,
                 txVars, commitPc, answer, closing, callVars, flushVars,
                 databaseVars, late, unsure, torn>>

(* rollback, up to the answer of the store transaction.  Bound: none of    *)
(* the transaction waits already.                                          *)
Rollback(t) ==
  /\ tState[t] = "active"
  /\ rollbackPc[t] = "none"
  /\ rollbackPc' = [rollbackPc EXCEPT ![t] = IF wState[t] = "active" THEN "ok" ELSE "closed"]
  /\ wState' = [wState EXCEPT ![t] = IF @ = "active" THEN "rolled-back" ELSE @]
  /\ Race(t, commitPc[t])
  /\ UNCHANGED <<backend, connectionVars, dataVars, sessionVars, base, touched,
                 txVars, commitPc, answer, closing, callVars, flushVars,
                 databaseVars, late, unsure, torn>>

RolledBack(t) ==
  /\ rollbackPc[t] = "ok"
  /\ rollbackPc' = [rollbackPc EXCEPT ![t] = "none"]
  /\ answer' = [answer EXCEPT ![t] = "rolled-back"]
  /\ tState' = [tState EXCEPT ![t] = "rolled-back"]
  /\ transactions' = transactions \ {t}
  /\ ThenClose(t)
  /\ UNCHANGED <<backend, connectionVars, dataVars, sessionVars, storeTxVars,
                 txSession, commitPc, callVars, flushVars, databaseVars,
                 historyVars>>

RollbackFailed(t) ==
  /\ rollbackPc[t] = "closed"
  /\ rollbackPc' = [rollbackPc EXCEPT ![t] = "none"]
  /\ answer' = [answer EXCEPT ![t] = "transaction-closed"]
  /\ ThenClose(t)
  /\ UNCHANGED <<backend, connectionVars, dataVars, sessionVars, storeTxVars,
                 txVars, commitPc, callVars, flushVars, databaseVars, historyVars>>

-----------------------------------------------------------------------------
(* The callers of sessions, and the composed store.                        *)

OpenSession(s, o) ==
  /\ BeginSession(s, o)
  /\ UNCHANGED <<backend, connectionVars, dataVars, storeTxVars, txVars,
                 commitVars, callVars, flushVars, databaseVars, historyVars>>

CloseSession(s) ==
  /\ sState[s] = "active"
  /\ owner[s] = "caller"
  /\ Close(s)
  /\ UNCHANGED <<backend, connectionVars, dataVars, storeTxVars, txVars,
                 commitVars, callVars, flushVars, databaseVars, historyVars>>

(* The finally block of a composed transaction's commit and rollback.      *)
CloseAfter(t) ==
  /\ t \in closing
  /\ Close(txSession[t])
  /\ closing' = closing \ {t}
  /\ UNCHANGED <<backend, connectionVars, dataVars, storeTxVars, txVars,
                 commitPc, rollbackPc, answer, callVars, flushVars,
                 databaseVars, historyVars>>

(* #withSession: open a session, run the write on its store, close it.     *)
CallOpen(c, s) ==
  /\ callPc[c] = "idle"
  /\ BeginSession(s, "composed")
  /\ callPc' = [callPc EXCEPT ![c] = "opened"]
  /\ callSession' = [callSession EXCEPT ![c] = s]
  /\ UNCHANGED <<backend, connectionVars, dataVars, storeTxVars, txVars,
                 commitVars, flushVars, databaseVars, historyVars>>

CallRefused(c) ==
  /\ callPc[c] = "idle"
  /\ ~connected
  /\ callPc' = [callPc EXCEPT ![c] = "rejected"]
  /\ UNCHANGED <<backend, connectionVars, dataVars, sessionVars, storeTxVars,
                 txVars, commitVars, callSession, flushVars, databaseVars,
                 historyVars>>

CallClose(c) ==
  /\ callPc[c] \in {"written", "failed"}
  /\ Close(callSession[c])
  /\ callPc' = [callPc EXCEPT ![c] = IF @ = "written" THEN "acked" ELSE "rejected"]
  /\ UNCHANGED <<backend, connectionVars, dataVars, storeTxVars, txVars,
                 commitVars, callSession, flushVars, databaseVars, historyVars>>
=============================================================================
