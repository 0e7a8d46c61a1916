------------------------------- MODULE ApiHost -------------------------------
(***************************************************************************)
(* The API host and the context service: requests on the context store,    *)
(* and transactions that clients address by the id of the store            *)
(* transaction.  The host keeps a map from ids to transactions: an entry   *)
(* is set when beginTransaction has returned, and deleted when a commit or *)
(* a rollback has returned with success.  Ids are the revision of the      *)
(* store plus one, so transactions may have the same id.                   *)
(*                                                                         *)
(* The service wraps the composed store over the in-memory provider, and   *)
(* what this module says is said of that provider only.  Its store checks  *)
(* for conflicts, replaces the records and ends the transaction without    *)
(* letting other code in; the filesystem and the SQLite provider do let    *)
(* other requests in between, and there some of it fails: that is in       *)
(* PersistenceProviders.                                                   *)
(*                                                                         *)
(* The host looks a transaction up and calls its commit or its rollback in *)
(* one go, so the request takes effect in the step that looks up, and      *)
(* returns in a later one.  A disconnect gives up the store, a connect     *)
(* builds a new, empty one, and what was begun on a store stays with it.   *)
(***************************************************************************)
EXTENDS ContextQuery, ToolRequests

CONSTANTS
  Txs,          \* clients, each of which begins one transaction
  Calls,        \* calls of tools, which write outside transactions
  NoTx,         \* no transaction
  PageLimit,    \* the limit of the query that is paged through
  MaxRestarts   \* bound: how often the provider is connected again

ASSUME WritersAssumption  == Writers = Txs \cup Calls /\ Txs \cap Calls = {}
ASSUME NoTxAssumption     == NoTx \notin Txs
ASSUME PageAssumption     == PageLimit \in Nat \ {0}
ASSUME RestartsAssumption == MaxRestarts \in Nat

Finishes == {"commit", "rollback"}

\* The requests that finish a transaction: a client may send both at once.
Requests == Txs \X Finishes

\* The stores the provider has had, and the current one, if it is connected.
Stores == 0..MaxRestarts

VARIABLES
  records, revision,  \* of each store
  connected,          \* whether the provider is connected
  restarts,           \* how often it was connected again: its latest store
  id, at,             \* the id of each transaction, and its store
  tState,             \* the state of each transaction
  base, working,      \* its two copies of the records
  awaiting,           \* the writes of transactions that have not resumed yet
  held,               \* the transactions in the host's map, one for an id
  begin,              \* the begin request of each client
  finish,             \* the outcome each finishing request is to return
  target,             \* the transaction each has looked up
  answer,             \* how each was last answered
  shared,             \* history: transactions that shared an id in the map
  scan,               \* the client that pages through a query
  scanned             \* history: what changed while it did

storeVars == <<records, revision>>
providerVars == <<connected, restarts>>
txVars == <<id, at, tState, base, working, awaiting>>
hostVars == <<held, begin, finish, target, answer, shared>>
scanVars == <<scan, scanned>>
apiVars == <<storeVars, providerVars, txVars, hostVars, scanVars>>

-----------------------------------------------------------------------------
TxStates    == {"unused", "active", "committed", "rolled-back", "closed"}
BeginSteps  == {"idle", "opened", "begun", "told"}
FinishSteps == {"idle", "ok", "transaction-closed"}
Answers     == {"none", "ok"} \cup ApiErrors

Stored(keys) ==
  [k \in Keys |-> IF k \in keys THEN [version |-> 1, writer |-> Nobody, serial |-> 0]
                                ELSE Absent]

ApiInit ==
  /\ \E keys \in SUBSET Keys :
       /\ records  = [s \in Stores |-> IF s = 0 THEN Stored(keys) ELSE EmptyMap]
       /\ revision = [s \in Stores |-> IF s = 0 THEN Cardinality(keys) ELSE 0]
  /\ connected = TRUE /\ restarts = 0
  /\ id     = [t \in Txs |-> 0]
  /\ at     = [t \in Txs |-> 0]
  /\ tState = [t \in Txs |-> "unused"]
  /\ base    = [t \in Txs |-> EmptyMap]
  /\ working = [t \in Txs |-> EmptyMap]
  /\ awaiting = {}
  /\ held   = {}
  /\ begin  = [t \in Txs |-> "idle"]
  /\ finish = [r \in Requests |-> "idle"]
  /\ target = [r \in Requests |-> NoTx]
  /\ answer = [r \in Requests |-> "none"]
  /\ shared = {}
  /\ scan    = [step |-> "idle", offset |-> 0, got |-> [k \in Keys |-> 0]]
  /\ scanned = [start |-> {}, removed |-> FALSE, added |-> FALSE]

-----------------------------------------------------------------------------
(* The stores.                                                             *)

\* What a request outside transactions finds.
Visible == IF connected THEN records[restarts] ELSE EmptyMap

\* A change of what is visible, as the client that is paging meets it.
Noticed(map) == [scanned EXCEPT
  !.removed = @ \/ \E k \in Keys : Has(Visible, k) /\ ~Has(map, k),
  !.added   = @ \/ \E k \in Keys : ~Has(Visible, k) /\ Has(map, k)]

StoreBecomes(s, map) ==
  /\ records' = [records EXCEPT ![s] = map]
  /\ scanned' = IF connected /\ s = restarts THEN Noticed(map) ELSE scanned

\* The error of a write, or "ok".
WriteOutcome(map, o, k, expected) ==
  CASE Accepts(map, o, k, expected) -> "ok"
    [] o = "create" /\ ~Expects(expected, 0) -> "version-conflict"
    [] o = "create" /\ Expects(expected, 0) /\ Has(map, k) -> "duplicate-key"
    [] o # "create" /\ ~Has(map, k) -> "not-found"
    [] o # "create" /\ Has(map, k) /\ ~Expects(expected, map[k].version) ->
         "version-conflict"

Changed(t) == {k \in Keys : working[t][k] # base[t][k]}

\* A key is marked as touched when the write resumes, after its await.
Touched(t) == {k \in Changed(t) : <<t, k>> \notin awaiting}

\* A faulty variant: a conflict is a key that came or went.
ConflictsByPresence(t) == {k \in Touched(t) : Has(base[t], k) # Has(records[at[t]], k)}

Conflicts(t) == {k \in Touched(t) : base[t][k].version # records[at[t]][k].version}

\* The versions the writes of t returned.
Returned(t) ==
  {IF Has(working[t], k) THEN working[t][k].version ELSE base[t][k].version :
     k \in Touched(t)}

\* The revision of t: that of the store when it began, or a later version.
TxRevision(t) ==
  CHOOSE n \in Returned(t) \cup {id[t] - 1} :
    \A m \in Returned(t) \cup {id[t] - 1} : m <= n

-----------------------------------------------------------------------------
(* context.transaction.begin.  The store transaction copies the records;   *)
(* the provider registers it after an await, whatever happened meanwhile.  *)

Begin(c) ==
  /\ begin[c] = "idle"
  /\ connected
  /\ begin'   = [begin EXCEPT ![c] = "opened"]
  /\ id'      = [id EXCEPT ![c] = revision[restarts] + 1]
  /\ at'      = [at EXCEPT ![c] = restarts]
  /\ tState'  = [tState EXCEPT ![c] = "active"]
  /\ base'    = [base EXCEPT ![c] = Visible]
  /\ working' = [working EXCEPT ![c] = Visible]
  /\ UNCHANGED <<storeVars, providerVars, awaiting, held, finish, target, answer,
                 shared, scanVars>>

BeginRegistered(c) ==
  /\ begin[c] = "opened"
  /\ begin' = [begin EXCEPT ![c] = "begun"]
  /\ UNCHANGED <<storeVars, providerVars, txVars, held, finish, target, answer,
                 shared, scanVars>>

\* The map: an id leads to at most one transaction.
LookUp(i)    == {t \in held : id[t] = i}
Without(i)   == {t \in held : id[t] # i}
With(c)      == Without(id[c]) \cup {c}

\* The other transactions of the same id that are in the map, or whose
\* entry is about to be deleted.
Rivals(c) ==
  {t \in Txs \ {c} : id[t] = id[c] /\ (t \in held \/ \E r \in Requests : target[r] = t)}

BeginReturns(c) ==
  /\ begin[c] = "begun"
  /\ begin'  = [begin EXCEPT ![c] = "told"]
  /\ held'   = With(c)
  /\ shared' = IF Rivals(c) = {} THEN shared ELSE shared \cup Rivals(c) \cup {c}
  /\ UNCHANGED <<storeVars, providerVars, txVars, finish, target, answer, scanVars>>

(* context.transaction.create, update and delete: the write of client c    *)
(* lands in the transaction its handle leads to.  The store transaction    *)
(* does not notice a disconnect; the marks of one that is closed matter to *)
(* nobody.  Bounds: one write per key and transaction, and no expected     *)
(* version.                                                                *)
TxWrite(c, o, k) ==
  /\ begin[c] = "told"
  /\ \E t \in LookUp(id[c]) :
       /\ tState[t] \in {"active", "closed"}
       /\ k \notin Changed(t)
       /\ Accepts(working[t], o, k, {})
       /\ working'  = [working EXCEPT ![t][k] = Written(working[t], o, k, c, 1)]
       /\ awaiting' = IF tState[t] = "active" THEN awaiting \cup {<<t, k>>} ELSE awaiting
  /\ UNCHANGED <<storeVars, providerVars, id, at, tState, base, hostVars, scanVars>>

(* The write resumes, marks the key, and is answered.                      *)
TxWriteResumes(t, k) ==
  /\ <<t, k>> \in awaiting
  /\ awaiting' = awaiting \ {<<t, k>>}
  /\ UNCHANGED <<storeVars, providerVars, id, at, tState, base, working, hostVars,
                 scanVars>>

-----------------------------------------------------------------------------
(* context.transaction.commit and rollback.                                *)

\* The request of r reaches the transaction t, which decides the outcome.
Finish(r, t, outcome) ==
  /\ begin[r[1]] = "told"
  /\ finish[r] = "idle"
  /\ t \in LookUp(id[r[1]])
  /\ finish' = [finish EXCEPT ![r] = outcome]
  /\ target' = [target EXCEPT ![r] = t]
  /\ answer' = [answer EXCEPT ![r] = "none"]
  /\ UNCHANGED <<providerVars, id, at, awaiting, held, begin, shared, scan>>

(* The handle is unknown, or was forgotten.                                *)
FinishUnknown(r) ==
  /\ begin[r[1]] = "told"
  /\ finish[r] = "idle"
  /\ LookUp(id[r[1]]) = {}
  /\ answer' = [answer EXCEPT ![r] = "api.not_found"]
  /\ UNCHANGED <<storeVars, providerVars, txVars, held, begin, finish,
                 target, shared, scanVars>>

\* The end of a transaction that is active; its copies are not read again.
End(t, state) ==
  /\ tState[t] = "active"
  /\ tState'  = [tState EXCEPT ![t] = state]
  /\ base'    = [base EXCEPT ![t] = EmptyMap]
  /\ working' = [working EXCEPT ![t] = EmptyMap]

Commit(r, t) ==
  /\ r[2] = "commit"
  /\ Finish(r, t, "ok")
  /\ Conflicts(t) = {}
  /\ End(t, "committed")
  /\ StoreBecomes(at[t], working[t])
  /\ revision' = [revision EXCEPT ![at[t]] = TxRevision(t)]

(* The in-memory provider has one code for all failures of a commit.  The  *)
(* transaction stays active.                                               *)
CommitConflicts(r, t) ==
  /\ r[2] = "commit"
  /\ Finish(r, t, "transaction-closed")
  /\ tState[t] = "active"
  /\ Conflicts(t) # {}
  /\ UNCHANGED <<storeVars, tState, base, working, scanned>>

Rollback(r, t) ==
  /\ r[2] = "rollback"
  /\ Finish(r, t, "ok")
  /\ End(t, "rolled-back")
  /\ UNCHANGED <<storeVars, scanned>>

(* The transaction has ended, or a disconnect closed it.                   *)
FinishClosed(r, t) ==
  /\ Finish(r, t, "transaction-closed")
  /\ tState[t] # "active"
  /\ UNCHANGED <<storeVars, tState, base, working, scanned>>

\* A faulty variant: the entry is deleted whatever the answer.
ForgetAlways(r) == Without(id[target[r]])

\* The entry of the id is deleted after a success, whoever's it is by then.
Forget(r) == IF finish[r] = "ok" THEN Without(id[target[r]]) ELSE held

\* A faulty variant: the request keeps the transaction it has looked up.
FinishReturnsKeepingTarget(r) ==
  /\ finish[r] # "idle"
  /\ held'   = Forget(r)
  /\ answer' = [answer EXCEPT
       ![r] = IF finish[r] = "ok" THEN "ok" ELSE ApiError(ServiceError(finish[r]))]
  /\ finish' = [finish EXCEPT ![r] = "idle"]
  /\ UNCHANGED <<storeVars, providerVars, txVars, begin, target, shared, scanVars>>

FinishReturns(r) ==
  /\ finish[r] # "idle"
  /\ held'   = Forget(r)
  /\ answer' = [answer EXCEPT
       ![r] = IF finish[r] = "ok" THEN "ok" ELSE ApiError(ServiceError(finish[r]))]
  /\ finish' = [finish EXCEPT ![r] = "idle"]
  /\ target' = [target EXCEPT ![r] = NoTx]
  /\ UNCHANGED <<storeVars, providerVars, txVars, begin, shared, scanVars>>

-----------------------------------------------------------------------------
(* The provider is disconnected, which closes the transactions that are    *)
(* registered, and connected again.  The host is told of neither.          *)

Stop ==
  /\ connected
  /\ restarts < MaxRestarts
  /\ connected' = FALSE
  /\ tState' = [t \in Txs |-> IF tState[t] = "active" /\ begin[t] # "opened"
                                THEN "closed" ELSE tState[t]]
  /\ scanned' = Noticed(EmptyMap)
  /\ UNCHANGED <<storeVars, restarts, id, at, base, working, awaiting, hostVars, scan>>

Start ==
  /\ ~connected
  /\ connected' = TRUE
  /\ restarts'  = restarts + 1
  /\ UNCHANGED <<storeVars, txVars, hostVars, scanVars>>

-----------------------------------------------------------------------------
(* A client that pages through all records, in the order of their keys,    *)
(* asking for next_offset until has_more is false.  Bound: no disconnect    *)
(* comes between the session of a page and its query.                      *)

PageQuery == Query(Keys, Nat, DefaultOrder, {PageLimit}, scan.offset)

ScanStart ==
  /\ scan.step = "idle"
  /\ scan'    = [scan EXCEPT !.step = "paging"]
  /\ scanned' = [start |-> {k \in Keys : Has(Visible, k)},
                 removed |-> FALSE, added |-> FALSE]
  /\ UNCHANGED <<storeVars, providerVars, txVars, hostVars>>

ScanPage ==
  /\ scan.step = "paging"
  /\ connected
  /\ scan' = [step   |-> IF HasMore(Visible, PageQuery) THEN "paging" ELSE "done",
              offset |-> NextOffset(Visible, PageQuery),
              got    |-> [k \in Keys |-> IF k \in Items(Visible, PageQuery)
                                           THEN scan.got[k] + 1 ELSE scan.got[k]]]
  /\ UNCHANGED <<storeVars, providerVars, txVars, hostVars, scanned>>

-----------------------------------------------------------------------------
ApiNext ==
  \/ \E c \in Txs : Begin(c) \/ BeginRegistered(c) \/ BeginReturns(c)
  \/ \E c \in Txs, o \in Operations, k \in Keys : TxWrite(c, o, k)
  \/ \E t \in Txs, k \in Keys : TxWriteResumes(t, k)
  \/ \E r \in Requests, t \in Txs : \/ Commit(r, t)   \/ CommitConflicts(r, t)
                                   \/ Rollback(r, t) \/ FinishClosed(r, t)
  \/ \E r \in Requests : FinishUnknown(r) \/ FinishReturns(r)
  \/ Stop \/ Start
  \/ ScanStart \/ ScanPage
=============================================================================
