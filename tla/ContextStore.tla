---------------------------- MODULE ContextStore ----------------------------
(***************************************************************************)
(* The in-memory context store and its transactions.                       *)
(*                                                                         *)
(* A transaction copies the whole record map twice when it begins: once as *)
(* the base its commit compares versions with, once as the working copy    *)
(* its writes go to.  Commit replaces the store's map by the working copy. *)
(*                                                                         *)
(* Everything in the store runs on one JavaScript thread, so a call is     *)
(* atomic up to its first await.  A write inside a transaction has one:    *)
(* the working copy changes at once, while the key is put into the touched *)
(* set, and the revision raised, only in the continuation of the await.    *)
(* `pending` holds the continuations that have not run yet.                *)
(***************************************************************************)
EXTENDS StoreRecords, Sequences

CONSTANTS
  Txs,         \* transaction objects, each begun at most once
  Callers,     \* whoever calls the store directly, outside transactions
  Versions,    \* the expected versions callers pass
  MaxSerial    \* bound: writes one writer may complete

ASSUME WritersAssumption  == Writers = Txs \cup Callers /\ Txs \cap Callers = {}
ASSUME VersionsAssumption == Versions \subseteq Nat
ASSUME BoundAssumption    == MaxSerial \in Nat

VARIABLES
  records,     \* StoreState.records
  revision,    \* StoreState.revision
  serial,      \* how many writes each writer has completed
  state,       \* #state of each transaction, "unused" before it begins
  id,          \* the number in #id of each transaction
  base,        \* #baseRecords
  working,     \* #workingRecords
  touched,     \* #touched
  txRevision,  \* #revision of each transaction
  pending,     \* awaited writes whose continuation has not run
  hasty        \* history: some commit overtook a write of its own transaction

storeVars == <<records, revision>>
txVars    == <<state, id, base, working, touched, txRevision, pending>>
vars      == <<records, revision, serial, state, id, base, working, touched,
               txRevision, pending, hasty>>

States == {"unused", "active", "committed", "rolled-back"}

Closed == {"committed", "rolled-back"}

Continuation == [key : Keys, version : Nat]

Maximum(m, n) == IF m < n THEN n ELSE m

Init ==
  /\ records    = EmptyMap
  /\ revision   = 0
  /\ serial     = [w \in Writers |-> 0]
  /\ state      = [t \in Txs |-> "unused"]
  /\ id         = [t \in Txs |-> 0]
  /\ base       = [t \in Txs |-> EmptyMap]
  /\ working    = [t \in Txs |-> EmptyMap]
  /\ touched    = [t \in Txs |-> {}]
  /\ txRevision = [t \in Txs |-> 0]
  /\ pending    = [t \in Txs |-> << >>]
  /\ hasty      = FALSE

-----------------------------------------------------------------------------
(* Faulty variants of the definitions below.  Nothing uses them: each is   *)
(* what a definition would be with a plausible bug, and the project file   *)
(* names the property that catches it.                                     *)

\* A rollback that uses the state name of the persistence layer.
RollbackToClosedState(t) ==
  /\ state[t] = "active"
  /\ state' = [state EXCEPT ![t] = "closed"]
  /\ UNCHANGED <<storeVars, serial, id, base, working, touched, txRevision,
                 pending, hasty>>

\* A rollback that only refuses a transaction already rolled back.
RollbackOfCommitted(t) ==
  /\ state[t] \in {"active", "committed"}
  /\ state' = [state EXCEPT ![t] = "rolled-back"]
  /\ UNCHANGED <<storeVars, serial, id, base, working, touched, txRevision,
                 pending, hasty>>

\* A commit that installs the working copy before it looks for conflicts.
CommitBeforeCheck(t) ==
  /\ state[t] = "active"
  /\ records'  = working[t]
  /\ revision' = txRevision[t]
  /\ state'    = IF \A k \in touched[t] : base[t][k].version = records[k].version
                   THEN [state EXCEPT ![t] = "committed"]
                   ELSE state
  /\ hasty'    = (hasty \/ pending[t] # << >>)
  /\ UNCHANGED <<serial, id, base, working, touched, txRevision, pending>>

\* A conflict check that only notices keys that came or went.
ConflictsByPresence(t) == {k \in touched[t] : Has(base[t], k) # Has(records, k)}

\* A continuation that does not mark its key.
SettleWithoutKey(t) ==
  /\ pending[t] # << >>
  /\ txRevision' = [txRevision EXCEPT ![t] = Maximum(@, Head(pending[t]).version)]
  /\ pending'    = [pending EXCEPT ![t] = Tail(@)]
  /\ UNCHANGED <<storeVars, serial, state, id, base, working, touched, hasty>>

\* A continuation that does not raise the transaction's revision.
SettleWithoutRevision(t) ==
  /\ pending[t] # << >>
  /\ touched' = [touched EXCEPT ![t] = @ \cup {Head(pending[t]).key}]
  /\ pending' = [pending EXCEPT ![t] = Tail(@)]
  /\ UNCHANGED <<storeVars, serial, state, id, base, working, txRevision, hasty>>

-----------------------------------------------------------------------------
(* Direct calls on the store.                                              *)

(* options.expected_version: absent, or one of the versions callers know.  *)
Expectations == {{}} \cup {{v} : v \in Versions}

(* create, update or delete, called outside any transaction.               *)
Write(c, op, k) ==
  /\ serial[c] < MaxSerial
  /\ \E expected \in Expectations : Accepts(records, op, k, expected)
  /\ records'  = [records EXCEPT
                    ![k] = Written(records, op, k, c, serial[c] + 1)]
  /\ revision' = revision + 1
  /\ serial'   = [serial EXCEPT ![c] = @ + 1]
  /\ UNCHANGED <<txVars, hasty>>

-----------------------------------------------------------------------------
(* Transactions.                                                           *)

(* beginTransaction: the constructor copies the map and takes the number   *)
(* after the store's revision for its id.                                  *)
Begin(t) ==
  /\ state[t] = "unused"
  /\ state'      = [state EXCEPT ![t] = "active"]
  /\ id'         = [id EXCEPT ![t] = revision + 1]
  /\ base'       = [base EXCEPT ![t] = records]
  /\ working'    = [working EXCEPT ![t] = records]
  /\ txRevision' = [txRevision EXCEPT ![t] = revision]
  /\ UNCHANGED <<storeVars, serial, touched, pending, hasty>>

(* create, update or delete on t, up to the await.                         *)
TxWrite(t, op, k) ==
  /\ serial[t] < MaxSerial
  /\ state[t] = "active"
  /\ \E expected \in Expectations : Accepts(working[t], op, k, expected)
  /\ working' = [working EXCEPT
                   ![t] = [@ EXCEPT
                     ![k] = Written(working[t], op, k, t, serial[t] + 1)]]
  /\ pending' = [pending EXCEPT
                   ![t] = Append(@, [key     |-> k,
                                     version |-> ReturnedVersion(working[t], op, k)])]
  /\ serial'  = [serial EXCEPT ![t] = @ + 1]
  /\ UNCHANGED <<storeVars, state, id, base, touched, txRevision, hasty>>

(* The continuation of the oldest awaited write of t.  It runs whatever    *)
(* the state of t has become meanwhile.                                    *)
Settle(t) ==
  /\ pending[t] # << >>
  /\ touched'    = [touched EXCEPT ![t] = @ \cup {Head(pending[t]).key}]
  /\ txRevision' = [txRevision EXCEPT ![t] = Maximum(@, Head(pending[t]).version)]
  /\ pending'    = [pending EXCEPT ![t] = Tail(@)]
  /\ UNCHANGED <<storeVars, serial, state, id, base, working, hasty>>

(* A touched key whose version moved since t began.                        *)
Conflicts(t) == {k \in touched[t] : base[t][k].version # records[k].version}

(* commit.  With a conflict it returns version-conflict, changes nothing   *)
(* and leaves the transaction active.                                      *)
Commit(t) ==
  /\ state[t] = "active"
  /\ Conflicts(t) = {}
  /\ records'  = working[t]
  /\ revision' = txRevision[t]
  /\ state'    = [state EXCEPT ![t] = "committed"]
  /\ hasty'    = (hasty \/ pending[t] # << >>)
  /\ UNCHANGED <<serial, id, base, working, touched, txRevision, pending>>

Rollback(t) ==
  /\ state[t] = "active"
  /\ state' = [state EXCEPT ![t] = "rolled-back"]
  /\ UNCHANGED <<storeVars, serial, id, base, working, touched, txRevision,
                 pending, hasty>>

-----------------------------------------------------------------------------
DirectStep(c) == \E op \in Operations, k \in Keys : Write(c, op, k)

TxStep(t) ==
  \/ Begin(t)
  \/ \E op \in Operations, k \in Keys : TxWrite(t, op, k)
  \/ Settle(t)
  \/ Commit(t)
  \/ Rollback(t)

Next ==
  \/ \E c \in Callers : DirectStep(c)
  \/ \E t \in Txs : TxStep(t)

Spec == Init /\ [][Next]_vars

-----------------------------------------------------------------------------
(* Properties.                                                             *)

(* Every variable keeps the shape of the field it stands for.              *)
TypeOK ==
  /\ records    \in RecordMap
  /\ revision   \in Nat
  /\ serial     \in [Writers -> Nat]
  /\ state      \in [Txs -> States]
  /\ id         \in [Txs -> Nat]
  /\ base       \in [Txs -> RecordMap]
  /\ working    \in [Txs -> RecordMap]
  /\ touched    \in [Txs -> SUBSET Keys]
  /\ txRevision \in [Txs -> Nat]
  /\ pending    \in [Txs -> Seq(Continuation)]
  /\ hasty      \in BOOLEAN

(* A transaction's writes are invisible until it commits, and for ever if  *)
(* it rolls back or fails to commit: neither the store nor another         *)
(* transaction's copy holds a record written by a transaction that is not  *)
(* committed.                                                              *)
NoDirtyRead ==
  \A k \in Keys, t \in Txs :
    state[t] # "committed" =>
      /\ records[k].writer # t
      /\ \A u \in Txs \ {t} : working[u][k].writer # t

(* t has touched k, or will when the await of a write has resumed.         *)
Marked(t, k) ==
  \/ k \in touched[t]
  \/ \E i \in 1 .. Len(pending[t]) : pending[t][i].key = k

(* A transaction reads the snapshot it began with, changed by its own      *)
(* writes alone, whatever is committed beside it: a working record that    *)
(* differs from the base one was written, or removed, by the transaction,  *)
(* and commit will compare its key (now, or once the await has resumed).   *)
SnapshotPlusOwnWrites ==
  \A t \in Txs, k \in Keys :
    working[t][k] # base[t][k] =>
      /\ working[t][k] = Absent \/ working[t][k].writer = t
      /\ Marked(t, k)

(* As long as no commit has overtaken a write of its own transaction, no   *)
(* record has a version above the revision of the store that holds it.     *)
(* Commit installs the transaction's revision with its whole working copy: *)
(* the revision must have caught up with every record in it.               *)
RevisionCoversVersions ==
  ~hasty => \A k \in Keys : records[k].version <= revision

Commits(t) == state[t] = "active" /\ state'[t] = "committed"

(* Commit detects optimistic conflicts: when a transaction whose writes    *)
(* have all been awaited commits, no key it changes has another version    *)
(* than the one the transaction began with.  This is part of the promise   *)
(* of SnapshotStore below, and the proofs state it by itself.              *)
ConflictsDetected ==
  [][\A t \in Txs : Commits(t) /\ pending[t] = << >> =>
       \A k \in Keys : working[t][k] # base[t][k] =>
         records[k].version = base[t][k].version]_vars

(* A transaction that has committed or rolled back stays so, and its       *)
(* working copy is frozen: a write that was awaiting when it closed may    *)
(* still mark its key, and nothing else.  The proofs state this by itself, *)
(* too.                                                                    *)
ClosedIsFinal ==
  [][\A t \in Txs : state[t] \in Closed =>
       state'[t] = state[t] /\ working'[t] = working[t]]_vars

(* A transaction's copies as SnapshotStore has them: there are none when   *)
(* it is not open.                                                         *)
Open(t, map) == IF state[t] = "active" THEN map ELSE EmptyMap

OpenBase == [t \in Txs |-> Open(t, base[t])]
OpenCopy == [t \in Txs |-> Open(t, working[t])]
Awaiting == {t \in Txs : pending[t] # << >>}

Snapshots == INSTANCE SnapshotStore WITH
  None <- EmptyMap, base <- OpenBase, copy <- OpenCopy, awaiting <- Awaiting

(* The store keeps the promise of SnapshotStore: atomic commits of private *)
(* copies, which undo no version the transaction has not seen on the keys  *)
(* it changes, and transactions that have no effect once they have ended.  *)
ImplementsSnapshots == Snapshots!Spec

(* Commit applies the staged writes: the keys the transaction did not      *)
(* write keep what others have put there since it began.                   *)
CommitAppliesStagedWrites ==
  [][\A t \in Txs : Commits(t) =>
       \A k \in Keys : working[t][k] = base[t][k] =>
         records'[k] = records[k]]_vars

(* Conflict detection over contents: a commit, its writes awaited, that    *)
(* changes a key replaces exactly the record the transaction began with,   *)
(* not one that merely carries the same version.                           *)
CommitReplacesWhatItRead ==
  [][\A t \in Txs : Commits(t) /\ pending[t] = << >> =>
       \A k \in Keys : working[t][k] # base[t][k] =>
         records[k] = base[t][k]]_vars

=============================================================================
