------------------------ MODULE PersistenceProviders ------------------------
(***************************************************************************)
(* A persistence provider of any of the three kinds, the runtime that      *)
(* starts and stops it, the composed store on top of it, and a process     *)
(* that may die.                                                           *)
(***************************************************************************)
EXTENDS MemoryProvider, FilesystemProvider, SqliteProvider

(* The runtime looks at the provider's state and connects or disconnects   *)
(* it in the same step; it does nothing when there is nothing to do.       *)
Start ==
  \/ backend = "memory"     /\ MemoryConnect
  \/ backend = "filesystem" /\ FsConnect
  \/ backend = "sqlite"     /\ SqliteConnect

Stop ==
  \/ backend = "memory"     /\ MemoryDisconnect
  \/ backend = "filesystem" /\ FsDisconnect
  \/ backend = "sqlite"     /\ SqliteDisconnect

(* The process dies: its objects are gone, the file or database stays.  A  *)
(* file being written is the old one or the new one, and a schema being    *)
(* created is cut short anywhere.                                          *)
Crash ==
  /\ backend # "memory"
  /\ connected' = FALSE /\ connects' = 0
  /\ flush' = "none"
  /\ disk' \in IF flush = "none" THEN {disk} ELSE {disk, cand}
  /\ schema' \in IF connects > 0 THEN SchemaReached ELSE {schema}
  /\ db' = "closed" /\ dangling' = FALSE
  /\ mem' = [e \in 0..MaxConnects |-> EmptyMap]
  /\ sState' = [s \in Sessions |-> IF sState[s] = "active" THEN "gone" ELSE sState[s]]
  /\ tState' = [t \in Txs |-> IF tState[t] = "active" THEN "gone" ELSE tState[t]]
  /\ sessions' = {} /\ transactions' = {} /\ closing' = {}
  /\ commitPc'   = [t \in Txs |-> "none"]
  /\ rollbackPc' = [t \in Txs |-> "none"]
  /\ callPc' = [c \in Calls |-> IF callPc[c] \in {"idle", "acked", "rejected"}
                                THEN callPc[c] ELSE "gone"]
  /\ UNCHANGED <<backend, epoch, overlapped, cand, sEpoch, owner, storeTxVars,
                 txSession, answer, callSession, historyVars>>

(* The steps every provider shares.                                        *)
SessionStep ==
  \/ \E s \in Sessions : (\E o \in Owners : OpenSession(s, o)) \/ CloseSession(s)
  \/ \E t \in Txs : CloseAfter(t)

TransactionStep ==
  \/ \E t \in Txs, k \in Keys : TxWrite(t, k)
  \/ \E t \in Txs : \/ Committed(t)  \/ Refused(t)
                    \/ Rollback(t)   \/ RolledBack(t) \/ RollbackFailed(t)

CallStep ==
  \E c \in Calls : \/ \E s \in Sessions : CallOpen(c, s)
                   \/ CallRefused(c) \/ CallClose(c)

Next ==
  \/ Start \/ Stop \/ Crash
  \/ SessionStep \/ TransactionStep \/ CallStep
  \/ MemoryNext \/ FilesystemNext \/ SqliteNext

Spec == Init /\ [][Next]_vars

-----------------------------------------------------------------------------
(* Properties.                                                             *)

TypeOK ==
  /\ backend \in Backends
  /\ connected \in BOOLEAN /\ epoch \in 0..MaxConnects
  /\ connects \in 0..MaxConnecting /\ overlapped \in BOOLEAN
  /\ mem \in [0..MaxConnects -> RecordMap] /\ disk \in RecordMap
  /\ sState \in [Sessions -> SessionStates]
  /\ sEpoch \in [Sessions -> 0..MaxConnects]
  /\ owner \in [Sessions -> Owners]
  /\ tState \in [Txs -> TxStates] /\ wState \in [Txs -> InnerStates]
  /\ txSession \in [Txs -> Sessions \cup {NoSession}]
  /\ base \in [Txs -> RecordMap] /\ touched \in [Txs -> SUBSET Keys]
  /\ sessions \subseteq Sessions /\ transactions \subseteq Txs
  /\ commitPc \in [Txs -> CommitSteps] /\ rollbackPc \in [Txs -> RollbackSteps]
  /\ answer \in [Txs -> Answers] /\ closing \subseteq Txs
  /\ callPc \in [Calls -> CallSteps]
  /\ callSession \in [Calls -> Sessions \cup {NoSession}]
  /\ flush \in {"none", "connect", "disconnect"} \cup Writers
  /\ cand \in RecordMap
  /\ db \in {"open", "closed"} /\ dangling \in BOOLEAN /\ schema \in SchemaStages
  /\ late \subseteq Txs /\ raced \subseteq Txs /\ unsure \subseteq Writers
  /\ torn \in BOOLEAN

(* The provider's two sets hold exactly the sessions and transactions that *)
(* are active: nothing that must be closed on disconnect is missed, and    *)
(* nothing that has ended is kept.                                         *)
RegisteredAreActive ==
  /\ \A s \in Sessions : s \in sessions <=> sState[s] = "active"
  /\ \A t \in Txs : t \in transactions <=> tState[t] = "active"

(* A session or transaction that is active belongs to the connection in    *)
(* force: none outlives a disconnect.  The exception is a transaction      *)
(* whose begin was waiting while its session was closed.                   *)
ActiveBelongToConnection ==
  /\ \A s \in Sessions : sState[s] = "active" => connected /\ sEpoch[s] = epoch
  /\ \A t \in Txs : tState[t] = "active" /\ t \notin late =>
                      connected /\ sEpoch[txSession[t]] = epoch

(* The composed store closes the sessions it opens: when a call has        *)
(* returned, and when a commit or rollback has, whatever the answer.       *)
ComposedSessionsClosed ==
  /\ \A c \in Calls : callPc[c] \in {"acked", "rejected"} /\ callSession[c] # NoSession
                        => sState[callSession[c]] # "active"
  /\ \A t \in Txs : Composed(t) /\ answer[t] # "none" /\ t \notin closing
                        => sState[txSession[t]] # "active"

\* The records of a writer are among those readers see, or those on disk.
Left(w) ==
  \E k \in Keys : disk[k].writer = w \/ \E e \in 0..MaxConnects : mem[e][k].writer = w

(* A transaction that was rolled back, or closed by a disconnect, and a    *)
(* call that was rejected, leave nothing behind, in memory or on disk.     *)
(* Two ways out: the commit met the rollback or the disconnect, or writing *)
(* the file failed after it had been replaced.                             *)
NothingLeftBehind ==
  /\ \A t \in Txs \ (raced \cup unsure) :
       tState[t] \in {"rolled-back", "closed"} => ~Left(t)
  /\ \A c \in Calls \ unsure : callPc[c] = "rejected" => ~Left(c)

(* What readers of a connected provider see is what a restart would load.  *)
(* They may differ after a write of the file has failed, and agree again   *)
(* after the next one that succeeds.                                       *)
ReadersSeeDisk == connected /\ backend # "memory" /\ ~torn => mem[0] = disk

(* The last answer a caller got for a transaction tells its state, once no *)
(* call is in progress on it: after a conflict or an I/O failure it can be *)
(* tried again, unless a disconnect or a crash has ended it since; after   *)
(* "transaction-closed" it cannot. There are two exceptions. The in-memory *)
(* provider reports a conflict as "transaction-closed". And nothing is     *)
(* said of a transaction on which a commit met a rollback or a disconnect  *)
(* (raced). There it is false: a rollback that comes while the file is     *)
(* written for a commit ends the transaction and is answered with success; *)
(* when the write fails, the commit is answered last, with an I/O failure, *)
(* although the transaction cannot be tried again.                         *)
AnswerTellsState ==
  \A t \in Txs : commitPc[t] = "none" /\ rollbackPc[t] = "none" /\ t \notin raced =>
    /\ answer[t] = "committed"   => tState[t] = "committed"
    /\ answer[t] = "rolled-back" => tState[t] = "rolled-back"
    /\ answer[t] \in {"version-conflict", "io-failure"} =>
         tState[t] \in {"active", "closed", "gone"}
    /\ answer[t] = "transaction-closed" =>
         backend = "memory" \/ tState[t] \in FinalStates

(* The outcome of a transaction does not change any more, unless a commit  *)
(* met a rollback or a disconnect: ResourceRegistry, for the transactions. *)
OutcomeIsFinal ==
  [][\A t \in Txs \ raced : tState[t] \in FinalStates => tState'[t] = tState[t]]_vars

(* A provider keeps the promise of ResourceRegistry for its sessions and   *)
(* its transactions.  A transaction that is beginning is not open yet; one *)
(* on which a commit met a rollback or a disconnect, or whose session was  *)
(* closed while it was beginning, is disputed.                             *)
Resources == {"session"} \X Sessions \cup {"transaction"} \X Txs

TransactionState(t) ==
  IF t \in raced \cup late THEN "disputed"
  ELSE IF tState[t] = "beginning" THEN "unused" ELSE tState[t]

ResourceState ==
  [r \in Resources |->
     IF r[1] = "session" THEN sState[r[2]] ELSE TransactionState(r[2])]

Registry == INSTANCE ResourceRegistry WITH
  Disputable <- {"transaction"} \X Txs,
  state      <- ResourceState

ImplementsRegistry == Registry!Spec

(* A connected SQLite provider has its database open.  A connect that      *)
(* fails while another one succeeded closes the database of the other.     *)
ConnectedHasDatabase ==
  backend = "sqlite" /\ connected /\ ~overlapped => db = "open"

(* A database that was connected to once can be connected to again: the    *)
(* schema is cut short only before the first connect has succeeded.        *)
SchemaStaysUsable == backend = "sqlite" /\ epoch > 0 => SchemaUsable
=============================================================================
