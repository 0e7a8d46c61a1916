-------------------------- MODULE ExecutionRecords --------------------------
(***************************************************************************)
(* The execution repositories and the recovery service of                  *)
(* @host/integration-execution-persistence.  A repository keeps one record *)
(* per execution, workflow instance, workflow definition, dispatch and     *)
(* history entry under keys of its own in a persistence provider.  A read  *)
(* uses a session, which it closes.  A write uses a transaction begun on   *)
(* the provider, of which it keeps the store transaction only; nobody can  *)
(* close the session and the provider transaction around it.  update reads *)
(* in a session and writes in a transaction begun later.                   *)
(*                                                                         *)
(* The provider stays connected and a commit is one step, as in the        *)
(* in-memory provider; connecting, and the waits inside a commit, are the  *)
(* subject of PersistenceProviders.                                        *)
(***************************************************************************)
EXTENDS ContextQuery, Integers

CONSTANTS
  Recoverers,    \* calls of recover, each made once, all for one execution
  Kind,          \* the repository of each key
  Foreign,       \* the dispatches and history entries of other executions
  Initially,     \* the keys that have a record at first
  Expectations,  \* the expected versions callers pass; {} for none
  NoKey,         \* the key of a writer that is not writing
  MaxWrites      \* bound: the writes of each writer

Kinds == {"execution", "instance", "definition", "dispatch", "history"}

ASSUME KindAssumption      == Kind \in [Keys -> Kinds]
ASSUME OneOfEachAssumption ==
  \A kind \in {"execution", "instance", "definition"} :
    \E k \in Keys : \A j \in Keys : Kind[j] = kind <=> j = k
ASSUME ForeignAssumption   == Foreign \subseteq Keys
ASSUME InitiallyAssumption == Initially \subseteq Keys
ASSUME ProcessAssumption   ==
  Writers \cap Recoverers = {} /\ Nobody \notin Recoverers
ASSUME FiniteAssumption    == IsFiniteSet(Writers) /\ IsFiniteSet(Recoverers)
ASSUME ExpectedAssumption  == Expectations \subseteq SUBSET Nat
ASSUME NoKeyAssumption     == NoKey \notin Keys
ASSUME MaxWritesAssumption == MaxWrites \in [Writers -> Nat]

Processes == Writers \cup Recoverers

VARIABLES
  records,     \* the records of the provider
  open,        \* sessions open at the provider
  begun,       \* transactions begun on the provider
  serial,      \* writes requested by each writer
  pc,          \* the step each process is at
  op, key,     \* the write each writer makes
  expected,    \* the version its caller expects
  seen,        \* the record an update has read
  base,        \* the records when its transaction began
  found,       \* what each recovery has collected
  slipped,     \* history: updates whose record was set back in between
  overlapped,  \* history: two transactions were open at once
  acked,       \* history: the record the last acknowledged write left
  stable,      \* history: keys that had a record all along a recovery
  overflow     \* history: recoveries one of whose queries had more pages

storeVars   == <<records, open, begun>>
requestVars == <<serial, op, key, expected>>
historyVars == <<slipped, overlapped, acked, stable, overflow>>
vars == <<storeVars, requestVars, pc, seen, base, found, historyVars>>

-----------------------------------------------------------------------------
Immutable(k) == Kind[k] \in {"dispatch", "history"}

\* The order in which recover reads, and the step after each.
ReadSteps == {"execution", "instance", "definition", "dispatch", "history"}

\* A faulty variant: the history is not read.
AfterWithoutHistory(step) ==
  CASE step = "execution"  -> "instance"
    [] step = "instance"   -> "definition"
    [] step = "definition" -> "dispatch"
    [] step = "dispatch"   -> "done"

After(step) ==
  CASE step = "execution"  -> "instance"
    [] step = "instance"   -> "definition"
    [] step = "definition" -> "dispatch"
    [] step = "dispatch"   -> "history"
    [] step = "history"    -> "done"

WriterSteps   == {"idle", "reading", "read", "staged"}
RecoverySteps == {"idle", "failed", "done"} \cup ReadSteps

\* The dispatch and event history repositories list a whole collection in
\* the order of its keys, and filter what the first page of it holds.
Listing(kind) ==
  Query({k \in Keys : Kind[k] = kind}, Nat, DefaultOrder, {}, 0)

Init ==
  /\ records = [k \in Keys |->
       IF k \in Initially THEN [version |-> 1, writer |-> Nobody, serial |-> 0]
                          ELSE Absent]
  /\ open = 0 /\ begun = 0
  /\ serial = [w \in Writers |-> 0]
  /\ pc = [p \in Processes |-> "idle"]
  /\ op = [w \in Writers |-> "none"]
  /\ key = [w \in Writers |-> NoKey]
  /\ expected = [w \in Writers |-> {}]
  /\ seen = [w \in Writers |-> Absent]
  /\ base = [w \in Writers |-> EmptyMap]
  /\ found = [r \in Recoverers |-> {}]
  /\ slipped = {} /\ overlapped = FALSE /\ overflow = {}
  /\ acked = records
  /\ stable = [r \in Recoverers |-> {}]

-----------------------------------------------------------------------------
(* Writes.                                                                 *)

Request(w, o, k, e) ==
  /\ pc[w] = "idle"
  /\ serial[w] < MaxWrites[w]
  /\ serial'   = [serial EXCEPT ![w] = @ + 1]
  /\ op'       = [op EXCEPT ![w] = o]
  /\ key'      = [key EXCEPT ![w] = k]
  /\ expected' = [expected EXCEPT ![w] = e]

\* unwrapTransaction, and the copy its store transaction takes.
BeginTransaction(w) ==
  /\ open'  = open + 1
  /\ begun' = begun + 1
  /\ base'  = [base EXCEPT ![w] = records]
  /\ overlapped' = (overlapped \/ \E v \in Writers \ {w} : pc[v] = "staged")
  /\ pc'    = [pc EXCEPT ![w] = "staged"]

(* createRecord and deleteRecord.                                          *)
CreateOrDelete(w, o, k, e) ==
  /\ o \in {"create", "delete"}
  /\ Request(w, o, k, e)
  /\ BeginTransaction(w)
  /\ UNCHANGED <<records, seen, found, slipped, acked, stable, overflow>>

\* A faulty variant: an update that every repository accepts.
UpdateOfAny(w, k, e) ==
  /\ Request(w, "update", k, e)
  /\ open' = open + 1
  /\ pc'   = [pc EXCEPT ![w] = "reading"]
  /\ UNCHANGED <<records, begun, seen, base, found, historyVars>>

(* updateRecord opens the session it reads in; the repositories of         *)
(* dispatches and history entries refuse it at once.                       *)
Update(w, k, e) ==
  /\ ~Immutable(k)
  /\ Request(w, "update", k, e)
  /\ open' = open + 1
  /\ pc'   = [pc EXCEPT ![w] = "reading"]
  /\ UNCHANGED <<records, begun, seen, base, found, historyVars>>

\* A faulty variant: the call stays behind.
FinishedKeepingKey(w) ==
  /\ op'   = [op EXCEPT ![w] = "none"]
  /\ expected' = [expected EXCEPT ![w] = {}]
  /\ pc'   = [pc EXCEPT ![w] = "idle"]
  /\ seen' = [seen EXCEPT ![w] = Absent]
  /\ base' = [base EXCEPT ![w] = EmptyMap]
  /\ UNCHANGED key

\* The caller is answered; what the call was and has read is dropped.
Finished(w) ==
  /\ op'   = [op EXCEPT ![w] = "none"]
  /\ key'  = [key EXCEPT ![w] = NoKey]
  /\ expected' = [expected EXCEPT ![w] = {}]
  /\ pc'   = [pc EXCEPT ![w] = "idle"]
  /\ seen' = [seen EXCEPT ![w] = Absent]
  /\ base' = [base EXCEPT ![w] = EmptyMap]

\* A faulty variant: a read that fails leaves its session open.
ReadForUpdateKeepingSession(w) ==
  /\ pc[w] = "reading"
  /\ open' = IF Has(records, key[w]) THEN open - 1 ELSE open
  /\ slipped' = slipped \ {w}
  /\ IF Has(records, key[w])
       THEN /\ seen' = [seen EXCEPT ![w] = records[key[w]]]
            /\ pc'   = [pc EXCEPT ![w] = "read"]
            /\ UNCHANGED <<base, op, key, expected>>
       ELSE Finished(w)
  /\ UNCHANGED <<records, begun, serial, found, overlapped, acked, stable, overflow>>

(* The read of an update, and the close of its session whether or not      *)
(* there is a record.                                                      *)
ReadForUpdate(w) ==
  /\ pc[w] = "reading"
  /\ open' = open - 1
  /\ slipped' = slipped \ {w}
  /\ IF Has(records, key[w])
       THEN /\ seen' = [seen EXCEPT ![w] = records[key[w]]]
            /\ pc'   = [pc EXCEPT ![w] = "read"]
            /\ UNCHANGED <<base, op, key, expected>>
       ELSE Finished(w)
  /\ UNCHANGED <<records, begun, serial, found, overlapped, acked, stable, overflow>>

BeginUpdate(w) ==
  /\ pc[w] = "read"
  /\ BeginTransaction(w)
  /\ UNCHANGED <<records, requestVars, seen, found, slipped, acked, stable, overflow>>

\* A faulty variant: an update without an expected version passes none on.
ExpectedByCaller(w) == expected[w]

\* writeOptionsForCreate, writeOptionsForUpdate and writeOptionsForDelete.
Expected(w) ==
  IF op[w] = "update" /\ expected[w] = {} THEN {seen[w].version} ELSE expected[w]

\* The write is accepted, and no commit since has changed its key.
Succeeds(w) ==
  /\ Accepts(base[w], op[w], key[w], Expected(w))
  /\ base[w][key[w]].version = records[key[w]].version

\* The record that v has read and is to replace becomes one that is no newer.
SetBack(v) ==
  /\ pc[v] \in {"read", "staged"} /\ op[v] = "update"
  /\ records'[key[v]] # records[key[v]]
  /\ records'[key[v]].version <= records[key[v]].version

\* A faulty variant: a commit that adds and replaces records, and removes none.
WriteKeepingDeleted(w) ==
  /\ pc[w] = "staged"
  /\ Succeeds(w)
  /\ LET new == Written(base[w], op[w], key[w], w, serial[w])
     IN /\ records' = IF op[w] = "delete" THEN base[w]
                      ELSE [base[w] EXCEPT ![key[w]] = new]
        /\ acked'   = [acked EXCEPT ![key[w]] = new]
  /\ Finished(w)
  /\ slipped' = slipped \cup {v \in Writers : SetBack(v)}
  /\ stable' = [r \in Recoverers |-> IF pc[r] \in ReadSteps
                  THEN {k \in stable[r] : Has(records', k)} ELSE stable[r]]
  /\ UNCHANGED <<open, begun, serial, found, overlapped, overflow>>

(* The write on the store transaction, and its commit, which installs the  *)
(* whole copy the transaction took.                                        *)
Write(w) ==
  /\ pc[w] = "staged"
  /\ Succeeds(w)
  /\ LET new == Written(base[w], op[w], key[w], w, serial[w])
     IN /\ records' = [base[w] EXCEPT ![key[w]] = new]
        /\ acked'   = [acked EXCEPT ![key[w]] = new]
  /\ Finished(w)
  /\ slipped' = slipped \cup {v \in Writers : SetBack(v)}
  /\ stable' = [r \in Recoverers |-> IF pc[r] \in ReadSteps
                  THEN {k \in stable[r] : Has(records', k)} ELSE stable[r]]
  /\ UNCHANGED <<open, begun, serial, found, overlapped, overflow>>

(* The write or the commit is rejected.  The transaction is not rolled     *)
(* back, and its session stays open, as after a success.                   *)
WriteRejected(w) ==
  /\ pc[w] = "staged"
  /\ ~Succeeds(w)
  /\ Finished(w)
  /\ UNCHANGED <<storeVars, serial, found, historyVars>>

-----------------------------------------------------------------------------
(* Recovery.                                                               *)

(* recover, up to its first read.                                          *)
Recover(r) ==
  /\ pc[r] = "idle"
  /\ open' = open + 1
  /\ pc'   = [pc EXCEPT ![r] = "execution"]
  /\ stable' = [stable EXCEPT ![r] = {k \in Keys : Has(records, k)}]
  /\ UNCHANGED <<records, begun, requestVars, seen, base, found, slipped,
                 overlapped, acked, overflow>>

\* The session of a read is closed, and the next read opens one.
NextRead(r) ==
  /\ pc'   = [pc EXCEPT ![r] = After(pc[r])]
  /\ open' = IF After(pc[r]) = "done" THEN open - 1 ELSE open

(* A read of the execution, its workflow instance or its definition.       *)
RetrieveForRecovery(r) ==
  /\ pc[r] \in {"execution", "instance", "definition"}
  /\ \E k \in Keys : Kind[k] = pc[r] /\ Has(records, k)
  /\ NextRead(r)
  /\ UNCHANGED <<records, begun, requestVars, seen, base, found, historyVars>>

(* One of them is gone.                                                    *)
RecoveryFails(r) ==
  /\ pc[r] \in {"execution", "instance", "definition"}
  /\ \A k \in Keys : Kind[k] = pc[r] => ~Has(records, k)
  /\ pc'   = [pc EXCEPT ![r] = "failed"]
  /\ open' = open - 1
  /\ UNCHANGED <<records, begun, requestVars, seen, base, found, historyVars>>

\* The filter of the dispatch and history queries.
Own(keys) == keys \ Foreign

(* The query of the dispatches, and that of the history.                   *)
ListForRecovery(r) ==
  /\ pc[r] \in {"dispatch", "history"}
  /\ found' = [found EXCEPT ![r] = @ \cup Own(Items(records, Listing(pc[r])))]
  /\ overflow' = IF HasMore(records, Listing(pc[r])) THEN overflow \cup {r} ELSE overflow
  /\ NextRead(r)
  /\ UNCHANGED <<records, begun, requestVars, seen, base, slipped, overlapped,
                 acked, stable>>

-----------------------------------------------------------------------------
WriterStep(w) ==
  \/ \E o \in Operations, k \in Keys, e \in Expectations : CreateOrDelete(w, o, k, e)
  \/ \E k \in Keys, e \in Expectations : Update(w, k, e)
  \/ ReadForUpdate(w) \/ BeginUpdate(w)
  \/ Write(w) \/ WriteRejected(w)

RecoveryStep(r) ==
  \/ Recover(r) \/ RetrieveForRecovery(r) \/ RecoveryFails(r) \/ ListForRecovery(r)

Next ==
  \/ \E w \in Writers : WriterStep(w)
  \/ \E r \in Recoverers : RecoveryStep(r)

Spec == Init /\ [][Next]_vars

-----------------------------------------------------------------------------
(* Properties.                                                             *)

(* Every variable keeps its type, and a writer has a key while it writes.  *)
TypeOK ==
  /\ records \in RecordMap /\ open \in Int /\ begun \in Nat
  /\ serial \in [Writers -> Nat] /\ \A w \in Writers : serial[w] <= MaxWrites[w]
  /\ pc \in [Processes -> WriterSteps \cup RecoverySteps]
  /\ \A w \in Writers : pc[w] \in WriterSteps /\ (pc[w] = "idle" <=> key[w] = NoKey)
  /\ \A r \in Recoverers : pc[r] \in RecoverySteps
  /\ op \in [Writers -> Operations \cup {"none"}]
  /\ key \in [Writers -> Keys \cup {NoKey}]
  /\ expected \in [Writers -> {{}} \cup Expectations]
  /\ seen \in [Writers -> Record] /\ base \in [Writers -> RecordMap]
  /\ found \in [Recoverers -> SUBSET Keys]
  /\ slipped \subseteq Writers /\ overlapped \in BOOLEAN
  /\ acked \in RecordMap /\ stable \in [Recoverers -> SUBSET Keys]
  /\ overflow \subseteq Recoverers

Updates(w) == pc[w] = "staged" /\ op[w] = "update" /\ Write(w)

(* An update whose caller expects no version replaces the very record it   *)
(* read, although it writes in a later transaction, unless that record was *)
(* set back in between: it was deleted, and possibly created again, or a   *)
(* commit of another record brought an old copy of it back.                *)
UpdateReplacesWhatItRead ==
  [][\A w \in Writers \ slipped : Updates(w) /\ expected[w] = {} =>
       records[key[w]] = seen[w]]_vars

(* Two steps apart, in a session that reads and a transaction that writes, *)
(* the calls of a repository still take effect in one step each, on the    *)
(* records as they are then, and none is refused without a reason, as long *)
(* as no two transactions have been open at once.                          *)
Pending(w) ==
  [op |-> op[w], key |-> key[w],
   expected |-> IF pc[w] \in {"read", "staged"} THEN Expected(w) ELSE expected[w]]

Calls == [w \in Writers |-> Pending(w)]

Repository == INSTANCE AtomicRepository WITH
  Fixed <- {k \in Keys : Immutable(k)},
  held  <- records,
  call  <- Calls,
  void  <- overlapped

ImplementsRepository == Repository!Spec

(* A dispatch or history entry stays as it was created until it is         *)
(* deleted, as long as no two transactions have been open at once: a       *)
(* consequence of ImplementsRepository that the proofs state by itself.    *)
HistoryNeverRewritten ==
  [][\A k \in Keys : Immutable(k) /\ Has(records, k) /\ ~overlapped =>
       records'[k] \in {records[k], Absent}]_vars

(* Writes whose transactions do not overlap all stay: every record is the  *)
(* one the last acknowledged write of its key left.  When transactions     *)
(* overlap, a commit brings back old copies of the records it did not      *)
(* write.                                                                  *)
SequentialWritesKept == ~overlapped => records = acked

(* A recovery that succeeds returns every dispatch and history entry of    *)
(* the execution that was there from its start to its end, unless the      *)
(* first page of a collection does not hold them all; one that fails does  *)
(* so because the execution, its instance or its definition was missing at *)
(* some time since the start.                                              *)
RecoveryFindsWhatWasThere ==
  \A r \in Recoverers :
    /\ pc[r] = "done" /\ r \notin overflow =>
         {k \in stable[r] \ Foreign : Immutable(k)} \subseteq found[r]
    /\ pc[r] = "failed" => \E k \in Keys \ stable[r] : ~Immutable(k)
    /\ found[r] \cap Foreign = {}

(* Every read closes its session, also when it finds nothing: the sessions *)
(* open at the provider are those of the reads in progress and one for     *)
(* each transaction a write has begun.                                     *)
OnlyWritesLeaveSessions ==
  open = begun + Cardinality({w \in Writers : pc[w] = "reading"})
               + Cardinality({r \in Recoverers : pc[r] \in ReadSteps})
=============================================================================
