# HOST-kernel: TLA+ models, checks and proofs

This directory specifies the parts of HOST-kernel in which order, failure and
concurrency decide whether data survives. Modules are checked with TLC on small
instances and the main results are proved with TLAPS for every instance.
`PROJECT.json` lists the runs, the faulty variants that show each property can
fail, the source lines each definition stands for, the hazards, the findings
and the theorems.

## The system

HOST-kernel is a TypeScript monorepo of two layers that share no state.

**Context layer** (asynchronous; one JavaScript thread, so code runs without
interruption up to an `await`):

| Component | State | Operations | Hard because |
|---|---|---|---|
| `context-runtime` | none | clone, equality, merge, serialization of JSON values | pure |
| `context-store` | record map, revision; per transaction two copies of the map, touched keys, state | create, update, delete, query; begin, commit, rollback | transactions interleave with each other and with direct writes; an await splits every write of a transaction |
| `context-persistence` | connected flag, the store, open sessions and transactions | connect, disconnect, begin session/transaction, close, commit, rollback; a store composed from a provider | resources outlive the connection; error codes are mapped twice |
| `context-persistence-filesystem` | the same, and one JSON file with `.tmp` and `.bak` beside it | the same; every write flushes the whole store | crashes and I/O errors between file operations; overlapping flushes |
| `context-persistence-sqlite` | the same, and a database | the same; flush inside `BEGIN IMMEDIATE` | disconnect and schema set-up can fail half way |
| `context-service`, `transport-adapter`, `transport-rest` | none | validate and forward one call | stateless |
| `api-host` | map from transaction id to open transaction | one request each | ids are not unique |
| `runtime-composition` | none of its own | start, stop | start and stop race connect and disconnect |
| `integration-execution-persistence` | none of its own (records in a provider) | create, update (read, then compare and set), delete, query, recover | each call is several sessions and transactions |
| `integration-mcp` | created / initialized / shutdown | initialize, shutdown, tools, resources | requests after shutdown |

**Kernel layer** (synchronous, in memory):

| Component | State | Operations | Hard because |
|---|---|---|---|
| `kernel-registry` | record map, key index, four legacy maps, identifier reservations | register, update, reserve, release, registerProduct, ... | six structures describe the same records |
| `kernel-identifiers` | reservations (or the registry's) | generate, parse, validate | numbers grow past the canonical pattern |
| `kernel-objectives`, `kernel-documents` | records of the registry | create, update, transition | two-step creation; lifecycle order |
| `kernel-validation`, `kernel-taxonomy` | none | pure checks and tables | validation consults the registry it protects |
| `kernel-core`, `kernel-api` | the services above | bootstrap, health, dispatch | stateless |

Calls go downwards: a transport calls `api-host`, which calls
`context-service`, which calls a `ContextStore`; the store is the in-memory one
or one composed from a provider. `integration-execution-persistence` calls the
provider directly. Callbacks do not occur; everything asynchronous is an
awaited promise. What makes each component correct is stated by the properties
below, component by component.

Six specifications cover the system, each with its own run. They meet where one
component's promise is the next one's assumption:

    McpIntegration    MCP tools -> REST request -> API request -> API host
                      -> composed store over the in-memory provider
    ExecutionRecords  execution repositories -> sessions and transactions of a provider
    PersistenceProviders
                      three providers, composed store, start/stop, crashes
      FilesystemFlush                    one file write of the filesystem provider
      ContextStore                       versions and snapshots inside a store
    KernelRegistry    the kernel layer, on its own

Each of them is shown, by TLC and by proof, to implement an abstract
specification that says in a page what its users rely on:

| Specification | implements | which says |
|---|---|---|
| `ContextStore`, each store of `McpIntegration` | `SnapshotStore` | private copies of all records, commits in one step that detect version conflicts, no effect after the end |
| `FilesystemFlush` | `AtomicFlush` | a restart loads the state before a flush or the one after it |
| `KernelRegistry` | `RecordCatalog` | one catalogue: a call writes one record, under a key no other of its kind has, with references that resolve; numbers nothing is known by |
| `PersistenceProviders` | `ResourceRegistry` | sessions and transactions open only on a connection, end once, and none outlives it |
| `ExecutionRecords` | `AtomicRepository` | each call of a repository takes effect, or is refused for a reason, in one step, as long as transactions do not overlap |

## Modules

| Module | What it is |
|---|---|
| `StoreRecords` | records and the three write operations on a record map (`writeCreate`, `writeUpdate`, `writeDelete`), common to all stores |
| `SnapshotStore` | abstract: what a store promises about transactions |
| `ContextStore` | the in-memory store and its transactions |
| `MCContextStore` | its TLC instance: symmetry |
| `ContextStoreProofs` | what is proved of it |
| `AtomicFlush` | abstract: what an atomic flush promises |
| `FilesystemFlush` | the filesystem provider's flush, recovery, connect, disconnect and writes |
| `MCFilesystemFlush` | its TLC instances: symmetry and which steps may fail |
| `FilesystemFlushProofs` | what is proved of it, the implementation of `AtomicFlush` included |
| `RecordCatalog` | abstract: what the kernel's registry promises |
| `KernelRegistry` | the kernel's registry, identifier allocation, objectives, and the documents' use of them |
| `MCKernelRegistry` | its TLC instances: symmetry |
| `KernelRegistryProofs` | what is proved of it |
| `ResourceRegistry` | abstract: what a provider promises about sessions and transactions |
| `ProviderResources` | what the three providers have in common: sessions, transactions, the composed store's use of them |
| `MemoryProvider`, `FilesystemProvider`, `SqliteProvider` | what each does differently: when it waits, what it makes durable, how it answers |
| `PersistenceProviders` | their composition with start, stop and crash, and the properties |
| `MCPersistenceProviders` | its TLC instance: symmetry |
| `PersistenceProvidersProofs` | what is proved of it |
| `ContextQuery` | a store's query: filter, order, offset, limit, page |
| `ContextQueryProofs` | what is proved of its order and its pages |
| `AtomicRepository` | abstract: what an execution repository promises |
| `ExecutionRecords` | the execution repositories and the recovery service |
| `MCExecutionRecords` | its TLC instance: one key of each kind and a foreign one |
| `ExecutionRecordsProofs` | what is proved of it |
| `ToolRequests` | operators: MCP tool call to REST request to API request, and errors on the way back |
| `ApiHost` | the host's transaction handles over the context service and the in-memory provider, its restarts, a paging client |
| `McpIntegration` | the MCP integration on top of `ApiHost`, and the properties of both |
| `MCMcpIntegration` | its TLC instance: keys, tool queries, who takes part |
| `McpIntegrationProofs` | what is proved of it |

Each specification has *faulty variants*: definitions with a plausible bug,
used by no action, in a section of their own or beside what they vary.
`PROJECT.json` pairs each with the property that is violated when it takes the
place of the original.

### ContextStore

`records` and `revision` are `StoreState`. For each transaction object, `state`,
`id`, `base`, `working`, `touched` and `txRevision` are the private fields of
`InMemoryContextStoreTransaction`. A payload is abstracted to who wrote it and
the writer's serial number, so that no two writes look alike; `version` is the
code's.

| Action | Code (`packages/context-store/src/store.ts`) |
|---|---|
| `Write` | `create`, `update`, `delete` on the store |
| `Begin` | `beginTransaction`, the transaction's constructor |
| `TxWrite` | `create`, `update`, `delete` of a transaction up to `await` |
| `Settle` | the continuation: raise `#revision`, add the key to `#touched` |
| `Commit` | `commit`, when no touched key conflicts |
| `Rollback` | `rollback` |

A call that is rejected (closed transaction, unknown key, duplicate key,
version conflict) returns a failure and changes nothing, so it is no step.
`await writeCreate(...)` yields to the microtask queue even though nothing is
pending, so a caller that does not await its write before it commits, or two
callers that share a transaction, reach `commit` between `TxWrite` and
`Settle`. Continuations of one transaction run in the order of their awaits:
`pending` is a queue. The history variable `hasty` records that some commit
overtook a write of its own transaction; it appears only as a hypothesis.

Properties:
- `NoDirtyRead`: nobody sees a record written by a transaction that is not
  committed, neither in the store nor in a transaction's copy.
- `SnapshotPlusOwnWrites`: a working copy is the base plus the transaction's
  own writes, and each changed key is, or will be, compared by commit.
- `ImplementsSnapshots`: the module implements `SnapshotStore`, where the copies
  of a transaction that is not open do not exist and `awaiting` is the set of
  transactions with continuations to run. In particular no transaction, its
  writes awaited, commits a change to a key whose version moved since it began
  (`ConflictsDetected`), and a closed transaction stays closed
  (`ClosedIsFinal`, which adds that its copy is frozen); both are
  stated by theorems of their own.
- `RevisionCoversVersions`: the store's revision does not fall below a
  version in its map, although commit may set it back. Without the hypothesis
  `~hasty` this is false: a commit that overtakes its own update installs the
  new version with the old revision.
- `CommitAppliesStagedWrites`, `CommitReplacesWhatItRead`: what the tests and
  the package's README lead a reader to expect and the code does not do; see
  *Findings*.

### FilesystemFlush

`file` maps the three names to contents: a set of writes (a whole store that
includes them), `Missing`, or `Torn` (empty or cut short). `mem` and
`connected` are the provider's `#state` and `#connected`. `opened` says that
this process has been connected once: a store object obtained then stays usable
after a disconnect, since its methods do not look at `#connected`. `pc`, `op`,
`cand`, `own` and `seen` are the local variables of a call in progress,
`writing` its open file handle, which follows the file through a rename, as an
inode does.

One step is one awaited file operation with the code up to the next one. A
step's name is the operation (`Open` and `Fill` are the two observable halves
of `writeFile`); `Fails`, the error disjunct of `Renames`, and `ConnectFails`
are its `catch`. `Crash` may happen between any two steps: memory goes, files
stay.

| Actions | Code (`packages/context-persistence-filesystem/src/provider.ts`) |
|---|---|
| `StartWrite`, `Adopt` | `create`, `update`, `delete`: clone, flush, replace |
| `StartConnect`, `FindMain` .. `Tidy`, `Load`, `Adopt` | `connect`: recover artifacts, load, flush, replace, set connected |
| `StartDisconnect`, `Adopt` | `disconnect` |
| `Open` .. `Cleanup` | `persistState` |

Two details are folded. `#ensureDirectory` keeps no state and its failure is
that of `findMain`. `#loadState`'s stat and read are one step, because no other
call changes the main file in between when calls are serialized. A write that
the records reject (duplicate key and so on) does not reach the flush.

The constant `Overlapping` says which kinds of call may be in progress
together. The code does not serialize them. With `Overlapping = {}` (callers
await each call before the next, as every test does) the properties hold; with
overlapping writes two of them do not.

Properties:
- `AckedRecoverable`: the state the next connect would load is never torn and
  includes every write that was reported successful.
- `ReadsAreDurable`: what the provider shows is included in it.
- `AckedReadable`: a connected provider shows every write it acknowledged.
- `FlushIsAtomic`: the module implements `AtomicFlush`, with `durable` mapped to
  the recoverable state, `inflight` to the state of the flush in progress and
  `confirmed` to the acknowledged writes. In particular a failed write may
  have become durable (`Land` and then `GiveUp`: the removal of the backup
  failed, or the process died after the second rename), but never partially.
- `CallsReturn`: every call ends.

### KernelRegistry

`records`, `recordsByKey` and `identifiers` are the maps of the same name in the
registry's `#state`; `legacy` is the four maps `products`, `repositories`,
`capabilities` and `events`. An entry of `recordsByKey` that the code deletes is
the empty set. The history variable `bypassed` collects the objectives whose
lifecycle a caller has set by the registry's own `update`, which does not know
the order of the lifecycle; it appears only as a hypothesis.

The number `n` stands for the identifier `OBJ-n`, other ids and keys are model
values, and of the nine lifecycle states the model keeps an order with two
distinguished positions, `Approved` and `Archived`. Of what a record refers to
there remain the objective that governs an ADR or a planning record, the
document another one descends from, and the product that owns a capability.

| Action | Code |
|---|---|
| `Register`, `Update` | `register`, `update` (`kernel-registry`); with them `registerDocument`, `updateDocument` (`kernel-documents`) |
| `Reserve`, `Release` | `reserve`, `release`, and a `generate` whose result is not used |
| `CreateObjective` | `createObjective` (`kernel-objectives`): `generate`, then `register`; its second disjunct is the call whose record is rejected after the number was reserved |
| `UpdateObjective` | `updateObjective`, and the service's `update` and `register` of a known id |
| `TransitionObjective` | `transitionObjective` |
| `registerProduct`, `updateProduct` | the same |
| `RegisterOwned` | `registerRepository`, `registerCapability`, `registerEventContract` |

The code is synchronous, so a call is a step; a rejected call throws before it
changes anything, but for the one above. Left out: an `update` with a record that
cannot be copied (a function in its metadata) throws between the removal of the
old entries and putting in the new ones (registry-service.ts 400-403).

Properties:
- `StructuresAgree`: the record map, the key index and the legacy maps describe
  the same records.
- `ImplementsCatalog`: the module implements `RecordCatalog`, with the records
  and the reserved numbers as they are and the index and the legacy maps left
  out. The checks of a call read those; the abstract ones read the records, so
  this says that the structures never mislead a check. It includes that no two
  records of a kind share a key (`KeyNamesOne`) and that a number is handed out
  only when it is neither reserved, nor an id, nor a key.
- `ProductListsCover`: the products map lists every capability the product's
  record lists.
- `LinksResolve`: a governing objective, and a document's ancestor, exist and
  are of the right kind as long as the record that names them. They are checked
  only when that record is written.
- `GovernorsApproved`: the objective of a planning record does not fall back
  before *approved*, unless `update` was used on its lifecycle.
- `IdentifiersPermanent`: an id names the same record for ever, although its
  reservation may be released and other kinds of record may use it.
- `DerivedListKept`: what the registry's documentation says of registered
  capabilities and the code does not do; see *Findings*.

### PersistenceProviders

One state for all three providers, since they carry copies of the same code
(`ProviderResources`); `backend` says which provider a behaviour is about, and
the actions of the other two are disabled. `sState` and `tState` are the
`#state` of session and transaction objects, `sessions` and `transactions` the
provider's sets of those it must close. A provider transaction wraps a store
transaction, whose own state is `wState`; the two change in different steps
because the outer one awaits the inner one. `commitPc`, `rollbackPc` and
`callPc` are the calls waiting in between. `mem` is the store readers see: one
for each connection in the in-memory provider (indexed by `epoch`), entry 0 in
the others. `disk` is the file or the database.

| Actions | Code |
|---|---|
| `OpenSession`, `CloseSession`, `TxWrite`, `Committed`, `CommitFailed`, `Rollback`, `RolledBack`, `RollbackFailed`, `Refused` | sessions and transactions of `context-persistence/src/provider.ts` and its copies |
| `CallOpen` .. `CallClose`, `CloseAfter` | `composition.ts`: `#withSession`, and the transaction that closes its session in `finally` |
| `MemoryConnect` .. `MemoryCallRun` | `context-persistence/src/provider.ts` |
| `FsConnect` .. `FsCallFlushed` | `context-persistence-filesystem/src/provider.ts` |
| `SqliteConnect` .. `SqliteCallRun` | `context-persistence-sqlite/src/provider.ts` |
| `Start`, `Stop` | `runtime-composition`: looks at the provider's state, then connects or disconnects |
| `Crash` | the process ends; file or database stay |

What differs and matters: the in-memory provider registers a transaction after
an await, so a disconnect fits before it (`late`); the filesystem provider
writes its file while everything else runs, and a write that fails may have
replaced the file all the same; SQLite writes without letting other code in, but
its `ROLLBACK` may fail (`dangling`), its schema is created by four statements
outside a transaction, its connect waits before it opens the database, and its
`disconnect` closes sessions before a database that may refuse to close.

Bounds of the model, where the code has no guard: while a commit of a transaction
waits it is not committed a second time, and likewise for rollbacks; and the
filesystem provider writes its file for one call at a time.

The history variables `late`, `raced`, `unsure`, `overlapped` and `torn` record
that one of the exceptional orders has happened. They appear only as hypotheses;
each property is stated with the weakest one under which it holds, so they also
say where the code promises less than one would expect.

- `RegisteredAreActive`: the two sets hold exactly what is active.
- `ActiveBelongToConnection`: nothing active outlives a disconnect, but for a
  `late` transaction.
- `ComposedSessionsClosed`: the composed store closes every session it opens.
- `NothingLeftBehind`: what was rolled back, closed by a disconnect or rejected
  left no record in memory or on disk, unless the commit met the rollback or
  disconnect (`raced`) or the write of the file failed (`unsure`).
- `ReadersSeeDisk`: readers see what a restart would load, but after a failed
  write of the file and until the next good one (`torn`).
- `AnswerTellsState`: the last answer to a commit or a rollback tells the state
  of the transaction, with two exceptions. The in-memory provider reports a
  version conflict as *transaction-closed* although the transaction can be tried
  again. And transactions on which a commit met a rollback or a disconnect
  (`raced`) are exempt, because it is false there: in the filesystem provider a
  rollback that comes during the flush of a commit is answered with success, and
  if the flush then fails the last answer is *io-failure* for a transaction that
  is rolled back and cannot be tried again (provider.ts 1424-1464).
- `ImplementsRegistry`: the module implements `ResourceRegistry`, whichever the
  provider: a session or transaction opens only while there is a connection, ends
  once, and ends at the latest with the connection or the process. A transaction
  on which a commit met a rollback or a disconnect (`raced`), or which came after
  its connection had gone (`late`), is *disputed* there and nothing is promised
  of it: the continuation of a commit overwrites the state without looking. It
  includes that an outcome does not change otherwise (`OutcomeIsFinal`).
- `ConnectedHasDatabase`: a connected SQLite provider has its database open,
  unless two connects overlapped: one that fails closes the other's database.
- `SchemaStaysUsable`: after one successful connect the schema is complete
  enough for every later one. (Before it, a crash can leave a schema that no
  connect accepts; this is listed as a hazard.)

### ExecutionRecords

`records` is the provider's record map; each key belongs to one of the five
repositories (`Kind`). `open` counts the sessions open at the provider, `begun`
the transactions begun on it. `pc`, `op`, `key`, `expected`, `seen` and `base`
are a writer's call in progress; `found` is what a recovery has collected.

| Actions | Code (`packages/integration-execution-persistence/src`) |
|---|---|
| `CreateOrDelete` | `createRecord`, `deleteRecord` up to the begun transaction |
| `Update`, `ReadForUpdate`, `BeginUpdate` | `updateRecord`: session, read, close, then a transaction |
| `Write`, `WriteRejected` | the write on the unwrapped store transaction, and its commit |
| `Recover`, `RetrieveForRecovery`, `RecoveryFails`, `ListForRecovery` | `recover`: five reads, each in a session of its own |

The queries are those of `ContextQuery`, with the store's default limit as the
constant `DefaultLimit`. The provider stays connected and a commit is one step;
what may happen inside it is the subject of `PersistenceProviders`.

- `SequentialWritesKept`: while transactions do not overlap, every record is the
  one its last acknowledged write left.
- `UpdateReplacesWhatItRead`: an update without an expected version replaces the
  record it read in another session, unless that record was set back meanwhile
  (removed and created again, or restored by a commit of an old copy).
- `ImplementsRepository`: until two transactions overlap, the module implements
  `AtomicRepository`: the sessions, reads and transactions of a call amount to one
  step that takes effect or is refused, and an update without an expected version
  settles, once and between its begin and its end, on the version it replaces.
  It includes that dispatches and history entries stay as created
  (`HistoryNeverRewritten`).
- `RecoveryFindsWhatWasThere`: a recovery returns what was there throughout,
  unless a collection has more than one page: `recover` does not ask for a second.
  If it fails, something was missing at some time since its start.
- `OnlyWritesLeaveSessions`: reads close their sessions; each write leaves one
  open, because the session around the unwrapped transaction is out of reach.

### ApiHost and McpIntegration

These modules are about the composed store over the **in-memory provider**, which
is what the tests of the runtime and of the integration use. Its store looks for
conflicts, replaces the records and ends the transaction without letting other
code in (`store.ts` 512-547), so each of these is one step. The filesystem and the
SQLite provider wait in between; there a rollback may be answered with success and
the commit still take effect, and a write answered with an error may be in the
file. That is modelled in `PersistenceProviders` (`raced`, `unsure`), and nothing
said here is said of those two.

`records` and `revision` are those of each store the provider has had: a
disconnect gives up the store and a connect builds an empty one (`restarts` is the
number of the latest), and a transaction or session stays with the store it was
begun on (`at`, `session`), after the provider has given that up, too. `base`,
`working` and `awaiting` are a transaction's two copies and its writes that have
not resumed; `tState` its state, where `closed` is what a disconnect makes of
those that are registered. A transaction is registered one wait after its store
transaction was made (`BeginRegistered`), so a disconnect in between misses it.

`held` is the host's map from ids to transactions, as a set with at most one
transaction for an id; ids are the store's revision plus one and may collide.
`finish` and `target` are a commit or rollback request in progress; a client may
send both at once. `mcp` is the integration's life cycle, `call`, `asked` and
`request` a tool call and what the host got for it. `scan` is a client that pages
through a query by `next_offset`.

| Actions | Code |
|---|---|
| `Begin`, `BeginRegistered`, `BeginReturns` | `context.transaction.begin` (`api-host/src/host.ts`), down to `InMemoryPersistenceSession.beginTransaction`, and the entry in the host's map |
| `TxWrite`, `TxWriteResumes` | `context.transaction.create`, `update`, `delete`, before and after the await of the store transaction |
| `Commit`, `CommitConflicts`, `Rollback`, `FinishClosed`, `FinishUnknown` | `context.transaction.commit`, `rollback`: the host looks the transaction up and the transaction decides, in one go |
| `FinishReturns` | the request returns; the entry of the id is deleted after a success |
| `Stop`, `Start` | the provider below is disconnected and connected again; the host is not told |
| `ScanStart`, `ScanPage` | `query`, `toQueryResult` |
| `Initialize`, `Shutdown`, `CallTool`, `CallRefused` | `integration-mcp`: life cycle, `callTool` up to the request |
| `CallOpened`, `CallUnavailable` | `#withSession` of the composed store: a session, or none |
| `CallApplied`, `CallRejected`, `CallAnswered` | the call of that session's store, and the result or mapped error |

Bounds of these modules: a transaction writes a key once, and without an expected
version; no disconnect comes between the session of a page and its query.

`ToolRequests` holds the two translations of a request and the three of an
error, as operators: what becomes of a field is modelled, its encoding only where
it is not undone (lists of keys are joined, split at commas and trimmed).

- `HandlesAreOpen`: an active transaction whose client knows its id is in the
  map, unless it had to share that id (`shared`); a committed or rolled-back one is
  there only until its request returns; an id leads to one transaction. Nothing is
  said of transactions a disconnect has closed: they stay in the map for good.
- `AnswersAreTrue`: what clients are told about a transaction holds, unless
  another had the same id: *ok* after it ended as asked and in no other way, an
  error of a commit while it is not committed (a conflict is told as
  *transaction-closed*, as the in-memory provider does). A tool call answered with
  an error wrote to no store.
- `ScanFindsWhatStays`: paging misses no record that was there throughout unless
  one was removed, and repeats none unless one was added. The run, with two keys and
  pages of one record, cannot violate the clause about repeats; only the proof
  covers it.
- `ToolCallsArriveAsMade`: operation, key, expected version and query survive
  the way to the host. Exempt are lists of keys that are empty (they are dropped)
  or have a key that the split changes, because it has commas or begins or ends
  with a blank (`adapter.ts` 72-76); and numbers from 10^21 on, whose text has an
  exponent and is not read back, are not in the model.
- `ImplementsSnapshots`: what clients do through the host is what they could do
  to a store directly: each of the provider's stores keeps the promise of
  `SnapshotStore`, whose `Disconnect` closes some of the transactions that are
  open: those that are registered. Handles may lead to the wrong transaction, and
  requests may race; none commits over a conflict or revives a transaction.

## Runs

| Run | Instance | Distinct states | Shows |
|---|---|---|---|
| `ContextStore` | 2 transactions, 1 direct caller, 2 keys, 2 writes each, expected versions 0..2 | 372,442 | the invariants above, `SnapshotStore` |
| `ContextStore_staged` | as above, 1 write each | violation | a commit undoes others' commits |
| `ContextStore_reuse` | 1 transaction, 1 caller, 1 key, 3 writes | violation | reused versions hide a conflict |
| `FilesystemFlush` | 2 calls, 3 writes, no overlap, any step may fail, crashes at any step | 79,010 | safety, refinement and liveness |
| `FilesystemFlush_overlap` | 2 calls, 3 writes, writes overlap, no I/O error | violation | a torn store is installed |
| `FilesystemFlush_lost` | the same | violation | an acknowledged write disappears |
| `KernelRegistry` | eight kinds of record, 3 records, 2 numbers, 2 other ids, 2 names | 202,990 | agreement of the structures, permanence of identifiers, `RecordCatalog` |
| `KernelRegistry_governors` | objectives, planning records, ADRs, documents; 3 records, 3 numbers, 2 other ids, 1 name | 175,440 | `LinksResolve`, `GovernorsApproved` |
| `KernelRegistry_derived` | objectives, products, capabilities | violation | an update drops the registered capabilities |
| `PersistenceProviders` | each of 3 providers; 2 sessions, 1 transaction, 1 composed call, 1 key, 2 connections, 2 overlapping connects | 1,787,507 | resources, outcomes and durability under stop, failure and crash, `ResourceRegistry` |
| `ExecutionRecords` | 6 keys (one of each kind, one foreign dispatch), 2 writers with 1 and 2 writes, 1 recovery, pages of 1 | 645,096 | read-then-write, recovery, sessions, `AtomicRepository` |
| `McpIntegration` | 2 transactions with commit and rollback each, 1 tool call, 2 keys, pages of 1, 1 restart; any two of these activities | 779,223 | handles, answers, paging, translation, `SnapshotStore` |

Bounds. Two transactions and a direct caller are enough for every pair of
actors to conflict, and for a third to read what they leave; two keys separate
the written from the unwritten one; two writes per writer allow delete and
re-create, update after create, and two pending continuations. Three writes let
a flush start from an acknowledged state, fail, and be followed by another.
Bounds are `MaxSerial`, `Versions` and the sets of the cfg; `Crash` needs none.
Deadlock is checked for the filesystem and not for the store, where a system
whose writers have used up `MaxSerial` and whose transactions are closed stops.

In the registry, one of three records (`MaxRecords`) is a constitutional
objective; two more are enough for a governor and what it governs, a product and
its capability, or two records that compete for a key. Number 2 lies past
`LastCanonical` and stands for `OBJ-1000`, the first that is allocated and then
not recognized. In `KernelRegistry_governors` the seed is number 0, `OBJ-000`,
which has an identifier's form and is not accepted as one, so that number 1 may
go to an objective or to a record of another kind. Lifecycles have
three states, so *approved* has one before and one after. The registry may fill
up, so deadlock is not checked.

In `PersistenceProviders` two sessions separate the caller's from the composed
one, and one session of the first connection from one of the second; one
transaction meets a composed call, which is the other writer it can conflict
with, a rollback of its own, and a disconnect. Two connections
(`MaxConnects`) let something of the first be used in the second; two connects
in progress (`MaxConnecting`) let one fail after the other has succeeded. The
filesystem provider writes its file for one call at a time, a bound of the model:
overlapping writes break `AckedRecoverable` already (*Findings*) and are the
subject of `FilesystemFlush`.

In `ExecutionRecords` an update meets a deletion and a creation of the same
record by another writer, which takes two writes; a page of one record makes two
dispatches overflow, where the code's page has 50. In `McpIntegration` the
constraint `MCActivity` lets any two of the activities take part in a behaviour:
each transaction, the MCP integration with its call, the paging client, the
restart. Each pair occurs. Three of the four requests that finish a transaction
are sent, and one write of a transaction at a time is under way. The proofs have
none of these bounds. `Parts` makes one key split at a comma.

The actors of these three make a bounded number of calls and then stop, so
deadlock is not checked.

Fairness. Only `FairSpec` of `FilesystemFlush` assumes any: weak fairness of
`Continue(p)`, that is, a file operation in progress ends, with or without an
error, and its continuation runs. Node's thread pool and event loop give that.
Nothing obliges a caller to make a call, or a process to crash.

## Findings

1. `ContextStore_staged`. `commit` checks the keys the transaction touched and
   then replaces the whole map. A direct write, or another transaction's commit,
   to a different key after `beginTransaction` is lost without a conflict.
2. `ContextStore_reuse`. A key that is deleted and created again has version 1
   again; a transaction that read the first record commits over the second.
3. `FilesystemFlush_overlap`. Flushes share one temporary file. Two writes in
   progress can install a file one of them is still filling.
4. `FilesystemFlush_lost`. Each write clones the state before it awaits the
   flush and replaces the state after it. Two writes in progress are both
   reported successful and only one remains.
5. `KernelRegistry_derived`. `registerCapability` adds the capability to the
   products map and not to the product's record, and `update` rewrites the map's
   entry from the record. Any update of the product loses its capabilities.

Seen while modelling, without a run. `createObjective` accepts any lifecycle
state, where `docs/kernel/objective-allocation.md` has new objectives enter as *draft*.
A repository may name an objective that was never allocated: only the form of
`owning_objective` is checked. `release` frees a reservation the docs call
permanent.

## Proofs

All theorems hold for every value of the constants that satisfies the named
assumptions of the modules: distinct marks, `Writers` the disjoint union of
transactions and callers, numeric bounds. Only `ContextQuery` and
`ExecutionRecords`, which count, assume sets to be finite: keys, writers and
recoverers; other sets may be infinite.

A refinement is proved by one lemma for each action of the abstract module, or
for each way in which its state moves, from the invariants of the detailed one;
a last lemma sorts the detailed steps among them, and the steps that are none of
them are shown to leave the mapped state alone.

`ContextStoreProofs`. `TypeCorrect` by one lemma per action.
`NoDirtyReadCorrect`: the invariant is inductive over the types, since a working
copy begins as the store's records and commit hands it back.
`SnapshotCorrect`: so is this one, because a write leaves its mark in `pending`
in the step that changes the copy, and `Settle` moves the mark to `touched`: no
step loses one. `ConflictsDetectedCorrect` follows from it: with
nothing pending, every changed key is touched, and commit compares it. This is
also what `ImplementsSnapshotsCorrect` needs for `Commit`.
`ClosedIsFinalCorrect` needs the types only. `RevisionCorrect` carries, while no
commit has been hasty, that every copy in every transaction is covered by that
transaction's revision or by a continuation still pending.

`FilesystemFlushProofs`. `TypeCorrect` holds whether or not calls overlap. The
others assume `Overlapping = {}` and rest on `SerialInv`, proved inductive with
one lemma per action (`SerialCorrect`). It says that one call is in progress;
that the main file is absent only between the renames of a flush that has its
full temporary file and, if there was one, its backup; that what a connect saw
is still so; that neither the main file nor the backup is ever torn; and that
what a flush is about to install includes everything acknowledged and shown.
The properties themselves are not inductive: `AckedRecoverable` alone does not
exclude a flush about to install a state that misses a write.
`FlushIsAtomicCorrect` shows that each step is a step of `AtomicFlush` or a
stutter: the rename onto the main file is `Land`, a return is `Succeed` or
`GiveUp`, a crash is `GiveUp`, and the start of a flush is `Begin`.

`KernelRegistryProofs`. The lemma `StepShape` reduces every operation to one of
three forms: a step adds one record, replaces one by another of its kind, or
keeps all of them; each of the first two with the effect it has on the index and
the legacy maps. `Agreement` (`StructuresAgree` and `KeyNamesOne`
together, over `TypeOK`) is the inductive invariant: keys stay unique only
because the duplicate check reads an index that agrees with the records, and a
legacy map can agree with them only while no two of its kind share a key.
`LinksResolveCorrect` and `GovernorsApprovedCorrect` combine it with where a
record of the next state comes from (`RecordOrigin`) and with the fact that
records stay (`RecordsStay`). `ImplementsCatalogCorrect` needs `Agreement` for the
same reason: the duplicate checks read the index and the legacy maps, and
allocation reads identifiers, ids and keys.

`PersistenceProvidersProofs`. The state has over thirty variables and some
forty actions, so the proof first sorts the steps: `WhatMoves`, `Lives`, `Outcomes` and
`MostKeepFlush` say once which steps can change which group of variables, and in
what way; every later lemma splits on those few forms instead of all actions.
`TypeInv` adds to `TypeOK` that connects in progress and connections together
stay within their bound. `OutcomeInv` says that a transaction nobody has begun
has no calls or answers, that calls in progress belong to a transaction that is
still active unless it was raced, and that answers are truthful; it gives
`AnswerTellsState` and `OutcomeIsFinal`. `SessionInv` places each transaction and
call in a session that was opened for it, and gives the three properties of
sessions. `ImplementsRegistryCorrect` needs these three and `Awaited` (whoever
writes the file is waiting for it): `Lives` says how one session or transaction
can move, the invariants that no other moves with it, and `RegisteredAreActive`
that a disconnect, which goes through the provider's sets, reaches every one
that is open. `LeftInv` is `NothingLeftBehind` turned round: a writer with a
record in memory, on disk or in the file being written (`Copied`) is excused by
its state or by a history variable. It needs `Awaited` too. `DatabaseInv` holds
the two properties of SQLite; `ReadersSeeDisk` is inductive over `TypeOK`.

`ExecutionRecordsProofs`. `Asked` ties a writer's step to its call; `Alone` says
that one transaction is open while none has overlapped, and with it the copy it
took is the present records, so that a commit installs one change
(`SequentialWritesKept`, `HistoryNeverRewritten`, and the `Apply` and `Refuse` of
`ImplementsRepositoryCorrect`). `Reading` and `Current` say
that a record read and not set back is either unchanged or newer, so the
version an update passes on tells it apart. `RecoveryInv` says of each step of a
recovery what it has found so far. `OnlyWritesLeaveSessions` counts: a step
moves one process into or out of a set, and changes its cardinality by one.

`ContextQueryProofs` is about the operators of a query, for every record map and
every query whose order mentions the key. The order is strict and total
(`OrderIsStrictAndTotal`), so the selected records take the places 0, 1, ... one
each (`SelectionIsList`, by cardinality); a page holds what its limit allows
(`PageIsFilled`); and the page at `next_offset` goes on where this one ends, with
nothing repeated or skipped (`PagesFollowOn`). A query with limit 0 has more for
ever and never moves; the theorem says so. That a loop over all pages collects
everything needs induction over the pages; it is stated as an invariant of the
paging client instead.

`McpIntegrationProofs` builds on that module. `Arrived` computes what the host gets for every tool
call. `HostInv` says that a handle exists from the answer of begin on and goes
with the answer of the request that ended the transaction. `AnswerInv` gives each
request in progress and each answer its meaning for the transaction it has looked
up, and relies on ids that do not collide to know that this is the client's own;
`EndedByOwn` that only the client's requests have ended it. `Numbered` says
that what has begun has an id, and `NothingEarly` that a tool call has written
only once it was applied. For
`ScanFindsWhatStays`, `ScanInv` says that every record whose place lies before
the offset has been returned, and none at or after it; places are
counted without gaps (a record and those before it, by cardinality), so a page of
`PageLimit` records moves the offset exactly past them.
`ImplementsSnapshotsCorrect` needs `Arrived`, by which a tool call writes the one
key it was made for, the types, by which a request under way has a target, and
`StoresToCome`: a store the provider has yet to build is empty, so that a step on
one store is a stutter of the others.

The theorems cover every invariant, action property and refinement of the passing
runs. Only model-checked: `CallsReturn`. Liveness under fairness is beyond
the prover, as is induction over data.

## Not modelled, and why

- Power loss. The code does not `fsync`; `Crash` is the end of the process, after
  which the operating system still has every completed file operation.
- Two processes on one file: the provider takes no lock and no doc claims it.
- Hostile or hand-edited files: `#parsePersistedState` rejects what is not a
  whole store; the model's files are those the program writes.
- Queries of the registry (`find`, `list`, `lookup` by key) and the checks of a
  record's own fields: they change nothing and depend on nothing that changes.
  The seeded constitutional documents are not in the initial state; they are
  records a caller could register.
- `context-runtime`: pure functions over JSON values. Clone, equality and merge
  are assumed right where a model copies or compares a record.
- `transport-adapter`: a stateless mapping; the REST adapter, whose translation
  `ToolRequests` models, does not go through it. Of `transport-rest` the status
  codes, the headers of responses and most filters of a query are left out.
- `integration-mcp`'s resources, prompts and the shape of results; validation of
  arguments in `context-service`; serialization and field checks of the execution
  repositories: each decides on one request alone and keeps no state.
- `runtime-contracts`, `kernel-types`, `kernel-events`, `kernel-repositories`,
  `kernel-test-utils`, `kernel-taxonomy`: types, constants, tables, test helpers.
- `kernel-core` and `kernel-api`: they wire the kernel services together and
  dispatch synchronously onto them, one call each, without state of their own.
- Packages that are imported and not in the repository (`integration-contracts`,
  `-events`, `-workflow`, `-execution`, `rest-runtime-host`).
- Wording of errors, observability, and the formats of records and timestamps.

Every component that keeps state across an await or across calls is modelled.
What could be taken further: two transactions in one `PersistenceProviders`
instance (two transactions conflict in `ContextStore`, not there), the three
providers' durable writes as implementations of `AtomicFlush` (the filesystem
provider's is one, in `FilesystemFlush`), the sessions of `ExecutionRecords` as
resources of `ResourceRegistry`, the API host over a provider whose commit waits,
and overlapping file writes together with connects and disconnects.

`PROJECT.json` lists the hazards. Most name the properties that would catch
them going wrong. Some name none and say why: the code does go wrong there and a
property exempts it (a commit that meets a rollback, connects that overlap, a
schema cut short before the first connect, handles of closed transactions), a
bound keeps it out (a file write that overlaps a connect, a disconnect or a
commit), or what goes wrong is not modelled (the metadata of an answer).
