--------------------------- MODULE McpIntegration ---------------------------
(***************************************************************************)
(* The MCP integration on top of the API host: its life cycle, and calls   *)
(* of its context tools.  The state of the integration is looked at when a *)
(* call begins; the call then goes through the REST adapter and the host   *)
(* to the store, and is answered whatever the state has become.            *)
(***************************************************************************)
EXTENDS ApiHost

CONSTANTS
  Expectations,  \* the expected versions callers pass; {} for none
  ToolQueries    \* the queries callers of context.query pass

ASSUME ExpectationsAssumption == Expectations \subseteq SUBSET Nat
ASSUME ToolQueriesAssumption  ==
  \A q \in ToolQueries :
    \E keys \in {{}} \cup {{ks} : ks \in SUBSET Keys},
       order \in {{}, {<<>>}, {DefaultOrder}},
       limit, offset \in {{}} \cup {{n} : n \in 0..DefaultLimit} :
      q = ToolQuery(keys, order, limit, offset)

VARIABLES
  mcp,        \* #state of the integration
  call,       \* the step each call is at
  session,    \* the store of the session it has opened
  asked,      \* history: the tool call made
  request,    \* the API request the host got for it
  result      \* the outcome of the call

mcpVars == <<mcp, call, session, asked, request, result>>
vars == <<apiVars, mcpVars>>

McpStates == {"created", "initialized", "shutdown"}
CallSteps == {"idle", "sent", "opened", "applied", "refused", "answered"}
Results   == {"none", "ok"} \cup McpErrors

NoCall    == ToolCall("none", {}, {}, NoQuery)
NoRequest == [operation |-> "none", payload |-> NoBody, query |-> NoQuery]

ToolCalls ==
  {ToolCall(tool, {k}, e, NoQuery) :
     tool \in Tools \ {"context.query"}, k \in Keys, e \in Expectations}
  \cup {ToolCall("context.query", {}, {}, q) : q \in ToolQueries}

Init ==
  /\ ApiInit
  /\ mcp = "created"
  /\ call    = [c \in Calls |-> "idle"]
  /\ session = [c \in Calls |-> 0]
  /\ asked   = [c \in Calls |-> NoCall]
  /\ request = [c \in Calls |-> NoRequest]
  /\ result  = [c \in Calls |-> "none"]

-----------------------------------------------------------------------------
(* initialize works in every state, after a shutdown too.                  *)

Initialize ==
  /\ mcp # "initialized"
  /\ mcp' = "initialized"
  /\ UNCHANGED <<apiVars, call, session, asked, request, result>>

Shutdown ==
  /\ mcp # "shutdown"
  /\ mcp' = "shutdown"
  /\ UNCHANGED <<apiVars, call, session, asked, request, result>>

(* callTool, up to the request the host gets.                              *)
CallTool(c, made) ==
  /\ call[c] = "idle"
  /\ mcp = "initialized"
  /\ call'    = [call EXCEPT ![c] = "sent"]
  /\ asked'   = [asked EXCEPT ![c] = made]
  /\ request' = [request EXCEPT ![c] = ApiRequestFor(RequestForTool(made))]
  /\ UNCHANGED <<apiVars, mcp, session, result>>

CallRefused(c) ==
  /\ call[c] = "idle"
  /\ mcp # "initialized"
  /\ call'   = [call EXCEPT ![c] = "refused"]
  /\ result' = [result EXCEPT ![c] = "mcp.unavailable"]
  /\ UNCHANGED <<apiVars, mcp, session, asked, request>>

(* The composed store opens a session for the request, and keeps to its    *)
(* store from then on.                                                     *)
CallOpened(c) ==
  /\ call[c] = "sent"
  /\ connected
  /\ call'    = [call EXCEPT ![c] = "opened"]
  /\ session' = [session EXCEPT ![c] = restarts]
  /\ UNCHANGED <<apiVars, mcp, asked, request, result>>

CallUnavailable(c) ==
  /\ call[c] = "sent"
  /\ ~connected
  /\ call'   = [call EXCEPT ![c] = "applied"]
  /\ result' = [result EXCEPT ![c] = McpError(ApiError(ServiceError("io-failure")))]
  /\ UNCHANGED <<apiVars, mcp, session, asked, request>>

\* What the store of the session answers to the request of c.
Outcome(c) ==
  LET o   == OperationOf(request[c].operation)
      k   == CHOOSE k \in request[c].payload.key : TRUE
      map == records[session[c]]
  IN CASE o = "query"       -> "ok"
       [] o = "retrieve"    -> IF Has(map, k) THEN "ok" ELSE "not-found"
       [] o \in Operations -> WriteOutcome(map, o, k, request[c].payload.expected)

\* The records of that store after an accepted request of c.
Applied(c) ==
  LET o   == OperationOf(request[c].operation)
      map == records[session[c]]
  IN [k \in Keys |-> IF o \in Operations /\ k \in request[c].payload.key
                       THEN Written(map, o, k, c, 1) ELSE map[k]]

(* The request takes effect.                                               *)
CallApplied(c) ==
  /\ call[c] = "opened"
  /\ Outcome(c) = "ok"
  /\ call'   = [call EXCEPT ![c] = "applied"]
  /\ result' = [result EXCEPT ![c] = "ok"]
  /\ StoreBecomes(session[c], Applied(c))
  /\ revision' = [revision EXCEPT ![session[c]] =
       IF OperationOf(request[c].operation) \in Operations THEN @ + 1 ELSE @]
  /\ UNCHANGED <<providerVars, txVars, hostVars, scan, mcp, session, asked, request>>

(* The store rejects the request.                                          *)
CallRejected(c) ==
  /\ call[c] = "opened"
  /\ Outcome(c) # "ok"
  /\ call'   = [call EXCEPT ![c] = "applied"]
  /\ result' = [result EXCEPT ![c] = McpError(ApiError(ServiceError(Outcome(c))))]
  /\ UNCHANGED <<apiVars, mcp, session, asked, request>>

CallAnswered(c) ==
  /\ call[c] = "applied"
  /\ call' = [call EXCEPT ![c] = "answered"]
  /\ UNCHANGED <<apiVars, mcp, session, asked, request, result>>

McpNext ==
  \/ Initialize \/ Shutdown
  \/ \E c \in Calls :
       \/ \E made \in ToolCalls : CallTool(c, made)
       \/ CallRefused(c)  \/ CallOpened(c)   \/ CallUnavailable(c)
       \/ CallApplied(c)  \/ CallRejected(c) \/ CallAnswered(c)

Next ==
  \/ ApiNext /\ UNCHANGED mcpVars
  \/ McpNext

Spec == Init /\ [][Next]_vars

-----------------------------------------------------------------------------
(* Properties.                                                             *)

(* Every variable keeps its type.                                          *)
TypeOK ==
  /\ records \in [Stores -> RecordMap] /\ revision \in [Stores -> Nat]
  /\ connected \in BOOLEAN /\ restarts \in Stores
  /\ id \in [Txs -> Nat] /\ at \in [Txs -> Stores] /\ tState \in [Txs -> TxStates]
  /\ base \in [Txs -> RecordMap] /\ working \in [Txs -> RecordMap]
  /\ awaiting \subseteq Txs \X Keys
  /\ held \subseteq Txs /\ begin \in [Txs -> BeginSteps]
  /\ finish \in [Requests -> FinishSteps]
  /\ target \in [Requests -> Txs \cup {NoTx}]
  /\ answer \in [Requests -> Answers] /\ shared \subseteq Txs
  /\ scan \in [step : {"idle", "paging", "done"}, offset : Nat, got : [Keys -> Nat]]
  /\ scanned \in [start : SUBSET Keys, removed : BOOLEAN, added : BOOLEAN]
  /\ mcp \in McpStates /\ call \in [Calls -> CallSteps] /\ session \in [Calls -> Stores]
  /\ result \in [Calls -> Results]
  /\ \A r \in Requests : finish[r] = "idle" <=> target[r] = NoTx
  /\ \A t \in Txs : begin[t] = "idle" <=> tState[t] = "unused"

(* The host's map leads to the transactions that can still be finished: a  *)
(* transaction that is active and whose client was told its id is in it,   *)
(* unless another of the same id was in the map with it; and one that was  *)
(* committed or rolled back is in it only until the request that did so    *)
(* returns.  Transactions closed by a disconnect stay in the map.          *)
HandlesAreOpen ==
  /\ \A t \in Txs \ shared : begin[t] = "told" /\ tState[t] = "active" => t \in held
  /\ \A t \in held : tState[t] \in {"committed", "rolled-back"} =>
       \E r \in Requests : target[r] = t /\ finish[r] = "ok"
  /\ \A t, u \in held : id[t] = id[u] => t = u

SameId(t) == \E u \in Txs \ {t} : begin[u] # "idle" /\ id[u] = id[t]

(* What a client is told about its transaction is true, over the in-memory *)
(* provider and unless another transaction has had the same id: "ok" after *)
(* it was committed or rolled back as asked, and no other end; an error of *)
(* a commit while it is not committed, unless it is the "not found" of a   *)
(* transaction that has ended; "closed" to a rollback only after a commit  *)
(* or a disconnect.  And a tool call answered with an error has written to *)
(* no store.  (A commit that meets a conflict is told "closed" although    *)
(* its transaction is open: the in-memory provider has no other code.)     *)
AnswersAreTrue ==
  /\ \A t \in Txs : ~SameId(t) =>
       /\ answer[<<t, "commit">>] = "ok"   => tState[t] = "committed"
       /\ answer[<<t, "rollback">>] = "ok" => tState[t] = "rolled-back"
       /\ answer[<<t, "commit">>] = "api.transaction_closed" => tState[t] # "committed"
       /\ answer[<<t, "rollback">>] = "api.transaction_closed" =>
            tState[t] \in {"committed", "closed"}
       /\ \A f \in Finishes : answer[<<t, f>>] = "api.not_found" =>
            tState[t] \in {"committed", "rolled-back"}
  /\ \A c \in Calls : call[c] \in {"refused", "applied", "answered"} /\ result[c] # "ok" =>
       \A s \in Stores, k \in Keys : records[s][k].writer # c

(* A client that pages through the records in the order of their keys sees *)
(* each record that was there when it began, unless some record was        *)
(* removed meanwhile, and sees none twice, unless one was added.  A        *)
(* disconnect removes all that are there.                                  *)
ScanFindsWhatStays ==
  scan.step = "done" =>
    /\ ~scanned.removed => \A k \in scanned.start : scan.got[k] > 0
    /\ ~scanned.added   => \A k \in Keys : scan.got[k] <= 1

\* A list of keys that survives the way: not empty, and with no key that is
\* split or trimmed.
Plain(keys) == \A ks \in keys : ks # {} /\ \A k \in ks : Parts[k] = {k}

\* A query without an empty order, which means the same.
Cleaned(q) == ToolQuery(q.keys, q.order_by \ {<<>>}, q.limit, q.offset)

(* A tool call reaches the host as it was made: the operation, the key,    *)
(* the expected version and the query survive the two translations on the  *)
(* way.  Some queries do not: one for an empty list of keys, whose list is *)
(* dropped, and one for a key that the split at commas changes, because it *)
(* has commas or begins or ends with a blank.  Numbers are those below     *)
(* 10^21, whose text is read back.                                         *)
ToolCallsArriveAsMade ==
  \A c \in Calls : call[c] \in {"sent", "opened", "applied", "answered"} =>
    /\ request[c].operation = asked[c].tool
    /\ request[c].payload.key = asked[c].key
    /\ request[c].payload.expected =
         (IF asked[c].tool = "context.retrieve" THEN {} ELSE asked[c].expected)
    /\ Plain(asked[c].query.keys) =>
         request[c].query = Cleaned(asked[c].query)

(* The transactions of a store as SnapshotStore has them: without copies   *)
(* when they are not open.                                                 *)
OpenOf(s, t) == at[t] = s /\ tState[t] = "active"

StateOf(s)    == [t \in Txs |-> IF at[t] = s THEN tState[t] ELSE "unused"]
BaseOf(s)     == [t \in Txs |-> IF OpenOf(s, t) THEN base[t] ELSE EmptyMap]
CopyOf(s)     == [t \in Txs |-> IF OpenOf(s, t) THEN working[t] ELSE EmptyMap]
AwaitingOf(s) == {t \in Txs : at[t] = s /\ \E k \in Keys : <<t, k>> \in awaiting}

Snapshots(s) == INSTANCE SnapshotStore WITH
  None <- EmptyMap, records <- records[s], state <- StateOf(s),
  base <- BaseOf(s), copy <- CopyOf(s), awaiting <- AwaitingOf(s)

(* Through the service, the host and the integration, each store the       *)
(* in-memory provider has had keeps the promise of SnapshotStore, after    *)
(* the provider has given it up, too: a handle that leads to another       *)
(* transaction of the same id, a commit and a rollback sent at once, a     *)
(* tool call, a disconnect with requests under way: none of them commits a *)
(* conflict, or gives effect to a transaction that has ended.  A commit    *)
(* that does not wait for the writes of its transaction may.               *)
ImplementsSnapshots ==
  /\ \A s \in Stores : Snapshots(s)!Init
  /\ [][\A s \in Stores : [Snapshots(s)!Next]_(Snapshots(s)!vars)]_vars
=============================================================================
