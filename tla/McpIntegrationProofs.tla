------------------------- MODULE McpIntegrationProofs -------------------------
(***************************************************************************)
(* What TLAPS proves of McpIntegration, for every set of keys, clients and *)
(* tool calls, every page limit and every number of restarts.              *)
(***************************************************************************)
EXTENDS McpIntegration, ContextQueryProofs

USE WritersAssumption, NobodyAssumption, NoTxAssumption, PageAssumption, RestartsAssumption

-----------------------------------------------------------------------------
(* The two translations of a tool call.                                    *)

LEMMA RouteIsUnique ==
  ASSUME NEW rest, NEW method, NEW template, NEW operation,
         <<method, template, operation>> \in Routes,
         rest.method = method, Template(rest.path) = template
  PROVE  RouteFor(rest) = operation
<1> DEFINE Fits(route) == route[1] = rest.method /\ route[2] = Template(rest.path)
<1>1. Fits(<<method, template, operation>>)
  OBVIOUS
<1>2. \A route \in Routes : Fits(route) => route[3] = operation
  BY DEF Routes
<1>3. PICK route : route = (CHOOSE r \in Routes : Fits(r))
  OBVIOUS
<1>4. route \in Routes /\ Fits(route)
  BY <1>1, <1>3
<1>5. QED
  BY <1>2, <1>3, <1>4 DEF RouteFor

(* A call with a key.                                                      *)
LEMMA KeyCallArrives ==
  ASSUME NEW tool \in Tools \ {"context.query"}, NEW k \in Keys, NEW e \in Expectations
  PROVE  ApiRequestFor(RequestForTool(ToolCall(tool, {k}, e, NoQuery))) =
           [operation |-> tool,
            payload   |-> [key |-> {k},
                           expected |-> IF tool = "context.retrieve" THEN {} ELSE e],
            query     |-> NoQuery]
<1>1. PICK rest : rest = RequestForTool(ToolCall(tool, {k}, e, NoQuery))
  OBVIOUS
<1>2. SUFFICES /\ RouteFor(rest) = tool
               /\ PayloadFor(rest) =
                    [key |-> {k}, expected |-> IF tool = "context.retrieve" THEN {} ELSE e]
  BY <1>1 DEF ApiRequestFor
<1>3. CASE tool = "context.create"
  <2>1. rest = RestRequest("POST", {}, [key |-> {k}, expected |-> e], NoRestQuery)
    BY <1>1, <1>3 DEF ToolCall, RequestForTool
  <2>2. RouteFor(rest) = "context.create"
    BY <2>1, RouteIsUnique DEF Routes, RestRequest, Template
  <2>3. QED
    BY <1>3, <2>1, <2>2 DEF PayloadFor, RestRequest
<1>4. CASE tool = "context.retrieve"
  <2>1. rest = RestRequest("GET", {k}, NoBody, NoRestQuery)
    BY <1>1, <1>4 DEF ToolCall, RequestForTool
  <2>2. RouteFor(rest) = "context.retrieve"
    BY <2>1, RouteIsUnique DEF Routes, RestRequest, Template
  <2>3. QED
    BY <1>4, <2>1, <2>2 DEF PayloadFor, RestRequest, NoBody
<1>5. CASE tool = "context.update"
  <2>1. rest = RestRequest("PUT", {k}, [key |-> {}, expected |-> e], NoRestQuery)
    BY <1>1, <1>5 DEF ToolCall, RequestForTool, NoBody
  <2>2. RouteFor(rest) = "context.update"
    BY <2>1, RouteIsUnique DEF Routes, RestRequest, Template
  <2>3. ExpectedVersionFrom(rest) = e
    BY <2>1 DEF RestRequest, ExpectedVersionFrom, NoRestQuery
  <2>4. QED
    BY <1>5, <2>1, <2>2, <2>3 DEF PayloadFor, RestRequest
<1>6. CASE tool = "context.delete"
  <2>1. rest = RestRequest("DELETE", {k}, NoBody, [NoRestQuery EXCEPT !.expected_version = e])
    BY <1>1, <1>6 DEF ToolCall, RequestForTool
  <2>2. RouteFor(rest) = "context.delete"
    BY <2>1, RouteIsUnique DEF Routes, RestRequest, Template
  <2>3. ExpectedVersionFrom(rest) = e
    BY <2>1 DEF RestRequest, ExpectedVersionFrom, NoRestQuery, NoBody
  <2>4. QED
    BY <1>6, <2>1, <2>2, <2>3 DEF PayloadFor, RestRequest
<1>7. QED
  BY <1>3, <1>4, <1>5, <1>6 DEF Tools

(* A query.                                                                *)
LEMMA KeysArrive ==
  ASSUME NEW keys \in {{}} \cup {{ks} : ks \in SUBSET Keys}, Plain(keys)
  PROVE  (IF SplitCsv(UNION keys) = {} THEN {} ELSE {SplitCsv(UNION keys)}) = keys
<1>1. CASE keys = {}
  BY <1>1 DEF SplitCsv
<1>2. CASE keys # {}
  <2>1. PICK ks \in SUBSET Keys : keys = {ks}
    BY <1>2
  <2>2. ks # {} /\ \A k \in ks : Parts[k] = {k}
    BY <2>1 DEF Plain
  <2>3. UNION keys = ks
    BY <2>1
  <2>4. SplitCsv(ks) = ks
    BY <2>2 DEF SplitCsv
  <2>5. QED
    BY <2>1, <2>2, <2>3, <2>4
<1>3. QED
  BY <1>1, <1>2

LEMMA QueryRouted ==
  ASSUME NEW query
  PROVE  ApiRequestFor(RestRequest("GET", {}, NoBody, query)) =
           [operation |-> "context.query", payload |-> NoBody, query |-> QueryFromRest(query)]
<1>1. PICK rest : rest = RestRequest("GET", {}, NoBody, query)
  OBVIOUS
<1>2. RouteFor(rest) = "context.query"
  BY <1>1, RouteIsUnique DEF Routes, RestRequest, Template
<1>3. PayloadFor(rest) = NoBody
  BY <1>2 DEF PayloadFor
<1>4. QED
  BY <1>1, <1>2, <1>3 DEF ApiRequestFor, RestRequest

LEMMA CleanedQuery ==
  ASSUME NEW keys, NEW order, NEW limit, NEW offset
  PROVE  Cleaned(ToolQuery(keys, order, limit, offset)) =
           ToolQuery(keys, order \ {<<>>}, limit, offset)
BY DEF Cleaned, ToolQuery

LEMMA QueryCallArrives ==
  ASSUME NEW q \in ToolQueries, NEW api,
         api = ApiRequestFor(RequestForTool(ToolCall("context.query", {}, {}, q)))
  PROVE  /\ api.operation = "context.query"
         /\ api.payload = NoBody
         /\ Plain(q.keys) => api.query = Cleaned(q)
<1>1. PICK keys \in {{}} \cup {{ks} : ks \in SUBSET Keys},
           order \in {{}, {<<>>}, {DefaultOrder}},
           limit \in {{}} \cup {{n} : n \in 0..DefaultLimit},
           offset \in {{}} \cup {{n} : n \in 0..DefaultLimit} :
        q = ToolQuery(keys, order, limit, offset)
  BY ToolQueriesAssumption
<1>2. PICK rest : rest = RequestForTool(ToolCall("context.query", {}, {}, q))
  OBVIOUS
<1>3. PICK rq : rq = QueryFromObject(q)
  OBVIOUS
<1>4. rest = RestRequest("GET", {}, NoBody, rq)
  BY <1>2, <1>3 DEF ToolCall, RequestForTool
<1>5. api = [operation |-> "context.query", payload |-> NoBody, query |-> QueryFromRest(rq)]
  BY <1>2, <1>4, QueryRouted
<1>6. /\ rq.keys = UNION keys /\ rq.order_by = order \ {<<>>}
      /\ rq.limit = limit /\ rq.offset = offset
  BY <1>1, <1>3 DEF QueryFromObject, NoRestQuery, ToolQuery
<1>7. ASSUME Plain(q.keys)
      PROVE  QueryFromRest(rq) = Cleaned(q)
  <2>1. Plain(keys)
    BY <1>1, <1>7 DEF ToolQuery
  <2>2. QueryFromRest(rq) = ToolQuery(keys, order \ {<<>>}, limit, offset)
    BY <1>6, <2>1, KeysArrive DEF QueryFromRest
  <2>3. QED
    BY <1>1, <2>2, CleanedQuery
<1>8. api.operation = "context.query" /\ api.payload = NoBody /\ api.query = QueryFromRest(rq)
  BY <1>5
<1>9. QED
  BY <1>7, <1>8

(* The calls that have left the integration: what was made, and what came  *)
(* of it.                                                                  *)
Arrived ==
  \A c \in Calls : call[c] \in {"sent", "opened", "applied", "answered"} =>
    asked[c] \in ToolCalls /\ request[c] = ApiRequestFor(RequestForTool(asked[c]))

McpShape ==
  /\ call \in [Calls -> CallSteps] /\ DOMAIN asked = Calls /\ DOMAIN request = Calls

LEMMA ArrivedStep == McpShape /\ Arrived /\ [Next]_vars => McpShape' /\ Arrived'
<1> SUFFICES ASSUME McpShape, Arrived, [Next]_vars PROVE McpShape' /\ Arrived'
  OBVIOUS
<1>1. ASSUME NEW c \in Calls, NEW made \in ToolCalls, CallTool(c, made)
      PROVE  McpShape' /\ Arrived'
  BY <1>1 DEF CallTool, McpShape, Arrived, CallSteps
<1>2. ASSUME NEW c \in Calls,
             \/ CallRefused(c) \/ CallOpened(c) \/ CallUnavailable(c)
             \/ CallApplied(c) \/ CallRejected(c) \/ CallAnswered(c)
      PROVE  McpShape' /\ Arrived'
  BY <1>2 DEF CallRefused, CallOpened, CallUnavailable, CallApplied, CallRejected, CallAnswered,
              McpShape, Arrived, CallSteps
<1>3. CASE Initialize \/ Shutdown \/ UNCHANGED mcpVars
  BY <1>3 DEF Initialize, Shutdown, mcpVars, McpShape, Arrived
<1>4. QED
  BY <1>1, <1>2, <1>3 DEF Next, McpNext, vars

LEMMA ArrivedInit == Init => McpShape /\ Arrived
BY DEF Init, McpShape, Arrived, CallSteps

LEMMA CallsMade ==
  ASSUME NEW made \in ToolCalls
  PROVE  \/ \E tool \in Tools \ {"context.query"}, k \in Keys, e \in Expectations :
               made = ToolCall(tool, {k}, e, NoQuery)
         \/ \E q \in ToolQueries : made = ToolCall("context.query", {}, {}, q)
<1> DEFINE KeyCall(tool, k, e) == ToolCall(tool, {k}, e, NoQuery)
           QueryCall(q) == ToolCall("context.query", {}, {}, q)
<1>1. made \in {KeyCall(tool, k, e) :
                  tool \in Tools \ {"context.query"}, k \in Keys, e \in Expectations}
              \cup {QueryCall(q) : q \in ToolQueries}
  BY DEF ToolCalls
<1> HIDE DEF KeyCall, QueryCall
<1>2. \/ \E tool \in Tools \ {"context.query"}, k \in Keys, e \in Expectations :
           made = KeyCall(tool, k, e)
      \/ \E q \in ToolQueries : made = QueryCall(q)
  BY <1>1
<1>3. QED
  BY <1>2 DEF KeyCall, QueryCall

LEMMA ArrivedAsMade ==
  ASSUME Arrived, NEW c \in Calls, call[c] \in {"sent", "opened", "applied", "answered"}
  PROVE  /\ request[c].operation = asked[c].tool
         /\ request[c].payload.key = asked[c].key
         /\ request[c].payload.expected =
              (IF asked[c].tool = "context.retrieve" THEN {} ELSE asked[c].expected)
         /\ Plain(asked[c].query.keys) =>
              request[c].query = Cleaned(asked[c].query)
<1>1. PICK made \in ToolCalls :
        asked[c] = made /\ request[c] = ApiRequestFor(RequestForTool(made))
  BY DEF Arrived
<1>2. ASSUME NEW tool \in Tools \ {"context.query"}, NEW k \in Keys, NEW e \in Expectations,
             made = ToolCall(tool, {k}, e, NoQuery)
      PROVE  /\ request[c].operation = made.tool
             /\ request[c].payload.key = made.key
             /\ request[c].payload.expected =
                  (IF made.tool = "context.retrieve" THEN {} ELSE made.expected)
             /\ request[c].query = Cleaned(made.query)
  <2>1. /\ made.tool = tool /\ made.key = {k} /\ made.expected = e /\ made.query = NoQuery
    BY <1>2 DEF ToolCall
  <2>2. request[c] = [operation |-> tool,
            payload   |-> [key |-> {k},
                           expected |-> IF tool = "context.retrieve" THEN {} ELSE e],
            query     |-> NoQuery]
    BY <1>1, <1>2, KeyCallArrives
  <2>3. Cleaned(NoQuery) = NoQuery
    <3>1. {} \ {<<>>} = {}
      OBVIOUS
    <3>2. Cleaned(NoQuery) = ToolQuery({}, {} \ {<<>>}, {}, {})
      BY CleanedQuery DEF NoQuery
    <3>3. QED
      BY <3>1, <3>2 DEF NoQuery
  <2>4. QED
    BY <2>1, <2>2, <2>3
<1>3. ASSUME NEW q \in ToolQueries, made = ToolCall("context.query", {}, {}, q)
      PROVE  /\ request[c].operation = made.tool
             /\ request[c].payload.key = made.key
             /\ request[c].payload.expected =
                  (IF made.tool = "context.retrieve" THEN {} ELSE made.expected)
             /\ Plain(made.query.keys) =>
                  request[c].query = Cleaned(made.query)
  <2>1. /\ made.tool = "context.query" /\ made.key = {} /\ made.expected = {} /\ made.query = q
    BY <1>3 DEF ToolCall
  <2>2. /\ request[c].operation = "context.query"
        /\ request[c].payload = NoBody
        /\ Plain(q.keys) => request[c].query = Cleaned(q)
    BY <1>1, <1>3, QueryCallArrives
  <2>3. QED
    BY <2>1, <2>2 DEF NoBody
<1>4. \/ \E tool \in Tools \ {"context.query"}, k \in Keys, e \in Expectations :
           made = ToolCall(tool, {k}, e, NoQuery)
      \/ \E q \in ToolQueries : made = ToolCall("context.query", {}, {}, q)
  BY <1>1, CallsMade
<1>5. QED
  BY <1>1, <1>2, <1>3, <1>4

(* A tool call reaches the host as it was made.                            *)
THEOREM ToolCallsArriveAsMadeCorrect == Spec => []ToolCallsArriveAsMade
<1>1. McpShape /\ Arrived => ToolCallsArriveAsMade
  BY ArrivedAsMade DEF ToolCallsArriveAsMade
<1>2. QED
  BY <1>1, ArrivedInit, ArrivedStep, PTL DEF Spec

-----------------------------------------------------------------------------
(* The revision of a transaction is a number.                              *)

LEMMA TxRevisionIsNat ==
  ASSUME NEW t \in Txs, base \in [Txs -> RecordMap], working \in [Txs -> RecordMap],
         id \in [Txs -> Nat], id[t] >= 1
  PROVE  TxRevision(t) \in Nat
<1> DEFINE Version(k) == IF Has(working[t], k) THEN working[t][k].version
                                               ELSE base[t][k].version
           f == [k \in Touched(t) |-> Version(k)]
           S == Returned(t) \cup {id[t] - 1}
<1>1. Touched(t) \in SUBSET Keys
  BY DEF Touched, Changed
<1>2. \A k \in Keys : Version(k) \in Nat
  BY DEF RecordMap, Record
<1>3. f \in Surjection(Touched(t), Returned(t))
  BY DEF Surjection, Returned
<1>4. IsFiniteSet(Returned(t))
  BY <1>1, <1>3, FS_Subset, FS_Surjection, KeysFiniteAssumption
<1>5. IsFiniteSet(S)
  BY <1>4, FS_AddElement
<1>6. Returned(t) \subseteq Nat
  BY <1>1, <1>2 DEF Returned
<1>7. S \subseteq Nat /\ S \subseteq Int /\ S # {}
  BY <1>6
<1>8. \E n \in S : \A m \in S : m <= n
  BY <1>5, <1>7, HighestExists
<1>9. TxRevision(t) \in S
  BY <1>8 DEF TxRevision
<1>10. QED
  BY <1>7, <1>9

-----------------------------------------------------------------------------
(* Requests on the store.                                                  *)

LEMMA OperationsOfTools ==
  /\ \A tool \in Tools \ {"context.query"} :
       OperationOf(tool) \in {"create", "retrieve", "update", "delete"}
  /\ OperationOf("context.query") = "query"
BY DEF Tools, OperationOf

LEMMA WriteAnswered ==
  ASSUME NEW map, NEW o \in Operations, NEW k, NEW e
  PROVE  WriteOutcome(map, o, k, e) \in
           {"ok", "version-conflict", "duplicate-key", "not-found"}
BY DEF WriteOutcome, Operations, Accepts

LEMMA ErrorsTranslated ==
  \A error \in StoreErrors : /\ ApiError(ServiceError(error)) \in ApiErrors
                             /\ McpError(ApiError(ServiceError(error))) \in McpErrors
BY DEF StoreErrors, ServiceError, ApiError, McpError, ApiErrors, McpErrors

(* A request that was made by a tool call gets an answer the integration   *)
(* knows.                                                                  *)
LEMMA OutcomeKnown ==
  ASSUME Arrived, NEW c \in Calls, call[c] = "opened"
  PROVE  Outcome(c) \in StoreErrors \cup {"ok"}
<1>1. PICK o : o = OperationOf(request[c].operation)
  OBVIOUS
<1>2. o \in {"query", "retrieve"} \cup Operations
  <2>1. PICK made \in ToolCalls : asked[c] = made /\ request[c].operation = made.tool
    BY ArrivedAsMade DEF Arrived
  <2>2. made.tool \in Tools
    BY CallsMade DEF ToolCall, Tools
  <2>3. QED
    BY <1>1, <2>1, <2>2, OperationsOfTools DEF Operations
<1>3. PICK k : k = (CHOOSE j \in request[c].payload.key : TRUE)
  OBVIOUS
<1>4. PICK map : map = records[session[c]]
  OBVIOUS
<1>5. Outcome(c) =
        CASE o = "query"       -> "ok"
          [] o = "retrieve"    -> IF Has(map, k) THEN "ok" ELSE "not-found"
          [] o \in Operations -> WriteOutcome(map, o, k, request[c].payload.expected)
  BY <1>1, <1>3, <1>4 DEF Outcome
<1>6. o \in Operations => WriteOutcome(map, o, k, request[c].payload.expected) \in
           {"ok", "version-conflict", "duplicate-key", "not-found"}
  BY WriteAnswered
<1>7. QED
  BY <1>2, <1>5, <1>6 DEF StoreErrors, Operations

-----------------------------------------------------------------------------
(* The type invariant.  A transaction that was begun has a positive id, a  *)
(* write is that of one, and a provider that is disconnected may be        *)
(* connected again.                                                        *)

Numbered ==
  /\ \A t \in Txs : begin[t] # "idle" => id[t] >= 1
  /\ \A p \in awaiting : tState[p[1]] # "unused"
  /\ ~connected => restarts < MaxRestarts

TypeInv == TypeOK /\ Numbered

ScanStates    == [step : {"idle", "paging", "done"}, offset : Nat, got : [Keys -> Nat]]
ScannedStates == [start : SUBSET Keys, removed : BOOLEAN, added : BOOLEAN]

LEMMA WrittenIsRecord ==
  ASSUME NEW map \in RecordMap, NEW k \in Keys, NEW o, NEW w \in Writers
  PROVE  Written(map, o, k, w, 1) \in Record
BY DEF Written, Record, RecordMap, Absent

LEMMA EmptyMapIsRecordMap == EmptyMap \in RecordMap
BY DEF EmptyMap, RecordMap, Absent, Record

LEMMA VisibleTyped == TypeInv => Visible \in RecordMap
BY EmptyMapIsRecordMap DEF TypeInv, TypeOK, Visible

LEMMA NoticedTyped ==
  ASSUME scanned \in ScannedStates, NEW map
  PROVE  /\ Noticed(map) \in ScannedStates
         /\ Noticed(map).start = scanned.start
         /\ Noticed(map).removed =
              (scanned.removed \/ \E k \in Keys : Has(Visible, k) /\ ~Has(map, k))
         /\ Noticed(map).added =
              (scanned.added \/ \E k \in Keys : ~Has(Visible, k) /\ Has(map, k))
<1>1. PICK removed, added :
        /\ removed = (scanned.removed \/ \E k \in Keys : Has(Visible, k) /\ ~Has(map, k))
        /\ added   = (scanned.added   \/ \E k \in Keys : ~Has(Visible, k) /\ Has(map, k))
  OBVIOUS
<1>2. removed \in BOOLEAN /\ added \in BOOLEAN
  BY <1>1
<1>3. Noticed(map) = [scanned EXCEPT !.removed = removed, !.added = added]
  BY <1>1 DEF Noticed
<1>4. QED
  BY <1>1, <1>2, <1>3 DEF ScannedStates

LEMMA StoreTyped ==
  ASSUME TypeInv, NEW s \in Stores, NEW map \in RecordMap, StoreBecomes(s, map)
  PROVE  /\ records' \in [Stores -> RecordMap] /\ scanned' \in ScannedStates
         /\ records'[s] = map /\ \A u \in Stores \ {s} : records'[u] = records[u]
<1>1. scanned \in ScannedStates
  BY DEF TypeInv, TypeOK, ScannedStates
<1>2. scanned' \in ScannedStates
  BY <1>1, NoticedTyped DEF StoreBecomes
<1>3. QED
  BY <1>2 DEF StoreBecomes, TypeInv, TypeOK

LEMMA TypeInit == Init => TypeInv
<1> SUFFICES ASSUME Init PROVE TypeInv
  OBVIOUS
<1>0. 0 \in Stores
  BY DEF Stores
<1>1. records \in [Stores -> RecordMap] /\ revision \in [Stores -> Nat]
  <2>1. PICK keys \in SUBSET Keys :
          /\ records  = [s \in Stores |-> IF s = 0 THEN Stored(keys) ELSE EmptyMap]
          /\ revision = [s \in Stores |-> IF s = 0 THEN Cardinality(keys) ELSE 0]
    BY DEF Init, ApiInit
  <2>2. Cardinality(keys) \in Nat
    BY FS_Subset, FS_CardinalityType, KeysFiniteAssumption
  <2>3. Stored(keys) \in RecordMap
    BY DEF Stored, Absent, RecordMap, Record
  <2>4. QED
    BY <2>1, <2>2, <2>3, EmptyMapIsRecordMap
<1>2. connected \in BOOLEAN /\ restarts \in Stores
  BY <1>0 DEF Init, ApiInit
<1>3. /\ id \in [Txs -> Nat] /\ at \in [Txs -> Stores] /\ tState \in [Txs -> TxStates]
      /\ begin \in [Txs -> BeginSteps] /\ finish \in [Requests -> FinishSteps]
      /\ target \in [Requests -> Txs \cup {NoTx}] /\ answer \in [Requests -> Answers]
  BY <1>0 DEF Init, ApiInit, TxStates, BeginSteps, FinishSteps, Answers
<1>4. base \in [Txs -> RecordMap] /\ working \in [Txs -> RecordMap]
  BY EmptyMapIsRecordMap DEF Init, ApiInit
<1>5. held \subseteq Txs /\ shared \subseteq Txs /\ awaiting \subseteq Txs \X Keys
  BY DEF Init, ApiInit
<1>6. scan \in ScanStates /\ scanned \in ScannedStates
  BY DEF Init, ApiInit, ScanStates, ScannedStates
<1>7. /\ mcp \in McpStates /\ call \in [Calls -> CallSteps] /\ session \in [Calls -> Stores]
      /\ result \in [Calls -> Results]
  BY <1>0 DEF Init, McpStates, CallSteps, Results
<1>8. /\ \A r \in Requests : finish[r] = "idle" <=> target[r] = NoTx
      /\ \A t \in Txs : begin[t] = "idle" <=> tState[t] = "unused"
      /\ Numbered
  BY DEF Init, ApiInit, Numbered
<1>9. QED
  BY <1>1, <1>2, <1>3, <1>4, <1>5, <1>6, <1>7, <1>8
  DEF TypeInv, TypeOK, ScanStates, ScannedStates

(* A request that is under way has a target that was begun.                *)
LEMMA TargetTyped ==
  ASSUME TypeInv, NEW r \in Requests, finish[r] # "idle"
  PROVE  target[r] \in Txs
BY DEF TypeInv, TypeOK

(* The steps of the clients and of the host.                               *)
LEMMA TypeBegins ==
  ASSUME TypeInv, NEW c \in Txs, Begin(c) \/ BeginRegistered(c) \/ BeginReturns(c),
         UNCHANGED mcpVars
  PROVE  TypeInv'
<1>1. CASE Begin(c)
  <2>1. Visible \in RecordMap
    BY VisibleTyped
  <2>2. revision[restarts] \in Nat
    BY DEF TypeInv, TypeOK
  <2>3. /\ id' \in [Txs -> Nat] /\ at' \in [Txs -> Stores] /\ tState' \in [Txs -> TxStates]
        /\ base' \in [Txs -> RecordMap] /\ working' \in [Txs -> RecordMap]
        /\ begin' \in [Txs -> BeginSteps]
    BY <1>1, <2>1, <2>2 DEF TypeInv, TypeOK, Begin, TxStates, BeginSteps
  <2>4. \A t \in Txs : begin'[t] = "idle" <=> tState'[t] = "unused"
    BY <1>1 DEF TypeInv, TypeOK, Begin
  <2>5. Numbered'
    BY <1>1, <2>2 DEF TypeInv, TypeOK, Numbered, Begin, providerVars
  <2>6. QED
    BY <1>1, <2>3, <2>4, <2>5 DEF TypeInv, TypeOK, Begin, storeVars, providerVars, scanVars,
                                  mcpVars
<1>2. CASE BeginRegistered(c)
  BY <1>2 DEF TypeInv, TypeOK, Numbered, BeginRegistered, storeVars, providerVars,
              txVars, scanVars, mcpVars, BeginSteps
<1>3. CASE BeginReturns(c)
  <2>1. held' \subseteq Txs /\ shared' \subseteq Txs
    BY <1>3 DEF BeginReturns, With, Without, Rivals, TypeInv, TypeOK
  <2>2. QED
    BY <1>3, <2>1 DEF TypeInv, TypeOK, Numbered, BeginReturns, storeVars, providerVars,
                      txVars, scanVars, mcpVars, BeginSteps
<1>4. QED
  BY <1>1, <1>2, <1>3

LEMMA TypeWrites ==
  ASSUME TypeInv, NEW c \in Txs, NEW o \in Operations, NEW k \in Keys, TxWrite(c, o, k),
         UNCHANGED mcpVars
  PROVE  TypeInv'
<1>1. PICK t \in Txs :
        /\ tState[t] \in {"active", "closed"}
        /\ working' = [working EXCEPT ![t][k] = Written(working[t], o, k, c, 1)]
        /\ awaiting' = awaiting \/ awaiting' = awaiting \cup {<<t, k>>}
  BY DEF TxWrite, LookUp, TypeInv, TypeOK
<1>2. Written(working[t], o, k, c, 1) \in Record
  BY WrittenIsRecord DEF TypeInv, TypeOK
<1>3. working' \in [Txs -> RecordMap]
  BY <1>1, <1>2 DEF TypeInv, TypeOK, RecordMap
<1>4. awaiting' \subseteq Txs \X Keys /\ \A p \in awaiting' : tState[p[1]] # "unused"
  BY <1>1 DEF TypeInv, TypeOK, Numbered
<1>5. QED
  BY <1>3, <1>4 DEF TypeInv, TypeOK, Numbered, TxWrite, storeVars, providerVars, hostVars,
                    scanVars, mcpVars

LEMMA TypeResumes ==
  ASSUME TypeInv, NEW t \in Txs, NEW k \in Keys, TxWriteResumes(t, k), UNCHANGED mcpVars
  PROVE  TypeInv'
BY DEF TypeInv, TypeOK, Numbered, TxWriteResumes, storeVars, providerVars, hostVars, scanVars,
       mcpVars

(* A request that reaches a transaction.                                   *)
LEMMA TypeFinish ==
  ASSUME TypeInv, NEW r \in Requests, NEW t \in Txs,
         NEW outcome \in {"ok", "transaction-closed"}, Finish(r, t, outcome)
  PROVE  /\ finish' \in [Requests -> FinishSteps]
         /\ target' \in [Requests -> Txs \cup {NoTx}]
         /\ answer' \in [Requests -> Answers]
         /\ \A q \in Requests : finish'[q] = "idle" <=> target'[q] = NoTx
         /\ UNCHANGED <<connected, restarts, id, at, awaiting, held, begin, shared, scan>>
<1>1. /\ finish' = [finish EXCEPT ![r] = outcome]
      /\ target' = [target EXCEPT ![r] = t]
      /\ answer' = [answer EXCEPT ![r] = "none"]
      /\ UNCHANGED <<connected, restarts, id, at, awaiting, held, begin, shared, scan>>
  BY DEF Finish, providerVars
<1>2. QED
  BY <1>1 DEF TypeInv, TypeOK, FinishSteps, Answers

LEMMA TypeEnds ==
  ASSUME TypeInv, NEW t \in Txs, NEW state \in {"committed", "rolled-back"}, End(t, state)
  PROVE  /\ tState' \in [Txs -> TxStates]
         /\ base' \in [Txs -> RecordMap] /\ working' \in [Txs -> RecordMap]
         /\ \A u \in Txs : tState'[u] = "unused" <=> tState[u] = "unused"
BY EmptyMapIsRecordMap DEF End, TypeInv, TypeOK, TxStates

LEMMA TypeFinishes ==
  ASSUME TypeInv, NEW r \in Requests, NEW t \in Txs, UNCHANGED mcpVars,
         Commit(r, t) \/ CommitConflicts(r, t) \/ Rollback(r, t) \/ FinishClosed(r, t)
  PROVE  TypeInv'
<1>1. CASE Commit(r, t)
  <2>1. Finish(r, t, "ok") /\ End(t, "committed") /\ at[t] \in Stores
    BY <1>1 DEF Commit, TypeInv, TypeOK
  <2>2. begin[t] # "idle" /\ id[t] >= 1
    BY <2>1 DEF End, TypeInv, TypeOK, Numbered
  <2>3. TxRevision(t) \in Nat
    BY <2>2, TxRevisionIsNat DEF TypeInv, TypeOK
  <2>4. revision' \in [Stores -> Nat]
    BY <1>1, <2>3 DEF Commit, TypeInv, TypeOK
  <2>5. records' \in [Stores -> RecordMap] /\ scanned' \in ScannedStates
    BY <1>1, <2>1, StoreTyped DEF Commit, TypeInv, TypeOK
  <2>6. /\ finish' \in [Requests -> FinishSteps]
        /\ target' \in [Requests -> Txs \cup {NoTx}]
        /\ answer' \in [Requests -> Answers]
        /\ \A q \in Requests : finish'[q] = "idle" <=> target'[q] = NoTx
        /\ UNCHANGED <<connected, restarts, id, at, awaiting, held, begin, shared, scan>>
    BY <2>1, TypeFinish
  <2>7. QED
    BY <2>1, <2>4, <2>5, <2>6, TypeEnds DEF TypeInv, TypeOK, Numbered, mcpVars, ScannedStates
<1>2. CASE Rollback(r, t)
  <2>1. Finish(r, t, "ok") /\ End(t, "rolled-back") /\ UNCHANGED <<storeVars, scanned>>
    BY <1>2 DEF Rollback
  <2>2. /\ finish' \in [Requests -> FinishSteps]
        /\ target' \in [Requests -> Txs \cup {NoTx}]
        /\ answer' \in [Requests -> Answers]
        /\ \A q \in Requests : finish'[q] = "idle" <=> target'[q] = NoTx
        /\ UNCHANGED <<connected, restarts, id, at, awaiting, held, begin, shared, scan>>
    BY <2>1, TypeFinish
  <2>3. QED
    BY <2>1, <2>2, TypeEnds DEF TypeInv, TypeOK, Numbered, mcpVars, storeVars
<1>3. CASE CommitConflicts(r, t) \/ FinishClosed(r, t)
  <2>1. Finish(r, t, "transaction-closed") /\ UNCHANGED <<storeVars, tState, base, working, scanned>>
    BY <1>3 DEF CommitConflicts, FinishClosed
  <2>2. /\ finish' \in [Requests -> FinishSteps]
        /\ target' \in [Requests -> Txs \cup {NoTx}]
        /\ answer' \in [Requests -> Answers]
        /\ \A q \in Requests : finish'[q] = "idle" <=> target'[q] = NoTx
        /\ UNCHANGED <<connected, restarts, id, at, awaiting, held, begin, shared, scan>>
    BY <2>1, TypeFinish
  <2>3. QED
    BY <2>1, <2>2 DEF TypeInv, TypeOK, Numbered, mcpVars, storeVars
<1>4. QED
  BY <1>1, <1>2, <1>3

LEMMA TypeReturns ==
  ASSUME TypeInv, NEW r \in Requests, FinishUnknown(r) \/ FinishReturns(r), UNCHANGED mcpVars
  PROVE  TypeInv'
<1>1. CASE FinishUnknown(r)
  BY <1>1 DEF FinishUnknown, TypeInv, TypeOK, Numbered, Answers, ApiErrors, storeVars,
              providerVars, txVars, scanVars, mcpVars
<1>2. CASE FinishReturns(r)
  <2>1. held' \subseteq Txs
    BY <1>2 DEF FinishReturns, Forget, Without, TypeInv, TypeOK
  <2>2. finish[r] \in {"ok", "transaction-closed"}
    BY <1>2 DEF FinishReturns, TypeInv, TypeOK, FinishSteps
  <2>3. answer' \in [Requests -> Answers]
    <3>1. PICK a : a = (IF finish[r] = "ok" THEN "ok" ELSE ApiError(ServiceError(finish[r])))
      OBVIOUS
    <3>2. a \in Answers
      BY <2>2, <3>1, ErrorsTranslated DEF Answers, StoreErrors
    <3>3. answer' = [answer EXCEPT ![r] = a]
      BY <1>2, <3>1 DEF FinishReturns
    <3>4. QED
      BY <3>2, <3>3 DEF TypeInv, TypeOK
  <2>4. QED
    BY <1>2, <2>1, <2>3 DEF FinishReturns, TypeInv, TypeOK, Numbered, FinishSteps, storeVars,
              providerVars, txVars, scanVars, mcpVars
<1>3. QED
  BY <1>1, <1>2

LEMMA TypeProvider ==
  ASSUME TypeInv, Stop \/ Start, UNCHANGED mcpVars
  PROVE  TypeInv'
<1>1. CASE Stop
  <2>1. tState' \in [Txs -> TxStates]
    BY <1>1 DEF Stop, TypeInv, TypeOK, TxStates
  <2>2. \A t \in Txs : tState'[t] = "unused" <=> tState[t] = "unused"
    BY <1>1 DEF Stop
  <2>3. connected' \in BOOLEAN
    BY <1>1 DEF Stop
  <2>4. scanned' \in ScannedStates
    BY <1>1, NoticedTyped DEF Stop, TypeInv, TypeOK, ScannedStates
  <2>5. QED
    BY <1>1, <2>1, <2>2, <2>3, <2>4 DEF Stop, TypeInv, TypeOK, Numbered, storeVars, hostVars,
                                        mcpVars, ScannedStates
<1>2. CASE Start
  <2>1. connected' \in BOOLEAN /\ restarts' \in Stores
    BY <1>2 DEF Start, TypeInv, TypeOK, Numbered, Stores
  <2>2. UNCHANGED <<storeVars, txVars, hostVars, scanVars>>
    BY <1>2 DEF Start
  <2>3. QED
    BY <1>2, <2>1, <2>2 DEF TypeInv, TypeOK, Numbered, Start, storeVars, txVars, hostVars,
                      scanVars, mcpVars
<1>3. QED
  BY <1>1, <1>2

LEMMA PageTyped ==
  ASSUME NEW map, NEW offset \in Nat
  PROVE  NextOffset(map, Query(Keys, Nat, DefaultOrder, {PageLimit}, offset)) \in Nat
<1>1. PICK q : q = Query(Keys, Nat, DefaultOrder, {PageLimit}, offset)
  OBVIOUS
<1>2. Items(map, q) \in SUBSET Keys /\ q.offset = offset
  BY <1>1 DEF Items, Selected, Query
<1>3. Cardinality(Items(map, q)) \in Nat
  BY <1>2, FS_Subset, FS_CardinalityType, KeysFiniteAssumption
<1>4. QED
  BY <1>1, <1>2, <1>3 DEF NextOffset

LEMMA TypeScans ==
  ASSUME TypeInv, ScanStart \/ ScanPage, UNCHANGED mcpVars
  PROVE  TypeInv'
<1>1. scan' \in ScanStates /\ scanned' \in ScannedStates
  <2>0. scan \in ScanStates /\ scanned \in ScannedStates
    BY DEF TypeInv, TypeOK, ScanStates, ScannedStates
  <2>1. CASE ScanStart
    BY <2>0, <2>1 DEF ScanStart, ScanStates, ScannedStates
  <2>2. CASE ScanPage
    <3>1. PICK step, offset, seen :
            /\ step \in {"paging", "done"} /\ offset = NextOffset(Visible, PageQuery)
            /\ seen = {k \in Keys : k \in Items(Visible, PageQuery)}
            /\ scan' = [step |-> step, offset |-> offset,
                        got |-> [k \in Keys |-> IF k \in seen
                                                  THEN scan.got[k] + 1 ELSE scan.got[k]]]
      <4>1. PICK step, seen :
              /\ step = (IF HasMore(Visible, PageQuery) THEN "paging" ELSE "done")
              /\ seen = {k \in Keys : k \in Items(Visible, PageQuery)}
        OBVIOUS
      <4>2. \A k \in Keys : k \in seen <=> k \in Items(Visible, PageQuery)
        BY <4>1
      <4>3. QED
        BY <2>2, <4>1, <4>2, ZenonT(30) DEF ScanPage
    <3>2. scan.offset \in Nat /\ scan.got \in [Keys -> Nat]
      BY <2>0 DEF ScanStates
    <3>3. offset \in Nat
      BY <3>1, <3>2, PageTyped DEF PageQuery
    <3>4. QED
      BY <2>0, <2>2, <3>1, <3>2, <3>3 DEF ScanStates, ScanPage
  <2>3. QED
    BY <2>1, <2>2
<1>2. UNCHANGED <<storeVars, providerVars, txVars, hostVars>>
  BY DEF ScanStart, ScanPage
<1>3. QED
  BY <1>1, <1>2 DEF TypeInv, TypeOK, Numbered, storeVars, providerVars, txVars, hostVars,
                    mcpVars, ScanStates, ScannedStates

(* The steps of the integration.                                           *)
LEMMA AppliedIs ==
  ASSUME TypeInv, NEW c \in Calls, NEW map, map = records[session[c]],
         NEW o, o = OperationOf(request[c].operation), NEW key, key = request[c].payload.key
  PROVE  /\ session[c] \in Stores /\ map \in RecordMap
         /\ Applied(c) = [k \in Keys |-> IF o \in Operations /\ k \in key
                                           THEN Written(map, o, k, c, 1) ELSE map[k]]
         /\ Applied(c) \in RecordMap
<1>1. session[c] \in Stores /\ map \in RecordMap
  BY DEF TypeInv, TypeOK
<1>2. \A k \in Keys : Written(map, o, k, c, 1) \in Record /\ map[k] \in Record
  BY <1>1, WrittenIsRecord DEF RecordMap
<1>3. Applied(c) = [k \in Keys |-> IF o \in Operations /\ k \in key
                                     THEN Written(map, o, k, c, 1) ELSE map[k]]
  BY DEF Applied
<1>4. QED
  BY <1>1, <1>2, <1>3 DEF RecordMap

LEMMA TypeMcp ==
  ASSUME TypeInv, Arrived, McpNext
  PROVE  TypeInv'
<1>1. CASE Initialize \/ Shutdown
  BY <1>1 DEF Initialize, Shutdown, TypeInv, TypeOK, Numbered, apiVars, storeVars, providerVars,
              txVars, hostVars, scanVars, McpStates
<1>2. ASSUME NEW c \in Calls, NEW made \in ToolCalls, CallTool(c, made) PROVE TypeInv'
  BY <1>2 DEF CallTool, TypeInv, TypeOK, Numbered, apiVars, storeVars, providerVars,
              txVars, hostVars, scanVars, CallSteps
<1>3. ASSUME NEW c \in Calls, CallRefused(c) \/ CallAnswered(c) PROVE TypeInv'
  BY <1>3 DEF CallRefused, CallAnswered, TypeInv, TypeOK, Numbered, apiVars, storeVars,
              providerVars, txVars, hostVars, scanVars, CallSteps, Results, McpErrors
<1>4. ASSUME NEW c \in Calls, CallOpened(c) PROVE TypeInv'
  BY <1>4 DEF CallOpened, TypeInv, TypeOK, Numbered, apiVars, storeVars, providerVars,
              txVars, hostVars, scanVars, CallSteps
<1>5. ASSUME NEW c \in Calls, CallApplied(c) PROVE TypeInv'
  <2>1. records' \in [Stores -> RecordMap] /\ scanned' \in ScannedStates
    BY <1>5, StoreTyped, AppliedIs DEF CallApplied
  <2>2. revision' \in [Stores -> Nat]
    BY <1>5 DEF CallApplied, TypeInv, TypeOK
  <2>3. call' \in [Calls -> CallSteps] /\ result' \in [Calls -> Results]
    BY <1>5 DEF CallApplied, TypeInv, TypeOK, CallSteps, Results
  <2>4. QED
    BY <1>5, <2>1, <2>2, <2>3 DEF CallApplied, TypeInv, TypeOK, Numbered, providerVars,
                                  txVars, hostVars, ScannedStates
<1>6. ASSUME NEW c \in Calls, CallRejected(c) \/ CallUnavailable(c) PROVE TypeInv'
  <2>1. PICK error : /\ error \in StoreErrors
                     /\ call'   = [call EXCEPT ![c] = "applied"]
                     /\ result' = [result EXCEPT ![c] = McpError(ApiError(ServiceError(error)))]
                     /\ UNCHANGED <<apiVars, mcp, session>>
    <3>1. CASE CallRejected(c)
      BY <3>1, OutcomeKnown DEF CallRejected
    <3>2. CASE CallUnavailable(c)
      BY <3>2 DEF CallUnavailable, StoreErrors
    <3>3. QED
      BY <1>6, <3>1, <3>2
  <2>2. McpError(ApiError(ServiceError(error))) \in Results
    BY <2>1, ErrorsTranslated DEF Results
  <2>3. call' \in [Calls -> CallSteps] /\ result' \in [Calls -> Results]
    BY <2>1, <2>2 DEF TypeInv, TypeOK, CallSteps
  <2>4. QED
    BY <2>1, <2>3 DEF TypeInv, TypeOK, Numbered, apiVars, storeVars,
                      providerVars, txVars, hostVars, scanVars
<1>7. QED
  BY <1>1, <1>2, <1>3, <1>4, <1>5, <1>6 DEF McpNext

LEMMA TypeStep == TypeInv /\ Arrived /\ [Next]_vars => TypeInv'
<1> SUFFICES ASSUME TypeInv, Arrived, [Next]_vars PROVE TypeInv'
  OBVIOUS
<1>1. CASE ApiNext /\ UNCHANGED mcpVars
  BY <1>1, TypeBegins, TypeWrites, TypeResumes, TypeFinishes, TypeReturns, TypeProvider, TypeScans
  DEF ApiNext
<1>2. CASE McpNext
  BY <1>2, TypeMcp
<1>3. CASE UNCHANGED vars
  BY <1>3 DEF vars, apiVars, mcpVars, storeVars, providerVars, txVars, hostVars, scanVars,
              TypeInv, TypeOK, Numbered
<1>4. QED
  BY <1>1, <1>2, <1>3 DEF Next

(* Every variable keeps its type, for every instance.                      *)
THEOREM TypeCorrect == Spec => []TypeOK
<1>1. TypeInv => TypeOK
  BY DEF TypeInv
<1>2. QED
  BY <1>1, TypeInit, TypeStep, ArrivedInit, ArrivedStep, PTL DEF Spec

-----------------------------------------------------------------------------
(* The handles of the host.                                                *)

Ended(t) == tState[t] \in {"committed", "rolled-back"}

(* Only transactions whose clients were told their ids are in the map, or  *)
(* are a request's target, and a transaction that no client was told of    *)
(* has not been finished.                                                  *)
ToldFirst ==
  /\ \A t \in held : begin[t] = "told"
  /\ \A r \in Requests : target[r] \in Txs => begin[target[r]] = "told"
  /\ \A t \in Txs : begin[t] \in {"opened", "begun"} => tState[t] \in {"active", "closed"}

(* What a request is about to forget: a transaction that has ended, or one *)
(* that shares its id.                                                     *)
ForgetsEnded ==
  /\ \A r \in Requests : finish[r] = "ok" => Ended(target[r])
  /\ \A r \in Requests : \A u \in held :
       target[r] \in Txs /\ id[u] = id[target[r]] /\ u # target[r] => u \in shared

HandlesKept ==
  /\ \A t \in Txs \ shared :
       begin[t] = "told" /\ tState[t] \in {"active", "closed"} => t \in held
  /\ \A t \in held : Ended(t) => \E r \in Requests : target[r] = t /\ finish[r] = "ok"
  /\ \A t, u \in held : id[t] = id[u] => t = u

HostInv == ToldFirst /\ ForgetsEnded /\ HandlesKept

LEMMA HostInit == Init => HostInv
BY NoTxAssumption DEF Init, ApiInit, HostInv, ToldFirst, ForgetsEnded, HandlesKept, Ended

LEMMA HostBegin ==
  ASSUME TypeInv, HostInv, NEW c \in Txs, Begin(c)
  PROVE  HostInv'
<1>1. c \notin held /\ \A r \in Requests : target[r] # c
  BY DEF Begin, HostInv, ToldFirst, TypeInv, TypeOK
<1>2. /\ \A t \in Txs \ {c} : begin'[t] = begin[t] /\ id'[t] = id[t] /\ tState'[t] = tState[t]
      /\ begin'[c] = "opened" /\ tState'[c] = "active"
      /\ held' = held /\ finish' = finish /\ target' = target /\ shared' = shared
  BY DEF Begin, TypeInv, TypeOK
<1>3. held \subseteq Txs /\ \A r \in Requests : finish[r] = "ok" => target[r] \in Txs
  BY TargetTyped DEF TypeInv, TypeOK
<1>4. ToldFirst'
  BY <1>1, <1>2, <1>3 DEF HostInv, ToldFirst
<1>5. ForgetsEnded'
  BY <1>1, <1>2, <1>3 DEF HostInv, ForgetsEnded, Ended
<1>6. HandlesKept'
  BY <1>1, <1>2, <1>3 DEF HostInv, HandlesKept, Ended
<1>7. QED
  BY <1>4, <1>5, <1>6 DEF HostInv

LEMMA HostBeginRegistered ==
  ASSUME TypeInv, HostInv, NEW c \in Txs, BeginRegistered(c)
  PROVE  HostInv'
<1>1. /\ begin[c] = "opened" /\ begin'[c] = "begun"
      /\ \A t \in Txs \ {c} : begin'[t] = begin[t]
      /\ UNCHANGED <<id, tState, held, finish, target, shared>>
  BY DEF BeginRegistered, txVars, TypeInv, TypeOK
<1>2. held \subseteq Txs
  BY DEF TypeInv, TypeOK
<1>3. QED
  BY <1>1, <1>2 DEF HostInv, ToldFirst, ForgetsEnded, HandlesKept, Ended

LEMMA HostBeginReturns ==
  ASSUME TypeInv, HostInv, NEW c \in Txs, BeginReturns(c)
  PROVE  HostInv'
<1>1. c \notin held /\ (\A r \in Requests : target[r] # c) /\ ~Ended(c)
  BY DEF BeginReturns, HostInv, ToldFirst, Ended
<1>2. /\ \A t \in Txs \ {c} : begin'[t] = begin[t]
      /\ begin'[c] = "told" /\ id' = id /\ tState' = tState
      /\ finish' = finish /\ target' = target
  BY DEF BeginReturns, txVars, TypeInv, TypeOK
<1>3. /\ held' = {t \in held : id[t] # id[c]} \cup {c}
      /\ shared \subseteq shared'
      /\ \A t \in Rivals(c) : t \in shared' /\ c \in shared'
  BY DEF BeginReturns, With, Without
<1>4. held \subseteq Txs /\ \A r \in Requests : finish[r] = "ok" => target[r] \in Txs
  BY TargetTyped DEF TypeInv, TypeOK
<1>5. /\ \A t \in held : id[t] = id[c] => t \in Rivals(c)
      /\ \A r \in Requests : target[r] \in Txs /\ id[target[r]] = id[c] => target[r] \in Rivals(c)
  BY <1>1, <1>4 DEF Rivals
<1>6. ToldFirst'
  BY <1>1, <1>2, <1>3, <1>4 DEF HostInv, ToldFirst
<1>7. ForgetsEnded'
  BY <1>1, <1>2, <1>3, <1>4, <1>5 DEF HostInv, ForgetsEnded, Ended
<1>8. HandlesKept'
  <2>1. \A t \in Txs \ shared' :
          begin'[t] = "told" /\ tState'[t] \in {"active", "closed"} => t \in held'
    BY <1>1, <1>2, <1>3, <1>4, <1>5 DEF HostInv, HandlesKept
  <2>2. \A t \in held' : Ended(t)' => \E r \in Requests : target'[r] = t /\ finish'[r] = "ok"
    BY <1>1, <1>2, <1>3, <1>4 DEF HostInv, HandlesKept, Ended
  <2>3. \A t, u \in held' : id'[t] = id'[u] => t = u
    BY <1>2, <1>3 DEF HostInv, HandlesKept
  <2>4. QED
    BY <2>1, <2>2, <2>3 DEF HandlesKept
<1>9. QED
  BY <1>6, <1>7, <1>8 DEF HostInv

(* A request reaches a transaction of the map, and ends it or fails.       *)
LEMMA HostFinish ==
  ASSUME TypeInv, HostInv, NEW r \in Requests, NEW t \in Txs, NEW outcome, Finish(r, t, outcome),
         \/ outcome = "transaction-closed" /\ tState' = tState
         \/ /\ outcome = "ok" /\ tState[t] = "active" /\ tState'[t] \in {"committed", "rolled-back"}
            /\ \A u \in Txs \ {t} : tState'[u] = tState[u]
  PROVE  HostInv'
<1>1. /\ finish[r] = "idle" /\ t \in held /\ id[t] = id[r[1]]
      /\ begin' = begin /\ id' = id /\ held' = held /\ shared' = shared
  BY DEF Finish, LookUp
<1>2. /\ held \subseteq Txs
      /\ target'[r] = t /\ \A q \in Requests \ {r} : target'[q] = target[q]
      /\ finish'[r] = outcome /\ \A q \in Requests \ {r} : finish'[q] = finish[q]
      /\ \A q \in Requests : finish[q] = "ok" => target[q] \in Txs
  BY TargetTyped DEF Finish, TypeInv, TypeOK
<1>3. \A u \in Txs : Ended(u) => tState'[u] = tState[u]
  BY DEF Ended
<1>4. ToldFirst'
  BY <1>1, <1>2 DEF HostInv, ToldFirst
<1>5. ForgetsEnded'
  <2>1. \A q \in Requests : finish'[q] = "ok" => tState'[target'[q]] \in {"committed", "rolled-back"}
    BY <1>2, <1>3 DEF HostInv, ForgetsEnded, Ended
  <2>2. ASSUME NEW q \in Requests, NEW u \in held, target'[q] \in Txs,
               id[u] = id[target'[q]], u # target'[q]
        PROVE  u \in shared
    <3>1. q # r
      BY <1>1, <1>2, <2>2 DEF HostInv, HandlesKept
    <3>2. QED
      BY <1>2, <2>2, <3>1 DEF HostInv, ForgetsEnded
  <2>3. QED
    BY <1>1, <2>1, <2>2 DEF ForgetsEnded, Ended
<1>6. HandlesKept'
  <2>1. \A u \in Txs \ shared :
          begin[u] = "told" /\ tState'[u] \in {"active", "closed"} => u \in held
    BY <1>1, <1>2 DEF HostInv, HandlesKept
  <2>2. \A u \in held : Ended(u)' => \E q \in Requests : target'[q] = u /\ finish'[q] = "ok"
    BY <1>1, <1>2 DEF HostInv, HandlesKept, Ended
  <2>3. QED
    BY <1>1, <2>1, <2>2 DEF HostInv, HandlesKept
<1>7. QED
  BY <1>4, <1>5, <1>6 DEF HostInv

(* What the requests that reach a transaction do, but for its records.     *)
LEMMA FinishOutcomes ==
  ASSUME TypeInv, NEW r \in Requests, NEW t \in Txs,
         Commit(r, t) \/ CommitConflicts(r, t) \/ Rollback(r, t) \/ FinishClosed(r, t)
  PROVE  \/ /\ Finish(r, t, "ok") /\ tState[t] = "active"
            /\ tState'[t] = (IF r[2] = "commit" THEN "committed" ELSE "rolled-back")
            /\ \A u \in Txs \ {t} : tState'[u] = tState[u]
         \/ /\ Finish(r, t, "transaction-closed") /\ tState' = tState
            /\ tState[t] # "active" \/ r[2] = "commit"
<1>1. CASE Commit(r, t)
  BY <1>1 DEF Commit, End, TypeInv, TypeOK
<1>2. CASE Rollback(r, t)
  BY <1>2 DEF Rollback, End, TypeInv, TypeOK
<1>3. CASE CommitConflicts(r, t)
  BY <1>3 DEF CommitConflicts
<1>4. CASE FinishClosed(r, t)
  BY <1>4 DEF FinishClosed
<1>5. QED
  BY <1>1, <1>2, <1>3, <1>4

LEMMA HostFinishReturns ==
  ASSUME TypeInv, HostInv, NEW r \in Requests, FinishReturns(r)
  PROVE  HostInv'
<1>1. PICK t \in Txs : t = target[r]
  BY TargetTyped DEF FinishReturns
<1>2. /\ finish'[r] = "idle" /\ \A q \in Requests \ {r} : finish'[q] = finish[q]
      /\ target'[r] = NoTx /\ \A q \in Requests \ {r} : target'[q] = target[q]
      /\ UNCHANGED <<id, tState, begin, shared>>
  BY DEF FinishReturns, txVars, TypeInv, TypeOK
<1>3. /\ held' \subseteq held
      /\ finish[r] # "ok" => held' = held
      /\ finish[r] = "ok" => held' = {u \in held : id[u] # id[t]}
  BY <1>1 DEF FinishReturns, Forget, Without
<1>4. held \subseteq Txs /\ \A q \in Requests : finish[q] = "ok" => target[q] \in Txs
  BY TargetTyped DEF TypeInv, TypeOK
<1>5. ToldFirst'
  BY <1>2, <1>3, <1>4, NoTxAssumption DEF HostInv, ToldFirst
<1>6. ForgetsEnded'
  BY <1>2, <1>3, <1>4, NoTxAssumption DEF HostInv, ForgetsEnded, Ended
<1>7. HandlesKept'
  <2>1. \A u \in Txs \ shared' :
          begin'[u] = "told" /\ tState'[u] \in {"active", "closed"} => u \in held'
    <3>1. finish[r] = "ok" => Ended(t)
      BY <1>1 DEF HostInv, ForgetsEnded
    <3>2. finish[r] = "ok" => \A u \in held : id[u] = id[t] /\ u # t => u \in shared
      BY <1>1 DEF HostInv, ForgetsEnded
    <3>3. QED
      BY <1>2, <1>3, <3>1, <3>2 DEF HostInv, HandlesKept, Ended
  <2>2. \A u \in held' : Ended(u)' => \E q \in Requests : target'[q] = u /\ finish'[q] = "ok"
    BY <1>1, <1>2, <1>3 DEF HostInv, HandlesKept, Ended
  <2>3. \A u, v \in held' : id'[u] = id'[v] => u = v
    BY <1>2, <1>3 DEF HostInv, HandlesKept
  <2>4. QED
    BY <2>1, <2>2, <2>3 DEF HandlesKept
<1>8. QED
  BY <1>5, <1>6, <1>7 DEF HostInv

LEMMA StopCloses ==
  ASSUME Stop
  PROVE  /\ \A t \in Txs : tState'[t] = tState[t] \/ (tState[t] = "active" /\ tState'[t] = "closed")
         /\ UNCHANGED <<id, begin, held, finish, target, answer, shared>>
<1>1. tState' = [t \in Txs |-> IF tState[t] = "active" /\ begin[t] # "opened"
                                THEN "closed" ELSE tState[t]]
  BY DEF Stop
<1>2. UNCHANGED <<id, begin, held, finish, target, answer, shared>>
  BY DEF Stop, hostVars
<1>3. QED
  BY <1>1, <1>2

LEMMA HostStop ==
  ASSUME TypeInv, HostInv, Stop
  PROVE  HostInv'
<1>1. /\ \A t \in Txs : tState'[t] = tState[t] \/ (tState[t] = "active" /\ tState'[t] = "closed")
      /\ UNCHANGED <<id, held, begin, finish, target, shared>>
  BY StopCloses
<1>2. held \subseteq Txs /\ \A q \in Requests : finish[q] = "ok" => target[q] \in Txs
  BY TargetTyped DEF TypeInv, TypeOK
<1>3. QED
  BY <1>1, <1>2 DEF HostInv, ToldFirst, ForgetsEnded, HandlesKept, Ended

LEMMA McpLeavesHost ==
  ASSUME McpNext \/ UNCHANGED vars
  PROVE  UNCHANGED <<txVars, hostVars>>
BY DEF McpNext, Initialize, Shutdown, CallTool, CallRefused, CallOpened, CallUnavailable,
       CallApplied, CallRejected, CallAnswered, apiVars, vars

LEMMA HostStep == TypeInv /\ HostInv /\ [Next]_vars => HostInv'
<1> SUFFICES ASSUME TypeInv, HostInv, [Next]_vars PROVE HostInv'
  OBVIOUS
<1>1. ASSUME NEW r \in Requests, NEW t \in Txs,
             Commit(r, t) \/ CommitConflicts(r, t) \/ Rollback(r, t) \/ FinishClosed(r, t)
      PROVE  HostInv'
  BY <1>1, FinishOutcomes, HostFinish
<1>2. ASSUME UNCHANGED <<id, tState, held, begin, finish, target, shared>> PROVE HostInv'
  BY <1>2 DEF HostInv, ToldFirst, ForgetsEnded, HandlesKept, Ended
<1>3. CASE ApiNext
  <2>1. ASSUME NEW c \in Txs, NEW o \in Operations, NEW k \in Keys, TxWrite(c, o, k)
        PROVE  HostInv'
    BY <1>2, <2>1 DEF TxWrite, hostVars
  <2>2. ASSUME NEW t \in Txs, NEW k \in Keys, TxWriteResumes(t, k) PROVE HostInv'
    BY <1>2, <2>2 DEF TxWriteResumes, hostVars
  <2>3. ASSUME NEW r \in Requests, FinishUnknown(r) PROVE HostInv'
    BY <1>2, <2>3 DEF FinishUnknown, txVars
  <2>4. CASE Start \/ ScanStart \/ ScanPage
    BY <1>2, <2>4 DEF Start, ScanStart, ScanPage, txVars, hostVars
  <2>5. QED
    BY <1>1, <1>3, <2>1, <2>2, <2>3, <2>4, HostBegin, HostBeginRegistered, HostBeginReturns,
       HostFinishReturns, HostStop DEF ApiNext
<1>4. CASE McpNext \/ UNCHANGED vars
  BY <1>2, <1>4, McpLeavesHost DEF txVars, hostVars
<1>5. QED
  BY <1>3, <1>4 DEF Next

(* The host's map leads to the transactions that can still be finished,    *)
(* for any number of clients.                                              *)
THEOREM HandlesAreOpenCorrect == Spec => []HandlesAreOpen
<1>1. HostInv => HandlesAreOpen
  BY DEF HostInv, HandlesKept, HandlesAreOpen, Ended
<1>2. QED
  BY <1>1, TypeInit, TypeStep, ArrivedInit, ArrivedStep, HostInit, HostStep, PTL DEF Spec

-----------------------------------------------------------------------------
(* The answers of the host.                                                *)

StateAfter(r) == IF r[2] = "commit" THEN "committed" ELSE "rolled-back"

(* A request is answered about a transaction of the id its client knows,   *)
(* and has no answer while it is under way.                                *)
Addressed ==
  /\ \A r \in Requests : target[r] \in Txs =>
       begin[r[1]] = "told" /\ id[target[r]] = id[r[1]]
  /\ \A r \in Requests : finish[r] # "idle" => answer[r] = "none"
  /\ \A r \in Requests : answer[r] # "none" => begin[r[1]] = "told"
  /\ \A t \in shared : begin[t] # "idle" /\ SameId(t)

(* A request that failed did not end the transaction, and a rollback fails *)
(* only when the transaction has ended.                                    *)
NotFinished(r) ==
  /\ r[2] = "commit" => tState[r[1]] # "committed"
  /\ r[2] = "rollback" => tState[r[1]] \in {"committed", "closed"}

TrueOf(r) ==
  /\ finish[r] = "ok" => tState[r[1]] = StateAfter(r)
  /\ finish[r] = "transaction-closed" => NotFinished(r)
  /\ answer[r] = "ok" => tState[r[1]] = StateAfter(r)
  /\ answer[r] = "api.transaction_closed" => NotFinished(r)
  /\ answer[r] = "api.not_found" => Ended(r[1])

Truths == \A r \in Requests : ~SameId(r[1]) => TrueOf(r)

AnswerInv == Addressed /\ Truths

LEMMA AnswerInit == Init => AnswerInv
BY NoTxAssumption DEF Init, ApiInit, AnswerInv, Addressed, Truths, TrueOf

LEMMA RequestParts ==
  \A r \in Requests : /\ r[1] \in Txs /\ r[2] \in Finishes
                      /\ \A q \in Requests : r[1] = q[1] /\ r[2] = q[2] => r = q
BY DEF Requests

(* An id does not change, and transactions that share one go on doing so.  *)
Steady ==
  \A t \in Txs : begin[t] # "idle" =>
    /\ id'[t] = id[t] /\ begin'[t] # "idle"
    /\ begin[t] = "told" => begin'[t] = "told"

LEMMA StaysSame ==
  ASSUME Steady, NEW t \in Txs, begin[t] # "idle", SameId(t)
  PROVE  SameId(t)'
BY DEF Steady, SameId

LEMMA StepsAreSteady == TypeInv /\ [Next]_vars => Steady
<1> SUFFICES ASSUME TypeInv, [Next]_vars PROVE Steady
  OBVIOUS
<1>1. ASSUME NEW c \in Txs, Begin(c) PROVE Steady
  BY <1>1 DEF Begin, Steady, TypeInv, TypeOK
<1>2. ASSUME NEW c \in Txs, BeginReturns(c) \/ BeginRegistered(c) PROVE Steady
  BY <1>2 DEF BeginReturns, BeginRegistered, txVars, Steady, TypeInv, TypeOK
<1>3. ASSUME UNCHANGED <<id, begin>> PROVE Steady
  BY <1>3 DEF Steady
<1>4. ASSUME NEW c \in Txs, NEW o, NEW k, TxWrite(c, o, k) \/ TxWriteResumes(c, k)
      PROVE  Steady
  BY <1>3, <1>4 DEF TxWrite, TxWriteResumes, hostVars
<1>5. ASSUME NEW r \in Requests, NEW t \in Txs,
             Commit(r, t) \/ CommitConflicts(r, t) \/ Rollback(r, t) \/ FinishClosed(r, t)
      PROVE  Steady
  BY <1>3, <1>5, FinishOutcomes DEF Finish
<1>6. ASSUME NEW r \in Requests, FinishUnknown(r) \/ FinishReturns(r) PROVE Steady
  BY <1>3, <1>6 DEF FinishUnknown, FinishReturns, txVars
<1>7. CASE Stop \/ Start \/ ScanStart \/ ScanPage
  BY <1>3, <1>7, StopCloses DEF Start, ScanStart, ScanPage, txVars, hostVars
<1>8. CASE McpNext \/ UNCHANGED vars
  BY <1>3, <1>8, McpLeavesHost DEF txVars, hostVars
<1>9. QED
  BY <1>1, <1>2, <1>4, <1>5, <1>6, <1>7, <1>8 DEF Next, ApiNext

(* A request that is under way, or was answered, is that of a client that  *)
(* was told its id.                                                        *)
LEMMA RequestsAreTold ==
  ASSUME TypeInv, Addressed, NEW r \in Requests, finish[r] # "idle" \/ answer[r] # "none"
  PROVE  r[1] \in Txs /\ begin[r[1]] = "told"
BY RequestParts, TargetTyped DEF Addressed

LEMMA TrueWhenSame ==
  ASSUME TypeInv, Addressed, Truths, Steady, NEW r \in Requests, ~SameId(r[1])',
         finish[r] # "idle" \/ answer[r] # "none"
  PROVE  ~SameId(r[1]) /\ TrueOf(r)
BY RequestsAreTold, StaysSame DEF Truths

(* Steps that change no request and no end of a transaction.               *)
LEMMA AnswersUntouched ==
  ASSUME TypeInv, ToldFirst, AnswerInv, Steady, UNCHANGED <<finish, target, answer>>,
         \A t \in shared' \ shared : begin'[t] # "idle" /\ SameId(t)',
         \A t \in Txs : begin[t] # "idle" /\ tState'[t] # tState[t] =>
           tState[t] = "active" /\ tState'[t] = "closed"
  PROVE  AnswerInv'
<1>1. Addressed'
  <2>1. ASSUME NEW r \in Requests, target[r] \in Txs
        PROVE  begin'[r[1]] = "told" /\ id'[target[r]] = id'[r[1]]
    BY <2>1, RequestParts DEF Steady, AnswerInv, Addressed, ToldFirst
  <2>2. ASSUME NEW r \in Requests, answer[r] # "none"
        PROVE  begin'[r[1]] = "told"
    BY <2>2, RequestParts DEF Steady, AnswerInv, Addressed
  <2>3. ASSUME NEW t \in shared PROVE begin'[t] # "idle" /\ SameId(t)'
    <3>1. t \in Txs /\ begin[t] # "idle" /\ SameId(t)
      BY DEF AnswerInv, Addressed, TypeInv, TypeOK
    <3>2. QED
      BY <3>1, StaysSame DEF Steady
  <2>4. \A r \in Requests : finish'[r] # "idle" => answer'[r] = "none"
    BY DEF AnswerInv, Addressed
  <2>5. QED
    BY <2>1, <2>2, <2>3, <2>4 DEF Addressed
<1>2. Truths'
  <2> SUFFICES ASSUME NEW r \in Requests, ~SameId(r[1])' PROVE TrueOf(r)'
    BY DEF Truths
  <2>1. CASE finish[r] = "idle" /\ answer[r] = "none"
    BY <2>1 DEF TrueOf
  <2>2. CASE finish[r] # "idle" \/ answer[r] # "none"
    <3>1. TrueOf(r) /\ r[1] \in Txs /\ begin[r[1]] = "told"
      BY <2>2, TrueWhenSame, RequestsAreTold DEF AnswerInv
    <3>2. QED
      BY <3>1 DEF TrueOf, NotFinished, StateAfter, Ended
  <2>3. QED
    BY <2>1, <2>2
<1>3. QED
  BY <1>1, <1>2 DEF AnswerInv

(* Steps of one request.                                                   *)
LEMMA AnswersOfOne ==
  ASSUME TypeInv, ToldFirst, AnswerInv, Steady, NEW r \in Requests, begin[r[1]] = "told",
         UNCHANGED <<id, begin, shared>>,
         \A q \in Requests \ {r} :
           finish'[q] = finish[q] /\ target'[q] = target[q] /\ answer'[q] = answer[q],
         target'[r] \in Txs => id[target'[r]] = id[r[1]],
         finish'[r] # "idle" => answer'[r] = "none",
         ~SameId(r[1]) => TrueOf(r)',
         \A q \in Requests \ {r} : ~SameId(q[1]) /\ TrueOf(q) => TrueOf(q)'
  PROVE  AnswerInv'
<1>1. \A t \in Txs : SameId(t)' <=> SameId(t)
  BY DEF SameId
<1>2. Addressed'
  <2>1. \A q \in Requests : target'[q] \in Txs =>
          begin'[q[1]] = "told" /\ id'[target'[q]] = id'[q[1]]
    BY DEF AnswerInv, Addressed
  <2>2. \A q \in Requests : finish'[q] # "idle" => answer'[q] = "none"
    BY DEF AnswerInv, Addressed
  <2>3. \A q \in Requests : answer'[q] # "none" => begin'[q[1]] = "told"
    BY DEF AnswerInv, Addressed
  <2>4. \A t \in shared' : begin'[t] # "idle" /\ SameId(t)'
    BY <1>1 DEF AnswerInv, Addressed, TypeInv, TypeOK
  <2>5. QED
    BY <2>1, <2>2, <2>3, <2>4 DEF Addressed
<1>3. Truths'
  BY <1>1, RequestParts DEF AnswerInv, Truths
<1>4. QED
  BY <1>2, <1>3 DEF AnswerInv

LEMMA AnswerUnknown ==
  ASSUME TypeInv, HostInv, AnswerInv, Steady, NEW r \in Requests, FinishUnknown(r)
  PROVE  AnswerInv'
<1>1. /\ begin[r[1]] = "told" /\ UNCHANGED <<id, begin, shared, tState>>
      /\ finish[r] = "idle" /\ finish' = finish /\ target' = target
      /\ answer'[r] = "api.not_found"
      /\ \A q \in Requests \ {r} : answer'[q] = answer[q]
  BY DEF FinishUnknown, txVars, TypeInv, TypeOK
<1>2. ~SameId(r[1]) => Ended(r[1])
  <2>1. r[1] \in Txs /\ r[1] \notin held
    BY RequestParts DEF FinishUnknown, LookUp
  <2>2. ~SameId(r[1]) => r[1] \notin shared
    BY DEF AnswerInv, Addressed
  <2>3. r[1] \notin shared => tState[r[1]] \notin {"active", "closed"}
    BY <1>1, <2>1 DEF HostInv, HandlesKept
  <2>4. tState[r[1]] \in TxStates /\ tState[r[1]] # "unused"
    BY <1>1, <2>1 DEF TypeInv, TypeOK
  <2>5. QED
    BY <2>2, <2>3, <2>4 DEF TxStates, Ended
<1>3. ~SameId(r[1]) => TrueOf(r)'
  BY <1>1, <1>2 DEF TrueOf, NotFinished, Ended
<1>4. \A q \in Requests \ {r} : TrueOf(q) => TrueOf(q)'
  BY <1>1 DEF TrueOf, NotFinished, StateAfter, Ended
<1>5. target[r] \in Txs => id[target[r]] = id[r[1]]
  BY DEF AnswerInv, Addressed
<1>6. QED
  BY <1>1, <1>3, <1>4, <1>5, AnswersOfOne DEF HostInv

(* Without another of its id, a request is about the client's transaction. *)
LEMMA OwnTarget ==
  ASSUME NEW c \in Txs, begin[c] = "told", NEW t \in Txs, begin[t] = "told",
         id[t] = id[c]
  PROVE  t = c \/ (SameId(c) /\ SameId(t))
BY DEF SameId

(* A transaction in the map that has ended was ended by a request that is  *)
(* still to return, and that is its client's own.                          *)
LEMMA EndedByOwn ==
  ASSUME TypeInv, HostInv, AnswerInv, NEW t \in held, Ended(t), ~SameId(t)
  PROVE  \E q \in Requests : q[1] = t /\ finish[q] = "ok" /\ tState[t] = StateAfter(q)
<1>1. PICK q \in Requests : target[q] = t /\ finish[q] = "ok"
  BY DEF HostInv, HandlesKept
<1>2. t \in Txs /\ q[1] \in Txs
  BY RequestParts DEF TypeInv, TypeOK
<1>3. begin[t] = "told" /\ begin[q[1]] = "told" /\ id[t] = id[q[1]]
  BY <1>1, <1>2 DEF HostInv, ToldFirst, AnswerInv, Addressed
<1>4. q[1] = t
  BY <1>2, <1>3, OwnTarget
<1>5. TrueOf(q)
  BY <1>4 DEF AnswerInv, Truths
<1>6. QED
  BY <1>1, <1>4, <1>5 DEF TrueOf

LEMMA AnswerFinish ==
  ASSUME TypeInv, HostInv, AnswerInv, Steady, NEW r \in Requests, NEW t \in Txs,
         \/ /\ Finish(r, t, "ok") /\ tState[t] = "active" /\ tState'[t] = StateAfter(r)
            /\ \A u \in Txs \ {t} : tState'[u] = tState[u]
         \/ /\ Finish(r, t, "transaction-closed") /\ tState' = tState
            /\ tState[t] # "active" \/ r[2] = "commit"
  PROVE  AnswerInv'
<1>1. PICK outcome : Finish(r, t, outcome) /\ outcome \in {"ok", "transaction-closed"}
  OBVIOUS
<1>2. /\ begin[r[1]] = "told" /\ finish[r] = "idle" /\ t \in held /\ id[t] = id[r[1]]
      /\ UNCHANGED <<id, begin, shared>>
      /\ finish'[r] = outcome /\ answer'[r] = "none" /\ target'[r] = t
      /\ \A q \in Requests \ {r} :
           finish'[q] = finish[q] /\ target'[q] = target[q] /\ answer'[q] = answer[q]
  BY <1>1 DEF Finish, LookUp, TypeInv, TypeOK
<1>3. /\ r[1] \in Txs /\ begin[t] = "told"
      /\ t = r[1] \/ (SameId(r[1]) /\ SameId(t))
  BY <1>2, OwnTarget, RequestParts DEF HostInv, ToldFirst
<1>4. CASE /\ Finish(r, t, "ok") /\ tState[t] = "active" /\ tState'[t] = StateAfter(r)
           /\ \A u \in Txs \ {t} : tState'[u] = tState[u]
  <2>1. finish'[r] = "ok"
    BY <1>4, <1>2 DEF Finish, TypeInv, TypeOK
  <2>2. ~SameId(r[1]) => TrueOf(r)'
    BY <1>2, <1>3, <1>4, <2>1 DEF TrueOf, StateAfter
  <2>3. ASSUME NEW q \in Requests \ {r}, ~SameId(q[1]), TrueOf(q) PROVE TrueOf(q)'
    <3>1. CASE q[1] # t
      BY <1>2, <1>4, <2>3, <3>1, RequestParts DEF TrueOf, NotFinished, StateAfter, Ended
    <3>2. CASE q[1] = t
      <4>1. r[1] = q[1] /\ r[2] # q[2] /\ r[2] \in Finishes
        BY <1>3, <2>3, <3>2, RequestParts
      <4>2. q[2] = "commit" => tState'[t] = "rolled-back"
        BY <1>4, <4>1 DEF StateAfter
      <4>3. TrueOf(q) /\ tState[q[1]] = "active"
        BY <1>4, <2>3, <3>2
      <4>4. /\ finish[q] # "ok" /\ answer[q] \notin {"ok", "api.not_found"}
            /\ q[2] = "rollback" =>
                 finish[q] # "transaction-closed" /\ answer[q] # "api.transaction_closed"
        BY <4>3 DEF TrueOf, NotFinished, StateAfter, Ended
      <4>5. QED
        BY <1>2, <3>2, <4>2, <4>4 DEF TrueOf, NotFinished
    <3>3. QED
      BY <3>1, <3>2
  <2>4. QED
    BY <1>2, <2>2, <2>3, AnswersOfOne DEF HostInv
<1>5. CASE /\ Finish(r, t, "transaction-closed") /\ tState' = tState
           /\ tState[t] # "active" \/ r[2] = "commit"
  <2>1. finish'[r] = "transaction-closed"
    BY <1>5, <1>2 DEF Finish, TypeInv, TypeOK
  <2>2. ASSUME ~SameId(r[1]) PROVE NotFinished(r)
    <3>1. t = r[1] /\ ~SameId(t)
      BY <1>3, <2>2
    <3>2. Ended(t) => tState[t] # StateAfter(r)
      <4>1. SUFFICES ASSUME Ended(t) PROVE tState[t] # StateAfter(r)
        OBVIOUS
      <4>2. PICK q \in Requests : q[1] = t /\ finish[q] = "ok" /\ tState[t] = StateAfter(q)
        BY <1>2, <3>1, <4>1, EndedByOwn
      <4>3. q[2] # r[2] /\ q[2] \in Finishes /\ r[2] \in Finishes
        BY <1>2, <3>1, <4>2, RequestParts
      <4>4. QED
        BY <4>2, <4>3 DEF StateAfter, Finishes
    <3>3. tState[t] \in TxStates /\ tState[t] # "unused"
      BY <1>3 DEF TypeInv, TypeOK
    <3>4. r[2] = "rollback" => tState[t] # "active"
      BY <1>5
    <3>5. QED
      BY <3>1, <3>2, <3>3, <3>4 DEF NotFinished, StateAfter, Ended, TxStates
  <2>3. ~SameId(r[1]) => TrueOf(r)'
    BY <1>2, <1>5, <2>1, <2>2 DEF TrueOf, NotFinished
  <2>4. \A q \in Requests \ {r} : TrueOf(q) => TrueOf(q)'
    BY <1>2, <1>5 DEF TrueOf, NotFinished, StateAfter, Ended
  <2>5. QED
    BY <1>2, <2>3, <2>4, AnswersOfOne DEF HostInv
<1>6. QED
  BY <1>4, <1>5

LEMMA AnswerReturns ==
  ASSUME TypeInv, HostInv, AnswerInv, Steady, NEW r \in Requests, FinishReturns(r)
  PROVE  AnswerInv'
<1>1. PICK a : a = (IF finish[r] = "ok" THEN "ok" ELSE ApiError(ServiceError(finish[r])))
  OBVIOUS
<1>2. /\ finish[r] \in {"ok", "transaction-closed"}
      /\ finish'[r] = "idle" /\ target'[r] = NoTx /\ answer'[r] = a
      /\ \A q \in Requests \ {r} :
           finish'[q] = finish[q] /\ target'[q] = target[q] /\ answer'[q] = answer[q]
      /\ UNCHANGED <<id, tState, begin, shared>>
  BY <1>1 DEF FinishReturns, txVars, TypeInv, TypeOK, FinishSteps
<1>3. /\ finish[r] = "ok" => a = "ok"
      /\ finish[r] = "transaction-closed" => a = "api.transaction_closed"
  BY <1>1 DEF ApiError, ServiceError
<1>4. r[1] \in Txs /\ begin[r[1]] = "told"
  BY <1>2, RequestsAreTold DEF AnswerInv
<1>5. ~SameId(r[1]) => TrueOf(r)'
  BY <1>2, <1>3 DEF TrueOf, NotFinished, StateAfter, AnswerInv, Truths
<1>6. \A q \in Requests \ {r} : TrueOf(q) => TrueOf(q)'
  BY <1>2 DEF TrueOf, NotFinished, StateAfter, Ended
<1>7. QED
  BY <1>2, <1>4, <1>5, <1>6, NoTxAssumption, AnswersOfOne DEF HostInv

LEMMA AnswerBeginReturns ==
  ASSUME TypeInv, HostInv, AnswerInv, Steady, NEW c \in Txs, BeginReturns(c)
  PROVE  AnswerInv'
<1>1. /\ UNCHANGED <<finish, target, answer, tState, id>>
      /\ begin[c] = "begun" /\ begin'[c] = "told"
      /\ \A t \in Txs \ {c} : begin'[t] = begin[t]
  BY DEF BeginReturns, txVars, TypeInv, TypeOK
<1>2. \A t \in Rivals(c) : t \in Txs /\ t # c /\ id[t] = id[c] /\ begin[t] = "told"
  BY DEF Rivals, HostInv, ToldFirst
<1>3. \A t \in shared' \ shared : begin'[t] # "idle" /\ SameId(t)'
  <2>1. shared' \ shared # {} => Rivals(c) # {} /\ shared' = shared \cup Rivals(c) \cup {c}
    BY DEF BeginReturns
  <2>2. \A t \in Rivals(c) \cup {c} : Rivals(c) # {} => begin'[t] # "idle" /\ SameId(t)'
    BY <1>1, <1>2 DEF SameId
  <2>3. QED
    BY <2>1, <2>2
<1>4. QED
  BY <1>1, <1>3, AnswersUntouched DEF HostInv

LEMMA AnswerStep == TypeInv /\ HostInv /\ AnswerInv /\ [Next]_vars => AnswerInv'
<1> SUFFICES ASSUME TypeInv, HostInv, AnswerInv, [Next]_vars PROVE AnswerInv'
  OBVIOUS
<1>0. Steady
  BY StepsAreSteady
<1>1. ASSUME NEW c \in Txs, Begin(c) PROVE AnswerInv'
  <2>1. /\ UNCHANGED <<finish, target, answer, shared>>
        /\ \A t \in Txs : begin[t] # "idle" => tState'[t] = tState[t]
    BY <1>1 DEF Begin, TypeInv, TypeOK
  <2>2. QED
    BY <1>0, <2>1, AnswersUntouched DEF HostInv
<1>2. ASSUME UNCHANGED <<tState, finish, target, answer, shared>> PROVE AnswerInv'
  BY <1>0, <1>2, AnswersUntouched DEF HostInv
<1>3. ASSUME NEW c \in Txs, NEW o, NEW k, TxWrite(c, o, k) \/ TxWriteResumes(c, k)
      PROVE  AnswerInv'
  BY <1>2, <1>3 DEF TxWrite, TxWriteResumes, hostVars
<1>4. ASSUME NEW r \in Requests, NEW t \in Txs,
             Commit(r, t) \/ CommitConflicts(r, t) \/ Rollback(r, t) \/ FinishClosed(r, t)
      PROVE  AnswerInv'
  BY <1>0, <1>4, FinishOutcomes, AnswerFinish DEF StateAfter
<1>5. CASE Stop
  BY <1>0, <1>5, StopCloses, AnswersUntouched DEF HostInv
<1>6. CASE Start \/ ScanStart \/ ScanPage
  BY <1>2, <1>6 DEF Start, ScanStart, ScanPage, txVars, hostVars
<1>7. ASSUME NEW c \in Txs, BeginRegistered(c) PROVE AnswerInv'
  BY <1>2, <1>7 DEF BeginRegistered, txVars
<1>8. CASE McpNext \/ UNCHANGED vars
  BY <1>2, <1>8, McpLeavesHost DEF txVars, hostVars
<1>9. QED
  BY <1>0, <1>1, <1>3, <1>4, <1>5, <1>6, <1>7, <1>8, AnswerBeginReturns,
     AnswerUnknown, AnswerReturns DEF Next, ApiNext

(* What a tool call writes is in a store, or in the copies of a            *)
(* transaction, only once the call was accepted.                           *)
Accepted(c) == call[c] \in {"applied", "answered"} /\ result[c] = "ok"

ByOthers(map, c) == \A k \in Keys : map[k].writer # c

NothingEarly ==
  \A c \in Calls : ~Accepted(c) =>
    /\ \A s \in Stores : ByOthers(records[s], c)
    /\ \A t \in Txs : ByOthers(base[t], c) /\ ByOthers(working[t], c)

LEMMA NothingInEmpty == \A c \in Calls : ByOthers(EmptyMap, c)
BY DEF ByOthers, EmptyMap, Absent

LEMMA NothingEarlyInit == Init => NothingEarly
<1> SUFFICES ASSUME Init, NEW c \in Calls
             PROVE  /\ \A s \in Stores : ByOthers(records[s], c)
                    /\ \A t \in Txs : ByOthers(base[t], c) /\ ByOthers(working[t], c)
  BY DEF NothingEarly
<1>1. c # Nobody
  OBVIOUS
<1>2. ASSUME NEW s \in Stores PROVE ByOthers(records[s], c)
  <2>1. PICK keys : records = [u \in Stores |-> IF u = 0 THEN Stored(keys) ELSE EmptyMap]
    BY DEF Init, ApiInit
  <2>2. ByOthers(Stored(keys), c)
    BY <1>1 DEF ByOthers, Stored, Absent
  <2>3. QED
    BY <2>1, <2>2, NothingInEmpty
<1>3. \A t \in Txs : base[t] = EmptyMap /\ working[t] = EmptyMap
  BY DEF Init, ApiInit
<1>4. QED
  BY <1>2, <1>3, NothingInEmpty

LEMMA ByOthersWritten ==
  ASSUME NEW map, NEW k \in Keys, NEW o, NEW w \in Writers, NEW c \in Calls, w # c
  PROVE  Written(map, o, k, w, 1).writer # c
BY DEF Written, Absent

LEMMA NothingEarlyWhenUnaccepted ==
  ASSUME NothingEarly, \A c \in Calls : ~Accepted(c)' => ~Accepted(c),
         UNCHANGED <<records, base, working>>
  PROVE  NothingEarly'
BY DEF NothingEarly, ByOthers

LEMMA NothingEarlyApi ==
  ASSUME TypeInv, NothingEarly, ApiNext, UNCHANGED mcpVars
  PROVE  NothingEarly'
<1>1. \A c \in Calls : Accepted(c)' <=> Accepted(c)
  BY DEF Accepted, mcpVars
<1>2. ASSUME UNCHANGED <<records, base, working>> PROVE NothingEarly'
  BY <1>1, <1>2, NothingEarlyWhenUnaccepted
<1>3. ASSUME NEW t \in Txs, Begin(t) PROVE NothingEarly'
  <2>1. records' = records /\ base' = [base EXCEPT ![t] = Visible]
        /\ working' = [working EXCEPT ![t] = Visible]
    BY <1>3 DEF Begin, storeVars
  <2>2. \A c \in Calls : ~Accepted(c) => ByOthers(Visible, c)
    BY NothingInEmpty DEF NothingEarly, Visible, TypeInv, TypeOK
  <2>3. \A u \in Txs : /\ base'[u] = Visible \/ base'[u] = base[u]
                       /\ working'[u] = Visible \/ working'[u] = working[u]
    BY <2>1 DEF TypeInv, TypeOK
  <2>4. \A c \in Calls : ~Accepted(c) =>
          \A u \in Txs : ByOthers(base'[u], c) /\ ByOthers(working'[u], c)
    BY <2>2, <2>3 DEF NothingEarly
  <2>5. QED
    BY <1>1, <2>1, <2>4 DEF NothingEarly
<1>4. ASSUME NEW w \in Txs, NEW o \in Operations, NEW k \in Keys, TxWrite(w, o, k)
      PROVE  NothingEarly'
  <2>0. PICK t \in Txs :
          working' = [working EXCEPT ![t][k] = Written(working[t], o, k, w, 1)]
    BY <1>4 DEF TxWrite, LookUp, TypeInv, TypeOK
  <2>1. PICK rec : /\ rec = Written(working[t], o, k, w, 1)
                   /\ working' = [working EXCEPT ![t][k] = rec]
    BY <2>0
  <2>2. records' = records /\ base' = base
    BY <1>4 DEF TxWrite, storeVars
  <2>3. \A c \in Calls : rec.writer # c
    BY <2>1, ByOthersWritten, WritersAssumption
  <2>4. \A u \in Txs, j \in Keys : working'[u][j] = rec \/ working'[u][j] = working[u][j]
    BY <2>1 DEF TypeInv, TypeOK, RecordMap
  <2>5. QED
    BY <1>1, <2>2, <2>3, <2>4 DEF NothingEarly, ByOthers
<1>5. ASSUME NEW t \in Txs, NEW state, End(t, state),
             records' = records \/ StoreBecomes(at[t], working[t])
      PROVE  NothingEarly'
  <2>1. \A u \in Txs : /\ base'[u] = base[u] \/ base'[u] = EmptyMap
                       /\ working'[u] = working[u] \/ working'[u] = EmptyMap
    BY <1>5 DEF End, TypeInv, TypeOK
  <2>2. \A s \in Stores : records'[s] = records[s] \/ records'[s] = working[t]
    BY <1>5 DEF StoreBecomes, TypeInv, TypeOK
  <2>3. \A c \in Calls : ~Accepted(c) => \A s \in Stores : ByOthers(records'[s], c)
    BY <2>2 DEF NothingEarly
  <2>4. \A c \in Calls : ~Accepted(c) =>
          \A u \in Txs : ByOthers(base'[u], c) /\ ByOthers(working'[u], c)
    BY <2>1, NothingInEmpty DEF NothingEarly
  <2>5. QED
    BY <1>1, <2>3, <2>4 DEF NothingEarly
<1>6. ASSUME NEW r \in Requests, NEW t \in Txs, Commit(r, t) \/ Rollback(r, t)
      PROVE  NothingEarly'
  <2>1. CASE Commit(r, t)
    BY <1>5, <2>1 DEF Commit
  <2>2. CASE Rollback(r, t)
    BY <1>5, <2>2 DEF Rollback, storeVars
  <2>3. QED
    BY <1>6, <2>1, <2>2
<1>7. ASSUME NEW r \in Requests, NEW t \in Txs, CommitConflicts(r, t) \/ FinishClosed(r, t)
      PROVE  NothingEarly'
  BY <1>2, <1>7 DEF CommitConflicts, FinishClosed, storeVars
<1>8. ASSUME NEW r \in Requests, FinishUnknown(r) \/ FinishReturns(r) PROVE NothingEarly'
  BY <1>2, <1>8 DEF FinishUnknown, FinishReturns, storeVars, txVars
<1>9. ASSUME NEW c \in Txs, BeginRegistered(c) \/ BeginReturns(c) PROVE NothingEarly'
  BY <1>2, <1>9 DEF BeginRegistered, BeginReturns, storeVars, txVars
<1>10. ASSUME NEW t \in Txs, NEW k \in Keys, TxWriteResumes(t, k) PROVE NothingEarly'
  BY <1>2, <1>10 DEF TxWriteResumes, storeVars
<1>11. CASE Stop \/ Start \/ ScanStart \/ ScanPage
  BY <1>2, <1>11 DEF Stop, Start, ScanStart, ScanPage, storeVars, txVars
<1>12. QED
  BY <1>3, <1>4, <1>6, <1>7, <1>8, <1>9, <1>10, <1>11 DEF ApiNext

LEMMA NothingEarlyMcp ==
  ASSUME TypeInv, Arrived, NothingEarly, McpNext
  PROVE  NothingEarly'
<1>1. CASE Initialize \/ Shutdown
  BY <1>1, NothingEarlyWhenUnaccepted
  DEF Initialize, Shutdown, apiVars, storeVars, txVars, Accepted
<1>2. ASSUME NEW c \in Calls, NEW made \in ToolCalls, CallTool(c, made) PROVE NothingEarly'
  <2>1. \A d \in Calls : ~Accepted(d)' => ~Accepted(d)
    BY <1>2 DEF CallTool, Accepted, TypeInv, TypeOK
  <2>2. QED
    BY <1>2, <2>1, NothingEarlyWhenUnaccepted DEF CallTool, apiVars, storeVars, txVars
<1>3. ASSUME NEW c \in Calls,
             \/ CallRefused(c) \/ CallOpened(c) \/ CallUnavailable(c)
             \/ CallRejected(c) \/ CallAnswered(c)
      PROVE  NothingEarly'
  <2>1. \A d \in Calls : ~Accepted(d)' => ~Accepted(d)
    BY <1>3 DEF CallRefused, CallOpened, CallUnavailable, CallRejected, CallAnswered, Accepted,
                TypeInv, TypeOK
  <2>2. UNCHANGED <<records, base, working>>
    BY <1>3 DEF CallRefused, CallOpened, CallUnavailable, CallRejected, CallAnswered, apiVars,
                storeVars, txVars
  <2>3. QED
    BY <2>1, <2>2, NothingEarlyWhenUnaccepted
<1>4. ASSUME NEW c \in Calls, CallApplied(c) PROVE NothingEarly'
  <2>1. Accepted(c)' /\ \A d \in Calls \ {c} : ~Accepted(d)' => ~Accepted(d)
    BY <1>4 DEF CallApplied, Accepted, TypeInv, TypeOK
  <2>2. PICK o, key, map : /\ o = OperationOf(request[c].operation)
                           /\ key = request[c].payload.key /\ map = records[session[c]]
    OBVIOUS
  <2>3. PICK after \in RecordMap : after = Applied(c)
    BY <2>2, AppliedIs
  <2>4. /\ session[c] \in Stores /\ after \in RecordMap
        /\ after = [k \in Keys |-> IF o \in Operations /\ k \in key
                                     THEN Written(map, o, k, c, 1) ELSE map[k]]
    BY <2>2, <2>3, AppliedIs
  <2>5. \A s \in Stores : records'[s] = after \/ records'[s] = records[s]
    BY <1>4, <2>3, <2>4, StoreTyped DEF CallApplied
  <2>6. UNCHANGED <<base, working>>
    BY <1>4 DEF CallApplied, txVars
  <2>7. ASSUME NEW d \in Calls, ~Accepted(d), d # c PROVE ByOthers(after, d)
    <3>1. ByOthers(map, d)
      BY <2>2, <2>4, <2>7 DEF NothingEarly
    <3>2. \A k \in Keys : Written(map, o, k, c, 1).writer # d
      BY <2>7, ByOthersWritten, WritersAssumption
    <3>3. QED
      BY <2>4, <3>1, <3>2 DEF ByOthers
  <2>8. ASSUME NEW d \in Calls, ~Accepted(d), d # c
        PROVE  \A s \in Stores : ByOthers(records'[s], d)
    BY <2>5, <2>7, <2>8 DEF NothingEarly
  <2>9. QED
    BY <2>1, <2>6, <2>8 DEF NothingEarly
<1>5. QED
  BY <1>1, <1>2, <1>3, <1>4 DEF McpNext

LEMMA NothingEarlyStep == TypeInv /\ Arrived /\ NothingEarly /\ [Next]_vars => NothingEarly'
<1> SUFFICES ASSUME TypeInv, Arrived, NothingEarly, [Next]_vars PROVE NothingEarly'
  OBVIOUS
<1>1. CASE UNCHANGED vars
  BY <1>1, NothingEarlyWhenUnaccepted DEF vars, apiVars, mcpVars, storeVars, txVars, Accepted
<1>2. QED
  BY <1>1, NothingEarlyApi, NothingEarlyMcp DEF Next

(* What clients are told is true, over the in-memory provider: of a        *)
(* transaction that shares its id with none, and of the tool calls, for    *)
(* any number of them.                                                     *)
THEOREM AnswersAreTrueCorrect == Spec => []AnswersAreTrue
<1>1. ASSUME TypeInv, AnswerInv, NothingEarly PROVE AnswersAreTrue
  <2>1. ASSUME NEW t \in Txs, ~SameId(t), NEW f \in Finishes
        PROVE  /\ answer[<<t, f>>] = "ok" =>
                    tState[t] = (IF f = "commit" THEN "committed" ELSE "rolled-back")
               /\ answer[<<t, f>>] = "api.transaction_closed" =>
                    /\ f = "commit" => tState[t] # "committed"
                    /\ f = "rollback" => tState[t] \in {"committed", "closed"}
               /\ answer[<<t, f>>] = "api.not_found" => Ended(t)
    <3>1. <<t, f>> \in Requests /\ <<t, f>>[1] = t /\ <<t, f>>[2] = f
      BY DEF Requests
    <3>2. PICK r \in Requests : r = <<t, f>> /\ r[1] = t /\ r[2] = f
      BY <3>1
    <3>3. TrueOf(r)
      BY <1>1, <2>1, <3>2 DEF AnswerInv, Truths
    <3>4. QED
      BY <3>2, <3>3 DEF TrueOf, NotFinished, StateAfter
  <2>2. "commit" \in Finishes /\ "rollback" \in Finishes
    BY DEF Finishes
  <2>3. \A c \in Calls : call[c] \in {"refused", "applied", "answered"} /\ result[c] # "ok" =>
          \A s \in Stores, k \in Keys : records[s][k].writer # c
    BY <1>1 DEF NothingEarly, ByOthers, Accepted
  <2>4. QED
    BY <2>1, <2>2, <2>3 DEF AnswersAreTrue, Ended
<1>2. QED
  BY <1>1, TypeInit, TypeStep, ArrivedInit, ArrivedStep, HostInit, HostStep, AnswerInit,
     AnswerStep, NothingEarlyInit, NothingEarlyStep, PTL DEF Spec

-----------------------------------------------------------------------------
(* Paging.  The rank of a record is the number of records before it.       *)

There(map) == {k \in Keys : Has(map, k)}

Lower(S, k) == {j \in S : KeyOrder[j] < KeyOrder[k]}

Rank(S, k) == Cardinality(Lower(S, k))

LEMMA RankType ==
  ASSUME NEW S, S \subseteq Keys, NEW k \in Keys
  PROVE  Rank(S, k) \in Nat
<1>1. Lower(S, k) \subseteq Keys
  BY DEF Lower
<1>2. QED
  BY <1>1, SubsetFinite DEF Rank

LEMMA RankGrows ==
  ASSUME NEW S, NEW T, S \subseteq T, T \subseteq Keys, NEW k \in Keys
  PROVE  Rank(S, k) <= Rank(T, k)
<1>1. Lower(S, k) \subseteq Lower(T, k) /\ Lower(T, k) \subseteq Keys
  BY DEF Lower
<1>2. QED
  BY <1>1, SubsetSmaller DEF Rank

(* The place of a record in the list the client pages through is its rank. *)
LEMMA PageOfRanks ==
  ASSUME NEW map \in RecordMap, NEW from \in Nat, NEW q,
         q = Query(Keys, Nat, DefaultOrder, {PageLimit}, from)
  PROVE  /\ q \in Queries /\ q.offset = from
         /\ Selected(map, q) = There(map)
         /\ \A k : Place(map, q, k) = Rank(There(map), k)
<1>1. /\ q.keys = Keys /\ q.versions = Nat /\ q.order = DefaultOrder
      /\ q.limit = {PageLimit} /\ q.offset = from
  BY DEF Query
<1>2. /\ DefaultOrder \in Seq(Rules) /\ Len(DefaultOrder) = 1
      /\ DefaultOrder[1].field = "key" /\ DefaultOrder[1].direction = "asc"
  BY DEF DefaultOrder, Rules, Fields, Directions
<1>3. q \in Queries
  <2>1. DefaultOrder \in Orders
    BY <1>2 DEF Orders
  <2>2. QED
    BY <2>1, PageAssumption DEF Queries, Query
<1>4. Selected(map, q) = There(map)
  BY <1>1 DEF Selected, There, RecordMap, Record
<1>5. ASSUME NEW j, NEW k
      PROVE  Before(map, q.order, j, k) <=> KeyOrder[j] < KeyOrder[k]
  <2>1. /\ \A i : i \in 1..1 <=> i = 1
        /\ \A h : h \notin 1..(1 - 1)
    OBVIOUS
  <2>2. Before(map, q.order, j, k) <=>
          FieldOf(map, "key", j) < FieldOf(map, "key", k)
    BY <1>1, <1>2, <2>1 DEF Before
  <2>3. QED
    BY <2>2 DEF FieldOf
<1>6. ASSUME NEW k PROVE Place(map, q, k) = Rank(There(map), k)
  <2>1. {j \in Selected(map, q) : Before(map, q.order, j, k)} = Lower(There(map), k)
    BY <1>4, <1>5 DEF Lower
  <2>2. QED
    BY <2>1 DEF Place, Rank
<1>7. QED
  BY <1>1, <1>3, <1>4, <1>6

-----------------------------------------------------------------------------
(* The stores the provider has not had yet are empty, and nobody has begun *)
(* anything there.                                                         *)

StoresToCome ==
  /\ \A s \in Stores : s > restarts => records[s] = EmptyMap
  /\ \A t \in Txs : at[t] <= restarts
  /\ \A c \in Calls : session[c] <= restarts

LEMMA StoresInit == Init => StoresToCome
BY DEF Init, ApiInit, StoresToCome, Stores

LEMMA StoreIsOld ==
  ASSUME TypeInv, StoresToCome, NEW s \in Stores, s <= restarts, NEW map \in RecordMap,
         StoreBecomes(s, map), UNCHANGED <<restarts, at, session>>
  PROVE  StoresToCome'
<1>1. \A u \in Stores : u > restarts => u # s
  BY DEF TypeInv, TypeOK, Stores
<1>2. QED
  BY <1>1, StoreTyped DEF StoresToCome

LEMMA StoresStep == TypeInv /\ Arrived /\ StoresToCome /\ [Next]_vars => StoresToCome'
<1> SUFFICES ASSUME TypeInv, Arrived, StoresToCome, [Next]_vars PROVE StoresToCome'
  OBVIOUS
<1>1. ASSUME UNCHANGED <<records, restarts, at, session>> PROVE StoresToCome'
  BY <1>1 DEF StoresToCome
<1>2. CASE ApiNext /\ UNCHANGED mcpVars
  <2>1. ASSUME NEW c \in Txs, Begin(c) PROVE StoresToCome'
    BY <1>2, <2>1 DEF Begin, StoresToCome, storeVars, providerVars, mcpVars, TypeInv, TypeOK, Stores
  <2>2. ASSUME NEW r \in Requests, NEW t \in Txs, Commit(r, t) PROVE StoresToCome'
    <3>1. /\ at[t] \in Stores /\ at[t] <= restarts /\ working[t] \in RecordMap
          /\ UNCHANGED <<restarts, at, session>>
      BY <1>2, <2>2 DEF Commit, Finish, providerVars, mcpVars, StoresToCome, TypeInv, TypeOK
    <3>2. QED
      BY <2>2, <3>1, StoreIsOld DEF Commit
  <2>3. CASE Start
    <3>1. /\ restarts \in Nat /\ restarts' = restarts + 1 /\ UNCHANGED <<records, at, session>>
          /\ \A t \in Txs : at[t] \in Nat
          /\ \A c \in Calls : session[c] \in Nat
      BY <1>2, <2>3 DEF Start, storeVars, txVars, mcpVars, TypeInv, TypeOK, Stores
    <3>2. \A s \in Stores : s \in Nat
      BY DEF Stores
    <3>3. QED
      BY <3>1, <3>2 DEF StoresToCome
  <2>4. ASSUME NEW c \in Txs, BeginRegistered(c) \/ BeginReturns(c) PROVE StoresToCome'
    BY <1>1, <1>2, <2>4 DEF BeginRegistered, BeginReturns, storeVars, providerVars, txVars, mcpVars
  <2>5. ASSUME NEW c \in Txs, NEW o, NEW k, TxWrite(c, o, k) \/ TxWriteResumes(c, k)
        PROVE  StoresToCome'
    BY <1>1, <1>2, <2>5 DEF TxWrite, TxWriteResumes, storeVars, providerVars, mcpVars
  <2>6. ASSUME NEW r \in Requests, NEW t \in Txs,
               CommitConflicts(r, t) \/ Rollback(r, t) \/ FinishClosed(r, t)
        PROVE  StoresToCome'
    BY <1>1, <1>2, <2>6 DEF CommitConflicts, Rollback, FinishClosed, Finish, storeVars,
                            providerVars, mcpVars
  <2>7. ASSUME NEW r \in Requests, FinishUnknown(r) \/ FinishReturns(r) PROVE StoresToCome'
    BY <1>1, <1>2, <2>7 DEF FinishUnknown, FinishReturns, storeVars, providerVars, txVars, mcpVars
  <2>8. CASE Stop \/ ScanStart \/ ScanPage
    BY <1>1, <1>2, <2>8 DEF Stop, ScanStart, ScanPage, storeVars, providerVars, txVars, mcpVars
  <2>9. QED
    BY <1>2, <2>1, <2>2, <2>3, <2>4, <2>5, <2>6, <2>7, <2>8 DEF ApiNext
<1>3. CASE McpNext
  <2>1. ASSUME NEW c \in Calls, CallOpened(c) PROVE StoresToCome'
    BY <2>1 DEF CallOpened, apiVars, storeVars, providerVars, txVars, StoresToCome, TypeInv,
                TypeOK, Stores
  <2>2. ASSUME NEW c \in Calls, CallApplied(c) PROVE StoresToCome'
    <3>1. session[c] \in Stores /\ session[c] <= restarts /\ Applied(c) \in RecordMap
      BY <2>2, AppliedIs DEF StoresToCome
    <3>2. StoreBecomes(session[c], Applied(c)) /\ UNCHANGED <<restarts, at, session>>
      BY <2>2 DEF CallApplied, providerVars, txVars
    <3>3. QED
      BY <3>1, <3>2, StoreIsOld
  <2>3. ASSUME NEW c \in Calls,
               CallRefused(c) \/ CallUnavailable(c) \/ CallRejected(c) \/ CallAnswered(c)
        PROVE  StoresToCome'
    BY <1>1, <2>3 DEF CallRefused, CallUnavailable, CallRejected, CallAnswered, apiVars, storeVars,
                      providerVars, txVars
  <2>4. ASSUME NEW c \in Calls, NEW made \in ToolCalls, CallTool(c, made) PROVE StoresToCome'
    BY <1>1, <2>4 DEF CallTool, apiVars, storeVars, providerVars, txVars
  <2>5. CASE Initialize \/ Shutdown
    BY <1>1, <2>5 DEF Initialize, Shutdown, apiVars, storeVars, providerVars, txVars
  <2>6. QED
    BY <1>3, <2>1, <2>2, <2>3, <2>4, <2>5 DEF McpNext
<1>4. CASE UNCHANGED vars
  BY <1>1, <1>4 DEF vars, apiVars, mcpVars, storeVars, providerVars, txVars
<1>5. QED
  BY <1>2, <1>3, <1>4 DEF Next

(* What becomes of what is visible when a store is written.                *)
LEMMA StoreShown ==
  ASSUME TypeInv, NEW s \in Stores, NEW map \in RecordMap, StoreBecomes(s, map),
         UNCHANGED providerVars
  PROVE  \/ Visible' = map /\ scanned' = Noticed(map)
         \/ Visible' = Visible /\ scanned' = scanned
<1>1. /\ records'[s] = map /\ \A u \in Stores \ {s} : records'[u] = records[u]
      /\ restarts \in Stores /\ connected' = connected /\ restarts' = restarts
  BY StoreTyped DEF providerVars, TypeInv, TypeOK
<1>2. QED
  BY <1>1 DEF StoreBecomes, Visible

LEMMA SameShown == UNCHANGED <<records, connected, restarts>> => Visible' = Visible
BY DEF Visible

-----------------------------------------------------------------------------
(* What the paging client has seen lies before its offset, as long as no   *)
(* record was added; what it has not seen lies after it, as long as none   *)
(* was removed.                                                            *)

BehindOffset ==
  scan.step # "idle" /\ ~scanned.added =>
    \A k \in Keys : /\ scan.got[k] <= 1
                    /\ scan.got[k] > 0 /\ k \in There(Visible) =>
                         Rank(There(Visible), k) < scan.offset

AheadOfOffset ==
  scan.step # "idle" /\ ~scanned.removed =>
    /\ scanned.start \subseteq There(Visible)
    /\ \A k \in scanned.start :
         \/ scan.got[k] > 0
         \/ scan.step = "paging" /\ scan.offset <= Rank(There(Visible), k)

ScanInv ==
  /\ scan.step = "idle" => scan.offset = 0 /\ \A k \in Keys : scan.got[k] = 0
  /\ BehindOffset
  /\ AheadOfOffset

ScanTypes ==
  /\ scan.offset \in Nat /\ scan.got \in [Keys -> Nat]
  /\ scan.step \in {"idle", "paging", "done"}
  /\ scanned.start \subseteq Keys
  /\ scanned.added \in BOOLEAN /\ scanned.removed \in BOOLEAN
  /\ Visible \in RecordMap

LEMMA ScanTyped == TypeInv => ScanTypes
BY VisibleTyped DEF TypeInv, TypeOK, ScanTypes

LEMMA ScanInit == Init => ScanInv
BY DEF Init, ApiInit, ScanInv, BehindOffset, AheadOfOffset

LEMMA ScanUntouched ==
  ASSUME ScanInv, Visible' = Visible, UNCHANGED <<scan, scanned>>
  PROVE  ScanInv'
BY DEF ScanInv, BehindOffset, AheadOfOffset, There, Has

(* What is visible changes while the client pages.                         *)
LEMMA ScanRecords ==
  ASSUME TypeInv, ScanInv, NEW map, Visible' = map, scanned' = Noticed(map), scan' = scan
  PROVE  ScanInv'
<1>1. scanned \in ScannedStates
  BY DEF TypeInv, TypeOK, ScannedStates
<1>2. PICK removed, added :
        /\ removed = (scanned.removed \/ \E k \in Keys : Has(Visible, k) /\ ~Has(map, k))
        /\ added   = (scanned.added   \/ \E k \in Keys : ~Has(Visible, k) /\ Has(map, k))
  OBVIOUS
<1>3. removed \in BOOLEAN /\ added \in BOOLEAN
  BY <1>2
<1>4. /\ scanned'.start = scanned.start
      /\ scanned'.removed = removed /\ scanned'.added = added
  BY <1>1, <1>2, NoticedTyped
<1>5. PICK S, T : S = There(Visible) /\ T = There(map)
  OBVIOUS
<1>6. /\ S \subseteq Keys /\ T \subseteq Keys /\ There(Visible)' = T
      /\ ~added => T \subseteq S
      /\ ~removed => S \subseteq T
  BY <1>2, <1>5 DEF There, Has
<1>7. \A k \in Keys : Rank(S, k) \in Nat /\ Rank(T, k) \in Nat
  BY <1>6, RankType
<1>8. ScanTypes
  BY ScanTyped
<1>9. ASSUME scan.step # "idle", ~added, NEW k \in Keys
      PROVE  scan.got[k] <= 1 /\ (scan.got[k] > 0 /\ k \in T => Rank(T, k) < scan.offset)
  <2>1. ~scanned.added
    BY <1>2, <1>9
  <2>2. Rank(T, k) <= Rank(S, k)
    BY <1>6, <1>9, RankGrows
  <2>3. scan.got[k] <= 1 /\ (scan.got[k] > 0 /\ k \in S => Rank(S, k) < scan.offset)
    BY <1>5, <1>9, <2>1 DEF ScanInv, BehindOffset
  <2>4. scan.offset \in Nat
    BY <1>8 DEF ScanTypes
  <2>5. QED
    BY <1>6, <1>7, <1>9, <2>2, <2>3, <2>4
<1>10. ASSUME scan.step # "idle", ~removed
       PROVE  /\ scanned.start \subseteq T
              /\ \A k \in scanned.start :
                   scan.got[k] > 0 \/ (scan.step = "paging" /\ scan.offset <= Rank(T, k))
  <2>1. ~scanned.removed
    BY <1>2, <1>10
  <2>2. /\ scanned.start \subseteq S
        /\ \A k \in scanned.start :
             scan.got[k] > 0 \/ (scan.step = "paging" /\ scan.offset <= Rank(S, k))
    BY <1>5, <1>10, <2>1 DEF ScanInv, AheadOfOffset
  <2>3. ASSUME NEW k \in scanned.start, scan.offset <= Rank(S, k)
        PROVE  scan.offset <= Rank(T, k)
    <3>1. k \in Keys /\ scan.offset \in Nat
      BY <1>8 DEF ScanTypes
    <3>2. Rank(S, k) <= Rank(T, k)
      BY <1>6, <1>10, <3>1, RankGrows
    <3>3. QED
      BY <1>7, <2>3, <3>1, <3>2
  <2>4. QED
    BY <1>6, <1>10, <2>2, <2>3
<1>11. BehindOffset'
  BY <1>4, <1>6, <1>9, <1>5 DEF BehindOffset
<1>12. AheadOfOffset'
  BY <1>4, <1>6, <1>10 DEF AheadOfOffset
<1>13. QED
  BY <1>11, <1>12 DEF ScanInv

LEMMA ScanStarts ==
  ASSUME TypeInv, ScanInv, ScanStart
  PROVE  ScanInv'
<1>1. /\ scan \in ScanStates /\ ScanTypes
  BY ScanTyped DEF TypeInv, TypeOK, ScanStates
<1>2. /\ scan'.step = "paging" /\ scan'.offset = scan.offset /\ scan'.got = scan.got
      /\ scan.step = "idle" /\ Visible' = Visible /\ scanned'.start = There(Visible)
  BY <1>1, SameShown DEF ScanStart, ScanStates, storeVars, providerVars, There
<1>3. scan.offset = 0 /\ \A k \in Keys : scan.got[k] = 0
  BY <1>2 DEF ScanInv
<1>4. There(Visible)' = There(Visible) /\ There(Visible) \subseteq Keys
  BY <1>2 DEF There, Has
<1>5. \A k \in There(Visible) : 0 <= Rank(There(Visible), k)
  BY <1>4, RankType
<1>6. QED
  BY <1>2, <1>3, <1>4, <1>5 DEF ScanInv, BehindOffset, AheadOfOffset

LEMMA ScanPages ==
  ASSUME TypeInv, ScanInv, ScanPage
  PROVE  ScanInv'
<1>1. ScanTypes
  BY ScanTyped
<1>2. PICK S : S = There(Visible)
  OBVIOUS
<1>3. PICK q : q = PageQuery
  OBVIOUS
<1>4. PICK from \in Nat : from = scan.offset
  BY <1>1 DEF ScanTypes
<1>5. PICK I, to : I = Items(Visible, q) /\ to = NextOffset(Visible, q)
  OBVIOUS
<1>6. /\ q \in Queries /\ q.offset = from
      /\ Selected(Visible, q) = S
      /\ \A k : Place(Visible, q, k) = Rank(S, k)
  <2>1. q = Query(Keys, Nat, DefaultOrder, {PageLimit}, from) /\ Visible \in RecordMap
    BY <1>1, <1>3, <1>4 DEF PageQuery, ScanTypes
  <2>2. QED
    BY <1>2, <2>1, PageOfRanks
<1>7. S \subseteq Keys /\ There(Visible)' = S /\ Visible' = Visible /\ scanned' = scanned
  BY <1>2, SameShown DEF There, ScanPage, storeVars, providerVars, Has
<1>8. /\ to \in Nat /\ from <= to
      /\ I = {k \in S : from <= Rank(S, k) /\ Rank(S, k) < to}
      /\ \A k \in I : Rank(S, k) < to
      /\ \A k \in S \ I : from <= Rank(S, k) => to <= Rank(S, k)
  <2>1. Visible \in RecordMap
    BY <1>1 DEF ScanTypes
  <2>2. PICK total : total = Cardinality(Selected(Visible, q))
    OBVIOUS
  <2>3. Limit(q) \in Nat /\ total \in Nat
    BY <1>6, <2>1, <2>2, SelectedTyped
  <2>4. /\ to \in Nat
        /\ to = IF from + Limit(q) <= total THEN from + Limit(q)
                ELSE IF from <= total THEN total ELSE from
        /\ I = {k \in S : from <= Rank(S, k) /\ Rank(S, k) < to}
    BY <1>5, <1>6, <2>1, <2>2, PageSize
  <2>5. \A k \in S : Rank(S, k) \in Nat
    BY <1>7, RankType
  <2>6. QED
    BY <2>3, <2>4, <2>5
<1>9. /\ scan.step = "paging"
      /\ scan'.step = (IF to < Cardinality(S) THEN "paging" ELSE "done")
      /\ scan'.offset = to
      /\ \A k \in Keys : scan'.got[k] = (IF k \in I THEN scan.got[k] + 1 ELSE scan.got[k])
  BY <1>3, <1>5, <1>6 DEF ScanPage, HasMore
<1>10. \A k \in Keys : Rank(S, k) \in Nat /\ scan.got[k] \in Nat
  BY <1>1, <1>7, RankType DEF ScanTypes
<1>11. I \subseteq S
  BY <1>8
<1>12. ASSUME ~scanned.added, NEW k \in Keys
       PROVE  scan'.got[k] <= 1 /\ (scan'.got[k] > 0 /\ k \in S => Rank(S, k) < to)
  <2>1. scan.got[k] <= 1 /\ (scan.got[k] > 0 /\ k \in S => Rank(S, k) < from)
    BY <1>2, <1>4, <1>9, <1>12 DEF ScanInv, BehindOffset
  <2>2. k \in I => from <= Rank(S, k)
    BY <1>8
  <2>3. QED
    BY <1>8, <1>9, <1>10, <1>11, <1>12, <2>1, <2>2
<1>13. ASSUME ~scanned.removed
       PROVE  /\ scanned.start \subseteq S
              /\ \A k \in scanned.start :
                   scan'.got[k] > 0 \/ (scan'.step = "paging" /\ to <= Rank(S, k))
  <2>1. /\ scanned.start \subseteq S
        /\ \A k \in scanned.start : scan.got[k] > 0 \/ from <= Rank(S, k)
    BY <1>2, <1>4, <1>9, <1>13 DEF ScanInv, AheadOfOffset
  <2>2. ASSUME NEW k \in scanned.start
        PROVE  scan'.got[k] > 0 \/ (scan'.step = "paging" /\ to <= Rank(S, k))
    <3>1. k \in S /\ k \in Keys
      BY <1>7, <2>1
    <3>2. CASE k \in I
      BY <1>9, <1>10, <3>1, <3>2
    <3>3. CASE scan.got[k] > 0
      BY <1>9, <1>10, <3>1, <3>3
    <3>4. CASE k \notin I /\ from <= Rank(S, k)
      <4>1. to <= Rank(S, k)
        BY <1>8, <3>1, <3>4
      <4>2. Rank(S, k) < Cardinality(S) /\ Cardinality(S) \in Nat
        BY <1>1, <1>6, <3>1, PlaceTyped, SelectedTyped DEF ScanTypes
      <4>3. to < Cardinality(S)
        BY <1>8, <1>10, <3>1, <4>1, <4>2
      <4>4. QED
        BY <1>9, <4>1, <4>3
    <3>5. QED
      BY <2>1, <3>2, <3>3, <3>4
  <2>3. QED
    BY <2>1, <2>2
<1>14. BehindOffset'
  BY <1>7, <1>9, <1>12 DEF BehindOffset
<1>15. AheadOfOffset'
  BY <1>7, <1>9, <1>13 DEF AheadOfOffset
<1>16. scan'.step # "idle"
  BY <1>9
<1>17. QED
  BY <1>14, <1>15, <1>16 DEF ScanInv

LEMMA ScanStore ==
  ASSUME TypeInv, ScanInv, NEW s \in Stores, NEW map \in RecordMap, StoreBecomes(s, map),
         UNCHANGED <<connected, restarts, scan>>
  PROVE  ScanInv'
<1>1. CASE Visible' = map /\ scanned' = Noticed(map)
  BY <1>1, ScanRecords
<1>2. CASE Visible' = Visible /\ scanned' = scanned
  BY <1>2, ScanUntouched
<1>3. QED
  BY <1>1, <1>2, StoreShown DEF providerVars

(* A disconnect takes all records away, and a connect brings none back.    *)
LEMMA ScanProvider ==
  ASSUME TypeInv, StoresToCome, ScanInv, Stop \/ Start
  PROVE  ScanInv'
<1>1. CASE Stop
  BY <1>1, ScanRecords DEF Stop, Visible
<1>2. CASE Start
  <2>1. /\ restarts \in Nat /\ restarts' = restarts + 1 /\ restarts' \in Stores
        /\ UNCHANGED <<records, scan, scanned>> /\ ~connected
    BY <1>2 DEF Start, storeVars, scanVars, TypeInv, TypeOK, Numbered, Stores
  <2>2. Visible' = EmptyMap /\ Visible = EmptyMap
    BY <2>1 DEF Visible, StoresToCome
  <2>3. QED
    BY <2>1, <2>2, ScanUntouched
<1>3. QED
  BY <1>1, <1>2

LEMMA ScanStep == TypeInv /\ Arrived /\ StoresToCome /\ ScanInv /\ [Next]_vars => ScanInv'
<1> SUFFICES ASSUME TypeInv, Arrived, StoresToCome, ScanInv, [Next]_vars PROVE ScanInv'
  OBVIOUS
<1>1. ASSUME UNCHANGED <<records, connected, restarts, scan, scanned>> PROVE ScanInv'
  BY <1>1, SameShown, ScanUntouched
<1>2. ASSUME NEW r \in Requests, NEW t \in Txs, Commit(r, t) PROVE ScanInv'
  <2>1. at[t] \in Stores /\ working[t] \in RecordMap
    BY DEF TypeInv, TypeOK
  <2>2. QED
    BY <1>2, <2>1, ScanStore DEF Commit, Finish, providerVars
<1>3. ASSUME NEW c \in Calls, CallApplied(c) PROVE ScanInv'
  <2>1. session[c] \in Stores /\ Applied(c) \in RecordMap
    BY AppliedIs
  <2>2. QED
    BY <1>3, <2>1, ScanStore DEF CallApplied, providerVars
<1>4. ASSUME NEW c \in Txs, Begin(c) \/ BeginRegistered(c) \/ BeginReturns(c) PROVE ScanInv'
  BY <1>1, <1>4 DEF Begin, BeginRegistered, BeginReturns, storeVars, providerVars, scanVars
<1>5. ASSUME NEW c \in Txs, NEW o, NEW k, TxWrite(c, o, k) \/ TxWriteResumes(c, k)
      PROVE  ScanInv'
  BY <1>1, <1>5 DEF TxWrite, TxWriteResumes, storeVars, providerVars, scanVars
<1>6. ASSUME NEW r \in Requests, NEW t \in Txs,
             CommitConflicts(r, t) \/ Rollback(r, t) \/ FinishClosed(r, t)
      PROVE  ScanInv'
  BY <1>1, <1>6 DEF CommitConflicts, Rollback, FinishClosed, Finish, storeVars, providerVars
<1>7. ASSUME NEW r \in Requests, FinishUnknown(r) \/ FinishReturns(r) PROVE ScanInv'
  BY <1>1, <1>7 DEF FinishUnknown, FinishReturns, storeVars, providerVars, scanVars
<1>8. ASSUME NEW c \in Calls,
             \/ CallRefused(c) \/ CallOpened(c) \/ CallUnavailable(c)
             \/ CallRejected(c) \/ CallAnswered(c)
      PROVE  ScanInv'
  BY <1>1, <1>8 DEF CallRefused, CallOpened, CallUnavailable, CallRejected, CallAnswered, apiVars,
                    storeVars, providerVars, scanVars
<1>9. ASSUME NEW c \in Calls, NEW made \in ToolCalls, CallTool(c, made) PROVE ScanInv'
  BY <1>1, <1>9 DEF CallTool, apiVars, storeVars, providerVars, scanVars
<1>10. CASE Initialize \/ Shutdown \/ UNCHANGED vars
  BY <1>1, <1>10 DEF Initialize, Shutdown, vars, apiVars, storeVars, providerVars, scanVars
<1>11. QED
  BY <1>2, <1>3, <1>4, <1>5, <1>6, <1>7, <1>8, <1>9, <1>10, ScanProvider, ScanStarts, ScanPages
  DEF Next, ApiNext, McpNext

(* A client that pages by next_offset finds what stays, for every number   *)
(* of records and every page limit.                                        *)
THEOREM ScanFindsWhatStaysCorrect == Spec => []ScanFindsWhatStays
<1>1. ScanInv => ScanFindsWhatStays
  BY DEF ScanInv, BehindOffset, AheadOfOffset, ScanFindsWhatStays
<1>2. QED
  BY <1>1, TypeInit, TypeStep, ArrivedInit, ArrivedStep, StoresInit, StoresStep, ScanInit,
     ScanStep, PTL DEF Spec

-----------------------------------------------------------------------------
(* The host and the integration implement SnapshotStore, for each store.   *)

\* What a step must leave alone to be invisible there.
snapshotVars(s) == <<records[s], StateOf(s), BaseOf(s), CopyOf(s), AwaitingOf(s)>>

LEMMA SnapshotsIdle ==
  ASSUME NEW s \in Stores, UNCHANGED <<records, at, tState, base, working, awaiting>>
  PROVE  UNCHANGED snapshotVars(s)
BY DEF snapshotVars, StateOf, BaseOf, CopyOf, AwaitingOf, OpenOf

LEMMA SnapshotsUntouched ==
  ASSUME NEW s \in Stores, UNCHANGED snapshotVars(s)
  PROVE  UNCHANGED Snapshots(s)!vars
BY DEF snapshotVars, Snapshots!vars

LEMMA WrittenVersion ==
  ASSUME NEW map \in RecordMap, NEW k \in Keys, NEW o, NEW w, NEW n
  PROVE  Written(map, o, k, w, n).version \in {0, map[k].version + 1}
BY DEF Written, RecordMap, Record, Absent

LEMMA SnapshotsBegin ==
  ASSUME TypeInv, NEW s \in Stores, NEW t \in Txs, Begin(t)
  PROVE  Snapshots(s)!Begin(t) \/ UNCHANGED snapshotVars(s)
<1>1. /\ tState[t] = "unused" /\ records' = records /\ awaiting' = awaiting
      /\ at'[t] = restarts /\ tState'[t] = "active"
      /\ base'[t] = records[restarts] /\ working'[t] = records[restarts]
      /\ \A u \in Txs \ {t} : /\ at'[u] = at[u] /\ tState'[u] = tState[u]
                              /\ base'[u] = base[u] /\ working'[u] = working[u]
  BY DEF Begin, Visible, storeVars, TypeInv, TypeOK
<1>2. \A k \in Keys : <<t, k>> \notin awaiting
  BY <1>1 DEF TypeInv, Numbered
<1>3. AwaitingOf(s)' = AwaitingOf(s)
  BY <1>1, <1>2 DEF AwaitingOf
<1>4. CASE s = restarts
  <2>1. StateOf(s)[t] = "unused" /\ StateOf(s)' = [StateOf(s) EXCEPT ![t] = "active"]
    BY <1>1, <1>4 DEF StateOf
  <2>2. BaseOf(s)' = [BaseOf(s) EXCEPT ![t] = records[s]]
    BY <1>1, <1>4 DEF BaseOf, OpenOf
  <2>3. CopyOf(s)' = [CopyOf(s) EXCEPT ![t] = records[s]]
    BY <1>1, <1>4 DEF CopyOf, OpenOf
  <2>4. QED
    BY <1>1, <1>3, <2>1, <2>2, <2>3 DEF Snapshots!Begin
<1>5. CASE s # restarts
  BY <1>1, <1>3, <1>5 DEF snapshotVars, StateOf, BaseOf, CopyOf, OpenOf
<1>6. QED
  BY <1>4, <1>5

(* A write through a handle: of the transaction it leads to, in its store, *)
(* if a disconnect has not closed that.                                    *)
LEMMA SnapshotsTxWrite ==
  ASSUME TypeInv, NEW s \in Stores, NEW c \in Txs, NEW o \in Operations, NEW k \in Keys,
         TxWrite(c, o, k)
  PROVE  (\E t \in Txs : Snapshots(s)!Change(t)) \/ UNCHANGED snapshotVars(s)
<1>1. PICK t \in Txs :
        /\ working' = [working EXCEPT ![t][k] = Written(working[t], o, k, c, 1)]
        /\ awaiting' = IF tState[t] = "active" THEN awaiting \cup {<<t, k>>} ELSE awaiting
  BY DEF TxWrite, LookUp, TypeInv, TypeOK
<1>2. PICK w : w = Written(working[t], o, k, c, 1)
  OBVIOUS
<1>3. working[t] \in RecordMap
  BY DEF TypeInv, TypeOK
<1>4. w.version \in {0, working[t][k].version + 1}
  BY <1>2, <1>3, WrittenVersion
<1>5. /\ working'[t][k] = w
      /\ \A j \in Keys \ {k} : working'[t][j] = working[t][j]
      /\ \A u \in Txs \ {t} : working'[u] = working[u]
  BY <1>1, <1>2, <1>3 DEF TypeInv, TypeOK, RecordMap
<1>6. at' = at /\ tState' = tState /\ base' = base /\ records' = records
  BY DEF TxWrite, storeVars
<1>7. BaseOf(s)' = BaseOf(s) /\ StateOf(s)' = StateOf(s)
  BY <1>6 DEF BaseOf, StateOf, OpenOf
<1>8. CASE OpenOf(s, t)
  <2>1. CopyOf(s)[t] = working[t] /\ CopyOf(s)'[t] = working'[t] /\ StateOf(s)[t] = "active"
    BY <1>6, <1>8 DEF CopyOf, StateOf, OpenOf
  <2>2. CopyOf(s)' = [CopyOf(s) EXCEPT ![t] = CopyOf(s)'[t]]
    BY <1>5, <1>6 DEF CopyOf, OpenOf
  <2>3. Snapshots(s)!OneWrite(CopyOf(s)[t], CopyOf(s)'[t])
    BY <1>4, <1>5, <2>1 DEF Snapshots!OneWrite
  <2>4. AwaitingOf(s)' = AwaitingOf(s) \cup {t}
    BY <1>1, <1>6, <1>8 DEF AwaitingOf, OpenOf
  <2>5. Snapshots(s)!Change(t)
    BY <1>6, <1>7, <2>1, <2>2, <2>3, <2>4 DEF Snapshots!Change
  <2>6. QED
    BY <2>5
<1>9. CASE ~OpenOf(s, t)
  <2>1. CopyOf(s)' = CopyOf(s)
    BY <1>5, <1>6, <1>9 DEF CopyOf, OpenOf
  <2>2. AwaitingOf(s)' = AwaitingOf(s)
    BY <1>1, <1>6, <1>9 DEF AwaitingOf, OpenOf
  <2>3. QED
    BY <1>6, <1>7, <2>1, <2>2 DEF snapshotVars
<1>10. QED
  BY <1>8, <1>9

LEMMA SnapshotsResume ==
  ASSUME NEW s \in Stores, NEW t \in Txs, NEW k \in Keys, TxWriteResumes(t, k)
  PROVE  Snapshots(s)!Resume(t) \/ UNCHANGED snapshotVars(s)
<1>1. /\ awaiting' = awaiting \ {<<t, k>>}
      /\ UNCHANGED <<records, at, tState, base, working>>
  BY DEF TxWriteResumes, storeVars
<1>2. UNCHANGED <<records, StateOf(s), BaseOf(s), CopyOf(s)>>
  BY <1>1 DEF StateOf, BaseOf, CopyOf, OpenOf
<1>3. AwaitingOf(s)' = AwaitingOf(s) \/ AwaitingOf(s)' = AwaitingOf(s) \ {t}
  BY <1>1 DEF AwaitingOf
<1>4. QED
  BY <1>2, <1>3 DEF Snapshots!Resume, snapshotVars

(* The transactions that end lose their copies, and the others keep        *)
(* theirs.                                                                 *)
LEMMA SnapshotsEnd ==
  ASSUME NEW s \in Stores, NEW ending \in SUBSET Txs,
         NEW outcome \in {"committed", "rolled-back", "closed"},
         \A t \in ending : OpenOf(s, t) /\ tState'[t] = outcome,
         \A t \in Txs \ ending :
           \/ at[t] # s
           \/ tState'[t] = tState[t] /\ base'[t] = base[t] /\ working'[t] = working[t],
         UNCHANGED <<at, awaiting>>
  PROVE  Snapshots(s)!End(ending, outcome)
<1>1. \A t \in ending : StateOf(s)[t] = "active"
  BY DEF StateOf, OpenOf
<1>2. StateOf(s)' = [t \in Txs |-> IF t \in ending THEN outcome ELSE StateOf(s)[t]]
  BY DEF StateOf, OpenOf
<1>3. BaseOf(s)' = [t \in Txs |-> IF t \in ending THEN EmptyMap ELSE BaseOf(s)[t]]
  BY DEF BaseOf, OpenOf
<1>4. CopyOf(s)' = [t \in Txs |-> IF t \in ending THEN EmptyMap ELSE CopyOf(s)[t]]
  BY DEF CopyOf, OpenOf
<1>5. AwaitingOf(s)' = AwaitingOf(s)
  BY DEF AwaitingOf
<1>6. QED
  BY <1>1, <1>2, <1>3, <1>4, <1>5 DEF Snapshots!End

LEMMA SnapshotsFinish ==
  ASSUME TypeInv, NEW t \in Txs, NEW outcome \in {"committed", "rolled-back"}, End(t, outcome),
         UNCHANGED <<at, awaiting>>, NEW s \in Stores
  PROVE  /\ at[t] = s => OpenOf(s, t) /\ Snapshots(s)!End({t}, outcome)
         /\ at[t] # s => UNCHANGED <<StateOf(s), BaseOf(s), CopyOf(s), AwaitingOf(s)>>
<1>1. /\ tState[t] = "active" /\ tState'[t] = outcome
      /\ \A u \in Txs \ {t} : /\ tState'[u] = tState[u]
                              /\ base'[u] = base[u] /\ working'[u] = working[u]
  BY DEF End, TypeInv, TypeOK
<1>2. CASE at[t] = s
  <2>1. OpenOf(s, t)
    BY <1>1, <1>2 DEF OpenOf
  <2>2. Snapshots(s)!End({t}, outcome)
    BY <1>1, <2>1, SnapshotsEnd
  <2>3. QED
    BY <1>2, <2>1, <2>2
<1>3. CASE at[t] # s
  BY <1>1, <1>3 DEF StateOf, BaseOf, CopyOf, AwaitingOf, OpenOf
<1>4. QED
  BY <1>2, <1>3

(* A commit compares every key whose record differs, but for those of the  *)
(* writes that have not resumed.                                           *)
LEMMA SnapshotsCommit ==
  ASSUME TypeInv, NEW s \in Stores, NEW r \in Requests, NEW t \in Txs, Commit(r, t)
  PROVE  Snapshots(s)!Commit(t) \/ UNCHANGED snapshotVars(s)
<1>1. /\ End(t, "committed") /\ Conflicts(t) = {} /\ UNCHANGED <<at, awaiting>>
      /\ StoreBecomes(at[t], working[t]) /\ at[t] \in Stores /\ working[t] \in RecordMap
  BY DEF Commit, Finish, TypeInv, TypeOK
<1>2. records'[at[t]] = working[t] /\ \A u \in Stores \ {at[t]} : records'[u] = records[u]
  BY <1>1, StoreTyped
<1>3. CASE at[t] = s
  <2>1. OpenOf(s, t) /\ Snapshots(s)!End({t}, "committed")
    BY <1>1, <1>3, SnapshotsFinish
  <2>2. CopyOf(s)[t] = working[t] /\ BaseOf(s)[t] = base[t]
    BY <2>1 DEF CopyOf, BaseOf
  <2>3. ASSUME t \notin AwaitingOf(s), NEW k \in Keys, working[t][k] # base[t][k]
        PROVE  records[s][k].version = base[t][k].version
    <3>1. k \in Touched(t)
      BY <1>3, <2>3 DEF Touched, Changed, AwaitingOf
    <3>2. QED
      BY <1>1, <1>3, <3>1 DEF Conflicts
  <2>4. records'[s] = CopyOf(s)[t]
    BY <1>2, <1>3, <2>2
  <2>5. Snapshots(s)!Commit(t)
    BY <2>1, <2>2, <2>3, <2>4 DEF Snapshots!Commit, Snapshots!Unchanged
  <2>6. QED
    BY <2>5
<1>4. CASE at[t] # s
  BY <1>1, <1>2, <1>4, SnapshotsFinish DEF snapshotVars
<1>5. QED
  BY <1>3, <1>4

LEMMA SnapshotsRollback ==
  ASSUME TypeInv, NEW s \in Stores, NEW r \in Requests, NEW t \in Txs, Rollback(r, t)
  PROVE  Snapshots(s)!Rollback(t) \/ UNCHANGED snapshotVars(s)
<1>1. End(t, "rolled-back") /\ UNCHANGED <<at, awaiting>> /\ records' = records
  BY DEF Rollback, Finish, storeVars
<1>2. CASE at[t] = s
  BY <1>1, <1>2, SnapshotsFinish DEF Snapshots!Rollback
<1>3. CASE at[t] # s
  BY <1>1, <1>3, SnapshotsFinish DEF snapshotVars
<1>4. QED
  BY <1>2, <1>3

LEMMA SnapshotsStop ==
  ASSUME TypeInv, NEW s \in Stores, Stop
  PROVE  Snapshots(s)!Disconnect
<1> DEFINE ending == {t \in Txs : OpenOf(s, t) /\ begin[t] # "opened"}
<1>1. tState' = [t \in Txs |-> IF tState[t] = "active" /\ begin[t] # "opened"
                                THEN "closed" ELSE tState[t]]
  BY DEF Stop
<1>2. UNCHANGED <<records, at, base, working, awaiting>>
  BY DEF Stop, storeVars
<1>3. \A t \in ending : OpenOf(s, t) /\ tState'[t] = "closed"
  BY <1>1 DEF OpenOf
<1>4. \A t \in Txs \ ending : at[t] # s \/ tState'[t] = tState[t]
  BY <1>1 DEF OpenOf
<1>5. ending \in SUBSET Txs
  OBVIOUS
<1>6. Snapshots(s)!End(ending, "closed")
  BY <1>2, <1>3, <1>4, <1>5, SnapshotsEnd
<1>7. ending \in SUBSET {t \in Txs : StateOf(s)[t] = "active"}
  BY DEF StateOf, OpenOf
<1> HIDE DEF ending
<1>8. QED
  BY <1>2, <1>6, <1>7 DEF Snapshots!Disconnect

(* A tool call writes the one key it was made for, or no key, in the store *)
(* of its session.                                                         *)
LEMMA SnapshotsCall ==
  ASSUME TypeInv, Arrived, NEW s \in Stores, NEW c \in Calls, CallApplied(c)
  PROVE  Snapshots(s)!Write \/ UNCHANGED snapshotVars(s)
<1>1. PICK o, key, map : /\ o = OperationOf(request[c].operation)
                         /\ key = request[c].payload.key /\ map = records[session[c]]
  OBVIOUS
<1>2. /\ session[c] \in Stores /\ map \in RecordMap
      /\ Applied(c) = [k \in Keys |-> IF o \in Operations /\ k \in key
                                        THEN Written(map, o, k, c, 1) ELSE map[k]]
      /\ Applied(c) \in RecordMap
  BY <1>1, AppliedIs
<1>3. /\ records'[session[c]] = Applied(c)
      /\ \A u \in Stores \ {session[c]} : records'[u] = records[u]
  BY <1>2, StoreTyped DEF CallApplied
<1>4. UNCHANGED <<at, tState, base, working, awaiting>>
  BY DEF CallApplied, txVars
<1>5. UNCHANGED <<StateOf(s), BaseOf(s), CopyOf(s), AwaitingOf(s)>>
  BY <1>4 DEF StateOf, BaseOf, CopyOf, AwaitingOf, OpenOf
<1>6. (\E k \in Keys : key = {k}) \/ o \notin Operations
  <2>1. PICK made \in ToolCalls :
          request[c].operation = made.tool /\ request[c].payload.key = made.key
    BY ArrivedAsMade DEF CallApplied, Arrived
  <2>2. (\E k \in Keys : made.key = {k}) \/ made.tool = "context.query"
    BY CallsMade DEF ToolCall
  <2>3. QED
    BY <1>1, <2>1, <2>2, OperationsOfTools DEF Operations
<1>7. CASE o \notin Operations \/ s # session[c]
  <2>1. records'[s] = records[s]
    BY <1>1, <1>2, <1>3, <1>7 DEF RecordMap
  <2>2. QED
    BY <1>5, <2>1 DEF snapshotVars
<1>8. ASSUME NEW k \in Keys, key = {k}, o \in Operations, s = session[c]
      PROVE  Snapshots(s)!Write
  <2>1. /\ records'[s][k] = Written(map, o, k, c, 1) /\ records[s] = map
        /\ \A j \in Keys \ {k} : records'[s][j] = records[s][j]
    BY <1>1, <1>2, <1>3, <1>8
  <2>2. records'[s][k].version \in {0, records[s][k].version + 1}
    BY <1>2, <2>1, WrittenVersion
  <2>3. Snapshots(s)!OneWrite(records[s], records'[s])
    BY <2>1, <2>2 DEF Snapshots!OneWrite
  <2>4. QED
    BY <1>5, <2>3 DEF Snapshots!Write
<1>9. QED
  BY <1>6, <1>7, <1>8

LEMMA SnapshotsStep ==
  ASSUME TypeInv, Arrived, [Next]_vars, NEW s \in Stores
  PROVE  [Snapshots(s)!Next]_(Snapshots(s)!vars)
<1> SUFFICES Snapshots(s)!Next \/ UNCHANGED snapshotVars(s)
  BY SnapshotsUntouched
<1>1. ASSUME NEW t \in Txs, Begin(t) PROVE Snapshots(s)!Next \/ UNCHANGED snapshotVars(s)
  BY <1>1, SnapshotsBegin DEF Snapshots!Next
<1>2. ASSUME NEW c \in Txs, NEW o \in Operations, NEW k \in Keys, TxWrite(c, o, k)
      PROVE  Snapshots(s)!Next \/ UNCHANGED snapshotVars(s)
  BY <1>2, SnapshotsTxWrite DEF Snapshots!Next
<1>3. ASSUME NEW t \in Txs, NEW k \in Keys, TxWriteResumes(t, k)
      PROVE  Snapshots(s)!Next \/ UNCHANGED snapshotVars(s)
  BY <1>3, SnapshotsResume DEF Snapshots!Next
<1>4. ASSUME NEW r \in Requests, NEW t \in Txs, Commit(r, t)
      PROVE  Snapshots(s)!Next \/ UNCHANGED snapshotVars(s)
  BY <1>4, SnapshotsCommit DEF Snapshots!Next
<1>5. ASSUME NEW r \in Requests, NEW t \in Txs, Rollback(r, t)
      PROVE  Snapshots(s)!Next \/ UNCHANGED snapshotVars(s)
  BY <1>5, SnapshotsRollback DEF Snapshots!Next
<1>6. CASE Stop
  BY <1>6, SnapshotsStop DEF Snapshots!Next
<1>7. ASSUME NEW c \in Calls, CallApplied(c)
      PROVE  Snapshots(s)!Next \/ UNCHANGED snapshotVars(s)
  BY <1>7, SnapshotsCall DEF Snapshots!Next
<1>8. ASSUME NEW c \in Txs, BeginRegistered(c) \/ BeginReturns(c)
      PROVE  UNCHANGED snapshotVars(s)
  BY <1>8, SnapshotsIdle DEF BeginRegistered, BeginReturns, storeVars, txVars
<1>9. ASSUME NEW r \in Requests, NEW t \in Txs, CommitConflicts(r, t) \/ FinishClosed(r, t)
      PROVE  UNCHANGED snapshotVars(s)
  BY <1>9, SnapshotsIdle DEF CommitConflicts, FinishClosed, Finish, storeVars
<1>10. ASSUME NEW r \in Requests, FinishUnknown(r) \/ FinishReturns(r)
       PROVE  UNCHANGED snapshotVars(s)
  BY <1>10, SnapshotsIdle DEF FinishUnknown, FinishReturns, storeVars, txVars
<1>11. CASE Start \/ ScanStart \/ ScanPage
  BY <1>11, SnapshotsIdle DEF Start, ScanStart, ScanPage, storeVars, txVars
<1>12. ASSUME NEW c \in Calls,
              \/ CallRefused(c) \/ CallOpened(c) \/ CallUnavailable(c)
              \/ CallRejected(c) \/ CallAnswered(c)
       PROVE  UNCHANGED snapshotVars(s)
  BY <1>12, SnapshotsIdle DEF CallRefused, CallOpened, CallUnavailable, CallRejected, CallAnswered,
                              apiVars, storeVars, txVars
<1>13. ASSUME NEW c \in Calls, NEW made \in ToolCalls, CallTool(c, made)
       PROVE  UNCHANGED snapshotVars(s)
  BY <1>13, SnapshotsIdle DEF CallTool, apiVars, storeVars, txVars
<1>14. CASE Initialize \/ Shutdown \/ UNCHANGED vars
  BY <1>14, SnapshotsIdle DEF Initialize, Shutdown, vars, apiVars, storeVars, txVars
<1>15. QED
  BY <1>1, <1>2, <1>3, <1>4, <1>5, <1>6, <1>7, <1>8, <1>9, <1>10, <1>11, <1>12, <1>13, <1>14
  DEF Next, ApiNext, McpNext

LEMMA SnapshotsInit ==
  ASSUME Init, NEW s \in Stores
  PROVE  Snapshots(s)!Init
<1>1. \A t \in Txs : tState[t] = "unused" /\ base[t] = EmptyMap /\ working[t] = EmptyMap
  BY DEF Init, ApiInit
<1>2. awaiting = {}
  BY DEF Init, ApiInit
<1>3. QED
  BY <1>1, <1>2 DEF Snapshots!Init, StateOf, BaseOf, CopyOf, AwaitingOf, OpenOf

(* The host and the integration keep the promise of the stores below them, *)
(* those of the in-memory provider, for any number of clients, requests,   *)
(* tool calls and restarts.                                                *)
THEOREM ImplementsSnapshotsCorrect == Spec => ImplementsSnapshots
<1>1. Init => \A s \in Stores : Snapshots(s)!Init
  BY SnapshotsInit
<1>2. TypeInv /\ Arrived /\ [Next]_vars =>
        \A s \in Stores : [Snapshots(s)!Next]_(Snapshots(s)!vars)
  BY SnapshotsStep
<1>3. QED
  BY <1>1, <1>2, TypeInit, TypeStep, ArrivedInit, ArrivedStep, PTL DEF Spec, ImplementsSnapshots
=============================================================================
