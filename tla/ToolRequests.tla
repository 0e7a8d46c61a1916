---------------------------- MODULE ToolRequests ----------------------------
(***************************************************************************)
(* How a call of a context tool of the MCP integration becomes a request   *)
(* of the API host: the integration makes a REST request of it, and the    *)
(* REST transport adapter an API request of that.  And how the error of a  *)
(* store becomes the code the caller gets.                                 *)
(*                                                                         *)
(* An optional field is {} or a singleton.  The encoding of keys in paths  *)
(* and of numbers and orders in query strings is undone where it is done;  *)
(* that of lists of keys is not: they travel as values that are split at   *)
(* commas and trimmed.  Numbers are those below 10^21: the text of larger  *)
(* ones has an exponent and is not read back.  Metadata, values and the    *)
(* other filters of a query are left out.                                  *)
(***************************************************************************)
EXTENDS StoreRecords, Sequences

CONSTANT Parts   \* the keys that the parts of a key between commas are, trimmed

ASSUME PartsAssumption == Parts \in [Keys -> SUBSET Keys]

Tools == {"context.create", "context.retrieve", "context.update",
          "context.delete", "context.query"}

\* The arguments of context.query.
ToolQuery(keys, order, limit, offset) ==
  [keys |-> keys, order_by |-> order, limit |-> limit, offset |-> offset]

NoQuery == ToolQuery({}, {}, {}, {})

ToolCall(tool, key, expected, query) ==
  [tool |-> tool, key |-> key, expected |-> expected, query |-> query]

-----------------------------------------------------------------------------
(* #requestForTool.  The body of a create carries the key; the expected    *)
(* version of a delete travels in the query string.                        *)

RestRequest(method, path, body, query) ==
  [method |-> method, path |-> path, body |-> body, query |-> query]

NoBody      == [key |-> {}, expected |-> {}]
NoRestQuery == [expected_version |-> {}, keys |-> {}, order_by |-> {},
                limit |-> {}, offset |-> {}]

(* queryFromObject: an absent list and an empty one both leave no value,   *)
(* and so do an absent order and an empty one.                             *)
QueryFromObject(q) ==
  [NoRestQuery EXCEPT !.keys = UNION q.keys, !.order_by = q.order_by \ {<<>>},
                      !.limit = q.limit, !.offset = q.offset]

\* A faulty variant: a delete has no body, and its options are dropped.
RequestForToolWithoutQuery(call) ==
  CASE call.tool = "context.create" ->
         RestRequest("POST", {}, [key |-> call.key, expected |-> call.expected], NoRestQuery)
    [] call.tool = "context.retrieve" -> RestRequest("GET", call.key, NoBody, NoRestQuery)
    [] call.tool = "context.update" ->
         RestRequest("PUT", call.key, [NoBody EXCEPT !.expected = call.expected], NoRestQuery)
    [] call.tool = "context.delete" -> RestRequest("DELETE", call.key, NoBody, NoRestQuery)
    [] call.tool = "context.query"  ->
         RestRequest("GET", {}, NoBody, QueryFromObject(call.query))

RequestForTool(call) ==
  CASE call.tool = "context.create" ->
         RestRequest("POST", {}, [key |-> call.key, expected |-> call.expected], NoRestQuery)
    [] call.tool = "context.retrieve" -> RestRequest("GET", call.key, NoBody, NoRestQuery)
    [] call.tool = "context.update" ->
         RestRequest("PUT", call.key, [NoBody EXCEPT !.expected = call.expected], NoRestQuery)
    [] call.tool = "context.delete" ->
         RestRequest("DELETE", call.key, NoBody,
                     [NoRestQuery EXCEPT !.expected_version = call.expected])
    [] call.tool = "context.query" ->
         RestRequest("GET", {}, NoBody, QueryFromObject(call.query))

-----------------------------------------------------------------------------
(* The REST transport adapter.                                             *)

\* REST_RESOURCE_REGISTRY: method, template, operation.  The template /context
\* is that of the collection, /context/{key} that of an item.
Routes ==
  { <<"POST",   "collection", "context.create">>, <<"GET",   "item", "context.retrieve">>,
    <<"PUT",    "item", "context.update">>,       <<"PATCH", "item", "context.update">>,
    <<"DELETE", "item", "context.delete">>,       <<"GET", "collection", "context.query">> }

Template(path) == IF path = {} THEN "collection" ELSE "item"

RouteFor(rest) ==
  (CHOOSE route \in Routes : route[1] = rest.method /\ route[2] = Template(rest.path))[3]

\* The query string comes before the body.
ExpectedVersionFrom(rest) ==
  IF rest.query.expected_version # {} THEN rest.query.expected_version
                                      ELSE rest.body.expected

(* requestPayloadFor: the key of a create comes from the body, that of the *)
(* others from the path.                                                   *)
PayloadFor(rest) ==
  CASE RouteFor(rest) = "context.create" -> rest.body
    [] RouteFor(rest) = "context.retrieve" -> [NoBody EXCEPT !.key = rest.path]
    [] RouteFor(rest) \in {"context.update", "context.delete"} ->
         [key |-> rest.path, expected |-> ExpectedVersionFrom(rest)]
    [] RouteFor(rest) = "context.query" -> NoBody

\* splitCsv.
SplitCsv(values) == UNION {Parts[k] : k \in values}

(* createContextQueryFromRestQuery: a list in which nothing is left after  *)
(* the split is no restriction.                                            *)
QueryFromRest(query) ==
  ToolQuery(IF SplitCsv(query.keys) = {} THEN {} ELSE {SplitCsv(query.keys)},
            query.order_by, query.limit, query.offset)

(* translateRequest.                                                       *)
ApiRequestFor(rest) ==
  [operation |-> RouteFor(rest), payload |-> PayloadFor(rest),
   query |-> IF RouteFor(rest) = "context.query" THEN QueryFromRest(rest.query) ELSE NoQuery]

\* The operation of the store behind an operation of the API.
OperationOf(operation) ==
  CASE operation = "context.create"   -> "create"
    [] operation = "context.retrieve" -> "retrieve"
    [] operation = "context.update"   -> "update"
    [] operation = "context.delete"   -> "delete"
    [] operation = "context.query"    -> "query"

-----------------------------------------------------------------------------
(* Errors.                                                                 *)

StoreErrors == {"duplicate-key", "not-found", "version-conflict", "invalid-query",
                "transaction-closed", "io-failure"}

\* mapStoreError.
ServiceError(error) == IF error = "io-failure" THEN "unavailable" ELSE error

\* A faulty variant: a transaction that was closed is not to be found.
ApiErrorHidingClosed(error) ==
  CASE error \in {"duplicate-key", "version-conflict"}   -> "api.conflict"
    [] error \in {"not-found", "transaction-closed"}     -> "api.not_found"
    [] error = "invalid-query"                           -> "api.validation_failed"
    [] error = "unavailable"                             -> "api.unavailable"

\* mapContextError.
ApiError(error) ==
  CASE error \in {"duplicate-key", "version-conflict"} -> "api.conflict"
    [] error = "not-found"          -> "api.not_found"
    [] error = "invalid-query"      -> "api.validation_failed"
    [] error = "transaction-closed" -> "api.transaction_closed"
    [] error = "unavailable"        -> "api.unavailable"

ApiErrors == {"api.invalid_request", "api.validation_failed", "api.not_found",
              "api.conflict", "api.transaction_closed", "api.unavailable"}

\* mapApiErrorToMcpError: -32602, -32004, -32009 and -32003.
McpError(code) ==
  CASE code \in {"api.invalid_request", "api.validation_failed"} -> "mcp.invalid_params"
    [] code = "api.not_found"                                    -> "mcp.not_found"
    [] code \in {"api.conflict", "api.transaction_closed"}       -> "mcp.conflict"
    [] code = "api.unavailable"                                  -> "mcp.unavailable"

McpErrors == {"mcp.invalid_params", "mcp.not_found", "mcp.conflict", "mcp.unavailable"}
=============================================================================
