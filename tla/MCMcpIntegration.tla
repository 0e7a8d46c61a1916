-------------------------- MODULE MCMcpIntegration --------------------------
(* Instances of McpIntegration for TLC. *)
EXTENDS McpIntegration, TLC

CONSTANTS k1, k2

MCKeyOrder == (k1 :> 1) @@ (k2 :> 2)

\* The key k2 is that of a record whose key has commas and is split in two.
MCParts == (k1 :> {k1}) @@ (k2 :> {k1, k2})

MCToolQueries ==
  { ToolQuery({}, {}, {}, {}), ToolQuery({{}}, {}, {}, {}),
    ToolQuery({{k1}}, {DefaultOrder}, {1}, {}), ToolQuery({{k2}}, {}, {}, {1}) }

MCExpectations == {{}, {1}}

TxSymmetry == Permutations(Txs)

\* Bound: any two of these take part in a behaviour: each transaction, the MCP
\* integration with its tool call, the paging client, the restart; one write of
\* a transaction at a time is under way, and three of the four requests that
\* finish a transaction are sent.
MCActivity ==
  /\ Cardinality({r \in Requests : finish[r] # "idle" \/ answer[r] # "none"}) <= 3
  /\ Cardinality(awaiting) <= 1
  /\ Cardinality({t \in Txs : begin[t] # "idle"})
       + (IF mcp = "created" /\ \A c \in Calls : call[c] = "idle" THEN 0 ELSE 1)
       + (IF scan.step = "idle" THEN 0 ELSE 1)
       + (IF connected THEN restarts ELSE 1)
     <= 2
=============================================================================
