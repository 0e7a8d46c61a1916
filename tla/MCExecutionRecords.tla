------------------------- MODULE MCExecutionRecords -------------------------
(* Instances of ExecutionRecords for TLC. *)
EXTENDS ExecutionRecords, TLC

CONSTANTS e1, i1, f1, d1, d2, h1, w1, w2

MCKind == (e1 :> "execution") @@ (i1 :> "instance") @@ (f1 :> "definition")
            @@ (d1 :> "dispatch") @@ (d2 :> "dispatch") @@ (h1 :> "history")

\* The dispatch of another execution comes first.
MCKeyOrder == (e1 :> 1) @@ (i1 :> 2) @@ (f1 :> 3) @@ (d2 :> 4) @@ (d1 :> 5) @@ (h1 :> 6)

MCExpectations == {{}, {1}}

\* One update, against a deletion and a creation.
MCMaxWrites == (w1 :> 1) @@ (w2 :> 2)
=============================================================================
