--------------------------- MODULE MCContextStore ---------------------------
(* Instances of ContextStore for TLC.                                      *)
EXTENDS ContextStore, TLC

\* Transactions are interchangeable, and so are keys.
TxAndKeySymmetry == Permutations(Txs) \cup Permutations(Keys)
=============================================================================
