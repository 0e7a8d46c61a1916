----------------------- MODULE MCPersistenceProviders -----------------------
(* Instances of PersistenceProviders for TLC. *)
EXTENDS PersistenceProviders, TLC

\* Sessions are interchangeable.
SessionSymmetry == Permutations(Sessions)
=============================================================================
