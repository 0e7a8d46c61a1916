-------------------------- MODULE MCKernelRegistry --------------------------
(* The registry for TLC: names and ids are interchangeable.                *)
EXTENDS KernelRegistry, TLC

Symmetric == Permutations(Uuids) \cup Permutations(Names)
=============================================================================
