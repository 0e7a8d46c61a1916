-------------------------- MODULE MCFilesystemFlush --------------------------
(* Instances of FilesystemFlush for TLC. *)
EXTENDS FilesystemFlush, TLC

\* Calls are interchangeable, and so are writes.  For runs without liveness.
CallAndWriteSymmetry == Permutations(Procs) \cup Permutations(Writes)

\* Every file operation may fail, and none may.
AnyStep == Steps
NoStep  == {}
=============================================================================
