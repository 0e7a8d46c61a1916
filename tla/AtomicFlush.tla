----------------------------- MODULE AtomicFlush -----------------------------
(***************************************************************************)
(* What an atomic flush promises.  The package calls its flush atomic      *)
(* (context-persistence-filesystem/README.md:12); this module says what    *)
(* that means.                                                             *)
(*                                                                         *)
(* `durable` is the state a restarted process would load, whole.  One      *)
(* flush at a time may replace it, in one step, by the state it was given; *)
(* it may report success only once it has, and failure at any time.  A     *)
(* state is the set of the writes it includes.                             *)
(***************************************************************************)
CONSTANTS
  Writes,      \* the writes that may be made
  None         \* no flush in progress: not a state

VARIABLES
  durable,     \* the state a restart would load
  inflight,    \* the state being flushed, or None
  confirmed    \* the writes whose flush has been reported a success

vars == <<durable, inflight, confirmed>>

Init ==
  /\ durable   = {}
  /\ inflight  = None
  /\ confirmed = {}

(* A flush starts from a state that includes every confirmed write.        *)
Begin ==
  /\ inflight = None
  /\ inflight' \in {s \in SUBSET Writes : confirmed \subseteq s}
  /\ UNCHANGED <<durable, confirmed>>

Land ==
  /\ inflight # None
  /\ durable' = inflight
  /\ UNCHANGED <<inflight, confirmed>>

Succeed ==
  /\ inflight # None
  /\ durable = inflight
  /\ confirmed' \in {s \in SUBSET inflight : confirmed \subseteq s}
  /\ inflight' = None
  /\ UNCHANGED durable

(* An error, or the end of the process.                                    *)
GiveUp ==
  /\ inflight # None
  /\ inflight' = None
  /\ UNCHANGED <<durable, confirmed>>

Next == Begin \/ Land \/ Succeed \/ GiveUp

Spec == Init /\ [][Next]_vars
=============================================================================
