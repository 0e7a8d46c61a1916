---------------------------- MODULE SnapshotStore ----------------------------
(***************************************************************************)
(* What a context store promises to those who use it through transactions, *)
(* wherever its records are and whoever passes the calls on.               *)
(*                                                                         *)
(* A transaction has a copy of all records from its begin to its end, and  *)
(* nobody else sees what it writes there.  A commit puts the copy in place *)
(* of the records, in one step, and only while no key that it changes has  *)
(* another version than when the transaction began; a commit that does not *)
(* wait for the transaction's own writes has no such promise.  Once it has *)
(* ended, a transaction has no effect.                                     *)
(***************************************************************************)
EXTENDS Naturals

CONSTANTS
  Keys,
  Txs,
  None        \* the copy of a transaction that is not open

VARIABLES
  records,    \* what is read outside transactions: a record for each key
  state,      \* of each transaction
  base,       \* the records each began with
  copy,       \* its copy of them
  awaiting    \* the transactions with writes in progress

vars == <<records, state, base, copy, awaiting>>

Init ==
  /\ state = [t \in Txs |-> "unused"]
  /\ base = [t \in Txs |-> None] /\ copy = [t \in Txs |-> None]
  /\ awaiting = {}

(* One key changes: its record is removed, or has the next version.        *)
OneWrite(before, after) ==
  \E k \in Keys : /\ \A j \in Keys \ {k} : after[j] = before[j]
                  /\ after[k].version \in {0, before[k].version + 1}

Write == OneWrite(records, records') /\ UNCHANGED <<state, base, copy, awaiting>>

Begin(t) ==
  /\ state[t] = "unused"
  /\ state' = [state EXCEPT ![t] = "active"]
  /\ base'  = [base EXCEPT ![t] = records]
  /\ copy'  = [copy EXCEPT ![t] = records]
  /\ UNCHANGED <<records, awaiting>>

Change(t) ==
  /\ state[t] = "active"
  /\ OneWrite(copy[t], copy'[t])
  /\ copy' = [copy EXCEPT ![t] = copy'[t]]
  /\ awaiting' \in {awaiting, awaiting \cup {t}}
  /\ UNCHANGED <<records, state, base>>

Resume(t) ==
  /\ awaiting' = awaiting \ {t}
  /\ UNCHANGED <<records, state, base, copy>>

(* The transactions in ending end together.                                *)
End(ending, outcome) ==
  /\ \A t \in ending : state[t] = "active"
  /\ state' = [t \in Txs |-> IF t \in ending THEN outcome ELSE state[t]]
  /\ base'  = [t \in Txs |-> IF t \in ending THEN None ELSE base[t]]
  /\ copy'  = [t \in Txs |-> IF t \in ending THEN None ELSE copy[t]]
  /\ UNCHANGED awaiting

Unchanged(t, k) == records[k].version = base[t][k].version

Commit(t) ==
  /\ t \notin awaiting =>
       \A k \in Keys : copy[t][k] # base[t][k] => Unchanged(t, k)
  /\ records' = copy[t]
  /\ End({t}, "committed")

Rollback(t) == End({t}, "rolled-back") /\ UNCHANGED records

(* A disconnect ends open transactions; not one that is only beginning.     *)
Disconnect ==
  \E ending \in SUBSET {t \in Txs : state[t] = "active"} :
    End(ending, "closed") /\ UNCHANGED records

Next ==
  \/ Write \/ Disconnect
  \/ \E t \in Txs : Begin(t) \/ Change(t) \/ Resume(t) \/ Commit(t) \/ Rollback(t)

Spec == Init /\ [][Next]_vars
=============================================================================
