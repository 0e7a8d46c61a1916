-------------------------- MODULE AtomicRepository --------------------------
(***************************************************************************)
(* What an execution repository promises while the transactions of its     *)
(* calls do not overlap: every call takes effect, or is refused, in one    *)
(* step on the records as they are then, and it is refused only for a      *)
(* reason.  A record of a fixed kind is created and deleted, never         *)
(* updated.  An update whose caller expects no version may settle on the   *)
(* version there is at some time during the call, and is refused when the  *)
(* record has another one by the time it takes effect.                     *)
(*                                                                         *)
(* `void` says that two transactions have overlapped; there is no promise  *)
(* from then on.                                                           *)
(***************************************************************************)
EXTENDS Naturals

CONSTANTS
  Writers,    \* the callers, one call each at a time
  Fixed,      \* the keys of dispatches and history entries
  Absent,     \* no record; its version is 0
  NoKey       \* the key of a call when there is none

VARIABLES
  held,       \* the record under each key
  call,       \* the call of each writer: its operation, key, expected version
  void        \* the promise is off

vars == <<held, call, void>>

Has(k) == held[k].version # 0

Idle(w) == call[w].key = NoKey

Init == (\A w \in Writers : Idle(w)) /\ void = FALSE

Expects(c, version) == c.expected \in {{}, {version}}

Acceptable(c) ==
  \/ c.op = "create" /\ ~Has(c.key) /\ Expects(c, 0)
  \/ c.op \in {"update", "delete"} /\ Has(c.key) /\ Expects(c, held[c.key].version)

Ask(w) ==
  /\ Idle(w) /\ ~Idle(w)'
  /\ call' = [call EXCEPT ![w] = call'[w]]
  /\ call'[w].op = "update" => call'[w].key \notin Fixed
  /\ UNCHANGED held

Settle(w) ==
  LET c == call[w]
  IN  /\ ~Idle(w) /\ c.op = "update" /\ c.expected = {} /\ Has(c.key)
      /\ call' = [call EXCEPT ![w] =
                   [op |-> c.op, key |-> c.key, expected |-> {held[c.key].version}]]
      /\ UNCHANGED held

Answered(w) == Idle(w)' /\ call' = [call EXCEPT ![w] = call'[w]]

Apply(w) ==
  LET c == call[w]
      record == held'[c.key]
  IN  /\ ~Idle(w) /\ Acceptable(c)
      /\ c.op = "update" => c.expected # {}
      /\ held' = [held EXCEPT ![c.key] = record]
      /\ IF c.op = "delete" THEN record = Absent
         ELSE record.version = held[c.key].version + 1 /\ record.writer = w
      /\ Answered(w)

Refuse(w) ==
  /\ ~Idle(w) /\ ~Acceptable(call[w])
  /\ Answered(w)
  /\ UNCHANGED held

Next ==
  \/ void' = TRUE
  \/ /\ void = FALSE /\ void' = FALSE
     /\ \E w \in Writers : Ask(w) \/ Settle(w) \/ Apply(w) \/ Refuse(w)

Spec == Init /\ [][Next]_vars
=============================================================================
