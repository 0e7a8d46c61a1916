-------------------------- MODULE ResourceRegistry --------------------------
(***************************************************************************)
(* What the owner of sessions and transactions promises about them,        *)
(* whoever it is and whatever it waits for: one is opened only while there *)
(* is a connection, it ends once and stays as it ended, and none outlives  *)
(* the connection: a disconnect closes every one that is open, even when   *)
(* it fails to disconnect, and a crash ends them all.                      *)
(*                                                                         *)
(* There is one way out of the promise: a resource on which two calls have *)
(* met is disputed from then on.                                           *)
(***************************************************************************)
CONSTANTS
  Resources,    \* the sessions and transactions there may be
  Disputable    \* those on which two calls may meet

VARIABLES
  connected,
  state         \* of each resource

vars == <<connected, state>>

Outcomes == {"committed", "rolled-back", "closed"}

Init ==
  /\ connected = FALSE
  /\ state = [r \in Resources |-> "unused"]

Connect == connected' = TRUE /\ UNCHANGED state

Open(r) ==
  /\ connected
  /\ state[r] = "unused"
  /\ state' = [state EXCEPT ![r] = "active"]
  /\ UNCHANGED connected

End(r) ==
  /\ state[r] = "active"
  /\ \E outcome \in Outcomes : state' = [state EXCEPT ![r] = outcome]
  /\ UNCHANGED connected

Dispute(r) ==
  /\ r \in Disputable
  /\ state[r] \in {"unused", "active"}
  /\ state' = [state EXCEPT ![r] = "disputed"]
  /\ UNCHANGED connected

(* All that are open end together; calls may be in progress on some.       *)
EndAll(outcome) ==
  state' = [r \in Resources |->
              IF state[r] # "active" THEN state[r]
              ELSE IF r \in Disputable /\ state'[r] = "disputed" THEN "disputed"
              ELSE outcome]

Disconnect == EndAll("closed") /\ connected' \in {FALSE, connected}

Crash == EndAll("gone") /\ connected' = FALSE

Next ==
  \/ Connect \/ Disconnect \/ Crash
  \/ \E r \in Resources : Open(r) \/ End(r) \/ Dispute(r)

Spec == Init /\ [][Next]_vars
=============================================================================
