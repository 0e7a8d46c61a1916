---------------------------- MODULE StoreRecords ----------------------------
(***************************************************************************)
(* The record map every HOST context store keeps, and the three write      *)
(* operations on it: create, update and delete.  The in-memory store, the  *)
(* filesystem provider and the SQLite provider all carry a copy of this    *)
(* code (writeCreate, writeUpdate, writeDelete); the line numbers in the   *)
(* project's map are those of the in-memory store.                         *)
(*                                                                         *)
(* A payload is abstracted to the writer that produced it and that         *)
(* writer's serial number, so no two writes carry the same payload: that   *)
(* is what the properties need to tell one write from another.             *)
(***************************************************************************)
EXTENDS Naturals

CONSTANTS
  Keys,        \* the keys callers use; create rejects a blank key, so none is
  Writers,     \* whoever writes: the transactions, and the direct callers
  Nobody       \* the writer of a record that does not exist

ASSUME NobodyAssumption == Nobody \notin Writers

-----------------------------------------------------------------------------
(* Records.  A key without a record maps to Absent, whose version 0 is the *)
(* version a create may expect.                                            *)

Record == [version : Nat, writer : Writers \cup {Nobody}, serial : Nat]

Absent == [version |-> 0, writer |-> Nobody, serial |-> 0]

RecordMap == [Keys -> Record]

EmptyMap == [k \in Keys |-> Absent]

Has(map, k) == map[k].version # 0

-----------------------------------------------------------------------------
(* The writes.  An expected version is the singleton of a number, or {}    *)
(* when the caller passed none.                                            *)

Operations == {"create", "update", "delete"}

Expects(expected, version) == expected = {} \/ expected = {version}

(* Whether a write is accepted.  A rejected write returns a failure and    *)
(* changes nothing.                                                        *)
Accepts(map, op, k, expected) ==
  \/ /\ op = "create"
     /\ Expects(expected, 0)
     /\ ~Has(map, k)
  \/ /\ op \in {"update", "delete"}
     /\ Has(map, k)
     /\ Expects(expected, map[k].version)

(* The record an accepted write leaves under its key.                      *)
Written(map, op, k, writer, serial) ==
  IF op = "delete"
    THEN Absent
    ELSE [version |-> map[k].version + 1, writer |-> writer, serial |-> serial]

(* The version of the record an accepted write returns to its caller: the  *)
(* new record's, or the removed record's.                                  *)
ReturnedVersion(map, op, k) ==
  IF op = "delete" THEN map[k].version ELSE map[k].version + 1
=============================================================================
