---------------------------- MODULE RecordCatalog ----------------------------
(***************************************************************************)
(* What the kernel's registry promises, whatever indexes and legacy maps   *)
(* it keeps: one catalogue of records and a set of reserved numbers.       *)
(*                                                                         *)
(* A call writes at most one record.  A record is never removed and never  *)
(* changes its kind; when it is written, no other record of its kind has   *)
(* its key, and what it refers to is in the catalogue.  A number is handed *)
(* out only when nothing in the catalogue is known by it.                  *)
(***************************************************************************)
EXTENDS Naturals

CONSTANTS
  Ids,            \* the ids a record may have
  Numbers,        \* those that are sequence numbers of objectives
  Seeds,          \* the numbers of the constitutional objectives
  LastCanonical,  \* the last number that can govern a record
  Approved,       \* the lifecycle stages 'approved' and 'archived'
  Archived,
  None            \* no record, no link

VARIABLES
  records,        \* the record with each id, or None
  reserved        \* numbers handed out and not released

vars == <<records, reserved>>

Has(id) == records[id] # None

Init ==
  /\ \A id \in Ids :
       IF id \in Seeds
       THEN /\ Has(id)
            /\ records[id].kind = "objective" /\ records[id].key = id
            /\ records[id].stage = Approved
       ELSE ~Has(id)
  /\ reserved = {}

(* What a record refers to, when it is written.                            *)
Governed(r) ==
  /\ r.link \in Numbers /\ r.link \in 1 .. LastCanonical
  /\ Has(r.link) /\ records[r.link].kind = "objective"

Grounded(r) ==
  /\ r.kind = "adr" => Governed(r) /\ records[r.link].stage # Archived
  /\ r.kind = "planning" =>
       Governed(r) /\ records[r.link].stage \in Approved .. Archived - 1
  /\ r.kind = "document" =>
       \/ r.link = None
       \/ r.link \in Ids /\ Has(r.link) /\ records[r.link].kind = "document"

Unique(id, r) ==
  \A other \in Ids \ {id} :
    Has(other) /\ records[other].kind = r.kind => records[other].key # r.key

Put(id, r) ==
  /\ r # None
  /\ Has(id) => r.kind = records[id].kind
  /\ Unique(id, r) /\ Grounded(r)
  /\ records' = [records EXCEPT ![id] = r]

(* A number is taken by a reservation, an id or a key.                     *)
Taken(n) ==
  \/ n \in reserved
  \/ Has(n)
  \/ \E id \in Ids : Has(id) /\ records[id].key = n

IsNext(n) == n > 0 /\ ~Taken(n) /\ \A m \in Numbers : 0 < m /\ m < n => Taken(m)

Write(id) == Put(id, records'[id]) /\ UNCHANGED reserved

Reserve(n) == ~Taken(n) /\ reserved' = reserved \cup {n} /\ UNCHANGED records

Release(n) ==
  n \in reserved /\ reserved' = reserved \ {n} /\ UNCHANGED records

(* Reserving the next number for an objective and entering it under that   *)
(* number; an objective that is rejected leaves only the reservation.      *)
Create(n) ==
  /\ IsNext(n)
  /\ reserved' = reserved \cup {n}
  /\ \/ records'[n].kind = "objective" /\ Put(n, records'[n])
     \/ UNCHANGED records

Next ==
  \/ \E id \in Ids : Write(id)
  \/ \E n \in Numbers : Reserve(n) \/ Release(n) \/ Create(n)

Spec == Init /\ [][Next]_vars
=============================================================================
