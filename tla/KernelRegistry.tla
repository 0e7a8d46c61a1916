--------------------------- MODULE KernelRegistry ---------------------------
(***************************************************************************)
(* The kernel's registry (packages/kernel-registry) with the services that *)
(* write to it: identifier allocation (kernel-identifiers), objectives     *)
(* (kernel-objectives) and documents (kernel-documents).                   *)
(*                                                                         *)
(* The code is synchronous: a call is one step.  A call that is rejected   *)
(* throws before it changes anything and is no step, with one exception: a *)
(* rejected createObjective has already reserved its identifier.           *)
(*                                                                         *)
(* Strings are abstracted to what the code tells apart: the number n is    *)
(* the identifier OBJ-n in canonical form, Uuids are the other ids and     *)
(* Names the other keys.  A key may have the form of an identifier.        *)
(*                                                                         *)
(* Of what a record refers to, only what the registry resolves is kept.    *)
(* The owning objective of a repository or a document is checked for its   *)
(* form and never looked up, so it is left out, as are free references.    *)
(***************************************************************************)
EXTENDS Naturals, FiniteSets

CONSTANTS
  Kinds,          \* the kinds of record in use
  Numbers,        \* sequence numbers of objective identifiers
  Seeds,          \* those of the constitutional objectives
  LastCanonical,  \* the last number that fits the pattern OBJ-###
  Uuids,          \* ids that are not objective identifiers
  Names,          \* keys that are not objective identifiers
  Approved,       \* position of 'approved' in objectiveLifecycleOrder
  Archived,       \* position of 'archived', the last
  MaxRecords,     \* bound on the number of records
  None            \* no record, no link

AllKinds == {"objective", "planning", "adr", "document",
             "product", "repository", "capability", "event"}
LegacyKinds == {"product", "repository", "capability", "event"}

Ids == Numbers \cup Uuids
Keys == Numbers \cup Names
Stages == 1 .. Archived        \* 1 is 'draft'

(* What a record refers to: the governing objective of an ADR or a planning *)
(* record, a document another one descends from, the product that owns a    *)
(* capability.  'list' is registered_capabilities.                          *)
Record == [kind : Kinds, key : Keys, stage : Stages,
           link : Ids \cup Keys \cup {None}, list : SUBSET Keys]

(* What a legacy map holds under a key: a copy of the record.               *)
Copy == [id : Ids, list : SUBSET Keys]

ASSUME KindsAssumption == Kinds \subseteq AllKinds /\ "objective" \in Kinds
ASSUME NumbersAssumption ==
  /\ Numbers \subseteq Nat /\ Seeds \subseteq Numbers
  /\ LastCanonical \in Nat
ASSUME StagesAssumption ==
  /\ Approved \in Nat /\ Archived \in Nat
  /\ 1 < Approved /\ Approved < Archived
ASSUME BoundAssumption == MaxRecords \in Nat
ASSUME NoneAssumption ==
  None \notin Ids \cup Keys /\ None \notin Record /\ None \notin Copy

VARIABLES
  records,        \* #state.records
  recordsByKey,   \* #state.recordsByKey; {} when the key is not in the map
  legacy,         \* #state.products, .repositories, .capabilities, .events
  identifiers,    \* #state.identifiers: the reserved numbers
  bypassed        \* history: objectives whose lifecycle the registry's own
                  \* update has set

vars == <<records, recordsByKey, legacy, identifiers, bypassed>>

-----------------------------------------------------------------------------
(* Reading.                                                                *)

Has(id) == records[id] # None
HasOfKind(id, kind) == Has(id) /\ records[id].kind = kind   \* lookup(kind, id)

(* Faulty variant: a number that is only the key of a record is free.      *)
existsAsId(n) == n \in identifiers \/ Has(n)

exists(n) == n \in identifiers \/ Has(n) \/ recordsByKey[n] # {}

(* The first number from 1 that reserve accepts.                           *)
IsNextNumber(n) ==
  /\ n > 0 /\ ~exists(n)
  /\ \A m \in Numbers : m > 0 /\ m < n => exists(m)

(* The checks of #recordIssues on what a record refers to.  Those on its   *)
(* own fields (blank name, unknown status) do not depend on the state.     *)
(* OBJ-000 has canonical form, but validate rejects the number 0.          *)
validIdentifier(n) == n \in 1 .. LastCanonical

(* Faulty variant: any record will do.                                     *)
GovernableByAnything(r) ==
  validIdentifier(r.link) /\ r.link \in Numbers /\ Has(r.link)

Governable(r) ==
  /\ validIdentifier(r.link) /\ r.link \in Numbers
  /\ HasOfKind(r.link, "objective")

LinkAccepted(r) ==
  /\ r.kind = "adr" => Governable(r) /\ records[r.link].stage # Archived
  /\ r.kind = "planning" =>
       Governable(r) /\ records[r.link].stage \in Approved .. Archived - 1
  /\ r.kind = "document" =>
       r.link = None \/ (r.link \in Ids /\ HasOfKind(r.link, "document"))

(* Faulty variants of the check below: only ids, only keys, are compared.  *)
DuplicateById(id, r, current) == id # current /\ Has(id)
DuplicateByKey(id, r, current) ==
  \E other \in recordsByKey[r.key] \ {current} : HasOfKind(other, r.kind)

(* #checkDuplicate; 'current' is the record being updated, or None.        *)
Duplicate(id, r, current) ==
  \/ id # current /\ Has(id)
  \/ \E other \in recordsByKey[r.key] \ {current} : HasOfKind(other, r.kind)

-----------------------------------------------------------------------------
(* Writing: the parts register and update are made of.                     *)

Stored(index, id, key) == [index EXCEPT ![key] = @ \cup {id}]
Detached(index, id, key) == [index EXCEPT ![key] = @ \ {id}]

(* #syncLegacyStores and #removeLegacyStore.                               *)
Synced(maps, id, r) ==
  IF r.kind \in LegacyKinds
  THEN [maps EXCEPT ![r.kind][r.key] = [id |-> id, list |-> r.list]]
  ELSE maps
Removed(maps, r) ==
  IF r.kind \in LegacyKinds THEN [maps EXCEPT ![r.kind][r.key] = None] ELSE maps

Room == Cardinality({id \in Ids : Has(id)}) < MaxRecords

(* register, except for the legacy maps, which some callers write again.   *)
Registered(id, r) ==
  /\ Room
  /\ LinkAccepted(r) /\ ~Duplicate(id, r, None)
  /\ records' = [records EXCEPT ![id] = r]
  /\ recordsByKey' = Stored(recordsByKey, id, r.key)

(* Faulty variant: the old copy is removed last, and takes the new one with *)
(* it when the key stays the same.                                         *)
UpdatedThenRemoved(id, next) ==
  LET current == records[id]
  IN  /\ LinkAccepted(next) /\ ~Duplicate(id, next, id)
      /\ records' = [records EXCEPT ![id] = next]
      /\ recordsByKey' =
           Stored(Detached(recordsByKey, id, current.key), id, next.key)
      /\ legacy' = Removed(Synced(legacy, id, next), current)

(* update: the record is taken out of the index and the legacy maps under  *)
(* its old key and put in under its new one.  The code copies the record   *)
(* in between; a record that cannot be copied (a function in its metadata) *)
(* makes it throw there, with the old entries gone, and is left out.       *)
Updated(id, next) ==
  LET current == records[id]
  IN  /\ LinkAccepted(next) /\ ~Duplicate(id, next, id)
      /\ records' = [records EXCEPT ![id] = next]
      /\ recordsByKey' =
           Stored(Detached(recordsByKey, id, current.key), id, next.key)
      /\ legacy' = Synced(Removed(legacy, current), id, next)

-----------------------------------------------------------------------------
(* The registry's operations.                                              *)

Init ==
  LET seed(n) == [kind |-> "objective", key |-> n, stage |-> Approved,
                  link |-> None, list |-> {}]
  IN  /\ records = [id \in Ids |-> IF id \in Seeds THEN seed(id) ELSE None]
      /\ recordsByKey = [key \in Keys |-> IF key \in Seeds THEN {key} ELSE {}]
      /\ legacy = [kind \in LegacyKinds |-> [key \in Keys |-> None]]
      /\ identifiers = {}
      /\ bypassed = {}

(* register, with an id of the caller's choice.  It is also how documents, *)
(* ADRs and planning records are made, and the objective service's         *)
(* register for an id that is not there yet.                               *)
Register(id, r) ==
  /\ Registered(id, r)
  /\ legacy' = Synced(legacy, id, r)
  /\ UNCHANGED <<identifiers, bypassed>>

(* update, as a caller of the registry may use it on any record.  The      *)
(* fields a patch does not name keep the record's value: 'list' always.    *)
Update(id, key, stage, link) ==
  /\ Has(id)
  /\ Updated(id, [records[id] EXCEPT !.key = key, !.stage = stage, !.link = link])
  /\ bypassed' = IF stage # records[id].stage THEN bypassed \cup {id} ELSE bypassed
  /\ UNCHANGED identifiers

(* reserve, and generate when nothing is created from its result.          *)
Reserve(n) ==
  /\ ~exists(n)
  /\ identifiers' = identifiers \cup {n}
  /\ UNCHANGED <<records, recordsByKey, legacy, bypassed>>

Release(n) ==
  /\ n \in identifiers
  /\ identifiers' = identifiers \ {n}
  /\ UNCHANGED <<records, recordsByKey, legacy, bypassed>>

-----------------------------------------------------------------------------
(* Objectives.                                                             *)

(* createObjective: reserve the next number, then register the record.     *)
(* When the record is rejected (second disjunct: a duplicate key or an     *)
(* unacceptable field) the number stays reserved.                          *)
CreateObjective(n, key, stage) ==
  LET r == [kind |-> "objective", key |-> key, stage |-> stage,
            link |-> None, list |-> {}]
  IN  /\ IsNextNumber(n)
      /\ identifiers' = identifiers \cup {n}
      /\ \/ Registered(n, r) /\ legacy' = Synced(legacy, n, r)
         \/ UNCHANGED <<records, recordsByKey, legacy>>
      /\ UNCHANGED bypassed

(* Faulty variant: the patch is spread over the current state.             *)
UpdateObjectiveByPatch(id, key) ==
  /\ HasOfKind(id, "objective")
  /\ \E stage \in Stages :
       Updated(id, [records[id] EXCEPT !.key = key, !.stage = stage])
  /\ UNCHANGED <<identifiers, bypassed>>

(* updateObjective keeps the current lifecycle state, whatever the patch.  *)
UpdateObjective(id, key) ==
  /\ HasOfKind(id, "objective")
  /\ Updated(id, [records[id] EXCEPT !.key = key])
  /\ UNCHANGED <<identifiers, bypassed>>

(* Faulty variant: the last state has a successor, too.                    *)
isTransitionAlwaysAllowed(from) == TRUE

(* objectiveLifecycleTransitions: from each state to the one after it.     *)
isTransitionAllowed(from) == from # Archived

TransitionObjective(id) ==
  /\ HasOfKind(id, "objective")
  /\ isTransitionAllowed(records[id].stage)
  /\ Updated(id, [records[id] EXCEPT !.stage = @ + 1])
  /\ UNCHANGED <<identifiers, bypassed>>

-----------------------------------------------------------------------------
(* Products and what they own.  createId makes an id nobody else has.      *)

Fresh(id) == id \in Uuids /\ ~Has(id)
InLegacy(kind, key) == legacy[kind][key] # None

registerProduct(id, key, list) ==
  LET r == [kind |-> "product", key |-> key, stage |-> 1, link |-> None, list |-> list]
  IN  /\ Fresh(id) /\ ~InLegacy("product", key)
      /\ Registered(id, r)
      /\ legacy' = [Synced(legacy, id, r) EXCEPT !["product"][key] =
                      [id |-> id, list |-> list]]
      /\ UNCHANGED <<identifiers, bypassed>>

(* Faulty variant: the copy read first is written back last.               *)
updateProductWithOldCopy(key, list) ==
  /\ InLegacy("product", key)
  /\ LET old == legacy["product"][key]
         next == [records[old.id] EXCEPT !.key = key, !.list = list]
     IN  /\ HasOfKind(old.id, "product")
         /\ LinkAccepted(next) /\ ~Duplicate(old.id, next, old.id)
         /\ records' = [records EXCEPT ![old.id] = next]
         /\ UNCHANGED <<recordsByKey, legacy>>
  /\ UNCHANGED <<identifiers, bypassed>>

(* updateProduct starts from the copy in the products map; its input may   *)
(* or may not name registered_capabilities.                                *)
updateProduct(key, list) ==
  /\ InLegacy("product", key)
  /\ LET id == legacy["product"][key].id
     IN  /\ HasOfKind(id, "product")
         /\ Updated(id, [records[id] EXCEPT !.key = key, !.list = list])
  /\ UNCHANGED <<identifiers, bypassed>>

OwnerKnown(kind, owner) ==
  IF owner = None THEN kind # "event" ELSE InLegacy("product", owner)

(* registerRepository, registerCapability and registerEventContract; a     *)
(* capability is then added to its product's entry in the products map,    *)
(* and not to the product's record.  (The dependencies of a capability     *)
(* have to be capabilities; nothing else depends on them.)                 *)
RegisterOwned(kind, id, key, owner) ==
  LET r == [kind |-> kind, key |-> key, stage |-> 1,
            link |-> IF kind = "capability" THEN owner ELSE None, list |-> {}]
      synced == Synced(legacy, id, r)
  IN  /\ Fresh(id) /\ ~InLegacy(kind, key) /\ OwnerKnown(kind, owner)
      /\ Registered(id, r)
      /\ legacy' = IF kind = "capability" /\ owner # None
                   THEN [synced EXCEPT !["product"][owner].list = @ \cup {key}]
                   ELSE synced
      /\ UNCHANGED <<identifiers, bypassed>>

-----------------------------------------------------------------------------
(* What callers pass.                                                      *)

LinksOf(kind) ==
  CASE kind \in {"adr", "planning"} -> Numbers
    [] kind = "document" -> Ids \cup {None}
    [] kind = "capability" -> Keys \cup {None}
    [] OTHER -> {None}

StagesOf(kind) == IF kind = "objective" THEN Stages ELSE {1}

(* A record that is no objective may have the id of one, and then stands in *)
(* the way of generate.                                                    *)
IdsOf(kind) == IF kind = "objective" THEN Numbers ELSE Ids

RegisterAny ==
  \E kind \in Kinds, key \in Keys :
    \E id \in IdsOf(kind), stage \in StagesOf(kind), link \in LinksOf(kind) :
      Register(id, [kind |-> kind, key |-> key, stage |-> stage,
                    link |-> link, list |-> {}])

UpdateAny ==
  \E id \in {i \in Ids : Has(i)}, key \in Keys :
    \E stage \in StagesOf(records[id].kind), link \in LinksOf(records[id].kind) :
      Update(id, key, stage, link)

Next ==
  \/ RegisterAny
  \/ UpdateAny
  \/ \E n \in Numbers : Reserve(n) \/ Release(n)
  \/ \E n \in Numbers, key \in Keys, stage \in Stages : CreateObjective(n, key, stage)
  \/ \E id \in Ids, key \in Keys : UpdateObjective(id, key)
  \/ \E id \in Ids : TransitionObjective(id)
  \/ \E id \in Uuids, key \in Keys, list \in SUBSET Names :
       "product" \in Kinds /\ registerProduct(id, key, list)
  \/ \E key \in Keys, list \in SUBSET Names :
       updateProduct(key, list)
  \/ \E key \in Keys : InLegacy("product", key) /\ updateProduct(key, legacy["product"][key].list)
  \/ \E kind \in Kinds \cap {"repository", "capability", "event"},
        id \in Uuids, key \in Keys, owner \in Keys \cup {None} :
       RegisterOwned(kind, id, key, owner)

Spec == Init /\ [][Next]_vars

-----------------------------------------------------------------------------
(* Properties.                                                             *)

TypeOK ==
  /\ records \in [Ids -> Record \cup {None}]
  /\ recordsByKey \in [Keys -> SUBSET Ids]
  /\ legacy \in [LegacyKinds -> [Keys -> Copy \cup {None}]]
  /\ identifiers \in SUBSET Numbers
  /\ bypassed \in SUBSET Ids

(* The key index holds exactly the ids of the records with that key.       *)
IndexAgrees ==
  \A id \in Ids, key \in Keys :
    id \in recordsByKey[key] <=> Has(id) /\ records[id].key = key

(* A legacy map holds, under a key, the record of its kind with that key.  *)
LegacyAgrees ==
  \A kind \in LegacyKinds, key \in Keys, id \in Ids :
    (InLegacy(kind, key) /\ legacy[kind][key].id = id)
      <=> (HasOfKind(id, kind) /\ records[id].key = key)

(* The record map, the key index and the four legacy maps describe the     *)
(* same records, however calls of register, update and the typed           *)
(* operations follow each other and keys move.                             *)
StructuresAgree == IndexAgrees /\ LegacyAgrees

(* No two records of one kind have the same key: with StructuresAgree the  *)
(* inductive part of ImplementsCatalog.                                    *)
KeyNamesOne ==
  \A i, j \in Ids :
    Has(i) /\ Has(j) /\ records[i].kind = records[j].kind
      /\ records[i].key = records[j].key => i = j

(* The products map never lists fewer capabilities than the product's      *)
(* record, which register, updateProduct and update write separately.      *)
ProductListsCover ==
  \A id \in Ids :
    HasOfKind(id, "product") =>
      records[id].list \subseteq legacy["product"][records[id].key].list

(* An ADR's or planning record's objective, and the document another one   *)
(* descends from, exist and are of that kind as long as the record lives:  *)
(* the check at registration never goes stale.                             *)
LinksResolve ==
  \A id \in Ids : Has(id) =>
    /\ records[id].kind \in {"adr", "planning"} =>
         /\ records[id].link \in Numbers /\ validIdentifier(records[id].link)
         /\ HasOfKind(records[id].link, "objective")
    /\ records[id].kind = "document" =>
         \/ records[id].link = None
         \/ records[id].link \in Ids /\ HasOfKind(records[id].link, "document")

(* The objective of a planning record never falls back before 'approved',  *)
(* unless the registry's own update has set its lifecycle.                 *)
GovernorsApproved ==
  \A id \in Ids :
    HasOfKind(id, "planning") /\ records[id].link \notin bypassed =>
      records[records[id].link].stage >= Approved

(* An identifier that names a record names it for ever: no later           *)
(* registration, allocation or release overwrites or reassigns it.         *)
IdentifiersPermanent ==
  [][\A id \in Ids : Has(id) =>
       records'[id] # None /\ records'[id].kind = records[id].kind]_vars

(* Whatever the key index, the legacy maps and the checks that read them   *)
(* do, callers see one catalogue of records: a call writes one record,     *)
(* under a key no other record of its kind has and with references that    *)
(* resolve, and numbers are handed out that nothing is known by.           *)
Catalog == INSTANCE RecordCatalog WITH reserved <- identifiers

ImplementsCatalog == Catalog!Spec

(* The registry's documentation: a registered capability is appended to    *)
(* its product's list, which is derived state.  The list should then not   *)
(* lose it while the capability is there and its product only has other    *)
(* fields updated.                                                         *)
DerivedListKept ==
  [][UpdateAny =>
       \A p, c \in Keys :
         /\ InLegacy("product", p) /\ c \in legacy["product"][p].list
         /\ legacy'["product"][p] # None
         /\ legacy'["product"][p].id = legacy["product"][p].id
         => c \in legacy'["product"][p].list]_vars
=============================================================================
