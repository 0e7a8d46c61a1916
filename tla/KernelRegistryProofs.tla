------------------------ MODULE KernelRegistryProofs ------------------------
(***************************************************************************)
(* What TLAPS proves of KernelRegistry, for every set of kinds, numbers,   *)
(* ids and keys and every bound on the number of records.                  *)
(*                                                                         *)
(* Every step adds one record, replaces one record, or leaves the records  *)
(* and their indexes alone.  The first part shows that; the invariants are *)
(* then proved of the two kinds of change, not of each operation.          *)
(***************************************************************************)
EXTENDS KernelRegistry, TLAPS

USE KindsAssumption, NumbersAssumption, StagesAssumption, NoneAssumption

LegacyMaps == [LegacyKinds -> [Keys -> Copy \cup {None}]]

(* The maps have the same ids as the others, and list no less.             *)
Grow(maps, others) ==
  \A kind \in LegacyKinds, key \in Keys :
    /\ maps[kind][key] = None => others[kind][key] = None
    /\ maps[kind][key] # None =>
         /\ others[kind][key] # None
         /\ others[kind][key].id = maps[kind][key].id
         /\ maps[kind][key].list \subseteq others[kind][key].list

Adds(id, r) ==
  /\ r \in Record
  /\ LinkAccepted(r) /\ ~Duplicate(id, r, None)
  /\ records' = [records EXCEPT ![id] = r]
  /\ recordsByKey' = Stored(recordsByKey, id, r.key)
  /\ legacy' \in LegacyMaps /\ Grow(Synced(legacy, id, r), legacy')
  /\ bypassed' = bypassed

Replaces(id, next) ==
  /\ Has(id) /\ next \in Record /\ next.kind = records[id].kind
  /\ Updated(id, next)
  /\ bypassed \subseteq bypassed' /\ bypassed' \subseteq Ids
  /\ records[id].stage <= next.stage \/ id \in bypassed'

KeepsRecords == UNCHANGED <<records, recordsByKey, legacy, bypassed>>

-----------------------------------------------------------------------------
(* The legacy maps.                                                        *)

LEMMA SyncedType ==
  ASSUME NEW maps \in LegacyMaps, NEW id \in Ids, NEW r \in Record
  PROVE  Synced(maps, id, r) \in LegacyMaps
<1>1. [id |-> id, list |-> r.list] \in Copy
  BY DEF Record, Copy
<1>2. r.key \in Keys
  BY DEF Record
<1>3. QED
  BY <1>1, <1>2 DEF Synced, LegacyMaps

LEMMA RemovedType ==
  ASSUME NEW maps \in LegacyMaps, NEW r \in Record
  PROVE  Removed(maps, r) \in LegacyMaps
<1>1. r.key \in Keys
  BY DEF Record
<1>2. QED
  BY <1>1 DEF Removed, LegacyMaps

LEMMA GrowReflexive ==
  ASSUME NEW maps \in LegacyMaps
  PROVE  Grow(maps, maps)
BY DEF Grow

-----------------------------------------------------------------------------
(* Each operation is one of the three.                                     *)

LEMMA RegisteredAdds ==
  ASSUME TypeOK, NEW id \in Ids, NEW r \in Record,
         Registered(id, r), legacy' = Synced(legacy, id, r),
         bypassed' = bypassed
  PROVE  Adds(id, r)
<1>1. legacy \in LegacyMaps
  BY DEF TypeOK, LegacyMaps
<1>2. Synced(legacy, id, r) \in LegacyMaps
  BY <1>1, SyncedType
<1>3. Grow(Synced(legacy, id, r), legacy')
  BY <1>2, GrowReflexive
<1>4. QED
  BY <1>2, <1>3 DEF Adds, Registered

LEMMA RegisterAnyAdds ==
  ASSUME TypeOK, RegisterAny
  PROVE  \E id \in Ids, r \in Record : Adds(id, r)
<1>1. PICK kind \in Kinds, key \in Keys :
        \E id \in IdsOf(kind), stage \in StagesOf(kind), link \in LinksOf(kind) :
          Register(id, [kind |-> kind, key |-> key, stage |-> stage,
                        link |-> link, list |-> {}])
  BY DEF RegisterAny
<1>2. PICK id \in IdsOf(kind), stage \in StagesOf(kind), link \in LinksOf(kind) :
        Register(id, [kind |-> kind, key |-> key, stage |-> stage,
                      link |-> link, list |-> {}])
  BY <1>1
<1>3. id \in Ids
  BY DEF IdsOf, Ids
<1>4. stage \in Stages
  BY DEF StagesOf, Stages
<1>5. link \in Ids \cup Keys \cup {None}
  BY DEF LinksOf, Ids, Keys
<1> DEFINE r == [kind |-> kind, key |-> key, stage |-> stage,
                 link |-> link, list |-> {}]
<1>6. r \in Record
  BY <1>4, <1>5 DEF Record
<1>7. Registered(id, r) /\ legacy' = Synced(legacy, id, r) /\ bypassed' = bypassed
  BY <1>2 DEF Register
<1>8. Adds(id, r)
  BY <1>3, <1>6, <1>7, RegisteredAdds
<1>9. QED
  BY <1>3, <1>6, <1>8

LEMMA CreateObjectiveAdds ==
  ASSUME TypeOK, NEW n \in Numbers, NEW key \in Keys, NEW stage \in Stages,
         CreateObjective(n, key, stage)
  PROVE  KeepsRecords \/ \E id \in Ids, r \in Record : Adds(id, r)
<1> DEFINE r == [kind |-> "objective", key |-> key, stage |-> stage,
                 link |-> None, list |-> {}]
<1>1. n \in Ids /\ r \in Record
  BY DEF Ids, Record
<1>2. CASE Registered(n, r) /\ legacy' = Synced(legacy, n, r)
  <2>1. bypassed' = bypassed
    BY DEF CreateObjective
  <2>2. Adds(n, r)
    BY <1>1, <1>2, <2>1, RegisteredAdds
  <2>3. QED
    BY <1>1, <2>2
<1>3. CASE UNCHANGED <<records, recordsByKey, legacy>>
  BY <1>3 DEF CreateObjective, KeepsRecords
<1>4. QED
  BY <1>2, <1>3 DEF CreateObjective

LEMMA registerProductAdds ==
  ASSUME TypeOK, NEW id \in Uuids, NEW key \in Keys, NEW list \in SUBSET Names,
         "product" \in Kinds, registerProduct(id, key, list)
  PROVE  \E i \in Ids, r \in Record : Adds(i, r)
<1> DEFINE r == [kind |-> "product", key |-> key, stage |-> 1,
                 link |-> None, list |-> list]
<1>1. id \in Ids /\ r \in Record
  BY DEF Ids, Keys, Record, Stages
<1>2. Synced(legacy, id, r) = [legacy EXCEPT !["product"][key] =
                                 [id |-> id, list |-> list]]
  BY DEF Synced, LegacyKinds
<1>3. legacy' = Synced(legacy, id, r)
  BY <1>2 DEF registerProduct, TypeOK, LegacyKinds
<1>4. Adds(id, r)
  BY <1>1, <1>3, RegisteredAdds DEF registerProduct
<1>5. QED
  BY <1>1, <1>4

LEMMA RegisterOwnedAdds ==
  ASSUME TypeOK, NEW kind \in Kinds \cap {"repository", "capability", "event"},
         NEW id \in Uuids, NEW key \in Keys, NEW owner \in Keys \cup {None},
         RegisterOwned(kind, id, key, owner)
  PROVE  \E i \in Ids, r \in Record : Adds(i, r)
<1> DEFINE r == [kind |-> kind, key |-> key, stage |-> 1,
                 link |-> IF kind = "capability" THEN owner ELSE None,
                 list |-> {}]
           synced == Synced(legacy, id, r)
<1>1. id \in Ids /\ r \in Record
  BY DEF Ids, Record, Stages
<1>2. legacy \in LegacyMaps /\ synced \in LegacyMaps
  BY <1>1, SyncedType DEF TypeOK, LegacyMaps
<1>3. Registered(id, r) /\ bypassed' = bypassed
  BY DEF RegisterOwned
<1>4. CASE kind = "capability" /\ owner # None
  <2>1. legacy' = [synced EXCEPT !["product"][owner].list = @ \cup {key}]
    BY <1>4 DEF RegisterOwned
  <2>2. synced["product"] = legacy["product"]
    BY <1>2, <1>4 DEF Synced, LegacyMaps, LegacyKinds
  <2>3. legacy["product"][owner] # None
    BY <1>4 DEF RegisterOwned, OwnerKnown, InLegacy
  <2>4. synced["product"][owner] \in Copy /\ owner \in Keys
    BY <1>2, <1>4, <2>2, <2>3 DEF LegacyMaps, LegacyKinds
  <2> DEFINE entry == [synced["product"][owner] EXCEPT !.list = @ \cup {key}]
  <2>5. /\ entry \in Copy /\ entry # None
        /\ entry.id = synced["product"][owner].id
        /\ synced["product"][owner].list \subseteq entry.list
    <3>1. PICK old \in Copy : old = synced["product"][owner]
      BY <2>4
    <3>2. /\ [old EXCEPT !.list = @ \cup {key}] \in Copy
          /\ [old EXCEPT !.list = @ \cup {key}].id = old.id
          /\ old.list \subseteq [old EXCEPT !.list = @ \cup {key}].list
      BY DEF Copy
    <3>3. entry = [old EXCEPT !.list = @ \cup {key}]
      BY <3>1
    <3> HIDE DEF entry, synced
    <3>4. QED
      BY <3>1, <3>2, <3>3
  <2>6. legacy' = [synced EXCEPT !["product"] = [@ EXCEPT ![owner] = entry]]
    BY <2>1
  <2> HIDE DEF entry, synced
  <2>7. legacy' \in LegacyMaps
    BY <1>2, <2>4, <2>5, <2>6 DEF LegacyMaps, LegacyKinds
  <2>8. Grow(synced, legacy')
    BY <1>2, <2>2, <2>3, <2>4, <2>5, <2>6 DEF Grow, LegacyMaps, LegacyKinds
  <2>9. Adds(id, r)
    BY <1>1, <1>3, <2>7, <2>8 DEF Adds, Registered, synced
  <2>10. QED
    BY <1>1, <2>9
<1>5. CASE ~(kind = "capability" /\ owner # None)
  <2>1. legacy' = synced
    BY <1>5 DEF RegisterOwned
  <2>2. Adds(id, r)
    BY <1>1, <1>3, <2>1, RegisteredAdds
  <2>3. QED
    BY <1>1, <2>2
<1>6. QED
  BY <1>4, <1>5

LEMMA UpdateAnyReplaces ==
  ASSUME TypeOK, UpdateAny
  PROVE  \E id \in Ids, next \in Record : Replaces(id, next)
<1>1. PICK id \in {i \in Ids : Has(i)}, key \in Keys :
        \E stage \in StagesOf(records[id].kind), link \in LinksOf(records[id].kind) :
          Update(id, key, stage, link)
  BY DEF UpdateAny
<1>2. PICK stage \in StagesOf(records[id].kind), link \in LinksOf(records[id].kind) :
        Update(id, key, stage, link)
  BY <1>1
<1>3. stage \in Stages
  BY DEF StagesOf, Stages
<1>4. link \in Ids \cup Keys \cup {None}
  BY DEF LinksOf, Ids, Keys
<1>5. PICK old \in Record : old = records[id]
  BY DEF TypeOK, Has
<1> DEFINE next == [old EXCEPT !.key = key, !.stage = stage, !.link = link]
<1>6. next \in Record /\ next.kind = old.kind /\ next.stage = stage
  BY <1>3, <1>4 DEF Record
<1>7. Updated(id, next)
  BY <1>2, <1>5 DEF Update
<1>8. /\ bypassed \subseteq bypassed' /\ bypassed' \subseteq Ids
      /\ old.stage = stage \/ id \in bypassed'
  BY <1>2, <1>5 DEF Update, TypeOK
<1>9. old.stage \in Nat
  BY DEF Record, Stages
<1>10. old.stage <= next.stage \/ id \in bypassed'
  BY <1>6, <1>8, <1>9
<1> HIDE DEF next
<1>11. Replaces(id, next)
  BY <1>5, <1>6, <1>7, <1>8, <1>10 DEF Replaces
<1>12. QED
  BY <1>6, <1>11

LEMMA UpdateObjectiveReplaces ==
  ASSUME TypeOK, NEW id \in Ids, NEW key \in Keys, UpdateObjective(id, key)
  PROVE  \E i \in Ids, next \in Record : Replaces(i, next)
<1>1. Has(id)
  BY DEF UpdateObjective, HasOfKind
<1>2. PICK old \in Record : old = records[id]
  BY <1>1 DEF TypeOK, Has
<1> DEFINE next == [old EXCEPT !.key = key]
<1>3. next \in Record /\ next.kind = old.kind /\ next.stage = old.stage
  BY DEF Record
<1>4. Updated(id, next) /\ bypassed' = bypassed
  BY <1>2 DEF UpdateObjective
<1>5. old.stage \in Nat
  BY DEF Record, Stages
<1>6. old.stage <= next.stage /\ bypassed' \subseteq Ids
  BY <1>3, <1>4, <1>5 DEF TypeOK
<1> HIDE DEF next
<1>7. Replaces(id, next)
  BY <1>1, <1>2, <1>3, <1>4, <1>6 DEF Replaces
<1>8. QED
  BY <1>3, <1>7

LEMMA TransitionObjectiveReplaces ==
  ASSUME TypeOK, NEW id \in Ids, TransitionObjective(id)
  PROVE  \E i \in Ids, next \in Record : Replaces(i, next)
<1>1. Has(id)
  BY DEF TransitionObjective, HasOfKind
<1>2. PICK old \in Record : old = records[id]
  BY <1>1 DEF TypeOK, Has
<1>3. old.stage \in Stages /\ old.stage # Archived
  BY <1>2 DEF TransitionObjective, isTransitionAllowed, Record
<1>4. old.stage + 1 \in Stages /\ old.stage <= old.stage + 1
  BY <1>3 DEF Stages
<1> DEFINE next == [old EXCEPT !.stage = old.stage + 1]
<1>5. next \in Record /\ next.kind = old.kind /\ old.stage <= next.stage
  BY <1>4 DEF Record
<1>6. Updated(id, next) /\ bypassed' = bypassed /\ bypassed' \subseteq Ids
  BY <1>2 DEF TransitionObjective, TypeOK
<1> HIDE DEF next
<1>7. Replaces(id, next)
  BY <1>1, <1>2, <1>5, <1>6 DEF Replaces
<1>8. QED
  BY <1>5, <1>7

LEMMA updateProductReplaces ==
  ASSUME TypeOK, NEW key \in Keys, NEW list \in SUBSET Keys,
         updateProduct(key, list)
  PROVE  \E i \in Ids, next \in Record : Replaces(i, next)
<1>1. legacy["product"][key] \in Copy
  BY DEF updateProduct, InLegacy, TypeOK, LegacyKinds
<1>2. PICK id \in Ids : id = legacy["product"][key].id
  BY <1>1 DEF Copy
<1>3. Has(id) /\ Updated(id, [records[id] EXCEPT !.key = key, !.list = list])
  BY <1>2 DEF updateProduct, HasOfKind
<1>4. PICK old \in Record : old = records[id]
  BY <1>3 DEF TypeOK, Has
<1> DEFINE next == [old EXCEPT !.key = key, !.list = list]
<1>5. next \in Record /\ next.kind = old.kind /\ next.stage = old.stage
  BY DEF Record
<1>6. old.stage \in Nat
  BY DEF Record, Stages
<1>7. old.stage <= next.stage
  BY <1>5, <1>6
<1>8. Updated(id, next)
  BY <1>3, <1>4
<1>9. bypassed' = bypassed /\ bypassed' \subseteq Ids
  BY DEF updateProduct, TypeOK
<1> HIDE DEF next
<1>10. Replaces(id, next)
  BY <1>3, <1>4, <1>5, <1>7, <1>8, <1>9 DEF Replaces
<1>11. QED
  BY <1>5, <1>10

LEMMA StepShape ==
  ASSUME TypeOK, [Next]_vars
  PROVE  \/ \E id \in Ids, r \in Record : Adds(id, r)
         \/ \E id \in Ids, next \in Record : Replaces(id, next)
         \/ KeepsRecords
<1>1. CASE RegisterAny
  BY <1>1, RegisterAnyAdds
<1>2. CASE UpdateAny
  BY <1>2, UpdateAnyReplaces
<1>3. CASE \E n \in Numbers : Reserve(n) \/ Release(n)
  BY <1>3 DEF Reserve, Release, KeepsRecords
<1>4. CASE \E n \in Numbers, key \in Keys, stage \in Stages :
             CreateObjective(n, key, stage)
  BY <1>4, CreateObjectiveAdds
<1>5. CASE \E id \in Ids, key \in Keys : UpdateObjective(id, key)
  BY <1>5, UpdateObjectiveReplaces
<1>6. CASE \E id \in Ids : TransitionObjective(id)
  BY <1>6, TransitionObjectiveReplaces
<1>7. CASE \E id \in Uuids, key \in Keys, list \in SUBSET Names :
             "product" \in Kinds /\ registerProduct(id, key, list)
  BY <1>7, registerProductAdds
<1>8. CASE \E key \in Keys, list \in SUBSET Names : updateProduct(key, list)
  <2>1. SUBSET Names \subseteq SUBSET Keys
    BY DEF Keys
  <2>2. QED
    BY <1>8, <2>1, updateProductReplaces
<1>9. CASE \E key \in Keys : /\ InLegacy("product", key)
                             /\ updateProduct(key, legacy["product"][key].list)
  <2>1. PICK key \in Keys : /\ InLegacy("product", key)
                            /\ updateProduct(key, legacy["product"][key].list)
    BY <1>9
  <2>2. PICK list \in SUBSET Keys : list = legacy["product"][key].list
    BY <2>1 DEF InLegacy, TypeOK, LegacyKinds, Copy
  <2>3. QED
    BY <2>1, <2>2, updateProductReplaces
<1>10. CASE \E kind \in Kinds \cap {"repository", "capability", "event"},
               id \in Uuids, key \in Keys, owner \in Keys \cup {None} :
              RegisterOwned(kind, id, key, owner)
  BY <1>10, RegisterOwnedAdds
<1>11. CASE UNCHANGED vars
  BY <1>11 DEF vars, KeepsRecords
<1>12. QED
  BY <1>1, <1>2, <1>3, <1>4, <1>5, <1>6, <1>7, <1>8, <1>9, <1>10, <1>11 DEF Next

-----------------------------------------------------------------------------
(* The type invariant.                                                     *)

LEMMA TypeInit == Init => TypeOK
<1> SUFFICES ASSUME Init PROVE TypeOK
  OBVIOUS
<1>1. Seeds \subseteq Ids /\ Seeds \subseteq Keys
  BY DEF Ids, Keys
<1>2. \A n \in Seeds : [kind |-> "objective", key |-> n, stage |-> Approved,
                        link |-> None, list |-> {}] \in Record
  BY <1>1 DEF Record, Stages
<1>3. records \in [Ids -> Record \cup {None}]
  BY <1>1, <1>2 DEF Init
<1>4. recordsByKey \in [Keys -> SUBSET Ids]
  BY <1>1 DEF Init
<1>5. QED
  BY <1>3, <1>4 DEF Init, TypeOK

LEMMA AddsType ==
  ASSUME TypeOK, NEW id \in Ids, NEW r \in Record, Adds(id, r),
         identifiers' \in SUBSET Numbers
  PROVE  TypeOK'
<1>1. r.key \in Keys
  BY DEF Record
<1>2. QED
  BY <1>1 DEF TypeOK, Adds, Stored, LegacyMaps

LEMMA ReplacesType ==
  ASSUME TypeOK, NEW id \in Ids, NEW next \in Record, Replaces(id, next),
         identifiers' \in SUBSET Numbers
  PROVE  TypeOK'
<1>1. records[id] \in Record /\ next.key \in Keys /\ records[id].key \in Keys
  BY DEF Replaces, Has, TypeOK, Record
<1>2. legacy' \in LegacyMaps
  <2>1. legacy \in LegacyMaps
    BY DEF TypeOK, LegacyMaps
  <2>2. Removed(legacy, records[id]) \in LegacyMaps
    BY <1>1, <2>1, RemovedType
  <2>3. QED
    BY <2>2, SyncedType DEF Replaces, Updated
<1>3. recordsByKey' \in [Keys -> SUBSET Ids]
  BY <1>1 DEF TypeOK, Replaces, Updated, Stored, Detached
<1>4. records' \in [Ids -> Record \cup {None}]
  BY DEF TypeOK, Replaces, Updated
<1>5. QED
  BY <1>2, <1>3, <1>4 DEF TypeOK, LegacyMaps, Replaces

(* Only reserving, releasing and creating touch the reservations.          *)
LEMMA OtherStepsKeepIdentifiers ==
  ASSUME [Next]_vars
  PROVE  \/ \E n \in Numbers : Reserve(n) \/ Release(n)
         \/ \E n \in Numbers, key \in Keys, stage \in Stages :
              CreateObjective(n, key, stage)
         \/ UNCHANGED identifiers
<1>1. RegisterAny => UNCHANGED identifiers
  BY DEF RegisterAny, Register
<1>2. UpdateAny => UNCHANGED identifiers
  BY DEF UpdateAny, Update
<1>3. \A id \in Ids, key \in Keys :
        UpdateObjective(id, key) \/ TransitionObjective(id) => UNCHANGED identifiers
  BY DEF UpdateObjective, TransitionObjective
<1>4. \A id, key, list :
        registerProduct(id, key, list) \/ updateProduct(key, list)
          => UNCHANGED identifiers
  BY DEF registerProduct, updateProduct
<1>5. \A kind, id, key, owner :
        RegisterOwned(kind, id, key, owner) => UNCHANGED identifiers
  BY DEF RegisterOwned
<1>6. (\E id \in Ids, key \in Keys : UpdateObjective(id, key))
         => UNCHANGED identifiers
  BY <1>3
<1>7. (\E id \in Ids : TransitionObjective(id)) => UNCHANGED identifiers
  BY DEF TransitionObjective
<1>8. UNCHANGED vars => UNCHANGED identifiers
  BY DEF vars
<1>9. QED
  BY <1>1, <1>2, <1>4, <1>5, <1>6, <1>7, <1>8 DEF Next

LEMMA IdentifiersType ==
  ASSUME TypeOK, [Next]_vars
  PROVE  identifiers' \in SUBSET Numbers
<1>1. identifiers \in SUBSET Numbers
  BY DEF TypeOK
<1>2. CASE \E n \in Numbers : Reserve(n) \/ Release(n)
  BY <1>1, <1>2 DEF Reserve, Release
<1>3. CASE \E n \in Numbers, key \in Keys, stage \in Stages :
             CreateObjective(n, key, stage)
  BY <1>1, <1>3 DEF CreateObjective
<1>4. CASE UNCHANGED identifiers
  BY <1>1, <1>4
<1>5. QED
  BY <1>2, <1>3, <1>4, OtherStepsKeepIdentifiers

LEMMA TypeStep == TypeOK /\ [Next]_vars => TypeOK'
<1> SUFFICES ASSUME TypeOK, [Next]_vars PROVE TypeOK'
  OBVIOUS
<1>1. identifiers' \in SUBSET Numbers
  BY IdentifiersType
<1>2. CASE KeepsRecords
  BY <1>1, <1>2 DEF KeepsRecords, TypeOK
<1>3. QED
  BY <1>1, <1>2, StepShape, AddsType, ReplacesType

(* Every variable has its type, in every reachable state.                  *)
THEOREM TypeCorrect == Spec => []TypeOK
BY TypeInit, TypeStep, PTL DEF Spec

-----------------------------------------------------------------------------
(* The structures agree, and a key names one record of a kind.             *)

Agreement == StructuresAgree /\ KeyNamesOne

LEMMA AddedIsNew ==
  ASSUME TypeOK, Agreement, NEW id \in Ids, NEW r \in Record, Adds(id, r)
  PROVE  /\ ~Has(id)
         /\ \A i \in Ids : HasOfKind(i, r.kind) => records[i].key # r.key
<1>1. ~Has(id)
  BY DEF Adds, Duplicate
<1>2. r.key \in Keys
  BY DEF Record
<1>3. ASSUME NEW i \in Ids, HasOfKind(i, r.kind), records[i].key = r.key
      PROVE  FALSE
  <2>1. i \in recordsByKey[r.key]
    BY <1>2, <1>3 DEF Agreement, StructuresAgree, IndexAgrees, HasOfKind
  <2>2. i # None
    OBVIOUS
  <2>3. QED
    BY <1>3, <2>1, <2>2 DEF Adds, Duplicate
<1>4. QED
  BY <1>1, <1>3

LEMMA ReplacedIsAlone ==
  ASSUME TypeOK, Agreement, NEW id \in Ids, NEW next \in Record,
         Replaces(id, next), NEW i \in Ids \ {id}, HasOfKind(i, next.kind)
  PROVE  records[i].key # next.key
<1>1. next.key \in Keys
  BY DEF Record
<1>2. SUFFICES ASSUME records[i].key = next.key PROVE FALSE
  OBVIOUS
<1>3. i \in recordsByKey[next.key] \ {id}
  BY <1>1, <1>2 DEF Agreement, StructuresAgree, IndexAgrees, HasOfKind
<1>4. QED
  BY <1>3 DEF Replaces, Updated, Duplicate

LEMMA AddsIndex ==
  ASSUME TypeOK, Agreement, NEW id \in Ids, NEW r \in Record, Adds(id, r)
  PROVE  IndexAgrees'
<1>1. ~Has(id) /\ r # None /\ r.key \in Keys
  BY AddedIsNew DEF Record
<1>2. QED
  BY <1>1 DEF Agreement, StructuresAgree, IndexAgrees, Adds, Stored, Has, TypeOK

LEMMA ReplacesIndex ==
  ASSUME TypeOK, Agreement, NEW id \in Ids, NEW next \in Record,
         Replaces(id, next)
  PROVE  IndexAgrees'
<1>1. next # None /\ next.key \in Keys /\ records[id].key \in Keys
  BY DEF Record, Replaces, Has, TypeOK
<1>2. QED
  BY <1>1 DEF Agreement, StructuresAgree, IndexAgrees, Replaces, Updated,
              Stored, Detached, Has, TypeOK

(* What the legacy maps hold after an entry is synced, or moved.           *)
LEMMA SyncedEntries ==
  ASSUME NEW maps \in LegacyMaps, NEW id \in Ids, NEW r \in Record,
         NEW kind \in LegacyKinds, NEW key \in Keys
  PROVE  Synced(maps, id, r)[kind][key] =
           IF kind = r.kind /\ key = r.key
           THEN [id |-> id, list |-> r.list] ELSE maps[kind][key]
<1>1. r.key \in Keys
  BY DEF Record
<1>2. QED
  BY <1>1 DEF Synced, LegacyMaps

LEMMA RemovedEntries ==
  ASSUME NEW maps \in LegacyMaps, NEW r \in Record,
         NEW kind \in LegacyKinds, NEW key \in Keys
  PROVE  Removed(maps, r)[kind][key] =
           IF kind = r.kind /\ key = r.key THEN None ELSE maps[kind][key]
<1>1. r.key \in Keys
  BY DEF Record
<1>2. QED
  BY <1>1 DEF Removed, LegacyMaps

LEMMA EntryIsCopy ==
  ASSUME NEW id \in Ids, NEW r \in Record
  PROVE  /\ [id |-> id, list |-> r.list] \in Copy
         /\ [id |-> id, list |-> r.list] # None
<1>1. [id |-> id, list |-> r.list] \in Copy
  BY DEF Record, Copy
<1>2. QED
  BY <1>1

LEMMA AddsLegacy ==
  ASSUME TypeOK, Agreement, NEW id \in Ids, NEW r \in Record, Adds(id, r)
  PROVE  LegacyAgrees'
<1> SUFFICES ASSUME NEW kind \in LegacyKinds, NEW key \in Keys, NEW i \in Ids
             PROVE  (legacy'[kind][key] # None /\ legacy'[kind][key].id = i)
                      <=> ( /\ records'[i] # None /\ records'[i].kind = kind
                            /\ records'[i].key = key)
  BY DEF LegacyAgrees, InLegacy, HasOfKind, Has
<1> DEFINE S == Synced(legacy, id, r)[kind][key]
<1>1. /\ legacy \in LegacyMaps /\ ~Has(id)
      /\ r # None
      /\ \A j \in Ids : HasOfKind(j, r.kind) => records[j].key # r.key
  BY AddedIsNew DEF TypeOK, LegacyMaps
<1>2. S = IF kind = r.kind /\ key = r.key
          THEN [id |-> id, list |-> r.list] ELSE legacy[kind][key]
  BY <1>1, SyncedEntries
<1>3. (legacy'[kind][key] # None /\ legacy'[kind][key].id = i)
        <=> (S # None /\ S.id = i)
  BY DEF Adds, Grow
<1>4. records' = [records EXCEPT ![id] = r] /\ records \in [Ids -> Record \cup {None}]
  BY DEF Adds, TypeOK
<1>5. (legacy[kind][key] # None /\ legacy[kind][key].id = i)
        <=> (Has(i) /\ records[i].kind = kind /\ records[i].key = key)
  BY DEF Agreement, StructuresAgree, LegacyAgrees, InLegacy, HasOfKind
<1> HIDE DEF S
<1>6. CASE kind = r.kind /\ key = r.key
  <2>1. S # None /\ S.id = id
    BY <1>2, <1>6, EntryIsCopy
  <2>2. QED
    BY <1>1, <1>3, <1>4, <1>6, <2>1 DEF HasOfKind, Has
<1>7. CASE ~(kind = r.kind /\ key = r.key)
  BY <1>1, <1>2, <1>3, <1>4, <1>5, <1>7 DEF Has
<1>8. QED
  BY <1>6, <1>7

LEMMA ReplacesLegacy ==
  ASSUME TypeOK, Agreement, NEW id \in Ids, NEW next \in Record,
         Replaces(id, next)
  PROVE  LegacyAgrees'
<1> SUFFICES ASSUME NEW kind \in LegacyKinds, NEW key \in Keys, NEW i \in Ids
             PROVE  (legacy'[kind][key] # None /\ legacy'[kind][key].id = i)
                      <=> ( /\ records'[i] # None /\ records'[i].kind = kind
                            /\ records'[i].key = key)
  BY DEF LegacyAgrees, InLegacy, HasOfKind, Has
<1>1. PICK current \in Record : current = records[id]
  BY DEF Replaces, Has, TypeOK
<1>2. /\ legacy \in LegacyMaps /\ Has(id) /\ next.kind = current.kind
      /\ next # None
  BY <1>1 DEF TypeOK, LegacyMaps, Replaces
<1>3. Removed(legacy, current) \in LegacyMaps
  BY <1>2, RemovedType
<1>4. legacy' = Synced(Removed(legacy, current), id, next)
  BY <1>1 DEF Replaces, Updated
<1>5. legacy'[kind][key] =
        IF kind = next.kind /\ key = next.key THEN [id |-> id, list |-> next.list]
        ELSE IF kind = current.kind /\ key = current.key THEN None
        ELSE legacy[kind][key]
  BY <1>2, <1>3, <1>4, SyncedEntries, RemovedEntries
<1>6. records' = [records EXCEPT ![id] = next] /\ records \in [Ids -> Record \cup {None}]
  BY DEF Replaces, Updated, TypeOK
<1>7. \A j \in Ids : (legacy[kind][key] # None /\ legacy[kind][key].id = j)
        <=> (Has(j) /\ records[j].kind = kind /\ records[j].key = key)
  BY DEF Agreement, StructuresAgree, LegacyAgrees, InLegacy, HasOfKind
<1>8. CASE kind = next.kind /\ key = next.key
  <2>1. legacy'[kind][key] # None /\ legacy'[kind][key].id = id
    BY <1>5, <1>8, EntryIsCopy
  <2>2. i # id /\ HasOfKind(i, next.kind) => records[i].key # next.key
    BY ReplacedIsAlone
  <2>3. QED
    BY <1>2, <1>6, <1>8, <2>1, <2>2 DEF HasOfKind, Has
<1>9. CASE kind = current.kind /\ key = current.key /\ key # next.key
  <2>1. legacy'[kind][key] = None
    BY <1>2, <1>5, <1>9
  <2>2. legacy[kind][key] # None /\ legacy[kind][key].id = id
    BY <1>1, <1>2, <1>7, <1>9
  <2>3. i # id => ~(Has(i) /\ records[i].kind = kind /\ records[i].key = key)
    BY <1>7, <2>2
  <2>4. QED
    BY <1>2, <1>6, <1>9, <2>1, <2>3 DEF Has
<1>10. CASE ~(kind = next.kind /\ key = next.key) /\ ~(kind = current.kind /\ key = current.key)
  BY <1>1, <1>2, <1>5, <1>6, <1>7, <1>10 DEF Has
<1>11. QED
  BY <1>2, <1>8, <1>9, <1>10

LEMMA AddsKeyNamesOne ==
  ASSUME TypeOK, Agreement, NEW id \in Ids, NEW r \in Record, Adds(id, r)
  PROVE  KeyNamesOne'
<1>1. /\ ~Has(id) /\ records' = [records EXCEPT ![id] = r]
      /\ \A j \in Ids : HasOfKind(j, r.kind) => records[j].key # r.key
  BY AddedIsNew DEF Adds
<1>2. QED
  BY <1>1 DEF Agreement, KeyNamesOne, Has, HasOfKind, TypeOK

LEMMA ReplacesKeyNamesOne ==
  ASSUME TypeOK, Agreement, NEW id \in Ids, NEW next \in Record,
         Replaces(id, next)
  PROVE  KeyNamesOne'
<1>1. records' = [records EXCEPT ![id] = next]
  BY DEF Replaces, Updated
<1>2. \A j \in Ids \ {id} : HasOfKind(j, next.kind) => records[j].key # next.key
  BY ReplacedIsAlone
<1> SUFFICES ASSUME NEW i \in Ids, NEW j \in Ids,
                    records'[i] # None, records'[j] # None,
                    records'[i].kind = records'[j].kind,
                    records'[i].key = records'[j].key
             PROVE  i = j
  BY DEF KeyNamesOne, Has
<1>3. \A k \in Ids : records'[k] = IF k = id THEN next ELSE records[k]
  BY <1>1 DEF TypeOK
<1>4. CASE i # id /\ j # id
  BY <1>3, <1>4 DEF Agreement, KeyNamesOne, Has
<1>5. CASE i = id \/ j = id
  BY <1>2, <1>3, <1>5 DEF HasOfKind, Has
<1>6. QED
  BY <1>4, <1>5

LEMMA AgreementInit == Init => Agreement
<1> SUFFICES ASSUME Init PROVE Agreement
  OBVIOUS
<1>1. IndexAgrees
  <2>1. Seeds \subseteq Ids /\ Seeds \subseteq Keys
    BY DEF Ids, Keys
  <2>2. \A id \in Ids : records[id] = IF id \in Seeds
          THEN [kind |-> "objective", key |-> id, stage |-> Approved,
                link |-> None, list |-> {}] ELSE None
    BY DEF Init
  <2>3. \A id \in Seeds : [kind |-> "objective", key |-> id, stage |-> Approved,
                           link |-> None, list |-> {}] \in Record
    BY <2>1 DEF Record, Stages
  <2>4. \A id \in Ids : Has(id) <=> id \in Seeds
    BY <2>2, <2>3 DEF Has
  <2>5. ASSUME NEW id \in Seeds PROVE records[id].key = id
    <3>1. records[id] = [kind |-> "objective", key |-> id, stage |-> Approved,
                         link |-> None, list |-> {}]
      BY <2>1, <2>2
    <3>2. QED
      BY <3>1
  <2>6. \A key \in Keys : recordsByKey[key] = IF key \in Seeds THEN {key} ELSE {}
    BY DEF Init
  <2>7. SUFFICES ASSUME NEW id \in Ids, NEW key \in Keys
                 PROVE  id \in recordsByKey[key] <=> Has(id) /\ records[id].key = key
    BY DEF IndexAgrees
  <2>8. id \in recordsByKey[key] <=> key \in Seeds /\ id = key
    BY <2>6
  <2>9. QED
    BY <2>4, <2>5, <2>8
<1>2. LegacyAgrees
  BY DEF Init, LegacyAgrees, InLegacy, HasOfKind, Has, LegacyKinds, Ids, Keys
<1>3. KeyNamesOne
  BY DEF Init, KeyNamesOne, Has, Ids
<1>4. QED
  BY <1>1, <1>2, <1>3 DEF Agreement, StructuresAgree

LEMMA AgreementStep ==
  ASSUME TypeOK, Agreement, [Next]_vars
  PROVE  Agreement'
<1>1. CASE \E id \in Ids, r \in Record : Adds(id, r)
  BY <1>1, AddsIndex, AddsLegacy, AddsKeyNamesOne DEF Agreement, StructuresAgree
<1>2. CASE \E id \in Ids, next \in Record : Replaces(id, next)
  BY <1>2, ReplacesIndex, ReplacesLegacy, ReplacesKeyNamesOne
     DEF Agreement, StructuresAgree
<1>3. CASE KeepsRecords
  BY <1>3 DEF KeepsRecords, Agreement, StructuresAgree, IndexAgrees,
              LegacyAgrees, KeyNamesOne, InLegacy, HasOfKind, Has
<1>4. QED
  BY <1>1, <1>2, <1>3, StepShape

(* The record map, the key index and the legacy maps describe the same     *)
(* records, whatever the calls.                                            *)
THEOREM StructuresAgreeCorrect == Spec => []StructuresAgree
<1>1. TypeOK /\ Agreement /\ [Next]_vars => (TypeOK /\ Agreement)'
  BY TypeStep, AgreementStep
<1>2. QED
  BY <1>1, TypeInit, AgreementInit, PTL DEF Spec, Agreement

(* No two records of one kind have the same key.                           *)
THEOREM KeyNamesOneCorrect == Spec => []KeyNamesOne
<1>1. TypeOK /\ Agreement /\ [Next]_vars => (TypeOK /\ Agreement)'
  BY TypeStep, AgreementStep
<1>2. QED
  BY <1>1, TypeInit, AgreementInit, PTL DEF Spec, Agreement

-----------------------------------------------------------------------------
(* Links.  A step leaves every record of the state before it in place, with *)
(* its kind, and lowers no lifecycle stage it does not put on record.       *)

LEMMA RecordsStay ==
  ASSUME TypeOK, Agreement, [Next]_vars, NEW id \in Ids, Has(id)
  PROVE  /\ records'[id] # None /\ records'[id].kind = records[id].kind
         /\ records[id].stage <= records'[id].stage \/ id \in bypassed'
         /\ bypassed \subseteq bypassed'
<1>1. records[id].stage \in Nat
  BY DEF Has, TypeOK, Record, Stages
<1>2. CASE \E i \in Ids, r \in Record : Adds(i, r)
  <2>1. PICK i \in Ids, r \in Record : Adds(i, r)
    BY <1>2
  <2>2. i # id /\ records' = [records EXCEPT ![i] = r] /\ bypassed' = bypassed
    BY <2>1, AddedIsNew DEF Adds
  <2>3. QED
    BY <1>1, <2>2 DEF TypeOK, Has
<1>3. CASE \E i \in Ids, next \in Record : Replaces(i, next)
  <2>1. PICK i \in Ids, next \in Record : Replaces(i, next)
    BY <1>3
  <2>2. records' = [records EXCEPT ![i] = next]
    BY <2>1 DEF Replaces, Updated
  <2>3. CASE i = id
    BY <2>1, <2>2, <2>3 DEF Replaces, TypeOK
  <2>4. CASE i # id
    BY <1>1, <2>1, <2>2, <2>4 DEF Replaces, TypeOK, Has
  <2>5. QED
    BY <2>3, <2>4
<1>4. CASE KeepsRecords
  BY <1>1, <1>4 DEF KeepsRecords, Has
<1>5. QED
  BY <1>2, <1>3, <1>4, StepShape

(* An identifier that names a record names it for ever.                    *)
THEOREM IdentifiersPermanentCorrect == Spec => IdentifiersPermanent
<1>1. TypeOK /\ Agreement /\ [Next]_vars => (TypeOK /\ Agreement)'
  BY TypeStep, AgreementStep
<1>2. TypeOK /\ Agreement /\ [Next]_vars =>
        [\A id \in Ids : Has(id) =>
           records'[id] # None /\ records'[id].kind = records[id].kind]_vars
  BY RecordsStay
<1>3. QED
  BY <1>1, <1>2, TypeInit, AgreementInit, PTL DEF Spec, IdentifiersPermanent

(* What a single record's link promises, in a given state of the records.  *)
LinkHolds(r) ==
  /\ r.kind \in {"adr", "planning"} => Governable(r)
  /\ r.kind = "document" =>
       r.link = None \/ (r.link \in Ids /\ HasOfKind(r.link, "document"))

LEMMA LinkStaysHeld ==
  ASSUME TypeOK, Agreement, [Next]_vars, NEW r, LinkHolds(r)
  PROVE  LinkHolds(r)'
<1>1. \A kind : \A id \in Ids : HasOfKind(id, kind) => HasOfKind(id, kind)'
  BY RecordsStay DEF HasOfKind, Has
<1>2. Numbers \subseteq Ids
  BY DEF Ids
<1>3. QED
  BY <1>1, <1>2 DEF LinkHolds, Governable, validIdentifier

(* Where a record of the state after a step comes from: it was there, or   *)
(* its link has just been checked.                                         *)
LEMMA RecordOrigin ==
  ASSUME TypeOK, [Next]_vars, NEW id \in Ids, records'[id] # None
  PROVE  (Has(id) /\ records'[id] = records[id]) \/ LinkAccepted(records'[id])
<1>1. CASE \E i \in Ids, r \in Record : Adds(i, r)
  <2>1. PICK i \in Ids, r \in Record : Adds(i, r)
    BY <1>1
  <2>2. records' = [records EXCEPT ![i] = r] /\ LinkAccepted(r)
    BY <2>1 DEF Adds
  <2>3. CASE id = i
    <3>1. records'[id] = r
      BY <2>2, <2>3 DEF TypeOK
    <3>2. QED
      BY <2>2, <3>1
  <2>4. CASE id # i
    BY <2>2, <2>4 DEF TypeOK, Has
  <2>5. QED
    BY <2>3, <2>4
<1>2. CASE \E i \in Ids, next \in Record : Replaces(i, next)
  <2>1. PICK i \in Ids, next \in Record : Replaces(i, next)
    BY <1>2
  <2>2. records' = [records EXCEPT ![i] = next] /\ LinkAccepted(next)
    BY <2>1 DEF Replaces, Updated
  <2>3. CASE id = i
    <3>1. records'[id] = next
      BY <2>2, <2>3 DEF TypeOK
    <3>2. QED
      BY <2>2, <3>1
  <2>4. CASE id # i
    BY <2>2, <2>4 DEF TypeOK, Has
  <2>5. QED
    BY <2>3, <2>4
<1>3. CASE KeepsRecords
  BY <1>3 DEF KeepsRecords, Has
<1>4. QED
  BY <1>1, <1>2, <1>3, StepShape

LEMMA AcceptedHolds ==
  ASSUME NEW r, LinkAccepted(r)
  PROVE  LinkHolds(r)
BY DEF LinkAccepted, LinkHolds

LEMMA LinksStep ==
  ASSUME TypeOK, Agreement, LinksResolve, [Next]_vars
  PROVE  LinksResolve'
<1>1. SUFFICES ASSUME NEW id \in Ids, records'[id] # None
               PROVE  LinkHolds(records[id])'
  BY DEF LinksResolve, LinkHolds, Governable, Has
<1>2. PICK r : r = records'[id]
  OBVIOUS
<1>3. LinkHolds(r)
  <2>1. CASE Has(id) /\ records'[id] = records[id]
    BY <1>2, <2>1 DEF LinksResolve, LinkHolds, Governable
  <2>2. CASE LinkAccepted(records'[id])
    BY <1>2, <2>2, AcceptedHolds
  <2>3. QED
    BY <1>1, <2>1, <2>2, RecordOrigin
<1>4. LinkHolds(r)'
  BY <1>3, LinkStaysHeld
<1>5. QED
  BY <1>2, <1>4 DEF LinkHolds, Governable, HasOfKind, Has

-----------------------------------------------------------------------------
(* Governing objectives and product lists.                                 *)

LEMMA GovernorsStep ==
  ASSUME TypeOK, Agreement, LinksResolve, GovernorsApproved, [Next]_vars
  PROVE  GovernorsApproved'
<1> SUFFICES ASSUME NEW id \in Ids, records'[id] # None,
                    records'[id].kind = "planning",
                    records'[id].link \notin bypassed'
             PROVE  records'[records'[id].link].stage >= Approved
  BY DEF GovernorsApproved, HasOfKind, Has
<1>1. PICK o : o = records'[id].link
  OBVIOUS
<1>2. o \in Ids /\ Has(o) /\ (o \in bypassed \/ records[o].stage >= Approved)
  <2>1. CASE Has(id) /\ records'[id] = records[id]
    BY <1>1, <2>1 DEF LinksResolve, HasOfKind, GovernorsApproved, Ids
  <2>2. CASE LinkAccepted(records'[id])
    BY <1>1, <2>2 DEF LinkAccepted, Governable, HasOfKind, Ids
  <2>3. QED
    BY <2>1, <2>2, RecordOrigin
<1>3. /\ records[o].stage <= records'[o].stage \/ o \in bypassed'
      /\ bypassed \subseteq bypassed'
  BY <1>2, RecordsStay
<1>4. records[o].stage >= Approved /\ records[o].stage <= records'[o].stage
  BY <1>1, <1>2, <1>3
<1>5. records[o].stage \in Nat /\ records'[o].stage \in Nat
  <2>1. TypeOK'
    BY TypeStep
  <2>2. records'[o] # None
    BY <1>2, RecordsStay
  <2>3. QED
    BY <1>2, <2>1, <2>2 DEF TypeOK, Has, Record, Stages
<1>6. QED
  BY <1>1, <1>4, <1>5

LinkInv == LinksResolve /\ GovernorsApproved

LEMMA LinkInvInit == Init => LinkInv
<1> SUFFICES ASSUME Init PROVE LinkInv
  OBVIOUS
<1>1. ASSUME NEW id \in Ids, Has(id) PROVE records[id].kind = "objective"
  <2>1. records[id] = [kind |-> "objective", key |-> id, stage |-> Approved,
                       link |-> None, list |-> {}]
    BY <1>1 DEF Init, Has
  <2>2. QED
    BY <2>1
<1>2. QED
  BY <1>1 DEF LinkInv, LinksResolve, GovernorsApproved, HasOfKind

(* A link that was checked once resolves for ever, whatever the calls.     *)
THEOREM LinksResolveCorrect == Spec => []LinksResolve
<1> DEFINE Inv == TypeOK /\ Agreement /\ LinksResolve
<1>1. Init => Inv
  BY TypeInit, AgreementInit, LinkInvInit DEF LinkInv
<1>2. Inv /\ [Next]_vars => Inv'
  BY TypeStep, AgreementStep, LinksStep
<1>3. QED
  BY <1>1, <1>2, PTL DEF Spec

(* The objective of a planning record is approved or further on, unless    *)
(* the registry's own update has set its lifecycle.                        *)
THEOREM GovernorsApprovedCorrect == Spec => []GovernorsApproved
<1> DEFINE Inv == TypeOK /\ Agreement /\ LinkInv
<1>1. Init => Inv
  BY TypeInit, AgreementInit, LinkInvInit
<1>2. Inv /\ [Next]_vars => Inv'
  BY TypeStep, AgreementStep, LinksStep, GovernorsStep DEF LinkInv
<1>3. QED
  BY <1>1, <1>2, PTL DEF Spec, LinkInv

LEMMA AddsLists ==
  ASSUME TypeOK, Agreement, ProductListsCover, NEW id \in Ids,
         NEW r \in Record, Adds(id, r)
  PROVE  ProductListsCover'
<1> SUFFICES ASSUME NEW i \in Ids, records'[i] # None, records'[i].kind = "product"
             PROVE  records'[i].list \subseteq legacy'["product"][records'[i].key].list
  BY DEF ProductListsCover, HasOfKind, Has
<1>1. PICK p \in Record : p = records'[i]
  BY AddsType DEF Adds, TypeOK
<1>2. p.key \in Keys /\ p.kind = "product" /\ "product" \in LegacyKinds
  BY <1>1 DEF Record, LegacyKinds
<1>3. legacy \in LegacyMaps /\ records' = [records EXCEPT ![id] = r]
  BY DEF TypeOK, LegacyMaps, Adds
<1> DEFINE entry == Synced(legacy, id, r)["product"][p.key]
<1>4. entry = IF "product" = r.kind /\ p.key = r.key
              THEN [id |-> id, list |-> r.list] ELSE legacy["product"][p.key]
  BY <1>2, <1>3, SyncedEntries
<1>5. entry # None /\ p.list \subseteq entry.list
  <2>1. CASE i = id
    <3>1. p = r
      BY <1>1, <1>3, <2>1 DEF TypeOK
    <3>2. entry = [id |-> id, list |-> r.list]
      BY <1>2, <1>4, <3>1
    <3> HIDE DEF entry
    <3>3. QED
      BY <3>1, <3>2, EntryIsCopy
  <2>2. CASE i # id
    <3>1. p = records[i] /\ HasOfKind(i, "product")
      BY <1>1, <1>2, <1>3, <2>2 DEF TypeOK, HasOfKind, Has
    <3>2. "product" = r.kind => p.key # r.key
      BY <3>1, AddedIsNew
    <3>3. entry = legacy["product"][p.key]
      BY <1>4, <3>2
    <3>4. legacy["product"][p.key] # None
      BY <1>2, <3>1 DEF Agreement, StructuresAgree, LegacyAgrees, InLegacy
    <3> HIDE DEF entry
    <3>5. QED
      BY <3>1, <3>3, <3>4 DEF ProductListsCover
  <2>3. QED
    BY <2>1, <2>2
<1>6. entry.list \subseteq legacy'["product"][p.key].list
  BY <1>2, <1>5 DEF Adds, Grow
<1> HIDE DEF entry
<1>7. QED
  BY <1>1, <1>5, <1>6

LEMMA ReplacesLists ==
  ASSUME TypeOK, Agreement, ProductListsCover, NEW id \in Ids,
         NEW next \in Record, Replaces(id, next)
  PROVE  ProductListsCover'
<1> SUFFICES ASSUME NEW i \in Ids, records'[i] # None, records'[i].kind = "product"
             PROVE  records'[i].list \subseteq legacy'["product"][records'[i].key].list
  BY DEF ProductListsCover, HasOfKind, Has
<1>1. PICK current \in Record : current = records[id]
  BY DEF Replaces, Has, TypeOK
<1>2. /\ legacy \in LegacyMaps /\ Has(id) /\ next.kind = current.kind
      /\ records' = [records EXCEPT ![id] = next]
      /\ legacy' = Synced(Removed(legacy, current), id, next)
  BY <1>1 DEF TypeOK, LegacyMaps, Replaces, Updated
<1>3. Removed(legacy, current) \in LegacyMaps /\ "product" \in LegacyKinds
  BY <1>2, RemovedType DEF LegacyKinds
<1>4. CASE i = id
  <2>1. records'[i] = next /\ next.kind = "product" /\ next.key \in Keys
    BY <1>2, <1>4 DEF TypeOK, Record
  <2>2. legacy'["product"][next.key] = [id |-> id, list |-> next.list]
    BY <1>2, <1>3, <2>1, SyncedEntries
  <2>3. QED
    BY <2>1, <2>2
<1>5. CASE i # id
  <2>1. records'[i] = records[i] /\ HasOfKind(i, "product")
    BY <1>2, <1>5 DEF TypeOK, HasOfKind, Has
  <2>2. records[i].key \in Keys
    BY <2>1 DEF TypeOK, HasOfKind, Has, Record
  <2>3. next.kind = "product" => records[i].key # next.key
    BY <1>5, <2>1, ReplacedIsAlone
  <2>4. current.kind = "product" => records[i].key # current.key
    BY <1>1, <1>2, <1>5, <2>1 DEF Agreement, KeyNamesOne, HasOfKind
  <2>5. legacy'["product"][records[i].key] = legacy["product"][records[i].key]
    <3>1. PICK key \in Keys : key = records[i].key
      BY <2>2
    <3>2. PICK maps \in LegacyMaps : maps = Removed(legacy, current)
      BY <1>3
    <3>3. Synced(maps, id, next)["product"][key] =
            IF "product" = next.kind /\ key = next.key
            THEN [id |-> id, list |-> next.list] ELSE maps["product"][key]
      BY <1>3, SyncedEntries
    <3>4. legacy'["product"][key] = maps["product"][key]
      BY <1>2, <2>3, <3>1, <3>2, <3>3
    <3>5. Removed(legacy, current)["product"][key] = legacy["product"][key]
      BY <1>2, <1>3, <2>4, <3>1, RemovedEntries
    <3>6. QED
      BY <3>1, <3>2, <3>4, <3>5
  <2>6. QED
    BY <2>1, <2>5 DEF ProductListsCover
<1>6. QED
  BY <1>4, <1>5

(* The products map lists at least what a product's record lists.          *)
THEOREM ProductListsCoverCorrect == Spec => []ProductListsCover
<1> DEFINE Inv == TypeOK /\ Agreement /\ ProductListsCover
<1>1. Init => ProductListsCover
  <2>1. SUFFICES ASSUME Init, NEW id \in Ids, Has(id)
                 PROVE  records[id].kind = "objective"
    BY DEF ProductListsCover, HasOfKind
  <2>2. records[id] = [kind |-> "objective", key |-> id, stage |-> Approved,
                       link |-> None, list |-> {}]
    BY <2>1 DEF Init, Has
  <2>3. QED
    BY <2>2
<1>2. ASSUME TypeOK, Agreement, ProductListsCover, [Next]_vars
      PROVE  ProductListsCover'
  <2>1. CASE KeepsRecords
    BY <1>2, <2>1 DEF KeepsRecords, ProductListsCover, HasOfKind, Has
  <2>2. QED
    BY <1>2, <2>1, StepShape, AddsLists, ReplacesLists
<1>3. Inv /\ [Next]_vars => Inv'
  BY <1>2, TypeStep, AgreementStep
<1>4. QED
  BY <1>1, <1>3, TypeInit, AgreementInit, PTL DEF Spec

-----------------------------------------------------------------------------
(* The registry implements RecordCatalog.  Its checks read the key index   *)
(* and the legacy maps; what they find is what the records alone say, so   *)
(* every call writes one record of the catalogue, reserves or releases.    *)

LEMMA AddsPut ==
  ASSUME TypeOK, Agreement, NEW id \in Ids, NEW r \in Record, Adds(id, r)
  PROVE  records'[id] = r /\ Catalog!Put(id, r)
<1>1. records' = [records EXCEPT ![id] = r] /\ records'[id] = r
  BY DEF Adds, TypeOK
<1>2. r # None /\ ~Has(id)
  BY AddedIsNew
<1>3. Catalog!Unique(id, r)
  BY AddedIsNew DEF Catalog!Unique, Catalog!Has, HasOfKind, Has
<1>4. Catalog!Grounded(r)
  BY DEF Adds, LinkAccepted, Governable, validIdentifier, HasOfKind, Has,
         Catalog!Grounded, Catalog!Governed, Catalog!Has
<1>5. QED
  BY <1>1, <1>2, <1>3, <1>4 DEF Catalog!Put, Catalog!Has, Has

LEMMA ReplacesPut ==
  ASSUME TypeOK, Agreement, NEW id \in Ids, NEW next \in Record,
         Replaces(id, next)
  PROVE  records'[id] = next /\ Catalog!Put(id, next)
<1>1. records' = [records EXCEPT ![id] = next] /\ records'[id] = next
  BY DEF Replaces, Updated, TypeOK
<1>2. next # None /\ next.kind = records[id].kind
  BY DEF Replaces
<1>3. Catalog!Unique(id, next)
  BY ReplacedIsAlone DEF Catalog!Unique, Catalog!Has, HasOfKind, Has
<1>4. Catalog!Grounded(next)
  BY DEF Replaces, Updated, LinkAccepted, Governable, validIdentifier,
         HasOfKind, Has, Catalog!Grounded, Catalog!Governed, Catalog!Has
<1>5. QED
  BY <1>1, <1>2, <1>3, <1>4 DEF Catalog!Put

(* A step that leaves the reservations alone writes one record, or none.   *)
LEMMA WriteStep ==
  ASSUME TypeOK, Agreement, [Next]_vars, UNCHANGED identifiers
  PROVE  [Catalog!Next]_(Catalog!vars)
<1>1. CASE KeepsRecords
  BY <1>1 DEF KeepsRecords, Catalog!vars
<1>2. ASSUME NEW id \in Ids, NEW r \in Record, Adds(id, r) \/ Replaces(id, r)
      PROVE  Catalog!Next
  <2>1. Catalog!Write(id)
    BY <1>2, AddsPut, ReplacesPut DEF Catalog!Write
  <2>2. QED
    BY <2>1 DEF Catalog!Next
<1>3. QED
  BY <1>1, <1>2, StepShape

(* The index knows a number as an id or a key exactly when a record does.  *)
LEMMA ExistsTaken ==
  ASSUME TypeOK, Agreement, NEW n \in Numbers
  PROVE  exists(n) <=> Catalog!Taken(n)
<1>1. n \in Ids /\ n \in Keys
  BY DEF Ids, Keys
<1>2. recordsByKey[n] # {} <=> \E id \in Ids : Has(id) /\ records[id].key = n
  <2>1. recordsByKey[n] \subseteq Ids
    BY <1>1 DEF TypeOK
  <2>2. \A id \in Ids : id \in recordsByKey[n] <=> Has(id) /\ records[id].key = n
    BY <1>1 DEF Agreement, StructuresAgree, IndexAgrees
  <2>3. QED
    BY <2>1, <2>2
<1>3. QED
  BY <1>2 DEF exists, Catalog!Taken, Catalog!Has, Has

LEMMA NextNumberIsNext ==
  ASSUME TypeOK, Agreement, NEW n \in Numbers, IsNextNumber(n)
  PROVE  Catalog!IsNext(n)
BY ExistsTaken DEF IsNextNumber, Catalog!IsNext

LEMMA CreateStep ==
  ASSUME TypeOK, Agreement, NEW n \in Numbers, NEW key \in Keys,
         NEW stage \in Stages, CreateObjective(n, key, stage)
  PROVE  Catalog!Create(n)
<1> DEFINE r == [kind |-> "objective", key |-> key, stage |-> stage,
                 link |-> None, list |-> {}]
<1>1. n \in Ids /\ r \in Record /\ r.kind = "objective"
  BY DEF Ids, Record
<1>2. Catalog!IsNext(n) /\ identifiers' = identifiers \cup {n}
  BY NextNumberIsNext DEF CreateObjective
<1>3. CASE Registered(n, r) /\ legacy' = Synced(legacy, n, r)
  <2>1. bypassed' = bypassed
    BY DEF CreateObjective
  <2>2. Adds(n, r)
    BY <1>1, <1>3, <2>1, RegisteredAdds
  <2>3. records'[n] = r /\ Catalog!Put(n, r)
    BY <1>1, <2>2, AddsPut
  <2>4. QED
    BY <1>1, <1>2, <2>3 DEF Catalog!Create
<1>4. CASE UNCHANGED <<records, recordsByKey, legacy>>
  BY <1>2, <1>4 DEF Catalog!Create
<1>5. QED
  BY <1>3, <1>4 DEF CreateObjective

LEMMA ReserveStep ==
  ASSUME TypeOK, Agreement, NEW n \in Numbers, Reserve(n) \/ Release(n)
  PROVE  Catalog!Reserve(n) \/ Catalog!Release(n)
BY ExistsTaken DEF Reserve, Release, Catalog!Reserve, Catalog!Release

LEMMA CatalogInit == Init => Catalog!Init
<1> SUFFICES ASSUME Init PROVE Catalog!Init
  OBVIOUS
<1>1. ASSUME NEW id \in Ids, id \in Seeds
      PROVE  /\ records[id] # None /\ records[id].kind = "objective"
             /\ records[id].key = id /\ records[id].stage = Approved
  <2> DEFINE seed == [kind |-> "objective", key |-> id, stage |-> Approved,
                      link |-> None, list |-> {}]
  <2>1. TypeOK
    BY TypeInit
  <2>2. records[id] = seed
    BY <1>1 DEF Init
  <2>3. seed \in Record
    BY <1>1, StagesAssumption, NumbersAssumption, KindsAssumption
       DEF Record, Keys, Stages
  <2>4. QED
    BY <2>2, <2>3
<1>2. ASSUME NEW id \in Ids, id \notin Seeds PROVE records[id] = None
  BY <1>2 DEF Init
<1>3. QED
  BY <1>1, <1>2 DEF Init, Catalog!Init, Catalog!Has

LEMMA CatalogStep ==
  ASSUME TypeOK, Agreement, [Next]_vars
  PROVE  [Catalog!Next]_(Catalog!vars)
<1>1. CASE \E n \in Numbers : Reserve(n) \/ Release(n)
  BY <1>1, ReserveStep DEF Catalog!Next
<1>2. CASE \E n \in Numbers, key \in Keys, stage \in Stages :
             CreateObjective(n, key, stage)
  BY <1>2, CreateStep DEF Catalog!Next
<1>3. CASE UNCHANGED identifiers
  BY <1>3, WriteStep
<1>4. QED
  BY <1>1, <1>2, <1>3, OtherStepsKeepIdentifiers

(* The registry is a catalogue of uniquely named records with resolved     *)
(* references, one record per call; its indexes never show.                *)
THEOREM ImplementsCatalogCorrect == Spec => ImplementsCatalog
<1>1. TypeOK /\ Agreement /\ [Next]_vars => (TypeOK /\ Agreement)'
  BY TypeStep, AgreementStep
<1>2. TypeOK /\ Agreement /\ [Next]_vars => [Catalog!Next]_(Catalog!vars)
  BY CatalogStep
<1>3. QED
  BY <1>1, <1>2, TypeInit, AgreementInit, CatalogInit, PTL
     DEF Spec, ImplementsCatalog, Catalog!Spec
=============================================================================
