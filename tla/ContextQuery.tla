---------------------------- MODULE ContextQuery ----------------------------
(***************************************************************************)
(* The queries of a context store: which records match, in what order, and *)
(* which page of them is returned.  The three stores carry copies of this  *)
(* code; the line numbers in the project's map are those of the in-memory  *)
(* store.                                                                  *)
(*                                                                         *)
(* A page is a set of keys: the place of a record in the sorted list is    *)
(* the number of selected records that come before it.  Every order        *)
(* considered mentions the key, so no two records tie.                     *)
(***************************************************************************)
EXTENDS StoreRecords, FiniteSets, Sequences

CONSTANTS
  KeyOrder,      \* the place of each key in the order of strings
  DefaultLimit   \* defaultLimit, 50 in the code

ASSUME KeyOrderAssumption ==
  /\ KeyOrder \in [Keys -> Nat]
  /\ \A j, k \in Keys : KeyOrder[j] = KeyOrder[k] => j = k
ASSUME KeysFiniteAssumption == IsFiniteSet(Keys)
ASSUME LimitAssumption == DefaultLimit \in Nat

-----------------------------------------------------------------------------
Fields     == {"key", "version"}
Directions == {"asc", "desc"}

DefaultOrder == << [field |-> "key", direction |-> "asc"] >>

\* key, keys and key_prefix restrict the keys, min_version and max_version
\* the versions; limit is {} when the query has none.
Query(keys, versions, order, limit, offset) ==
  [keys |-> keys, versions |-> versions, order |-> order,
   limit |-> limit, offset |-> offset]

\* filterRecords.
Selected(map, q) == {k \in q.keys : Has(map, k) /\ map[k].version \in q.versions}

FieldOf(map, field, k) == IF field = "key" THEN KeyOrder[k] ELSE map[k].version

(* compareRecords: the first rule that tells two records apart decides.    *)
Before(map, order, j, k) ==
  \E i \in 1..Len(order) :
    /\ \A h \in 1..(i - 1) :
         FieldOf(map, order[h].field, j) = FieldOf(map, order[h].field, k)
    /\ IF order[i].direction = "asc"
         THEN FieldOf(map, order[i].field, j) < FieldOf(map, order[i].field, k)
         ELSE FieldOf(map, order[i].field, j) > FieldOf(map, order[i].field, k)

Place(map, q, k) ==
  Cardinality({j \in Selected(map, q) : Before(map, q.order, j, k)})

Limit(q) == IF q.limit = {} THEN DefaultLimit ELSE CHOOSE n \in q.limit : TRUE

\* items, has_more and next_offset of toQueryResult.
Items(map, q) ==
  {k \in Selected(map, q) :
     Place(map, q, k) >= q.offset /\ Place(map, q, k) < q.offset + Limit(q)}

\* A faulty variant: the offset of the record after the next one.
NextOffsetPastOne(map, q) == q.offset + Cardinality(Items(map, q)) + 1

NextOffset(map, q) == q.offset + Cardinality(Items(map, q))

HasMore(map, q) == NextOffset(map, q) < Cardinality(Selected(map, q))
=============================================================================
