-------------------------- MODULE ContextQueryProofs --------------------------
(***************************************************************************)
(* What TLAPS proves of the queries, for every set of records and every    *)
(* query: the order is total and strict, a page is a piece of the ordered  *)
(* list, and the page at next_offset goes on where this one ends.          *)
(***************************************************************************)
EXTENDS ContextQuery, FiniteSetTheorems, WellFoundedInduction, TLAPS

(* The queries the stores accept, but for orders that do not mention the   *)
(* key: records that tie in such an order stay as the store holds them.    *)
Rules == [field : Fields, direction : Directions]

Orders == {order \in Seq(Rules) : \E i \in 1..Len(order) : order[i].field = "key"}

Queries ==
  [keys : SUBSET Keys, versions : SUBSET Nat, order : Orders,
   limit : {{}} \cup {{n} : n \in Nat}, offset : Nat]

-----------------------------------------------------------------------------
(* Finite sets.                                                            *)

LEMMA SubsetFinite ==
  ASSUME NEW S, S \subseteq Keys
  PROVE  IsFiniteSet(S) /\ Cardinality(S) \in Nat
<1>1. S \in SUBSET Keys
  OBVIOUS
<1>2. QED
  BY <1>1, FS_Subset, FS_CardinalityType, KeysFiniteAssumption

LEMMA SubsetSmaller ==
  ASSUME NEW S, NEW T, S \subseteq T, T \subseteq Keys
  PROVE  Cardinality(S) <= Cardinality(T) /\ (Cardinality(S) = Cardinality(T) => S = T)
<1>1. IsFiniteSet(T) /\ S \in SUBSET T
  BY SubsetFinite
<1>2. QED
  BY <1>1, FS_Subset

LEMMA IntervalSize ==
  ASSUME NEW a \in Nat, NEW b \in Nat, a <= b
  PROVE  IsFiniteSet(a..(b - 1)) /\ Cardinality(a..(b - 1)) = b - a
<1>1. PICK c \in Int : c = b - 1
  OBVIOUS
<1>2. IsFiniteSet(a..c) /\ Cardinality(a..c) = IF a > c THEN 0 ELSE c - a + 1
  BY FS_Interval
<1>3. (IF a > c THEN 0 ELSE c - a + 1) = b - a
  BY <1>1
<1>4. QED
  BY <1>1, <1>2, <1>3

LEMMA HighestExists ==
  ASSUME NEW S, IsFiniteSet(S), S \subseteq Int, S # {}
  PROVE  \E n \in S : \A m \in S : m <= n
<1> DEFINE Above(n) == {m \in S : m > n}
           T == {Above(n) : n \in S}
<1>1. ASSUME NEW n \in S PROVE Above(n) \in SUBSET S /\ IsFiniteSet(Above(n))
  <2>1. Above(n) \in SUBSET S
    OBVIOUS
  <2>2. QED
    BY <2>1, FS_Subset
<1>2. ASSUME NEW n \in S, NEW m \in S, m > n
      PROVE  Above(m) \subseteq Above(n) /\ Above(m) # Above(n)
  <2>1. m \in Int /\ n \in Int
    OBVIOUS
  <2>2. \A y \in Above(m) : y \in Above(n)
    BY <1>2, <2>1
  <2>3. m \in Above(n) /\ m \notin Above(m)
    BY <1>2, <2>1
  <2>4. QED
    BY <2>2, <2>3
<1>3. \A n \in S : Above(n) = {} => \A m \in S : m <= n
  OBVIOUS
<1>4. \A n \in S : \A m \in Above(n) : m \in S /\ m > n
  OBVIOUS
<1> HIDE DEF Above
<1>5. T \subseteq FiniteSubsetsOf(S) /\ T # {}
  BY <1>1 DEF FiniteSubsetsOf
<1>6. PICK low \in T : \A U \in T : ~(<<U, low>> \in StrictSubsetOrdering(S))
  BY <1>5, WFMin, FS_StrictSubsetOrderingWellFounded
<1>7. PICK n \in S : low = Above(n)
  BY <1>6
<1>8. ASSUME NEW m \in Above(n) PROVE FALSE
  <2>1. m \in S /\ m > n
    BY <1>4
  <2>2. <<Above(m), low>> \in StrictSubsetOrdering(S)
    BY <1>1, <1>2, <1>7, <2>1 DEF StrictSubsetOrdering
  <2>3. QED
    BY <1>6, <2>1, <2>2
<1>9. QED
  BY <1>3, <1>8

LEMMA LowestExists ==
  ASSUME NEW n \in Nat, NEW S, S \subseteq 1..n, S # {}
  PROVE  \E i \in S : \A j \in S : i <= j
<1> DEFINE T == {m \in 0..n : n - m \in S}
<1>1. IsFiniteSet(0..n) /\ T \in SUBSET (0..n)
  BY FS_Interval
<1>2. IsFiniteSet(T) /\ T \subseteq Int
  BY <1>1, FS_Subset
<1>3. ASSUME NEW j \in S PROVE n - j \in T
  <2>1. j \in 1..n
    OBVIOUS
  <2>2. n - j \in 0..n /\ n - (n - j) = j
    BY <2>1
  <2>3. QED
    BY <2>2
<1>4. PICK m \in T : \A o \in T : o <= m
  BY <1>2, <1>3, HighestExists
<1>5. \A j \in S : n - m <= j
  <2> SUFFICES ASSUME NEW j \in S PROVE n - m <= j
    OBVIOUS
  <2>1. n - j <= m /\ j \in Int /\ m \in Int
    BY <1>1, <1>3, <1>4
  <2>2. QED
    BY <2>1
<1>6. QED
  BY <1>4, <1>5

-----------------------------------------------------------------------------
(* The order.  Two records are compared by the first rule that tells them  *)
(* apart.                                                                  *)

Alike(map, rule, j, k) == FieldOf(map, rule.field, j) = FieldOf(map, rule.field, k)

Decides(map, rule, j, k) ==
  IF rule.direction = "asc" THEN FieldOf(map, rule.field, j) < FieldOf(map, rule.field, k)
                            ELSE FieldOf(map, rule.field, j) > FieldOf(map, rule.field, k)

LEMMA FieldsAreNumbers ==
  ASSUME NEW map \in RecordMap, NEW field, NEW k \in Keys
  PROVE  FieldOf(map, field, k) \in Nat
BY KeyOrderAssumption DEF FieldOf, RecordMap, Record

LEMMA RuleOrders ==
  ASSUME NEW map \in RecordMap, NEW rule, NEW j \in Keys, NEW k \in Keys, NEW l \in Keys
  PROVE  /\ ~Decides(map, rule, j, j)
         /\ Decides(map, rule, j, k) => ~Alike(map, rule, j, k)
         /\ Decides(map, rule, j, k) /\ Decides(map, rule, k, l) => Decides(map, rule, j, l)
         /\ Decides(map, rule, j, k) /\ Alike(map, rule, k, l) => Decides(map, rule, j, l)
         /\ Alike(map, rule, j, k) /\ Decides(map, rule, k, l) => Decides(map, rule, j, l)
         /\ Alike(map, rule, j, k) \/ Decides(map, rule, j, k) \/ Decides(map, rule, k, j)
BY FieldsAreNumbers DEF Decides, Alike

\* Before, in these terms.
LEMMA BeforeDecides ==
  ASSUME NEW map, NEW order, NEW j, NEW k
  PROVE  Before(map, order, j, k) <=>
           \E i \in 1..Len(order) : /\ \A h \in 1..(i - 1) : Alike(map, order[h], j, k)
                                    /\ Decides(map, order[i], j, k)
BY DEF Before, Alike, Decides

(* No record comes before itself, and the order is transitive.             *)
LEMMA BeforeIsStrict ==
  ASSUME NEW map \in RecordMap, NEW order \in Orders,
         NEW j \in Keys, NEW k \in Keys, NEW l \in Keys
  PROVE  /\ ~Before(map, order, j, j)
         /\ Before(map, order, j, k) /\ Before(map, order, k, l) => Before(map, order, j, l)
<1>1. Len(order) \in Nat
  BY DEF Orders
<1>2. ~Before(map, order, j, j)
  BY RuleOrders, BeforeDecides
<1>3. ASSUME Before(map, order, j, k), Before(map, order, k, l)
      PROVE  Before(map, order, j, l)
  <2>1. PICK a \in 1..Len(order) : /\ \A h \in 1..(a - 1) : Alike(map, order[h], j, k)
                                   /\ Decides(map, order[a], j, k)
    BY <1>3, BeforeDecides
  <2>2. PICK b \in 1..Len(order) : /\ \A h \in 1..(b - 1) : Alike(map, order[h], k, l)
                                   /\ Decides(map, order[b], k, l)
    BY <1>3, BeforeDecides
  <2>3. PICK c \in 1..Len(order) : (c = a /\ a <= b) \/ (c = b /\ b < a)
    BY <1>1
  <2>4. \A h \in 1..(c - 1) : h \in 1..(a - 1) /\ h \in 1..(b - 1)
    BY <1>1, <2>3
  <2>5. \A h \in 1..(c - 1) : Alike(map, order[h], j, l)
    BY <2>1, <2>2, <2>4 DEF Alike
  <2>6. /\ a < b => a \in 1..(b - 1)
        /\ b < a => b \in 1..(a - 1)
    BY <1>1
  <2>7. Decides(map, order[c], j, l)
    <3>1. CASE a = b
      BY <2>1, <2>2, <2>3, <3>1, RuleOrders
    <3>2. CASE c = a /\ a < b
      BY <2>1, <2>2, <2>6, <3>2, RuleOrders
    <3>3. CASE c = b /\ b < a
      BY <2>1, <2>2, <2>6, <3>3, RuleOrders
    <3>4. QED
      BY <1>1, <2>3, <3>1, <3>2, <3>3
  <2>8. QED
    BY <2>5, <2>7, BeforeDecides
<1>4. QED
  BY <1>2, <1>3

(* Of two records one comes before the other: the keys differ.             *)
LEMMA BeforeIsTotal ==
  ASSUME NEW map \in RecordMap, NEW order \in Orders, NEW j \in Keys, NEW k \in Keys, j # k
  PROVE  Before(map, order, j, k) \/ Before(map, order, k, j)
<1> DEFINE Differ == {i \in 1..Len(order) : ~Alike(map, order[i], j, k)}
<1>1. Len(order) \in Nat
  BY DEF Orders
<1>2. PICK i \in 1..Len(order) : order[i].field = "key"
  BY DEF Orders
<1>3. i \in Differ
  BY <1>2, KeyOrderAssumption DEF Alike, FieldOf
<1>4. PICK first \in Differ : \A h \in Differ : first <= h
  <2> HIDE DEF Differ
  <2>1. Differ \subseteq 1..Len(order) /\ Differ # {}
    BY <1>3 DEF Differ
  <2>2. QED
    BY <1>1, <2>1, LowestExists
<1>5. \A h \in 1..(first - 1) : Alike(map, order[h], j, k) /\ Alike(map, order[h], k, j)
  <2> SUFFICES ASSUME NEW h \in 1..(first - 1) PROVE Alike(map, order[h], j, k)
    BY DEF Alike
  <2>1. h \in 1..Len(order) /\ ~(first <= h)
    BY <1>1
  <2>2. QED
    BY <1>4, <2>1
<1>6. Decides(map, order[first], j, k) \/ Decides(map, order[first], k, j)
  BY RuleOrders
<1>7. first \in 1..Len(order)
  OBVIOUS
<1>8. QED
  BY <1>5, <1>6, <1>7, BeforeDecides

(* compareRecords orders the records of every store, for every order_by:   *)
(* strictly, and any two of them.  Pages would repeat or skip records if   *)
(* it did not.                                                             *)
THEOREM OrderIsStrictAndTotal ==
  ASSUME NEW map \in RecordMap, NEW order \in Orders
  PROVE  /\ \A k \in Keys : ~Before(map, order, k, k)
         /\ \A j, k, l \in Keys :
              Before(map, order, j, k) /\ Before(map, order, k, l) => Before(map, order, j, l)
         /\ \A j, k \in Keys : j = k \/ Before(map, order, j, k) \/ Before(map, order, k, j)
BY BeforeIsStrict, BeforeIsTotal

-----------------------------------------------------------------------------
(* The places.  Those of the selected records are 0, 1, ... up to the last *)
(* one, each taken once: a list.                                           *)

Ahead(map, q, k) == {j \in Selected(map, q) : Before(map, q.order, j, k)}

LEMMA SelectedTyped ==
  ASSUME NEW map \in RecordMap, NEW q \in Queries
  PROVE  /\ q.order \in Orders /\ q.offset \in Nat /\ Limit(q) \in Nat
         /\ Selected(map, q) \subseteq Keys
         /\ Cardinality(Selected(map, q)) \in Nat
<1>1. q.order \in Orders /\ q.offset \in Nat /\ q.limit \in {{}} \cup {{n} : n \in Nat}
  BY DEF Queries
<1>2. Limit(q) \in Nat
  BY <1>1, LimitAssumption DEF Limit
<1>3. Selected(map, q) \subseteq Keys
  BY DEF Selected, Queries
<1>4. QED
  BY <1>1, <1>2, <1>3, SubsetFinite

LEMMA PlaceTyped ==
  ASSUME NEW map \in RecordMap, NEW q \in Queries, NEW k \in Selected(map, q)
  PROVE  Place(map, q, k) \in Nat /\ Place(map, q, k) < Cardinality(Selected(map, q))
<1>1. q.order \in Orders /\ Selected(map, q) \subseteq Keys
  BY SelectedTyped
<1>2. Ahead(map, q, k) \subseteq Selected(map, q) /\ k \notin Ahead(map, q, k)
  BY <1>1, BeforeIsStrict DEF Ahead
<1>3. Cardinality(Ahead(map, q, k)) <= Cardinality(Selected(map, q))
      /\ Cardinality(Ahead(map, q, k)) # Cardinality(Selected(map, q))
  BY <1>1, <1>2, SubsetSmaller
<1>4. /\ Cardinality(Ahead(map, q, k)) \in Nat /\ Cardinality(Selected(map, q)) \in Nat
      /\ Place(map, q, k) = Cardinality(Ahead(map, q, k))
  BY <1>1, <1>2, SubsetFinite DEF Place, Ahead
<1>5. QED
  BY <1>3, <1>4

LEMMA PlaceOrders ==
  ASSUME NEW map \in RecordMap, NEW q \in Queries,
         NEW j \in Selected(map, q), NEW k \in Selected(map, q), Before(map, q.order, j, k)
  PROVE  Place(map, q, j) < Place(map, q, k)
<1>1. q.order \in Orders /\ Selected(map, q) \subseteq Keys
  BY SelectedTyped
<1>2. /\ Ahead(map, q, j) \subseteq Ahead(map, q, k) /\ Ahead(map, q, k) \subseteq Keys
      /\ j \in Ahead(map, q, k) /\ j \notin Ahead(map, q, j)
  BY <1>1, BeforeIsStrict DEF Ahead
<1>3. Cardinality(Ahead(map, q, j)) <= Cardinality(Ahead(map, q, k))
      /\ Cardinality(Ahead(map, q, j)) # Cardinality(Ahead(map, q, k))
  BY <1>2, SubsetSmaller
<1>4. /\ Cardinality(Ahead(map, q, j)) \in Nat /\ Cardinality(Ahead(map, q, k)) \in Nat
      /\ Place(map, q, j) = Cardinality(Ahead(map, q, j))
      /\ Place(map, q, k) = Cardinality(Ahead(map, q, k))
  BY <1>2, SubsetFinite DEF Place, Ahead
<1>5. QED
  BY <1>3, <1>4

LEMMA PlaceTells ==
  ASSUME NEW map \in RecordMap, NEW q \in Queries,
         NEW j \in Selected(map, q), NEW k \in Selected(map, q)
  PROVE  /\ Place(map, q, j) = Place(map, q, k) => j = k
         /\ Place(map, q, j) < Place(map, q, k) => Before(map, q.order, j, k)
<1>1. j = k \/ Before(map, q.order, j, k) \/ Before(map, q.order, k, j)
  BY SelectedTyped, BeforeIsTotal
<1>2. /\ Before(map, q.order, j, k) => Place(map, q, j) < Place(map, q, k)
      /\ Before(map, q.order, k, j) => Place(map, q, k) < Place(map, q, j)
  BY PlaceOrders
<1>3. Place(map, q, j) \in Nat /\ Place(map, q, k) \in Nat
  BY PlaceTyped
<1>4. QED
  BY <1>1, <1>2, <1>3

LEMMA PlaceOnto ==
  ASSUME NEW map \in RecordMap, NEW q \in Queries,
         NEW n \in Nat, n < Cardinality(Selected(map, q))
  PROVE  \E k \in Selected(map, q) : Place(map, q, k) = n
<1> DEFINE S == Selected(map, q)
           T == 0..(Cardinality(S) - 1)
           f == [k \in S |-> Place(map, q, k)]
<1>1. Cardinality(S) \in Nat
  BY SelectedTyped
<1>2. IsFiniteSet(T) /\ Cardinality(T) = Cardinality(S)
  BY <1>1, IntervalSize
<1>3. \A k \in S : Place(map, q, k) \in T
  BY <1>1, PlaceTyped
<1>4. f \in Injection(S, T)
  BY <1>3, PlaceTells DEF Injection, IsInjective
<1>5. f \in Surjection(S, T)
  <2> HIDE DEF f, S, T
  <2>1. QED
    BY <1>2, <1>4, FS_Injection
<1>6. n \in T
  BY <1>1
<1>7. QED
  BY <1>5, <1>6 DEF Surjection

(* The records a query selects make a list: their places are 0, 1, ... up  *)
(* to the last, each taken by one record, in the order of the query.       *)
THEOREM SelectionIsList ==
  ASSUME NEW map \in RecordMap, NEW q \in Queries
  PROVE  /\ \A n \in 0..(Cardinality(Selected(map, q)) - 1) :
              \E k \in Selected(map, q) :
                /\ Place(map, q, k) = n
                /\ \A j \in Selected(map, q) : Place(map, q, j) = n => j = k
         /\ \A j, k \in Selected(map, q) :
              Before(map, q.order, j, k) <=> Place(map, q, j) < Place(map, q, k)
<1>1. ASSUME NEW n \in 0..(Cardinality(Selected(map, q)) - 1)
      PROVE  \E k \in Selected(map, q) :
                /\ Place(map, q, k) = n
                /\ \A j \in Selected(map, q) : Place(map, q, j) = n => j = k
  <2>1. n \in Nat /\ n < Cardinality(Selected(map, q))
    BY <1>1, SelectedTyped
  <2>2. PICK k \in Selected(map, q) : Place(map, q, k) = n
    BY <2>1, PlaceOnto
  <2>3. QED
    BY <2>2, PlaceTells
<1>2. QED
  BY <1>1, PlaceOrders, PlaceTells

-----------------------------------------------------------------------------
(* The pages.                                                              *)

(* A page has as many records as the limit allows and the list still has,  *)
(* those of the places from offset to next_offset; past the end of the     *)
(* list it has none.                                                       *)
LEMMA PageSize ==
  ASSUME NEW map \in RecordMap, NEW q \in Queries, NEW total,
         total = Cardinality(Selected(map, q))
  PROVE  /\ NextOffset(map, q) \in Nat
         /\ NextOffset(map, q) = IF q.offset + Limit(q) <= total THEN q.offset + Limit(q)
                                 ELSE IF q.offset <= total THEN total ELSE q.offset
         /\ Items(map, q) = {k \in Selected(map, q) : /\ q.offset <= Place(map, q, k)
                                                      /\ Place(map, q, k) < NextOffset(map, q)}
<1>1. total \in Nat /\ q.offset \in Nat /\ Limit(q) \in Nat
  BY SelectedTyped
<1>2. PICK to \in Nat :
        /\ q.offset <= to
        /\ to = IF q.offset + Limit(q) <= total THEN q.offset + Limit(q)
                ELSE IF q.offset <= total THEN total ELSE q.offset
  BY <1>1
<1>3. \A k \in Selected(map, q) : Place(map, q, k) \in Nat /\ Place(map, q, k) < total
  BY PlaceTyped
<1> DEFINE I == {k \in Selected(map, q) : q.offset <= Place(map, q, k) /\ Place(map, q, k) < to}
           T == q.offset..(to - 1)
           f == [k \in I |-> Place(map, q, k)]
<1>4. Items(map, q) = I
  BY <1>1, <1>2, <1>3 DEF Items
<1>5. \A k \in I : Place(map, q, k) \in T
  BY <1>1, <1>2, <1>3
<1>6. f \in Injection(I, T)
  BY <1>5, PlaceTells DEF Injection, IsInjective
<1>7. \A n \in T : \E k \in I : f[k] = n
  <2> SUFFICES ASSUME NEW n \in T PROVE \E k \in I : f[k] = n
    OBVIOUS
  <2>1. n \in Nat /\ q.offset <= n /\ n < to /\ n < total
    BY <1>1, <1>2
  <2>2. PICK k \in Selected(map, q) : Place(map, q, k) = n
    BY <2>1, PlaceOnto
  <2>3. QED
    BY <2>1, <2>2
<1>8. f \in Surjection(I, T)
  BY <1>5, <1>7 DEF Surjection
<1>9. IsFiniteSet(T) /\ Cardinality(T) = to - q.offset
  BY <1>1, <1>2, IntervalSize
<1>10. Cardinality(I) = to - q.offset
  <2> HIDE DEF f, I, T
  <2>1. QED
    BY <1>6, <1>8, <1>9, FS_Injection
<1>11. NextOffset(map, q) = to
  <2> HIDE DEF I
  <2>1. QED
    BY <1>1, <1>2, <1>4, <1>10 DEF NextOffset
<1>12. QED
  BY <1>2, <1>4, <1>11

(* toQueryResult: a page holds what the limit allows of what is left, and  *)
(* there is more exactly when a record comes after it.                     *)
THEOREM PageIsFilled ==
  ASSUME NEW map \in RecordMap, NEW q \in Queries
  PROVE  /\ Cardinality(Items(map, q)) =
              IF q.offset + Limit(q) <= Cardinality(Selected(map, q)) THEN Limit(q)
              ELSE IF q.offset <= Cardinality(Selected(map, q))
                THEN Cardinality(Selected(map, q)) - q.offset ELSE 0
         /\ HasMore(map, q) <=>
              \E k \in Selected(map, q) : Place(map, q, k) >= NextOffset(map, q)
<1>1. PICK total : total = Cardinality(Selected(map, q))
  OBVIOUS
<1>2. total \in Nat /\ q.offset \in Nat /\ Limit(q) \in Nat
  BY <1>1, SelectedTyped
<1>3. /\ NextOffset(map, q) \in Nat
      /\ NextOffset(map, q) = IF q.offset + Limit(q) <= total THEN q.offset + Limit(q)
                              ELSE IF q.offset <= total THEN total ELSE q.offset
  BY <1>1, PageSize
<1>4. Cardinality(Items(map, q)) \in Nat
  <2>1. Items(map, q) \subseteq Keys
    BY SelectedTyped DEF Items
  <2>2. QED
    BY <2>1, SubsetFinite
<1>5. NextOffset(map, q) = q.offset + Cardinality(Items(map, q))
  BY DEF NextOffset
<1>6. HasMore(map, q) <=> NextOffset(map, q) < total
  BY <1>1 DEF HasMore
<1>7. ASSUME NextOffset(map, q) < total
      PROVE  \E k \in Selected(map, q) : Place(map, q, k) >= NextOffset(map, q)
  <2>1. PICK k \in Selected(map, q) : Place(map, q, k) = NextOffset(map, q)
    BY <1>1, <1>3, <1>7, PlaceOnto
  <2>2. QED
    BY <1>3, <2>1
<1>8. ASSUME NEW k \in Selected(map, q), Place(map, q, k) >= NextOffset(map, q)
      PROVE  NextOffset(map, q) < total
  BY <1>1, <1>2, <1>3, <1>8, PlaceTyped
<1>9. QED
  BY <1>1, <1>2, <1>3, <1>4, <1>5, <1>6, <1>7, <1>8

(* The page at next_offset goes on where this one ends: nothing is on both *)
(* pages, nothing is skipped between them, and what is on this page comes  *)
(* before what is on the next.  A page that has a next one ends past its   *)
(* offset unless the limit is 0: such a query has more for ever.           *)
THEOREM PagesFollowOn ==
  ASSUME NEW map \in RecordMap, NEW q \in Queries, NEW next \in Queries,
         next = [q EXCEPT !.offset = NextOffset(map, q)]
  PROVE  /\ Items(map, q) \cap Items(map, next) = {}
         /\ \A j \in Items(map, q), k \in Items(map, next) : Before(map, q.order, j, k)
         /\ \A k \in Selected(map, q) : Place(map, q, k) >= q.offset =>
              k \in Items(map, q) \/ Place(map, next, k) >= next.offset
         /\ HasMore(map, q) /\ Limit(q) > 0 => next.offset > q.offset
<1>1. PICK total : total = Cardinality(Selected(map, q))
  OBVIOUS
<1>2. total \in Nat /\ q.offset \in Nat /\ Limit(q) \in Nat
  BY <1>1, SelectedTyped
<1>3. PICK to \in Nat : to = NextOffset(map, q)
  BY <1>1, PageSize
<1>4. /\ to = IF q.offset + Limit(q) <= total THEN q.offset + Limit(q)
              ELSE IF q.offset <= total THEN total ELSE q.offset
      /\ Items(map, q) = {k \in Selected(map, q) : /\ q.offset <= Place(map, q, k)
                                                   /\ Place(map, q, k) < to}
  BY <1>1, <1>3, PageSize
<1>5. /\ next.offset = to /\ next.order = q.order /\ next.limit = q.limit
      /\ next.keys = q.keys /\ next.versions = q.versions
  BY <1>3 DEF Queries
<1>6. Selected(map, next) = Selected(map, q)
  BY <1>5 DEF Selected
<1>7. \A k : Place(map, next, k) = Place(map, q, k)
  BY <1>5, <1>6 DEF Place
<1>8. \A k \in Items(map, next) : k \in Selected(map, q) /\ to <= Place(map, q, k)
  <2>1. \A k \in Selected(map, q) : Place(map, q, k) \in Nat
    BY PlaceTyped
  <2>2. QED
    BY <1>5, <1>6, <1>7, <2>1 DEF Items
<1>9. \A k \in Selected(map, q) : Place(map, q, k) \in Nat
  BY PlaceTyped
<1>10. \A j \in Items(map, q), k \in Items(map, next) : Place(map, q, j) < Place(map, q, k)
  BY <1>4, <1>8, <1>9
<1>11. Items(map, q) \cap Items(map, next) = {}
  BY <1>4, <1>8, <1>9
<1>12. \A j \in Items(map, q), k \in Items(map, next) : Before(map, q.order, j, k)
  BY <1>4, <1>8, <1>10, PlaceTells
<1>13. ASSUME NEW k \in Selected(map, q), Place(map, q, k) >= q.offset
       PROVE  k \in Items(map, q) \/ Place(map, next, k) >= next.offset
  BY <1>2, <1>4, <1>5, <1>7, <1>9, <1>13
<1>14. HasMore(map, q) <=> to < total
  BY <1>1, <1>3 DEF HasMore
<1>15. HasMore(map, q) /\ Limit(q) > 0 => next.offset > q.offset
  BY <1>2, <1>4, <1>5, <1>14
<1>16. QED
  BY <1>11, <1>12, <1>13, <1>15
=============================================================================
