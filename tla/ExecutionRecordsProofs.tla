------------------------ MODULE ExecutionRecordsProofs ------------------------
(***************************************************************************)
(* What TLAPS proves of ExecutionRecords, for every set of keys, writers   *)
(* and recoveries, every default limit and every bound on the writes.      *)
(***************************************************************************)
EXTENDS ExecutionRecords, FiniteSetTheorems, TLAPS

USE KindAssumption, ForeignAssumption, InitiallyAssumption, ProcessAssumption,
    NoKeyAssumption, MaxWritesAssumption, NobodyAssumption, LimitAssumption

-----------------------------------------------------------------------------
(* Records, and the pages of a query.                                      *)

LEMMA EmptyMapIsRecordMap == EmptyMap \in RecordMap
BY DEF EmptyMap, RecordMap, Absent, Record

LEMMA WrittenIsRecord ==
  ASSUME NEW map \in RecordMap, NEW k \in Keys, NEW o,
         NEW w \in Writers, NEW n \in Nat
  PROVE  Written(map, o, k, w, n) \in Record
BY DEF Written, Record, RecordMap, Absent

LEMMA ItemsAreSelected ==
  ASSUME NEW map, NEW q
  PROVE  Items(map, q) \subseteq Selected(map, q)
BY DEF Items

(* The first page of a listing holds records of its kind, and all of them  *)
(* unless there are more.                                                  *)
LEMMA ListingOfKind ==
  ASSUME NEW map, NEW kind, NEW k \in Items(map, Listing(kind))
  PROVE  k \in Keys /\ Kind[k] = kind
BY ItemsAreSelected DEF Selected, Listing, Query

LEMMA LastPageHoldsAll ==
  ASSUME NEW map \in RecordMap, NEW kind, ~HasMore(map, Listing(kind)),
         NEW k \in Keys, Has(map, k), Kind[k] = kind
  PROVE  k \in Items(map, Listing(kind))
<1> DEFINE q == Listing(kind)
           S == Selected(map, q)
           I == Items(map, q)
<1>1. S \subseteq Keys /\ q.offset = 0
  BY DEF Selected, Listing, Query
<1>2. k \in S
  BY DEF Selected, Listing, Query, RecordMap, Record
<1>3. IsFiniteSet(S)
  BY <1>1, FS_Subset, KeysFiniteAssumption
<1>4. I \in SUBSET S
  BY ItemsAreSelected
<1>5. IsFiniteSet(I) /\ Cardinality(I) <= Cardinality(S)
      /\ (Cardinality(S) = Cardinality(I) => S = I)
  BY <1>3, <1>4, FS_Subset
<1>6. Cardinality(S) \in Nat /\ Cardinality(I) \in Nat
  BY <1>3, <1>5, FS_CardinalityType
<1>7. ~(0 + Cardinality(I) < Cardinality(S))
  BY <1>1 DEF HasMore, NextOffset
<1>8. S = I
  <2> HIDE DEF S, I
  <2>1. QED
    BY <1>5, <1>6, <1>7
<1>9. QED
  BY <1>2, <1>8

-----------------------------------------------------------------------------
(* The type invariant.                                                     *)

LEMMA TypeInit == Init => TypeOK
<1> SUFFICES ASSUME Init PROVE TypeOK
  OBVIOUS
<1>1. records \in RecordMap
  BY DEF Init, RecordMap, Record, Absent
<1>2. base \in [Writers -> RecordMap]
  BY EmptyMapIsRecordMap DEF Init
<1>3. seen \in [Writers -> Record]
  BY DEF Init, Record, Absent
<1>4. \A w \in Writers : pc[w] \in WriterSteps /\ pc[w] = "idle" /\ key[w] = NoKey
  BY DEF Init, Processes, WriterSteps
<1>5. \A r \in Recoverers : pc[r] \in RecoverySteps
  BY DEF Init, Processes, RecoverySteps
<1>6. pc \in [Processes -> WriterSteps \cup RecoverySteps]
  BY DEF Init, WriterSteps
<1>7. /\ serial \in [Writers -> Nat] /\ \A w \in Writers : serial[w] <= MaxWrites[w]
      /\ op \in [Writers -> Operations \cup {"none"}]
      /\ key \in [Writers -> Keys \cup {NoKey}]
      /\ expected \in [Writers -> {{}} \cup Expectations]
  BY DEF Init
<1>8. /\ open \in Int /\ begun \in Nat /\ acked \in RecordMap
  BY <1>1 DEF Init
<1>9. found \in [Recoverers -> SUBSET Keys] /\ stable \in [Recoverers -> SUBSET Keys]
  BY DEF Init
<1>10. slipped \subseteq Writers /\ overlapped \in BOOLEAN /\ overflow \subseteq Recoverers
  BY DEF Init
<1>11. QED
  BY <1>1, <1>2, <1>3, <1>4, <1>5, <1>6, <1>7, <1>8, <1>9, <1>10 DEF TypeOK

LEMMA TypeRequest ==
  ASSUME TypeOK, NEW w \in Writers,
         NEW o \in Operations, NEW k \in Keys, NEW e \in Expectations,
         Request(w, o, k, e)
  PROVE  /\ serial' \in [Writers -> Nat]
         /\ \A v \in Writers : serial'[v] <= MaxWrites[v]
         /\ op' \in [Writers -> Operations \cup {"none"}]
         /\ key' = [key EXCEPT ![w] = k] /\ key' \in [Writers -> Keys \cup {NoKey}]
         /\ expected' \in [Writers -> {{}} \cup Expectations]
BY DEF Request, TypeOK

LEMMA TypeBeginTransaction ==
  ASSUME TypeOK, NEW w \in Writers, BeginTransaction(w)
  PROVE  /\ open' \in Int /\ begun' \in Nat /\ base' \in [Writers -> RecordMap]
         /\ overlapped' \in BOOLEAN
         /\ pc' = [pc EXCEPT ![w] = "staged"]
<1>1. base' \in [Writers -> RecordMap]
  BY DEF BeginTransaction, TypeOK
<1>2. QED
  BY <1>1 DEF BeginTransaction, TypeOK

LEMMA TypeCreateOrDelete ==
  ASSUME TypeOK, NEW w \in Writers,
         NEW o \in Operations, NEW k \in Keys, NEW e \in Expectations,
         CreateOrDelete(w, o, k, e)
  PROVE  TypeOK'
<1>1. Request(w, o, k, e) /\ BeginTransaction(w)
  BY DEF CreateOrDelete
<1>2. pc' = [pc EXCEPT ![w] = "staged"] /\ key' = [key EXCEPT ![w] = k]
  BY <1>1, TypeRequest, TypeBeginTransaction
<1>3. pc' \in [Processes -> WriterSteps \cup RecoverySteps]
  BY <1>2 DEF TypeOK, WriterSteps
<1>4. \A v \in Writers : pc'[v] \in WriterSteps /\ (pc'[v] = "idle" <=> key'[v] = NoKey)
  BY <1>2 DEF TypeOK, WriterSteps, Processes
<1>5. \A r \in Recoverers : pc'[r] \in RecoverySteps
  BY <1>2 DEF TypeOK, Processes
<1>6. QED
  BY <1>1, <1>3, <1>4, <1>5, TypeRequest, TypeBeginTransaction DEF CreateOrDelete, TypeOK

LEMMA TypeUpdate ==
  ASSUME TypeOK, NEW w \in Writers, NEW k \in Keys, NEW e \in Expectations,
         Update(w, k, e)
  PROVE  TypeOK'
<1>1. Request(w, "update", k, e)
  BY DEF Update
<1>2. pc' = [pc EXCEPT ![w] = "reading"] /\ key' = [key EXCEPT ![w] = k]
  BY <1>1 DEF Update, Request
<1>3. pc' \in [Processes -> WriterSteps \cup RecoverySteps]
  BY <1>2 DEF TypeOK, WriterSteps
<1>4. \A v \in Writers : pc'[v] \in WriterSteps /\ (pc'[v] = "idle" <=> key'[v] = NoKey)
  BY <1>2 DEF TypeOK, WriterSteps, Processes
<1>5. \A r \in Recoverers : pc'[r] \in RecoverySteps
  BY <1>2 DEF TypeOK, Processes
<1>6. open' \in Int
  BY DEF Update, TypeOK
<1>7. QED
  BY <1>1, <1>3, <1>4, <1>5, <1>6, TypeRequest DEF Update, TypeOK, historyVars, Operations

LEMMA TypeFinished ==
  ASSUME TypeOK, NEW w \in Writers, Finished(w)
  PROVE  /\ pc' \in [Processes -> WriterSteps \cup RecoverySteps]
         /\ \A v \in Writers : pc'[v] \in WriterSteps /\ (pc'[v] = "idle" <=> key'[v] = NoKey)
         /\ \A r \in Recoverers : pc'[r] \in RecoverySteps
         /\ op' \in [Writers -> Operations \cup {"none"}]
         /\ key' \in [Writers -> Keys \cup {NoKey}]
         /\ expected' \in [Writers -> {{}} \cup Expectations]
         /\ seen' \in [Writers -> Record] /\ base' \in [Writers -> RecordMap]
<1>1. pc' = [pc EXCEPT ![w] = "idle"] /\ key' = [key EXCEPT ![w] = NoKey]
  BY DEF Finished
<1>2. pc' \in [Processes -> WriterSteps \cup RecoverySteps]
  BY <1>1 DEF TypeOK, WriterSteps
<1>3. \A v \in Writers : pc'[v] \in WriterSteps /\ (pc'[v] = "idle" <=> key'[v] = NoKey)
  BY <1>1 DEF TypeOK, WriterSteps, Processes
<1>4. \A r \in Recoverers : pc'[r] \in RecoverySteps
  BY <1>1 DEF TypeOK, Processes
<1>5. seen' \in [Writers -> Record]
  BY DEF Finished, TypeOK, Record, Absent
<1>6. base' \in [Writers -> RecordMap]
  BY EmptyMapIsRecordMap DEF Finished, TypeOK
<1>7. QED
  BY <1>2, <1>3, <1>4, <1>5, <1>6 DEF Finished, TypeOK

LEMMA TypeReadForUpdate ==
  ASSUME TypeOK, NEW w \in Writers, ReadForUpdate(w)
  PROVE  TypeOK'
<1>1. open' \in Int /\ slipped' \subseteq Writers
  BY DEF ReadForUpdate, TypeOK
<1>2. CASE Has(records, key[w])
  <2>1. key[w] \in Keys
    BY DEF ReadForUpdate, TypeOK
  <2>2. seen' \in [Writers -> Record]
    <3>1. seen' = [seen EXCEPT ![w] = records[key[w]]]
      BY <1>2 DEF ReadForUpdate
    <3>2. records[key[w]] \in Record
      BY <2>1 DEF TypeOK, RecordMap
    <3>3. QED
      BY <3>1, <3>2 DEF TypeOK
  <2>3. pc' = [pc EXCEPT ![w] = "read"]
    BY <1>2 DEF ReadForUpdate
  <2>4. pc' \in [Processes -> WriterSteps \cup RecoverySteps]
    BY <2>3 DEF TypeOK, WriterSteps
  <2>5. \A v \in Writers : pc'[v] \in WriterSteps /\ (pc'[v] = "idle" <=> key'[v] = NoKey)
    BY <1>2, <2>3 DEF ReadForUpdate, TypeOK, WriterSteps, Processes
  <2>6. \A r \in Recoverers : pc'[r] \in RecoverySteps
    BY <2>3 DEF TypeOK, Processes
  <2>7. QED
    BY <1>1, <1>2, <2>2, <2>4, <2>5, <2>6 DEF ReadForUpdate, TypeOK
<1>3. CASE ~Has(records, key[w])
  <2>1. Finished(w)
    BY <1>3 DEF ReadForUpdate
  <2>2. QED
    BY <1>1, <2>1, TypeFinished DEF ReadForUpdate, TypeOK
<1>4. QED
  BY <1>2, <1>3

LEMMA TypeBeginUpdate ==
  ASSUME TypeOK, NEW w \in Writers, BeginUpdate(w)
  PROVE  TypeOK'
<1>1. pc' = [pc EXCEPT ![w] = "staged"]
  BY DEF BeginUpdate, BeginTransaction
<1>2. pc' \in [Processes -> WriterSteps \cup RecoverySteps]
  BY <1>1 DEF TypeOK, WriterSteps
<1>3. \A v \in Writers : pc'[v] \in WriterSteps /\ (pc'[v] = "idle" <=> key'[v] = NoKey)
  BY <1>1 DEF BeginUpdate, requestVars, TypeOK, WriterSteps, Processes
<1>4. \A r \in Recoverers : pc'[r] \in RecoverySteps
  BY <1>1 DEF TypeOK, Processes
<1>5. BeginTransaction(w)
  BY DEF BeginUpdate
<1>6. QED
  BY <1>2, <1>3, <1>4, <1>5, TypeBeginTransaction DEF BeginUpdate, requestVars, TypeOK

LEMMA TypeWrite ==
  ASSUME TypeOK, NEW w \in Writers, Write(w)
  PROVE  TypeOK'
<1>1. key[w] \in Keys /\ base[w] \in RecordMap /\ serial[w] \in Nat
  BY DEF Write, TypeOK, WriterSteps
<1>2. Written(base[w], op[w], key[w], w, serial[w]) \in Record
  BY <1>1, WrittenIsRecord
<1>3. records' \in RecordMap /\ acked' \in RecordMap
  BY <1>1, <1>2 DEF Write, TypeOK, RecordMap
<1>4. slipped' \subseteq Writers
  BY DEF Write, TypeOK
<1>5. stable' \in [Recoverers -> SUBSET Keys]
  BY DEF Write, TypeOK
<1>6. Finished(w)
  BY DEF Write
<1>7. QED
  BY <1>3, <1>4, <1>5, <1>6, TypeFinished DEF Write, TypeOK

LEMMA TypeWriteRejected ==
  ASSUME TypeOK, NEW w \in Writers, WriteRejected(w)
  PROVE  TypeOK'
<1>1. Finished(w)
  BY DEF WriteRejected
<1>2. QED
  BY <1>1, TypeFinished DEF WriteRejected, TypeOK, storeVars, historyVars

LEMMA AfterType ==
  ASSUME NEW step \in ReadSteps
  PROVE  After(step) \in RecoverySteps
BY DEF After, ReadSteps, RecoverySteps

LEMMA TypeMove ==
  ASSUME TypeOK, NEW r \in Recoverers, NEW step \in RecoverySteps,
         pc' = [pc EXCEPT ![r] = step], UNCHANGED requestVars
  PROVE  /\ pc' \in [Processes -> WriterSteps \cup RecoverySteps]
         /\ \A v \in Writers : pc'[v] \in WriterSteps /\ (pc'[v] = "idle" <=> key'[v] = NoKey)
         /\ \A q \in Recoverers : pc'[q] \in RecoverySteps
         /\ pc'[r] = step
<1>1. r \notin Writers /\ r \in Processes
  BY DEF Processes
<1>2. QED
  BY <1>1 DEF TypeOK, requestVars, Processes

LEMMA TypeRecoveryStep ==
  ASSUME TypeOK, NEW r \in Recoverers, RecoveryStep(r)
  PROVE  TypeOK'
<1>1. CASE Recover(r)
  <2>1. "execution" \in RecoverySteps
    BY DEF RecoverySteps, ReadSteps
  <2>2. stable' \in [Recoverers -> SUBSET Keys] /\ open' \in Int
    BY <1>1 DEF Recover, TypeOK
  <2>3. QED
    BY <1>1, <2>1, <2>2, TypeMove DEF Recover, TypeOK, requestVars
<1>2. CASE RetrieveForRecovery(r)
  <2>1. After(pc[r]) \in RecoverySteps
    BY <1>2, AfterType DEF RetrieveForRecovery, ReadSteps
  <2>2. open' \in Int
    BY <1>2 DEF RetrieveForRecovery, NextRead, TypeOK
  <2>3. QED
    BY <1>2, <2>1, <2>2, TypeMove
       DEF RetrieveForRecovery, NextRead, TypeOK, requestVars, historyVars
<1>3. CASE RecoveryFails(r)
  <2>1. "failed" \in RecoverySteps
    BY DEF RecoverySteps
  <2>2. open' \in Int
    BY <1>3 DEF RecoveryFails, TypeOK
  <2>3. QED
    BY <1>3, <2>1, <2>2, TypeMove DEF RecoveryFails, TypeOK, requestVars, historyVars
<1>4. CASE ListForRecovery(r)
  <2>1. After(pc[r]) \in RecoverySteps
    BY <1>4, AfterType DEF ListForRecovery, ReadSteps
  <2>2. open' \in Int
    BY <1>4 DEF ListForRecovery, NextRead, TypeOK
  <2>3. Own(Items(records, Listing(pc[r]))) \subseteq Keys
    BY ListingOfKind DEF Own
  <2>4. found' \in [Recoverers -> SUBSET Keys]
    BY <1>4, <2>3 DEF ListForRecovery, TypeOK
  <2>5. overflow' \subseteq Recoverers
    BY <1>4 DEF ListForRecovery, TypeOK
  <2>6. QED
    BY <1>4, <2>1, <2>2, <2>4, <2>5, TypeMove
       DEF ListForRecovery, NextRead, TypeOK, requestVars
<1>5. QED
  BY <1>1, <1>2, <1>3, <1>4 DEF RecoveryStep

LEMMA TypeStep == TypeOK /\ [Next]_vars => TypeOK'
<1> SUFFICES ASSUME TypeOK, [Next]_vars PROVE TypeOK'
  OBVIOUS
<1>1. ASSUME NEW w \in Writers, WriterStep(w) PROVE TypeOK'
  BY <1>1, TypeCreateOrDelete, TypeUpdate, TypeReadForUpdate, TypeBeginUpdate,
     TypeWrite, TypeWriteRejected DEF WriterStep
<1>2. CASE UNCHANGED vars
  BY <1>2 DEF TypeOK, vars, storeVars, requestVars, historyVars
<1>3. QED
  BY <1>1, <1>2, TypeRecoveryStep DEF Next

(* Every variable keeps its type.                                          *)
THEOREM TypeCorrect == Spec => []TypeOK
BY TypeInit, TypeStep, PTL DEF Spec

-----------------------------------------------------------------------------
(* What a step may do to the records: a write installs a copy, everything  *)
(* else leaves them alone.                                                 *)

LEMMA OnlyWritesChange ==
  ASSUME [Next]_vars
  PROVE  \/ \E w \in Writers : Write(w)
         \/ records' = records /\ acked' = acked
BY DEF Next, WriterStep, RecoveryStep, CreateOrDelete, Update, ReadForUpdate,
       BeginUpdate, WriteRejected, Recover, RetrieveForRecovery, RecoveryFails,
       ListForRecovery, vars, storeVars, historyVars

(* The step each process is at, and the call it makes.                     *)
Asked ==
  \A w \in Writers :
    /\ pc[w] # "idle" => op[w] \in Operations
    /\ pc[w] \in {"reading", "read"} => op[w] = "update"
    /\ pc[w] # "idle" /\ op[w] = "update" => ~Immutable(key[w])

(* As long as no transactions have overlapped, one at most is in progress, *)
(* on the records as they are.                                             *)
Alone ==
  ~overlapped =>
    /\ records = acked
    /\ \A w \in Writers : pc[w] = "staged" =>
         /\ base[w] = records
         /\ \A v \in Writers \ {w} : pc[v] # "staged"

LEMMA FinishedWriter ==
  ASSUME TypeOK, NEW w \in Writers, Finished(w)
  PROVE  /\ pc'[w] = "idle"
         /\ \A p \in Processes \ {w} : pc'[p] = pc[p]
         /\ \A v \in Writers \ {w} :
              /\ op'[v] = op[v] /\ key'[v] = key[v] /\ expected'[v] = expected[v]
              /\ seen'[v] = seen[v] /\ base'[v] = base[v]
BY DEF Finished, TypeOK, Processes

LEMMA RecovererIsNoWriter ==
  ASSUME TypeOK, NEW r \in Recoverers, RecoveryStep(r)
  PROVE  /\ UNCHANGED <<records, begun, requestVars, seen, base, slipped, overlapped, acked>>
         /\ \A w \in Writers : pc'[w] = pc[w]
         /\ \A q \in Recoverers \ {r} :
              /\ pc'[q] = pc[q] /\ found'[q] = found[q] /\ stable'[q] = stable[q]
              /\ q \in overflow' <=> q \in overflow
<1>1. \A w \in Writers : w # r
  OBVIOUS
<1>2. CASE Recover(r)
  BY <1>1, <1>2 DEF Recover, TypeOK, Processes
<1>3. CASE RetrieveForRecovery(r)
  BY <1>1, <1>3 DEF RetrieveForRecovery, NextRead, TypeOK, Processes, historyVars
<1>4. CASE RecoveryFails(r)
  BY <1>1, <1>4 DEF RecoveryFails, TypeOK, Processes, historyVars
<1>5. CASE ListForRecovery(r)
  BY <1>1, <1>5 DEF ListForRecovery, NextRead, TypeOK, Processes
<1>6. QED
  BY <1>2, <1>3, <1>4, <1>5 DEF RecoveryStep

LEMMA AskedStep == TypeOK /\ Asked /\ [Next]_vars => Asked'
<1> SUFFICES ASSUME TypeOK, Asked, [Next]_vars PROVE Asked'
  OBVIOUS
<1>1. ASSUME NEW w \in Writers, WriterStep(w) PROVE Asked'
  <2>1. ASSUME NEW o \in Operations, NEW k \in Keys, NEW e \in Expectations,
               CreateOrDelete(w, o, k, e)
        PROVE  Asked'
    BY <2>1 DEF CreateOrDelete, Request, BeginTransaction, Asked, TypeOK, Processes, Operations
  <2>2. ASSUME NEW k \in Keys, NEW e \in Expectations, Update(w, k, e)
        PROVE  Asked'
    BY <2>2 DEF Update, Request, Asked, TypeOK, Processes, Operations, Immutable
  <2>3. CASE ReadForUpdate(w) /\ Has(records, key[w])
    BY <2>3 DEF ReadForUpdate, Asked, TypeOK, Processes, Immutable
  <2>4. CASE Finished(w)
    BY <2>4, FinishedWriter DEF Asked, Processes, Immutable
  <2>5. CASE BeginUpdate(w)
    BY <2>5 DEF BeginUpdate, BeginTransaction, requestVars, Asked, TypeOK, Processes, Immutable
  <2>6. QED
    BY <1>1, <2>1, <2>2, <2>3, <2>4, <2>5 DEF WriterStep, ReadForUpdate, Write, WriteRejected
<1>2. ASSUME NEW r \in Recoverers, RecoveryStep(r) PROVE Asked'
  BY <1>2, RecovererIsNoWriter DEF Asked, requestVars, Immutable
<1>3. CASE UNCHANGED vars
  BY <1>3 DEF Asked, vars, requestVars, Immutable
<1>4. QED
  BY <1>1, <1>2, <1>3 DEF Next

LEMMA AloneStep == TypeOK /\ Alone /\ [Next]_vars => Alone'
<1> SUFFICES ASSUME TypeOK, Alone, [Next]_vars, ~overlapped' PROVE Alone'
  BY DEF Alone
<1>1. ASSUME NEW w \in Writers, BeginTransaction(w), records' = records, acked' = acked
      PROVE  Alone'
  <2>1. ~overlapped /\ \A v \in Writers \ {w} : pc[v] # "staged"
    BY <1>1 DEF BeginTransaction
  <2>2. pc'[w] = "staged" /\ base'[w] = records
        /\ \A v \in Writers \ {w} : pc'[v] = pc[v]
    BY <1>1 DEF BeginTransaction, TypeOK, Processes
  <2>3. QED
    BY <1>1, <2>1, <2>2 DEF Alone
<1>2. ASSUME NEW w \in Writers, WriterStep(w) PROVE Alone'
  <2>1. ASSUME NEW o \in Operations, NEW k \in Keys, NEW e \in Expectations,
               CreateOrDelete(w, o, k, e)
        PROVE  Alone'
    BY <1>1, <2>1 DEF CreateOrDelete
  <2>2. ASSUME NEW k \in Keys, NEW e \in Expectations, Update(w, k, e)
        PROVE  Alone'
    BY <2>2 DEF Update, historyVars, Alone, TypeOK, Processes
  <2>3. CASE ReadForUpdate(w) /\ Has(records, key[w])
    BY <2>3 DEF ReadForUpdate, Alone, TypeOK, Processes
  <2>4. CASE (ReadForUpdate(w) \/ WriteRejected(w)) /\ Finished(w)
    <3>1. UNCHANGED <<records, acked, overlapped>>
      BY <2>4 DEF ReadForUpdate, WriteRejected, storeVars, historyVars
    <3>2. QED
      BY <2>4, <3>1, FinishedWriter DEF Alone, Processes
  <2>5. CASE BeginUpdate(w)
    BY <1>1, <2>5 DEF BeginUpdate
  <2>6. CASE Write(w)
    <3>1. Finished(w) /\ pc[w] = "staged" /\ ~overlapped
      BY <2>6 DEF Write
    <3>2. base[w] = records /\ records = acked /\ \A v \in Writers \ {w} : pc[v] # "staged"
      BY <3>1 DEF Alone
    <3>3. records' = acked'
      BY <2>6, <3>2 DEF Write
    <3>4. QED
      BY <3>1, <3>2, <3>3, FinishedWriter DEF Alone, Processes
  <2>7. QED
    BY <1>2, <2>1, <2>2, <2>3, <2>4, <2>5, <2>6 DEF WriterStep, ReadForUpdate, WriteRejected
<1>3. ASSUME NEW r \in Recoverers, RecoveryStep(r) PROVE Alone'
  BY <1>3, RecovererIsNoWriter DEF Alone
<1>4. CASE UNCHANGED vars
  BY <1>4 DEF Alone, vars, storeVars, historyVars
<1>5. QED
  BY <1>2, <1>3, <1>4 DEF Next

LEMMA AskedAndAloneInit == Init => Asked /\ Alone
<1> SUFFICES ASSUME Init PROVE Asked /\ Alone
  OBVIOUS
<1>1. \A w \in Writers : pc[w] = "idle"
  BY DEF Init, Processes
<1>2. records = acked
  BY DEF Init
<1>3. QED
  BY <1>1, <1>2 DEF Asked, Alone

(* Writes whose transactions do not overlap all stay.                      *)
THEOREM SequentialWritesKeptCorrect == Spec => []SequentialWritesKept
<1>1. Init => TypeOK /\ Alone
  BY TypeInit, AskedAndAloneInit
<1>2. TypeOK /\ Alone /\ [Next]_vars => TypeOK' /\ Alone'
  BY TypeStep, AloneStep
<1>3. TypeOK /\ Alone => SequentialWritesKept
  BY DEF Alone, SequentialWritesKept
<1>4. QED
  BY <1>1, <1>2, <1>3, PTL DEF Spec

(* A dispatch or history entry is not rewritten, unless two transactions   *)
(* have been open at once.                                                 *)
LEMMA HistoryStep ==
  ASSUME TypeOK, Asked, Alone, [Next]_vars,
         NEW k \in Keys, Immutable(k), Has(records, k), ~overlapped
  PROVE  records'[k] \in {records[k], Absent}
<1>1. CASE \E w \in Writers : Write(w)
  <2>1. PICK w \in Writers : Write(w)
    BY <1>1
  <2>2. base[w] = records /\ op[w] \in Operations /\ key[w] \in Keys /\ Succeeds(w)
    BY <2>1 DEF Write, Alone, Asked, TypeOK
  <2>3. records' = [records EXCEPT ![key[w]] = Written(records, op[w], key[w], w, serial[w])]
    BY <2>1, <2>2 DEF Write
  <2>4. CASE key[w] # k
    BY <2>2, <2>3, <2>4 DEF TypeOK, RecordMap
  <2>5. CASE key[w] = k
    <3>1. op[w] = "delete"
      BY <2>1, <2>2, <2>5 DEF Write, Asked, Succeeds, Accepts, Operations
    <3>2. QED
      BY <2>2, <2>3, <2>5, <3>1 DEF TypeOK, RecordMap, Written
  <2>6. QED
    BY <2>4, <2>5
<1>2. CASE records' = records
  BY <1>2
<1>3. QED
  BY <1>1, <1>2, OnlyWritesChange

THEOREM HistoryNeverRewrittenCorrect == Spec => HistoryNeverRewritten
<1>1. Init => TypeOK /\ Asked /\ Alone
  BY TypeInit, AskedAndAloneInit
<1>2. TypeOK /\ Asked /\ Alone /\ [Next]_vars => TypeOK' /\ Asked' /\ Alone'
  BY TypeStep, AskedStep, AloneStep
<1>3. TypeOK /\ Asked /\ Alone /\ [Next]_vars =>
        [\A k \in Keys : Immutable(k) /\ Has(records, k) /\ ~overlapped =>
           records'[k] \in {records[k], Absent}]_vars
  BY HistoryStep
<1>4. QED
  BY <1>1, <1>2, <1>3, PTL DEF Spec, HistoryNeverRewritten

-----------------------------------------------------------------------------
(* The repository implements AtomicRepository.  A call is what its writer  *)
(* has asked for, with the version an update has settled on; the records   *)
(* are those of the provider.                                              *)

LEMMA CallOf ==
  ASSUME NEW w \in Writers
  PROVE  Calls[w] = Pending(w) /\ Calls'[w] = Pending(w)'
BY DEF Calls

LEMMA IdleIsIdle ==
  ASSUME TypeOK, NEW w \in Writers
  PROVE  Repository!Idle(w) <=> pc[w] = "idle"
BY DEF Repository!Idle, Calls, Pending, TypeOK

(* The writers that do not move keep their calls.                          *)
LEMMA OthersKept ==
  ASSUME TypeOK, NEW w \in Writers, WriterStep(w), NEW v \in Writers \ {w}
  PROVE  /\ pc'[v] = pc[v] /\ op'[v] = op[v] /\ key'[v] = key[v]
         /\ expected'[v] = expected[v] /\ seen'[v] = seen[v]
<1>1. ASSUME NEW o \in Operations, NEW k \in Keys, NEW e \in Expectations,
             CreateOrDelete(w, o, k, e)
      PROVE  /\ pc'[v] = pc[v] /\ op'[v] = op[v] /\ key'[v] = key[v]
             /\ expected'[v] = expected[v] /\ seen'[v] = seen[v]
  BY <1>1 DEF CreateOrDelete, Request, BeginTransaction, TypeOK, Processes
<1>2. ASSUME NEW k \in Keys, NEW e \in Expectations, Update(w, k, e)
      PROVE  /\ pc'[v] = pc[v] /\ op'[v] = op[v] /\ key'[v] = key[v]
             /\ expected'[v] = expected[v] /\ seen'[v] = seen[v]
  BY <1>2 DEF Update, Request, TypeOK, Processes
<1>3. CASE Finished(w)
  BY <1>3, FinishedWriter DEF Processes
<1>4. CASE ReadForUpdate(w) /\ ~Finished(w)
  BY <1>4 DEF ReadForUpdate, TypeOK, Processes
<1>5. CASE BeginUpdate(w)
  BY <1>5 DEF BeginUpdate, BeginTransaction, requestVars, TypeOK, Processes
<1>6. QED
  BY <1>1, <1>2, <1>3, <1>4, <1>5 DEF WriterStep, Write, WriteRejected

LEMMA OneCallChanges ==
  ASSUME TypeOK, NEW w \in Writers, WriterStep(w)
  PROVE  Calls' = [Calls EXCEPT ![w] = Calls'[w]]
<1>1. ASSUME NEW v \in Writers \ {w} PROVE Pending(v)' = Pending(v)
  BY <1>1, OthersKept DEF Pending, Expected
<1>2. QED
  BY <1>1 DEF Calls

(* Overlapping is remembered, and an answered writer has no call.          *)
LEMMA OverlappedStays ==
  ASSUME NEW w \in Writers, WriterStep(w), overlapped
  PROVE  overlapped'
BY DEF WriterStep, CreateOrDelete, Update, ReadForUpdate, BeginUpdate, BeginTransaction,
       Write, WriteRejected, historyVars

LEMMA FinishedIsIdle ==
  ASSUME TypeOK, NEW w \in Writers, Finished(w)
  PROVE  Repository!Idle(w)'
BY DEF Finished, Repository!Idle, Calls, Pending, TypeOK

(* Making the call.                                                        *)
LEMMA AskStep ==
  ASSUME TypeOK, NEW w \in Writers, NEW o \in Operations, NEW k \in Keys,
         NEW e \in Expectations, Request(w, o, k, e), WriterStep(w), TypeOK',
         o = "update" => ~Immutable(k), records' = records, pc'[w] # "idle"
  PROVE  Repository!Ask(w)
<1>1. Repository!Idle(w) /\ ~Repository!Idle(w)'
  <2>1. pc[w] = "idle"
    BY DEF Request
  <2>2. ~Repository!Idle(w)'
    BY DEF Repository!Idle, Calls, Pending, TypeOK
  <2>3. QED
    BY <2>1, <2>2, IdleIsIdle
<1>2. Calls'[w].op = o /\ Calls'[w].key = k
  BY DEF Calls, Pending, Request, TypeOK
<1>3. QED
  BY <1>1, <1>2, OneCallChanges DEF Repository!Ask

(* The read of an update settles on the version there is, or the update is *)
(* refused because there is no record.                                     *)
LEMMA ReadStep ==
  ASSUME TypeOK, Asked, NEW w \in Writers, ReadForUpdate(w)
  PROVE  [Repository!Settle(w) \/ Repository!Refuse(w)]_<<records, Calls>>
<1>1. pc[w] = "reading" /\ op[w] = "update" /\ key[w] \in Keys /\ records' = records
  BY DEF ReadForUpdate, Asked, TypeOK
<1>2. /\ Calls[w] = [op |-> op[w], key |-> key[w], expected |-> expected[w]]
      /\ Calls[w].op = op[w] /\ Calls[w].key = key[w] /\ Calls[w].expected = expected[w]
  <2>1. Calls[w] = [op |-> op[w], key |-> key[w], expected |-> expected[w]]
    BY <1>1, CallOf DEF Pending
  <2>2. QED
    BY <2>1
<1>3. ~Repository!Idle(w) /\ WriterStep(w)
  BY <1>1, IdleIsIdle DEF WriterStep
<1>4. CASE Has(records, key[w])
  <2>1. /\ pc'[w] = "read" /\ seen'[w] = records[key[w]]
        /\ op' = op /\ key' = key /\ expected' = expected
    BY <1>4 DEF ReadForUpdate, TypeOK, Processes
  <2>2. Calls'[w] = [op |-> op[w], key |-> key[w],
                     expected |-> IF expected[w] = {} THEN {records[key[w]].version}
                                                      ELSE expected[w]]
    BY <1>1, <2>1, CallOf DEF Pending, Expected
  <2>3. CASE expected[w] = {}
    <3>1. Calls' = [Calls EXCEPT ![w] =
                      [op |-> op[w], key |-> key[w],
                       expected |-> {records[key[w]].version}]]
      BY <1>3, <2>2, <2>3, OneCallChanges
    <3>2. Repository!Settle(w)
      BY <1>1, <1>2, <1>3, <1>4, <2>3, <3>1 DEF Repository!Settle, Repository!Has, Has
    <3>3. QED
      BY <3>2
  <2>4. CASE expected[w] # {}
    <3>1. Calls'[w] = Calls[w]
      BY <1>2, <2>2, <2>4
    <3>2. Calls' = Calls
      BY <1>3, <3>1, OneCallChanges DEF Calls
    <3>3. QED
      BY <1>1, <3>2
  <2>5. QED
    BY <2>3, <2>4
<1>5. CASE ~Has(records, key[w])
  <2>1. Finished(w)
    BY <1>5 DEF ReadForUpdate
  <2>2. ~Repository!Acceptable(Calls[w])
    BY <1>1, <1>2, <1>5 DEF Repository!Acceptable, Repository!Has, Has
  <2>3. Repository!Answered(w)
    BY <1>3, <2>1, OneCallChanges, FinishedIsIdle DEF Repository!Answered
  <2>4. QED
    BY <1>1, <1>3, <2>2, <2>3 DEF Repository!Refuse
<1>6. QED
  BY <1>4, <1>5

(* The write and its commit, on records nobody has changed since the       *)
(* transaction began: applied when they are acceptable, refused when not.  *)
LEMMA StagedCall ==
  ASSUME NEW w \in Writers, pc[w] = "staged"
  PROVE  /\ Calls[w].op = op[w] /\ Calls[w].key = key[w]
         /\ Calls[w].expected = Expected(w)
<1>1. Calls[w] = [op |-> op[w], key |-> key[w], expected |-> Expected(w)]
  BY CallOf DEF Pending
<1>2. QED
  BY <1>1

LEMMA AcceptedIsAcceptable ==
  ASSUME NEW w \in Writers, pc[w] = "staged"
  PROVE  Accepts(records, op[w], key[w], Expected(w)) <=> Repository!Acceptable(Calls[w])
<1>1. /\ Calls[w].op = op[w] /\ Calls[w].key = key[w]
      /\ Calls[w].expected = Expected(w)
  BY StagedCall
<1>2. QED
  BY <1>1 DEF Accepts, Expects, Has, Repository!Acceptable, Repository!Expects,
              Repository!Has

LEMMA ApplyStep ==
  ASSUME TypeOK, Asked, Alone, ~overlapped, NEW w \in Writers, Write(w)
  PROVE  Repository!Apply(w)
<1>1. /\ pc[w] = "staged" /\ base[w] = records /\ Succeeds(w) /\ Finished(w)
      /\ op[w] \in Operations /\ key[w] \in Keys /\ WriterStep(w)
  BY DEF Write, Alone, Asked, TypeOK, WriterStep
<1>2. ~Repository!Idle(w) /\ Repository!Acceptable(Calls[w])
  BY <1>1, IdleIsIdle, AcceptedIsAcceptable DEF Succeeds
<1>3. Calls[w].op = op[w] /\ Calls[w].key = key[w] /\ Calls[w].expected = Expected(w)
  BY <1>1, StagedCall
<1>4. op[w] = "update" => Calls[w].expected # {}
  BY <1>3 DEF Expected
<1>5. PICK new : new = Written(records, op[w], key[w], w, serial[w])
  OBVIOUS
<1>6. records' = [records EXCEPT ![key[w]] = new] /\ records'[key[w]] = new
  BY <1>1, <1>5 DEF Write, TypeOK, RecordMap
<1>7. IF op[w] = "delete" THEN new = Absent
      ELSE new.version = records[key[w]].version + 1 /\ new.writer = w
  BY <1>5 DEF Written
<1>8. Repository!Answered(w)
  BY <1>1, OneCallChanges, FinishedIsIdle DEF Repository!Answered
<1>9. QED
  BY <1>2, <1>3, <1>4, <1>6, <1>7, <1>8 DEF Repository!Apply

LEMMA RefuseStep ==
  ASSUME TypeOK, Asked, Alone, ~overlapped, NEW w \in Writers, WriteRejected(w)
  PROVE  Repository!Refuse(w)
<1>1. /\ pc[w] = "staged" /\ base[w] = records /\ ~Succeeds(w) /\ Finished(w)
      /\ records' = records /\ WriterStep(w)
  BY DEF WriteRejected, Alone, storeVars, WriterStep
<1>2. ~Repository!Idle(w) /\ ~Repository!Acceptable(Calls[w])
  BY <1>1, IdleIsIdle, AcceptedIsAcceptable DEF Succeeds
<1>3. Repository!Answered(w)
  BY <1>1, OneCallChanges, FinishedIsIdle DEF Repository!Answered
<1>4. QED
  BY <1>1, <1>2, <1>3 DEF Repository!Refuse

LEMMA RepositoryWriterStep ==
  ASSUME TypeOK, TypeOK', Asked, Alone, NEW w \in Writers, WriterStep(w)
  PROVE  [Repository!Next]_(Repository!vars)
<1>1. CASE overlapped'
  BY <1>1 DEF Repository!Next, TypeOK
<1>2. CASE ~overlapped'
  <2>1. overlapped = FALSE /\ overlapped' = FALSE
    BY <1>2, OverlappedStays DEF TypeOK
  <2>2. ASSUME NEW o \in Operations, NEW k \in Keys, NEW e \in Expectations,
               CreateOrDelete(w, o, k, e)
        PROVE  Repository!Ask(w)
    <3>1. Request(w, o, k, e) /\ records' = records /\ o # "update" /\ pc'[w] = "staged"
      BY <2>2 DEF CreateOrDelete, BeginTransaction, TypeOK, Processes
    <3>2. QED
      BY <3>1, AskStep
  <2>3. ASSUME NEW k \in Keys, NEW e \in Expectations, Update(w, k, e)
        PROVE  Repository!Ask(w)
    <3>1. /\ Request(w, "update", k, e) /\ records' = records /\ ~Immutable(k)
          /\ pc'[w] = "reading" /\ "update" \in Operations
      BY <2>3 DEF Update, TypeOK, Processes, Operations
    <3>2. QED
      BY <3>1, AskStep
  <2>4. CASE ReadForUpdate(w)
    BY <2>1, <2>4, ReadStep DEF Repository!Next, Repository!vars
  <2>5. CASE BeginUpdate(w)
    <3>1. records' = records /\ requestVars' = requestVars /\ seen' = seen
          /\ pc[w] = "read" /\ pc'[w] = "staged"
      BY <2>5 DEF BeginUpdate, BeginTransaction, TypeOK, Processes
    <3>2. Calls'[w] = Calls[w]
      BY <3>1, CallOf DEF Pending, Expected, requestVars
    <3>3. Calls' = Calls
      BY <3>2, OneCallChanges DEF Calls
    <3>4. QED
      BY <2>1, <3>1, <3>3 DEF Repository!vars
  <2>6. CASE Write(w)
    BY <2>1, <2>6, ApplyStep DEF Repository!Next
  <2>7. CASE WriteRejected(w)
    BY <2>1, <2>7, RefuseStep DEF Repository!Next
  <2>8. QED
    BY <2>1, <2>2, <2>3, <2>4, <2>5, <2>6, <2>7 DEF WriterStep, Repository!Next
<1>3. QED
  BY <1>1, <1>2

LEMMA RepositoryStep ==
  ASSUME TypeOK, TypeOK', Asked, Alone, [Next]_vars
  PROVE  [Repository!Next]_(Repository!vars)
<1>1. ASSUME NEW r \in Recoverers, RecoveryStep(r)
      PROVE  UNCHANGED <<records, Calls, overlapped>>
  BY <1>1, RecovererIsNoWriter DEF requestVars, Calls, Pending, Expected
<1>2. CASE UNCHANGED vars
  BY <1>2 DEF vars, storeVars, requestVars, historyVars, Calls, Pending, Expected,
              Repository!vars
<1>3. QED
  BY <1>1, <1>2, RepositoryWriterStep DEF Next, Repository!vars

(* While transactions do not overlap, the calls of a repository are atomic *)
(* and refused only for a reason, although an update reads in one session  *)
(* and writes in another.                                                  *)
THEOREM ImplementsRepositoryCorrect == Spec => ImplementsRepository
<1> DEFINE Inv == TypeOK /\ Asked /\ Alone
<1>1. Init => Inv
  BY TypeInit, AskedAndAloneInit
<1>2. Inv /\ [Next]_vars => Inv'
  BY TypeStep, AskedStep, AloneStep
<1>3. Init => Repository!Init
  <2>1. Init => TypeOK /\ overlapped = FALSE /\ \A w \in Writers : pc[w] = "idle"
    BY TypeInit DEF Init, Processes
  <2>2. QED
    BY <2>1, IdleIsIdle DEF Repository!Init
<1>4. Inv /\ Inv' /\ [Next]_vars => [Repository!Next]_(Repository!vars)
  BY RepositoryStep
<1>5. QED
  BY <1>1, <1>2, <1>3, <1>4, PTL DEF Spec, ImplementsRepository, Repository!Spec

-----------------------------------------------------------------------------
(* Updates.                                                                *)

(* While an update is not set back, the record it has read is there, or a  *)
(* newer one.                                                              *)
Current(w) ==
  /\ seen[w].version <= records[key[w]].version
  /\ seen[w].version = records[key[w]].version => records[key[w]] = seen[w]

Reading ==
  \A w \in Writers \ slipped :
    pc[w] \in {"read", "staged"} /\ op[w] = "update" => Current(w)

LEMMA ReadingWrite ==
  ASSUME TypeOK, Reading, NEW w \in Writers, Write(w)
  PROVE  Reading'
<1>1. Finished(w)
  BY DEF Write
<1>2. SUFFICES ASSUME NEW v \in Writers, v \notin slipped', v # w,
                      pc[v] \in {"read", "staged"}, op[v] = "update"
               PROVE  Current(v)'
  BY <1>1, FinishedWriter DEF Reading, Processes
<1>3. Current(v) /\ ~SetBack(v)
  BY <1>2 DEF Write, Reading
<1>4. /\ key[v] \in Keys /\ records \in RecordMap /\ records' \in RecordMap
      /\ seen[v] \in Record
  BY <1>2, TypeWrite DEF TypeOK, WriterSteps
<1>5. key'[v] = key[v] /\ seen'[v] = seen[v]
  BY <1>1, <1>2, FinishedWriter
<1>6. \/ records'[key[v]] = records[key[v]]
      \/ records'[key[v]].version > records[key[v]].version
  BY <1>2, <1>3, <1>4 DEF SetBack, RecordMap, Record
<1>7. QED
  BY <1>3, <1>4, <1>5, <1>6 DEF Current, RecordMap, Record

LEMMA ReadingStep == TypeOK /\ Asked /\ Reading /\ [Next]_vars => Reading'
<1> SUFFICES ASSUME TypeOK, Asked, Reading, [Next]_vars PROVE Reading'
  OBVIOUS
<1>1. ASSUME NEW w \in Writers, WriterStep(w) PROVE Reading'
  <2>1. ASSUME NEW o \in Operations, NEW k \in Keys, NEW e \in Expectations,
               CreateOrDelete(w, o, k, e)
        PROVE  Reading'
    BY <2>1 DEF CreateOrDelete, Request, BeginTransaction, Reading, Current, TypeOK, Processes
  <2>2. ASSUME NEW k \in Keys, NEW e \in Expectations, Update(w, k, e)
        PROVE  Reading'
    BY <2>2 DEF Update, Request, historyVars, Reading, Current, TypeOK, Processes
  <2>3. CASE ReadForUpdate(w) /\ Has(records, key[w])
    <3>1. seen'[w] = records[key[w]] /\ records' = records
      BY <2>3 DEF ReadForUpdate, TypeOK
    <3>2. key[w] \in Keys /\ records[key[w]].version \in Nat
      BY <2>3 DEF ReadForUpdate, TypeOK, RecordMap, Record
    <3>3. Current(w)'
      BY <2>3, <3>1, <3>2 DEF ReadForUpdate, Current
    <3>4. ASSUME NEW v \in Writers \ {w} PROVE
            pc'[v] = pc[v] /\ seen'[v] = seen[v] /\ (v \in slipped' <=> v \in slipped)
      BY <2>3 DEF ReadForUpdate, TypeOK, Processes
    <3>5. QED
      BY <2>3, <3>1, <3>3, <3>4 DEF ReadForUpdate, Reading, Current
  <2>4. CASE (ReadForUpdate(w) \/ WriteRejected(w)) /\ Finished(w)
    <3>1. records' = records /\ \A v \in Writers \ {w} : v \in slipped' <=> v \in slipped
      BY <2>4 DEF ReadForUpdate, WriteRejected, storeVars, historyVars
    <3>2. QED
      BY <2>4, <3>1, FinishedWriter DEF Reading, Current, Processes
  <2>5. CASE BeginUpdate(w)
    BY <2>5 DEF BeginUpdate, BeginTransaction, requestVars, Reading, Current, Asked, TypeOK, Processes
  <2>6. QED
    BY <1>1, <2>1, <2>2, <2>3, <2>4, <2>5, ReadingWrite DEF WriterStep, ReadForUpdate, WriteRejected
<1>2. ASSUME NEW r \in Recoverers, RecoveryStep(r) PROVE Reading'
  BY <1>2, RecovererIsNoWriter DEF Reading, Current, requestVars
<1>3. CASE UNCHANGED vars
  BY <1>3 DEF Reading, Current, vars, storeVars, requestVars, historyVars
<1>4. QED
  BY <1>1, <1>2, <1>3 DEF Next

LEMMA UpdateStep ==
  ASSUME TypeOK, Reading, NEW w \in Writers \ slipped, Updates(w), expected[w] = {}
  PROVE  records[key[w]] = seen[w]
<1>1. Expected(w) = {seen[w].version} /\ Succeeds(w) /\ Current(w)
  BY DEF Updates, Write, Expected, Reading
<1>2. base[w][key[w]].version = seen[w].version
  BY <1>1 DEF Updates, Succeeds, Accepts, Expects
<1>3. QED
  BY <1>1, <1>2 DEF Succeeds, Current

(* An update without an expected version replaces what it has read, unless *)
(* the record was set back in between.                                     *)
THEOREM UpdateReplacesWhatItReadCorrect == Spec => UpdateReplacesWhatItRead
<1>1. Init => TypeOK /\ Asked /\ Reading
  <2>1. Init => Reading
    BY DEF Init, Reading, Processes
  <2>2. QED
    BY <2>1, TypeInit, AskedAndAloneInit
<1>2. TypeOK /\ Asked /\ Reading /\ [Next]_vars => TypeOK' /\ Asked' /\ Reading'
  BY TypeStep, AskedStep, ReadingStep
<1>3. TypeOK /\ Asked /\ Reading /\ [Next]_vars =>
        [\A w \in Writers \ slipped : Updates(w) /\ expected[w] = {} =>
           records[key[w]] = seen[w]]_vars
  BY UpdateStep
<1>4. QED
  BY <1>1, <1>2, <1>3, PTL DEF Spec, UpdateReplacesWhatItRead

-----------------------------------------------------------------------------
(* Recovery.                                                               *)

(* What was there all along is still there while a recovery reads, and its *)
(* dispatches and its history are found once they have been listed.        *)
Found(r, kind) ==
  r \notin overflow => {k \in stable[r] \ Foreign : Kind[k] = kind} \subseteq found[r]

Recovering(r) ==
  /\ pc[r] \in ReadSteps => \A k \in stable[r] : Has(records, k)
  /\ pc[r] \in {"history", "done"} => Found(r, "dispatch")
  /\ pc[r] = "done" => Found(r, "history")
  /\ pc[r] = "failed" => \E k \in Keys \ stable[r] : ~Immutable(k)
  /\ found[r] \cap Foreign = {}

RecoveryInv == \A r \in Recoverers : Recovering(r)

LEMMA RecoveringWrite ==
  ASSUME TypeOK, RecoveryInv, NEW w \in Writers, Write(w)
  PROVE  RecoveryInv'
<1> SUFFICES ASSUME NEW r \in Recoverers PROVE Recovering(r)'
  BY DEF RecoveryInv
<1>1. Recovering(r) /\ pc'[r] = pc[r] /\ found'[r] = found[r] /\ overflow' = overflow
  BY FinishedWriter DEF Write, RecoveryInv, Processes
<1>2. stable'[r] = IF pc[r] \in ReadSteps THEN {k \in stable[r] : Has(records', k)}
                                         ELSE stable[r]
  BY DEF Write, TypeOK
<1>3. stable[r] \subseteq Keys /\ stable'[r] \subseteq stable[r]
  BY <1>2 DEF TypeOK
<1>4. pc'[r] \in ReadSteps => \A k \in stable'[r] : Has(records', k)
  BY <1>1, <1>2
<1>5. pc[r] = "failed" => stable'[r] = stable[r]
  BY <1>2 DEF ReadSteps
<1>6. QED
  BY <1>1, <1>3, <1>4, <1>5 DEF Recovering, Found, Has, Immutable

LEMMA RecoveringList ==
  ASSUME TypeOK, NEW r \in Recoverers, Recovering(r), ListForRecovery(r)
  PROVE  Recovering(r)'
<1>0. PICK kind \in {"dispatch", "history"} : pc[r] = kind
  BY DEF ListForRecovery
<1> DEFINE items == Items(records, Listing(kind))
<1>1. found'[r] = found[r] \cup Own(items) /\ stable'[r] = stable[r] /\ records' = records
  BY <1>0 DEF ListForRecovery, TypeOK
<1>2. /\ kind \in {"dispatch", "history"} /\ kind \in ReadSteps
      /\ pc'[r] = IF kind = "dispatch" THEN "history" ELSE "done"
  BY <1>0 DEF ListForRecovery, NextRead, After, TypeOK, Processes, ReadSteps
<1>3. r \notin overflow' => r \notin overflow /\ ~HasMore(records, Listing(kind))
  BY <1>0 DEF ListForRecovery
<1>4. ASSUME r \notin overflow', NEW k \in stable[r] \ Foreign, Kind[k] = kind
      PROVE  k \in found'[r]
  <2>1. k \in Keys /\ Has(records, k)
    BY <1>0, <1>2 DEF Recovering, TypeOK
  <2>2. k \in items
    BY <1>3, <1>4, <2>1, LastPageHoldsAll DEF TypeOK
  <2>3. QED
    BY <1>1, <1>4, <2>2 DEF Own
<1>5. found'[r] \cap Foreign = {}
  BY <1>1 DEF Own, Recovering
<1>6. Found(r, kind)'
  BY <1>1, <1>4 DEF Found
<1>7. kind = "history" => Found(r, "dispatch")'
  BY <1>0, <1>1, <1>3 DEF Found, Recovering
<1>8. QED
  BY <1>0, <1>1, <1>2, <1>5, <1>6, <1>7 DEF Recovering, Has

LEMMA RecoveringStep ==
  ASSUME TypeOK, RecoveryInv, NEW r \in Recoverers, RecoveryStep(r)
  PROVE  RecoveryInv'
<1>1. /\ UNCHANGED records
      /\ \A q \in Recoverers \ {r} :
           /\ pc'[q] = pc[q] /\ found'[q] = found[q] /\ stable'[q] = stable[q]
           /\ q \in overflow' <=> q \in overflow
  BY RecovererIsNoWriter
<1>2. \A q \in Recoverers \ {r} : Recovering(q)'
  BY <1>1 DEF RecoveryInv, Recovering, Found, Has, Immutable
<1>3. Recovering(r)
  BY DEF RecoveryInv
<1>4. CASE Recover(r)
  <2>1. pc'[r] = "execution" /\ stable'[r] = {k \in Keys : Has(records, k)} /\ found' = found
    BY <1>4 DEF Recover, TypeOK, Processes
  <2>2. QED
    BY <1>1, <1>2, <1>3, <2>1 DEF RecoveryInv, Recovering, ReadSteps, Has
<1>5. CASE RetrieveForRecovery(r)
  <2>1. /\ pc[r] \in ReadSteps /\ pc'[r] \in {"instance", "definition", "dispatch"}
        /\ stable' = stable /\ found' = found
    BY <1>5 DEF RetrieveForRecovery, NextRead, After, TypeOK, Processes, ReadSteps, historyVars
  <2>2. QED
    BY <1>1, <1>2, <1>3, <2>1 DEF RecoveryInv, Recovering, ReadSteps, Has
<1>6. CASE RecoveryFails(r)
  <2>1. pc'[r] = "failed" /\ stable' = stable /\ found' = found /\ pc[r] \in ReadSteps
    BY <1>6 DEF RecoveryFails, TypeOK, Processes, ReadSteps, historyVars
  <2>2. PICK k \in Keys : Kind[k] = pc[r]
    BY <1>6, OneOfEachAssumption DEF RecoveryFails
  <2>3. ~Has(records, k) /\ ~Immutable(k)
    BY <1>6, <2>2 DEF RecoveryFails, Immutable
  <2>4. k \notin stable[r]
    BY <1>3, <2>1, <2>3 DEF Recovering
  <2>5. \E j \in Keys \ stable'[r] : ~Immutable(j)
    BY <2>1, <2>3, <2>4
  <2>6. QED
    BY <1>2, <1>3, <2>1, <2>5 DEF RecoveryInv, Recovering, ReadSteps, Immutable
<1>7. CASE ListForRecovery(r)
  BY <1>2, <1>3, <1>7, RecoveringList DEF RecoveryInv
<1>8. QED
  BY <1>4, <1>5, <1>6, <1>7 DEF RecoveryStep

LEMMA WriterIsNoRecoverer ==
  ASSUME TypeOK, NEW w \in Writers, WriterStep(w), ~Write(w)
  PROVE  /\ UNCHANGED <<records, found, stable, overflow>>
         /\ \A r \in Recoverers : pc'[r] = pc[r]
BY FinishedWriter DEF WriterStep, CreateOrDelete, Update, Request, BeginTransaction,
   ReadForUpdate, BeginUpdate, WriteRejected, TypeOK, Processes, storeVars, historyVars

LEMMA RecoveryInvStep == TypeOK /\ RecoveryInv /\ [Next]_vars => RecoveryInv'
<1> SUFFICES ASSUME TypeOK, RecoveryInv, [Next]_vars PROVE RecoveryInv'
  OBVIOUS
<1>1. ASSUME NEW w \in Writers, WriterStep(w), ~Write(w) PROVE RecoveryInv'
  BY <1>1, WriterIsNoRecoverer DEF RecoveryInv, Recovering, Found, Has, Immutable
<1>2. CASE UNCHANGED vars
  BY <1>2 DEF vars, storeVars, historyVars, RecoveryInv, Recovering, Found, Has, Immutable
<1>3. QED
  BY <1>1, <1>2, RecoveringWrite, RecoveringStep DEF Next

LEMMA RecoveryInvInit == Init => RecoveryInv
<1> SUFFICES ASSUME Init, NEW r \in Recoverers PROVE Recovering(r)
  BY DEF RecoveryInv
<1>1. pc[r] = "idle" /\ found[r] = {}
  BY DEF Init, Processes
<1>2. QED
  BY <1>1 DEF Recovering, ReadSteps

(* A recovery finds the dispatches and the history that were there from    *)
(* its start to its end, and fails for a reason.                           *)
THEOREM RecoveryFindsWhatWasThereCorrect == Spec => []RecoveryFindsWhatWasThere
<1>1. Init => TypeOK /\ RecoveryInv
  BY TypeInit, RecoveryInvInit
<1>2. TypeOK /\ RecoveryInv /\ [Next]_vars => TypeOK' /\ RecoveryInv'
  BY TypeStep, RecoveryInvStep
<1>3. TypeOK /\ RecoveryInv => RecoveryFindsWhatWasThere
  BY DEF TypeOK, RecoveryInv, Recovering, Found, Immutable, RecoveryFindsWhatWasThere
<1>4. QED
  BY <1>1, <1>2, <1>3, PTL DEF Spec

-----------------------------------------------------------------------------
(* Sessions.                                                               *)

Readers    == {w \in Writers : pc[w] = "reading"}
Recoveries == {r \in Recoverers : pc[r] \in ReadSteps}

(* What one element more or less does to the size of a set.                *)
LEMMA FiniteCount ==
  ASSUME NEW All, IsFiniteSet(All), NEW S \in SUBSET All, NEW x \in All
  PROVE  /\ Cardinality(S) \in Nat
         /\ x \notin S => Cardinality(S \cup {x}) = Cardinality(S) + 1
         /\ x \in S    => Cardinality(S \ {x}) = Cardinality(S) - 1
<1>1. IsFiniteSet(S)
  BY FS_Subset
<1>2. QED
  BY <1>1, FS_CardinalityType, FS_AddElement, FS_RemoveElement

LEMMA WriterCount ==
  ASSUME NEW w \in Writers
  PROVE  /\ Cardinality(Readers) \in Nat
         /\ w \notin Readers => Cardinality(Readers \cup {w}) = Cardinality(Readers) + 1
         /\ w \in Readers    => Cardinality(Readers \ {w}) = Cardinality(Readers) - 1
BY FiniteCount, FiniteAssumption DEF Readers

LEMMA RecoveryCount ==
  ASSUME NEW r \in Recoverers
  PROVE  /\ Cardinality(Recoveries) \in Nat
         /\ r \notin Recoveries => Cardinality(Recoveries \cup {r}) = Cardinality(Recoveries) + 1
         /\ r \in Recoveries    => Cardinality(Recoveries \ {r}) = Cardinality(Recoveries) - 1
BY FiniteCount, FiniteAssumption DEF Recoveries

LEMMA CountsAreNumbers ==
  Cardinality(Readers) \in Nat /\ Cardinality(Recoveries) \in Nat
<1>1. Readers \in SUBSET Writers /\ Recoveries \in SUBSET Recoverers
  BY DEF Readers, Recoveries
<1>2. IsFiniteSet(Readers) /\ IsFiniteSet(Recoveries)
  BY <1>1, FS_Subset, FiniteAssumption
<1>3. QED
  BY <1>2, FS_CardinalityType

LEMMA SessionsOfWriter ==
  ASSUME TypeOK, OnlyWritesLeaveSessions, NEW w \in Writers, WriterStep(w)
  PROVE  OnlyWritesLeaveSessions'
<1>1. open = begun + Cardinality(Readers) + Cardinality(Recoveries)
      /\ open \in Int /\ begun \in Nat
  BY DEF OnlyWritesLeaveSessions, Readers, Recoveries, TypeOK
<1>2. Recoveries' = Recoveries
  <2>1. \A r \in Recoverers : pc'[r] = pc[r]
    BY WriterIsNoRecoverer, FinishedWriter DEF Write, Processes
  <2>2. QED
    BY <2>1 DEF Recoveries
<1>3. SUFFICES open' = begun' + Cardinality(Readers') + Cardinality(Recoveries)
  BY <1>2 DEF OnlyWritesLeaveSessions, Readers, Recoveries
<1>4. ASSUME NEW o \in Operations, NEW k \in Keys, NEW e \in Expectations,
             CreateOrDelete(w, o, k, e)
      PROVE  open' = begun' + Cardinality(Readers') + Cardinality(Recoveries)
  <2>1. Readers' = Readers /\ open' = open + 1 /\ begun' = begun + 1
    BY <1>4 DEF CreateOrDelete, Request, BeginTransaction, Readers, TypeOK, Processes
  <2>2. QED
    BY <1>1, <2>1, CountsAreNumbers
<1>5. ASSUME NEW k \in Keys, NEW e \in Expectations, Update(w, k, e)
      PROVE  open' = begun' + Cardinality(Readers') + Cardinality(Recoveries)
  <2>1. Readers' = Readers \cup {w} /\ w \notin Readers /\ open' = open + 1 /\ begun' = begun
    BY <1>5 DEF Update, Request, Readers, TypeOK, Processes
  <2>2. QED
    BY <1>1, <2>1, CountsAreNumbers, WriterCount
<1>6. CASE ReadForUpdate(w)
  <2>1. \A v \in Writers \ {w} : pc'[v] = pc[v]
    BY <1>6, FinishedWriter DEF ReadForUpdate, TypeOK, Processes
  <2>2. pc[w] = "reading" /\ pc'[w] # "reading"
    BY <1>6, FinishedWriter DEF ReadForUpdate, TypeOK, Processes
  <2>3. Readers' = Readers \ {w} /\ w \in Readers
    BY <2>1, <2>2 DEF Readers
  <2>4. open' = open - 1 /\ begun' = begun
    BY <1>6 DEF ReadForUpdate
  <2>5. QED
    BY <1>1, <2>3, <2>4, CountsAreNumbers, WriterCount
<1>7. CASE BeginUpdate(w)
  <2>1. Readers' = Readers /\ open' = open + 1 /\ begun' = begun + 1
    BY <1>7 DEF BeginUpdate, BeginTransaction, Readers, TypeOK, Processes
  <2>2. QED
    BY <1>1, <2>1, CountsAreNumbers
<1>8. CASE Write(w) \/ WriteRejected(w)
  <2>1. Finished(w) /\ pc[w] = "staged" /\ open' = open /\ begun' = begun
    BY <1>8 DEF Write, WriteRejected, storeVars
  <2>2. Readers' = Readers
    BY <2>1, FinishedWriter DEF Readers, Processes
  <2>3. QED
    BY <1>1, <2>1, <2>2
<1>9. QED
  BY <1>4, <1>5, <1>6, <1>7, <1>8 DEF WriterStep

LEMMA SessionsOfRecoverer ==
  ASSUME TypeOK, OnlyWritesLeaveSessions, NEW r \in Recoverers, RecoveryStep(r)
  PROVE  OnlyWritesLeaveSessions'
<1>1. open = begun + Cardinality(Readers) + Cardinality(Recoveries)
      /\ open \in Int /\ begun \in Nat
  BY DEF OnlyWritesLeaveSessions, Readers, Recoveries, TypeOK
<1>2. Readers' = Readers /\ begun' = begun /\ \A q \in Recoverers \ {r} : pc'[q] = pc[q]
  BY RecovererIsNoWriter DEF Readers
<1>3. SUFFICES open' = begun + Cardinality(Readers) + Cardinality(Recoveries')
  BY <1>2 DEF OnlyWritesLeaveSessions, Readers, Recoveries
<1>4. CASE Recover(r)
  <2>1. pc[r] \notin ReadSteps /\ pc'[r] \in ReadSteps /\ open' = open + 1
    BY <1>4 DEF Recover, TypeOK, Processes, ReadSteps
  <2>2. Recoveries' = Recoveries \cup {r} /\ r \notin Recoveries
    BY <1>2, <2>1 DEF Recoveries
  <2>3. QED
    BY <1>1, <2>1, <2>2, CountsAreNumbers, RecoveryCount
<1>5. CASE NextRead(r) /\ pc[r] \in ReadSteps
  <2>1. pc'[r] = After(pc[r])
    BY <1>5 DEF NextRead, TypeOK, Processes
  <2>2. CASE After(pc[r]) = "done"
    <3>1. Recoveries' = Recoveries \ {r} /\ r \in Recoveries /\ open' = open - 1
      BY <1>2, <1>5, <2>1, <2>2 DEF Recoveries, ReadSteps, NextRead
    <3>2. QED
      BY <1>1, <3>1, CountsAreNumbers, RecoveryCount
  <2>3. CASE After(pc[r]) # "done"
    <3>1. After(pc[r]) \in ReadSteps
      BY <1>5, <2>3 DEF After, ReadSteps
    <3>2. Recoveries' = Recoveries /\ open' = open
      BY <1>2, <1>5, <2>1, <2>3, <3>1 DEF Recoveries, NextRead
    <3>3. QED
      BY <1>1, <3>2
  <2>4. QED
    BY <2>2, <2>3
<1>6. CASE RecoveryFails(r)
  <2>1. pc[r] \in ReadSteps /\ pc'[r] \notin ReadSteps /\ open' = open - 1
    BY <1>6 DEF RecoveryFails, TypeOK, Processes, ReadSteps
  <2>2. Recoveries' = Recoveries \ {r} /\ r \in Recoveries
    BY <1>2, <2>1 DEF Recoveries
  <2>3. QED
    BY <1>1, <2>1, <2>2, CountsAreNumbers, RecoveryCount
<1>7. QED
  BY <1>4, <1>5, <1>6 DEF RecoveryStep, RetrieveForRecovery, ListForRecovery, ReadSteps

(* The sessions that stay open are those of the transactions writes have   *)
(* begun.                                                                  *)
THEOREM OnlyWritesLeaveSessionsCorrect == Spec => []OnlyWritesLeaveSessions
<1>1. Init => OnlyWritesLeaveSessions
  <2> SUFFICES ASSUME Init PROVE OnlyWritesLeaveSessions
    OBVIOUS
  <2>1. open = 0 /\ begun = 0 /\ \A p \in Processes : pc[p] = "idle"
    BY DEF Init
  <2>2. Readers = {} /\ Recoveries = {}
    BY <2>1 DEF Readers, Recoveries, Processes, ReadSteps
  <2>3. Cardinality(Readers) = 0 /\ Cardinality(Recoveries) = 0
    BY <2>2, FS_EmptySet
  <2>4. open = begun + Cardinality(Readers) + Cardinality(Recoveries)
    BY <2>1, <2>3
  <2>5. QED
    BY <2>4 DEF OnlyWritesLeaveSessions, Readers, Recoveries
<1>2. TypeOK /\ OnlyWritesLeaveSessions /\ [Next]_vars => OnlyWritesLeaveSessions'
  <2>1. CASE UNCHANGED vars
    BY <2>1 DEF vars, storeVars, OnlyWritesLeaveSessions
  <2>2. QED
    BY <2>1, SessionsOfWriter, SessionsOfRecoverer DEF Next
<1>3. QED
  BY <1>1, <1>2, TypeInit, TypeStep, PTL DEF Spec
=============================================================================
