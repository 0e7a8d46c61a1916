------------------------ MODULE FilesystemFlushProofs ------------------------
(***************************************************************************)
(* What TLAPS proves of FilesystemFlush when calls do not overlap: for     *)
(* every set of writes, any number of crashes, and whichever file          *)
(* operations fail.                                                        *)
(***************************************************************************)
EXTENDS FilesystemFlush, TLAPS

USE MarksAssumption

-----------------------------------------------------------------------------
(* Contents.                                                               *)

LEMMA ContentFacts ==
  /\ Missing # Torn
  /\ Missing \in Content /\ Torn \in Content
  /\ \A s \in SUBSET Writes : s \in Content /\ s # Missing /\ s # Torn
  /\ \A c \in Content : c # Missing /\ c # Torn => c \in SUBSET Writes
<1>1. NoFile \in Missing /\ NoFile \notin Torn /\ CutShort \in Torn
  BY DEF Missing, Torn
<1>2. Missing # Torn
  BY <1>1
<1>3. \A s \in SUBSET Writes : s # Missing /\ s # Torn
  BY <1>1
<1>4. /\ Missing \in Content /\ Torn \in Content
      /\ \A s \in SUBSET Writes : s \in Content
  BY DEF Content
<1>5. \A c \in Content : c \in SUBSET Writes \/ c = Missing \/ c = Torn
  BY DEF Content
<1>6. QED
  BY <1>2, <1>3, <1>4, <1>5

LEMMA RecoverableWhole ==
  ASSUME TypeOK, DiskInv
  PROVE  Recoverable \in SUBSET Writes /\ Recoverable # Torn
BY ContentFacts DEF TypeOK, DiskInv, Recoverable, Names

-----------------------------------------------------------------------------
(* File operations.                                                        *)

LEMMA MoveFile ==
  ASSUME TypeOK, NEW from \in Names, NEW to \in Names, from # to, Move(from, to)
  PROVE  /\ file' \in [Names -> Content]
         /\ file'[to] = file[from] /\ file'[from] = Missing
         /\ \A n \in Names \ {from, to} : file'[n] = file[n]
         /\ writing' \in [Procs -> Names \cup {"none"}]
         /\ \A q \in Procs : writing[q] = "none" => writing'[q] = "none"
BY ContentFacts DEF TypeOK, Move, Names

LEMMA RemoveFile ==
  ASSUME TypeOK, NEW name \in Names, Remove(name)
  PROVE  /\ file' \in [Names -> Content]
         /\ file'[name] = Missing
         /\ \A n \in Names \ {name} : file'[n] = file[n]
         /\ writing' \in [Procs -> Names \cup {"none"}]
         /\ \A q \in Procs : writing[q] = "none" => writing'[q] = "none"
BY ContentFacts DEF TypeOK, Remove, Names

-----------------------------------------------------------------------------
(* Types.  They do not depend on calls being serialized.                   *)

LEMMA StepType ==
  ASSUME TypeOK, NEW p \in Procs, NEW at \in Steps, NEW next \in Steps,
         Step(p, at, next)
  PROVE  pc' \in [Procs -> Steps \cup {"idle"}]
BY DEF TypeOK, Step

LEMMA ReturnedType ==
  ASSUME TypeOK, NEW p \in Procs, Returned(p)
  PROVE  /\ pc' \in [Procs -> Steps \cup {"idle"}]
         /\ op' \in [Procs -> Kinds \cup {"none"}]
         /\ cand' \in [Procs -> SUBSET Writes]
         /\ own' \in [Procs -> SUBSET Writes]
         /\ seen' \in [Procs -> SUBSET Names]
BY DEF TypeOK, Returned

LEMMA FailsType ==
  ASSUME TypeOK, NEW p \in Procs, NEW at \in Steps, NEW next \in Steps,
         Fails(p, at, next)
  PROVE  TypeOK'
BY StepType DEF TypeOK, Fails, diskVars, processVars, callVars

LEMMA LookType ==
  ASSUME TypeOK, NEW p \in Procs, NEW at \in Steps, NEW next \in Steps, NEW name \in Names,
         Step(p, at, next), Look(p, name)
  PROVE  TypeOK'
BY StepType DEF TypeOK, Look, diskVars, processVars, callVars

LEMMA RemovesType ==
  ASSUME TypeOK, NEW p \in Procs, NEW at \in Steps, NEW next \in Steps, NEW name \in Names,
         Removes(p, at, name, next)
  PROVE  TypeOK'
<1>1. Step(p, at, next) /\ Remove(name)
  BY DEF Removes
<1>2. QED
  BY <1>1, StepType, RemoveFile DEF TypeOK, Removes, processVars, callVars

LEMMA RenamesType ==
  ASSUME TypeOK, NEW p \in Procs, NEW at \in Steps, NEW next \in Steps, NEW err \in Steps,
         NEW from \in Names, NEW to \in Names, from # to,
         Renames(p, at, from, to, next, err)
  PROVE  TypeOK'
<1>1. CASE Step(p, at, next) /\ Move(from, to)
  BY <1>1, StepType, MoveFile DEF TypeOK, Renames, processVars, callVars
<1>2. CASE Step(p, at, err) /\ UNCHANGED diskVars
  BY <1>2, StepType DEF TypeOK, Renames, diskVars, processVars, callVars
<1>3. QED
  BY <1>1, <1>2 DEF Renames

LEMMA StartType ==
  ASSUME TypeOK, NEW p \in Procs, Start(p)
  PROVE  TypeOK'
<1>1. ASSUME NEW w \in Writes, StartWrite(p, w) PROVE TypeOK'
  BY <1>1 DEF StartWrite, TypeOK, Steps, FlushSteps, Kinds, diskVars, processVars
<1>2. CASE StartConnect(p)
  BY <1>2 DEF StartConnect, TypeOK, Steps, ConnectSteps, Kinds, diskVars, processVars
<1>3. CASE StartDisconnect(p)
  BY <1>3 DEF StartDisconnect, TypeOK, Steps, FlushSteps, Kinds, diskVars, processVars
<1>4. QED
  BY <1>1, <1>2, <1>3 DEF Start

LEMMA FlushType ==
  ASSUME TypeOK, NEW p \in Procs, FlushStep(p)
  PROVE  TypeOK'
<1> USE DEF Steps, FlushSteps, Names
<1>1. CASE Open(p)
  <2>1. CASE Fails(p, "open", "cleanup")
    BY <2>1, FailsType
  <2>2. CASE Step(p, "open", "fill") /\ ~Fails(p, "open", "cleanup")
    BY <1>1, <2>2, StepType, ContentFacts DEF Open, TypeOK, processVars, callVars
  <2>3. QED
    BY <1>1, <2>1, <2>2 DEF Open
<1>2. CASE Fill(p)
  <2>1. pc' \in [Procs -> Steps \cup {"idle"}]
    BY <1>2, StepType DEF Fill
  <2>2. \A g \in Filled(p) : g \in [Names -> Content]
    BY ContentFacts DEF Filled, TypeOK
  <2>3. file' \in [Names -> Content]
    BY <1>2, <2>2 DEF Fill, TypeOK
  <2>4. QED
    BY <1>2, <2>1, <2>3 DEF Fill, TypeOK, processVars, callVars
<1>3. CASE StatMain(p)
  BY <1>3, LookType, FailsType DEF StatMain
<1>4. CASE DropBackup(p)
  BY <1>4, RemovesType, FailsType DEF DropBackup
<1>5. CASE SetAside(p)
  BY <1>5, RenamesType DEF SetAside
<1>6. CASE Install(p)
  BY <1>6, RenamesType DEF Install
<1>7. CASE LookBackup(p)
  BY <1>7, LookType, FailsType DEF LookBackup
<1>8. CASE LookMain(p)
  BY <1>8, LookType, FailsType DEF LookMain
<1>9. CASE PutBack(p)
  BY <1>9, RenamesType DEF PutBack
<1>10. CASE Sweep(p)
  BY <1>10, RemovesType, FailsType DEF Sweep
<1>11. CASE Cleanup(p)
  <2>1. file' \in [Names -> Content] /\ writing' \in [Procs -> Names \cup {"none"}]
    BY <1>11, RemoveFile DEF Cleanup, TypeOK, diskVars
  <2>2. QED
    BY <1>11, <2>1, ReturnedType DEF Cleanup, TypeOK, processVars
<1>12. CASE Adopt(p)
  BY <1>12, ReturnedType DEF Adopt, TypeOK, diskVars
<1>13. QED
  BY <1>1, <1>2, <1>3, <1>4, <1>5, <1>6, <1>7, <1>8, <1>9, <1>10, <1>11, <1>12
     DEF FlushStep

LEMMA ConnectType ==
  ASSUME TypeOK, NEW p \in Procs, ConnectStep(p)
  PROVE  TypeOK'
<1> USE DEF Steps, ConnectSteps, Names
<1>1. ASSUME NEW at \in ConnectSteps, ConnectFails(p, at) PROVE TypeOK'
  BY <1>1, ReturnedType DEF ConnectFails, TypeOK, diskVars, processVars
<1>2. CASE FindMain(p)
  BY <1>2, LookType DEF FindMain
<1>3. CASE FindBackup(p)
  BY <1>3, LookType DEF FindBackup
<1>4. CASE FindTemp(p)
  BY <1>4, LookType DEF FindTemp
<1>5. CASE Recover(p)
  <2>1. AfterBackup(p) \in Steps
    BY DEF AfterBackup
  <2>2. QED
    BY <1>5, <2>1, StepType, MoveFile DEF Recover, TypeOK, processVars, callVars
<1>6. CASE Discard(p)
  BY <1>6, RemovesType DEF Discard, AfterBackup
<1>7. CASE Tidy(p)
  BY <1>7, RemovesType DEF Tidy
<1>8. CASE Load(p)
  <2>1. pc' \in [Procs -> Steps \cup {"idle"}]
    BY <1>8, StepType DEF Load, FlushSteps
  <2>2. cand' \in [Procs -> SUBSET Writes]
    BY <1>8, ContentFacts DEF Load, TypeOK
  <2>3. QED
    BY <1>8, <2>1, <2>2 DEF Load, TypeOK, diskVars, processVars
<1>9. QED
  BY <1>1, <1>2, <1>3, <1>4, <1>5, <1>6, <1>7, <1>8 DEF ConnectStep

LEMMA TypeStep == TypeOK /\ [Next]_vars => TypeOK'
<1> SUFFICES ASSUME TypeOK, [Next]_vars PROVE TypeOK'
  OBVIOUS
<1>1. ASSUME NEW p \in Procs, Start(p) \/ Continue(p) PROVE TypeOK'
  BY <1>1, StartType, FlushType, ConnectType DEF Continue
<1>2. CASE Crash
  BY <1>2 DEF Crash, TypeOK
<1>3. CASE UNCHANGED vars
  BY <1>3 DEF vars, TypeOK
<1>4. QED
  BY <1>1, <1>2, <1>3 DEF Next

LEMMA TypeInit == Init => TypeOK
<1> SUFFICES ASSUME Init PROVE TypeOK
  OBVIOUS
<1>1. file \in [Names -> Content] /\ writing \in [Procs -> Names \cup {"none"}]
  BY ContentFacts DEF Init
<1>2. connected \in BOOLEAN /\ opened \in BOOLEAN
  BY DEF Init
<1>3. mem \in SUBSET Writes /\ fresh \in SUBSET Writes /\ acked \in SUBSET Writes
  BY DEF Init
<1>4. /\ pc \in [Procs -> Steps \cup {"idle"}]
      /\ op \in [Procs -> Kinds \cup {"none"}]
  BY DEF Init
<1>5. /\ cand \in [Procs -> SUBSET Writes]
      /\ own \in [Procs -> SUBSET Writes]
      /\ seen \in [Procs -> SUBSET Names]
  BY DEF Init
<1>6. QED
  BY <1>1, <1>2, <1>3, <1>4, <1>5 DEF TypeOK

(* Every variable keeps its type, whether or not calls overlap.            *)
THEOREM TypeCorrect == Spec => []TypeOK
BY TypeInit, TypeStep, PTL DEF Spec
-----------------------------------------------------------------------------
(* The inductive invariant, for calls that do not overlap.                 *)

LEMMA OthersIdle ==
  ASSUME SerialInv, NEW p \in Procs, pc[p] # "idle"
  PROVE  \A q \in Procs \ {p} : /\ pc[q] = "idle" /\ op[q] = "none"
                                /\ own[q] = {} /\ writing[q] = "none"
BY DEF SerialInv, OneCall, CallInv

(* A step of p preserves the invariant if p and the files end up well, and *)
(* the calls of the others stay as they are.                               *)
LEMMA Frame ==
  ASSUME Overlapping = {}, TypeOK', NEW p \in Procs,
         \A q \in Procs \ {p} : /\ pc'[q] = "idle" /\ op'[q] = "none"
                                /\ own'[q] = {} /\ writing'[q] = "none",
         MemoryInv', DiskInv', CallInv(p)', FlushInv(p)', ConnectInv(p)'
  PROVE  SerialInv'
<1>1. OneCall'
  BY DEF OneCall
<1>2. ASSUME NEW q \in Procs \ {p}
      PROVE  CallInv(q)' /\ FlushInv(q)' /\ ConnectInv(q)'
  BY <1>2 DEF CallInv, FlushInv, ConnectInv, ConnectSteps, FlushSteps
<1>3. QED
  BY <1>1, <1>2 DEF SerialInv

(* A step that leaves the files, the memory and what the call carries as   *)
(* they are.                                                               *)
LEMMA FailsInv ==
  ASSUME SerialInv, NEW p \in Procs, NEW at \in Steps \ {"fill"},
         Fails(p, at, "cleanup"), at \in FlushSteps
  PROVE  SerialInv'
<1>1. TypeOK /\ MemoryInv /\ DiskInv /\ CallInv(p) /\ FlushInv(p) /\ pc[p] = at
  BY DEF SerialInv, Fails, Step
<1>2. TypeOK'
  BY <1>1, FailsType DEF Steps, FlushSteps
<1>3. pc'[p] = "cleanup" /\ \A q \in Procs \ {p} : pc'[q] = pc[q]
  BY <1>1 DEF Fails, Step, TypeOK
<1>4. UNCHANGED <<file, writing, mem, connected, opened, op, cand, own, seen, fresh, acked>>
  BY DEF Fails, diskVars, processVars, callVars
<1>5. pc[p] # "idle"
  BY <1>1 DEF Steps, FlushSteps, ConnectSteps
<1>6. \A q \in Procs \ {p} : /\ pc'[q] = "idle" /\ op'[q] = "none"
                             /\ own'[q] = {} /\ writing'[q] = "none"
  BY <1>3, <1>4, <1>5, OthersIdle
<1>7. MemoryInv' /\ DiskInv'
  BY <1>1, <1>4 DEF MemoryInv, DiskInv, Recoverable
<1>8. CallInv(p)' /\ FlushInv(p)' /\ ConnectInv(p)'
  BY <1>1, <1>3, <1>4 DEF CallInv, FlushInv, ConnectInv, ConnectSteps, FlushSteps
<1>9. Overlapping = {}
  BY DEF SerialInv
<1>10. QED
  BY <1>2, <1>6, <1>7, <1>8, <1>9, Frame

LEMMA OpenInv ==
  ASSUME SerialInv, NEW p \in Procs, Open(p)
  PROVE  SerialInv'
<1>1. CASE Fails(p, "open", "cleanup")
  BY <1>1, FailsInv DEF Steps, FlushSteps
<1>2. CASE ~Fails(p, "open", "cleanup")
  <2>1. Overlapping = {} /\ TypeOK /\ MemoryInv /\ DiskInv /\ CallInv(p) /\ FlushInv(p)
    BY DEF SerialInv
  <2>2. TypeOK'
    BY <2>1, FlushType DEF FlushStep
  <2>3. /\ pc[p] = "open" /\ pc'[p] = "fill" /\ \A q \in Procs \ {p} : pc'[q] = pc[q]
        /\ file'["main"] = file["main"] /\ file'["backup"] = file["backup"]
        /\ file'["temp"] = Torn
        /\ writing'[p] = "temp" /\ \A q \in Procs \ {p} : writing'[q] = writing[q]
        /\ UNCHANGED <<mem, connected, opened, op, cand, own, seen, fresh, acked>>
    BY <1>2, <2>1 DEF Open, Step, TypeOK, Names, processVars, callVars
  <2>4. \A q \in Procs \ {p} : /\ pc'[q] = "idle" /\ op'[q] = "none"
                               /\ own'[q] = {} /\ writing'[q] = "none"
    BY <2>3, OthersIdle
  <2>5. MemoryInv' /\ DiskInv'
    BY <2>1, <2>3 DEF MemoryInv, DiskInv, Recoverable
  <2>6. CallInv(p)' /\ FlushInv(p)' /\ ConnectInv(p)'
    BY <2>1, <2>3 DEF CallInv, FlushInv, ConnectInv, ConnectSteps, FlushSteps
  <2>7. QED
    BY <2>1, <2>2, <2>4, <2>5, <2>6, Frame
<1>3. QED
  BY <1>1, <1>2

LEMMA FillInv ==
  ASSUME SerialInv, NEW p \in Procs, Fill(p)
  PROVE  SerialInv'
<1>1. Overlapping = {} /\ TypeOK /\ MemoryInv /\ DiskInv /\ CallInv(p) /\ FlushInv(p)
  BY DEF SerialInv
<1>2. TypeOK'
  BY <1>1, FlushType DEF FlushStep
<1>3. /\ pc[p] = "fill" /\ pc'[p] \in {"statMain", "cleanup"}
      /\ \A q \in Procs \ {p} : pc'[q] = pc[q]
      /\ writing'[p] = "none" /\ \A q \in Procs \ {p} : writing'[q] = writing[q]
      /\ UNCHANGED <<mem, connected, opened, op, cand, own, seen, fresh, acked>>
  BY <1>1 DEF Fill, Step, TypeOK, processVars, callVars
<1>4. writing[p] = "temp"
  BY <1>1, <1>3 DEF CallInv
<1>5. file["temp"] = Torn
  BY <1>1, <1>3 DEF FlushInv
<1>6. /\ file'["main"] = file["main"] /\ file'["backup"] = file["backup"]
      /\ pc'[p] = "statMain" => file'["temp"] = cand[p]
  <2>1. CASE Step(p, "fill", "statMain") /\ file' \in Filled(p)
    BY <1>1, <1>3, <1>4, <1>5, <2>1 DEF Filled, TypeOK, Names
  <2>2. CASE Step(p, "fill", "cleanup") /\ UNCHANGED file
    BY <1>1, <2>2 DEF Step, TypeOK
  <2>3. QED
    BY <2>1, <2>2 DEF Fill
<1>7. \A q \in Procs \ {p} : /\ pc'[q] = "idle" /\ op'[q] = "none"
                             /\ own'[q] = {} /\ writing'[q] = "none"
  BY <1>3, OthersIdle
<1>8. MemoryInv' /\ DiskInv'
  BY <1>1, <1>3, <1>6 DEF MemoryInv, DiskInv, Recoverable
<1>9. CallInv(p)' /\ FlushInv(p)' /\ ConnectInv(p)'
  BY <1>1, <1>3, <1>6 DEF CallInv, FlushInv, ConnectInv, ConnectSteps, FlushSteps
<1>10. QED
  BY <1>1, <1>2, <1>7, <1>8, <1>9, Frame

(* Stat calls change nothing but what p has seen.                          *)
LEMMA LookFrame ==
  ASSUME SerialInv, NEW p \in Procs, NEW at \in Steps, NEW next \in Steps, NEW name \in Names,
         Step(p, at, next), Look(p, name)
  PROVE  /\ Overlapping = {} /\ TypeOK' /\ MemoryInv' /\ DiskInv'
         /\ pc[p] = at /\ pc'[p] = next
         /\ seen'[p] = IF file[name] = Missing THEN seen[p] \ {name}
                                               ELSE seen[p] \cup {name}
         /\ UNCHANGED <<file, writing, mem, opened, acked>>
         /\ op'[p] = op[p] /\ cand'[p] = cand[p] /\ own'[p] = own[p]
         /\ \A q \in Procs \ {p} : /\ pc'[q] = "idle" /\ op'[q] = "none"
                                   /\ own'[q] = {} /\ writing'[q] = "none"
<1>1. Overlapping = {} /\ TypeOK /\ MemoryInv /\ DiskInv
  BY DEF SerialInv
<1>2. TypeOK'
  BY <1>1, LookType
<1>3. /\ pc[p] = at /\ pc'[p] = next /\ \A q \in Procs \ {p} : pc'[q] = pc[q]
      /\ seen'[p] = IF file[name] = Missing THEN seen[p] \ {name}
                                            ELSE seen[p] \cup {name}
      /\ UNCHANGED <<file, writing, mem, connected, opened, op, cand, own, acked>>
  BY <1>1 DEF Step, Look, TypeOK, diskVars, processVars, callVars
<1>4. pc[p] # "idle"
  BY <1>3 DEF Steps, FlushSteps, ConnectSteps
<1>5. MemoryInv' /\ DiskInv'
  BY <1>1, <1>3 DEF MemoryInv, DiskInv, Recoverable
<1>6. QED
  BY <1>1, <1>2, <1>3, <1>4, <1>5, OthersIdle

LEMMA StatMainInv ==
  ASSUME SerialInv, NEW p \in Procs, StatMain(p)
  PROVE  SerialInv'
<1>1. CASE Fails(p, "statMain", "cleanup")
  BY <1>1, FailsInv DEF Steps, FlushSteps
<1>2. CASE ~Fails(p, "statMain", "cleanup")
  <2>1. PICK next \in Steps :
          /\ next = IF file["main"] = Missing THEN "install" ELSE "dropBackup"
          /\ Step(p, "statMain", next) /\ Look(p, "main") /\ "statMain" \in Steps
    BY <1>2 DEF StatMain, Step, Steps, FlushSteps
  <2>2. CallInv(p) /\ FlushInv(p)
    BY DEF SerialInv
  <2>3. /\ UNCHANGED <<file, writing, mem, opened, acked>>
        /\ op'[p] = op[p] /\ cand'[p] = cand[p] /\ own'[p] = own[p]
    BY <2>1, LookFrame DEF Names
  <2>4. pc[p] = "statMain" /\ pc'[p] = next
    BY <2>1 DEF Step, SerialInv, TypeOK
  <2>5. CallInv(p)'
    BY <2>1, <2>2, <2>3, <2>4 DEF CallInv, FlushSteps
  <2>6. FlushInv(p)'
    BY <2>1, <2>2, <2>3, <2>4 DEF FlushInv, FlushSteps
  <2>7. ConnectInv(p)'
    BY <2>1, <2>3, <2>4 DEF ConnectInv, ConnectSteps
  <2>8. QED
    BY <2>1, <2>5, <2>6, <2>7, LookFrame, Frame DEF Names
<1>3. QED
  BY <1>1, <1>2

LEMMA LookBackupInv ==
  ASSUME SerialInv, NEW p \in Procs, LookBackup(p)
  PROVE  SerialInv'
<1>1. CASE Fails(p, "lookBackup", "cleanup")
  BY <1>1, FailsInv DEF Steps, FlushSteps
<1>2. CASE ~Fails(p, "lookBackup", "cleanup")
  <2>1. /\ Step(p, "lookBackup", "lookMain") /\ Look(p, "backup")
        /\ "lookBackup" \in Steps /\ "lookMain" \in Steps
    BY <1>2 DEF LookBackup, Steps, FlushSteps
  <2>2. CallInv(p) /\ FlushInv(p)
    BY DEF SerialInv
  <2>3. /\ UNCHANGED <<file, writing, mem, opened, acked>>
        /\ op'[p] = op[p] /\ cand'[p] = cand[p] /\ own'[p] = own[p]
    BY <2>1, LookFrame DEF Names
  <2>4. pc[p] = "lookBackup" /\ pc'[p] = "lookMain"
    BY <2>1 DEF Step, SerialInv, TypeOK
  <2>5. CallInv(p)'
    BY <2>2, <2>3, <2>4 DEF CallInv, FlushSteps
  <2>6. FlushInv(p)'
    BY <2>2, <2>3, <2>4 DEF FlushInv, FlushSteps
  <2>7. ConnectInv(p)'
    BY <2>4 DEF ConnectInv, ConnectSteps
  <2>8. QED
    BY <2>1, <2>5, <2>6, <2>7, LookFrame, Frame DEF Names
<1>3. QED
  BY <1>1, <1>2

LEMMA LookMainInv ==
  ASSUME SerialInv, NEW p \in Procs, LookMain(p)
  PROVE  SerialInv'
<1>1. CASE Fails(p, "lookMain", "cleanup")
  BY <1>1, FailsInv DEF Steps, FlushSteps
<1>2. CASE ~Fails(p, "lookMain", "cleanup")
  <2>1. PICK next \in Steps :
          /\ next = IF "backup" \in seen[p] /\ file["main"] = Missing
                       THEN "putBack" ELSE "cleanup"
          /\ Step(p, "lookMain", next) /\ Look(p, "main") /\ "lookMain" \in Steps
    BY <1>2 DEF LookMain, Step, Steps, FlushSteps
  <2>2. CallInv(p) /\ FlushInv(p)
    BY DEF SerialInv
  <2>3. /\ UNCHANGED <<file, writing, mem, opened, acked>>
        /\ op'[p] = op[p] /\ cand'[p] = cand[p] /\ own'[p] = own[p]
    BY <2>1, LookFrame DEF Names
  <2>4. pc[p] = "lookMain" /\ pc'[p] = next
    BY <2>1 DEF Step, SerialInv, TypeOK
  <2>5. CallInv(p)'
    BY <2>1, <2>2, <2>3, <2>4 DEF CallInv, FlushSteps
  <2>6. FlushInv(p)'
    BY <2>1, <2>2, <2>3, <2>4 DEF FlushInv, FlushSteps
  <2>7. ConnectInv(p)'
    BY <2>1, <2>3, <2>4 DEF ConnectInv, ConnectSteps
  <2>8. QED
    BY <2>1, <2>5, <2>6, <2>7, LookFrame, Frame DEF Names
<1>3. QED
  BY <1>1, <1>2

(* A removal changes one file.                                             *)
LEMMA RemovesFrame ==
  ASSUME SerialInv, NEW p \in Procs, NEW at \in Steps \ {"fill"}, NEW next \in Steps,
         NEW name \in Names, Removes(p, at, name, next)
  PROVE  /\ Overlapping = {} /\ TypeOK'
         /\ pc[p] = at /\ writing'[p] = "none"
         /\ file'[name] = Missing
         /\ \A n \in Names \ {name} : file'[n] = file[n]
         /\ UNCHANGED <<mem, connected, opened, acked>>
         /\ op'[p] = op[p] /\ cand'[p] = cand[p] /\ own'[p] = own[p] /\ seen'[p] = seen[p]
         /\ \A q \in Procs \ {p} : /\ pc'[q] = "idle" /\ op'[q] = "none"
                                   /\ own'[q] = {} /\ writing'[q] = "none"
<1>1. Overlapping = {} /\ TypeOK /\ CallInv(p)
  BY DEF SerialInv
<1>2. TypeOK'
  BY <1>1, RemovesType
<1>3. /\ pc[p] = at /\ \A q \in Procs \ {p} : pc'[q] = pc[q]
      /\ UNCHANGED <<mem, connected, opened, op, cand, own, seen, acked>>
      /\ Remove(name)
  BY <1>1 DEF Removes, Step, TypeOK, processVars, callVars
<1>4. pc[p] # "idle" /\ writing[p] = "none"
  BY <1>1, <1>3 DEF CallInv, Steps, FlushSteps, ConnectSteps
<1>5. QED
  BY <1>1, <1>2, <1>3, <1>4, RemoveFile, OthersIdle

LEMMA DropBackupInv ==
  ASSUME SerialInv, NEW p \in Procs, DropBackup(p)
  PROVE  SerialInv'
<1>1. CASE Fails(p, "dropBackup", "cleanup")
  BY <1>1, FailsInv DEF Steps, FlushSteps
<1>2. CASE ~Fails(p, "dropBackup", "cleanup")
  <2>1. Removes(p, "dropBackup", "backup", "setAside")
    BY <1>2 DEF DropBackup
  <2>2. /\ "dropBackup" \in Steps \ {"fill"} /\ "setAside" \in Steps /\ "backup" \in Names
    BY DEF Steps, FlushSteps, Names
  <2>3. pc'[p] = "setAside"
    BY <2>1 DEF Removes, Step, SerialInv, TypeOK
  <2>4. CallInv(p) /\ FlushInv(p) /\ ConnectInv(p) /\ MemoryInv /\ DiskInv
    BY DEF SerialInv
  <2>5. file["main"] # Missing /\ Recoverable' = Recoverable
    BY <2>1, <2>2, <2>4, RemovesFrame, ContentFacts
       DEF SerialInv, TypeOK, FlushInv, ConnectInv, ConnectSteps, Recoverable, Names
  <2>6. MemoryInv' /\ DiskInv'
    BY <2>1, <2>2, <2>4, <2>5, RemovesFrame, ContentFacts DEF MemoryInv, DiskInv, Names
  <2>7. CallInv(p)' /\ FlushInv(p)' /\ ConnectInv(p)'
    BY <2>1, <2>2, <2>3, <2>4, <2>5, RemovesFrame
       DEF CallInv, FlushInv, ConnectInv, ConnectSteps, FlushSteps, Names
  <2>8. QED
    BY <2>1, <2>2, <2>6, <2>7, RemovesFrame, Frame
<1>3. QED
  BY <1>1, <1>2

LEMMA SweepInv ==
  ASSUME SerialInv, NEW p \in Procs, Sweep(p)
  PROVE  SerialInv'
<1>1. CASE Fails(p, "sweep", "cleanup")
  BY <1>1, FailsInv DEF Steps, FlushSteps
<1>2. CASE ~Fails(p, "sweep", "cleanup")
  <2>1. Removes(p, "sweep", "backup", "adopt")
    BY <1>2 DEF Sweep
  <2>2. /\ "sweep" \in Steps \ {"fill"} /\ "adopt" \in Steps /\ "backup" \in Names
    BY DEF Steps, FlushSteps, Names
  <2>3. pc'[p] = "adopt"
    BY <2>1 DEF Removes, Step, SerialInv, TypeOK
  <2>4. CallInv(p) /\ FlushInv(p) /\ ConnectInv(p) /\ MemoryInv /\ DiskInv
    BY DEF SerialInv
  <2>5. file["main"] # Missing /\ Recoverable' = Recoverable
    BY <2>1, <2>2, <2>4, RemovesFrame, ContentFacts
       DEF SerialInv, TypeOK, FlushInv, ConnectInv, ConnectSteps, Recoverable, Names
  <2>6. MemoryInv' /\ DiskInv'
    BY <2>1, <2>2, <2>4, <2>5, RemovesFrame, ContentFacts DEF MemoryInv, DiskInv, Names
  <2>7. CallInv(p)' /\ FlushInv(p)' /\ ConnectInv(p)'
    BY <2>1, <2>2, <2>3, <2>4, <2>5, RemovesFrame
       DEF CallInv, FlushInv, ConnectInv, ConnectSteps, FlushSteps, Names
  <2>8. QED
    BY <2>1, <2>2, <2>6, <2>7, RemovesFrame, Frame
<1>3. QED
  BY <1>1, <1>2

LEMMA DiscardInv ==
  ASSUME SerialInv, NEW p \in Procs, Discard(p)
  PROVE  SerialInv'
<1>1. PICK next \in Steps : next \in {"tidy", "load"} /\ Removes(p, "discard", "backup", next)
  BY DEF Discard, AfterBackup, Removes, Step, Steps, ConnectSteps
<1>2. /\ "discard" \in Steps \ {"fill"} /\ "backup" \in Names
  BY DEF Steps, ConnectSteps, Names
<1>3. pc'[p] = next
  BY <1>1 DEF Removes, Step, SerialInv, TypeOK
<1>4. CallInv(p) /\ FlushInv(p) /\ ConnectInv(p) /\ MemoryInv /\ DiskInv
  BY DEF SerialInv
<1>5. file["main"] # Missing /\ Recoverable' = Recoverable
  BY <1>1, <1>2, <1>4, RemovesFrame, ContentFacts
     DEF SerialInv, TypeOK, FlushInv, ConnectInv, ConnectSteps, Recoverable, Names
<1>6. MemoryInv' /\ DiskInv'
  BY <1>1, <1>2, <1>4, <1>5, RemovesFrame, ContentFacts DEF MemoryInv, DiskInv, Names
<1>7. CallInv(p)' /\ FlushInv(p)' /\ ConnectInv(p)'
  BY <1>1, <1>2, <1>3, <1>4, <1>5, RemovesFrame
     DEF CallInv, FlushInv, ConnectInv, ConnectSteps, FlushSteps, Names
<1>8. QED
  BY <1>1, <1>2, <1>6, <1>7, RemovesFrame, Frame

LEMMA TidyInv ==
  ASSUME SerialInv, NEW p \in Procs, Tidy(p)
  PROVE  SerialInv'
<1>1. Removes(p, "tidy", "temp", "load")
  BY DEF Tidy
<1>2. /\ "tidy" \in Steps \ {"fill"} /\ "load" \in Steps /\ "temp" \in Names
  BY DEF Steps, ConnectSteps, Names
<1>3. pc'[p] = "load"
  BY <1>1 DEF Removes, Step, SerialInv, TypeOK
<1>4. CallInv(p) /\ FlushInv(p) /\ ConnectInv(p) /\ MemoryInv /\ DiskInv
  BY DEF SerialInv
<1>5. Recoverable' = Recoverable
  BY <1>1, <1>2, RemovesFrame DEF Recoverable, Names
<1>6. MemoryInv' /\ DiskInv'
  BY <1>1, <1>2, <1>4, <1>5, RemovesFrame, ContentFacts DEF MemoryInv, DiskInv, Names
<1>7. CallInv(p)' /\ FlushInv(p)' /\ ConnectInv(p)'
  BY <1>1, <1>2, <1>3, <1>4, <1>5, RemovesFrame
     DEF CallInv, FlushInv, ConnectInv, ConnectSteps, FlushSteps, Names
<1>8. QED
  BY <1>1, <1>2, <1>6, <1>7, RemovesFrame, Frame

(* A rename that succeeds.                                                 *)
LEMMA MoveFrame ==
  ASSUME SerialInv, NEW p \in Procs, NEW at \in Steps \ {"fill"}, NEW next \in Steps,
         NEW from \in Names, NEW to \in Names, from # to,
         Step(p, at, next), Move(from, to),
         UNCHANGED <<processVars, callVars, seen, fresh, acked>>
  PROVE  /\ Overlapping = {} /\ TypeOK'
         /\ pc[p] = at /\ writing'[p] = "none"
         /\ file[from] # Missing /\ file'[to] = file[from] /\ file'[from] = Missing
         /\ \A n \in Names \ {from, to} : file'[n] = file[n]
         /\ UNCHANGED <<mem, connected, opened, acked>>
         /\ op'[p] = op[p] /\ cand'[p] = cand[p] /\ own'[p] = own[p] /\ seen'[p] = seen[p]
         /\ \A q \in Procs \ {p} : /\ pc'[q] = "idle" /\ op'[q] = "none"
                                   /\ own'[q] = {} /\ writing'[q] = "none"
<1>1. Overlapping = {} /\ TypeOK /\ CallInv(p)
  BY DEF SerialInv
<1>2. /\ pc[p] = at /\ \A q \in Procs \ {p} : pc'[q] = pc[q]
      /\ UNCHANGED <<mem, connected, opened, op, cand, own, seen, fresh, acked>>
  BY <1>1 DEF Step, TypeOK, processVars, callVars
<1>3. TypeOK'
  BY <1>1, <1>2, StepType, MoveFile DEF TypeOK
<1>4. pc[p] # "idle" /\ writing[p] = "none"
  BY <1>1, <1>2 DEF CallInv, Steps, FlushSteps, ConnectSteps
<1>5. /\ file[from] # Missing /\ file'[to] = file[from] /\ file'[from] = Missing
      /\ \A n \in Names \ {from, to} : file'[n] = file[n]
      /\ \A q \in Procs : writing[q] = "none" => writing'[q] = "none"
  BY <1>1, MoveFile DEF Move
<1>6. \A q \in Procs \ {p} : /\ pc'[q] = "idle" /\ op'[q] = "none"
                             /\ own'[q] = {} /\ writing'[q] = "none"
  BY <1>2, <1>4, <1>5, OthersIdle
<1>7. QED
  BY <1>1, <1>2, <1>3, <1>4, <1>5, <1>6

(* A rename that fails, and every error before the clean-up.               *)
LEMMA ErrorInv ==
  ASSUME SerialInv, NEW p \in Procs, NEW at \in FlushSteps \ {"fill"},
         NEW next \in {"cleanup", "lookBackup"},
         next = "lookBackup" => file["main"] = Missing,
         Step(p, at, next), UNCHANGED diskVars,
         UNCHANGED <<processVars, callVars, seen, fresh, acked>>
  PROVE  SerialInv'
<1>1. TypeOK /\ MemoryInv /\ DiskInv /\ CallInv(p) /\ FlushInv(p) /\ Overlapping = {}
  BY DEF SerialInv
<1>2. pc[p] = at /\ pc'[p] = next /\ \A q \in Procs \ {p} : pc'[q] = pc[q]
  BY <1>1 DEF Step, TypeOK
<1>3. UNCHANGED <<file, writing, mem, connected, opened, op, cand, own, seen, fresh, acked>>
  BY DEF diskVars, processVars, callVars
<1>4. TypeOK'
  BY <1>1, <1>3, StepType DEF TypeOK, Steps, FlushSteps
<1>5. pc[p] # "idle" /\ next \in FlushSteps
  BY <1>2 DEF FlushSteps
<1>6. \A q \in Procs \ {p} : /\ pc'[q] = "idle" /\ op'[q] = "none"
                             /\ own'[q] = {} /\ writing'[q] = "none"
  BY <1>2, <1>3, <1>5, OthersIdle
<1>7. MemoryInv' /\ DiskInv'
  BY <1>1, <1>3 DEF MemoryInv, DiskInv, Recoverable
<1>8. CallInv(p)' /\ FlushInv(p)' /\ ConnectInv(p)'
  BY <1>1, <1>2, <1>3, <1>5 DEF CallInv, FlushInv, ConnectInv, ConnectSteps, FlushSteps
<1>9. QED
  BY <1>1, <1>4, <1>6, <1>7, <1>8, Frame

LEMMA SetAsideInv ==
  ASSUME SerialInv, NEW p \in Procs, SetAside(p)
  PROVE  SerialInv'
<1>1. /\ "setAside" \in Steps \ {"fill"} /\ "setAside" \in FlushSteps \ {"fill"}
      /\ "install" \in Steps /\ "main" \in Names /\ "backup" \in Names
  BY DEF Steps, FlushSteps, Names
<1>2. /\ CallInv(p) /\ FlushInv(p) /\ ConnectInv(p) /\ MemoryInv /\ DiskInv
      /\ TypeOK /\ pc[p] = "setAside"
  BY DEF SerialInv, SetAside, Renames, Step
<1>3. UNCHANGED <<processVars, callVars, seen, fresh, acked>>
  BY DEF SetAside, Renames
<1>4. CASE Step(p, "setAside", "install") /\ Move("main", "backup")
  <2>1. pc'[p] = "install"
    BY <1>2, <1>4 DEF Step, TypeOK
  <2>2. file["main"] # Missing
    BY <1>2 DEF FlushInv
  <2>3. Recoverable' = Recoverable
    BY <1>1, <1>3, <1>4, <2>2, MoveFrame DEF Recoverable
  <2>4. MemoryInv' /\ DiskInv'
    BY <1>1, <1>2, <1>3, <1>4, <2>3, MoveFrame, ContentFacts DEF MemoryInv, DiskInv, Names
  <2>5. CallInv(p)' /\ FlushInv(p)' /\ ConnectInv(p)'
    BY <1>1, <1>2, <1>3, <1>4, <2>1, <2>2, <2>3, MoveFrame
       DEF CallInv, FlushInv, ConnectInv, ConnectSteps, FlushSteps, Names
  <2>6. QED
    BY <1>1, <1>3, <1>4, <2>4, <2>5, MoveFrame, Frame
<1>5. CASE Step(p, "setAside", "cleanup") /\ UNCHANGED diskVars
  BY <1>1, <1>3, <1>5, ErrorInv
<1>6. QED
  BY <1>4, <1>5 DEF SetAside, Renames

LEMMA InstallInv ==
  ASSUME SerialInv, NEW p \in Procs, Install(p)
  PROVE  SerialInv'
<1>1. /\ "install" \in Steps \ {"fill"} /\ "install" \in FlushSteps \ {"fill"}
      /\ "sweep" \in Steps /\ "temp" \in Names /\ "main" \in Names
  BY DEF Steps, FlushSteps, Names
<1>2. /\ CallInv(p) /\ FlushInv(p) /\ ConnectInv(p) /\ MemoryInv /\ DiskInv
      /\ TypeOK /\ pc[p] = "install"
  BY DEF SerialInv, Install, Renames, Step
<1>3. UNCHANGED <<processVars, callVars, seen, fresh, acked>>
  BY DEF Install, Renames
<1>4. CASE Step(p, "install", "sweep") /\ Move("temp", "main")
  <2>1. pc'[p] = "sweep"
    BY <1>2, <1>4 DEF Step, TypeOK
  <2>2. file["temp"] = cand[p] /\ acked \subseteq cand[p] /\ (opened => mem \subseteq cand[p])
        /\ cand[p] # Missing /\ cand[p] # Torn
    BY <1>2, ContentFacts DEF FlushInv, FlushSteps, TypeOK
  <2>3. Recoverable' = cand[p] /\ file'["main"] = cand[p]
    BY <1>1, <1>3, <1>4, <2>2, MoveFrame DEF Recoverable
  <2>4. MemoryInv' /\ DiskInv'
    BY <1>1, <1>2, <1>3, <1>4, <2>2, <2>3, MoveFrame DEF MemoryInv, DiskInv, Names
  <2>5. CallInv(p)' /\ FlushInv(p)' /\ ConnectInv(p)'
    BY <1>1, <1>2, <1>3, <1>4, <2>1, <2>2, <2>3, MoveFrame
       DEF CallInv, FlushInv, ConnectInv, ConnectSteps, FlushSteps, Names
  <2>6. QED
    BY <1>1, <1>3, <1>4, <2>4, <2>5, MoveFrame, Frame
<1>5. CASE ~(Step(p, "install", "sweep") /\ Move("temp", "main"))
  <2>1. PICK next \in {"cleanup", "lookBackup"} :
          Step(p, "install", next) /\ UNCHANGED diskVars
    BY <1>5 DEF Install, Renames, Step
  <2>2. file["main"] = Missing
    BY <1>2 DEF FlushInv
  <2>3. QED
    BY <1>1, <1>3, <2>1, <2>2, ErrorInv
<1>6. QED
  BY <1>4, <1>5 DEF Install, Renames

LEMMA PutBackInv ==
  ASSUME SerialInv, NEW p \in Procs, PutBack(p)
  PROVE  SerialInv'
<1>1. /\ "putBack" \in Steps \ {"fill"} /\ "putBack" \in FlushSteps \ {"fill"}
      /\ "cleanup" \in Steps /\ "backup" \in Names /\ "main" \in Names
  BY DEF Steps, FlushSteps, Names
<1>2. /\ CallInv(p) /\ FlushInv(p) /\ ConnectInv(p) /\ MemoryInv /\ DiskInv
      /\ TypeOK /\ pc[p] = "putBack"
  BY DEF SerialInv, PutBack, Renames, Step
<1>3. UNCHANGED <<processVars, callVars, seen, fresh, acked>>
  BY DEF PutBack, Renames
<1>4. CASE Step(p, "putBack", "cleanup") /\ Move("backup", "main")
  <2>1. pc'[p] = "cleanup"
    BY <1>2, <1>4 DEF Step, TypeOK
  <2>2. file["main"] = Missing
    BY <1>2 DEF FlushInv
  <2>3. Recoverable' = Recoverable
    BY <1>1, <1>3, <1>4, <2>2, MoveFrame DEF Recoverable
  <2>4. MemoryInv' /\ DiskInv'
    BY <1>1, <1>2, <1>3, <1>4, <2>3, MoveFrame, ContentFacts DEF MemoryInv, DiskInv, Names
  <2>5. CallInv(p)' /\ FlushInv(p)' /\ ConnectInv(p)'
    BY <1>1, <1>2, <1>3, <1>4, <2>1, <2>2, <2>3, MoveFrame
       DEF CallInv, FlushInv, ConnectInv, ConnectSteps, FlushSteps, Names
  <2>6. QED
    BY <1>1, <1>3, <1>4, <2>4, <2>5, MoveFrame, Frame
<1>5. CASE Step(p, "putBack", "cleanup") /\ UNCHANGED diskVars
  BY <1>1, <1>3, <1>5, ErrorInv
<1>6. QED
  BY <1>4, <1>5 DEF PutBack, Renames

(* A call that returns leaves nothing to itself.                           *)
LEMMA ReturnsInv ==
  ASSUME SerialInv, NEW p \in Procs, pc[p] # "idle", Returned(p), TypeOK',
         writing'[p] = "none",
         \A q \in Procs : writing[q] = "none" => writing'[q] = "none",
         MemoryInv', DiskInv'
  PROVE  SerialInv'
<1>1. Overlapping = {} /\ TypeOK
  BY DEF SerialInv
<1>2. /\ pc'[p] = "idle" /\ op'[p] = "none" /\ own'[p] = {}
      /\ \A q \in Procs \ {p} : pc'[q] = pc[q] /\ op'[q] = op[q] /\ own'[q] = own[q]
  BY <1>1 DEF Returned, TypeOK
<1>3. \A q \in Procs \ {p} : /\ pc'[q] = "idle" /\ op'[q] = "none"
                             /\ own'[q] = {} /\ writing'[q] = "none"
  BY <1>2, OthersIdle
<1>4. CallInv(p)' /\ FlushInv(p)' /\ ConnectInv(p)'
  BY <1>2 DEF CallInv, FlushInv, ConnectInv, ConnectSteps, FlushSteps
<1>5. QED
  BY <1>1, <1>3, <1>4, Frame

LEMMA CleanupInv ==
  ASSUME SerialInv, NEW p \in Procs, Cleanup(p)
  PROVE  SerialInv'
<1>1. TypeOK /\ MemoryInv /\ DiskInv /\ CallInv(p) /\ pc[p] = "cleanup"
  BY DEF SerialInv, Cleanup
<1>2. TypeOK'
  BY <1>1, FlushType DEF FlushStep
<1>3. writing[p] = "none"
  BY <1>1 DEF CallInv
<1>4. /\ file'["main"] = file["main"] /\ file'["backup"] = file["backup"]
      /\ \A q \in Procs : writing[q] = "none" => writing'[q] = "none"
  <2>1. CASE Remove("temp")
    BY <1>1, <2>1, RemoveFile DEF Names
  <2>2. CASE UNCHANGED diskVars
    BY <2>2 DEF diskVars
  <2>3. QED
    BY <2>1, <2>2 DEF Cleanup
<1>5. MemoryInv' /\ DiskInv'
  BY <1>1, <1>4 DEF Cleanup, processVars, MemoryInv, DiskInv, Recoverable
<1>6. Returned(p) /\ pc[p] # "idle"
  BY DEF Cleanup
<1>7. QED
  BY <1>2, <1>3, <1>4, <1>5, <1>6, ReturnsInv

LEMMA AdoptInv ==
  ASSUME SerialInv, NEW p \in Procs, Adopt(p)
  PROVE  SerialInv'
<1>1. /\ TypeOK /\ MemoryInv /\ DiskInv /\ CallInv(p) /\ FlushInv(p)
      /\ pc[p] = "adopt"
  BY DEF SerialInv, Adopt
<1>2. TypeOK'
  BY <1>1, FlushType DEF FlushStep
<1>3. UNCHANGED <<file, writing>> /\ writing[p] = "none"
  BY <1>1 DEF Adopt, diskVars, CallInv
<1>4. /\ file["main"] = cand[p] /\ cand[p] # Missing
      /\ acked \subseteq cand[p] /\ own[p] \subseteq cand[p]
      /\ opened => mem \subseteq cand[p]
  BY <1>1, ContentFacts DEF CallInv, FlushInv, FlushSteps, TypeOK
<1>5. Recoverable' = cand[p]
  BY <1>3, <1>4 DEF Recoverable
<1>6. DiskInv'
  BY <1>1, <1>3, <1>4, <1>5 DEF Adopt, DiskInv
<1>7. MemoryInv'
  <2>1. CASE op[p] = "disconnect"
    <3>1. mem' = mem /\ opened' = opened /\ opened /\ acked' = acked /\ connected' = FALSE
      BY <1>1, <2>1 DEF Adopt, CallInv
    <3>2. QED
      BY <1>1, <1>4, <1>5, <3>1 DEF MemoryInv
  <2>2. CASE op[p] # "disconnect"
    <3>1. mem' = cand[p] /\ acked' = acked \cup own[p] /\ (connected' => opened')
      BY <1>1, <2>2 DEF Adopt, MemoryInv
    <3>2. QED
      BY <1>4, <1>5, <3>1 DEF MemoryInv
  <2>3. QED
    BY <2>1, <2>2
<1>8. Returned(p) /\ pc[p] # "idle"
  BY DEF Adopt
<1>9. QED
  BY <1>2, <1>3, <1>6, <1>7, <1>8, ReturnsInv

(* A connect that gives up.                                                *)
LEMMA GivesUpInv ==
  ASSUME SerialInv, NEW p \in Procs, pc[p] \in ConnectSteps, Returned(p),
         UNCHANGED <<diskVars, processVars, fresh, acked>>
  PROVE  SerialInv'
<1>1. TypeOK /\ MemoryInv /\ DiskInv /\ CallInv(p)
  BY DEF SerialInv
<1>2. UNCHANGED <<file, writing, mem, connected, opened, fresh, acked>>
  BY DEF diskVars, processVars
<1>3. TypeOK'
  BY <1>1, <1>2, ReturnedType DEF TypeOK
<1>4. writing[p] = "none" /\ pc[p] # "idle"
  BY <1>1 DEF CallInv, ConnectSteps
<1>5. MemoryInv' /\ DiskInv'
  BY <1>1, <1>2 DEF MemoryInv, DiskInv, Recoverable
<1>6. QED
  BY <1>2, <1>3, <1>4, <1>5, ReturnsInv

LEMMA FindMainInv ==
  ASSUME SerialInv, NEW p \in Procs, FindMain(p)
  PROVE  SerialInv'
<1>1. PICK next \in Steps :
        /\ next = "findBackup"
        /\ Step(p, "findMain", next) /\ Look(p, "main") /\ "findMain" \in Steps
  BY DEF FindMain, Step, Steps, ConnectSteps
<1>2. CallInv(p) /\ ConnectInv(p) /\ pc[p] = "findMain" /\ pc'[p] = next
  BY <1>1 DEF SerialInv, Step, TypeOK
<1>3. /\ UNCHANGED <<file, writing, mem, opened, acked>>
      /\ op'[p] = op[p] /\ cand'[p] = cand[p] /\ own'[p] = own[p]
      /\ seen'[p] = IF file["main"] = Missing THEN seen[p] \ {"main"}
                                                 ELSE seen[p] \cup {"main"}
  BY <1>1, LookFrame DEF Names
<1>4. CallInv(p)'
  BY <1>1, <1>2, <1>3 DEF CallInv, FlushSteps
<1>5. FlushInv(p)'
  BY <1>1, <1>2, <1>3 DEF FlushInv, FlushSteps
<1>6. ConnectInv(p)'
  BY <1>1, <1>2, <1>3 DEF ConnectInv, ConnectSteps
<1>7. QED
  BY <1>1, <1>4, <1>5, <1>6, LookFrame, Frame DEF Names

LEMMA FindBackupInv ==
  ASSUME SerialInv, NEW p \in Procs, FindBackup(p)
  PROVE  SerialInv'
<1>1. PICK next \in Steps :
        /\ next = "findTemp"
        /\ Step(p, "findBackup", next) /\ Look(p, "backup") /\ "findBackup" \in Steps
  BY DEF FindBackup, Step, Steps, ConnectSteps
<1>2. CallInv(p) /\ ConnectInv(p) /\ pc[p] = "findBackup" /\ pc'[p] = next
  BY <1>1 DEF SerialInv, Step, TypeOK
<1>3. /\ UNCHANGED <<file, writing, mem, opened, acked>>
      /\ op'[p] = op[p] /\ cand'[p] = cand[p] /\ own'[p] = own[p]
      /\ seen'[p] = IF file["backup"] = Missing THEN seen[p] \ {"backup"}
                                                 ELSE seen[p] \cup {"backup"}
  BY <1>1, LookFrame DEF Names
<1>4. CallInv(p)'
  BY <1>1, <1>2, <1>3 DEF CallInv, FlushSteps
<1>5. FlushInv(p)'
  BY <1>1, <1>2, <1>3 DEF FlushInv, FlushSteps
<1>6. ConnectInv(p)'
  BY <1>1, <1>2, <1>3 DEF ConnectInv, ConnectSteps
<1>7. QED
  BY <1>1, <1>4, <1>5, <1>6, LookFrame, Frame DEF Names

LEMMA FindTempInv ==
  ASSUME SerialInv, NEW p \in Procs, FindTemp(p)
  PROVE  SerialInv'
<1>1. PICK next \in Steps :
        /\ next = CASE "backup" \in seen[p] /\ "main" \notin seen[p]     -> "recover"
                    [] {"backup", "main"} \subseteq seen[p]              -> "discard"
                    [] "backup" \notin seen[p] /\ file["temp"] # Missing -> "tidy"
                    [] OTHER                                             -> "load"
        /\ Step(p, "findTemp", next) /\ Look(p, "temp") /\ "findTemp" \in Steps
  BY DEF FindTemp, Step, Steps, ConnectSteps
<1>2. CallInv(p) /\ ConnectInv(p) /\ pc[p] = "findTemp" /\ pc'[p] = next
  BY <1>1 DEF SerialInv, Step, TypeOK
<1>3. /\ UNCHANGED <<file, writing, mem, opened, acked>>
      /\ op'[p] = op[p] /\ cand'[p] = cand[p] /\ own'[p] = own[p]
      /\ seen'[p] = IF file["temp"] = Missing THEN seen[p] \ {"temp"}
                                                 ELSE seen[p] \cup {"temp"}
  BY <1>1, LookFrame DEF Names
<1>4. CallInv(p)'
  BY <1>1, <1>2, <1>3 DEF CallInv, FlushSteps
<1>5. FlushInv(p)'
  BY <1>1, <1>2, <1>3 DEF FlushInv, FlushSteps
<1>6. ConnectInv(p)'
  BY <1>1, <1>2, <1>3 DEF ConnectInv, ConnectSteps
<1>7. QED
  BY <1>1, <1>4, <1>5, <1>6, LookFrame, Frame DEF Names

LEMMA RecoverInv ==
  ASSUME SerialInv, NEW p \in Procs, Recover(p)
  PROVE  SerialInv'
<1>1. /\ TypeOK /\ MemoryInv /\ DiskInv /\ CallInv(p) /\ ConnectInv(p)
      /\ pc[p] = "recover"
  BY DEF SerialInv, Recover, Step
<1>2. Step(p, "recover", AfterBackup(p)) /\ Move("backup", "main")
      /\ UNCHANGED <<processVars, callVars, seen, fresh, acked>>
  BY DEF Recover
<1>3. PICK next \in Steps : next \in {"tidy", "load"} /\ Step(p, "recover", next)
  BY <1>2 DEF AfterBackup, Step, Steps, ConnectSteps
<1>4. pc'[p] = next
  BY <1>1, <1>3 DEF Step, TypeOK
<1>5. "recover" \in Steps \ {"fill"} /\ "backup" \in Names /\ "main" \in Names
  BY DEF Steps, ConnectSteps, Names
<1>6. Recoverable' = Recoverable /\ file'["main"] # Missing
  BY <1>1, <1>2, <1>3, <1>5, MoveFrame DEF ConnectInv, ConnectSteps, Recoverable
<1>7. MemoryInv' /\ DiskInv'
  BY <1>1, <1>2, <1>3, <1>5, <1>6, MoveFrame, ContentFacts DEF MemoryInv, DiskInv, Names
<1>8. CallInv(p)' /\ FlushInv(p)' /\ ConnectInv(p)'
  BY <1>1, <1>2, <1>3, <1>4, <1>5, <1>6, MoveFrame
     DEF CallInv, FlushInv, ConnectInv, ConnectSteps, FlushSteps
<1>9. QED
  BY <1>2, <1>3, <1>5, <1>7, <1>8, MoveFrame, Frame

LEMMA LoadInv ==
  ASSUME SerialInv, NEW p \in Procs, Load(p)
  PROVE  SerialInv'
<1>1. /\ TypeOK /\ MemoryInv /\ DiskInv /\ CallInv(p) /\ ConnectInv(p)
      /\ pc[p] = "load" /\ Overlapping = {}
  BY DEF SerialInv, Load, Step
<1>2. /\ Step(p, "load", "open")
      /\ cand' = [cand EXCEPT ![p] = IF file["main"] = Missing THEN {} ELSE file["main"]]
      /\ UNCHANGED <<diskVars, processVars, op, own, seen, fresh, acked>>
  BY DEF Load
<1>3. /\ pc'[p] = "open" /\ \A q \in Procs \ {p} : pc'[q] = pc[q]
      /\ UNCHANGED <<file, writing, mem, connected, opened, op, own, seen, acked>>
  BY <1>1, <1>2 DEF Step, TypeOK, diskVars, processVars
<1>4. cand'[p] = Recoverable
  BY <1>1, <1>2 DEF TypeOK, ConnectInv, ConnectSteps, Recoverable
<1>5. TypeOK'
  BY <1>1, ConnectType DEF ConnectStep
<1>6. \A q \in Procs \ {p} : /\ pc'[q] = "idle" /\ op'[q] = "none"
                             /\ own'[q] = {} /\ writing'[q] = "none"
  BY <1>1, <1>3, OthersIdle
<1>7. MemoryInv' /\ DiskInv'
  BY <1>1, <1>3 DEF MemoryInv, DiskInv, Recoverable
<1>8. own[p] = {} \/ op[p] = "write"
  BY <1>1 DEF CallInv
<1>9. op[p] \notin {"write", "disconnect"}
  BY <1>1 DEF ConnectInv, ConnectSteps
<1>10. CallInv(p)' /\ FlushInv(p)' /\ ConnectInv(p)'
  BY <1>1, <1>3, <1>4, <1>8, <1>9
     DEF CallInv, FlushInv, ConnectInv, ConnectSteps, FlushSteps, MemoryInv, DiskInv
<1>11. QED
  BY <1>1, <1>5, <1>6, <1>7, <1>10, Frame

LEMMA StartInv ==
  ASSUME SerialInv, NEW p \in Procs, Start(p)
  PROVE  SerialInv'
<1>1. /\ TypeOK /\ MemoryInv /\ DiskInv /\ CallInv(p) /\ Overlapping = {}
  BY DEF SerialInv
<1>2. TypeOK'
  BY <1>1, StartType
<1>3. \A q \in Procs : pc[q] = "idle"
  BY <1>1 DEF Start, StartWrite, StartConnect, StartDisconnect, MayStart
<1>4. UNCHANGED <<file, writing, mem, connected, opened, acked>>
  BY DEF Start, StartWrite, StartConnect, StartDisconnect, diskVars, processVars
<1>5. MemoryInv' /\ DiskInv'
  BY <1>1, <1>4 DEF MemoryInv, DiskInv, Recoverable
<1>6. \A q \in Procs \ {p} : pc'[q] = pc[q] /\ op'[q] = op[q] /\ own'[q] = own[q]
  BY <1>1 DEF Start, StartWrite, StartConnect, StartDisconnect, TypeOK
<1>7. \A q \in Procs \ {p} : /\ pc'[q] = "idle" /\ op'[q] = "none"
                             /\ own'[q] = {} /\ writing'[q] = "none"
  BY <1>3, <1>4, <1>6 DEF SerialInv, CallInv
<1>8. CallInv(p)' /\ FlushInv(p)' /\ ConnectInv(p)'
  <2>1. ASSUME NEW w \in Writes, StartWrite(p, w)
        PROVE  CallInv(p)' /\ FlushInv(p)' /\ ConnectInv(p)'
    <3>1. /\ pc'[p] = "open" /\ op'[p] = "write" /\ own'[p] = {w}
          /\ cand'[p] = mem \cup {w} /\ opened
      BY <1>1, <2>1 DEF StartWrite, TypeOK
    <3>2. QED
      BY <1>1, <1>3, <1>4, <3>1 DEF CallInv, FlushInv, ConnectInv, ConnectSteps, FlushSteps, MemoryInv
  <2>2. CASE StartDisconnect(p)
    <3>1. /\ pc'[p] = "open" /\ op'[p] = "disconnect" /\ own'[p] = {}
          /\ cand'[p] = mem /\ opened
      BY <1>1, <1>3, <2>2 DEF StartDisconnect, TypeOK, CallInv, MemoryInv
    <3>2. QED
      BY <1>1, <1>3, <1>4, <3>1 DEF CallInv, FlushInv, ConnectInv, ConnectSteps, FlushSteps, MemoryInv
  <2>3. CASE StartConnect(p)
    <3>1. pc'[p] = "findMain" /\ op'[p] = "connect" /\ own'[p] = {}
      BY <1>1, <1>3, <2>3 DEF StartConnect, TypeOK, CallInv
    <3>2. QED
      BY <1>1, <1>3, <1>4, <3>1 DEF CallInv, FlushInv, ConnectInv, ConnectSteps, FlushSteps
  <2>4. QED
    BY <2>1, <2>2, <2>3 DEF Start
<1>9. QED
  BY <1>1, <1>2, <1>5, <1>7, <1>8, Frame

LEMMA CrashInv ==
  ASSUME SerialInv, Crash
  PROVE  SerialInv'
<1>1. Overlapping = {} /\ TypeOK /\ MemoryInv /\ DiskInv
  BY DEF SerialInv
<1>2. TypeOK'
  BY <1>1, TypeStep DEF Next
<1>3. MemoryInv' /\ DiskInv' /\ OneCall'
  BY <1>1 DEF Crash, MemoryInv, DiskInv, Recoverable, OneCall
<1>4. \A p \in Procs : CallInv(p)' /\ FlushInv(p)' /\ ConnectInv(p)'
  BY DEF Crash, CallInv, FlushInv, ConnectInv, ConnectSteps, FlushSteps
<1>5. QED
  BY <1>1, <1>2, <1>3, <1>4 DEF SerialInv

LEMMA SerialStep == SerialInv /\ [Next]_vars => SerialInv'
<1> SUFFICES ASSUME SerialInv, [Next]_vars PROVE SerialInv'
  OBVIOUS
<1>1. ASSUME NEW p \in Procs, Start(p) PROVE SerialInv'
  BY <1>1, StartInv
<1>2. ASSUME NEW p \in Procs, FlushStep(p) PROVE SerialInv'
  BY <1>2, OpenInv, FillInv, StatMainInv, DropBackupInv, SetAsideInv, InstallInv,
     LookBackupInv, LookMainInv, PutBackInv, SweepInv, CleanupInv, AdoptInv
     DEF FlushStep
<1>3. ASSUME NEW p \in Procs, ConnectStep(p) PROVE SerialInv'
  <2>1. ASSUME NEW at \in ConnectSteps, ConnectFails(p, at) PROVE SerialInv'
    BY <2>1, GivesUpInv DEF ConnectFails
  <2>2. QED
    BY <1>3, <2>1, FindMainInv, FindBackupInv, FindTempInv, RecoverInv, DiscardInv,
       TidyInv, LoadInv DEF ConnectStep
<1>4. CASE Crash
  BY <1>4, CrashInv
<1>5. CASE UNCHANGED vars
  BY <1>5 DEF vars, SerialInv, TypeOK, OneCall, MemoryInv, DiskInv, CallInv, FlushInv,
     ConnectInv, ConnectSteps, Recoverable
<1>6. QED
  BY <1>1, <1>2, <1>3, <1>4, <1>5 DEF Next, Continue

LEMMA SerialInit == Init /\ Overlapping = {} => SerialInv
<1> SUFFICES ASSUME Init, Overlapping = {} PROVE SerialInv
  OBVIOUS
<1>1. TypeOK
  BY TypeInit
<1>2. OneCall /\ MemoryInv /\ DiskInv
  BY ContentFacts DEF Init, OneCall, MemoryInv, DiskInv, Recoverable, Names
<1>3. \A p \in Procs : CallInv(p) /\ FlushInv(p) /\ ConnectInv(p)
  BY DEF Init, CallInv, FlushInv, ConnectInv, ConnectSteps, FlushSteps
<1>4. QED
  BY <1>1, <1>2, <1>3 DEF SerialInv

(* The inductive invariant holds: what each step of a call relies on.       *)
THEOREM SerialCorrect == Overlapping = {} /\ Spec => []SerialInv
BY SerialInit, SerialStep, PTL DEF Spec

(* Every acknowledged write can be recovered, at every moment: through I/O *)
(* errors and crashes, those during a recovery included.                   *)
THEOREM AckedRecoverableCorrect == Overlapping = {} /\ Spec => []AckedRecoverable
<1>1. SerialInv => AckedRecoverable
  BY RecoverableWhole DEF SerialInv, DiskInv, AckedRecoverable
<1>2. QED
  BY <1>1, SerialCorrect, PTL

(* What readers are shown is on disk.                                      *)
THEOREM ReadsAreDurableCorrect == Overlapping = {} /\ Spec => []ReadsAreDurable
<1>1. SerialInv => ReadsAreDurable
  BY RecoverableWhole DEF SerialInv, MemoryInv, ReadsAreDurable
<1>2. QED
  BY <1>1, SerialCorrect, PTL

(* What has been acknowledged is shown to readers.                         *)
THEOREM AckedReadableCorrect == Overlapping = {} /\ Spec => []AckedReadable
<1>1. SerialInv => AckedReadable
  BY DEF SerialInv, MemoryInv, AckedReadable
<1>2. QED
  BY <1>1, SerialCorrect, PTL

-----------------------------------------------------------------------------
(* The flush implements AtomicFlush.  What a restart would load changes    *)
(* only when the temporary file is installed; every other file operation   *)
(* is invisible, and so are the recovery's.                                *)

LEMMA InflightIs ==
  ASSUME OneCall, NEW p \in Procs, pc[p] \in FlushSteps
  PROVE  Inflight = cand[p]
<1>1. Flushing = {p}
  BY DEF OneCall, Flushing, FlushSteps
<1>2. QED
  BY <1>1 DEF Inflight

LEMMA InflightIsPrimed ==
  ASSUME OneCall', NEW p \in Procs, pc'[p] \in FlushSteps
  PROVE  Inflight' = cand'[p]
<1>1. Flushing' = {p}
  BY DEF OneCall, Flushing, FlushSteps
<1>2. QED
  BY <1>1 DEF Inflight

LEMMA RecoverableInstall ==
  ASSUME SerialInv, NEW p \in Procs, Install(p)
  PROVE  \/ Recoverable' = Recoverable
         \/ pc'[p] \in FlushSteps /\ Recoverable' = cand[p]
<1>1. TypeOK /\ FlushInv(p) /\ pc[p] = "install"
  BY DEF SerialInv, Install, Renames, Step
<1>2. CASE Step(p, "install", "sweep") /\ Move("temp", "main")
  <2>1. pc'[p] \in FlushSteps
    BY <1>1, <1>2 DEF Step, TypeOK, FlushSteps
  <2>2. file'["main"] = cand[p] /\ cand[p] # Missing
    BY <1>1, <1>2, MoveFile, ContentFacts DEF FlushInv, Names, TypeOK
  <2>3. QED
    BY <2>1, <2>2 DEF Recoverable
<1>3. CASE UNCHANGED diskVars
  BY <1>3 DEF diskVars, Recoverable
<1>4. QED
  BY <1>2, <1>3 DEF Install, Renames

LEMMA RecoverableFlush ==
  ASSUME SerialInv, NEW p \in Procs, FlushStep(p), ~Install(p)
  PROVE  Recoverable' = Recoverable
<1>1. TypeOK /\ CallInv(p) /\ FlushInv(p)
  BY DEF SerialInv
<1>2. ASSUME UNCHANGED diskVars PROVE Recoverable' = Recoverable
  BY <1>2 DEF diskVars, Recoverable
<1>3. CASE Open(p)
  BY <1>1, <1>2, <1>3 DEF Open, Fails, TypeOK, Names, Recoverable
<1>4. CASE Fill(p)
  <2>1. writing[p] = "temp"
    BY <1>1, <1>4 DEF Fill, Step, CallInv
  <2>2. file'["main"] = file["main"] /\ file'["backup"] = file["backup"]
    BY <1>1, <1>4, <2>1 DEF Fill, Filled, TypeOK, Names
  <2>3. QED
    BY <2>2 DEF Recoverable
<1>5. CASE StatMain(p) \/ LookBackup(p) \/ LookMain(p)
  BY <1>2, <1>5 DEF StatMain, LookBackup, LookMain, Look, Fails
<1>6. CASE DropBackup(p) \/ Sweep(p)
  <2>1. CASE UNCHANGED diskVars
    BY <1>2, <2>1
  <2>2. CASE Remove("backup") /\ pc[p] \in {"dropBackup", "sweep"}
    <3>1. file["main"] # Missing
      BY <1>1, <2>2, ContentFacts DEF FlushInv, TypeOK
    <3>2. file'["main"] = file["main"]
      BY <1>1, <2>2, RemoveFile DEF Names
    <3>3. QED
      BY <3>1, <3>2 DEF Recoverable
  <2>3. QED
    BY <1>6, <2>1, <2>2 DEF DropBackup, Sweep, Removes, Fails, Step
<1>7. CASE SetAside(p)
  <2>1. CASE Step(p, "setAside", "install") /\ Move("main", "backup")
    BY <1>1, <2>1, MoveFile DEF Step, FlushInv, Names, Recoverable
  <2>2. QED
    BY <1>2, <1>7, <2>1 DEF SetAside, Renames
<1>8. CASE PutBack(p)
  <2>1. CASE Step(p, "putBack", "cleanup") /\ Move("backup", "main")
    <3>1. file["main"] = Missing /\ file["backup"] # Missing
      BY <1>1, <2>1 DEF Step, Move, FlushInv
    <3>2. file'["main"] = file["backup"]
      BY <1>1, <2>1, MoveFile DEF Names
    <3>3. QED
      BY <3>1, <3>2 DEF Recoverable
  <2>2. QED
    BY <1>2, <1>8, <2>1 DEF PutBack, Renames
<1>9. CASE Cleanup(p)
  <2>1. CASE Remove("temp")
    BY <1>1, <2>1, RemoveFile DEF Names, Recoverable
  <2>2. QED
    BY <1>2, <1>9, <2>1 DEF Cleanup
<1>10. CASE Adopt(p)
  BY <1>2, <1>10 DEF Adopt
<1>11. QED
  BY <1>3, <1>4, <1>5, <1>6, <1>7, <1>8, <1>9, <1>10 DEF FlushStep

LEMMA RecoverableConnect ==
  ASSUME SerialInv, NEW p \in Procs, ConnectStep(p)
  PROVE  Recoverable' = Recoverable
<1>1. TypeOK /\ ConnectInv(p)
  BY DEF SerialInv
<1>2. ASSUME UNCHANGED diskVars PROVE Recoverable' = Recoverable
  BY <1>2 DEF diskVars, Recoverable
<1>3. CASE Recover(p)
  <2>1. file["main"] = Missing /\ file["backup"] # Missing
    BY <1>1, <1>3 DEF Recover, Step, Move, ConnectInv
  <2>2. file'["main"] = file["backup"]
    BY <1>1, <1>3, MoveFile DEF Recover, Names
  <2>3. QED
    BY <2>1, <2>2 DEF Recoverable
<1>4. CASE Discard(p)
  <2>1. file["main"] # Missing /\ file'["main"] = file["main"]
    BY <1>1, <1>4, RemoveFile DEF Discard, Removes, Step, ConnectInv, Names
  <2>2. QED
    BY <2>1 DEF Recoverable
<1>5. CASE Tidy(p)
  BY <1>1, <1>5, RemoveFile DEF Tidy, Removes, Names, Recoverable
<1>6. CASE Load(p) \/ FindMain(p) \/ FindBackup(p) \/ FindTemp(p)
  BY <1>2, <1>6 DEF Load, FindMain, FindBackup, FindTemp, Look
<1>7. ASSUME NEW at \in ConnectSteps, ConnectFails(p, at) PROVE Recoverable' = Recoverable
  BY <1>2, <1>7 DEF ConnectFails
<1>8. QED
  BY <1>3, <1>4, <1>5, <1>6, <1>7 DEF ConnectStep

LEMMA InflightNone ==
  ASSUME \A q \in Procs : pc[q] \notin FlushSteps
  PROVE  Inflight = None
BY DEF Inflight, Flushing

LEMMA InflightNonePrimed ==
  ASSUME \A q \in Procs : pc'[q] \notin FlushSteps
  PROVE  Inflight' = None
<1>1. Flushing' = {}
  BY DEF Flushing
<1>2. QED
  BY <1>1 DEF Inflight, None

(* A call on its way, alone: no other call is flushing.                    *)
LEMMA AloneNow ==
  ASSUME OneCall, NEW p \in Procs, pc[p] \in Steps, pc[p] \notin FlushSteps
  PROVE  Inflight = None
<1>1. \A q \in Procs : pc[q] \notin FlushSteps
  BY DEF OneCall, Steps, FlushSteps, ConnectSteps
<1>2. QED
  BY <1>1, InflightNone

LEMMA ReturnsToNone ==
  ASSUME TypeOK, OneCall, NEW p \in Procs, pc[p] \in Steps, Returned(p)
  PROVE  Inflight' = None
<1>1. \A q \in Procs : q # p => pc[q] = "idle"
  BY DEF OneCall, Steps, FlushSteps, ConnectSteps
<1>2. \A q \in Procs : pc'[q] = "idle"
  BY <1>1 DEF TypeOK, Returned
<1>3. \A q \in Procs : pc'[q] \notin FlushSteps
  BY <1>2 DEF FlushSteps
<1>4. QED
  BY <1>3, InflightNonePrimed

LEMMA FlushStepPc ==
  ASSUME TypeOK, NEW p \in Procs, FlushStep(p)
  PROVE  pc[p] \in FlushSteps
<1> USE DEF FlushSteps, Step, Fails
<1>1. CASE Open(p) \/ Fill(p) \/ StatMain(p)
  BY <1>1 DEF Open, Fill, StatMain
<1>2. CASE DropBackup(p) \/ SetAside(p) \/ Install(p)
  BY <1>2 DEF DropBackup, SetAside, Install, Removes, Renames
<1>3. CASE LookBackup(p) \/ LookMain(p) \/ PutBack(p)
  BY <1>3 DEF LookBackup, LookMain, PutBack, Renames
<1>4. CASE Sweep(p) \/ Cleanup(p) \/ Adopt(p)
  BY <1>4 DEF Sweep, Cleanup, Adopt, Removes
<1>5. QED
  BY <1>1, <1>2, <1>3, <1>4 DEF FlushStep

(* Until its last step, a flush keeps the state it flushes to itself.      *)
LEMMA FlushGoesOn ==
  ASSUME TypeOK, NEW p \in Procs, FlushStep(p), ~Cleanup(p), ~Adopt(p)
  PROVE  pc'[p] \in FlushSteps /\ cand'[p] = cand[p] /\ acked' = acked
<1> USE DEF FlushSteps, Step, Fails, callVars, TypeOK
<1>1. CASE Open(p)
  BY <1>1 DEF Open
<1>2. CASE Fill(p)
  BY <1>2 DEF Fill
<1>3. CASE StatMain(p)
  BY <1>3 DEF StatMain, Look
<1>4. CASE DropBackup(p) \/ Sweep(p)
  BY <1>4 DEF DropBackup, Sweep, Removes
<1>5. CASE SetAside(p) \/ PutBack(p)
  BY <1>5 DEF SetAside, PutBack, Renames
<1>6. CASE Install(p)
  BY <1>6 DEF Install, Renames
<1>7. CASE LookBackup(p)
  BY <1>7 DEF LookBackup, Look
<1>8. CASE LookMain(p)
  BY <1>8 DEF LookMain, Look
<1>9. QED
  BY <1>1, <1>2, <1>3, <1>4, <1>5, <1>6, <1>7, <1>8 DEF FlushStep

LEMMA AtomicFlushStep ==
  ASSUME SerialInv, SerialInv', NEW p \in Procs, FlushStep(p)
  PROVE  [Atomic!Next]_(Atomic!vars)
<1>1. TypeOK /\ TypeOK' /\ OneCall /\ OneCall' /\ CallInv(p) /\ FlushInv(p)
  BY DEF SerialInv
<1>2. pc[p] \in FlushSteps /\ Inflight = cand[p] /\ pc[p] \in Steps
  BY <1>1, FlushStepPc, InflightIs DEF Steps
<1>3. Inflight # None /\ Inflight \in SUBSET Writes
  BY <1>1, <1>2, ContentFacts DEF TypeOK, None
<1>4. CASE ~Cleanup(p) /\ ~Adopt(p)
  <2>1. Inflight' = Inflight /\ acked' = acked
    BY <1>1, <1>2, <1>4, FlushGoesOn, InflightIsPrimed
  <2>2. CASE Recoverable' = Recoverable
    BY <2>1, <2>2 DEF Atomic!vars
  <2>3. CASE Install(p) /\ Recoverable' = cand[p]
    BY <1>2, <1>3, <2>1, <2>3 DEF Atomic!Next, Atomic!Land
  <2>4. QED
    BY <2>2, <2>3, RecoverableInstall, RecoverableFlush
<1>5. CASE Cleanup(p)
  <2>1. Inflight' = None
    BY <1>1, <1>2, <1>5, ReturnsToNone DEF Cleanup
  <2>2. Recoverable' = Recoverable
    <3>1. ~Install(p)
      BY <1>5 DEF Cleanup, Install, Renames, Step
    <3>2. QED
      BY <3>1, RecoverableFlush
  <2>3. acked' = acked
    BY <1>5 DEF Cleanup
  <2>4. QED
    BY <1>3, <2>1, <2>2, <2>3 DEF Atomic!Next, Atomic!GiveUp
<1>6. CASE Adopt(p)
  <2>1. Inflight' = None
    BY <1>1, <1>2, <1>6, ReturnsToNone DEF Adopt
  <2>2. Recoverable' = Recoverable
    <3>1. ~Install(p)
      BY <1>6 DEF Adopt, Install, Renames, Step
    <3>2. QED
      BY <3>1, RecoverableFlush
  <2>3. Recoverable = Inflight
    BY <1>1, <1>2, <1>3, <1>6 DEF Adopt, FlushInv, Recoverable, None
  <2>4. acked' \in SUBSET Inflight /\ acked \subseteq acked'
    BY <1>1, <1>2, <1>6 DEF Adopt, CallInv, FlushInv
  <2>5. QED
    BY <1>3, <2>1, <2>2, <2>3, <2>4 DEF Atomic!Next, Atomic!Succeed
<1>7. QED
  BY <1>4, <1>5, <1>6

(* The steps of a connect before its flush.                                *)
LEMMA ConnectStepPc ==
  ASSUME TypeOK, NEW p \in Procs, ConnectStep(p)
  PROVE  pc[p] \in ConnectSteps /\ acked' = acked
<1> USE DEF ConnectSteps, Step
<1>1. ASSUME NEW at \in ConnectSteps, ConnectFails(p, at)
      PROVE  pc[p] \in ConnectSteps /\ acked' = acked
  BY <1>1 DEF ConnectFails
<1>2. CASE FindMain(p) \/ FindBackup(p) \/ FindTemp(p)
  BY <1>2 DEF FindMain, FindBackup, FindTemp, Look
<1>3. CASE Recover(p) \/ Load(p)
  BY <1>3 DEF Recover, Load
<1>4. CASE Discard(p) \/ Tidy(p)
  BY <1>4 DEF Discard, Tidy, Removes
<1>5. QED
  BY <1>1, <1>2, <1>3, <1>4 DEF ConnectStep

LEMMA ConnectGoesOn ==
  ASSUME TypeOK, NEW p \in Procs, ConnectStep(p), ~Load(p)
  PROVE  pc'[p] \in ConnectSteps \cup {"idle"} /\
         \A q \in Procs : q # p => pc'[q] = pc[q]
<1> USE DEF ConnectSteps, Step, TypeOK, Returned
<1>1. ASSUME NEW at \in ConnectSteps, ConnectFails(p, at)
      PROVE  pc'[p] = "idle" /\ \A q \in Procs : q # p => pc'[q] = pc[q]
  BY <1>1 DEF ConnectFails
<1>2. CASE FindMain(p) \/ FindBackup(p) \/ FindTemp(p)
  BY <1>2 DEF FindMain, FindBackup, FindTemp
<1>3. CASE Recover(p)
  BY <1>3 DEF Recover, AfterBackup
<1>4. CASE Discard(p) \/ Tidy(p)
  BY <1>4 DEF Discard, Tidy, Removes, AfterBackup
<1>5. QED
  BY <1>1, <1>2, <1>3, <1>4 DEF ConnectStep

(* A flush begins, from a state that includes what has been acknowledged.  *)
LEMMA AtomicBegins ==
  ASSUME SerialInv', NEW p \in Procs, Inflight = None, pc'[p] \in FlushSteps,
         Recoverable' = Recoverable, acked' = acked
  PROVE  Atomic!Next
<1>1. Inflight' = cand'[p]
  BY InflightIsPrimed DEF SerialInv
<1>2. cand'[p] \in SUBSET Writes /\ acked \subseteq cand'[p]
  BY DEF SerialInv, TypeOK, FlushInv
<1>3. QED
  BY <1>1, <1>2 DEF Atomic!Next, Atomic!Begin

LEMMA AtomicConnectStep ==
  ASSUME SerialInv, SerialInv', NEW p \in Procs, ConnectStep(p)
  PROVE  [Atomic!Next]_(Atomic!vars)
<1>1. TypeOK /\ OneCall
  BY DEF SerialInv
<1>2. pc[p] \in ConnectSteps /\ acked' = acked /\ Recoverable' = Recoverable
  BY <1>1, ConnectStepPc, RecoverableConnect
<1>3. Inflight = None
  <2>1. pc[p] \in Steps /\ pc[p] \notin FlushSteps
    BY <1>2 DEF Steps, ConnectSteps, FlushSteps
  <2>2. QED
    BY <1>1, <2>1, AloneNow
<1>4. CASE pc'[p] \in FlushSteps
  BY <1>2, <1>3, <1>4, AtomicBegins
<1>5. CASE pc'[p] \notin FlushSteps
  <2>1. \A q \in Procs : pc'[q] \notin FlushSteps
    <3>1. \A q \in Procs : q # p => pc[q] = "idle"
      BY <1>1, <1>2 DEF OneCall, ConnectSteps
    <3>2. \A q \in Procs : q # p => pc'[q] = pc[q]
      <4>1. CASE Load(p)
        BY <1>1, <4>1 DEF Load, Step, Returned, TypeOK
      <4>2. QED
        BY <1>1, <4>1, ConnectGoesOn
    <3>3. QED
      BY <1>5, <3>1, <3>2 DEF FlushSteps
  <2>2. Inflight' = None
    BY <2>1, InflightNonePrimed
  <2>3. QED
    BY <1>2, <1>3, <2>2 DEF Atomic!vars
<1>6. QED
  BY <1>4, <1>5

LEMMA AtomicStart ==
  ASSUME SerialInv, SerialInv', NEW p \in Procs, Start(p)
  PROVE  [Atomic!Next]_(Atomic!vars)
<1>1. TypeOK /\ Overlapping = {}
  BY DEF SerialInv
<1>2. \A q \in Procs : pc[q] = "idle"
  BY <1>1 DEF Start, StartWrite, StartConnect, StartDisconnect, MayStart
<1>3. Inflight = None
  BY <1>2, InflightNone DEF FlushSteps
<1>4. acked' = acked /\ Recoverable' = Recoverable
  BY DEF Start, StartWrite, StartConnect, StartDisconnect, diskVars, Recoverable
<1>5. CASE StartConnect(p)
  <2>1. \A q \in Procs : pc'[q] \in {"idle", "findMain"}
    BY <1>1, <1>2, <1>5 DEF StartConnect, TypeOK
  <2>2. Inflight' = None
    BY <2>1, InflightNonePrimed DEF FlushSteps
  <2>3. QED
    BY <1>3, <1>4, <2>2 DEF Atomic!vars
<1>6. CASE StartDisconnect(p) \/ \E w \in Writes : StartWrite(p, w)
  <2>1. pc'[p] = "open"
    BY <1>1, <1>6 DEF StartDisconnect, StartWrite, TypeOK
  <2>2. QED
    BY <1>3, <1>4, <2>1, AtomicBegins DEF FlushSteps
<1>7. QED
  BY <1>5, <1>6 DEF Start

LEMMA AtomicCrash ==
  ASSUME SerialInv, Crash
  PROVE  [Atomic!Next]_(Atomic!vars)
<1>1. \A q \in Procs : pc'[q] = "idle"
  BY DEF Crash
<1>2. Inflight' = None
  BY <1>1, InflightNonePrimed DEF FlushSteps
<1>3. acked' = acked /\ Recoverable' = Recoverable
  BY DEF Crash, Recoverable
<1>4. CASE Inflight = None
  BY <1>2, <1>3, <1>4 DEF Atomic!vars
<1>5. CASE Inflight # None
  BY <1>2, <1>3, <1>5 DEF Atomic!Next, Atomic!GiveUp
<1>6. QED
  BY <1>4, <1>5

LEMMA AtomicStep ==
  SerialInv /\ SerialInv' /\ [Next]_vars => [Atomic!Next]_(Atomic!vars)
<1> SUFFICES ASSUME SerialInv, SerialInv', [Next]_vars
             PROVE  [Atomic!Next]_(Atomic!vars)
  OBVIOUS
<1>1. ASSUME NEW p \in Procs, Start(p) PROVE [Atomic!Next]_(Atomic!vars)
  BY <1>1, AtomicStart
<1>2. ASSUME NEW p \in Procs, Continue(p) PROVE [Atomic!Next]_(Atomic!vars)
  BY <1>2, AtomicFlushStep, AtomicConnectStep DEF Continue
<1>3. CASE Crash
  BY <1>3, AtomicCrash
<1>4. CASE UNCHANGED vars
  BY <1>4 DEF vars, Atomic!vars, Recoverable, Inflight, Flushing
<1>5. QED
  BY <1>1, <1>2, <1>3, <1>4 DEF Next

LEMMA AtomicInit == Init => Atomic!Init
<1>1. Init => Recoverable = {}
  BY DEF Init, Recoverable, Names
<1>2. Init => Inflight = None
  BY InflightNone DEF Init, FlushSteps
<1>3. QED
  BY <1>1, <1>2 DEF Init, Atomic!Init

(* The detailed flush implements the atomic one: whichever file operations *)
(* fail, and whenever the process dies.                                    *)
THEOREM FlushIsAtomicCorrect == Overlapping = {} /\ Spec => FlushIsAtomic
<1>1. Overlapping = {} /\ Spec => []SerialInv
  BY SerialCorrect
<1>2. QED
  BY <1>1, AtomicInit, AtomicStep, PTL DEF Spec, FlushIsAtomic, Atomic!Spec
=============================================================================
