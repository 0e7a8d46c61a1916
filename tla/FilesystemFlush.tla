--------------------------- MODULE FilesystemFlush ---------------------------
(***************************************************************************)
(* The filesystem persistence provider: how a store write, a connect and a *)
(* disconnect flush the whole store to one JSON file, through a temporary  *)
(* and a backup file beside it, and how a connect recovers after a crash.  *)
(*                                                                         *)
(* A call runs up to its next file operation, and lets other calls in      *)
(* while the operation is in progress: one step below is one awaited file  *)
(* operation with the code up to the next one.  The process may die at any *)
(* step; it loses its memory and keeps the files.                          *)
(*                                                                         *)
(* A store state is the set of the writes it includes.  What a write does  *)
(* to the records, and when it is rejected, is the subject of ContextStore.*)
(***************************************************************************)
EXTENDS Naturals, FiniteSets

CONSTANTS
  Procs,        \* calls in progress: each element runs one call at a time
  Writes,       \* the writes that may be made, each at most once
  NoFile,       \* marks the content of a file that does not exist
  CutShort,     \* marks the content of a file that is empty or incomplete
  Overlapping,  \* the kinds of call that may be in progress together
  FailingSteps  \* the steps whose file operation may return an I/O error

Kinds == {"write", "connect", "disconnect"}

Names == {"main", "backup", "temp"}

FlushSteps == {"open", "fill", "statMain", "dropBackup", "setAside", "install",
               "lookBackup", "lookMain", "putBack", "sweep", "cleanup", "adopt"}

ConnectSteps == {"findMain", "findBackup", "findTemp", "recover", "discard",
                 "tidy", "load"}

Steps == FlushSteps \cup ConnectSteps

ASSUME MarksAssumption ==
  NoFile \notin Writes /\ CutShort \notin Writes /\ NoFile # CutShort
ASSUME OverlappingAssumption == Overlapping \subseteq Kinds
ASSUME FailingAssumption     == FailingSteps \subseteq Steps

VARIABLES
  file,        \* the content of each file
  writing,     \* the name of the file each call has open for writing
  mem,         \* #state of the provider
  connected,   \* #connected
  opened,      \* whether this process has been connected: it may hold a store
  pc,          \* the step each call is at
  op,          \* the kind of each call
  cand,        \* the state each call flushes
  own,         \* the write each call makes, as a set
  seen,        \* the files each call has found to exist
  fresh,       \* history: the writes not made yet
  acked        \* history: the writes reported successful

diskVars    == <<file, writing>>
processVars == <<mem, connected, opened>>
callVars    == <<op, cand, own>>
vars == <<file, writing, mem, connected, opened, pc, op, cand, own, seen,
          fresh, acked>>

Missing == {NoFile}
Torn    == {CutShort}
Content == (SUBSET Writes) \cup {Missing, Torn}

Init ==
  /\ file      = [n \in Names |-> Missing]
  /\ writing   = [p \in Procs |-> "none"]
  /\ mem       = {}
  /\ connected = FALSE
  /\ opened    = FALSE
  /\ pc        = [p \in Procs |-> "idle"]
  /\ op        = [p \in Procs |-> "none"]
  /\ cand      = [p \in Procs |-> {}]
  /\ own       = [p \in Procs |-> {}]
  /\ seen      = [p \in Procs |-> {}]
  /\ fresh     = Writes
  /\ acked     = {}

(* The state the next connect would load, were the process to die now.     *)
Recoverable ==
  CASE file["main"]   # Missing -> file["main"]
    [] file["main"]   = Missing /\ file["backup"] # Missing -> file["backup"]
    [] OTHER -> {}

-----------------------------------------------------------------------------
(* File operations.                                                        *)

(* rename: the file moves with its content and with whoever writes to it,  *)
(* over a file that had the new name.                                      *)
Move(from, to) ==
  /\ file[from] # Missing
  /\ file'    = [file EXCEPT ![to] = file[from], ![from] = Missing]
  /\ writing' = [q \in Procs |->
                  CASE writing[q] = from -> to
                    [] writing[q] = to   -> "none"
                    [] OTHER             -> writing[q]]

(* rm with force: no error if there is no such file.                       *)
Remove(name) ==
  /\ file'    = [file EXCEPT ![name] = Missing]
  /\ writing' = [q \in Procs |-> IF writing[q] = name THEN "none" ELSE writing[q]]

Step(p, at, next) ==
  /\ pc[p] = at
  /\ pc' = [pc EXCEPT ![p] = next]

(* The file operation of a step returns an error and does nothing.         *)
Fails(p, at, next) ==
  /\ at \in FailingSteps
  /\ Step(p, at, next)
  /\ UNCHANGED <<diskVars, processVars, callVars, seen, fresh, acked>>

Look(p, name) ==
  /\ seen' = [seen EXCEPT ![p] = IF file[name] = Missing THEN @ \ {name}
                                                         ELSE @ \cup {name}]
  /\ UNCHANGED <<diskVars, processVars, callVars, fresh, acked>>

Removes(p, at, name, next) ==
  /\ Step(p, at, next)
  /\ Remove(name)
  /\ UNCHANGED <<processVars, callVars, seen, fresh, acked>>

(* A rename, which fails if there is nothing to rename.                    *)
Renames(p, at, from, to, next, onError) ==
  /\ \/ Step(p, at, next) /\ Move(from, to)
     \/ /\ at \in FailingSteps \/ file[from] = Missing
        /\ Step(p, at, onError)
        /\ UNCHANGED diskVars
  /\ UNCHANGED <<processVars, callVars, seen, fresh, acked>>

(* What a call leaves when it returns.                                     *)
Returned(p) ==
  /\ pc'   = [pc   EXCEPT ![p] = "idle"]
  /\ op'   = [op   EXCEPT ![p] = "none"]
  /\ cand' = [cand EXCEPT ![p] = {}]
  /\ own'  = [own  EXCEPT ![p] = {}]
  /\ seen' = [seen EXCEPT ![p] = {}]

MayStart(p, kind) ==
  /\ pc[p] = "idle"
  /\ \A q \in Procs : pc[q] = "idle" \/ {kind, op[q]} \subseteq Overlapping

-----------------------------------------------------------------------------
(* Faulty variants of the definitions below.  Nothing uses them: each is   *)
(* what a definition would be with a plausible bug, and the project file   *)
(* names the property that catches it.                                     *)

\* A load that takes a file that does not exist for an empty one.
LoadWithoutCheck(p) ==
  /\ Step(p, "load", "open")
  /\ cand' = [cand EXCEPT ![p] = file["main"]]
  /\ UNCHANGED <<diskVars, processVars, op, own, seen, fresh, acked>>

\* A flush that removes the file to make room, keeping no backup.
SetAsideByRemoving(p) == Removes(p, "setAside", "main", "install")

\* A write applied to the state in memory itself.
StartWriteInPlace(p, w) ==
  /\ MayStart(p, "write")
  /\ opened
  /\ w \in fresh
  /\ fresh' = fresh \ {w}
  /\ mem'   = mem \cup {w}
  /\ cand'  = [cand EXCEPT ![p] = mem']
  /\ own'   = [own EXCEPT ![p] = {w}]
  /\ op'    = [op EXCEPT ![p] = "write"]
  /\ pc'    = [pc EXCEPT ![p] = "open"]
  /\ UNCHANGED <<diskVars, connected, opened, seen, acked>>

\* A flush whose caller does not replace the state in memory.
AdoptOnDiskOnly(p) ==
  /\ pc[p] = "adopt"
  /\ connected' = (op[p] = "connect" \/ (connected /\ op[p] # "disconnect"))
  /\ opened'    = (opened \/ op[p] = "connect")
  /\ acked'     = acked \cup own[p]
  /\ Returned(p)
  /\ UNCHANGED <<diskVars, mem, fresh>>

\* A recovery that puts the temporary file in place of the missing one.
RecoverFromTemp(p) ==
  /\ Step(p, "recover", "load")
  /\ Move("temp", "main")
  /\ UNCHANGED <<processVars, callVars, seen, fresh, acked>>

\* An error path that looks again when it could not put the file back.
PutBackRetrying(p) ==
  Renames(p, "putBack", "backup", "main", "cleanup", "lookBackup")

-----------------------------------------------------------------------------
(* persistState: write the temporary file, move the file aside, install    *)
(* the temporary file in its place, remove the backup.                     *)

(* writeFile opens the temporary file and cuts it to nothing ...           *)
Open(p) ==
  \/ /\ Step(p, "open", "fill")
     /\ file'    = [file EXCEPT !["temp"] = Torn]
     /\ writing' = [writing EXCEPT ![p] = "temp"]
     /\ UNCHANGED <<processVars, callVars, seen, fresh, acked>>
  \/ Fails(p, "open", "cleanup")

(* ... and fills it, wherever it has been renamed to meanwhile.  Over what *)
(* another call has put there first, the longer text leaves a tail.        *)
Filled(p) ==
  IF writing[p] = "none"
    THEN {file}
    ELSE {[file EXCEPT ![writing[p]] = c] :
            c \in {cand[p]} \cup IF file[writing[p]] = Torn THEN {} ELSE {Torn}}

Fill(p) ==
  /\ \/ Step(p, "fill", "statMain") /\ file' \in Filled(p)
     \/ "fill" \in FailingSteps /\ Step(p, "fill", "cleanup") /\ UNCHANGED file
  /\ writing' = [writing EXCEPT ![p] = "none"]
  /\ UNCHANGED <<processVars, callVars, seen, fresh, acked>>

StatMain(p) ==
  \/ /\ Step(p, "statMain", IF file["main"] = Missing THEN "install" ELSE "dropBackup")
     /\ Look(p, "main")
  \/ Fails(p, "statMain", "cleanup")

DropBackup(p) ==
  \/ Removes(p, "dropBackup", "backup", "setAside")
  \/ Fails(p, "dropBackup", "cleanup")

SetAside(p) == Renames(p, "setAside", "main", "backup", "install", "cleanup")

(* When the new file cannot be installed, the one set aside is put back.   *)
Install(p) ==
  Renames(p, "install", "temp", "main", "sweep",
          IF "main" \in seen[p] THEN "lookBackup" ELSE "cleanup")

LookBackup(p) ==
  \/ Step(p, "lookBackup", "lookMain") /\ Look(p, "backup")
  \/ Fails(p, "lookBackup", "cleanup")

LookMain(p) ==
  \/ /\ Step(p, "lookMain",
             IF "backup" \in seen[p] /\ file["main"] = Missing
               THEN "putBack" ELSE "cleanup")
     /\ Look(p, "main")
  \/ Fails(p, "lookMain", "cleanup")

PutBack(p) == Renames(p, "putBack", "backup", "main", "cleanup", "cleanup")

Sweep(p) ==
  \/ Removes(p, "sweep", "backup", "adopt")
  \/ Fails(p, "sweep", "cleanup")

(* Every error ends here; the removal is a best effort, and the call       *)
(* returns a failure whatever has reached the disk.                        *)
Cleanup(p) ==
  /\ pc[p] = "cleanup"
  /\ \/ Remove("temp")
     \/ "cleanup" \in FailingSteps /\ UNCHANGED diskVars
  /\ Returned(p)
  /\ UNCHANGED <<processVars, fresh, acked>>

(* The caller of persistState resumes.                                     *)
Adopt(p) ==
  /\ pc[p] = "adopt"
  /\ mem'       = IF op[p] = "disconnect" THEN mem ELSE cand[p]
  /\ connected' = (op[p] = "connect" \/ (connected /\ op[p] # "disconnect"))
  /\ opened'    = (opened \/ op[p] = "connect")
  /\ acked'     = acked \cup own[p]
  /\ Returned(p)
  /\ UNCHANGED <<diskVars, fresh>>

-----------------------------------------------------------------------------
(* The calls.                                                              *)

(* create, update or delete: applied to a copy of the state in memory,     *)
(* which replaces it once it is on disk.  The store does not ask whether   *)
(* the provider is still connected.                                        *)
StartWrite(p, w) ==
  /\ MayStart(p, "write")
  /\ opened
  /\ w \in fresh
  /\ fresh' = fresh \ {w}
  /\ cand'  = [cand EXCEPT ![p] = mem \cup {w}]
  /\ own'   = [own EXCEPT ![p] = {w}]
  /\ op'    = [op EXCEPT ![p] = "write"]
  /\ pc'    = [pc EXCEPT ![p] = "open"]
  /\ UNCHANGED <<diskVars, processVars, seen, acked>>

StartDisconnect(p) ==
  /\ MayStart(p, "disconnect")
  /\ connected
  /\ cand' = [cand EXCEPT ![p] = mem]
  /\ op'   = [op EXCEPT ![p] = "disconnect"]
  /\ pc'   = [pc EXCEPT ![p] = "open"]
  /\ UNCHANGED <<diskVars, processVars, own, seen, fresh, acked>>

StartConnect(p) ==
  /\ MayStart(p, "connect")
  /\ ~connected
  /\ op' = [op EXCEPT ![p] = "connect"]
  /\ pc' = [pc EXCEPT ![p] = "findMain"]
  /\ UNCHANGED <<diskVars, processVars, cand, own, seen, fresh, acked>>

(* An error before the flush ends a connect on the spot: an I/O error, a   *)
(* backup that is no longer there to rename, or a torn file, which is      *)
(* storage-corrupted.                                                      *)
ConnectFails(p, at) ==
  /\ pc[p] = at
  /\ \/ at \in FailingSteps
     \/ at = "recover" /\ file["backup"] = Missing
     \/ at = "load" /\ file["main"] = Torn
  /\ Returned(p)
  /\ UNCHANGED <<diskVars, processVars, fresh, acked>>

FindMain(p) == Step(p, "findMain", "findBackup") /\ Look(p, "main")

FindBackup(p) == Step(p, "findBackup", "findTemp") /\ Look(p, "backup")

(* What recoverWriteArtifacts does about the files it has found.           *)
FindTemp(p) ==
  /\ Step(p, "findTemp",
          CASE "backup" \in seen[p] /\ "main" \notin seen[p]   -> "recover"
            [] {"backup", "main"} \subseteq seen[p]            -> "discard"
            [] "backup" \notin seen[p] /\ file["temp"] # Missing -> "tidy"
            [] OTHER                                           -> "load")
  /\ Look(p, "temp")

AfterBackup(p) == IF "temp" \in seen[p] THEN "tidy" ELSE "load"

Recover(p) ==
  /\ Step(p, "recover", AfterBackup(p))
  /\ Move("backup", "main")
  /\ UNCHANGED <<processVars, callVars, seen, fresh, acked>>

Discard(p) == Removes(p, "discard", "backup", AfterBackup(p))

Tidy(p) == Removes(p, "tidy", "temp", "load")

(* A file that does not exist is an empty store.                           *)
Load(p) ==
  /\ Step(p, "load", "open")
  /\ file["main"] # Torn
  /\ cand' = [cand EXCEPT ![p] = IF file["main"] = Missing THEN {} ELSE file["main"]]
  /\ UNCHANGED <<diskVars, processVars, op, own, seen, fresh, acked>>

-----------------------------------------------------------------------------
(* The process dies, and another starts, not yet connected.                *)
Crash ==
  /\ mem' = {} /\ connected' = FALSE /\ opened' = FALSE
  /\ pc'      = [p \in Procs |-> "idle"]
  /\ op'      = [p \in Procs |-> "none"]
  /\ cand'    = [p \in Procs |-> {}]
  /\ own'     = [p \in Procs |-> {}]
  /\ seen'    = [p \in Procs |-> {}]
  /\ writing' = [p \in Procs |-> "none"]
  /\ UNCHANGED <<file, fresh, acked>>

Start(p) ==
  \/ \E w \in Writes : StartWrite(p, w)
  \/ StartConnect(p)
  \/ StartDisconnect(p)

FlushStep(p) ==
  \/ Open(p) \/ Fill(p) \/ StatMain(p) \/ DropBackup(p) \/ SetAside(p)
  \/ Install(p) \/ LookBackup(p) \/ LookMain(p) \/ PutBack(p) \/ Sweep(p)
  \/ Cleanup(p) \/ Adopt(p)

ConnectStep(p) ==
  \/ \E at \in ConnectSteps : ConnectFails(p, at)
  \/ FindMain(p) \/ FindBackup(p) \/ FindTemp(p) \/ Recover(p) \/ Discard(p)
  \/ Tidy(p) \/ Load(p)

Continue(p) == FlushStep(p) \/ ConnectStep(p)

Next ==
  \/ \E p \in Procs : Start(p) \/ Continue(p)
  \/ Crash

Spec == Init /\ [][Next]_vars

(* A file operation in progress ends, with or without an error.            *)
FairSpec == Spec /\ \A p \in Procs : WF_vars(Continue(p))

-----------------------------------------------------------------------------
(* Properties.                                                             *)

(* Every variable keeps the shape of what it stands for.                   *)
TypeOK ==
  /\ file      \in [Names -> Content]
  /\ writing   \in [Procs -> Names \cup {"none"}]
  /\ mem       \in SUBSET Writes
  /\ connected \in BOOLEAN
  /\ opened    \in BOOLEAN
  /\ pc        \in [Procs -> Steps \cup {"idle"}]
  /\ op        \in [Procs -> Kinds \cup {"none"}]
  /\ cand      \in [Procs -> SUBSET Writes]
  /\ own       \in [Procs -> SUBSET Writes]
  /\ seen      \in [Procs -> SUBSET Names]
  /\ fresh     \in SUBSET Writes
  /\ acked     \in SUBSET Writes

(* A write the store has reported successful survives whatever follows:    *)
(* I/O errors, a crash at any step, a crash during the recovery.           *)
AckedRecoverable == Recoverable # Torn /\ acked \subseteq Recoverable

(* Readers are never shown a write that a crash would take back.           *)
ReadsAreDurable == opened => Recoverable # Torn /\ mem \subseteq Recoverable

(* A connected provider shows every write it has reported successful.      *)
AckedReadable == connected => acked \subseteq mem

(* Every call comes back to its caller.                                    *)
CallsReturn == \A p \in Procs : pc[p] # "idle" ~> pc[p] = "idle"

(* The flush is atomic: the state a restart would load changes only to the *)
(* state of the flush in progress, in one step, and a call succeeds only   *)
(* after that.                                                             *)
None == Missing

Flushing == {p \in Procs : pc[p] \in FlushSteps}

Inflight == IF Flushing = {} THEN None ELSE cand[CHOOSE p \in Flushing : TRUE]

Atomic == INSTANCE AtomicFlush WITH
  durable   <- Recoverable,
  inflight  <- Inflight,
  confirmed <- acked

FlushIsAtomic == Atomic!Spec

-----------------------------------------------------------------------------
(* The inductive invariant, for calls that do not overlap: what each step  *)
(* may rely on.  Only one call is in progress; the file is absent only     *)
(* while its content, if it had any, is in the backup; and what a flush    *)
(* is about to install includes every write that has been acknowledged.    *)

OneCall == \A p, q \in Procs : pc[p] # "idle" /\ pc[q] # "idle" => p = q

MemoryInv ==
  /\ connected => opened
  /\ opened => acked \subseteq mem /\ mem \subseteq Recoverable

DiskInv ==
  /\ file["main"] # Torn
  /\ file["backup"] # Torn
  /\ acked \subseteq Recoverable

CallInv(p) ==
  /\ writing[p] = IF pc[p] = "fill" THEN "temp" ELSE "none"
  /\ pc[p] = "idle" => op[p] = "none"
  /\ op[p] # "write" => own[p] = {}
  /\ op[p] \in {"write", "disconnect"} => opened
  /\ own[p] \subseteq cand[p] \/ pc[p] \notin FlushSteps

FlushInv(p) ==
  /\ pc[p] \in FlushSteps => /\ acked \subseteq cand[p]
                             /\ opened => mem \subseteq cand[p]
  /\ pc[p] = "fill" => file["temp"] = Torn
  /\ pc[p] \in {"statMain", "dropBackup", "setAside", "install"} =>
       file["temp"] = cand[p]
  /\ pc[p] \in {"dropBackup", "setAside"} => file["main"] # Missing
  /\ pc[p] \in {"install", "lookBackup", "lookMain", "putBack"} =>
       file["main"] = Missing
  /\ pc[p] \in {"sweep", "adopt"} => file["main"] = cand[p]

ConnectInv(p) ==
  /\ pc[p] \in ConnectSteps => op[p] = "connect"
  /\ pc[p] \in {"findBackup", "findTemp"} =>
       ("main" \in seen[p] <=> file["main"] # Missing)
  /\ pc[p] = "findTemp" => ("backup" \in seen[p] <=> file["backup"] # Missing)
  /\ pc[p] = "recover" => file["main"] = Missing
  /\ pc[p] = "discard" => file["main"] # Missing
  /\ pc[p] \in {"tidy", "load"} =>
       file["main"] # Missing \/ file["backup"] = Missing

SerialInv ==
  /\ Overlapping = {}
  /\ TypeOK /\ OneCall /\ MemoryInv /\ DiskInv
  /\ \A p \in Procs : CallInv(p) /\ FlushInv(p) /\ ConnectInv(p)
=============================================================================
