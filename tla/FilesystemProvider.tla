-------------------------- MODULE FilesystemProvider --------------------------
(***************************************************************************)
(* The sessions and transactions of the filesystem persistence provider.   *)
(* A connect, a disconnect, a commit and a direct write each write the     *)
(* whole file and wait for it; FilesystemFlush has that write step by step *)
(* and here it is one step, which succeeds or fails.  A write of the file  *)
(* that fails may have replaced it all the same: its last operation comes  *)
(* after the new file is in place.                                         *)
(*                                                                         *)
(* Bound: the file is written by one call at a time.  What becomes of two  *)
(* overlapping writes is the subject of FilesystemFlush; everything else   *)
(* does run while the file is written.                                     *)
(***************************************************************************)
EXTENDS ProviderResources

StartFlush(who, records) ==
  /\ flush = "none"
  /\ flush' = who
  /\ cand' = records

(* persistState succeeds and replaceCurrentState follows.                  *)
Flushed(who) ==
  /\ flush = who
  /\ flush' = "none"
  /\ disk' = cand
  /\ mem' = [mem EXCEPT ![0] = cand]
  /\ torn' = FALSE
  /\ UNCHANGED <<cand, late, raced, unsure>>

FlushFailed(who) ==
  /\ flush = who
  /\ flush' = "none"
  /\ disk' \in {disk, cand}
  /\ unsure' = IF who \in Writers THEN unsure \cup {who} ELSE unsure
  /\ torn' = TRUE
  /\ UNCHANGED <<mem, cand, late, raced>>

(* connect loads the file, writes it back and then takes it over.          *)
FsConnect ==
  /\ ~connected
  /\ epoch < MaxConnects
  /\ StartFlush("connect", disk)
  /\ UNCHANGED <<backend, connectionVars, dataVars, sessionVars, storeTxVars,
                 txVars, commitVars, callVars, databaseVars, historyVars>>

FsConnected ==
  /\ Flushed("connect")
  /\ connected' = TRUE
  /\ epoch' = epoch + 1
  /\ UNCHANGED <<connects, overlapped, backend, sessionVars, storeTxVars,
                 txVars, commitVars, callVars, databaseVars>>

(* disconnect writes #state first and closes what is open afterwards.      *)
FsDisconnect ==
  /\ connected
  /\ StartFlush("disconnect", mem[0])
  /\ UNCHANGED <<backend, connectionVars, dataVars, sessionVars, storeTxVars,
                 txVars, commitVars, callVars, databaseVars, historyVars>>

\* A faulty variant: the sessions are forgotten and not closed.
FsDisconnectedKeepingSessions ==
  /\ flush = "disconnect"
  /\ flush' = "none"
  /\ disk' = cand
  /\ torn' = FALSE
  /\ tState' = [t \in Txs |-> IF tState[t] = "active" THEN "closed" ELSE tState[t]]
  /\ sessions' = {} /\ transactions' = {}
  /\ connected' = FALSE
  /\ UNCHANGED <<mem, cand, epoch, connects, overlapped, backend, storeTxVars,
                 commitVars, callVars, databaseVars, sState, sEpoch, owner,
                 txSession, late, raced, unsure>>

FsDisconnected ==
  /\ flush = "disconnect"
  /\ flush' = "none"
  /\ disk' = cand
  /\ torn' = FALSE
  /\ ForceClose
  /\ connected' = FALSE
  /\ UNCHANGED <<mem, cand, epoch, connects, overlapped, backend, storeTxVars,
                 commitVars, callVars, databaseVars>>

FsFlushFailed ==
  /\ FlushFailed("connect") \/ FlushFailed("disconnect")
  /\ UNCHANGED <<backend, connectionVars, sessionVars, storeTxVars, txVars,
                 commitVars, callVars, databaseVars>>

(* FilesystemPersistenceSession.beginTransaction: nothing is awaited.      *)
FsBeginTransaction(t, s) ==
  /\ tState[t] = "unused"
  /\ Usable(s)
  /\ Snapshot(t, s)
  /\ tState' = [tState EXCEPT ![t] = "active"]
  /\ transactions' = transactions \cup {t}
  /\ UNCHANGED <<backend, connectionVars, dataVars, sessionVars, wState,
                 touched, commitVars, callVars, flushVars, databaseVars,
                 historyVars>>

(* A commit without a conflict writes the working copy of this moment, and *)
(* leaves the store transaction active until the file is written.          *)
FsStartCommit(t) ==
  /\ wState[t] = "active"
  /\ Conflicts(t) = {}
  /\ StartFlush(t, Working(t))
  /\ commitPc' = [commitPc EXCEPT ![t] = "flushing"]

FsRefuse(t) ==
  /\ wState[t] = "active" => Conflicts(t) # {}
  /\ commitPc' = [commitPc EXCEPT ![t] = IF wState[t] = "active" THEN "conflict" ELSE "closed"]
  /\ UNCHANGED flushVars

(* commit, up to its first wait.  Bound: no commit of the transaction      *)
(* waits already.                                                          *)
FsCommit(t) ==
  /\ tState[t] = "active"
  /\ commitPc[t] = "none"
  /\ FsStartCommit(t) \/ FsRefuse(t)
  /\ Race(t, rollbackPc[t])
  /\ UNCHANGED <<backend, connectionVars, dataVars, sessionVars, storeTxVars,
                 txVars, rollbackPc, answer, closing, callVars, databaseVars, late,
                 unsure, torn>>

(* persistTransactionCommit.                                               *)
FsPersisted(t) ==
  /\ \/ Flushed(t)     /\ commitPc' = [commitPc EXCEPT ![t] = "landed"]
     \/ FlushFailed(t) /\ commitPc' = [commitPc EXCEPT ![t] = "io"]
  /\ UNCHANGED <<backend, connectionVars, sessionVars, storeTxVars, txVars,
                 rollbackPc, answer, closing, callVars, databaseVars>>

(* The continuation of the commit marks the store transaction, whatever    *)
(* its state is by then.                                                   *)
FsLanded(t) ==
  /\ commitPc[t] = "landed"
  /\ commitPc' = [commitPc EXCEPT ![t] = "ok"]
  /\ wState' = [wState EXCEPT ![t] = "committed"]
  /\ UNCHANGED <<backend, connectionVars, dataVars, sessionVars, base, touched,
                 txVars, rollbackPc, answer, closing, callVars, flushVars,
                 databaseVars, historyVars>>

\* A faulty variant: the code of the store is passed on as it is.
FsCommitFailedUnmapped(t) == CommitFailed(t, commitPc[t])

FsCommitFailed(t) ==
  CommitFailed(t, IF commitPc[t] = "conflict" THEN "version-conflict" ELSE "io-failure")

FsCallRun(c, k) ==
  /\ callPc[c] = "opened"
  /\ StartFlush(c, Put(mem[0], k, c))
  /\ callPc' = [callPc EXCEPT ![c] = "flushing"]
  /\ UNCHANGED <<backend, connectionVars, dataVars, sessionVars, storeTxVars,
                 txVars, commitVars, callSession, databaseVars, historyVars>>

FsCallFlushed(c) ==
  /\ \/ Flushed(c)     /\ callPc' = [callPc EXCEPT ![c] = "written"]
     \/ FlushFailed(c) /\ callPc' = [callPc EXCEPT ![c] = "failed"]
  /\ UNCHANGED <<backend, connectionVars, sessionVars, storeTxVars, txVars,
                 commitVars, callSession, databaseVars>>

FilesystemNext ==
  /\ backend = "filesystem"
  /\ \/ FsConnected \/ FsDisconnected \/ FsFlushFailed
     \/ \E t \in Txs, s \in Sessions : FsBeginTransaction(t, s)
     \/ \E t \in Txs :
          FsCommit(t) \/ FsPersisted(t) \/ FsLanded(t) \/ FsCommitFailed(t)
     \/ \E c \in Calls, k \in Keys : FsCallRun(c, k)
     \/ \E c \in Calls : FsCallFlushed(c)
=============================================================================
