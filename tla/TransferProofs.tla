---------------------------- MODULE TransferProofs ----------------------------
(***************************************************************************)
(* The transfer's safety, for any set of files with any declared sizes,    *)
(* any number of workers, concurrent requests and downloads, any bound on  *)
(* faults and on the queue.  Type correctness comes first, and needs       *)
(* nothing else; so does the fate of the lock (NoStrayLock).               *)
(*                                                                         *)
(* The rest is for every instance in which an encryption does not outlive  *)
(* the lock's TTL.                                                         *)
(* None of the invariants is inductive alone.  The lock makes the attempt  *)
(* in progress the only one (LockHeld); an attempt in progress means that  *)
(* nothing has been published (AttemptInv); and since no step brings       *)
(* `uploading` back, no attempt starts after the publication (KeyLife).    *)
(* So objects are written only before a key is stored, and after that they *)
(* only disappear (Stored, Streaming).  And while nothing is published and *)
(* nothing fails, nobody shreds the staging files of a complete upload     *)
(* (Untampered).                                                           *)
(***************************************************************************)
EXTENDS TransferSystem, TLAPS

USE DEF TRANSFER_STATUSES, Absent, EncryptPC

LEMMA FlushType ==
    ASSUME NEW S, NEW loaded, NEW assigned \in S, NEW stored \in S
    PROVE  Flush(loaded, assigned, stored) \in S
  BY DEF Flush

LEMMA DeleteTransferType ==
    ASSUME TypeOK, delete_transfer
    PROVE  objects' \in [Files -> Nat] /\ purged' \in BOOLEAN /\ faults' \in Nat
  <1>1. CASE DeleteObjects
    BY <1>1 DEF DeleteObjects, TypeOK
  <1>2. CASE DeleteObjectsFails
    BY <1>2 DEF DeleteObjectsFails, Fault, TypeOK
  <1> QED
    BY <1>1, <1>2 DEF delete_transfer

LEMMA InitTypeOK == Init => TypeOK
  <1> SUFFICES ASSUME Init PROVE TypeOK
    OBVIOUS
  <1>1. (CHOOSE f \in Files : TRUE) \in Files
    BY FilesAssumption
  <1>2. patchFile \in [Patchers -> Files]
    BY <1>1 DEF Init
  <1>3. /\ staged \in [Files -> Nat \cup {Absent}]
        /\ \A f \in Files : staged[f] <= SizeBytes[f] + Slack
    BY SizeAssumption, ChunkAssumption DEF Init
  <1>4. todo \in [Workers -> SUBSET Files] /\ seen \in [Workers -> TRANSFER_STATUSES]
    BY DEF Init
  <1> QED
    BY <1>2, <1>3, <1>4 DEF Init, TypeOK

(* What an append or a truncation leaves is within the slack. *)
LEMMA StagedType ==
    ASSUME TypeOK, NEW f \in Files, NEW n \in Nat, n <= SizeBytes[f] + Slack,
           staged' = [staged EXCEPT ![f] = n]
    PROVE  /\ staged' \in [Files -> Nat \cup {Absent}]
           /\ \A g \in Files : staged'[g] <= SizeBytes[g] + Slack
  BY DEF TypeOK

(* The capped append. *)
LEMMA AppendedBound ==
    ASSUME TypeOK, NEW f \in Files, NEW n \in 0..MaxChunk
    PROVE  /\ Appended(f, n) \in Nat
           /\ Appended(f, n) <= SizeBytes[f] + Slack
           /\ CurrentSize(f) <= SizeBytes[f] + Slack => Appended(f, n) >= CurrentSize(f)
  <1>1. CurrentSize(f) \in Nat /\ SizeBytes[f] \in Nat /\ Slack \in Nat /\ n \in Nat
    BY SizeAssumption, ChunkAssumption DEF TypeOK, CurrentSize
  <1> QED
    BY <1>1 DEF Appended

LEMMA TusTypeOK == TypeOK /\ TusNext => TypeOK'
  <1> SUFFICES ASSUME TypeOK, NEW p \in Patchers,
                      \/ \E f \in Files : PatchLoad(p, f)
                      \/ PatchAppend(p)
                      \/ PatchTruncate(p)
                      \/ PatchMismatch(p)
                      \/ PatchComplete(p)
                      \/ PatchLost(p)
               PROVE  TypeOK'
    BY DEF TusNext, PatchStep
  <1> DEFINE f == patchFile[p]
  <1>0. f \in Files
    BY DEF TypeOK
  <1>1. ASSUME NEW g \in Files, PatchLoad(p, g) PROVE TypeOK'
    BY <1>1 DEF PatchLoad, TypeOK, rowVars, stagingVars, redisVars, encryptVars,
         janitorVars, requestVars, historyVars
  <1>2. CASE PatchAppend(p)
    <2>1. PICK n \in 0..MaxChunk :
            /\ dir' = TRUE
            /\ staged' = [staged EXCEPT ![f] = Appended(f, n)]
            /\ \E q \in {"over", "full", "idle"} : patch' = [patch EXCEPT ![p] = q]
            /\ UNCHANGED <<rowVars, pastExpiry, objects, redisVars, encryptVars,
                           janitorVars, patchFile, requestVars, stream, faults,
                           historyVars>>
      BY <1>2 DEF PatchAppend
    <2>2. /\ staged' \in [Files -> Nat \cup {Absent}]
          /\ \A g \in Files : staged'[g] <= SizeBytes[g] + Slack
      BY <1>0, <2>1, AppendedBound, StagedType
    <2> QED
      BY <2>1, <2>2 DEF TypeOK, rowVars, redisVars, encryptVars, janitorVars,
           requestVars, historyVars
  <1>3. CASE PatchTruncate(p)
    <2>1. /\ staged' \in [Files -> Nat \cup {Absent}]
          /\ \A g \in Files : staged'[g] <= SizeBytes[g] + Slack
      <3>1. CASE UNCHANGED staged
        BY <3>1 DEF TypeOK
      <3>2. CASE staged' = [staged EXCEPT ![f] = SizeBytes[f]]
        <4>1. SizeBytes[f] \in Nat /\ SizeBytes[f] <= SizeBytes[f] + Slack
          BY <1>0, SizeAssumption, ChunkAssumption
        <4> QED
          BY <1>0, <3>2, <4>1, StagedType
      <3> QED
        BY <1>3, <3>1, <3>2 DEF PatchTruncate
    <2> QED
      BY <1>3, <2>1 DEF PatchTruncate, TypeOK, rowVars, redisVars, encryptVars,
           janitorVars, requestVars, historyVars
  <1> USE DEF TypeOK, rowVars, stagingVars, redisVars, encryptVars,
              janitorVars, requestVars, historyVars
  <1>4. CASE PatchMismatch(p)
    BY <1>4 DEF PatchMismatch
  <1>5. CASE PatchComplete(p)
    BY <1>5 DEF PatchComplete
  <1>6. CASE PatchLost(p)
    BY <1>6 DEF PatchLost, Fault
  <1> QED
    BY <1>1, <1>2, <1>3, <1>4, <1>5, <1>6

LEMMA EncryptTypeOK == TypeOK /\ EncryptNext => TypeOK'
  <1> USE DEF TypeOK, rowVars, stagingVars, redisVars, janitorVars, patchVars,
              requestVars, historyVars, Goto, Fault
  <1>1. ASSUME TypeOK, NEW w \in Workers, EncryptStep(w) PROVE TypeOK'
    <2>1. CASE EncryptPop(w)
      BY <1>1, <2>1 DEF EncryptPop
    <2>2. CASE EncryptLock(w)
      BY <1>1, <2>2 DEF EncryptLock
    <2>3. CASE EncryptLoad(w)
      BY <1>1, <2>3 DEF EncryptLoad
    <2>4. ASSUME NEW f \in Files, EncryptFile(w, f) PROVE TypeOK'
      BY <1>1, <2>4 DEF EncryptFile
    <2>5. ASSUME NEW f \in Files, EncryptRefuse(w, f) PROVE TypeOK'
      BY <1>1, <2>5 DEF EncryptRefuse
    <2>6. CASE EncryptCommit(w)
      BY <1>1, <2>6 DEF EncryptCommit, Flush
    <2>7. CASE EnqueueTransferEmails(w)
      BY <1>1, <2>7 DEF EnqueueTransferEmails
    <2>8. CASE ReloadAfterRollback(w)
      BY <1>1, <2>8 DEF ReloadAfterRollback
    <2>9. CASE MarkInfected(w)
      BY <1>1, <2>9 DEF MarkInfected, Flush
    <2>10. CASE SweepPartialObjects(w)
      <3>1. objects' \in [Files -> Nat] /\ purged' \in BOOLEAN /\ faults' \in Nat
        BY <1>1, <2>10, DeleteTransferType DEF SweepPartialObjects
      <3> QED
        BY <1>1, <2>10, <3>1 DEF SweepPartialObjects
    <2>11. CASE ShredFiles(w)
      <3>1. \A f \in Files : staged'[f] <= SizeBytes[f] + Slack
        BY <2>11, SizeAssumption, ChunkAssumption DEF ShredFiles
      <3> QED
        BY <1>1, <2>11, <3>1 DEF ShredFiles
    <2>12. CASE RemoveDir(w)
      BY <1>1, <2>12 DEF RemoveDir
    <2>13. CASE ReleaseLock(w)
      BY <1>1, <2>13 DEF ReleaseLock
    <2> QED
      BY <1>1, <2>1, <2>2, <2>3, <2>4, <2>5, <2>6, <2>7, <2>8, <2>9, <2>10,
         <2>11, <2>12, <2>13 DEF EncryptStep
  <1>2. ASSUME TypeOK, NEW w \in Workers, EncryptLoadRaises(w) PROVE TypeOK'
    BY <1>2 DEF EncryptLoadRaises
  <1>3. ASSUME TypeOK, NEW w \in Workers, EncryptRaises(w) PROVE TypeOK'
    BY <1>3 DEF EncryptRaises
  <1>4. ASSUME TypeOK, NEW w \in Workers, MarkingRaises(w) PROVE TypeOK'
    BY <1>4 DEF MarkingRaises
  <1>5. ASSUME TypeOK, NEW w \in Workers, WorkerCrash(w) PROVE TypeOK'
    BY <1>5 DEF WorkerCrash
  <1>6. ASSUME TypeOK, NEW w \in Workers, WorkerCancelled(w) PROVE TypeOK'
    BY <1>6 DEF WorkerCancelled
  <1>7. ASSUME TypeOK, LockExpires PROVE TypeOK'
    BY <1>7 DEF LockExpires, encryptVars
  <1> QED
    BY <1>1, <1>2, <1>3, <1>4, <1>5, <1>6, <1>7 DEF EncryptNext

LEMMA JanitorTypeOK == TypeOK /\ JanitorNext => TypeOK'
  <1> SUFFICES ASSUME TypeOK, NEW w \in Workers,
                      \/ CleanupStep(w)
                      \/ CleanupCommitFails(w)
                      \/ DefenderStep(w)
                      \/ DefenderCommitFails(w)
               PROVE  TypeOK'
    BY DEF JanitorNext
  <1> USE DEF TypeOK, rowVars, stagingVars, redisVars, encryptVars, patchVars,
              requestVars, historyVars, Fault, CleanupDone, DefenderDone
  <1>1. CASE CleanupSelect(w)
    BY <1>1 DEF CleanupSelect
  <1>2. CASE CleanupSweep(w)
    <2>1. \A f \in Files : staged'[f] <= SizeBytes[f] + Slack
      BY <1>2, SizeAssumption, ChunkAssumption DEF CleanupSweep, secure_delete
    <2>2. objects' \in [Files -> Nat] /\ purged' \in BOOLEAN /\ faults' \in Nat
      BY <1>2, DeleteTransferType DEF CleanupSweep
    <2> QED
      BY <1>2, <2>1, <2>2 DEF CleanupSweep, secure_delete
  <1>3. CASE CleanupCommit(w)
    BY <1>3 DEF CleanupCommit, Flush
  <1>4. CASE CleanupCommitFails(w)
    BY <1>4 DEF CleanupCommitFails
  <1>5. CASE DefenderSelect(w)
    BY <1>5 DEF DefenderSelect
  <1>6. CASE DefenderInspect(w)
    BY <1>6 DEF DefenderInspect
  <1>7. CASE DefenderCommit(w)
    BY <1>7 DEF DefenderCommit, Flush
  <1>8. CASE DefenderCommitFails(w)
    BY <1>8 DEF DefenderCommitFails
  <1> QED
    BY <1>1, <1>2, <1>3, <1>4, <1>5, <1>6, <1>7, <1>8
    DEF CleanupStep, DefenderStep

LEMMA RequestTypeOK == TypeOK /\ RequestNext => TypeOK'
  <1> USE DEF TypeOK, rowVars, stagingVars, redisVars, encryptVars,
              janitorVars, patchVars, requestVars, historyVars, Fault, Respond
  <1>1. ASSUME TypeOK, NEW r \in Requests, DeleteLoad(r) PROVE TypeOK'
    BY <1>1 DEF DeleteLoad
  <1>2. ASSUME TypeOK, NEW r \in Requests, DeletePurge(r) PROVE TypeOK'
    <2>1. objects' \in [Files -> Nat] /\ purged' \in BOOLEAN /\ faults' \in Nat
      BY <1>2, DeleteTransferType DEF DeletePurge
    <2> QED
      BY <1>2, <2>1 DEF DeletePurge
  <1>3. ASSUME TypeOK, NEW r \in Requests, DeleteCommit(r) PROVE TypeOK'
    BY <1>3 DEF DeleteCommit, Flush
  <1>4. ASSUME TypeOK, NEW r \in Requests, RevokeLoad(r) PROVE TypeOK'
    BY <1>4 DEF RevokeLoad
  <1>5. ASSUME TypeOK, NEW r \in Requests, RevokeCommit(r) PROVE TypeOK'
    BY <1>5 DEF RevokeCommit
  <1>6. ASSUME TypeOK, NEW r \in Requests, RequestFails(r) PROVE TypeOK'
    BY <1>6 DEF RequestFails
  <1>7. ASSUME TypeOK, NEW g \in Downloads, DownloadStart(g) PROVE TypeOK'
    BY <1>7 DEF DownloadStart, LoadReadyTransfer
  <1>8. ASSUME TypeOK, NEW g \in Downloads, DownloadEnd(g) PROVE TypeOK'
    BY <1>8 DEF DownloadEnd
  <1> QED
    BY <1>1, <1>2, <1>3, <1>4, <1>5, <1>6, <1>7, <1>8 DEF RequestNext, RequestStep

LEMMA NextTypeOK == TypeOK /\ [Next]_vars => TypeOK'
  <1> SUFFICES ASSUME TypeOK, [Next]_vars PROVE TypeOK'
    OBVIOUS
  <1> USE DEF rowVars, stagingVars, redisVars, encryptVars, janitorVars,
              patchVars, requestVars, historyVars
  <1>1. ASSUME NEW f \in Malicious, Quarantine(f) PROVE TypeOK'
    <2>1. f \in Files
      BY <1>1, MaliciousAssumption
    <2>2. ASSUME NEW g \in Files PROVE staged'[g] <= SizeBytes[g] + Slack
      <3>1. SizeBytes[g] \in Nat /\ Slack \in Nat /\ staged[g] <= SizeBytes[g] + Slack
        BY SizeAssumption, ChunkAssumption DEF TypeOK
      <3>2. staged'[g] = IF g = f THEN Absent ELSE staged[g]
        BY <1>1, <2>1 DEF Quarantine, TypeOK
      <3> QED
        BY <3>1, <3>2
    <2> QED
      BY <1>1, <2>1, <2>2 DEF Quarantine, TypeOK
  <1>2. CASE Expire
    BY <1>2 DEF Expire, TypeOK
  <1>3. CASE UNCHANGED vars
    BY <1>3 DEF vars, TypeOK
  <1> QED
    BY <1>1, <1>2, <1>3, TusTypeOK, EncryptTypeOK, JanitorTypeOK, RequestTypeOK
    DEF Next

(* Every variable keeps its type, and whatever clients send, however often *)
(* the api dies between an append and its truncation, no staging file      *)
(* grows past its declared size by more than the slack of _append_stream.  *)
THEOREM TypeCorrect == Spec => []TypeOK
  <1> QED
    BY InitTypeOK, NextTypeOK, PTL DEF Spec

-----------------------------------------------------------------------------
(* Faults are counted and never forgotten. *)
LEMMA FaultsStay ==
    ASSUME TypeOK, [Next]_vars, faults' = 0 PROVE faults = 0
  <1> USE DEF TypeOK, Fault
  <1>1. CASE TusNext
    BY <1>1 DEF TusNext, PatchStep, PatchLoad, PatchAppend, PatchTruncate, PatchMismatch, PatchComplete, PatchLost
  <1>2. delete_transfer => faults = 0
    BY DEF delete_transfer, DeleteObjects, DeleteObjectsFails
  <1>3. CASE EncryptNext
    BY <1>2, <1>3 DEF EncryptNext, EncryptStep, EncryptPop, EncryptLock, EncryptLoad,
         EncryptFile, EncryptRefuse, EncryptCommit, EnqueueTransferEmails,
         ReloadAfterRollback, MarkInfected, SweepPartialObjects, ShredFiles,
         RemoveDir, ReleaseLock, EncryptLoadRaises, EncryptRaises, MarkingRaises,
         WorkerCrash, WorkerCancelled, LockExpires
  <1>4. CASE JanitorNext
    BY <1>2, <1>4 DEF JanitorNext, CleanupStep, DefenderStep, CleanupSelect,
         CleanupSweep, CleanupCommit, CleanupCommitFails, DefenderSelect,
         DefenderInspect, DefenderCommit, DefenderCommitFails
  <1>5. CASE RequestNext
    BY <1>2, <1>5 DEF RequestNext, RequestStep, DeleteLoad, DeletePurge, DeleteCommit, RevokeLoad,
         RevokeCommit, RequestFails, DownloadStart, DownloadEnd
  <1>6. CASE (\E f \in Malicious : Quarantine(f)) \/ Expire \/ UNCHANGED vars
    BY <1>6 DEF Quarantine, Expire, vars
  <1> QED
    BY <1>1, <1>3, <1>4, <1>5, <1>6 DEF Next

(* The encrypt consumer's own variables are written by nobody else.        *)
LEMMA ConsumerFrame ==
    ASSUME [Next]_vars, ~EncryptNext PROVE UNCHANGED <<lock, encryptVars>>
  <1> USE DEF redisVars
  <1>1. CASE TusNext
    BY <1>1 DEF TusNext, PatchStep, PatchLoad, PatchAppend, PatchTruncate, PatchMismatch, PatchComplete, PatchLost
  <1>2. CASE JanitorNext
    BY <1>2 DEF JanitorNext, CleanupStep, DefenderStep, CleanupSelect, CleanupSweep,
         CleanupCommit, CleanupCommitFails, CleanupDone, DefenderSelect,
         DefenderInspect, DefenderCommit, DefenderCommitFails, DefenderDone
  <1>3. CASE RequestNext
    BY <1>3 DEF RequestNext, RequestStep, DeleteLoad, DeletePurge, DeleteCommit, RevokeLoad,
         RevokeCommit, RequestFails, DownloadStart, DownloadEnd
  <1>4. CASE (\E f \in Malicious : Quarantine(f)) \/ Expire \/ UNCHANGED vars
    BY <1>4 DEF Quarantine, Expire, vars
  <1> QED
    BY <1>1, <1>2, <1>3, <1>4 DEF Next

(* A worker's step that is no fault keeps the lock with someone inside.    *)
LEMMA StrayStep ==
    ASSUME TypeOK, NoStrayLock, EncryptNext, faults = 0, faults' = 0
    PROVE  NoStrayLock'
  <1> USE DEF Goto, redisVars
  <1>1. lock # NoWorker => lock \in Workers /\ pc[lock] \in InsideLock
    BY DEF TypeOK, NoStrayLock
  <1>2. ASSUME NEW w \in Workers, NEW q \in InsideLock, pc' = [pc EXCEPT ![w] = q],
               UNCHANGED lock
        PROVE  NoStrayLock'
    BY <1>1, <1>2 DEF TypeOK, NoStrayLock
  <1>3. ASSUME NEW w \in Workers, pc[w] \notin InsideLock, UNCHANGED lock,
               NEW q \in EncryptPC, pc' = [pc EXCEPT ![w] = q]
        PROVE  NoStrayLock'
    BY <1>1, <1>3 DEF TypeOK, NoStrayLock
  <1>4. ASSUME NEW w \in Workers, EncryptPop(w) PROVE NoStrayLock'
    BY <1>3, <1>4 DEF EncryptPop, InsideLock
  <1>5. ASSUME NEW w \in Workers, EncryptLock(w) PROVE NoStrayLock'
    <2>1. CASE lock = NoWorker
      BY <1>5, <2>1 DEF EncryptLock, TypeOK, NoStrayLock, InsideLock
    <2>2. CASE lock # NoWorker
      BY <1>3, <1>5, <2>2 DEF EncryptLock, InsideLock
    <2> QED
      BY <2>1, <2>2
  <1>6. ASSUME NEW w \in Workers, NEW f \in Files, EncryptFile(w, f) PROVE NoStrayLock'
    BY <1>1, <1>6 DEF EncryptFile, NoStrayLock
  <1>7. ASSUME NEW w \in Workers, ReleaseLock(w) PROVE NoStrayLock'
    BY <1>7 DEF ReleaseLock, Fault, NoStrayLock
  <1>8. ASSUME NEW w \in Workers,
               \/ EncryptLoad(w) \/ (\E f \in Files : EncryptRefuse(w, f))
               \/ EncryptCommit(w) \/ EnqueueTransferEmails(w)
               \/ ReloadAfterRollback(w) \/ MarkInfected(w)
               \/ SweepPartialObjects(w) \/ ShredFiles(w) \/ RemoveDir(w)
        PROVE  NoStrayLock'
    <2>1. PICK q \in InsideLock : pc' = [pc EXCEPT ![w] = q]
      BY <1>8 DEF EncryptLoad, EncryptRefuse, EncryptCommit, EnqueueTransferEmails,
           ReloadAfterRollback, MarkInfected, SweepPartialObjects, ShredFiles,
           RemoveDir, InsideLock
    <2>2. UNCHANGED lock
      BY <1>8 DEF EncryptLoad, EncryptRefuse, EncryptCommit, EnqueueTransferEmails,
           ReloadAfterRollback, MarkInfected, SweepPartialObjects, ShredFiles,
           RemoveDir
    <2> QED
      BY <1>2, <2>1, <2>2
  <1>9. ~ \E w \in Workers : \/ EncryptLoadRaises(w) \/ EncryptRaises(w)
                             \/ MarkingRaises(w) \/ WorkerCrash(w)
                             \/ WorkerCancelled(w)
    BY DEF EncryptLoadRaises, EncryptRaises, MarkingRaises, WorkerCrash,
           WorkerCancelled, Fault
  <1>10. CASE LockExpires
    BY <1>10 DEF LockExpires, NoStrayLock
  <1> QED
    BY <1>4, <1>5, <1>6, <1>7, <1>8, <1>9, <1>10 DEF EncryptNext, EncryptStep

(* Without a fault the lock never stays behind: every way through          *)
(* process_encrypt_job, early returns and refusals included, ends in the   *)
(* DEL.  This holds also when an encryption outlives the lock's TTL.       *)
THEOREM LockReturned == Spec => []NoStrayLock
  <1>1. Init => NoStrayLock
    BY DEF Init, NoStrayLock
  <1>2. TypeOK /\ NoStrayLock /\ [Next]_vars => NoStrayLock'
    <2> SUFFICES ASSUME TypeOK, NoStrayLock, [Next]_vars PROVE NoStrayLock'
      OBVIOUS
    <2>1. CASE faults' = 0 /\ EncryptNext
      BY <2>1, FaultsStay, StrayStep
    <2>2. CASE faults' = 0 /\ ~EncryptNext
      <3>1. UNCHANGED <<lock, pc>>
        BY <2>2, ConsumerFrame DEF encryptVars
      <3> QED
        BY <2>2, <3>1, FaultsStay DEF NoStrayLock
    <2>3. CASE faults' # 0
      BY <2>3 DEF NoStrayLock
    <2> QED
      BY <2>1, <2>2, <2>3
  <1> QED
    BY <1>1, <1>2, TypeCorrect, PTL DEF Spec

-----------------------------------------------------------------------------
(* PATCH by PATCH: what makes a file too long is about to cut it. *)
LEMMA OversizeTus ==
    ASSUME TypeOK, OversizeIsPassing, TusNext, faults = 0, faults' = 0,
           NEW g \in Files, staged'[g] > SizeBytes[g]
    PROVE  Overlong(g)'
  <1>0. PICK p \in Patchers :
          \/ ApiFree /\ \E f \in Files : PatchLoad(p, f)
          \/ PatchTruncate(p)
          \/ ApiFree /\ (PatchAppend(p) \/ PatchMismatch(p) \/ PatchComplete(p))
    BY DEF TusNext, PatchStep, PatchLost, Fault
  <1> DEFINE f == patchFile[p]
  <1>1. f \in Files /\ SizeBytes[g] \in Nat
    BY SizeAssumption DEF TypeOK
  <1>2. CASE ApiFree /\ PatchAppend(p)
    <2>1. PICK n \in 0..MaxChunk :
            /\ staged' = [staged EXCEPT ![f] = Appended(f, n)]
            /\ patch' = [patch EXCEPT ![p] = IF Appended(f, n) > SizeBytes[f] THEN "over"
                                             ELSE IF Appended(f, n) = SizeBytes[f] THEN "full"
                                             ELSE "idle"]
            /\ UNCHANGED patchFile
      BY <1>2 DEF PatchAppend
    <2>2. CASE g # f
      <3>1. staged'[g] = staged[g]
        BY <2>1, <2>2 DEF TypeOK
      <3> QED
        BY <1>2, <3>1 DEF OversizeIsPassing, Overlong, ApiFree
    <2>3. CASE g = f
      <3>1. staged'[f] = Appended(f, n)
        BY <1>1, <2>1 DEF TypeOK
      <3>2. patch'[p] = "over" /\ patchFile'[p] = g
        BY <2>1, <2>3, <3>1 DEF TypeOK
      <3> QED
        BY <3>2 DEF Overlong
    <2> QED
      BY <2>2, <2>3
  <1>3. CASE PatchTruncate(p)
    <2>1. /\ patch' = [patch EXCEPT ![p] = "idle"] /\ UNCHANGED patchFile
          /\ IF staged[f] = Absent THEN UNCHANGED staged
             ELSE staged' = [staged EXCEPT ![f] = SizeBytes[f]]
      BY <1>3 DEF PatchTruncate
    <2>2. g # f
      BY <1>1, <2>1 DEF TypeOK
    <2>3. staged'[g] = staged[g]
      BY <2>1, <2>2 DEF TypeOK
    <2>4. PICK q \in Patchers : patch[q] = "over" /\ patchFile[q] = g
      BY <2>3 DEF OversizeIsPassing, Overlong
    <2>5. patch'[q] = "over" /\ patchFile'[q] = g
      BY <2>1, <2>2, <2>4 DEF TypeOK
    <2> QED
      BY <2>5 DEF Overlong
  <1>4. CASE ApiFree /\ ~PatchAppend(p) /\ ~PatchTruncate(p)
    <2>1. UNCHANGED staged
      BY <1>0, <1>4 DEF PatchLoad, PatchMismatch, PatchComplete, stagingVars
    <2> QED
      BY <1>4, <2>1 DEF OversizeIsPassing, Overlong, ApiFree
  <1> QED
    BY <1>0, <1>2, <1>3, <1>4

(* Everybody else leaves the PATCHes alone, and a staging file as it is or *)
(* removes it.                                                             *)
LEMMA StagingShrinks ==
    ASSUME [Next]_vars, ~TusNext, TypeOK
    PROVE  /\ UNCHANGED patchVars
           /\ \A f \in Files : staged'[f] \in {staged[f], Absent}
  <1> USE DEF stagingVars, patchVars
  <1>1. CASE EncryptNext
    BY <1>1 DEF EncryptNext, EncryptStep, EncryptPop, EncryptLock, EncryptLoad,
         EncryptFile, EncryptRefuse, EncryptCommit, EnqueueTransferEmails,
         ReloadAfterRollback, MarkInfected, SweepPartialObjects, ShredFiles,
         RemoveDir, ReleaseLock, EncryptLoadRaises, EncryptRaises, MarkingRaises,
         WorkerCrash, WorkerCancelled, LockExpires
  <1>2. CASE JanitorNext
    BY <1>2 DEF JanitorNext, CleanupStep, DefenderStep, CleanupSelect, CleanupSweep,
         CleanupCommit, CleanupCommitFails, CleanupDone, DefenderSelect,
         DefenderInspect, DefenderCommit, DefenderCommitFails, DefenderDone,
         secure_delete
  <1>3. CASE RequestNext
    BY <1>3 DEF RequestNext, RequestStep, DeleteLoad, DeletePurge, DeleteCommit,
         RevokeLoad, RevokeCommit, RequestFails, DownloadStart, DownloadEnd
  <1>4. CASE (\E f \in Malicious : Quarantine(f)) \/ Expire \/ UNCHANGED vars
    BY <1>4 DEF Quarantine, Expire, vars, TypeOK
  <1> QED
    BY <1>1, <1>2, <1>3, <1>4 DEF Next

(* Without a fault a file is longer than declared only between an append   *)
(* and its truncation, with any number of PATCHes to any files under way   *)
(* and every other process at work on the directory.                       *)
THEOREM ExcessIsCut == Spec => []OversizeIsPassing
  <1>1. Init => OversizeIsPassing
    BY SizeAssumption DEF Init, OversizeIsPassing
  <1>2. TypeOK /\ OversizeIsPassing /\ [Next]_vars => OversizeIsPassing'
    <2> SUFFICES ASSUME TypeOK, OversizeIsPassing, [Next]_vars, faults' = 0,
                        NEW g \in Files, staged'[g] > SizeBytes[g]
                 PROVE  Overlong(g)'
      BY DEF OversizeIsPassing
    <2>1. faults = 0
      BY FaultsStay
    <2>2. CASE TusNext
      BY <2>1, <2>2, OversizeTus
    <2>3. CASE ~TusNext
      <3>1. staged'[g] = staged[g]
        BY <2>3, StagingShrinks, SizeAssumption
      <3> QED
        BY <2>1, <2>3, <3>1, StagingShrinks DEF OversizeIsPassing, Overlong, patchVars
    <2> QED
      BY <2>2, <2>3
  <1> QED
    BY <1>1, <1>2, TypeCorrect, PTL DEF Spec

-----------------------------------------------------------------------------
(* Who is inside process_encrypt_job's lock is the one who took it. *)
LockHeld == \A w \in Workers : pc[w] \in InsideLock => lock = w

(* wrapped_key, status and the upload_complete event move together. *)
KeyLife ==
    /\ completions \in {0, 1}
    /\ mailings <= completions
    /\ completions = 0 => wrappedKey = 0 /\ status # "ready"
    /\ status = "uploading" => completions = 0
    /\ status = "ready" => wrappedKey # 0

(* What the attempt of worker w has done so far. *)
AttemptOf(w) ==
    /\ pc[w] = "encrypting" =>
        /\ completions = 0
        /\ fileKey[w] # 0
        /\ \A f \in Files : f \notin todo[w] =>
             /\ objects[f] \in {0, fileKey[w]}
             /\ purged \/ objects[f] = fileKey[w]
    /\ pc[w] = "mailing" => completions = 1 /\ mailings = 0

AttemptInv == \A w \in Workers : AttemptOf(w)

(* The objects under a stored key. *)
Stored ==
    /\ wrappedKey # 0 => \A f \in Files : objects[f] \in {0, wrappedKey}
    /\ status = "ready" => purged \/ \A f \in Files : objects[f] = wrappedKey

(* The objects under a key that a download holds. *)
Streaming ==
    \A g \in Downloads : stream[g] # 0 =>
        completions = 1 /\ \A f \in Files : objects[f] \in {0, stream[g]}

IInv == TypeOK /\ LockHeld /\ KeyLife /\ AttemptInv /\ Stored /\ Streaming

(* The variables that IInv is about, TypeOK apart. *)
invVars == <<pc, lock, status, wrappedKey, completions, mailings, objects,
             purged, todo, fileKey, stream>>

-----------------------------------------------------------------------------
LEMMA InitIInv == Init => IInv
  <1> SUFFICES ASSUME Init PROVE IInv
    OBVIOUS
  <1> QED
    BY InitTypeOK DEF Init, IInv, LockHeld, InsideLock, KeyLife, AttemptInv,
                      AttemptOf, Stored, Streaming

LEMMA Untouched ==
    ASSUME IInv, TypeOK', UNCHANGED invVars PROVE IInv'
  BY DEF IInv, invVars, LockHeld, KeyLife, AttemptInv, AttemptOf, Stored, Streaming

(* delete_transfer keeps every clause about the objects: they can only     *)
(* disappear, and then purged says so.                                     *)
LEMMA Purging ==
    ASSUME IInv, TypeOK', delete_transfer,
           UNCHANGED <<lock, status, wrappedKey, completions, mailings, todo,
                       fileKey, stream>>,
           \A v \in Workers : \/ pc'[v] = pc[v]
                              \/ pc[v] = "sweeping" /\ pc'[v] = "shredding"
    PROVE  IInv'
  <1>1. \/ objects' = objects /\ purged' = purged
        \/ objects' = [f \in Files |-> 0] /\ purged' = TRUE
    BY DEF delete_transfer, DeleteObjects, DeleteObjectsFails
  <1>2. LockHeld'
    BY DEF IInv, LockHeld, InsideLock
  <1>3. KeyLife'
    BY DEF IInv, KeyLife
  <1>4. AttemptInv'
    BY <1>1 DEF IInv, AttemptInv, AttemptOf
  <1>5. Stored'
    BY <1>1 DEF IInv, Stored
  <1>6. Streaming'
    BY <1>1 DEF IInv, Streaming
  <1> QED
    BY <1>2, <1>3, <1>4, <1>5, <1>6 DEF IInv

LEMMA TusIInv ==
    ASSUME IInv, TusNext PROVE IInv'
  <1>1. TypeOK'
    BY TusTypeOK DEF IInv
  <1>2. UNCHANGED invVars
    BY DEF TusNext, PatchStep, PatchLoad, PatchAppend, PatchTruncate, PatchMismatch, PatchComplete, PatchLost, invVars, rowVars, redisVars, encryptVars, historyVars
  <1> QED
    BY <1>1, <1>2, Untouched

(* A step of worker w inside the lock that writes neither the row, nor the *)
(* objects, nor the lock, and ends outside the encryption proper.          *)
LEMMA InsideStep ==
    ASSUME IInv, TypeOK', NEW w \in Workers, pc[w] \in InsideLock,
           NEW q \in InsideLock \ {"encrypting", "mailing"},
           pc' = [pc EXCEPT ![w] = q],
           UNCHANGED <<lock, status, wrappedKey, completions, mailings, objects,
                       purged, todo, fileKey, stream>>
    PROVE  IInv'
  <1>1. \A v \in Workers : pc'[v] = pc[v] \/ (v = w /\ pc'[v] = q)
    BY DEF IInv, TypeOK
  <1>2. LockHeld'
    BY <1>1 DEF IInv, LockHeld
  <1>3. KeyLife'
    BY DEF IInv, KeyLife
  <1>4. AttemptInv'
    BY <1>1 DEF IInv, AttemptInv, AttemptOf
  <1>5. Stored' /\ Streaming'
    BY DEF IInv, Stored, Streaming
  <1> QED
    BY <1>2, <1>3, <1>4, <1>5 DEF IInv

(* A step that takes workers out of the lock, or leaves them outside, and  *)
(* touches nothing else but a lock that no one inside holds afterwards.    *)
LEMMA OutsideStep ==
    ASSUME IInv, TypeOK', NEW w \in Workers,
           NEW q \in {"idle", "popped"},
           pc' = [pc EXCEPT ![w] = q],
           \A v \in Workers \ {w} :
               /\ pc[v] \in InsideLock => lock' = lock
               /\ todo'[v] = todo[v] /\ fileKey'[v] = fileKey[v],
           UNCHANGED <<status, wrappedKey, completions, mailings, objects,
                       purged, stream>>
    PROVE  IInv'
  <1>1. pc'[w] = q /\ \A v \in Workers \ {w} : pc'[v] = pc[v]
    BY DEF IInv, TypeOK
  <1>2. LockHeld'
    BY <1>1 DEF IInv, LockHeld, InsideLock
  <1>3. KeyLife'
    BY DEF IInv, KeyLife
  <1>4. AttemptInv'
    <2> SUFFICES ASSUME NEW v \in Workers PROVE AttemptOf(v)'
      BY DEF AttemptInv
    <2>1. CASE v = w
      BY <1>1, <2>1 DEF AttemptOf
    <2>2. CASE v # w
      BY <1>1, <2>2 DEF IInv, AttemptInv, AttemptOf
    <2> QED
      BY <2>1, <2>2
  <1>5. Stored' /\ Streaming'
    BY DEF IInv, Stored, Streaming
  <1> QED
    BY <1>2, <1>3, <1>4, <1>5 DEF IInv

(* No one else is inside the lock while w is. *)
LEMMA Alone ==
    ASSUME IInv, NEW v \in Workers, NEW w \in Workers,
           pc[v] \in InsideLock, pc[w] \in InsideLock
    PROVE  v = w
  BY DEF IInv, LockHeld

LEMMA EncryptLockIInv ==
    ASSUME IInv, TypeOK', NEW w \in Workers, EncryptLock(w) PROVE IInv'
  <1>1. CASE lock = NoWorker
    <2>1. pc'[w] = "locked" /\ lock' = w /\ \A v \in Workers \ {w} : pc'[v] = pc[v]
      BY <1>1 DEF EncryptLock, Goto, IInv, TypeOK
    <2>2. \A v \in Workers : pc[v] \notin InsideLock
      BY <1>1, WorkerAssumption DEF IInv, LockHeld
    <2>3. LockHeld'
      BY <2>1, <2>2 DEF LockHeld
    <2>4. UNCHANGED <<status, wrappedKey, completions, mailings, objects, purged,
                      todo, fileKey, stream>>
      BY DEF EncryptLock, rowVars, historyVars
    <2>5. AttemptInv'
      BY <2>1, <2>4 DEF IInv, AttemptInv, AttemptOf
    <2>6. KeyLife' /\ Stored' /\ Streaming'
      BY <2>4 DEF IInv, KeyLife, Stored, Streaming
    <2> QED
      BY <2>3, <2>5, <2>6 DEF IInv
  <1>2. CASE lock # NoWorker
    <2>1. pc' = [pc EXCEPT ![w] = "idle"]
      BY <1>2 DEF EncryptLock, Goto
    <2>2. UNCHANGED <<status, wrappedKey, completions, mailings, objects, purged,
                      stream, lock, todo, fileKey>>
      BY <1>2 DEF EncryptLock, rowVars, historyVars
    <2> QED
      BY <2>1, <2>2, OutsideStep
  <1> QED
    BY <1>1, <1>2

LEMMA EncryptLoadIInv ==
    ASSUME IInv, TypeOK', NEW w \in Workers, EncryptLoad(w) PROVE IInv'
  <1>1. CASE status = "uploading"
    <2>1. /\ pc[w] = "locked"
          /\ pc'[w] = "encrypting" /\ todo'[w] = Files
          /\ fileKey'[w] = keysMade + 1
          /\ \A v \in Workers \ {w} : /\ pc'[v] = pc[v]
                                       /\ todo'[v] = todo[v]
                                       /\ fileKey'[v] = fileKey[v]
      BY <1>1 DEF EncryptLoad, Goto, IInv, TypeOK
    <2>2. UNCHANGED <<lock, status, wrappedKey, completions, mailings, objects,
                      purged, stream>>
      BY DEF EncryptLoad, rowVars, redisVars, historyVars
    <2>3. LockHeld'
      BY <2>1, <2>2 DEF IInv, LockHeld, InsideLock
    <2>4. completions = 0 /\ keysMade + 1 # 0
      BY <1>1 DEF IInv, KeyLife, TypeOK
    <2>5. AttemptInv'
      <3> SUFFICES ASSUME NEW v \in Workers PROVE AttemptOf(v)'
        BY DEF AttemptInv
      <3>1. CASE v = w
        BY <2>1, <2>2, <2>4, <3>1 DEF AttemptOf
      <3>2. CASE v # w
        BY <2>1, <2>2, <3>2 DEF IInv, AttemptInv, AttemptOf
      <3> QED
        BY <3>1, <3>2
    <2>6. KeyLife' /\ Stored' /\ Streaming'
      BY <2>2 DEF IInv, KeyLife, Stored, Streaming
    <2> QED
      BY <2>3, <2>5, <2>6 DEF IInv
  <1>2. CASE status # "uploading"
    <2>1. pc[w] \in InsideLock /\ pc' = [pc EXCEPT ![w] = "unlocking"]
      BY <1>2 DEF EncryptLoad, Goto, InsideLock
    <2>2. UNCHANGED <<lock, status, wrappedKey, completions, mailings, objects,
                      purged, todo, fileKey, stream>>
      BY <1>2 DEF EncryptLoad, rowVars, redisVars, historyVars
    <2> QED
      BY <2>1, <2>2, InsideStep DEF InsideLock
  <1> QED
    BY <1>1, <1>2

(* An object is written only while nothing is published, so no stored key  *)
(* and no stream is there to be disturbed.                                 *)
LEMMA EncryptFileIInv ==
    ASSUME IInv, TypeOK', NEW w \in Workers, NEW f \in Files, EncryptFile(w, f)
    PROVE  IInv'
  <1>1. /\ pc[w] = "encrypting" /\ f \in todo[w]
        /\ objects' = [objects EXCEPT ![f] = fileKey[w]]
        /\ todo' = [todo EXCEPT ![w] = todo[w] \ {f}]
        /\ UNCHANGED <<pc, lock, status, wrappedKey, completions, mailings,
                       purged, fileKey, stream>>
    BY DEF EncryptFile, rowVars, redisVars, historyVars
  <1>2. completions = 0 /\ wrappedKey = 0 /\ status # "ready"
    BY <1>1 DEF IInv, AttemptInv, AttemptOf, KeyLife
  <1>3. LockHeld' /\ KeyLife'
    BY <1>1 DEF IInv, LockHeld, KeyLife
  <1>4. AttemptInv'
    <2> SUFFICES ASSUME NEW v \in Workers PROVE AttemptOf(v)'
      BY DEF AttemptInv
    <2>1. CASE v = w
      BY <1>1, <2>1 DEF IInv, TypeOK, AttemptInv, AttemptOf
    <2>2. CASE v # w
      <3>1. pc[v] \notin InsideLock
        BY <1>1, <2>2, Alone DEF InsideLock
      <3> QED
        BY <1>1, <3>1 DEF AttemptOf, InsideLock
    <2> QED
      BY <2>1, <2>2
  <1>5. Stored'
    BY <1>1, <1>2 DEF Stored
  <1>6. Streaming'
    BY <1>1, <1>2 DEF IInv, Streaming
  <1> QED
    BY <1>3, <1>4, <1>5, <1>6 DEF IInv

(* The publication: the only step that stores a key. *)
LEMMA EncryptCommitIInv ==
    ASSUME IInv, TypeOK', NEW w \in Workers, EncryptCommit(w) PROVE IInv'
  <1>1. /\ pc[w] = "encrypting" /\ todo[w] = {}
        /\ pc' = [pc EXCEPT ![w] = "mailing"]
        /\ completions' = completions + 1
        /\ UNCHANGED <<lock, objects, todo, fileKey, stream, mailings, purged>>
    BY DEF EncryptCommit, Goto, redisVars
  <1>2. /\ completions = 0 /\ fileKey[w] # 0 /\ mailings = 0
        /\ \A f \in Files : /\ objects[f] \in {0, fileKey[w]}
                            /\ purged \/ objects[f] = fileKey[w]
    BY <1>1 DEF IInv, TypeOK, AttemptInv, AttemptOf, KeyLife
  <1>3. status' = "ready" /\ wrappedKey' = fileKey[w]
    BY <1>2 DEF EncryptCommit, Flush
  <1>4. LockHeld'
    BY <1>1 DEF IInv, TypeOK, LockHeld, InsideLock
  <1>5. KeyLife'
    BY <1>1, <1>2, <1>3 DEF KeyLife
  <1>6. AttemptInv'
    <2> SUFFICES ASSUME NEW v \in Workers PROVE AttemptOf(v)'
      BY DEF AttemptInv
    <2>1. CASE v = w
      BY <1>1, <1>2, <2>1 DEF IInv, TypeOK, AttemptOf
    <2>2. CASE v # w
      <3>1. pc[v] \notin InsideLock
        BY <1>1, <2>2, Alone DEF InsideLock
      <3>2. pc'[v] = pc[v]
        BY <1>1, <2>2 DEF IInv, TypeOK
      <3> QED
        BY <3>1, <3>2 DEF AttemptOf, InsideLock
    <2> QED
      BY <2>1, <2>2
  <1>7. Stored'
    BY <1>1, <1>2, <1>3 DEF Stored
  <1>8. Streaming'
    BY <1>1, <1>2 DEF IInv, Streaming
  <1> QED
    BY <1>4, <1>5, <1>6, <1>7, <1>8 DEF IInv

LEMMA EnqueueIInv ==
    ASSUME IInv, TypeOK', NEW w \in Workers, EnqueueTransferEmails(w) PROVE IInv'
  <1>1. /\ pc[w] = "mailing"
        /\ pc' = [pc EXCEPT ![w] = "shredding"]
        /\ mailings' \in {mailings, mailings + 1}
        /\ UNCHANGED <<lock, status, wrappedKey, completions, objects, purged,
                       todo, fileKey, stream>>
    BY DEF EnqueueTransferEmails, Goto, rowVars, redisVars
  <1>2. completions = 1 /\ mailings = 0
    BY <1>1 DEF IInv, AttemptInv, AttemptOf
  <1>3. LockHeld'
    BY <1>1 DEF IInv, TypeOK, LockHeld, InsideLock
  <1>4. KeyLife'
    BY <1>1, <1>2 DEF IInv, KeyLife
  <1>5. AttemptInv'
    <2> SUFFICES ASSUME NEW v \in Workers PROVE AttemptOf(v)'
      BY DEF AttemptInv
    <2>1. CASE v = w
      BY <1>1, <2>1 DEF IInv, TypeOK, AttemptOf
    <2>2. CASE v # w
      <3>1. pc[v] \notin InsideLock
        BY <1>1, <2>2, Alone DEF InsideLock
      <3>2. pc'[v] = pc[v]
        BY <1>1, <2>2 DEF IInv, TypeOK
      <3> QED
        BY <3>1, <3>2 DEF AttemptOf, InsideLock
    <2> QED
      BY <2>1, <2>2
  <1>6. Stored' /\ Streaming'
    BY <1>1 DEF IInv, Stored, Streaming
  <1> QED
    BY <1>3, <1>4, <1>5, <1>6 DEF IInv

(* The failure path overwrites the status, but never with ready or         *)
(* uploading, and not while another attempt runs.                          *)
LEMMA MarkInfectedIInv ==
    ASSUME IInv, TypeOK', NEW w \in Workers, MarkInfected(w) PROVE IInv'
  <1>1. /\ pc[w] = "marking" /\ pc' = [pc EXCEPT ![w] = "sweeping"]
        /\ status' \in {"infected", status}
        /\ UNCHANGED <<lock, wrappedKey, completions, mailings, objects, purged,
                       todo, fileKey, stream>>
    BY DEF MarkInfected, Goto, Flush, redisVars, historyVars
  <1>2. LockHeld'
    BY <1>1 DEF IInv, TypeOK, LockHeld, InsideLock
  <1>3. KeyLife'
    BY <1>1 DEF IInv, KeyLife
  <1>4. AttemptInv'
    BY <1>1 DEF IInv, TypeOK, AttemptInv, AttemptOf
  <1>5. Stored' /\ Streaming'
    BY <1>1 DEF IInv, Stored, Streaming
  <1> QED
    BY <1>2, <1>3, <1>4, <1>5 DEF IInv

LEMMA ReleaseLockIInv ==
    ASSUME IInv, TypeOK', NEW w \in Workers, ReleaseLock(w) PROVE IInv'
  <1>1. /\ pc[w] = "unlocking" /\ pc' = [pc EXCEPT ![w] = "idle"]
        /\ todo' = [todo EXCEPT ![w] = {}]
        /\ fileKey' = [fileKey EXCEPT ![w] = 0]
        /\ UNCHANGED <<status, wrappedKey, completions, mailings, objects,
                       purged, stream>>
    BY DEF ReleaseLock, Goto, rowVars, historyVars
  <1>2. \A v \in Workers \ {w} :
          /\ pc[v] \in InsideLock => lock' = lock
          /\ todo'[v] = todo[v] /\ fileKey'[v] = fileKey[v]
    BY <1>1, Alone DEF IInv, TypeOK, InsideLock
  <1> QED
    BY <1>1, <1>2, OutsideStep

LEMMA WorkerCrashIInv ==
    ASSUME IInv, TypeOK', NEW w \in Workers, WorkerCrash(w) PROVE IInv'
  <1>1. /\ pc' = [pc EXCEPT ![w] = "idle"]
        /\ todo' = [todo EXCEPT ![w] = {}]
        /\ fileKey' = [fileKey EXCEPT ![w] = 0]
        /\ UNCHANGED <<lock, status, wrappedKey, completions, mailings, objects,
                       purged, stream>>
    BY DEF WorkerCrash, rowVars, redisVars, historyVars
  <1>2. \A v \in Workers \ {w} : todo'[v] = todo[v] /\ fileKey'[v] = fileKey[v]
    BY <1>1 DEF IInv, TypeOK
  <1> QED
    BY <1>1, <1>2, OutsideStep

(* The one place that needs the assumption on the TTL. *)
LEMMA LockExpiresIInv ==
    ASSUME IInv, TypeOK', ~SlowEncrypt, LockExpires PROVE IInv'
  <1>1. /\ lock \in Workers /\ pc[lock] \notin InsideLock
        /\ UNCHANGED <<pc, status, wrappedKey, completions, mailings, objects,
                       purged, todo, fileKey, stream>>
    BY DEF LockExpires, rowVars, encryptVars, historyVars, IInv, TypeOK
  <1>2. LockHeld'
    BY <1>1 DEF IInv, LockHeld
  <1>3. KeyLife' /\ AttemptInv' /\ Stored' /\ Streaming'
    BY <1>1 DEF IInv, KeyLife, AttemptInv, AttemptOf, Stored, Streaming
  <1> QED
    BY <1>2, <1>3 DEF IInv

LEMMA EncryptIInv ==
    ASSUME IInv, ~SlowEncrypt, EncryptNext PROVE IInv'
  <1>0. TypeOK'
    BY EncryptTypeOK DEF IInv
  <1> USE DEF Goto, rowVars, redisVars, historyVars
  <1>1. ASSUME NEW w \in Workers, EncryptStep(w) PROVE IInv'
    <2>1. CASE EncryptPop(w)
      <3>1. /\ pc' = [pc EXCEPT ![w] = "popped"]
            /\ UNCHANGED <<lock, status, wrappedKey, completions, mailings,
                           objects, purged, todo, fileKey, stream>>
        BY <2>1 DEF EncryptPop
      <3> QED
        BY <1>0, <3>1, OutsideStep
    <2>2. ASSUME NEW f \in Files, EncryptRefuse(w, f) PROVE IInv'
      <3>1. /\ pc[w] \in InsideLock /\ pc' = [pc EXCEPT ![w] = "failing"]
            /\ UNCHANGED <<lock, status, wrappedKey, completions, mailings,
                           objects, purged, todo, fileKey, stream>>
        BY <2>2 DEF EncryptRefuse, InsideLock
      <3> QED
        BY <1>0, <3>1, InsideStep DEF InsideLock
    <2>3. CASE ReloadAfterRollback(w)
      <3>1. /\ pc[w] \in InsideLock /\ pc' = [pc EXCEPT ![w] = "marking"]
            /\ UNCHANGED <<lock, status, wrappedKey, completions, mailings,
                           objects, purged, todo, fileKey, stream>>
        BY <2>3 DEF ReloadAfterRollback, InsideLock
      <3> QED
        BY <1>0, <3>1, InsideStep DEF InsideLock
    <2>4. CASE SweepPartialObjects(w)
      <3>1. /\ delete_transfer
            /\ \A v \in Workers : \/ pc'[v] = pc[v]
                                  \/ pc[v] = "sweeping" /\ pc'[v] = "shredding"
            /\ UNCHANGED <<lock, status, wrappedKey, completions, mailings,
                           todo, fileKey, stream>>
        BY <2>4 DEF SweepPartialObjects, IInv, TypeOK
      <3> QED
        BY <1>0, <3>1, Purging
    <2>5. CASE ShredFiles(w)
      <3>1. /\ pc[w] \in InsideLock /\ pc' = [pc EXCEPT ![w] = "removing"]
            /\ UNCHANGED <<lock, status, wrappedKey, completions, mailings,
                           objects, purged, todo, fileKey, stream>>
        BY <2>5 DEF ShredFiles, InsideLock
      <3> QED
        BY <1>0, <3>1, InsideStep DEF InsideLock
    <2>6. CASE RemoveDir(w)
      <3>1. /\ pc[w] \in InsideLock /\ pc' = [pc EXCEPT ![w] = "unlocking"]
            /\ UNCHANGED <<lock, status, wrappedKey, completions, mailings,
                           objects, purged, todo, fileKey, stream>>
        BY <2>6 DEF RemoveDir, InsideLock
      <3> QED
        BY <1>0, <3>1, InsideStep DEF InsideLock
    <2> QED
      BY <1>0, <1>1, <2>1, <2>2, <2>3, <2>4, <2>5, <2>6, EncryptLockIInv,
         EncryptLoadIInv, EncryptFileIInv, EncryptCommitIInv, EnqueueIInv,
         MarkInfectedIInv, ReleaseLockIInv DEF EncryptStep
  <1>2. ASSUME NEW w \in Workers,
               \/ EncryptLoadRaises(w) \/ EncryptRaises(w)
               \/ MarkingRaises(w) \/ WorkerCancelled(w)
        PROVE  IInv'
    <2>1. PICK q \in InsideLock \ {"encrypting", "mailing"} :
            /\ pc[w] \in InsideLock /\ pc' = [pc EXCEPT ![w] = q]
            /\ UNCHANGED <<lock, status, wrappedKey, completions, mailings,
                           objects, purged, todo, fileKey, stream>>
      BY <1>2 DEF EncryptLoadRaises, EncryptRaises, MarkingRaises, WorkerCancelled,
                  InsideLock
    <2> QED
      BY <1>0, <2>1, InsideStep
  <1> QED
    BY <1>0, <1>1, <1>2, WorkerCrashIInv, LockExpiresIInv DEF EncryptNext

(* A commit that closes the transfer, and erases its key or leaves it.     *)
LEMMA Closing ==
    ASSUME IInv, TypeOK', status' \notin {"ready", "uploading"},
           wrappedKey' \in {0, wrappedKey},
           UNCHANGED <<pc, lock, completions, mailings, objects, purged, todo,
                       fileKey, stream>>
    PROVE  IInv'
  <1>1. LockHeld' /\ AttemptInv'
    BY DEF IInv, LockHeld, AttemptInv, AttemptOf
  <1>2. KeyLife'
    BY DEF IInv, KeyLife
  <1>3. Stored' /\ Streaming'
    BY DEF IInv, Stored, Streaming
  <1> QED
    BY <1>1, <1>2, <1>3 DEF IInv

LEMMA JanitorIInv ==
    ASSUME IInv, JanitorNext PROVE IInv'
  <1>0. TypeOK'
    BY JanitorTypeOK DEF IInv
  <1>1. PICK w \in Workers : \/ CleanupStep(w)
                             \/ CleanupCommitFails(w)
                             \/ DefenderStep(w)
                             \/ DefenderCommitFails(w)
    BY DEF JanitorNext
  <1> USE DEF rowVars, redisVars, encryptVars, historyVars, CleanupDone, DefenderDone
  <1>2. CASE CleanupSweep(w)
    <2>1. delete_transfer /\ UNCHANGED <<pc, lock, status, wrappedKey, completions,
                                         mailings, todo, fileKey, stream>>
      BY <1>2 DEF CleanupSweep
    <2> QED
      BY <1>0, <2>1, Purging
  <1>3. CASE CleanupCommit(w)
    <2>1. /\ status' = "expired" /\ wrappedKey' \in {0, wrappedKey}
          /\ UNCHANGED <<pc, lock, completions, mailings, objects, purged, todo,
                         fileKey, stream>>
      BY <1>3 DEF CleanupCommit, Flush
    <2> QED
      BY <1>0, <2>1, Closing
  <1>4. CASE DefenderCommit(w)
    <2>1. /\ status' = "infected" /\ wrappedKey' = wrappedKey
          /\ UNCHANGED <<pc, lock, completions, mailings, objects, purged, todo,
                         fileKey, stream>>
      BY <1>4 DEF DefenderCommit, Flush
    <2> QED
      BY <1>0, <2>1, Closing
  <1>5. CASE \/ CleanupSelect(w) \/ CleanupCommitFails(w) \/ DefenderSelect(w)
             \/ DefenderInspect(w) \/ DefenderCommitFails(w)
    <2>1. UNCHANGED invVars
      BY <1>5 DEF CleanupSelect, CleanupCommitFails, DefenderSelect,
                  DefenderInspect, DefenderCommitFails, invVars
    <2> QED
      BY <1>0, <2>1, Untouched
  <1> QED
    BY <1>1, <1>2, <1>3, <1>4, <1>5 DEF CleanupStep, DefenderStep

LEMMA RequestIInv ==
    ASSUME IInv, RequestNext PROVE IInv'
  <1>0. TypeOK'
    BY RequestTypeOK DEF IInv
  <1> USE DEF rowVars, redisVars, encryptVars, historyVars, Respond
  <1>1. ASSUME NEW r \in Requests, DeletePurge(r) PROVE IInv'
    <2>1. delete_transfer /\ UNCHANGED <<pc, lock, status, wrappedKey, completions,
                                         mailings, todo, fileKey, stream>>
      BY <1>1 DEF DeletePurge
    <2> QED
      BY <1>0, <2>1, Purging
  <1>2. ASSUME NEW r \in Requests, DeleteCommit(r) \/ RevokeCommit(r) PROVE IInv'
    <2>1. /\ status' \in {"deleted", "revoked"} /\ wrappedKey' \in {0, wrappedKey}
          /\ UNCHANGED <<pc, lock, completions, mailings, objects, purged, todo,
                         fileKey, stream>>
      BY <1>2 DEF DeleteCommit, RevokeCommit, Flush
    <2> QED
      BY <1>0, <2>1, Closing
  <1>3. ASSUME NEW r \in Requests, DeleteLoad(r) \/ RevokeLoad(r) \/ RequestFails(r)
        PROVE  IInv'
    <2>1. UNCHANGED invVars
      BY <1>3 DEF DeleteLoad, RevokeLoad, RequestFails, invVars
    <2> QED
      BY <1>0, <2>1, Untouched
  <1>4. ASSUME NEW g \in Downloads, DownloadStart(g) \/ DownloadEnd(g) PROVE IInv'
    <2>1. /\ UNCHANGED <<pc, lock, status, wrappedKey, completions, mailings,
                         objects, purged, todo, fileKey>>
          /\ \A h \in Downloads : stream'[h] # 0 =>
               stream'[h] = stream[h] \/ (stream'[h] = wrappedKey /\ status = "ready")
      BY <1>4 DEF DownloadStart, LoadReadyTransfer, DownloadEnd, IInv, TypeOK
    <2>2. LockHeld' /\ KeyLife' /\ AttemptInv' /\ Stored'
      BY <2>1 DEF IInv, LockHeld, KeyLife, AttemptInv, AttemptOf, Stored
    <2>3. Streaming'
      BY <2>1 DEF IInv, Streaming, KeyLife, Stored
    <2> QED
      BY <1>0, <2>2, <2>3 DEF IInv
  <1> QED
    BY <1>1, <1>2, <1>3, <1>4 DEF RequestNext, RequestStep

LEMMA NextIInv == ~SlowEncrypt /\ IInv /\ [Next]_vars => IInv'
  <1> SUFFICES ASSUME ~SlowEncrypt, IInv, [Next]_vars PROVE IInv'
    OBVIOUS
  <1>1. TypeOK'
    BY NextTypeOK DEF IInv
  <1>2. ASSUME \/ \E f \in Malicious : Quarantine(f)
               \/ Expire
               \/ UNCHANGED vars
        PROVE  IInv'
    <2>1. UNCHANGED invVars
      BY <1>2 DEF Quarantine, Expire, vars, invVars, rowVars, redisVars,
                  encryptVars, historyVars
    <2> QED
      BY <1>1, <2>1, Untouched
  <1> QED
    BY <1>2, TusIInv, EncryptIInv, JanitorIInv, RequestIInv DEF Next

(* The inductive invariant holds in every reachable state. *)
THEOREM Invariance ==
    ASSUME ~SlowEncrypt PROVE Spec => []IInv
  <1>1. IInv /\ [Next]_vars => IInv'
    BY NextIInv
  <1> QED
    BY InitIInv, <1>1, PTL DEF Spec

-----------------------------------------------------------------------------
(* The Redis lock excludes: whatever crashes, duplicate jobs and lost DELs *)
(* there are, one worker at most is inside process_encrypt_job.            *)
THEOREM EncryptExclusion ==
    ASSUME ~SlowEncrypt PROVE Spec => []EncryptExclusive
  <1>1. IInv => EncryptExclusive
    BY DEF IInv, LockHeld, EncryptExclusive
  <1> QED
    BY Invariance, <1>1, PTL

(* A ready transfer has its key, and its objects are all there under that  *)
(* key unless a delete_transfer has run.                                   *)
THEOREM ReadyCompleteness ==
    ASSUME ~SlowEncrypt PROVE Spec => []ReadyIsComplete
  <1>1. IInv => ReadyIsComplete
    BY DEF IInv, KeyLife, Stored, ReadyIsComplete
  <1> QED
    BY Invariance, <1>1, PTL

(* No download ever meets an object encrypted under another key than the   *)
(* one it unwrapped.                                                       *)
THEOREM StreamSafety ==
    ASSUME ~SlowEncrypt PROVE Spec => []StreamsKeepTheirObjects
  <1>1. IInv => StreamsKeepTheirObjects
    BY DEF IInv, Streaming, StreamsKeepTheirObjects
  <1> QED
    BY Invariance, <1>1, PTL

(* A transfer is completed once at most and announced once at most. *)
THEOREM SingleAnnouncement ==
    ASSUME ~SlowEncrypt PROVE Spec => []AnnouncedOnce
  <1>1. IInv => AnnouncedOnce
    BY DEF IInv, TypeOK, KeyLife, AnnouncedOnce
  <1> QED
    BY Invariance, <1>1, PTL

-----------------------------------------------------------------------------
(* Complete uploads and the size test of the consumer. *)

(* What the antivirus has not touched is in staging, whole or about to be  *)
(* cut to it.                                                              *)
HonestWhole ==
    \A f \in Files \ taken :
        \/ CurrentSize(f) = SizeBytes[f]
        \/ Overlong(f) /\ staged[f] # Absent

(* Where a consumer that no fault has hit has closed or published the row. *)
Closed == {"sweeping", "mailing", "shredding", "removing"}

(* What a worker has made sure of, while no fault has happened.            *)
WorkerSure(w) ==
    /\ pc[w] \in Closed => status # "uploading"
    /\ pc[w] = "marking" => seen[w] = "uploading" \/ status # "uploading"
    /\ pc[w] \in {"popped", "locked"} => HonestWhole \/ status # "uploading"
    /\ pc[w] = "encrypting" => HonestWhole

(* A job in Redis stands for a complete upload, and stays true to it.      *)
JobSure == uploadReady > 0 => HonestWhole \/ status # "uploading"

(* Only a published transfer is swept by a cleanup tick. *)
SweepsPublished == \A w \in Workers : cleanup[w] # "idle" => completions = 1

Untampered ==
    /\ SweepsPublished
    /\ faults = 0 => JobSure /\ \A w \in Workers : WorkerSure(w)

LEMMA InitUntampered == Init => Untampered
  BY DEF Init, Untampered, SweepsPublished, JobSure, WorkerSure, Closed

(* No step reopens an upload. *)
LEMMA UploadingIsFirst ==
    ASSUME [Next]_vars, status' = "uploading" PROVE status = "uploading"
  <1> USE DEF rowVars, Flush
  <1>1. CASE TusNext
    BY <1>1 DEF TusNext, PatchStep, PatchLoad, PatchAppend, PatchTruncate, PatchMismatch, PatchComplete, PatchLost
  <1>2. CASE EncryptNext
    BY <1>2 DEF EncryptNext, EncryptStep, EncryptPop, EncryptLock, EncryptLoad,
         EncryptFile, EncryptRefuse, EncryptCommit, EnqueueTransferEmails,
         ReloadAfterRollback, MarkInfected, SweepPartialObjects, ShredFiles,
         RemoveDir, ReleaseLock, EncryptLoadRaises, EncryptRaises, MarkingRaises,
         WorkerCrash, WorkerCancelled, LockExpires
  <1>3. CASE JanitorNext
    BY <1>3 DEF JanitorNext, CleanupStep, DefenderStep, CleanupSelect, CleanupSweep,
         CleanupCommit, CleanupCommitFails, DefenderSelect, DefenderInspect,
         DefenderCommit, DefenderCommitFails
  <1>4. CASE RequestNext
    BY <1>4 DEF RequestNext, RequestStep, DeleteLoad, DeletePurge, DeleteCommit, RevokeLoad,
         RevokeCommit, RequestFails, DownloadStart, DownloadEnd
  <1>5. CASE (\E f \in Malicious : Quarantine(f)) \/ Expire \/ UNCHANGED vars
    BY <1>5 DEF Quarantine, Expire, vars
  <1> QED
    BY <1>1, <1>2, <1>3, <1>4, <1>5 DEF Next

(* A whole file stays whole under every PATCH, but for the moment in which *)
(* its excess has not been cut off yet.                                    *)
LEMMA PatchKeepsWhole ==
    ASSUME TypeOK, HonestWhole, NEW p \in Patchers, ApiFree, PatchAppend(p)
    PROVE  HonestWhole'
  <1> DEFINE f == patchFile[p]
  <1>1. PICK n \in 0..MaxChunk :
          /\ staged' = [staged EXCEPT ![f] = Appended(f, n)]
          /\ patch' = [patch EXCEPT ![p] = IF Appended(f, n) > SizeBytes[f] THEN "over"
                                           ELSE IF Appended(f, n) = SizeBytes[f] THEN "full"
                                           ELSE "idle"]
          /\ UNCHANGED <<patchFile, taken>>
    BY DEF PatchAppend, historyVars
  <1>2. f \in Files
    BY DEF TypeOK
  <1>3. ASSUME NEW g \in Files \ taken
        PROVE  \/ CurrentSize(g)' = SizeBytes[g]
               \/ Overlong(g)' /\ staged'[g] # Absent
    <2>1. CurrentSize(g) = SizeBytes[g] /\ SizeBytes[g] \in Nat
      BY SizeAssumption DEF HonestWhole, ApiFree, Overlong
    <2>2. CASE g # f
      BY <1>1, <2>1, <2>2 DEF TypeOK, CurrentSize
    <2>3. CASE g = f
      <3> HIDE DEF f
      <3>1. staged'[f] = Appended(f, n) /\ Appended(f, n) \in Nat
        BY <1>1, <1>2, AppendedBound DEF TypeOK
      <3>2. Appended(f, n) >= SizeBytes[f]
        BY <1>2, <2>1, <2>3, AppendedBound, ChunkAssumption
      <3>3. CASE Appended(f, n) = SizeBytes[f]
        BY <2>3, <3>1, <3>3 DEF CurrentSize
      <3>4. CASE Appended(f, n) > SizeBytes[f]
        <4>1. patch'[p] = "over" /\ patchFile'[p] = f
          BY <1>1, <3>4 DEF TypeOK, f
        <4> QED
          BY <2>3, <3>1, <4>1 DEF Overlong
      <3> QED
        BY <2>1, <2>3, <3>1, <3>2, <3>3, <3>4
    <2> QED
      BY <2>2, <2>3
  <1> QED
    BY <1>1, <1>3 DEF HonestWhole

LEMMA TruncateKeepsWhole ==
    ASSUME TypeOK, HonestWhole, NEW p \in Patchers, PatchTruncate(p)
    PROVE  HonestWhole'
  <1> DEFINE f == patchFile[p]
  <1>1. /\ patch[p] = "over" /\ patch' = [patch EXCEPT ![p] = "idle"]
        /\ UNCHANGED <<patchFile, taken>>
        /\ IF staged[f] = Absent THEN UNCHANGED staged
           ELSE staged' = [staged EXCEPT ![f] = SizeBytes[f]]
    BY DEF PatchTruncate
  <1>2. f \in Files
    BY DEF TypeOK
  <1>3. ASSUME NEW g \in Files \ taken
        PROVE  \/ CurrentSize(g)' = SizeBytes[g]
               \/ Overlong(g)' /\ staged'[g] # Absent
    <2>1. SizeBytes[g] \in Nat
      BY SizeAssumption
    <2>2. CASE g # f
      <3>1. staged'[g] = staged[g]
        BY <1>1, <2>2 DEF TypeOK
      <3>2. Overlong(g) => Overlong(g)'
        BY <1>1, <2>2 DEF Overlong, TypeOK
      <3> QED
        BY <3>1, <3>2 DEF HonestWhole, CurrentSize
    <2>3. CASE g = f /\ staged[f] = Absent
      BY <1>1, <2>3 DEF HonestWhole, CurrentSize
    <2>4. CASE g = f /\ staged[f] # Absent
      <3>1. staged'[g] = SizeBytes[g]
        BY <1>1, <1>2, <2>4 DEF TypeOK
      <3> QED
        BY <2>1, <3>1 DEF CurrentSize
    <2> QED
      BY <2>2, <2>3, <2>4
  <1> QED
    BY <1>1, <1>3 DEF HonestWhole

(* The other steps of a PATCH, without a fault. *)
LEMMA RestOfPatchKeepsWhole ==
    ASSUME TypeOK, HonestWhole, NEW p \in Patchers, faults = 0, faults' = 0,
           \/ ApiFree /\ \E f \in Files : PatchLoad(p, f)
           \/ PatchMismatch(p) \/ PatchComplete(p) \/ PatchLost(p)
    PROVE  HonestWhole'
  <1>1. UNCHANGED <<staged, taken>>
    BY DEF PatchLoad, PatchMismatch, PatchComplete, PatchLost, stagingVars, historyVars
  <1>2. ASSUME NEW f \in Files, Overlong(f) PROVE Overlong(f)'
    BY <1>2 DEF PatchLoad, PatchMismatch, PatchComplete, PatchLost, Fault, ApiFree,
         Overlong, TypeOK
  <1> QED
    BY <1>1, <1>2 DEF HonestWhole, CurrentSize

(* Staging is shredded only when nothing depends on it.                    *)
LEMMA StagingKept ==
    ASSUME IInv, Untampered, [Next]_vars, faults = 0, faults' = 0, HonestWhole,
           status = "uploading" \/ \E w \in Workers : pc[w] = "encrypting"
    PROVE  HonestWhole'
  <1>0. TypeOK
    BY DEF IInv
  <1>1. CASE UNCHANGED <<staged, taken, patchVars>>
    BY <1>1 DEF HonestWhole, CurrentSize, Overlong, patchVars
  <1>2. ASSUME NEW f \in Malicious, Quarantine(f) PROVE HonestWhole'
    BY <1>0, <1>2 DEF Quarantine, HonestWhole, CurrentSize, Overlong, patchVars, TypeOK
  <1>3. ASSUME NEW w \in Workers, ShredFiles(w) PROVE FALSE
    <2>1. pc[w] = "shredding"
      BY <1>3 DEF ShredFiles, Goto
    <2>2. status # "uploading"
      BY <2>1 DEF Untampered, WorkerSure, Closed
    <2> QED
      BY <2>1, <2>2, Alone DEF InsideLock
  <1>4. ASSUME NEW w \in Workers, CleanupSweep(w) PROVE FALSE
    <2>1. completions = 1
      BY <1>4 DEF CleanupSweep, Untampered, SweepsPublished
    <2> QED
      BY <2>1 DEF IInv, KeyLife, AttemptInv, AttemptOf
  <1> USE DEF stagingVars, historyVars
  <1>5. CASE TusNext
    BY <1>0, <1>5, PatchKeepsWhole, TruncateKeepsWhole, RestOfPatchKeepsWhole
    DEF TusNext, PatchStep
  <1>6. CASE EncryptNext
    <2>1. UNCHANGED <<staged, taken, patchVars>> \/ \E w \in Workers : ShredFiles(w)
      BY <1>6 DEF EncryptNext, EncryptStep, EncryptPop, EncryptLock, EncryptLoad,
           EncryptFile, EncryptRefuse, EncryptCommit, EnqueueTransferEmails,
           ReloadAfterRollback, MarkInfected, SweepPartialObjects, RemoveDir,
           ReleaseLock, EncryptLoadRaises, EncryptRaises, MarkingRaises,
           WorkerCrash, WorkerCancelled, LockExpires
    <2> QED
      BY <1>1, <1>3, <2>1
  <1>7. CASE JanitorNext
    <2>1. UNCHANGED <<staged, taken, patchVars>> \/ \E w \in Workers : CleanupSweep(w)
      BY <1>7 DEF JanitorNext, CleanupStep, DefenderStep, CleanupSelect,
           CleanupCommit, CleanupCommitFails, CleanupDone, DefenderSelect,
           DefenderInspect, DefenderCommit, DefenderCommitFails, DefenderDone
    <2> QED
      BY <1>1, <1>4, <2>1
  <1>8. CASE RequestNext
    <2>1. UNCHANGED <<staged, taken, patchVars>>
      BY <1>8 DEF RequestNext, RequestStep, DeleteLoad, DeletePurge, DeleteCommit, RevokeLoad,
           RevokeCommit, RequestFails, DownloadStart, DownloadEnd
    <2> QED
      BY <1>1, <2>1
  <1>9. CASE Expire \/ UNCHANGED vars
    BY <1>1, <1>9 DEF Expire, vars
  <1> QED
    BY <1>2, <1>5, <1>6, <1>7, <1>8, <1>9 DEF Next

(* completions never goes back, and only CleanupSelect starts a sweep. *)
LEMMA SweepsPublishedStep ==
    ASSUME IInv, IInv', SweepsPublished, [Next]_vars PROVE SweepsPublished'
  <1>1. completions = 1 => completions' = 1
    <2>1. completions' \in {completions, completions + 1}
      <3> USE DEF historyVars
      <3>1. CASE TusNext
        BY <3>1 DEF TusNext, PatchStep, PatchLoad, PatchAppend, PatchTruncate, PatchMismatch, PatchComplete, PatchLost
      <3>2. CASE EncryptNext
        BY <3>2 DEF EncryptNext, EncryptStep, EncryptPop, EncryptLock, EncryptLoad,
             EncryptFile, EncryptRefuse, EncryptCommit, EnqueueTransferEmails,
             ReloadAfterRollback, MarkInfected, SweepPartialObjects, ShredFiles,
             RemoveDir, ReleaseLock, EncryptLoadRaises, EncryptRaises, MarkingRaises,
             WorkerCrash, WorkerCancelled, LockExpires
      <3>3. CASE JanitorNext
        BY <3>3 DEF JanitorNext, CleanupStep, DefenderStep, CleanupSelect,
             CleanupSweep, CleanupCommit, CleanupCommitFails, CleanupDone,
             DefenderSelect, DefenderInspect, DefenderCommit, DefenderCommitFails,
             DefenderDone
      <3>4. CASE RequestNext
        BY <3>4 DEF RequestNext, RequestStep, DeleteLoad, DeletePurge, DeleteCommit, RevokeLoad,
             RevokeCommit, RequestFails, DownloadStart, DownloadEnd
      <3>5. CASE (\E f \in Malicious : Quarantine(f)) \/ Expire \/ UNCHANGED vars
        BY <3>5 DEF Quarantine, Expire, vars
      <3> QED
        BY <3>1, <3>2, <3>3, <3>4, <3>5 DEF Next
    <2> QED
      BY <2>1 DEF IInv, KeyLife
  <1>2. \A w \in Workers : cleanup'[w] # "idle" => cleanup[w] # "idle" \/ status = "ready"
    <2> USE DEF janitorVars, IInv, TypeOK
    <2>1. CASE TusNext
      BY <2>1 DEF TusNext, PatchStep, PatchLoad, PatchAppend, PatchTruncate, PatchMismatch, PatchComplete, PatchLost
    <2>2. CASE EncryptNext
      <3>1. UNCHANGED cleanup \/ \E w \in Workers : cleanup' = [cleanup EXCEPT ![w] = "idle"]
        BY <2>2 DEF EncryptNext, EncryptStep, EncryptPop, EncryptLock, EncryptLoad,
             EncryptFile, EncryptRefuse, EncryptCommit, EnqueueTransferEmails,
             ReloadAfterRollback, MarkInfected, SweepPartialObjects, ShredFiles,
             RemoveDir, ReleaseLock, EncryptLoadRaises, EncryptRaises, MarkingRaises,
             WorkerCrash, WorkerCancelled, LockExpires
      <3> QED
        BY <3>1
    <2>3. CASE JanitorNext
      BY <2>3 DEF JanitorNext, CleanupStep, DefenderStep, CleanupSelect,
           CleanupSweep, CleanupCommit, CleanupCommitFails, CleanupDone,
           DefenderSelect, DefenderInspect, DefenderCommit, DefenderCommitFails,
           DefenderDone
    <2>4. CASE RequestNext
      BY <2>4 DEF RequestNext, RequestStep, DeleteLoad, DeletePurge, DeleteCommit, RevokeLoad,
           RevokeCommit, RequestFails, DownloadStart, DownloadEnd
    <2>5. CASE (\E f \in Malicious : Quarantine(f)) \/ Expire \/ UNCHANGED vars
      BY <2>5 DEF Quarantine, Expire, vars
    <2> QED
      BY <2>1, <2>2, <2>3, <2>4, <2>5 DEF Next
  <1>3. status = "ready" => completions = 1
    BY DEF IInv, KeyLife
  <1> QED
    BY <1>1, <1>2, <1>3 DEF SweepsPublished

(* What each worker has made sure of, step by step.                        *)
LEMMA WorkerSureStep ==
    ASSUME IInv, IInv', Untampered, [Next]_vars, faults = 0, faults' = 0,
           NEW w \in Workers
    PROVE  WorkerSure(w)'
  <1>0. TypeOK /\ WorkerSure(w) /\ JobSure
    BY DEF IInv, Untampered
  <1>1. status' = "uploading" => status = "uploading"
    BY UploadingIsFirst
  <1>2. status = "uploading" /\ HonestWhole => HonestWhole'
    BY StagingKept
  <1>3. pc[w] = "encrypting" => HonestWhole'
    BY <1>0, StagingKept DEF WorkerSure
  <1>4. CASE pc'[w] = pc[w] /\ seen'[w] = seen[w]
    BY <1>0, <1>1, <1>2, <1>3, <1>4 DEF WorkerSure
  <1>5. CASE pc'[w] \in {"idle", "failing", "unlocking"}
    BY <1>5 DEF WorkerSure, Closed
  <1> USE DEF Goto
  <1>6. CASE EncryptPop(w)
    BY <1>0, <1>1, <1>2, <1>6 DEF EncryptPop, WorkerSure, JobSure, Closed, TypeOK
  <1>7. CASE EncryptLock(w)
    BY <1>0, <1>1, <1>2, <1>7 DEF EncryptLock, WorkerSure, Closed, TypeOK
  <1>8. CASE EncryptLoad(w)
    BY <1>0, <1>2, <1>8 DEF EncryptLoad, WorkerSure, Closed, TypeOK
  <1>9. CASE EncryptCommit(w)
    BY <1>0, <1>9 DEF EncryptCommit, Flush, WorkerSure, Closed, TypeOK
  <1>10. CASE ReloadAfterRollback(w)
    BY <1>0, <1>10 DEF ReloadAfterRollback, rowVars, WorkerSure, Closed, TypeOK
  <1>11. CASE MarkInfected(w)
    BY <1>0, <1>11 DEF MarkInfected, Flush, WorkerSure, Closed, TypeOK
  <1>12. CASE \/ EnqueueTransferEmails(w) \/ SweepPartialObjects(w)
              \/ ShredFiles(w) \/ RemoveDir(w)
    <2>1. pc[w] \in Closed /\ pc'[w] \in {"shredding", "removing", "unlocking"}
      BY <1>0, <1>12 DEF EnqueueTransferEmails, SweepPartialObjects, ShredFiles,
           RemoveDir, Closed, TypeOK
    <2> QED
      BY <1>0, <1>1, <2>1 DEF WorkerSure
  <1>13. CASE EncryptNext
    <2>1. PICK v \in Workers : EncryptStep(v) \/ LockExpires
      BY <1>13 DEF EncryptNext, EncryptLoadRaises, EncryptRaises, MarkingRaises,
           WorkerCrash, WorkerCancelled, Fault
    <2>2. CASE LockExpires \/ v # w \/ \E f \in Files : EncryptFile(v, f)
      <3>1. pc'[w] = pc[w] /\ seen'[w] = seen[w]
        BY <1>0, <2>1, <2>2 DEF EncryptStep, EncryptPop, EncryptLock, EncryptLoad,
             EncryptFile, EncryptRefuse, EncryptCommit, EnqueueTransferEmails,
             ReloadAfterRollback, MarkInfected, SweepPartialObjects, ShredFiles,
             RemoveDir, ReleaseLock, LockExpires, encryptVars, TypeOK
      <3> QED
        BY <1>4, <3>1
    <2>3. CASE ReleaseLock(w) \/ \E f \in Files : EncryptRefuse(w, f)
      BY <1>0, <1>5, <2>3 DEF ReleaseLock, EncryptRefuse, TypeOK
    <2> QED
      BY <1>6, <1>7, <1>8, <1>9, <1>10, <1>11, <1>12, <2>1, <2>2, <2>3 DEF EncryptStep
  <1>14. CASE ~EncryptNext
    <2>1. pc'[w] = pc[w] /\ seen'[w] = seen[w]
      BY <1>14, ConsumerFrame DEF encryptVars
    <2> QED
      BY <1>4, <2>1
  <1> QED
    BY <1>13, <1>14

(* PatchComplete is the one step that pushes a job. *)
LEMMA JobSureStep ==
    ASSUME IInv, Untampered, [Next]_vars, faults = 0, faults' = 0 PROVE JobSure'
  <1>0. TypeOK /\ JobSure
    BY DEF IInv, Untampered
  <1>1. uploadReady' > 0 => \/ uploadReady > 0
                            \/ AllFilesComplete /\ UNCHANGED <<staged, taken>>
    <2> USE <1>0 DEF TypeOK, redisVars
    <2>1. CASE TusNext
      BY <2>1 DEF TusNext, PatchStep, PatchLoad, PatchAppend, PatchTruncate, PatchMismatch, PatchComplete, PatchLost, stagingVars, historyVars
    <2>2. CASE EncryptNext
      BY <2>2 DEF EncryptNext, EncryptStep, EncryptPop, EncryptLock, EncryptLoad,
           EncryptFile, EncryptRefuse, EncryptCommit, EnqueueTransferEmails,
           ReloadAfterRollback, MarkInfected, SweepPartialObjects, ShredFiles,
           RemoveDir, ReleaseLock, EncryptLoadRaises, EncryptRaises, MarkingRaises,
           WorkerCrash, WorkerCancelled, LockExpires
    <2>3. CASE JanitorNext
      BY <2>3 DEF JanitorNext, CleanupStep, DefenderStep, CleanupSelect,
           CleanupSweep, CleanupCommit, CleanupCommitFails, CleanupDone,
           DefenderSelect, DefenderInspect, DefenderCommit, DefenderCommitFails,
           DefenderDone
    <2>4. CASE RequestNext
      BY <2>4 DEF RequestNext, RequestStep, DeleteLoad, DeletePurge, DeleteCommit, RevokeLoad,
           RevokeCommit, RequestFails, DownloadStart, DownloadEnd
    <2>5. CASE (\E f \in Malicious : Quarantine(f)) \/ Expire \/ UNCHANGED vars
      BY <2>5 DEF Quarantine, Expire, vars
    <2> QED
      BY <2>1, <2>2, <2>3, <2>4, <2>5 DEF Next
  <1>2. status' = "uploading" => status = "uploading"
    BY UploadingIsFirst
  <1>3. AllFilesComplete /\ UNCHANGED <<staged, taken>> => HonestWhole'
    BY DEF AllFilesComplete, HonestWhole, CurrentSize
  <1>4. status = "uploading" /\ HonestWhole => HonestWhole'
    BY StagingKept
  <1> QED
    BY <1>0, <1>1, <1>2, <1>3, <1>4 DEF JobSure

LEMMA UntamperedStep ==
    ASSUME IInv, IInv', Untampered, [Next]_vars PROVE Untampered'
  <1>1. SweepsPublished'
    BY SweepsPublishedStep DEF Untampered
  <1>2. ASSUME faults' = 0 PROVE JobSure' /\ \A w \in Workers : WorkerSure(w)'
    <2>1. faults = 0
      BY <1>2, FaultsStay DEF IInv
    <2> QED
      BY <1>2, <2>1, JobSureStep, WorkerSureStep
  <1> QED
    BY <1>1, <1>2 DEF Untampered

(* Without a fault the consumer refuses no upload that nothing tampered    *)
(* with, but for an empty file that was never sent and for a file that a   *)
(* PATCH has just run past and not yet cut: any number of duplicate jobs,  *)
(* workers, PATCHes, deletes and revokes may be under way.                 *)
THEOREM OnlyTamperedRefused ==
    ASSUME ~SlowEncrypt PROVE Spec => RefusedOnlyIfTampered
  <1>1. IInv /\ IInv' /\ Untampered /\ [Next]_vars => Untampered'
    BY UntamperedStep
  <1>2. Spec => [](IInv /\ Untampered)
    BY InitUntampered, Invariance, <1>1, PTL DEF Spec
  <1>3. ASSUME IInv, Untampered, [Next]_vars, NEW w \in Workers, faults' = 0,
               pc[w] = "encrypting", NEW f \in todo[w]
        PROVE  \/ staged[f] = SizeBytes[f]
               \/ staged[f] = Absent /\ SizeBytes[f] = 0
               \/ Overlong(f)
               \/ f \in taken
    <2>1. HonestWhole
      BY <1>3, FaultsStay DEF IInv, Untampered, WorkerSure
    <2>2. f \in Files
      BY <1>3 DEF IInv, TypeOK
    <2> QED
      BY <2>1, <2>2 DEF HonestWhole, CurrentSize
  <1> DEFINE Refusal ==
        \A w \in Workers :
          faults' = 0 /\ pc[w] = "encrypting" /\ pc'[w] = "failing" =>
            \A f \in todo[w] :
              \/ staged[f] = SizeBytes[f]
              \/ staged[f] = Absent /\ SizeBytes[f] = 0
              \/ Overlong(f)
              \/ f \in taken
  <1>4. (IInv /\ Untampered) /\ [Next]_vars => [Refusal]_pc
    BY <1>3
  <1>5. RefusedOnlyIfTampered <=> [][Refusal]_pc
    BY PTL DEF RefusedOnlyIfTampered
  <1> HIDE DEF Refusal
  <1> QED
    BY <1>2, <1>4, <1>5, PTL DEF Spec

-----------------------------------------------------------------------------
(* The refinement: every step is a step of ShareLink or leaves link and    *)
(* secret alone.                                                           *)

(* A step that changes neither status, nor wrapped_key, nor the completion *)
(* count is invisible.                                                     *)
LEMMA InvisibleStep ==
    ASSUME UNCHANGED <<status, wrappedKey, completions>>
    PROVE  [Link!SLNext]_(Link!slVars)
  BY DEF Link!slVars

(* A commit that closes the transfer is Close, Erase or invisible. *)
LEMMA ClosingStep ==
    ASSUME IInv, status' # "ready", wrappedKey' \in {0, wrappedKey},
           completions' = completions
    PROVE  [Link!SLNext]_(Link!slVars)
  <1>1. completions = 0 => wrappedKey = 0 /\ status # "ready"
    BY DEF IInv, KeyLife
  <1>2. status = "ready" => wrappedKey # 0
    BY DEF IInv, KeyLife
  <1>3. CASE status = "ready"
    BY <1>1, <1>2, <1>3 DEF Link!SLNext, Link!Close
  <1>4. CASE status # "ready" /\ wrappedKey' = wrappedKey
    BY <1>4 DEF Link!slVars
  <1>5. CASE status # "ready" /\ wrappedKey' # wrappedKey
    BY <1>1, <1>5 DEF Link!SLNext, Link!Erase
  <1> QED
    BY <1>3, <1>4, <1>5

(* The encrypt commit is Publish. *)
LEMMA PublishStep ==
    ASSUME IInv, NEW w \in Workers, EncryptCommit(w)
    PROVE  [Link!SLNext]_(Link!slVars)
  <1>1. completions = 0 /\ fileKey[w] # 0
    BY DEF EncryptCommit, Goto, IInv, AttemptInv, AttemptOf
  <1>2. wrappedKey = 0 /\ status # "ready"
    BY <1>1 DEF IInv, KeyLife
  <1>3. status' = "ready" /\ wrappedKey' = fileKey[w]
    BY <1>1 DEF EncryptCommit, Flush
  <1> QED
    BY <1>1, <1>2, <1>3 DEF Link!SLNext, Link!Publish

LEMMA StepRefines ==
    ASSUME IInv, [Next]_vars PROVE [Link!SLNext]_(Link!slVars)
  <1> USE DEF rowVars, redisVars, encryptVars, historyVars
  <1>1. CASE TusNext
    <2>1. UNCHANGED <<status, wrappedKey, completions>>
      BY <1>1 DEF TusNext, PatchStep, PatchLoad, PatchAppend, PatchTruncate,
                  PatchMismatch, PatchComplete, PatchLost
    <2> QED
      BY <2>1, InvisibleStep
  <1>2. ASSUME NEW w \in Workers, MarkInfected(w) PROVE [Link!SLNext]_(Link!slVars)
    <2>1. CASE status' = "infected"
      BY <1>2, <2>1, ClosingStep DEF MarkInfected
    <2>2. CASE status' # "infected"
      <3>1. UNCHANGED <<status, wrappedKey, completions>>
        BY <1>2, <2>2 DEF MarkInfected, Flush
      <3> QED
        BY <3>1, InvisibleStep
    <2> QED
      BY <2>1, <2>2
  <1>3. CASE EncryptNext
    <2>1. \/ UNCHANGED <<status, wrappedKey, completions>>
          \/ \E w \in Workers : EncryptCommit(w) \/ MarkInfected(w)
      BY <1>3 DEF EncryptNext, EncryptStep, EncryptPop, EncryptLock, EncryptLoad,
                  EncryptFile, EncryptRefuse, EnqueueTransferEmails,
                  ReloadAfterRollback, SweepPartialObjects, ShredFiles,
                  RemoveDir, ReleaseLock, EncryptLoadRaises, EncryptRaises,
                  MarkingRaises, WorkerCrash, WorkerCancelled, LockExpires
    <2> QED
      BY <1>2, <2>1, PublishStep, InvisibleStep
  <1>4. CASE JanitorNext
    <2>1. \/ UNCHANGED <<status, wrappedKey, completions>>
          \/ /\ status' \in {"expired", "infected"}
             /\ wrappedKey' \in {0, wrappedKey} /\ completions' = completions
      BY <1>4 DEF JanitorNext, CleanupStep, DefenderStep, CleanupSelect,
                  CleanupSweep, CleanupCommit, CleanupCommitFails, CleanupDone,
                  DefenderSelect, DefenderInspect, DefenderCommit,
                  DefenderCommitFails, DefenderDone, Flush
    <2> QED
      BY <2>1, InvisibleStep, ClosingStep
  <1>5. CASE RequestNext
    <2>1. \/ UNCHANGED <<status, wrappedKey, completions>>
          \/ /\ status' \in {"deleted", "revoked"}
             /\ wrappedKey' \in {0, wrappedKey} /\ completions' = completions
      BY <1>5 DEF RequestNext, RequestStep, DeleteLoad, DeletePurge, DeleteCommit, RevokeLoad,
                  RevokeCommit, RequestFails, DownloadStart, LoadReadyTransfer,
                  DownloadEnd, Flush
    <2> QED
      BY <2>1, InvisibleStep, ClosingStep
  <1>6. ASSUME \/ \E f \in Malicious : Quarantine(f)
               \/ Expire
               \/ UNCHANGED vars
        PROVE  [Link!SLNext]_(Link!slVars)
    <2>1. UNCHANGED <<status, wrappedKey, completions>>
      BY <1>6 DEF Quarantine, Expire, vars
    <2> QED
      BY <2>1, InvisibleStep
  <1> QED
    BY <1>1, <1>3, <1>4, <1>5, <1>6 DEF Next

(* The lifecycle implements ShareLink: the link opens once at most, in the *)
(* step that stores the key; closed, it stays closed; an erased key stays  *)
(* erased, in spite of every commit that overwrites a newer row.           *)
THEOREM ShareLinkRefinement ==
    ASSUME ~SlowEncrypt PROVE Spec => LinkSpec
  <1>1. Init => Link!SLInit
    BY DEF Init, Link!SLInit
  <1>2. IInv /\ [Next]_vars => [Link!SLNext]_(Link!slVars)
    BY StepRefines
  <1> QED
    BY Invariance, <1>1, <1>2, PTL DEF Spec, LinkSpec, Link!SLSpec

=============================================================================
