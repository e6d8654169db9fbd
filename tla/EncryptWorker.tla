---------------------------- MODULE EncryptWorker ----------------------------
(***************************************************************************)
(* The upload consumer of a worker process: process_encrypt_job, from the  *)
(* BRPOP that hands it the job to the DEL that frees the lock.             *)
(***************************************************************************)
EXTENDS TransferState

Goto(w, from, to) ==
    /\ pc[w] = from
    /\ pc' = [pc EXCEPT ![w] = to]

(***************************************************************************)
(* BRPOP removes the job for good: a crash from here on loses it.          *)
(***************************************************************************)
EncryptPop(w) ==
    /\ Goto(w, "idle", "popped")
    /\ uploadReady > 0
    /\ uploadReady' = uploadReady - 1
    /\ UNCHANGED <<rowVars, pastExpiry, stagingVars, objects, lock, todo,
                   fileKey, seen, keysMade, janitorVars, patchVars,
                   requestVars, stream, faults, historyVars>>

(* Mutant: a plain SET, without NX. *)
EncryptLock_NoNX(w) ==
    /\ Goto(w, "popped", "locked")
    /\ lock' = w
    /\ UNCHANGED <<rowVars, pastExpiry, stagingVars, objects, uploadReady,
                   todo, fileKey, seen, keysMade, janitorVars, patchVars,
                   requestVars, stream, faults, historyVars>>

(***************************************************************************)
(* SET NX EX.  When the lock is there the job is dropped, not requeued.    *)
(***************************************************************************)
EncryptLock(w) ==
    /\ IF lock = NoWorker
         THEN Goto(w, "popped", "locked") /\ lock' = w
         ELSE Goto(w, "popped", "idle") /\ UNCHANGED lock
    /\ UNCHANGED <<rowVars, pastExpiry, stagingVars, objects, uploadReady,
                   todo, fileKey, seen, keysMade, janitorVars, patchVars,
                   requestVars, stream, faults, historyVars>>

(* Mutant: the status of the loaded row is not looked at. *)
EncryptLoad_AnyStatus(w) ==
    /\ Goto(w, "locked", "encrypting")
    /\ todo' = [todo EXCEPT ![w] = Files]
    /\ keysMade' = keysMade + 1
    /\ fileKey' = [fileKey EXCEPT ![w] = keysMade + 1]
    /\ UNCHANGED <<rowVars, pastExpiry, stagingVars, objects, redisVars, seen,
                   janitorVars, patchVars, requestVars, stream, faults,
                   historyVars>>

(* Mutant: the early return is outside the try that releases the lock. *)
EncryptLoad_KeepsLock(w) ==
    \/ status = "uploading" /\ EncryptLoad_AnyStatus(w)
    \/ /\ status # "uploading"
       /\ Goto(w, "locked", "idle")
       /\ UNCHANGED <<rowVars, pastExpiry, stagingVars, objects, redisVars, seen,
                      todo, keysMade, fileKey, janitorVars, patchVars,
                      requestVars, stream, faults, historyVars>>

(* Mutant: an upload that took until its expiry is not worth encrypting. *)
EncryptLoad_SkipsExpired(w) ==
    \/ status = "uploading" /\ ~pastExpiry /\ EncryptLoad_AnyStatus(w)
    \/ /\ status # "uploading" \/ pastExpiry
       /\ Goto(w, "locked", "unlocking")
       /\ UNCHANGED <<rowVars, pastExpiry, stagingVars, objects, redisVars, seen,
                      todo, keysMade, fileKey, janitorVars, patchVars,
                      requestVars, stream, faults, historyVars>>

(***************************************************************************)
(* Load the row.  A status other than uploading returns at once (only the  *)
(* lock is released); otherwise a fresh file key is drawn.                 *)
(***************************************************************************)
EncryptLoad(w) ==
    /\ IF status = "uploading"
         THEN /\ Goto(w, "locked", "encrypting")
              /\ todo' = [todo EXCEPT ![w] = Files]
              /\ keysMade' = keysMade + 1
              /\ fileKey' = [fileKey EXCEPT ![w] = keysMade + 1]
         ELSE /\ Goto(w, "locked", "unlocking")
              /\ UNCHANGED <<todo, keysMade, fileKey>>
    /\ UNCHANGED <<rowVars, pastExpiry, stagingVars, objects, redisVars, seen,
                   janitorVars, patchVars, requestVars, stream, faults,
                   historyVars>>

(***************************************************************************)
(* A query before the inner try raises: only the outer finally runs, and   *)
(* the job goes to the dead-letter queue.                                  *)
(***************************************************************************)
EncryptLoadRaises(w) ==
    /\ Goto(w, "locked", "unlocking")
    /\ Fault
    /\ jobLost' = TRUE
    /\ UNCHANGED <<rowVars, pastExpiry, stagingVars, objects, redisVars, todo,
                   fileKey, seen, keysMade, janitorVars, patchVars,
                   requestVars, stream, completions, mailings, purged, taken>>

(***************************************************************************)
(* One file: it must be in staging with its declared size; its ciphertext  *)
(* is put under the file's object key, replacing what was there.           *)
(***************************************************************************)
EncryptFile(w, f) ==
    /\ pc[w] = "encrypting"
    /\ f \in todo[w]
    /\ staged[f] = SizeBytes[f]
    /\ objects' = [objects EXCEPT ![f] = fileKey[w]]
    /\ todo' = [todo EXCEPT ![w] = @ \ {f}]
    /\ UNCHANGED <<rowVars, pastExpiry, stagingVars, redisVars, pc, fileKey,
                   seen, keysMade, janitorVars, patchVars, requestVars, stream,
                   faults, historyVars>>

(***************************************************************************)
(* EncryptError: the staging file is missing or has another size.          *)
(***************************************************************************)
EncryptRefuse(w, f) ==
    /\ f \in todo[w]
    /\ staged[f] # SizeBytes[f]
    /\ Goto(w, "encrypting", "failing")
    /\ UNCHANGED <<rowVars, pastExpiry, stagingVars, objects, redisVars, todo,
                   fileKey, seen, keysMade, janitorVars, patchVars,
                   requestVars, stream, faults, historyVars>>

(***************************************************************************)
(* The read, the put or the commit raises: the except branch is taken.     *)
(***************************************************************************)
EncryptRaises(w) ==
    /\ Goto(w, "encrypting", "failing")
    /\ Fault
    /\ UNCHANGED <<rowVars, pastExpiry, stagingVars, objects, redisVars, todo,
                   fileKey, seen, keysMade, janitorVars, patchVars,
                   requestVars, stream, historyVars>>

(* Mutant: the commit does not wait for the last file. *)
EncryptCommit_Early(w) ==
    /\ Goto(w, "encrypting", "mailing")
    /\ todo[w] # Files
    /\ status' = "ready"
    /\ wrappedKey' = fileKey[w]
    /\ completions' = completions + 1
    /\ UNCHANGED <<pastExpiry, stagingVars, objects, redisVars, todo, fileKey,
                   seen, keysMade, janitorVars, patchVars, requestVars, stream,
                   faults, mailings, purged, jobLost, taken>>

(***************************************************************************)
(* Commit status and wrapped_key with the upload_complete event.  Both     *)
(* columns differ from what EncryptLoad saw, so both are written, whatever *)
(* the row holds by now.                                                   *)
(***************************************************************************)
EncryptCommit(w) ==
    /\ Goto(w, "encrypting", "mailing")
    /\ todo[w] = {}
    /\ status' = Flush("uploading", "ready", status)
    /\ wrappedKey' = Flush(0, fileKey[w], wrappedKey)
    /\ completions' = completions + 1
    /\ UNCHANGED <<pastExpiry, stagingVars, objects, redisVars, todo, fileKey,
                   seen, keysMade, janitorVars, patchVars, requestVars, stream,
                   faults, mailings, purged, jobLost, taken>>

(***************************************************************************)
(* _enqueue_transfer_emails; its own try block swallows a failure.         *)
(***************************************************************************)
EnqueueTransferEmails(w) ==
    /\ Goto(w, "mailing", "shredding")
    /\ \/ mailings' = mailings + 1 /\ UNCHANGED faults
       \/ Fault /\ UNCHANGED mailings
    /\ UNCHANGED <<rowVars, pastExpiry, stagingVars, objects, redisVars, todo,
                   fileKey, seen, keysMade, janitorVars, patchVars,
                   requestVars, stream, completions, purged, jobLost, taken>>

(***************************************************************************)
(* After the rollback the row is read afresh ...                           *)
(***************************************************************************)
ReloadAfterRollback(w) ==
    /\ Goto(w, "failing", "marking")
    /\ seen' = [seen EXCEPT ![w] = status]
    /\ UNCHANGED <<rowVars, pastExpiry, stagingVars, objects, redisVars, todo,
                   fileKey, keysMade, janitorVars, patchVars, requestVars,
                   stream, faults, historyVars>>

(***************************************************************************)
(* ... and marked infected, whatever its status was.                       *)
(***************************************************************************)
MarkInfected(w) ==
    /\ Goto(w, "marking", "sweeping")
    /\ status' = Flush(seen[w], "infected", status)
    /\ UNCHANGED <<wrappedKey, pastExpiry, stagingVars, objects, redisVars,
                   todo, fileKey, seen, keysMade, janitorVars, patchVars,
                   requestVars, stream, faults, historyVars>>

(***************************************************************************)
(* The database fails again inside the except branch: the finally clauses  *)
(* still run, the row is left as it was, the partial objects stay, and the *)
(* job goes to the dead-letter queue.                                      *)
(***************************************************************************)
MarkingRaises(w) ==
    /\ pc[w] \in {"failing", "marking"}
    /\ pc' = [pc EXCEPT ![w] = "shredding"]
    /\ Fault
    /\ jobLost' = TRUE
    /\ UNCHANGED <<rowVars, pastExpiry, stagingVars, objects, redisVars, todo,
                   fileKey, seen, keysMade, janitorVars, patchVars,
                   requestVars, stream, completions, mailings, purged, taken>>

(***************************************************************************)
(* Best effort: remove the objects of the failed attempt.                  *)
(***************************************************************************)
SweepPartialObjects(w) ==
    /\ Goto(w, "sweeping", "shredding")
    /\ delete_transfer
    /\ UNCHANGED <<rowVars, pastExpiry, stagingVars, redisVars, todo, fileKey,
                   seen, keysMade, janitorVars, patchVars, requestVars, stream,
                   completions, mailings, jobLost, taken>>

(***************************************************************************)
(* The finally clause: secure_delete unlinks the files it listed ...       *)
(***************************************************************************)
ShredFiles(w) ==
    /\ Goto(w, "shredding", "removing")
    /\ staged' = [f \in Files |-> Absent]
    /\ UNCHANGED <<rowVars, pastExpiry, dir, objects, redisVars, todo, fileKey,
                   seen, keysMade, janitorVars, patchVars, requestVars, stream,
                   faults, historyVars>>

(***************************************************************************)
(* ... and removes the directory, unless a file has appeared in it.        *)
(***************************************************************************)
RemoveDir(w) ==
    /\ Goto(w, "removing", "unlocking")
    /\ dir' = (dir /\ \E f \in Files : staged[f] # Absent)
    /\ UNCHANGED <<rowVars, pastExpiry, staged, objects, redisVars, todo,
                   fileKey, seen, keysMade, janitorVars, patchVars,
                   requestVars, stream, faults, historyVars>>

(***************************************************************************)
(* DEL of the lock key, whoever holds it now; a failing DEL is swallowed   *)
(* and leaves the key to its TTL.                                          *)
(***************************************************************************)
ReleaseLock(w) ==
    /\ Goto(w, "unlocking", "idle")
    /\ \/ lock' = NoWorker /\ UNCHANGED faults
       \/ Fault /\ UNCHANGED lock
    /\ todo' = [todo EXCEPT ![w] = {}]
    /\ fileKey' = [fileKey EXCEPT ![w] = 0]
    /\ seen' = [seen EXCEPT ![w] = "uploading"]
    /\ UNCHANGED <<rowVars, pastExpiry, stagingVars, objects, uploadReady,
                   keysMade, janitorVars, patchVars, requestVars, stream,
                   historyVars>>

InsideLock == {"locked", "encrypting", "failing", "marking", "sweeping",
               "mailing", "shredding", "removing", "unlocking"}

(***************************************************************************)
(* The lock's TTL runs out.  It is meant for a holder that died; only with *)
(* SlowEncrypt does it run out under a holder still at work.               *)
(***************************************************************************)
LockExpires ==
    /\ lock # NoWorker
    /\ SlowEncrypt \/ pc[lock] \notin InsideLock
    /\ lock' = NoWorker
    /\ UNCHANGED <<rowVars, pastExpiry, stagingVars, objects, uploadReady,
                   encryptVars, janitorVars, patchVars, requestVars, stream,
                   faults, historyVars>>

(***************************************************************************)
(* The worker process is killed, and all its coroutines with it; the       *)
(* restarted one begins idle.                                              *)
(***************************************************************************)
WorkerCrash(w) ==
    /\ Fault
    /\ pc' = [pc EXCEPT ![w] = "idle"]
    /\ todo' = [todo EXCEPT ![w] = {}]
    /\ fileKey' = [fileKey EXCEPT ![w] = 0]
    /\ seen' = [seen EXCEPT ![w] = "uploading"]
    /\ cleanup' = [cleanup EXCEPT ![w] = "idle"]
    /\ cleanupKey' = [cleanupKey EXCEPT ![w] = 0]
    /\ poll' = [poll EXCEPT ![w] = "idle"]
    /\ jobLost' = (jobLost \/ pc[w] # "idle")
    /\ UNCHANGED <<rowVars, pastExpiry, stagingVars, objects, redisVars,
                   keysMade, patchVars, requestVars, stream, completions,
                   mailings, purged, taken>>

(***************************************************************************)
(* The other consumer's BRPOP raises, or the worker is interrupted: gather *)
(* ends, the job is cancelled at an await inside the inner try, and its    *)
(* finally clauses still run before the process is gone.                   *)
(***************************************************************************)
WorkerCancelled(w) ==
    /\ \/ pc[w] \in {"mailing", "failing", "marking"}
       \/ pc[w] = "encrypting" /\ todo[w] = {}
    /\ Fault
    /\ pc' = [pc EXCEPT ![w] = "shredding"]
    /\ cleanup' = [cleanup EXCEPT ![w] = "idle"]
    /\ cleanupKey' = [cleanupKey EXCEPT ![w] = 0]
    /\ poll' = [poll EXCEPT ![w] = "idle"]
    /\ jobLost' = TRUE
    /\ UNCHANGED <<rowVars, pastExpiry, stagingVars, objects, redisVars, todo,
                   fileKey, seen, keysMade, patchVars, requestVars, stream,
                   completions, mailings, purged, taken>>

EncryptStep(w) ==
    \/ EncryptPop(w)
    \/ EncryptLock(w)
    \/ EncryptLoad(w)
    \/ \E f \in Files : EncryptFile(w, f) \/ EncryptRefuse(w, f)
    \/ EncryptCommit(w)
    \/ EnqueueTransferEmails(w)
    \/ ReloadAfterRollback(w)
    \/ MarkInfected(w)
    \/ SweepPartialObjects(w)
    \/ ShredFiles(w)
    \/ RemoveDir(w)
    \/ ReleaseLock(w)

EncryptNext ==
    \/ \E w \in Workers :
        \/ EncryptStep(w)
        \/ EncryptLoadRaises(w)
        \/ EncryptRaises(w)
        \/ MarkingRaises(w)
        \/ WorkerCrash(w)
        \/ WorkerCancelled(w)
    \/ LockExpires

=============================================================================
