------------------------------- MODULE Janitors -------------------------------
(***************************************************************************)
(* The two periodic jobs of a worker process: the cleanup tick (every five *)
(* minutes) and the Defender tick (every thirty seconds).  The scheduler   *)
(* runs each with max_instances=1, so a worker has one of each in flight.  *)
(***************************************************************************)
EXTENDS TransferState

(***************************************************************************)
(* run_cleanup_once selects the ready transfers past their expiry ...      *)
(***************************************************************************)
CleanupSelect(w) ==
    /\ cleanup[w] = "idle"
    /\ status = "ready"
    /\ pastExpiry
    /\ cleanup' = [cleanup EXCEPT ![w] = "selected"]
    /\ cleanupKey' = [cleanupKey EXCEPT ![w] = wrappedKey]
    /\ UNCHANGED <<rowVars, pastExpiry, stagingVars, objects, redisVars,
                   encryptVars, poll, patchVars, requestVars, stream, faults,
                   historyVars>>

(* Mutant: the staging directory is left to the consumer. *)
CleanupSweep_ObjectsOnly(w) ==
    /\ cleanup[w] = "selected"
    /\ LoopFree(w)
    /\ delete_transfer
    /\ cleanup' = [cleanup EXCEPT ![w] = "purged"]
    /\ UNCHANGED <<rowVars, pastExpiry, stagingVars, redisVars, encryptVars,
                   cleanupKey, poll, patchVars, requestVars, stream,
                   completions, mailings, jobLost, taken>>

(***************************************************************************)
(* ... removes their objects and shreds their staging directory ...        *)
(***************************************************************************)
CleanupSweep(w) ==
    /\ cleanup[w] = "selected"
    /\ LoopFree(w)
    /\ delete_transfer
    /\ secure_delete
    /\ cleanup' = [cleanup EXCEPT ![w] = "purged"]
    /\ UNCHANGED <<rowVars, pastExpiry, redisVars, encryptVars, cleanupKey,
                   poll, patchVars, requestVars, stream, completions, mailings,
                   jobLost, taken>>

CleanupDone(w) ==
    /\ cleanup' = [cleanup EXCEPT ![w] = "idle"]
    /\ cleanupKey' = [cleanupKey EXCEPT ![w] = 0]
    /\ UNCHANGED <<pastExpiry, stagingVars, objects, redisVars, encryptVars,
                   poll, patchVars, requestVars, stream, historyVars>>

(* Mutant: the key is erased but the status is left at ready. *)
CleanupCommit_KeyOnly(w) ==
    /\ cleanup[w] = "purged"
    /\ wrappedKey' = Flush(cleanupKey[w], 0, wrappedKey)
    /\ CleanupDone(w)
    /\ UNCHANGED <<status, faults>>

(***************************************************************************)
(* ... and commits the expiry and the erased key at the end.               *)
(***************************************************************************)
CleanupCommit(w) ==
    /\ cleanup[w] = "purged"
    /\ status' = Flush("ready", "expired", status)
    /\ wrappedKey' = Flush(cleanupKey[w], 0, wrappedKey)
    /\ CleanupDone(w)
    /\ UNCHANGED faults

(***************************************************************************)
(* The commit fails: the tick is abandoned after the objects are gone, and *)
(* the next tick finds the transfer ready again.                           *)
(***************************************************************************)
CleanupCommitFails(w) ==
    /\ cleanup[w] = "purged"
    /\ Fault
    /\ CleanupDone(w)
    /\ UNCHANGED rowVars

-----------------------------------------------------------------------------
(***************************************************************************)
(* run_defender_poll_once selects the uploading transfers older than ten   *)
(* seconds.  Any amount of time may pass before this step, so the age is   *)
(* not kept.                                                               *)
(***************************************************************************)
DefenderSelect(w) ==
    /\ poll[w] = "idle"
    /\ status = "uploading"
    /\ poll' = [poll EXCEPT ![w] = "selected"]
    /\ UNCHANGED <<rowVars, pastExpiry, stagingVars, objects, redisVars,
                   encryptVars, cleanup, cleanupKey, patchVars, requestVars,
                   stream, faults, historyVars>>

(***************************************************************************)
(* A file that is missing from an existing directory counts as             *)
(* quarantined; a transfer without a directory is skipped.                 *)
(***************************************************************************)
DefenderMissing == {f \in Files : dir /\ staged[f] = Absent}

DefenderInspect(w) ==
    /\ poll[w] = "selected"
    /\ LoopFree(w)
    /\ poll' = [poll EXCEPT ![w] = IF DefenderMissing = {} THEN "idle" ELSE "flagged"]
    /\ UNCHANGED <<rowVars, pastExpiry, stagingVars, objects, redisVars,
                   encryptVars, cleanup, cleanupKey, patchVars, requestVars,
                   stream, faults, historyVars>>

DefenderDone(w) ==
    /\ poll' = [poll EXCEPT ![w] = "idle"]
    /\ UNCHANGED <<wrappedKey, pastExpiry, stagingVars, objects, redisVars,
                   encryptVars, cleanup, cleanupKey, patchVars, requestVars,
                   stream, historyVars>>

(***************************************************************************)
(* Commit the infected status over whatever the row holds by now.          *)
(***************************************************************************)
DefenderCommit(w) ==
    /\ poll[w] = "flagged"
    /\ status' = Flush("uploading", "infected", status)
    /\ DefenderDone(w)
    /\ UNCHANGED faults

DefenderCommitFails(w) ==
    /\ poll[w] = "flagged"
    /\ Fault
    /\ DefenderDone(w)
    /\ UNCHANGED status

CleanupStep(w) == CleanupSelect(w) \/ CleanupSweep(w) \/ CleanupCommit(w)

DefenderStep(w) == DefenderSelect(w) \/ DefenderInspect(w) \/ DefenderCommit(w)

JanitorNext ==
    \E w \in Workers :
        \/ CleanupStep(w)
        \/ CleanupCommitFails(w)
        \/ DefenderStep(w)
        \/ DefenderCommitFails(w)

=============================================================================
