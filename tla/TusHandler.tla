------------------------------ MODULE TusHandler ------------------------------
(***************************************************************************)
(* The tus PATCH handler of the api process.  The row is loaded first; the *)
(* status test, the offset test and the append run without an await after  *)
(* it, on whatever the directory holds by then.  The client is free: it    *)
(* may send any chunk of any file, repeat one, or stop.                    *)
(***************************************************************************)
EXTENDS TransferState

(***************************************************************************)
(* Load the row; a transfer that is not uploading is refused with 409.     *)
(***************************************************************************)
PatchLoad(p, f) ==
    /\ patch[p] = "idle"
    /\ status = "uploading"
    /\ patch' = [patch EXCEPT ![p] = "loaded"]
    /\ patchFile' = [patchFile EXCEPT ![p] = f]
    /\ UNCHANGED <<rowVars, pastExpiry, stagingVars, objects, redisVars,
                   encryptVars, janitorVars, requestVars, stream, faults,
                   historyVars>>

CurrentSize(f) == IF staged[f] = Absent THEN 0 ELSE staged[f]

(* Mutant: _append_stream writes whatever the client sends. *)
Appended_Uncapped(f, n) == CurrentSize(f) + n

(***************************************************************************)
(* _append_stream, the size of f after a body of n bytes: it stops at one  *)
(* read past the declared size, counted from the size it finds.            *)
(***************************************************************************)
Appended(f, n) ==
    LET limit == SizeBytes[f] + Slack
    IN  IF CurrentSize(f) + n > limit THEN limit ELSE CurrentSize(f) + n

(***************************************************************************)
(* The append at the current offset.  A chunk that ends on the declared    *)
(* size goes on to the completeness test; one that runs past it is on the  *)
(* disk, where the workers and the antivirus see it, until it is cut off.  *)
(***************************************************************************)
PatchAppend(p) ==
    LET f == patchFile[p]
    IN  \E n \in 0..MaxChunk :
        LET offset == Appended(f, n)
        IN  /\ patch[p] = "loaded"
            /\ dir' = TRUE
            /\ staged' = [staged EXCEPT ![f] = offset]
            /\ patch' = [patch EXCEPT ![p] = IF offset > SizeBytes[f] THEN "over"
                                            ELSE IF offset = SizeBytes[f] THEN "full"
                                            ELSE "idle"]
            /\ UNCHANGED <<rowVars, pastExpiry, objects, redisVars, encryptVars,
                           janitorVars, patchFile, requestVars, stream, faults,
                           historyVars>>

(* Mutant: the excess of an oversized chunk is not cut off. *)
PatchTruncate_Not(p) ==
    /\ patch[p] = "over"
    /\ patch' = [patch EXCEPT ![p] = "idle"]
    /\ UNCHANGED <<rowVars, pastExpiry, stagingVars, objects, redisVars, encryptVars,
                   janitorVars, patchFile, requestVars, stream, faults, historyVars>>

(***************************************************************************)
(* The file is cut back to its declared size and the chunk refused with    *)
(* 413: the file is full, and no job follows should it be the last one.  A *)
(* file that is gone by now cannot be opened.                              *)
(***************************************************************************)
PatchTruncate(p) ==
    LET f == patchFile[p]
    IN  /\ patch[p] = "over"
        /\ IF staged[f] = Absent
             THEN UNCHANGED <<staged, jobLost>>
             ELSE /\ staged' = [staged EXCEPT ![f] = SizeBytes[f]]
                  /\ jobLost' = (jobLost \/ \A g \in Files \ {f} :
                                               CurrentSize(g) = SizeBytes[g])
        /\ patch' = [patch EXCEPT ![p] = "idle"]
        /\ UNCHANGED <<rowVars, pastExpiry, dir, objects, redisVars, encryptVars,
                       janitorVars, patchFile, requestVars, stream, faults,
                       completions, mailings, purged, taken>>

(***************************************************************************)
(* The Upload-Offset header does not match the file: 409, nothing written. *)
(***************************************************************************)
PatchMismatch(p) ==
    /\ patch[p] = "loaded"
    /\ patch' = [patch EXCEPT ![p] = "idle"]
    /\ UNCHANGED <<rowVars, pastExpiry, stagingVars, objects, redisVars,
                   encryptVars, janitorVars, patchFile, requestVars, stream,
                   faults, historyVars>>

(***************************************************************************)
(* _all_files_complete: a file that was never written counts as size 0.    *)
(***************************************************************************)
AllFilesComplete == \A f \in Files : CurrentSize(f) = SizeBytes[f]

(***************************************************************************)
(* The chunk filled its file: when every file is complete a job is pushed. *)
(***************************************************************************)
PatchComplete(p) ==
    /\ patch[p] = "full"
    /\ patch' = [patch EXCEPT ![p] = "idle"]
    /\ IF AllFilesComplete
         THEN /\ uploadReady < MaxQueue
              /\ uploadReady' = uploadReady + 1
         ELSE UNCHANGED uploadReady
    /\ UNCHANGED <<rowVars, pastExpiry, stagingVars, objects, lock, encryptVars,
                   janitorVars, patchFile, requestVars, stream, faults,
                   historyVars>>

(***************************************************************************)
(* The query, the LPUSH or the truncation fails, or the api dies, after    *)
(* the append: what is too long stays so.                                  *)
(***************************************************************************)
PatchLost(p) ==
    /\ patch[p] \in {"over", "full"}
    /\ Fault
    /\ patch' = [patch EXCEPT ![p] = "idle"]
    /\ jobLost' = (jobLost \/ AllFilesComplete)
    /\ UNCHANGED <<rowVars, pastExpiry, stagingVars, objects, redisVars,
                   encryptVars, janitorVars, patchFile, requestVars, stream,
                   completions, mailings, purged, taken>>

PatchStep(p) ==
    \/ PatchTruncate(p)
    \/ ApiFree /\ (PatchAppend(p) \/ PatchMismatch(p) \/ PatchComplete(p))

TusNext ==
    \E p \in Patchers :
        \/ ApiFree /\ \E f \in Files : PatchLoad(p, f)
        \/ PatchStep(p)
        \/ PatchLost(p)

=============================================================================
