--------------------------- MODULE TransferSystem ---------------------------
(***************************************************************************)
(* One transfer with everything that acts on it: tus uploads, the encrypt  *)
(* consumer, cleanup and Defender ticks, delete, revoke and download       *)
(* requests, the host's antivirus and the clock.                           *)
(***************************************************************************)
EXTENDS TusHandler, EncryptWorker, Janitors, TransferRequests

CONSTANT Malicious   \* the files the host's antivirus may quarantine

ASSUME MaliciousAssumption == Malicious \subseteq Files

(***************************************************************************)
(* The antivirus removes a staged file (external to the program).          *)
(***************************************************************************)
Quarantine(f) ==
    /\ staged[f] # Absent
    /\ staged' = [staged EXCEPT ![f] = Absent]
    /\ taken' = taken \cup {f}
    /\ UNCHANGED <<rowVars, pastExpiry, dir, objects, redisVars, encryptVars,
                   janitorVars, patchVars, requestVars, stream, faults,
                   completions, mailings, purged, jobLost>>

(***************************************************************************)
(* expires_at passes.                                                      *)
(***************************************************************************)
Expire ==
    /\ ~pastExpiry
    /\ pastExpiry' = TRUE
    /\ UNCHANGED <<rowVars, stagingVars, objects, redisVars, encryptVars,
                   janitorVars, patchVars, requestVars, stream, faults,
                   historyVars>>

Next ==
    \/ TusNext
    \/ EncryptNext
    \/ JanitorNext
    \/ RequestNext
    \/ \E f \in Malicious : Quarantine(f)
    \/ Expire

Spec == Init /\ [][Next]_vars

(***************************************************************************)
(* Every coroutine that can run is run: the event loops are not blocked    *)
(* for ever, the scheduler keeps ticking, a Redis TTL runs out, a dead     *)
(* worker is restarted, and the clock goes on to expires_at.  Clients owe  *)
(* nothing.                                                                *)
(***************************************************************************)
Fairness ==
    /\ \A p \in Patchers : WF_vars(PatchStep(p))
    /\ \A w \in Workers : /\ WF_vars(EncryptStep(w))
                          /\ WF_vars(CleanupStep(w))
                          /\ WF_vars(DefenderStep(w))
    /\ \A r \in Requests : WF_vars(RequestStep(r))
    /\ WF_vars(LockExpires)
    /\ WF_vars(Expire)

FairSpec == Spec /\ Fairness

-----------------------------------------------------------------------------
(* Safety *)

(* A PATCH has run past the end of f and is about to cut it. *)
Overlong(f) == \E p \in Patchers : patch[p] = "over" /\ patchFile[p] = f

(* At most one worker is inside process_encrypt_job's lock, across crashes, *)
(* lost DELs and expiring TTLs: SET NX on transfer:{id}:encrypting.         *)
EncryptExclusive ==
    \A v, w \in Workers :
        pc[v] \in InsideLock /\ pc[w] \in InsideLock => v = w

(* A ready transfer has its wrapped key, and unless some delete_transfer   *)
(* has run, every file's object is there under exactly that key, although  *)
(* retries after crashes reuse the same object keys.                       *)
ReadyIsComplete ==
    status = "ready" =>
        /\ wrappedKey # 0
        /\ purged \/ \A f \in Files : objects[f] = wrappedKey

(* No object is replaced by another encryption's under a download that is  *)
(* mid-stream: what the stream finds is gone or decrypts with its key.     *)
StreamsKeepTheirObjects ==
    \A g \in Downloads : stream[g] # 0 =>
        \A f \in Files : objects[f] \in {0, stream[g]}

(* upload_complete is logged at most once and the mails go out at most     *)
(* once, and only after it: duplicate jobs and retries announce nothing.   *)
AnnouncedOnce == mailings <= completions /\ completions <= 1

(* The encrypt consumer never holds back a lock it cannot give back: when  *)
(* no worker is inside, a lock left over comes from a fault.               *)
NoStrayLock ==
    faults = 0 /\ lock # NoWorker => pc[lock] \in InsideLock

(* A file that is longer than declared is about to be cut off by the PATCH *)
(* that made it so, or a fault has left it (handler.py:83).  Other         *)
(* processes see it, no job is pushed for it.                              *)
OversizeIsPassing ==
    faults = 0 => \A f \in Files : staged[f] > SizeBytes[f] => Overlong(f)

(* An upload that nothing tampers with is refused by the consumer only for *)
(* an empty file nobody sent a PATCH for, or in the moment in which a      *)
(* PATCH has run past the end of a file: what _all_files_complete let      *)
(* through is otherwise what the size test accepts, also for duplicate     *)
(* jobs that arrive after staging is shredded.  (What the antivirus took   *)
(* away may have been sent again in part.)                                 *)
RefusedOnlyIfTampered ==
    [][\A w \in Workers :
         faults' = 0 /\ pc[w] = "encrypting" /\ pc'[w] = "failing" =>
           \A f \in todo[w] :
             \/ staged[f] = SizeBytes[f]
             \/ staged[f] = Absent /\ SizeBytes[f] = 0
             \/ Overlong(f)
             \/ f \in taken]_pc

(* The refinement: a transfer's link and key live as ShareLink says.       *)
Link == INSTANCE ShareLink WITH
    link   <- IF status = "ready" THEN "open" ELSE "closed",
    secret <- IF wrappedKey # 0 THEN "held"
              ELSE IF completions = 0 THEN "none" ELSE "erased"

LinkSpec == Link!SLSpec

-----------------------------------------------------------------------------
(* Liveness *)

(* An upload whose last byte is in staging leaves uploading, even when its *)
(* duplicate jobs are dropped at the lock, a put, a mail or a DEL fails    *)
(* or a worker dies between jobs.  What strands it is the loss of the job  *)
(* itself, and nothing else: the LPUSH failed, an oversized last chunk was *)
(* refused, or BRPOP had taken the job when the worker died or the         *)
(* database failed around it.  (The antivirus may undo the completeness.)  *)
CompleteUploadResolves ==
    (dir /\ AllFilesComplete /\ status = "uploading")
        ~> (status # "uploading" \/ jobLost \/ ~AllFilesComplete)

(* Every link is closed in the end, by the cleanup ticks if by nothing     *)
(* else; also one whose objects a delete or a tick had removed when it     *)
(* died before its commit (CHAOS_PLAN.md:12 speaks of half-stored ones).   *)
LinkCloses == status = "ready" ~> status # "ready"

(* The plaintext of a transfer that has become ready goes: the consumer    *)
(* shreds it, or, when its worker died first, the cleanup at expiry does,  *)
(* unless the transfer was closed in another way before.  (A PATCH still   *)
(* under way after the sweep would make the directory anew.)               *)
PlaintextGoes ==
    (/\ status = "ready"
     /\ \A p \in Patchers : patch[p] = "idle"
     /\ \A w \in Workers : cleanup[w] # "purged")
        ~> (~dir \/ status \in {"deleted", "revoked", "infected"})

-----------------------------------------------------------------------------
(* What the documentation says of the program and the code does not do.    *)

(* README.md:75: delete sets wrapped_key to NULL.  The delete handlers     *)
(* write the column only when they loaded a key.                           *)
DeletedHasNoKey == status = "deleted" => wrappedKey = 0

(* SECURITY.md:90: an admin's "delete transfer" is irreversible.  The      *)
(* encrypt commit and the Defender commit write status unconditionally.    *)
DeletedIsFinal == [][status = "deleted" => status' = "deleted"]_status

(* SECURITY.md:191: delete triggers the shredding of file content.  The    *)
(* handlers do not touch the plaintext in the staging directory.           *)
DeletedLeavesNoPlaintext == status = "deleted" ~> ~dir

(* CHAOS_PLAN.md:12: an encrypted transfer is never left half-stored.      *)
(* Delete removes the objects before it commits the row, and a row it      *)
(* leaves ready is cleaned up only when it expires.                        *)
NeverHalfStored ==
    status = "ready" /\ (\A r \in Requests : request[r] = "idle") =>
        \A f \in Files : objects[f] # 0

(* defender_poll.py:3: a file missing while uploading was quarantined.     *)
(* A file whose upload has not begun yet is missing just the same.         *)
NoFalseQuarantine == Malicious = {} /\ faults = 0 => status # "infected"

=============================================================================
