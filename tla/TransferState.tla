---------------------------- MODULE TransferState ----------------------------
(***************************************************************************)
(* The state shared by every component that handles ONE transfer: its      *)
(* Postgres row, the plaintext staging directory, the MinIO prefix, the    *)
(* Redis list and lock, and the local state of every coroutine at work on  *)
(* it.  Transfers share nothing but the queue (own row, own directory, own *)
(* prefix, own lock key), so one transfer carries all the interference.    *)
(*                                                                         *)
(* A coroutine gives up the CPU only at an `await`, so an action is the    *)
(* code between two awaits; what it read before an await is kept in a      *)
(* local variable and may be stale when it is used.                        *)
(***************************************************************************)
EXTENDS Integers, FiniteSets, Orm

CONSTANTS
    Files,         \* the transfer_files rows of the transfer
    SizeBytes,     \* their declared sizes (transfer_files.size_bytes)
    MaxChunk,      \* the largest PATCH body, in units of staged data
    Slack,         \* chunk_size of _append_stream: what it may write too much
    Workers,       \* worker processes
    Patchers,      \* concurrent tus PATCH requests
    Requests,      \* concurrent delete and revoke requests (sender or admin)
    Downloads,     \* concurrent download streams
    NoWorker,      \* the value of an absent Redis lock
    SlowEncrypt,   \* may an encryption outlive the lock's TTL?
    MaxQueue,      \* bound on the length of upload:ready
    MaxFaults      \* bound on crashes and failed calls

ASSUME FilesAssumption == IsFiniteSet(Files) /\ Files # {}
ASSUME SizeAssumption == SizeBytes \in [Files -> Nat]
ASSUME ChunkAssumption == MaxChunk \in Nat /\ Slack \in Nat
ASSUME WorkerAssumption == NoWorker \notin Workers
ASSUME SlowAssumption == SlowEncrypt \in BOOLEAN
ASSUME BoundAssumption == MaxQueue \in Nat /\ MaxFaults \in Nat

VARIABLES
    status,        \* transfers.status
    wrappedKey,    \* transfers.wrapped_key: 0 is NULL, k the wrapping of file key k
    pastExpiry,    \* transfers.expires_at lies in the past
    dir,           \* does the staging directory exist?
    staged,        \* size of each staging file, Absent when there is none
    objects,       \* per file, the file key its MinIO object is encrypted under, or 0
    uploadReady,   \* number of jobs in upload:ready (they all name this transfer)
    lock,          \* transfer:{id}:encrypting: its taker, or NoWorker
    pc,            \* where the upload consumer of each worker is
    todo,          \* files its current job has not stored yet
    fileKey,       \* the file key of its current job
    seen,          \* status its failure path re-read before marking the row
    keysMade,      \* number of file keys drawn so far
    cleanup,       \* where the cleanup tick of each worker is
    cleanupKey,    \* wrapped_key as the cleanup tick loaded it
    poll,          \* where the Defender tick of each worker is
    patch,         \* where each PATCH request is
    patchFile,     \* the file it is for
    request,       \* where each delete or revoke request is
    requestKey,    \* wrapped_key as that request loaded it
    stream,        \* per download, the file key it decrypts with, or 0
    faults,        \* crashes and failed calls so far
    \* history
    completions,   \* upload_complete events committed
    mailings,      \* batches of recipient and sender mails enqueued
    purged,        \* has any storage.delete_transfer removed the objects?
    jobLost,       \* was a complete upload's job never pushed, or lost with its worker?
    taken          \* files the antivirus has removed at some time

rowVars      == <<status, wrappedKey>>
stagingVars  == <<dir, staged>>
redisVars    == <<uploadReady, lock>>
encryptVars  == <<pc, todo, fileKey, seen, keysMade>>
janitorVars  == <<cleanup, cleanupKey, poll>>
patchVars    == <<patch, patchFile>>
requestVars  == <<request, requestKey>>
historyVars  == <<completions, mailings, purged, jobLost, taken>>

vars == <<rowVars, pastExpiry, stagingVars, objects, redisVars, encryptVars,
          janitorVars, patchVars, requestVars, stream, faults, historyVars>>

TRANSFER_STATUSES ==
    {"uploading", "ready", "expired", "deleted", "infected", "revoked"}

Absent == -1

EncryptPC == {"idle", "popped", "locked", "encrypting", "failing", "marking",
              "sweeping", "mailing", "shredding", "removing", "unlocking"}

TypeOK ==
    /\ status \in TRANSFER_STATUSES
    /\ wrappedKey \in Nat
    /\ pastExpiry \in BOOLEAN
    /\ dir \in BOOLEAN
    /\ staged \in [Files -> Nat \cup {Absent}]
    /\ \A f \in Files : staged[f] <= SizeBytes[f] + Slack
    /\ objects \in [Files -> Nat]
    /\ uploadReady \in Nat
    /\ lock \in Workers \cup {NoWorker}
    /\ pc \in [Workers -> EncryptPC]
    /\ todo \in [Workers -> SUBSET Files]
    /\ fileKey \in [Workers -> Nat]
    /\ seen \in [Workers -> TRANSFER_STATUSES]
    /\ keysMade \in Nat
    /\ cleanup \in [Workers -> {"idle", "selected", "purged"}]
    /\ cleanupKey \in [Workers -> Nat]
    /\ poll \in [Workers -> {"idle", "selected", "flagged"}]
    /\ patch \in [Patchers -> {"idle", "loaded", "over", "full"}]
    /\ patchFile \in [Patchers -> Files]
    /\ request \in [Requests -> {"idle", "deleting", "purged", "revoking"}]
    /\ requestKey \in [Requests -> Nat]
    /\ stream \in [Downloads -> Nat]
    /\ faults \in Nat
    /\ completions \in Nat
    /\ mailings \in Nat
    /\ purged \in BOOLEAN
    /\ jobLost \in BOOLEAN
    /\ taken \subseteq Files

(***************************************************************************)
(* TransferService.create has run: the row is `uploading` without a key,   *)
(* its files are declared, and no staging directory exists yet.            *)
(***************************************************************************)
Init ==
    /\ status = "uploading"
    /\ wrappedKey = 0
    /\ pastExpiry = FALSE
    /\ dir = FALSE
    /\ staged = [f \in Files |-> Absent]
    /\ objects = [f \in Files |-> 0]
    /\ uploadReady = 0
    /\ lock = NoWorker
    /\ pc = [w \in Workers |-> "idle"]
    /\ todo = [w \in Workers |-> {}]
    /\ fileKey = [w \in Workers |-> 0]
    /\ seen = [w \in Workers |-> "uploading"]
    /\ keysMade = 0
    /\ cleanup = [w \in Workers |-> "idle"]
    /\ cleanupKey = [w \in Workers |-> 0]
    /\ poll = [w \in Workers |-> "idle"]
    /\ patch = [p \in Patchers |-> "idle"]
    /\ patchFile = [p \in Patchers |-> CHOOSE f \in Files : TRUE]
    /\ request = [r \in Requests |-> "idle"]
    /\ requestKey = [r \in Requests |-> 0]
    /\ stream = [g \in Downloads |-> 0]
    /\ faults = 0
    /\ completions = 0
    /\ mailings = 0
    /\ purged = FALSE
    /\ jobLost = FALSE
    /\ taken = {}

-----------------------------------------------------------------------------
(***************************************************************************)
(* A call to a backing service fails, or a process dies.                   *)
(***************************************************************************)
Fault ==
    /\ faults < MaxFaults
    /\ faults' = faults + 1

(***************************************************************************)
(* StorageService.delete_transfer: list the prefix and remove every        *)
(* object.  Every caller suppresses or logs its failure and goes on.       *)
(***************************************************************************)
DeleteObjects ==
    /\ objects' = [f \in Files |-> 0]
    /\ purged' = TRUE
    /\ UNCHANGED faults

DeleteObjectsFails ==
    /\ Fault
    /\ UNCHANGED <<objects, purged>>

delete_transfer == DeleteObjects \/ DeleteObjectsFails

(***************************************************************************)
(* StagingService.secure_delete in one step: overwrite and unlink every    *)
(* file, then remove the directory.                                        *)
(***************************************************************************)
secure_delete ==
    /\ staged' = [f \in Files |-> Absent]
    /\ dir' = FALSE

(***************************************************************************)
(* A worker's coroutines share one event loop.  The loop is busy, and the  *)
(* worker's other coroutines cannot run, between the first and the last    *)
(* file of an encryption and inside secure_delete.                         *)
(***************************************************************************)
LoopFree(w) ==
    /\ pc[w] = "encrypting" => todo[w] \in {{}, Files}
    /\ pc[w] # "removing"

(***************************************************************************)
(* The api is one process, and its loop is busy between the append of a    *)
(* PATCH and the truncation.                                               *)
(***************************************************************************)
ApiFree == \A p \in Patchers : patch[p] # "over"

=============================================================================
