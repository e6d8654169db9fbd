----------------------------- MODULE KeyRotation -----------------------------
(***************************************************************************)
(* Rotation of the master key that wraps every transfer's file key and     *)
(* every admin's TOTP secret.  Online: the api processes and then the      *)
(* worker are restarted on the new key (an api keeps the old one as        *)
(* `previous`), POST /crypto/rewrap moves the rows over in chunks while    *)
(* the system runs, and a second restart drops the old key.  Offline: with *)
(* everything stopped, rotate_master_key.py runs the same loop.            *)
(***************************************************************************)
EXTENDS Integers, FiniteSets, Orm

CONSTANTS
    N,          \* number of transfers; their ids are 1..N in UUID order
    Admins,
    Caller,     \* the admin who calls POST /crypto/rewrap
    Apis,       \* api processes
    Script,     \* the offline script, the other process that rewraps
    ChunkSize,  \* _REWRAP_CHUNK, CHUNK
    MaxResets,  \* bound on TOTP resets per admin
    MaxFaults   \* bound on rewrap runs that die

ASSUME NAssumption == N \in Nat
ASSUME CallerAssumption == Caller \in Admins
ASSUME ChunkAssumption == ChunkSize \in Nat \ {0}
ASSUME ScriptAssumption == Script \notin Apis
ASSUME BoundAssumption == MaxResets \in Nat /\ MaxFaults \in Nat

VARIABLES
    wrapped,    \* transfers.wrapped_key: the master key it is wrapped with, or "null"
    erased,     \* history: was the wrapped_key set to NULL by a delete or an expiry?
    totp,       \* admins.totp_secret: which secret, and how it is wrapped
    api,        \* the master keys each api process was started with
    worker,     \* the same for the worker
    run,        \* where each process is in its rewrap loop
    lastId,     \* last_id of that loop
    batch,      \* the rows it has loaded, as it loaded them
    totpBatch,
    migrated,   \* has a run reported success to the operator?
    faults

runVars == <<run, lastId, batch, totpBatch>>
vars == <<wrapped, erased, totp, api, worker, runVars, migrated, faults>>

Ids     == 1..N
Runners == Apis \cup {Script}
Wraps   == {"null", "old", "new"}
Secrets == [secret : Nat, under : {"plain", "old", "new"}]
NoRows  == [t \in Ids |-> "null"]

TypeOK ==
    /\ wrapped \in [Ids -> Wraps]
    /\ erased \in [Ids -> BOOLEAN]
    /\ totp \in [Admins -> Secrets]
    /\ api \in [Apis -> {"old", "window", "new", "stopped"}]
    /\ worker \in {"old", "new", "stopped"}
    /\ run \in [Runners -> {"idle", "paging", "loaded", "unwrapped"}]
    /\ lastId \in [Runners -> 0..N]
    /\ batch \in [Runners -> [Ids -> Wraps]]
    /\ totpBatch \in [Runners -> [Admins -> Secrets]]
    /\ migrated \in BOOLEAN
    /\ faults \in Nat

(***************************************************************************)
(* Before the rotation: some transfers have a key, others are uploading;   *)
(* some TOTP secrets may still be plaintext from before they were wrapped. *)
(***************************************************************************)
Init ==
    /\ wrapped \in [Ids -> {"null", "old"}]
    /\ erased = [t \in Ids |-> FALSE]
    /\ totp \in [Admins -> {[secret |-> 0, under |-> u] : u \in {"plain", "old"}}]
    /\ api = [i \in Apis |-> "old"]
    /\ worker = "old"
    /\ run = [r \in Runners |-> "idle"]
    /\ lastId = [r \in Runners |-> 0]
    /\ batch = [r \in Runners |-> NoRows]
    /\ totpBatch = [r \in Runners |-> totp]
    /\ migrated = FALSE
    /\ faults = 0

-----------------------------------------------------------------------------
(***************************************************************************)
(* get_master_key and get_previous_master_key, as set at startup.          *)
(***************************************************************************)
CurrentKey(s) == IF s = "old" THEN "old" ELSE "new"

(***************************************************************************)
(* The wrappings unwrap_key and unwrap_totp_secret can open: the current   *)
(* key is tried first, then the previous one when there is one.            *)
(***************************************************************************)
Unwraps(s) == IF s = "window" THEN {"old", "new"} ELSE {CurrentKey(s)}

Running == worker # "stopped"

(***************************************************************************)
(* The encrypt worker commits a transfer's file key.                       *)
(***************************************************************************)
Encrypt(t) ==
    /\ Running
    /\ wrapped[t] = "null"
    /\ ~erased[t]
    /\ wrapped' = [wrapped EXCEPT ![t] = worker]
    /\ UNCHANGED <<erased, totp, api, worker, runVars, migrated, faults>>

(***************************************************************************)
(* A delete or an expiry commits wrapped_key = NULL.                       *)
(***************************************************************************)
Erase(t) ==
    /\ Running
    /\ wrapped[t] # "null"
    /\ wrapped' = [wrapped EXCEPT ![t] = "null"]
    /\ erased' = [erased EXCEPT ![t] = TRUE]
    /\ UNCHANGED <<totp, api, worker, runVars, migrated, faults>>

(***************************************************************************)
(* reset_totp: a fresh secret, wrapped with the api's current key.         *)
(***************************************************************************)
ResetTotp(i, a) ==
    /\ api[i] # "stopped"
    /\ totp[a].secret < MaxResets
    /\ totp' = [totp EXCEPT ![a] = [secret |-> @.secret + 1,
                                    under |-> CurrentKey(api[i])]]
    /\ UNCHANGED <<wrapped, erased, api, worker, runVars, migrated, faults>>

-----------------------------------------------------------------------------
(* The rewrap loop of the endpoint and of the script. *)

(***************************************************************************)
(* A run starts at the first row.  The endpoint's session holds the        *)
(* caller's own row already: require_session has just loaded it.           *)
(***************************************************************************)
Begin(r) ==
    /\ run[r] = "idle"
    /\ run' = [run EXCEPT ![r] = "paging"]
    /\ lastId' = [lastId EXCEPT ![r] = 0]
    /\ totpBatch' = [totpBatch EXCEPT ![r] = totp]
    /\ UNCHANGED <<wrapped, erased, totp, api, worker, batch, migrated, faults>>

(***************************************************************************)
(* POST /crypto/rewrap answers 409 unless the api has both keys.  The      *)
(* runbook has it called when every process has been restarted.            *)
(***************************************************************************)
RewrapBegin(i) ==
    /\ api[i] = "window"
    /\ worker = "new"
    /\ Begin(i)

(* Mutant: the page begins one row too late. *)
Remaining_SkipsOne(r) ==
    {t \in Ids : t > lastId[r] + 1 /\ wrapped[t] # "null"}

(***************************************************************************)
(* WHERE wrapped_key IS NOT NULL AND id > last_id.                         *)
(***************************************************************************)
Remaining(r) == {t \in Ids : t > lastId[r] /\ wrapped[t] # "null"}

(***************************************************************************)
(* ORDER BY id LIMIT chunk.                                                *)
(***************************************************************************)
Page(r) ==
    {t \in Remaining(r) : Cardinality({u \in Remaining(r) : u < t}) < ChunkSize}

(* Mutant: last_id is not advanced. *)
SelectPage_Stuck(r) ==
    /\ run[r] = "paging"
    /\ Page(r) # {}
    /\ UNCHANGED lastId
    /\ batch' = [batch EXCEPT ![r] =
                    [t \in Ids |-> IF t \in Page(r) THEN wrapped[t] ELSE "null"]]
    /\ run' = [run EXCEPT ![r] = "loaded"]
    /\ UNCHANGED <<wrapped, erased, totp, api, worker, totpBatch, migrated, faults>>

(***************************************************************************)
(* Load a page; every row of it is unwrapped and wrapped anew in memory.   *)
(***************************************************************************)
SelectPage(r) ==
    /\ run[r] = "paging"
    /\ \E m \in Page(r) :
        /\ \A t \in Page(r) : t <= m
        /\ lastId' = [lastId EXCEPT ![r] = m]
    /\ batch' = [batch EXCEPT ![r] =
                    [t \in Ids |-> IF t \in Page(r) THEN wrapped[t] ELSE "null"]]
    /\ run' = [run EXCEPT ![r] = "loaded"]
    /\ UNCHANGED <<wrapped, erased, totp, api, worker, totpBatch, migrated, faults>>

(***************************************************************************)
(* Commit the page.  AES-KW is deterministic: a row that was under the new *)
(* key already is unchanged and not written.                               *)
(***************************************************************************)
CommitPage(r) ==
    /\ run[r] = "loaded"
    /\ wrapped' = [t \in Ids |->
                      IF batch[r][t] = "null" THEN wrapped[t]
                      ELSE Flush(batch[r][t], "new", wrapped[t])]
    /\ batch' = [batch EXCEPT ![r] = NoRows]
    /\ run' = [run EXCEPT ![r] = "paging"]
    /\ UNCHANGED <<erased, totp, api, worker, lastId, totpBatch, migrated, faults>>

(***************************************************************************)
(* No rows are left: load every TOTP secret, but the caller's, which stays *)
(* as the run's session has it (expire_on_commit is off) ...               *)
(***************************************************************************)
SelectAdmins(r) ==
    /\ run[r] = "paging"
    /\ Remaining(r) = {}
    /\ totpBatch' = [totpBatch EXCEPT ![r] =
                        [a \in Admins |-> IF a = Caller /\ r # Script
                                            THEN totpBatch[r][a] ELSE totp[a]]]
    /\ run' = [run EXCEPT ![r] = "unwrapped"]
    /\ UNCHANGED <<wrapped, erased, totp, api, worker, lastId, batch, migrated,
                   faults>>

(***************************************************************************)
(* is_wrapped_totp: a plaintext secret is left alone.                      *)
(***************************************************************************)
Rewrapped(s) == IF s.under = "plain" THEN s ELSE [s EXCEPT !.under = "new"]

(***************************************************************************)
(* ... and commit them rewrapped; the endpoint then reports success.       *)
(***************************************************************************)
CommitAdmins(r) ==
    /\ run[r] = "unwrapped"
    /\ totp' = [a \in Admins |->
                   Flush(totpBatch[r][a], Rewrapped(totpBatch[r][a]), totp[a])]
    /\ run' = [run EXCEPT ![r] = "idle"]
    /\ migrated' = TRUE
    /\ UNCHANGED <<wrapped, erased, api, worker, lastId, batch, totpBatch, faults>>

(***************************************************************************)
(* The run dies: the open transaction is rolled back, the committed pages  *)
(* stay.                                                                   *)
(***************************************************************************)
RunDies(r) ==
    /\ run[r] # "idle"
    /\ faults < MaxFaults
    /\ faults' = faults + 1
    /\ run' = [run EXCEPT ![r] = "idle"]
    /\ batch' = [batch EXCEPT ![r] = NoRows]
    /\ UNCHANGED <<wrapped, erased, totp, api, worker, lastId, totpBatch, migrated>>

RunStep(r) == SelectPage(r) \/ CommitPage(r) \/ SelectAdmins(r) \/ CommitAdmins(r)

-----------------------------------------------------------------------------
(* The operator, who follows the runbook or calls rotate_master_key.sh. *)

Restart(i, keys) ==
    /\ api' = [api EXCEPT ![i] = keys]
    /\ run' = [run EXCEPT ![i] = "idle"]
    /\ batch' = [batch EXCEPT ![i] = NoRows]
    /\ UNCHANGED <<wrapped, erased, totp, worker, lastId, totpBatch, migrated, faults>>

(***************************************************************************)
(* Phase 1: each api gets the new key, with the old one as previous ...    *)
(***************************************************************************)
OpenWindow(i) == api[i] = "old" /\ Restart(i, "window")

(***************************************************************************)
(* ... and then the worker.                                                *)
(***************************************************************************)
RestartWorker ==
    /\ worker = "old"
    /\ \A i \in Apis : api[i] = "window"
    /\ worker' = "new"
    /\ UNCHANGED <<wrapped, erased, totp, api, runVars, migrated, faults>>

(***************************************************************************)
(* Phase 3, once a run has succeeded: the old key is dropped.              *)
(***************************************************************************)
CloseWindow(i) == migrated /\ api[i] = "window" /\ Restart(i, "new")

(***************************************************************************)
(* rotate_master_key.sh stops api and worker, then runs the script ...     *)
(***************************************************************************)
StopAll ==
    /\ worker = "old"
    /\ \A i \in Apis : api[i] = "old"
    /\ worker' = "stopped"
    /\ api' = [i \in Apis |-> "stopped"]
    /\ UNCHANGED <<wrapped, erased, totp, runVars, migrated, faults>>

ScriptBegin == ~Running /\ ~migrated /\ Begin(Script)

(***************************************************************************)
(* ... and when the script has ended well swaps the key file and starts    *)
(* them again.                                                             *)
(***************************************************************************)
StartAll ==
    /\ ~Running
    /\ migrated
    /\ worker' = "new"
    /\ api' = [i \in Apis |-> "new"]
    /\ UNCHANGED <<wrapped, erased, totp, runVars, migrated, faults>>

Next ==
    \/ \E t \in Ids : Encrypt(t) \/ Erase(t)
    \/ \E i \in Apis : \/ \E a \in Admins : ResetTotp(i, a)
                       \/ RewrapBegin(i)
                       \/ OpenWindow(i)
                       \/ CloseWindow(i)
    \/ \E r \in Runners : \/ SelectPage(r) \/ CommitPage(r)
                          \/ SelectAdmins(r) \/ CommitAdmins(r)
                          \/ RunDies(r)
    \/ RestartWorker
    \/ StopAll
    \/ ScriptBegin
    \/ StartAll

Spec == Init /\ [][Next]_vars

(***************************************************************************)
(* A rewrap run that can go on goes on; nobody else owes anything.         *)
(***************************************************************************)
FairSpec == Spec /\ \A r \in Runners : WF_vars(RunStep(r))

-----------------------------------------------------------------------------
(* Every running api can unwrap every transfer's key at every moment of    *)
(* the rotation, whichever mix of old and new processes runs, and every    *)
(* restarted one can unwrap every TOTP secret: the window is closed on     *)
(* nothing that the rewrap loop has missed.                                *)
ReadableThroughout ==
    \A i \in Apis : api[i] # "stopped" =>
        /\ \A t \in Ids : wrapped[t] # "null" => wrapped[t] \in Unwraps(api[i])
        /\ api[i] # "old" =>
             \A a \in Admins : totp[a].under \in Unwraps(api[i]) \cup {"plain"}

(* A rewrap run comes to its end: the keyset loop always advances.         *)
RunEnds == \A r \in Runners : run[r] # "idle" ~> run[r] = "idle"

(* README.md:75: wrapped_key = NULL locks the ciphertext permanently.  A   *)
(* page loaded before the delete writes the rewrapped key back.            *)
ErasedStaysErased == \A t \in Ids : erased[t] => wrapped[t] = "null"

(* admin.py:1454: running the rewrap at any time is safe.  It writes back  *)
(* the TOTP secret it loaded over one that reset_totp committed since.     *)
ResetSticks == [][\A a \in Admins : totp'[a].secret >= totp[a].secret]_totp

(* THREAT_MODEL.md:70: either all transfers are rewrapped or none.  The    *)
(* script commits every chunk on its own.                                  *)
ScriptAllOrNone ==
    ~Running /\ run[Script] = "idle" =>
        ~ \E t, u \in Ids : wrapped[t] = "old" /\ wrapped[u] = "new"

=============================================================================
