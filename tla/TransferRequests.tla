--------------------------- MODULE TransferRequests ---------------------------
(***************************************************************************)
(* The api's requests on an existing transfer: delete and revoke, by the   *)
(* sender's manage token or by an admin (the two pairs of handlers take    *)
(* the same steps on the row), and downloads.                              *)
(***************************************************************************)
EXTENDS TransferState

Respond(r) ==
    /\ request' = [request EXCEPT ![r] = "idle"]
    /\ requestKey' = [requestKey EXCEPT ![r] = 0]

(***************************************************************************)
(* Load the row; a deleted transfer is left alone.                         *)
(***************************************************************************)
DeleteLoad(r) ==
    /\ request[r] = "idle"
    /\ status # "deleted"
    /\ request' = [request EXCEPT ![r] = "deleting"]
    /\ requestKey' = [requestKey EXCEPT ![r] = wrappedKey]
    /\ UNCHANGED <<rowVars, pastExpiry, stagingVars, objects, redisVars,
                   encryptVars, janitorVars, patchVars, stream, faults,
                   historyVars>>

(***************************************************************************)
(* Remove the objects; a storage failure does not stop the request.  The   *)
(* staging directory is not touched.                                       *)
(***************************************************************************)
DeletePurge(r) ==
    /\ request[r] = "deleting"
    /\ delete_transfer
    /\ request' = [request EXCEPT ![r] = "purged"]
    /\ UNCHANGED <<rowVars, pastExpiry, stagingVars, redisVars, encryptVars,
                   janitorVars, patchVars, requestKey, stream, completions,
                   mailings, jobLost, taken>>

(***************************************************************************)
(* Commit status deleted and wrapped_key NULL: the key column is written   *)
(* only when the row was loaded with a key.                                *)
(***************************************************************************)
DeleteCommit(r) ==
    /\ request[r] = "purged"
    /\ status' = "deleted"
    /\ wrappedKey' = Flush(requestKey[r], 0, wrappedKey)
    /\ Respond(r)
    /\ UNCHANGED <<pastExpiry, stagingVars, objects, redisVars, encryptVars,
                   janitorVars, patchVars, stream, faults, historyVars>>

(***************************************************************************)
(* Revoke an uploading or ready transfer; key and objects are kept.        *)
(***************************************************************************)
RevokeLoad(r) ==
    /\ request[r] = "idle"
    /\ status \notin {"revoked", "deleted", "expired", "infected"}
    /\ request' = [request EXCEPT ![r] = "revoking"]
    /\ UNCHANGED <<rowVars, pastExpiry, stagingVars, objects, redisVars,
                   encryptVars, janitorVars, patchVars, requestKey, stream,
                   faults, historyVars>>

RevokeCommit(r) ==
    /\ request[r] = "revoking"
    /\ status' = "revoked"
    /\ Respond(r)
    /\ UNCHANGED <<wrappedKey, pastExpiry, stagingVars, objects, redisVars,
                   encryptVars, janitorVars, patchVars, stream, faults,
                   historyVars>>

(***************************************************************************)
(* The api dies or the commit fails before the row is written.             *)
(***************************************************************************)
RequestFails(r) ==
    /\ request[r] # "idle"
    /\ Fault
    /\ Respond(r)
    /\ UNCHANGED <<rowVars, pastExpiry, stagingVars, objects, redisVars,
                   encryptVars, janitorVars, patchVars, stream, historyVars>>

-----------------------------------------------------------------------------
(***************************************************************************)
(* _load_ready_transfer: any other row gets a 404 or a 410.                *)
(***************************************************************************)
LoadReadyTransfer ==
    /\ status = "ready"
    /\ ~pastExpiry
    /\ wrappedKey # 0

(***************************************************************************)
(* download_file and download_zip unwrap the key and keep it, with the     *)
(* object keys, for the stream.                                            *)
(***************************************************************************)
DownloadStart(g) ==
    /\ stream[g] = 0
    /\ LoadReadyTransfer
    /\ stream' = [stream EXCEPT ![g] = wrappedKey]
    /\ UNCHANGED <<rowVars, pastExpiry, stagingVars, objects, redisVars,
                   encryptVars, janitorVars, patchVars, requestVars, faults,
                   historyVars>>

(***************************************************************************)
(* The response body is streamed after the handler has returned, object by *)
(* object; it ends, or breaks off, at any point.                           *)
(***************************************************************************)
DownloadEnd(g) ==
    /\ stream[g] # 0
    /\ stream' = [stream EXCEPT ![g] = 0]
    /\ UNCHANGED <<rowVars, pastExpiry, stagingVars, objects, redisVars,
                   encryptVars, janitorVars, patchVars, requestVars, faults,
                   historyVars>>

RequestStep(r) == ApiFree /\ (DeletePurge(r) \/ DeleteCommit(r) \/ RevokeCommit(r))

RequestNext ==
    \/ \E r \in Requests :
        \/ ApiFree /\ (DeleteLoad(r) \/ RevokeLoad(r))
        \/ RequestStep(r)
        \/ RequestFails(r)
    \/ \E g \in Downloads : (ApiFree /\ DownloadStart(g)) \/ DownloadEnd(g)

=============================================================================
