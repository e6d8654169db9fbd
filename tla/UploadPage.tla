------------------------------ MODULE UploadPage ------------------------------
(***************************************************************************)
(* The upload page against the server: UploadView's submit loop, the tus   *)
(* client with its retries, the PATCH and HEAD handlers of the api, and    *)
(* the worker that stores what has arrived.  The network may lose a        *)
(* request, or its answer while the handler goes on alone; the sender may  *)
(* drop more files on the page at any time.  Encryption is one step here,  *)
(* with the ways it may end; its interleavings are TransferSystem's.       *)
(***************************************************************************)
EXTENDS Integers, Sequences

CONSTANTS
    Files,          \* files on the sender's disk
    Chosen,         \* the files listed when Send is pressed, in order
    Disks,          \* names and sizes the files may have
    Chunk,          \* bytes of one PATCH
    MaxRetries,     \* length of retryDelays
    Requests        \* PATCH requests the api may have at a time

Rows == {Chosen[i] : i \in DOMAIN Chosen}   \* rows of transfer_files

ASSUME FilesAssumption ==
    /\ Chosen \in Seq(Files)
    /\ \A i, j \in DOMAIN Chosen : Chosen[i] = Chosen[j] => i = j
    /\ \A d \in Disks : d.size \in [Files -> Nat]

(* addFiles refuses a file with the name and the size of a listed one.     *)
ASSUME NamingAssumption ==
    \A d \in Disks : \A f, g \in Files :
        f # g /\ d.name[f] = d.name[g] => d.size[f] # d.size[g]

ASSUME BoundsAssumption == Chunk \in Nat \ {0} /\ MaxRetries \in Nat

VARIABLES
    disk,           \* name and size of every file
    page,           \* creating, uploading, success, failed
    list,           \* files of the page
    at,             \* index of the submit loop in it
    fileStatus,     \* pending, uploading, done, failed
    client,         \* the tus.Upload of the file at hand
    req,            \* the PATCH requests at the api
    staged,         \* bytes of every row's file in staging
    queue,          \* jobs in the upload-ready queue
    lost,           \* history: nothing; a job; the staged files of a transfer
                    \* that is still uploading
    status,         \* of the transfer
    shredding,      \* the worker has committed and not yet shredded
    stored          \* what the worker has encrypted

pageVars == <<page, list, at>>
clientVars == <<fileStatus, client>>
serverVars == <<req, staged, queue, lost>>
workerVars == <<status, shredding, stored>>
vars == <<disk, pageVars, clientVars, serverVars, workerVars>>

name == disk.name
Size == disk.size

NoFile == "no file"
NoRequest == "no request"
NoUpload == [at |-> "idle", offset |-> 0, before |-> 0, tries |-> 0, request |-> NoRequest]
Idle == [at |-> "idle", file |-> NoFile, offset |-> 0, length |-> 0]

(* The bytes of a file, each with its place. *)
Bytes(f, from, n) == [i \in 1..n |-> <<f, from + i>>]
Content(f) == Bytes(f, 0, Size[f])

(***************************************************************************)
(* upload_urls is keyed by name: the last row of a name wins.              *)
(***************************************************************************)
HasUrl(f) == \E i \in DOMAIN Chosen : name[Chosen[i]] = name[f]

Url(f) ==
    Chosen[CHOOSE i \in DOMAIN Chosen :
              /\ name[Chosen[i]] = name[f]
              /\ \A j \in DOMAIN Chosen : name[Chosen[j]] = name[f] => j <= i]

Init ==
    /\ disk \in Disks
    /\ page = "creating"
    /\ list = Chosen
    /\ at = 0
    /\ fileStatus = [f \in Files |-> "pending"]
    /\ client = NoUpload
    /\ req = [q \in Requests |-> Idle]
    /\ staged = [s \in Rows |-> <<>>]
    /\ queue = 0
    /\ lost = "nothing"
    /\ status = "uploading"
    /\ shredding = FALSE
    /\ stored = [s \in Rows |-> <<>>]

-----------------------------------------------------------------------------
(* The page *)

Listed == {list[i] : i \in DOMAIN list}

CreateAnswered ==
    /\ page = "creating"
    /\ page' = "uploading"
    /\ UNCHANGED <<disk, list, at, clientVars, serverVars, workerVars>>

CreateFails ==
    /\ page = "creating"
    /\ page' = "failed"
    /\ UNCHANGED <<disk, list, at, clientVars, serverVars, workerVars>>

(***************************************************************************)
(* The remove buttons are disabled while a file is being uploaded, not     *)
(* while the transfer is being created.                                    *)
(***************************************************************************)
RemoveFile(i) ==
    /\ page = "creating"
    /\ list' = SubSeq(list, 1, i - 1) \o SubSeq(list, i + 1, Len(list))
    /\ UNCHANGED <<disk, page, at, clientVars, serverVars, workerVars>>

(***************************************************************************)
(* The drop zone is never disabled.                                        *)
(***************************************************************************)
AddFile(f) ==
    /\ page = "creating" \/ client.at # "idle"
    /\ f \notin Listed
    /\ list' = Append(list, f)
    /\ UNCHANGED <<disk, page, at, clientVars, serverVars, workerVars>>

NextFile ==
    /\ page = "uploading" /\ client.at = "idle"
    /\ at < Len(list)
    /\ at' = at + 1
    /\ LET f == list[at + 1]
       IN  IF HasUrl(f)
             THEN /\ fileStatus' = [fileStatus EXCEPT ![f] = "uploading"]
                  /\ client' = [NoUpload EXCEPT !.at = "head"]
             ELSE /\ fileStatus' = [fileStatus EXCEPT ![f] = "failed"]
                  /\ UNCHANGED client
    /\ UNCHANGED <<disk, page, list, serverVars, workerVars>>

EndOfList ==
    /\ page = "uploading" /\ client.at = "idle"
    /\ at = Len(list)
    /\ page' = IF \E f \in Listed : fileStatus[f] = "failed" THEN "failed" ELSE "success"
    /\ UNCHANGED <<disk, list, at, clientVars, serverVars, workerVars>>

-----------------------------------------------------------------------------
(* The tus client *)

Current == list[at]

(* The promise of upload() is settled. *)
Settle(outcome) ==
    /\ fileStatus' = [fileStatus EXCEPT ![Current] = outcome]
    /\ client' = NoUpload

(* Mutant: the attempts are not counted. *)
Attempts_Uncounted(c) == 0

(***************************************************************************)
(* The attempts start again when the last one has made progress.           *)
(***************************************************************************)
Attempts(c) == IF c.offset > c.before THEN 0 ELSE c.tries

(***************************************************************************)
(* _emitError for a network error, a 5xx or a 409: another attempt, while  *)
(* there are any and the browser is online; otherwise onError.             *)
(***************************************************************************)
EmitError(c) ==
    \/ /\ Attempts(c) < MaxRetries
       /\ client' = [at |-> "head", offset |-> c.offset, before |-> c.offset,
                     tries |-> Attempts(c) + 1, request |-> NoRequest]
       /\ UNCHANGED fileStatus
    \/ Settle("failed")

(* Mutant: the file counts as sent as soon as there is one. *)
CurrentOffset_Declared(s) == IF staged[s] = <<>> THEN 0 ELSE Size[s]

(***************************************************************************)
(* handle_head: the size of the staging file, whatever the status.         *)
(***************************************************************************)
CurrentOffset(s) == Len(staged[s])

(***************************************************************************)
(* The api, one process, awaits nothing between an append and the cut.     *)
(***************************************************************************)
ApiFree == \A q \in Requests : req[q].at # "over"

(***************************************************************************)
(* HEAD.  All declared bytes are there: success, also for an empty file,   *)
(* which is never sent.  More bytes than the own file has (it is another   *)
(* file's URL): an error like any other.                                   *)
(***************************************************************************)
HeadAnswers ==
    LET s == Url(Current)
        offset == CurrentOffset(s)
    IN  /\ client.at = "head" /\ ApiFree
        /\ \/ offset = Size[s] /\ Settle("done")
           \/ /\ offset # Size[s]
              /\ IF offset > Size[Current]
                   THEN EmitError([client EXCEPT !.offset = offset])
                   ELSE /\ client' = [client EXCEPT !.at = "patch", !.offset = offset]
                        /\ UNCHANGED fileStatus
        /\ UNCHANGED <<disk, pageVars, serverVars, workerVars>>

HeadBreaks ==
    /\ client.at = "head"
    /\ EmitError(client)
    /\ UNCHANGED <<disk, pageVars, serverVars, workerVars>>

PatchSends(q) ==
    LET rest == Size[Current] - client.offset
    IN  /\ client.at = "patch"
        /\ req[q].at = "idle"
        /\ req' = [req EXCEPT ![q] =
                      [at |-> "sent", file |-> Current, offset |-> client.offset,
                       length |-> IF rest < Chunk THEN rest ELSE Chunk]]
        /\ client' = [client EXCEPT !.at = "sent", !.request = q]
        /\ UNCHANGED <<disk, pageVars, fileStatus, staged, queue, lost, workerVars>>

(***************************************************************************)
(* The connection breaks: a request whose body has not arrived is gone,    *)
(* any other goes on at the api without a client.                          *)
(***************************************************************************)
Break ==
    LET q == client.request
    IN  /\ client.at = "sent"
        /\ \/ UNCHANGED req
           \/ req[q].at = "sent" /\ req' = [req EXCEPT ![q] = Idle]
        /\ EmitError(client)
        /\ UNCHANGED <<disk, pageVars, staged, queue, lost, workerVars>>

-----------------------------------------------------------------------------
(* The PATCH handler *)

Waiting(q) == client.at = "sent" /\ client.request = q

(* The client of q, if it still waits, reads 204 with this offset ... *)
Answer(q, offset) ==
    IF ~Waiting(q) THEN UNCHANGED clientVars
    ELSE IF offset = Size[Current] THEN Settle("done")
    ELSE /\ client' = [client EXCEPT !.at = "patch", !.offset = offset, !.request = NoRequest]
         /\ UNCHANGED fileStatus

(* ... or an error it may retry after. *)
AnswerError(q) == IF Waiting(q) THEN EmitError(client) ELSE UNCHANGED clientVars

Finish(q) == req' = [req EXCEPT ![q] = Idle]

Load(q) ==
    /\ req[q].at = "sent" /\ ApiFree
    /\ IF status = "uploading"
         THEN /\ req' = [req EXCEPT ![q].at = "loaded"]
              /\ UNCHANGED clientVars
         ELSE Finish(q) /\ AnswerError(q)
    /\ UNCHANGED <<disk, pageVars, staged, queue, lost, workerVars>>

(* Mutant: the Upload-Offset header is not compared with the file. *)
OffsetMatches_Any(q) == TRUE

OffsetMatches(q) == req[q].offset = CurrentOffset(Url(req[q].file))

OffsetConflict(q) ==
    /\ req[q].at = "loaded" /\ ApiFree
    /\ ~OffsetMatches(q)
    /\ Finish(q)
    /\ AnswerError(q)
    /\ UNCHANGED <<disk, pageVars, staged, queue, lost, workerVars>>

(* The staging file with the chunk of q at its end. *)
Appended(q) ==
    staged[Url(req[q].file)] \o Bytes(req[q].file, req[q].offset, req[q].length)

(***************************************************************************)
(* _append_stream: a chunk that passes the declared size is written all    *)
(* the same (up to 64 KiB beyond, which is no less too long).              *)
(***************************************************************************)
AppendChunk(q) ==
    LET s == Url(req[q].file)
        n == Len(Appended(q))
    IN  /\ req[q].at = "loaded" /\ ApiFree
        /\ OffsetMatches(q)
        /\ staged' = [staged EXCEPT ![s] = Appended(q)]
        /\ IF n < Size[s]
             THEN Finish(q) /\ Answer(q, n)
             ELSE /\ req' = [req EXCEPT ![q].at = IF n = Size[s] THEN "full" ELSE "over"]
                  /\ UNCHANGED clientVars
        /\ UNCHANGED <<disk, pageVars, queue, lost, workerVars>>

(***************************************************************************)
(* It is cut back then, and refused: 413, which the client does not retry. *)
(* A file that was shredded meanwhile cannot be opened.                    *)
(***************************************************************************)
TooLong(q) ==
    LET s == Url(req[q].file)
    IN  /\ req[q].at = "over"
        /\ Len(staged[s]) > Size[s]
        /\ staged' = [staged EXCEPT ![s] = SubSeq(staged[s], 1, Size[s])]
        /\ Finish(q)
        /\ IF Waiting(q) THEN Settle("failed") ELSE UNCHANGED clientVars
        /\ UNCHANGED <<disk, pageVars, queue, lost, workerVars>>

AllFilesComplete == \A s \in Rows : CurrentOffset(s) = Size[s]

(* Mutant: a handler whose client has gone is cancelled before the push. *)
Complete_Cancelled(q) ==
    /\ req[q].at = "full" /\ ApiFree
    /\ Finish(q)
    /\ queue' = IF AllFilesComplete /\ Waiting(q) THEN queue + 1 ELSE queue
    /\ Answer(q, Size[Url(req[q].file)])
    /\ UNCHANGED <<disk, pageVars, staged, lost, workerVars>>

Complete(q) ==
    /\ req[q].at = "full" /\ ApiFree
    /\ Finish(q)
    /\ queue' = IF AllFilesComplete THEN queue + 1 ELSE queue
    /\ Answer(q, Size[Url(req[q].file)])
    /\ UNCHANGED <<disk, pageVars, staged, lost, workerVars>>

(* A job is lost, unless more than that has been already. *)
JobLost == lost' = IF lost = "nothing" THEN "job" ELSE lost

(***************************************************************************)
(* A query, the cut or the push raises (500), or the api dies with the     *)
(* request.                                                                *)
(***************************************************************************)
Fails(q) ==
    /\ req[q].at # "idle" /\ (req[q].at # "over" => ApiFree)
    /\ Finish(q)
    /\ IF req[q].at = "full" /\ AllFilesComplete THEN JobLost ELSE UNCHANGED lost
    /\ AnswerError(q)
    /\ UNCHANGED <<disk, pageVars, staged, queue, workerVars>>

-----------------------------------------------------------------------------
(* The worker and the janitors *)

(***************************************************************************)
(* process_encrypt_job up to its commit: a job of a transfer that is not   *)
(* uploading is dropped; a file that is not there, as an empty one never   *)
(* is, or has another size than declared is refused.                       *)
(***************************************************************************)
Encrypt ==
    /\ queue > 0 /\ ~shredding
    /\ queue' = queue - 1
    /\ IF status # "uploading" THEN UNCHANGED workerVars
       ELSE /\ shredding' = TRUE
            /\ IF AllFilesComplete /\ \A s \in Rows : staged[s] # <<>>
                 THEN status' = "ready" /\ stored' = staged
                 ELSE status' = "infected" /\ UNCHANGED stored
    /\ UNCHANGED <<disk, pageVars, clientVars, req, staged, lost>>

(***************************************************************************)
(* The storage, the commit or, after it, the queueing of the mails fails:  *)
(* the transfer is marked, unless that fails too, and shredded anyhow.     *)
(***************************************************************************)
EncryptFails ==
    /\ \/ /\ queue > 0 /\ ~shredding /\ status = "uploading"
          /\ queue' = queue - 1
          /\ shredding' = TRUE
          /\ \/ status' = "infected" /\ UNCHANGED lost
             \/ lost' = "staging" /\ UNCHANGED status
       \/ /\ shredding /\ status = "ready"
          /\ status' = "infected"
          /\ UNCHANGED <<queue, shredding, lost>>
    /\ UNCHANGED <<disk, pageVars, clientVars, req, staged, stored>>

(***************************************************************************)
(* The worker dies with a job it has popped, or before it has shredded.    *)
(***************************************************************************)
WorkerDies ==
    /\ \/ /\ queue > 0 /\ ~shredding
          /\ queue' = queue - 1
          /\ IF status = "uploading" THEN JobLost ELSE UNCHANGED lost
          /\ UNCHANGED shredding
       \/ /\ shredding
          /\ shredding' = FALSE
          /\ UNCHANGED <<queue, lost>>
    /\ UNCHANGED <<disk, pageVars, clientVars, req, staged, status, stored>>

Shred ==
    /\ shredding
    /\ shredding' = FALSE
    /\ staged' = [s \in Rows |-> <<>>]
    /\ UNCHANGED <<disk, pageVars, clientVars, req, queue, lost, status, stored>>

(* Revoked, deleted or quarantined meanwhile. *)
Close ==
    /\ status \in {"uploading", "ready"}
    /\ status' = "closed"
    /\ UNCHANGED <<disk, pageVars, clientVars, serverVars, shredding, stored>>

-----------------------------------------------------------------------------
Api(q) == Load(q) \/ OffsetConflict(q) \/ AppendChunk(q) \/ TooLong(q) \/ Complete(q)

Next ==
    \/ CreateAnswered \/ CreateFails
    \/ \E i \in DOMAIN list : RemoveFile(i)
    \/ \E f \in Files : AddFile(f)
    \/ NextFile \/ EndOfList
    \/ HeadAnswers \/ HeadBreaks \/ Break
    \/ \E q \in Requests : PatchSends(q) \/ Api(q) \/ Fails(q)
    \/ Encrypt \/ EncryptFails \/ WorkerDies \/ Shred \/ Close

Spec == Init /\ [][Next]_vars

(***************************************************************************)
(* The create request and HEAD are answered or fail, the page's script     *)
(* goes on, the handlers come to an end and the worker serves its queue.   *)
(* Nothing is assumed of breaking connections, faults and the sender.      *)
(***************************************************************************)
Fairness ==
    /\ WF_vars(CreateAnswered \/ CreateFails)
    /\ WF_vars(NextFile \/ EndOfList)
    /\ WF_vars(HeadAnswers \/ HeadBreaks)
    /\ WF_vars(\E q \in Requests : PatchSends(q))
    /\ \A q \in Requests : WF_vars(Api(q) \/ Fails(q))
    /\ WF_vars(Encrypt) /\ WF_vars(Shred)

FairSpec == Spec /\ Fairness

-----------------------------------------------------------------------------
(* No other listed file has the name of f. *)
OwnName(f) == \A g \in Rows \cup Listed : g # f => name[g] # name[f]

(* What a recipient can download is byte for byte what the sender chose:   *)
(* chunks that were retried, arrived late or were sent twice are neither   *)
(* repeated nor left out.  Chosen files may share a name; a file dropped   *)
(* on the page during the upload may not have the name of a chosen one.    *)
StoredIsOriginal ==
    (status = "ready" /\ \A f \in Listed \ Rows : OwnName(f)) =>
        \A s \in Rows : stored[s] = Content(s)

(* A tick on the page is true: while the transfer is uploading, the staged *)
(* file holds all bytes of the ticked one and no others, unless the worker *)
(* failed, could not record it and shredded the files (encrypt.py:176-202).*)
DoneIsWhole ==
    \A f \in Listed :
        fileStatus[f] = "done" /\ status = "uploading" /\ lost # "staging" /\ OwnName(f) =>
            staged[f] = Content(f)

(* The success page means that the transfer will be processed, also when   *)
(* the answer to the last chunk was lost.  Not so, and openly left out:    *)
(* all files are empty, so that no chunk is ever sent; two files share a   *)
(* name; the sender removed a file while the transfer was being created;   *)
(* the push failed, or the worker lost the job.                            *)
SuccessMeansQueued ==
    (/\ page = "success"
     /\ Rows \subseteq Listed /\ \A f \in Rows : OwnName(f)
     /\ \E f \in Rows : Size[f] > 0)
        ~> (status # "uploading" \/ lost # "nothing")

(* However the network behaves, submit comes to an end: the retries of a   *)
(* file are used up, also when the server's offset falls back to 0.        *)
SubmitEnds == <>(page \in {"success", "failed"})

=============================================================================
