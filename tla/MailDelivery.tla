----------------------------- MODULE MailDelivery -----------------------------
(***************************************************************************)
(* The mails of one transfer: the encrypt job announces it to recipients   *)
(* and sender in one pipeline, downloads add notices to the sender, and    *)
(* the email consumers of the workers take the jobs off the Redis list,    *)
(* talk to the relay and write email_status.  That a transfer is announced *)
(* at most once is shown in TransferSystem (AnnouncedOnce).                *)
(***************************************************************************)
EXTENDS Integers, Sequences, FiniteSets, SequencesExt

CONSTANTS
    Recipients,     \* rows of transfer_recipients
    Workers,        \* worker processes, each with one email consumer
    MaxNotices,     \* bound on download notices
    MaxFaults       \* bound on deaths of a worker and commits that fail

ASSUME RecipientsAssumption == IsFiniteSet(Recipients)
ASSUME BoundsAssumption == MaxNotices \in Nat /\ MaxFaults \in Nat

VARIABLES
    announced,      \* the encrypt job has come to _enqueue_transfer_emails
    queue,          \* email:queue, the next job to be popped last
    consumer,       \* each email consumer: its job and where it is with it
    email_status,   \* of every recipient
    accepted,       \* external: mails the relay has taken for a recipient
    lost,           \* history: recipients whose job or status a fault has lost
    notices,        \* notices so far
    faults          \* faults so far

mailVars == <<announced, queue, consumer, email_status, accepted, lost, notices, faults>>

Sender == "sender"      \* a job without recipient_id
Nobody == "nobody"

ASSUME NamesAssumption == {Sender, Nobody} \cap Recipients = {}

MailInit ==
    /\ announced = FALSE
    /\ queue = <<>>
    /\ consumer = [w \in Workers |-> [at |-> "pop", job |-> Nobody, status |-> "queued"]]
    /\ email_status = [r \in Recipients |-> "queued"]
    /\ accepted = [r \in Recipients |-> 0]
    /\ lost = {}
    /\ notices = 0 /\ faults = 0

-----------------------------------------------------------------------------
Fault == faults < MaxFaults /\ faults' = faults + 1

(***************************************************************************)
(* One job for every recipient and one for the sender, in one transaction. *)
(***************************************************************************)
Announce ==
    /\ ~announced
    /\ announced' = TRUE
    /\ queue' = <<Sender>> \o SetToSeq(Recipients) \o queue
    /\ UNCHANGED <<consumer, email_status, accepted, lost, notices, faults>>

(***************************************************************************)
(* Rendering or Redis fails: logged, and the transfer stays ready.         *)
(***************************************************************************)
AnnounceFails ==
    /\ ~announced
    /\ Fault
    /\ announced' = TRUE
    /\ lost' = Recipients
    /\ UNCHANGED <<queue, consumer, email_status, accepted, notices>>

DownloadNotice ==
    /\ announced
    /\ notices < MaxNotices
    /\ notices' = notices + 1
    /\ queue' = <<Sender>> \o queue
    /\ UNCHANGED <<announced, consumer, email_status, accepted, lost, faults>>

(***************************************************************************)
(* BRPOP: the job is gone from Redis.                                      *)
(***************************************************************************)
Pop(w) ==
    /\ consumer[w].at = "pop"
    /\ queue # <<>>
    /\ consumer' = [consumer EXCEPT ![w] =
                       [at |-> "send", job |-> Last(queue), status |-> "queued"]]
    /\ queue' = Front(queue)
    /\ UNCHANGED <<announced, email_status, accepted, lost, notices, faults>>

(* The consumer goes on to write the status. *)
Marks(w, status) ==
    consumer' = [consumer EXCEPT ![w] =
                    [at |-> "update", job |-> consumer[w].job, status |-> status]]

(* Mutant: a mail that could not be sent goes back to the queue. *)
AfterSend_Requeue(w, ok) ==
    IF ok THEN /\ Marks(w, "sent")
               /\ UNCHANGED queue
    ELSE /\ consumer' = [consumer EXCEPT ![w] =
                            [at |-> "pop", job |-> Nobody, status |-> "queued"]]
         /\ queue' = <<consumer[w].job>> \o queue

(* Mutant: the outcome of the attempt is not looked at. *)
AfterSend_AlwaysSent(w, ok) ==
    /\ Marks(w, "sent")
    /\ UNCHANGED queue

(* Mutant: a job without an outcome is dropped. *)
AfterSend_Dropped(w, ok) ==
    IF ok THEN /\ Marks(w, "sent")
               /\ UNCHANGED queue
    ELSE /\ consumer' = [consumer EXCEPT ![w] =
                            [at |-> "pop", job |-> Nobody, status |-> "queued"]]
         /\ UNCHANGED queue

(***************************************************************************)
(* Every exception of the sender means "failed"; nothing is tried again.   *)
(***************************************************************************)
AfterSend(w, ok) ==
    /\ Marks(w, IF ok THEN "sent" ELSE "failed")
    /\ UNCHANGED queue

(***************************************************************************)
(* SmtpSender.send: the relay takes the mail or not, and when it does, the *)
(* answer may still be lost.                                               *)
(***************************************************************************)
Send(w, taken, ok) ==
    LET r == consumer[w].job
    IN  /\ consumer[w].at = "send"
        /\ ok => taken
        /\ accepted' = IF taken /\ r \in Recipients
                         THEN [accepted EXCEPT ![r] = @ + 1] ELSE accepted
        /\ AfterSend(w, ok)
        /\ UNCHANGED <<announced, email_status, lost, notices, faults>>

Done(w) == consumer' = [consumer EXCEPT ![w] =
                           [at |-> "pop", job |-> Nobody, status |-> "queued"]]

(***************************************************************************)
(* The status of the recipient is committed.                               *)
(***************************************************************************)
Update(w) ==
    LET r == consumer[w].job
    IN  /\ consumer[w].at = "update"
        /\ email_status' = IF r \in Recipients
                             THEN [email_status EXCEPT ![r] = consumer[w].status]
                             ELSE email_status
        /\ Done(w)
        /\ UNCHANGED <<announced, queue, accepted, lost, notices, faults>>

(***************************************************************************)
(* The commit fails and is logged; or the worker dies with its job: it was *)
(* killed, or an error of Redis in either consumer ended the process.      *)
(***************************************************************************)
JobLost(w) ==
    /\ consumer[w].at # "pop"
    /\ Fault
    /\ lost' = lost \cup ({consumer[w].job} \cap Recipients)
    /\ Done(w)
    /\ UNCHANGED <<announced, queue, email_status, accepted, notices>>

MailNext ==
    \/ Announce \/ AnnounceFails \/ DownloadNotice
    \/ \E w \in Workers :
        \/ Pop(w)
        \/ \E taken, ok \in BOOLEAN : Send(w, taken, ok)
        \/ Update(w)
        \/ JobLost(w)

MailSpec == MailInit /\ [][MailNext]_mailVars

(***************************************************************************)
(* A worker that lives goes on with its loop, and one that dies is started *)
(* again; the relay answers or the attempt times out after 30 s.           *)
(***************************************************************************)
Fairness ==
    \A w \in Workers : /\ WF_mailVars(Pop(w)) /\ WF_mailVars(Update(w))
                       /\ WF_mailVars(\E taken, ok \in BOOLEAN : Send(w, taken, ok))

FairSpec == MailSpec /\ Fairness

-----------------------------------------------------------------------------
(* Nobody gets the same announcement twice, with several workers, lost     *)
(* answers of the relay and workers dying at any point.                    *)
MailedAtMostOnce == \A r \in Recipients : accepted[r] <= 1

(* The status "sent" shown in the admin panel is true.                     *)
SentIsTrue == \A r \in Recipients : email_status[r] = "sent" => accepted[r] = 1

(* Once a transfer is announced, every recipient's status says how it went *)
(* unless a fault has lost the job, however many notices are queued.       *)
MailResolves ==
    \A r \in Recipients : announced ~> (email_status[r] # "queued" \/ r \in lost)

=============================================================================
