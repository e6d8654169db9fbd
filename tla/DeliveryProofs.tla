---------------------------- MODULE DeliveryProofs ----------------------------
(***************************************************************************)
(* Proofs about what reaches a recipient: the mails (MailDelivery) and the *)
(* bytes of a download (FileStream).                                       *)
(***************************************************************************)
EXTENDS FileStream, MailDelivery, FiniteSetTheorems, SequenceTheorems, TLAPS

-----------------------------------------------------------------------------
(* The first n elements of a sequence. *)
LEMMA FirstProperties ==
    ASSUME NEW S, NEW s \in Seq(S), NEW n \in 0..Len(s)
    PROVE  /\ SubSeq(s, 1, n) \in Seq(S)
           /\ Len(SubSeq(s, 1, n)) = n
           /\ \A i \in 1..n : SubSeq(s, 1, n)[i] = s[i]
  OBVIOUS

(* A sequence without its first n elements. *)
LEMMA AfterProperties ==
    ASSUME NEW S, NEW s \in Seq(S), NEW n \in 0..Len(s)
    PROVE  /\ After(s, n) \in Seq(S)
           /\ Len(After(s, n)) = Len(s) - n
           /\ \A i \in 1..(Len(s) - n) : After(s, n)[i] = s[n + i]
  BY DEF After

-----------------------------------------------------------------------------
(***************************************************************************)
(* The values of the mail state.                                           *)
(***************************************************************************)
Jobs == Recipients \cup {Sender}

Consumers ==
    [at : {"pop", "send", "update"}, job : Jobs \cup {Nobody},
     status : {"queued", "sent", "failed"}]

MailTypes ==
    /\ announced \in BOOLEAN
    /\ queue \in Seq(Jobs)
    /\ consumer \in [Workers -> Consumers]
    /\ email_status \in [Recipients -> {"queued", "sent", "failed"}]
    /\ accepted \in [Recipients -> Nat]

(* Nothing happens before the announcement. *)
QuietBefore ==
    ~announced => /\ queue = <<>>
                  /\ \A w \in Workers : consumer[w].at = "pop"
                  /\ \A r \in Recipients : accepted[r] = 0

(* The consumer holds a recipient's mail it has not given to the relay. *)
Sending(w) == consumer[w].at = "send" /\ consumer[w].job \in Recipients

(* A recipient's mail is in one place at a time: one entry of the queue,   *)
(* one consumer, or with the relay.                                        *)
OnePlace ==
    /\ \A i, j \in 1..Len(queue) :
           queue[i] \in Recipients /\ queue[i] = queue[j] => i = j
    /\ \A i \in 1..Len(queue) : queue[i] \in Recipients => accepted[queue[i]] = 0
    /\ \A w \in Workers : Sending(w) =>
           /\ accepted[consumer[w].job] = 0
           /\ \A i \in 1..Len(queue) : queue[i] # consumer[w].job
           /\ \A v \in Workers : Sending(v) /\ consumer[v].job = consumer[w].job => v = w

(* What a consumer is about to write is what the relay said. *)
TruthfulUpdate ==
    \A w \in Workers :
        consumer[w].at = "update" /\ consumer[w].status = "sent"
            /\ consumer[w].job \in Recipients
            => accepted[consumer[w].job] = 1

MailInv ==
    /\ MailTypes /\ QuietBefore /\ OnePlace /\ TruthfulUpdate
    /\ MailedAtMostOnce /\ SentIsTrue

(* The initial state satisfies the mail invariant. *)
LEMMA InitMailInv == MailInit => MailInv
<1> SUFFICES ASSUME MailInit PROVE MailInv OBVIOUS
<1>1. MailTypes
  <2>1. queue \in Seq(Jobs) BY EmptySeq DEF MailInit
  <2> QED BY <2>1 DEF MailInit, MailTypes, Consumers
<1>2. /\ queue = <<>> /\ Len(queue) = 0
      /\ \A w \in Workers : consumer[w].at = "pop"
      /\ \A r \in Recipients : accepted[r] = 0 /\ email_status[r] = "queued"
  BY EmptySeq DEF MailInit
<1> QED
  BY <1>1, <1>2 DEF MailInv, QuietBefore, OnePlace, Sending, TruthfulUpdate,
                    MailedAtMostOnce, SentIsTrue

(* One job per recipient: the list of recipients names nobody twice. *)
LEMMA EachOnce ==
    /\ SetToSeq(Recipients) \in Seq(Recipients)
    /\ \A i, j \in 1..Len(SetToSeq(Recipients)) :
           SetToSeq(Recipients)[i] = SetToSeq(Recipients)[j] => i = j
<1> DEFINE n == Cardinality(Recipients)
<1>1. n \in Nat /\ ExistsBijection(1..n, Recipients)
  BY FS_CardinalityType, RecipientsAssumption
<1>2. PICK f \in [1..n -> Recipients] : IsInjective(f)
  BY <1>1 DEF ExistsBijection, Bijection, Injection
<1> DEFINE g == SetToSeq(Recipients)
<1>3. g \in [1..n -> Recipients] /\ IsInjective(g)
  BY <1>2 DEF SetToSeq
<1> HIDE DEF g
<1>4. g \in Seq(Recipients) /\ Len(g) = n
  BY <1>1, <1>3
<1>5. \A i, j \in 1..Len(g) : g[i] = g[j] => i = j
  BY <1>3, <1>4 DEF IsInjective
<1> QED BY <1>4, <1>5 DEF g

(* A job for the sender at the tail of the queue. *)
LEMMA NoticeQueue ==
    ASSUME NEW s \in Seq(Jobs), NEW q, q = <<Sender>> \o s
    PROVE  /\ q \in Seq(Jobs)
           /\ Len(q) = Len(s) + 1 /\ Len(s) \in Nat
           /\ \A i \in 1..Len(q) : q[i] \in Recipients => i - 1 \in 1..Len(s) /\ q[i] = s[i - 1]
<1>1. Sender \notin Recipients BY NamesAssumption
<1>2. <<Sender>> \in Seq(Jobs) /\ Len(<<Sender>>) = 1 /\ <<Sender>>[1] = Sender BY DEF Jobs
<1>3. Len(s) \in Nat BY LenProperties
<1>4. /\ q \in Seq(Jobs)
      /\ Len(q) = 1 + Len(s)
      /\ \A i \in 1..(1 + Len(s)) : q[i] = IF i <= 1 THEN <<Sender>>[i] ELSE s[i - 1]
  BY <1>2, ConcatProperties
<1> QED BY <1>1, <1>2, <1>3, <1>4

(* The pipeline of an announcement: the sender's job and the recipients'. *)
LEMMA AnnouncedQueue ==
    ASSUME NEW q, q = <<Sender>> \o SetToSeq(Recipients) \o <<>>
    PROVE  /\ q \in Seq(Jobs)
           /\ \A i, j \in 1..Len(q) : q[i] \in Recipients /\ q[i] = q[j] => i = j
<1> DEFINE g == SetToSeq(Recipients)
<1>1. /\ g \in Seq(Recipients)
      /\ \A i, j \in 1..Len(g) : g[i] = g[j] => i = j
  BY EachOnce
<1>2. q = <<Sender>> \o g \o <<>> OBVIOUS
<1> HIDE DEF g
<1>4. g \in Seq(Jobs) BY <1>1, SeqMonotonic DEF Jobs
<1>5. <<Sender>> \in Seq(Jobs) BY DEF Jobs
<1>6. q = <<Sender>> \o g
  BY <1>2, <1>4, <1>5, ConcatProperties, ConcatEmptySeq
<1>7. q \in Seq(Jobs) /\ Len(q) = Len(g) + 1 /\ Len(g) \in Nat
  BY <1>4, <1>6, NoticeQueue
<1>8. \A i \in 1..Len(q) : q[i] \in Recipients => i - 1 \in 1..Len(g) /\ q[i] = g[i - 1]
  BY <1>4, <1>6, NoticeQueue
<1>10. ASSUME NEW i \in 1..Len(q), NEW j \in 1..Len(q), q[i] \in Recipients, q[i] = q[j]
       PROVE  i = j
  <2>1. i - 1 \in 1..Len(g) /\ j - 1 \in 1..Len(g) /\ g[i - 1] = g[j - 1]
    BY <1>8, <1>10
  <2>2. i - 1 = j - 1 BY <1>1, <2>1
  <2> QED BY <2>2, <1>7
<1> QED BY <1>7, <1>10

(* Popping: the last job, and the others where they were. *)
LEMMA PoppedQueue ==
    ASSUME NEW s \in Seq(Jobs), s # <<>>
    PROVE  /\ Last(s) \in Jobs /\ Last(s) = s[Len(s)] /\ Len(s) \in Nat \ {0}
           /\ Front(s) \in Seq(Jobs) /\ Len(Front(s)) = Len(s) - 1
           /\ \A i \in 1..Len(Front(s)) : Front(s)[i] = s[i]
<1>1. Len(s) \in Nat \ {0} BY EmptySeq
<1>2. \A i \in 1..Len(s) : s[i] \in Jobs BY ElementOfSeq
<1>3. PICK n \in 0..Len(s) : n = Len(s) - 1 BY <1>1
<1>4. /\ SubSeq(s, 1, n) \in Seq(Jobs) /\ Len(SubSeq(s, 1, n)) = n
      /\ \A i \in 1..n : SubSeq(s, 1, n)[i] = s[i]
  BY FirstProperties
<1>5. Front(s) = SubSeq(s, 1, n) BY <1>3 DEF Front
<1>6. Last(s) \in Jobs /\ Last(s) = s[Len(s)] BY <1>1, <1>2 DEF Last
<1> QED BY <1>1, <1>3, <1>4, <1>5, <1>6

(* No step of the encrypt job, of a download or of a consumer breaks it. *)
LEMMA MailStep == MailInv /\ [MailNext]_mailVars => MailInv'
<1> SUFFICES ASSUME MailInv, [MailNext]_mailVars PROVE MailInv' OBVIOUS
<1> USE DEF MailInv
<1>1. CASE Announce
  <2>1. announced' = TRUE /\ ~announced /\ UNCHANGED <<consumer, email_status, accepted>>
    BY <1>1 DEF Announce
  <2>2. queue = <<>> /\ (\A w \in Workers : consumer[w].at = "pop")
            /\ \A r \in Recipients : accepted[r] = 0
    BY <2>1 DEF QuietBefore
  <2>3. queue' = <<Sender>> \o SetToSeq(Recipients) \o <<>>
    BY <1>1, <2>2 DEF Announce
  <2>4. /\ queue' \in Seq(Jobs)
        /\ \A i, j \in 1..Len(queue') : queue'[i] \in Recipients /\ queue'[i] = queue'[j] => i = j
    BY <2>3, AnnouncedQueue
  <2>5. MailTypes' /\ QuietBefore' BY <2>1, <2>4 DEF MailTypes, QuietBefore
  <2>6. OnePlace' BY <2>1, <2>2, <2>4 DEF OnePlace, Sending
  <2> QED BY <2>1, <2>5, <2>6 DEF TruthfulUpdate, MailedAtMostOnce, SentIsTrue
<1>2. CASE AnnounceFails
  BY <1>2 DEF AnnounceFails, MailTypes, QuietBefore, OnePlace, Sending, TruthfulUpdate,
              MailedAtMostOnce, SentIsTrue
<1>3. CASE DownloadNotice
  <2>1. announced /\ announced' /\ UNCHANGED <<consumer, email_status, accepted>>
            /\ queue' = <<Sender>> \o queue
    BY <1>3 DEF DownloadNotice, MailTypes
  <2>2. /\ queue' \in Seq(Jobs)
        /\ Len(queue') = Len(queue) + 1 /\ Len(queue) \in Nat
        /\ \A i \in 1..Len(queue') :
               queue'[i] \in Recipients => i - 1 \in 1..Len(queue) /\ queue'[i] = queue[i - 1]
    BY <2>1, NoticeQueue DEF MailTypes
  <2>3. MailTypes' /\ QuietBefore' BY <2>1, <2>2 DEF MailTypes, QuietBefore
  <2>4. \A i, j \in 1..Len(queue)' :
            queue'[i] \in Recipients /\ queue'[i] = queue'[j] => i = j
    <3> SUFFICES ASSUME NEW i \in 1..Len(queue'), NEW j \in 1..Len(queue'),
                        queue'[i] \in Recipients, queue'[i] = queue'[j]
                 PROVE  i = j
      OBVIOUS
    <3>1. i - 1 = j - 1 BY <2>2 DEF OnePlace
    <3> QED BY <3>1, <2>2
  <2>5. OnePlace' BY <2>1, <2>2, <2>4 DEF OnePlace, Sending
  <2> QED BY <2>1, <2>3, <2>5 DEF TruthfulUpdate, MailedAtMostOnce, SentIsTrue
<1>4. ASSUME NEW w \in Workers, Pop(w) PROVE MailInv'
  <2> DEFINE job == Last(queue)
  <2>1. /\ consumer[w].at = "pop" /\ queue # <<>> /\ queue' = Front(queue)
        /\ consumer' = [consumer EXCEPT ![w] = [at |-> "send", job |-> job, status |-> "queued"]]
        /\ UNCHANGED <<announced, email_status, accepted>>
    BY <1>4 DEF Pop
  <2>2. /\ job \in Jobs /\ job = queue[Len(queue)] /\ Len(queue) \in Nat \ {0}
        /\ queue' \in Seq(Jobs) /\ Len(queue') = Len(queue) - 1
        /\ \A i \in 1..Len(queue') : queue'[i] = queue[i]
    BY <2>1, PoppedQueue DEF MailTypes
  <2> HIDE DEF job
  <2>3. announced BY <2>1 DEF QuietBefore, MailTypes
  <2>4. MailTypes' BY <2>1, <2>2 DEF MailTypes, Consumers
  <2>5. QuietBefore' BY <2>1, <2>3 DEF QuietBefore
  <2>6. job \in Recipients =>
            /\ accepted[job] = 0
            /\ \A i \in 1..Len(queue') : queue'[i] # job
            /\ \A v \in Workers : Sending(v) => consumer[v].job # job
    BY <2>2 DEF OnePlace
  <2>7. \A v \in Workers : consumer'[v] = IF v = w
            THEN [at |-> "send", job |-> job, status |-> "queued"] ELSE consumer[v]
    BY <2>1 DEF MailTypes
  <2>8. \A v \in Workers : Sending(v)' => IF v = w THEN job \in Recipients ELSE Sending(v)
    BY <2>7 DEF Sending
  <2>9. OnePlace'
    <3>1. \A i, j \in 1..Len(queue') :
              queue'[i] \in Recipients /\ queue'[i] = queue'[j] => i = j
      BY <2>2 DEF OnePlace
    <3>2. \A i \in 1..Len(queue') : queue'[i] \in Recipients => accepted'[queue'[i]] = 0
      BY <2>1, <2>2 DEF OnePlace
    <3>3. \A v \in Workers : Sending(v)' =>
              /\ accepted'[consumer'[v].job] = 0
              /\ \A i \in 1..Len(queue') : queue'[i] # consumer'[v].job
      BY <2>1, <2>2, <2>6, <2>7, <2>8 DEF OnePlace
    <3>4. \A u, v \in Workers :
              Sending(u)' /\ Sending(v)' /\ consumer'[v].job = consumer'[u].job => v = u
      BY <2>6, <2>7, <2>8 DEF OnePlace
    <3> QED BY <3>1, <3>2, <3>3, <3>4 DEF OnePlace
  <2>10. TruthfulUpdate' BY <2>1, <2>7 DEF TruthfulUpdate
  <2> QED BY <2>1, <2>4, <2>5, <2>9, <2>10 DEF MailedAtMostOnce, SentIsTrue
<1>5. ASSUME NEW w \in Workers, NEW taken \in BOOLEAN, NEW ok \in BOOLEAN, Send(w, taken, ok)
      PROVE  MailInv'
  <2> DEFINE r == consumer[w].job
             status == IF ok THEN "sent" ELSE "failed"
  <2>1. /\ consumer[w].at = "send" /\ (ok => taken)
        /\ accepted' = IF taken /\ r \in Recipients
                         THEN [accepted EXCEPT ![r] = @ + 1] ELSE accepted
        /\ consumer' = [consumer EXCEPT ![w] = [at |-> "update", job |-> r, status |-> status]]
        /\ UNCHANGED <<announced, queue, email_status>>
    BY <1>5 DEF Send, AfterSend, Marks
  <2>2. status \in {"sent", "failed"} /\ (status = "sent" => taken) BY <2>1
  <2>3. r \in Jobs \cup {Nobody} BY DEF MailTypes, Consumers
  <2>4. r \in Recipients => /\ accepted[r] = 0 /\ Sending(w)
                            /\ \A i \in 1..Len(queue) : queue[i] # r
                            /\ \A v \in Workers : Sending(v) /\ consumer[v].job = r => v = w
    BY <2>1 DEF OnePlace, Sending
  <2>5. \A v \in Workers : consumer'[v] = IF v = w
            THEN [at |-> "update", job |-> r, status |-> status] ELSE consumer[v]
    BY <2>1 DEF MailTypes
  <2> HIDE DEF r, status
  <2>6. \A q \in Recipients : accepted'[q] = IF q = r /\ taken THEN 1 ELSE accepted[q]
    BY <2>1, <2>4 DEF MailTypes
  <2>7. MailTypes'
    <3>1. accepted' \in [Recipients -> Nat] BY <2>1 DEF MailTypes
    <3>2. consumer' \in [Workers -> Consumers] BY <2>1, <2>2, <2>3 DEF MailTypes, Consumers
    <3> QED BY <2>1, <3>1, <3>2 DEF MailTypes
  <2>8. QuietBefore' BY <2>1 DEF QuietBefore, MailTypes
  <2>9. \A v \in Workers : Sending(v)' => v # w /\ Sending(v) BY <2>5 DEF Sending
  <2>10. OnePlace'
    <3>1. \A i \in 1..Len(queue') : queue'[i] \in Recipients => accepted'[queue'[i]] = 0
      BY <2>1, <2>4, <2>6 DEF OnePlace
    <3>2. \A v \in Workers : Sending(v)' =>
              /\ accepted'[consumer'[v].job] = 0
              /\ \A i \in 1..Len(queue') : queue'[i] # consumer'[v].job
              /\ \A u \in Workers : Sending(u)' /\ consumer'[u].job = consumer'[v].job => u = v
      <4> SUFFICES ASSUME NEW v \in Workers, Sending(v)'
                   PROVE  /\ accepted'[consumer'[v].job] = 0
                          /\ \A i \in 1..Len(queue') : queue'[i] # consumer'[v].job
                          /\ \A u \in Workers :
                                 Sending(u)' /\ consumer'[u].job = consumer'[v].job => u = v
        OBVIOUS
      <4>1. v # w /\ Sending(v) /\ consumer'[v] = consumer[v] BY <2>5, <2>9
      <4>2. consumer[v].job \in Recipients BY <4>1 DEF Sending
      <4>3. consumer[v].job # r BY <2>4, <4>1, <4>2
      <4>4. accepted'[consumer'[v].job] = 0 BY <2>6, <4>1, <4>2, <4>3 DEF OnePlace
      <4>5. \A u \in Workers : Sending(u)' => Sending(u) /\ consumer'[u] = consumer[u]
        BY <2>5, <2>9
      <4> QED BY <2>1, <4>1, <4>4, <4>5 DEF OnePlace
    <3> QED BY <2>1, <3>1, <3>2 DEF OnePlace
  <2>11. TruthfulUpdate'
    <3> SUFFICES ASSUME NEW v \in Workers, consumer'[v].at = "update",
                        consumer'[v].status = "sent", consumer'[v].job \in Recipients
                 PROVE  accepted'[consumer'[v].job] = 1
      BY DEF TruthfulUpdate
    <3>1. CASE v = w BY <3>1, <2>2, <2>5, <2>6
    <3>2. CASE v # w
      <4>1. consumer'[v] = consumer[v] BY <2>5, <3>2
      <4>2. accepted[consumer[v].job] = 1 BY <4>1 DEF TruthfulUpdate
      <4> QED BY <4>1, <4>2, <2>6
    <3> QED BY <3>1, <3>2
  <2>12. MailedAtMostOnce' BY <2>6 DEF MailedAtMostOnce, MailTypes
  <2>13. SentIsTrue' BY <2>1, <2>6 DEF SentIsTrue
  <2> QED BY <2>7, <2>8, <2>10, <2>11, <2>12, <2>13
<1>6. ASSUME NEW w \in Workers, Done(w), UNCHANGED <<announced, queue, accepted>>,
             email_status' \in [Recipients -> {"queued", "sent", "failed"}], SentIsTrue'
      PROVE  MailInv'
  <2>1. \A v \in Workers : consumer'[v] = IF v = w
            THEN [at |-> "pop", job |-> Nobody, status |-> "queued"] ELSE consumer[v]
    BY <1>6 DEF Done, MailTypes
  <2>2. MailTypes' BY <1>6 DEF Done, MailTypes, Consumers
  <2>3. QuietBefore' BY <1>6, <2>1 DEF QuietBefore
  <2>4. \A v \in Workers : Sending(v)' => Sending(v) /\ consumer'[v] = consumer[v]
    BY <2>1 DEF Sending
  <2>5. OnePlace' BY <1>6, <2>4 DEF OnePlace
  <2>6. TruthfulUpdate' BY <1>6, <2>1 DEF TruthfulUpdate
  <2> QED BY <1>6, <2>2, <2>3, <2>5, <2>6 DEF MailedAtMostOnce
<1>7. ASSUME NEW w \in Workers, Update(w) PROVE MailInv'
  <2>1. /\ consumer[w].at = "update" /\ Done(w) /\ UNCHANGED <<announced, queue, accepted>>
        /\ email_status' = IF consumer[w].job \in Recipients
                             THEN [email_status EXCEPT ![consumer[w].job] = consumer[w].status]
                             ELSE email_status
    BY <1>7 DEF Update
  <2>2. consumer[w].status \in {"queued", "sent", "failed"} BY DEF MailTypes, Consumers
  <2>3. email_status' \in [Recipients -> {"queued", "sent", "failed"}]
    BY <2>1, <2>2 DEF MailTypes
  <2>4. SentIsTrue' BY <2>1 DEF SentIsTrue, TruthfulUpdate, MailTypes
  <2> QED BY <1>6, <2>1, <2>3, <2>4
<1>8. ASSUME NEW w \in Workers, JobLost(w) PROVE MailInv'
  <2>1. Done(w) /\ UNCHANGED <<announced, queue, accepted, email_status>>
    BY <1>8 DEF JobLost
  <2>2. email_status' \in [Recipients -> {"queued", "sent", "failed"}] /\ SentIsTrue'
    BY <2>1 DEF MailTypes, SentIsTrue
  <2> QED BY <1>6, <2>1, <2>2
<1>9. CASE UNCHANGED mailVars
  BY <1>9 DEF mailVars, MailTypes, QuietBefore, OnePlace, Sending, TruthfulUpdate,
              MailedAtMostOnce, SentIsTrue
<1> QED BY <1>1, <1>2, <1>3, <1>4, <1>5, <1>7, <1>8, <1>9 DEF MailNext

(* For any number of recipients, workers, notices and faults, the relay    *)
(* takes the announcement for nobody twice: _enqueue_transfer_emails makes *)
(* one job per recipient, BRPOP hands it to one consumer, and no failure   *)
(* puts it back.                                                           *)
THEOREM NobodyMailedTwice == MailSpec => []MailedAtMostOnce
<1>1. MailInv => MailedAtMostOnce BY DEF MailInv
<1> QED BY <1>1, InitMailInv, MailStep, PTL DEF MailSpec

(* For any number of them, email_status "sent" is written only for a mail  *)
(* the relay has taken.                                                    *)
THEOREM SentMeansTaken == MailSpec => []SentIsTrue
<1>1. MailInv => SentIsTrue BY DEF MailInv
<1> QED BY <1>1, InitMailInv, MailStep, PTL DEF MailSpec

-----------------------------------------------------------------------------
(***************************************************************************)
(* The bytes of a download.                                                *)
(***************************************************************************)

(* What an object can consist of: bytes of the file, bytes of its tag, and *)
(* bytes from elsewhere.  No other tag exists.                             *)
Symbols ==
    {Byte(i) : i \in 1..MaxLen} \cup {<<"tag", plain, i>> : i \in 1..TagLen} \cup {Foreign}

Streams ==
    /\ TypeOK
    /\ {object, rest, buf, held, sent} \subseteq Seq(Symbols)

(* The encrypted part of the file; nothing is being downloaded. *)
EncryptedSoFar ==
    state = "encrypting" => /\ intact
                            /\ Len(object) <= Len(plain)
                            /\ object = SubSeq(plain, 1, Len(object))

Idle == state \in {"encrypting", "stored"} =>
            rest = <<>> /\ buf = <<>> /\ held = <<>> /\ sent = <<>>

(* Nothing is let through before a whole tag is held back. *)
TagHeldFirst == Len(held) < TagLen => sent = <<>>

(* Of an object nobody has changed, every byte is in its place: delivered, *)
(* held back, buffered or still to come.                                   *)
Whole ==
    intact /\ state # "encrypting" =>
        /\ object = plain \o Tag(plain)
        /\ state # "stored" => sent \o (held \o (buf \o rest)) = object

StreamInv ==
    /\ Streams /\ EncryptedSoFar /\ Idle /\ TagHeldFirst /\ Whole
    /\ OnlyTheOriginal
    /\ intact => state # "failed"

(* A sequence is its first n elements and the others. *)
LEMMA SplitProperties ==
    ASSUME NEW S, NEW s \in Seq(S), NEW n \in 0..Len(s)
    PROVE  SubSeq(s, 1, n) \o After(s, n) = s
<1> DEFINE a == SubSeq(s, 1, n)
           b == After(s, n)
<1>1. a \in Seq(S) /\ Len(a) = n /\ \A i \in 1..n : a[i] = s[i] BY FirstProperties
<1>2. b \in Seq(S) /\ Len(b) = Len(s) - n /\ \A i \in 1..(Len(s) - n) : b[i] = s[n + i]
  BY AfterProperties
<1> HIDE DEF a, b
<1>3. Len(s) \in Nat BY LenProperties
<1>4. /\ a \o b \in Seq(S) /\ Len(a \o b) = Len(s)
      /\ \A i \in 1..Len(s) : (a \o b)[i] = IF i <= n THEN a[i] ELSE b[i - n]
  BY <1>1, <1>2, <1>3, ConcatProperties
<1>5. ASSUME NEW i \in 1..Len(s) PROVE (a \o b)[i] = s[i]
  <2>1. (a \o b)[i] = IF i <= n THEN a[i] ELSE b[i - n] BY <1>4
  <2>2. CASE i <= n
    <3>1. i \in 1..n BY <1>3, <2>2
    <3> QED BY <1>1, <2>1, <2>2, <3>1
  <2>3. CASE ~(i <= n)
    <3>1. i - n \in 1..(Len(s) - n) /\ n + (i - n) = i BY <1>3, <2>3
    <3>2. b[i - n] = s[n + (i - n)] BY <1>2, <3>1
    <3> QED BY <2>1, <2>3, <3>1, <3>2
  <2> QED BY <2>2, <2>3
<1>6. a \o b = s BY <1>4, <1>5, SeqEqual
<1> QED BY <1>6 DEF a, b

(* FirstOf takes some n elements: all, or as many as it was asked for. *)
LEMMA FirstOfProperties ==
    ASSUME NEW S, NEW s \in Seq(S), NEW m \in Nat
    PROVE  \E n \in 0..Len(s) : /\ FirstOf(s, m) = SubSeq(s, 1, n)
                                /\ n = IF m <= Len(s) THEN m ELSE Len(s)
<1>1. Len(s) \in Nat BY LenProperties
<1> DEFINE n == IF m <= Len(s) THEN m ELSE Len(s)
<1>2. Min({m, Len(s)}) = n BY <1>1 DEF Min
<1>3. n \in 0..Len(s) BY <1>1
<1> QED BY <1>2, <1>3 DEF FirstOf

(* Two ways of cutting one sequence agree up to the shorter cut. *)
LEMMA SameFront ==
    ASSUME NEW S, NEW s \in Seq(S), NEW t \in Seq(S), NEW u \in Seq(S), NEW v \in Seq(S),
           s \o t = u \o v, Len(s) <= Len(u)
    PROVE  \A i \in 1..Len(s) : s[i] = u[i]
<1>1. Len(s) \in Nat /\ Len(t) \in Nat /\ Len(u) \in Nat /\ Len(v) \in Nat BY LenProperties
<1>2. \A i \in 1..(Len(s) + Len(t)) : (s \o t)[i] = IF i <= Len(s) THEN s[i] ELSE t[i - Len(s)]
  BY ConcatProperties
<1>3. \A i \in 1..(Len(u) + Len(v)) : (u \o v)[i] = IF i <= Len(u) THEN u[i] ELSE v[i - Len(u)]
  BY ConcatProperties
<1> QED BY <1>1, <1>2, <1>3

(* Concatenation over one set of symbols; the prover takes Cat as it is. *)
Cat(s, t) == s \o t

LEMMA CatProperties ==
    ASSUME NEW S
    PROVE  /\ \A s, t \in Seq(S) : Cat(s, t) \in Seq(S)
           /\ \A s, t \in Seq(S) : Len(Cat(s, t)) = Len(s) + Len(t)
           /\ \A s, t, u \in Seq(S) : Cat(Cat(s, t), u) = Cat(s, Cat(t, u))
  BY ConcatProperties, ConcatAssociative DEF Cat

(* The file and its tag are sequences of symbols. *)
LEMMA FileAndTag ==
    ASSUME TypeOK
    PROVE  /\ plain \in Seq(Symbols) /\ Len(plain) \in Nat
           /\ Tag(plain) \in Seq(Symbols) /\ Len(Tag(plain)) = TagLen
           /\ TagLen \in Nat \ {0} /\ ChunkSize \in Nat \ {0} /\ FetchSize \in Nat \ {0}
<1>1. TagLen \in Nat \ {0} /\ ChunkSize \in Nat \ {0} /\ FetchSize \in Nat \ {0} /\ MaxLen \in Nat
  BY SizesAssumption
<1>2. PICK n \in 0..MaxLen : plain = [i \in 1..n |-> Byte(i)] BY DEF TypeOK, File
<1>3. n \in Nat /\ \A i \in 1..n : Byte(i) \in Symbols BY <1>1 DEF Symbols
<1>4. plain \in Seq(Symbols) BY <1>2, <1>3
<1>5. Len(plain) \in Nat BY <1>4, LenProperties
<1>6. \A i \in 1..TagLen : <<"tag", plain, i>> \in Symbols BY DEF Symbols
<1>7. Tag(plain) \in Seq(Symbols) /\ Len(Tag(plain)) = TagLen BY <1>1, <1>6 DEF Tag
<1> QED BY <1>1, <1>4, <1>5, <1>7

(* A tag that is valid for what was delivered is the tag of the file: what *)
(* was delivered is the file.                                              *)
LEMMA ValidTag ==
    ASSUME Streams, held = Tag(sent)
    PROVE  sent = plain
<1>1. TagLen \in Nat \ {0} BY SizesAssumption
<1>2. held[1] = <<"tag", sent, 1>> BY <1>1 DEF Tag
<1>3. held \in Seq(Symbols) /\ DOMAIN held = 1..TagLen BY DEF Streams, Tag
<1>4. 1 \in 1..Len(held) BY <1>1, <1>3, LenProperties
<1>5. held[1] \in Symbols BY <1>3, <1>4, ElementOfSeq
<1>6. PICK x \in Symbols : x = <<"tag", sent, 1>> BY <1>2, <1>5
<1>7. CASE \E i \in 1..MaxLen : x = <<"byte", i>> BY <1>6, <1>7
<1>8. CASE \E i \in 1..TagLen : x = <<"tag", plain, i>> BY <1>6, <1>8
<1>9. CASE x = <<"foreign">> BY <1>6, <1>9
<1> QED BY <1>7, <1>8, <1>9 DEF Symbols, Byte, Foreign

(* The initial state satisfies the stream invariant. *)
LEMMA InitStreamInv == Init => StreamInv
<1> SUFFICES ASSUME Init PROVE StreamInv OBVIOUS
<1>1. <<>> \in Seq(Symbols) /\ Len(<<>>) = 0 BY EmptySeq
<1>2. TypeOK BY <1>1, SizesAssumption DEF Init, TypeOK, States
<1>3. Len(plain) \in Nat BY <1>2, FileAndTag
<1>4. SubSeq(plain, 1, 0) = <<>> BY SubSeqEmpty
<1> QED BY <1>1, <1>2, <1>3, <1>4
        DEF Init, StreamInv, Streams, EncryptedSoFar, Idle, TagHeldFirst, Whole, OnlyTheOriginal

(* Whatever is done to an object, it consists of the same symbols. *)
LEMMA ChangedSymbols ==
    ASSUME Streams, NEW o \in Changed(object)
    PROVE  o \in Seq(Symbols)
<1>1. object \in Seq(Symbols) /\ Len(object) \in Nat BY LenProperties DEF Streams
<1>2. Foreign \in Symbols BY DEF Symbols
<1>3. <<Foreign>> \in Seq(Symbols) BY <1>2
<1>4. ASSUME NEW n \in 0..Len(object)
      PROVE  SubSeq(object, 1, n) \in Seq(Symbols) /\ After(object, n) \in Seq(Symbols)
  BY <1>1, FirstProperties, AfterProperties
<1>5. ASSUME NEW i \in 1..Len(object) PROVE [object EXCEPT ![i] = Foreign] \in Seq(Symbols)
  BY <1>1, <1>2, ExceptSeq
<1>6. ASSUME NEW i \in 1..Len(object), NEW j \in 1..Len(object)
      PROVE  [[object EXCEPT ![i] = object[j]] EXCEPT ![j] = object[i]] \in Seq(Symbols)
  <2>1. object[i] \in Symbols /\ object[j] \in Symbols BY <1>1, ElementOfSeq
  <2>2. PICK p : p = [object EXCEPT ![i] = object[j]] OBVIOUS
  <2>3. p \in Seq(Symbols) /\ Len(p) = Len(object) BY <1>1, <2>1, <2>2, ExceptSeq
  <2>4. [p EXCEPT ![j] = object[i]] \in Seq(Symbols) BY <2>1, <2>3, ExceptSeq
  <2> QED BY <2>2, <2>4
<1>7. /\ Append(object, Foreign) \in Seq(Symbols)
      /\ <<Foreign>> \o object \in Seq(Symbols)
      /\ object \o object \in Seq(Symbols)
  BY <1>1, <1>2, <1>3, AppendProperties, ConcatProperties
<1> QED
  <2>1. CASE o \in {SubSeq(object, 1, n) : n \in 0..Len(object)} BY <2>1, <1>4, Zenon
  <2>2. CASE o \in {After(object, n) : n \in 0..Len(object)} BY <2>2, <1>4, Zenon
  <2>3. CASE o \in {[object EXCEPT ![i] = Foreign] : i \in 1..Len(object)}
    BY <2>3, <1>5, Zenon
  <2>4. CASE o \in {[[object EXCEPT ![i] = object[j]] EXCEPT ![j] = object[i]] :
                        i, j \in 1..Len(object)}
    <3>1. PICK i \in 1..Len(object), j \in 1..Len(object) :
              o = [[object EXCEPT ![i] = object[j]] EXCEPT ![j] = object[i]]
      BY <2>4
    <3> QED BY <3>1, <1>6, Zenon
  <2>5. CASE o \in {Append(object, Foreign), <<Foreign>> \o object, object \o object}
    BY <2>5, <1>7, Zenon
  <2> QED BY <2>1, <2>2, <2>3, <2>4, <2>5 DEF Changed

(* encrypt_stream writes the next chunk of the file behind the others. *)
LEMMA EncryptChunkStep == StreamInv /\ EncryptChunk => StreamInv'
<1> SUFFICES ASSUME StreamInv, EncryptChunk PROVE StreamInv' OBVIOUS
<1>1. /\ state = "encrypting" /\ Len(object) < Len(plain)
      /\ object' = object \o FirstOf(After(plain, Len(object)), ChunkSize)
      /\ UNCHANGED <<plain, rest, buf, held, sent, state, intact>>
  BY DEF EncryptChunk
<1>2. TypeOK /\ object \in Seq(Symbols) BY DEF StreamInv, Streams
<1>3. plain \in Seq(Symbols) /\ Len(plain) \in Nat /\ ChunkSize \in Nat BY <1>2, FileAndTag
<1>4. PICK l \in 0..Len(plain) : l = Len(object) /\ object = SubSeq(plain, 1, l)
  <2>1. Len(object) \in Nat BY <1>2, LenProperties
  <2>2. Len(object) \in 0..Len(plain) BY <1>1, <1>3, <2>1
  <2>3. object = SubSeq(plain, 1, Len(object)) BY <1>1 DEF StreamInv, EncryptedSoFar
  <2> QED BY <2>2, <2>3, Zenon
<1> DEFINE tail == After(plain, l)
<1>5. /\ tail \in Seq(Symbols) /\ Len(tail) = Len(plain) - l
      /\ \A i \in 1..(Len(plain) - l) : tail[i] = plain[l + i]
  BY <1>3, AfterProperties
<1>6. object' = object \o FirstOf(tail, ChunkSize) BY <1>1, <1>4
<1> HIDE DEF tail
<1>7. PICK n \in 0..Len(tail) : FirstOf(tail, ChunkSize) = SubSeq(tail, 1, n)
  BY <1>3, <1>5, FirstOfProperties
<1> DEFINE c == SubSeq(tail, 1, n)
<1>8. c \in Seq(Symbols) /\ Len(c) = n /\ \A i \in 1..n : c[i] = tail[i]
  BY <1>5, FirstProperties
<1>9. object' = object \o c BY <1>6, <1>7
<1> HIDE DEF c
<1>10. /\ object' \in Seq(Symbols) /\ Len(object') = l + n
       /\ \A i \in 1..(l + n) : object'[i] = IF i <= l THEN object[i] ELSE c[i - l]
  BY <1>2, <1>4, <1>8, <1>9, ConcatProperties
<1>11. l + n \in 0..Len(plain) BY <1>3, <1>5
<1>12. \A i \in 1..l : object[i] = plain[i] BY <1>3, <1>4, FirstProperties
<1>13. \A i \in 1..(l + n) : object'[i] = plain[i]
  <2> SUFFICES ASSUME NEW i \in 1..(l + n) PROVE object'[i] = plain[i] OBVIOUS
  <2>1. CASE i <= l BY <2>1, <1>10, <1>12
  <2>2. CASE ~(i <= l)
    <3>1. i - l \in 1..n /\ i - l \in 1..(Len(plain) - l) /\ l + (i - l) = i
      BY <2>2, <1>3, <1>5
    <3>2. object'[i] = c[i - l] BY <2>2, <1>10
    <3>3. c[i - l] = tail[i - l] BY <3>1, <1>8
    <3>4. tail[i - l] = plain[l + (i - l)] BY <3>1, <1>5
    <3> QED BY <3>1, <3>2, <3>3, <3>4
  <2> QED BY <2>1, <2>2
<1>14. object' = SubSeq(plain, 1, l + n)
  <2>1. /\ SubSeq(plain, 1, l + n) \in Seq(Symbols) /\ Len(SubSeq(plain, 1, l + n)) = l + n
        /\ \A i \in 1..(l + n) : SubSeq(plain, 1, l + n)[i] = plain[i]
    BY <1>3, <1>11, FirstProperties
  <2> QED BY <2>1, <1>10, <1>13, SeqEqual
<1>15. Symbols' = Symbols BY <1>1 DEF Symbols
<1>16. Streams' BY <1>1, <1>10, <1>15 DEF StreamInv, Streams, TypeOK
<1>17. EncryptedSoFar' BY <1>1, <1>10, <1>11, <1>14 DEF StreamInv, EncryptedSoFar
<1> QED BY <1>1, <1>16, <1>17
        DEF StreamInv, Idle, TagHeldFirst, Whole, OnlyTheOriginal

(* The whole file is followed by its tag. *)
LEMMA EncryptEndStep == StreamInv /\ EncryptEnd => StreamInv'
<1> SUFFICES ASSUME StreamInv, EncryptEnd PROVE StreamInv' OBVIOUS
<1>1. /\ state = "encrypting" /\ Len(object) = Len(plain) /\ state' = "stored"
      /\ object' = object \o Tag(object)
      /\ UNCHANGED <<plain, rest, buf, held, sent, intact>>
  BY DEF EncryptEnd
<1>2. plain \in Seq(Symbols) /\ Tag(plain) \in Seq(Symbols)
  BY FileAndTag DEF StreamInv, Streams
<1>3. object = plain
  BY <1>1, <1>2, SubSeqFull DEF StreamInv, EncryptedSoFar
<1>4. object' = plain \o Tag(plain) BY <1>1, <1>3
<1>5. object' \in Seq(Symbols) BY <1>2, <1>4, ConcatProperties
<1>6. Symbols' = Symbols BY <1>1 DEF Symbols
<1>7. Streams' BY <1>1, <1>5, <1>6 DEF StreamInv, Streams, TypeOK, States
<1>8. Whole' BY <1>1, <1>4 DEF Whole
<1> QED BY <1>1, <1>7, <1>8
        DEF StreamInv, EncryptedSoFar, Idle, TagHeldFirst, OnlyTheOriginal

(* Somebody changes the object: it is no longer whole, and has no new tag. *)
LEMMA TamperStep == StreamInv /\ Tamper => StreamInv'
<1> SUFFICES ASSUME StreamInv, Tamper PROVE StreamInv' OBVIOUS
<1>1. /\ state = "stored" /\ object' \in Changed(object) /\ intact' = FALSE
      /\ UNCHANGED <<plain, rest, buf, held, sent, state>>
  BY DEF Tamper
<1>2. object' \in Seq(Symbols) BY <1>1, ChangedSymbols DEF StreamInv
<1>3. Symbols' = Symbols BY <1>1 DEF Symbols
<1>4. Streams' BY <1>1, <1>2, <1>3 DEF StreamInv, Streams, TypeOK
<1> QED BY <1>1, <1>4
        DEF StreamInv, EncryptedSoFar, Idle, TagHeldFirst, Whole, OnlyTheOriginal

(* What is let through and what is held back make up the window. *)
LEMMA WindowSplit ==
    ASSUME NEW S, NEW window \in Seq(S), TagLen \in Nat
    PROVE  LET pass == Passes(window)
               back == After(window, Len(pass))
           IN  /\ pass \in Seq(S) /\ back \in Seq(S)
               /\ pass \o back = window
               /\ Len(back) <= TagLen
               /\ Len(back) < TagLen => pass = <<>> /\ Len(window) = Len(back)
<1>1. Len(window) \in Nat BY LenProperties
<1>2. PICK n \in 0..Len(window) :
          n = IF Len(window) > TagLen THEN Len(window) - TagLen ELSE 0
  BY <1>1
<1>3. SubSeq(window, 1, 0) = <<>> BY SubSeqEmpty
<1>4. Passes(window) = SubSeq(window, 1, n) BY <1>1, <1>2, <1>3 DEF Passes
<1>5. SubSeq(window, 1, n) \in Seq(S) /\ Len(SubSeq(window, 1, n)) = n BY FirstProperties
<1>6. After(window, n) \in Seq(S) /\ Len(After(window, n)) = Len(window) - n BY AfterProperties
<1>7. SubSeq(window, 1, n) \o After(window, n) = window BY SplitProperties
<1>8. Len(window) - n <= TagLen BY <1>1, <1>2
<1>9. Len(window) - n < TagLen => n = 0 BY <1>1, <1>2
<1> DEFINE pass == Passes(window)
           back == After(window, Len(pass))
<1>10. pass = SubSeq(window, 1, n) /\ Len(pass) = n BY <1>4, <1>5, Zenon
<1>11. back = After(window, n) BY <1>10, Zenon
<1>12. pass \in Seq(S) /\ back \in Seq(S) /\ pass \o back = window
  BY <1>5, <1>6, <1>7, <1>10, <1>11, Zenon
<1>13. Len(back) <= TagLen BY <1>6, <1>8, <1>11, Zenon
<1>14. ASSUME Len(back) < TagLen PROVE pass = <<>> /\ Len(window) = Len(back)
  <2>1. n = 0 BY <1>6, <1>9, <1>11, <1>14, Zenon
  <2>2. Len(window) - 0 = Len(window) BY <1>1
  <2> QED BY <1>3, <1>6, <1>10, <1>11, <2>1, <2>2, Zenon
<1> QED BY <1>12, <1>13, <1>14, Zenon

(* One turn of the loop moves bytes along and drops none. *)
LEMMA ReadStep == ASSUME StreamInv, NEW size \in 1..FetchSize, Read(size) PROVE StreamInv'
<1> DEFINE got    == IF buf # <<>> THEN buf ELSE FirstOf(rest, size)
           chunk  == FirstOf(got, ChunkSize)
           window == held \o chunk
           pass   == Passes(window)
<1>1. /\ state = "streaming" /\ got # <<>>
      /\ rest' = IF buf # <<>> THEN rest ELSE After(rest, Len(got))
      /\ buf' = After(got, Len(chunk))
      /\ sent' = sent \o pass
      /\ held' = After(window, Len(pass))
      /\ UNCHANGED <<plain, object, state, intact>>
  BY DEF Read, Leftover
<1>2. /\ TypeOK /\ object \in Seq(Symbols) /\ rest \in Seq(Symbols) /\ buf \in Seq(Symbols)
      /\ held \in Seq(Symbols) /\ sent \in Seq(Symbols)
  BY DEF StreamInv, Streams
<1>3. TagLen \in Nat \ {0} /\ ChunkSize \in Nat \ {0} /\ FetchSize \in Nat \ {0}
  BY <1>2, FileAndTag
<1>4. /\ got \in Seq(Symbols) /\ rest' \in Seq(Symbols)
      /\ Len(got) <= FetchSize
      /\ got \o rest' = buf \o rest
  <2>1. CASE buf # <<>> BY <2>1, <1>1, <1>2 DEF TypeOK
  <2>2. CASE buf = <<>>
    <3>1. size \in Nat /\ size <= FetchSize BY <1>3
    <3>2. PICK n \in 0..Len(rest) : /\ FirstOf(rest, size) = SubSeq(rest, 1, n)
                                    /\ n = IF size <= Len(rest) THEN size ELSE Len(rest)
      BY <1>2, <3>1, FirstOfProperties
    <3>3. got = SubSeq(rest, 1, n) BY <2>2, <3>2
    <3>4. got \in Seq(Symbols) /\ Len(got) = n BY <1>2, <3>3, FirstProperties
    <3>5. rest' = After(rest, n) BY <1>1, <2>2, <3>4
    <3>6. rest' \in Seq(Symbols) BY <1>2, <3>5, AfterProperties
    <3>7. got \o rest' = rest BY <1>2, <3>3, <3>5, SplitProperties
    <3>8. n <= FetchSize BY <1>2, <1>3, <3>1, <3>2, LenProperties
    <3>9. buf \o rest = rest BY <1>2, <2>2, ConcatEmptySeq
    <3> QED BY <3>4, <3>6, <3>7, <3>8, <3>9
  <2> QED BY <2>1, <2>2
<1>5. Len(got) \in Nat BY <1>4, LenProperties
<1> HIDE DEF got
<1>6. /\ chunk \in Seq(Symbols) /\ buf' \in Seq(Symbols)
      /\ Len(buf') <= FetchSize
      /\ chunk \o buf' = got
  <2>1. PICK n \in 0..Len(got) : chunk = SubSeq(got, 1, n)
    BY <1>3, <1>4, FirstOfProperties
  <2>2. chunk \in Seq(Symbols) /\ Len(chunk) = n BY <1>4, <2>1, FirstProperties
  <2>3. buf' = After(got, n) BY <1>1, <2>2
  <2>4. buf' \in Seq(Symbols) /\ Len(buf') = Len(got) - n BY <1>4, <2>3, AfterProperties
  <2>5. chunk \o buf' = got BY <1>4, <2>1, <2>3, SplitProperties
  <2>6. Len(got) - n <= FetchSize BY <1>3, <1>4, <1>5
  <2> QED BY <2>2, <2>4, <2>5, <2>6
<1> HIDE DEF chunk
<1>7. /\ window \in Seq(Symbols) /\ Len(window) = Len(held) + Len(chunk)
      /\ Len(held) \in Nat /\ Len(chunk) \in Nat
  BY <1>2, <1>6, ConcatProperties, LenProperties
<1>8. /\ pass \in Seq(Symbols) /\ held' \in Seq(Symbols)
      /\ pass \o held' = window
      /\ Len(held') <= TagLen
      /\ Len(held') < TagLen => pass = <<>> /\ Len(window) = Len(held')
  BY <1>1, <1>3, <1>7, WindowSplit
<1>9. window = held \o chunk OBVIOUS
<1> HIDE DEF window, pass
<1>10. sent' \in Seq(Symbols) BY <1>1, <1>2, <1>8, ConcatProperties
<1>11. Symbols' = Symbols BY <1>1 DEF Symbols
<1>12. Streams' BY <1>1, <1>2, <1>4, <1>6, <1>8, <1>10, <1>11 DEF Streams, TypeOK
<1>13. TagHeldFirst'
  <2> SUFFICES ASSUME Len(held') < TagLen PROVE sent' = <<>> BY DEF TagHeldFirst
  <2>1. pass = <<>> /\ Len(held) < TagLen
    <3>1. Len(window) = Len(held') /\ pass = <<>> BY <1>8
    <3>2. Len(held') \in Nat BY <1>8, LenProperties
    <3> QED BY <3>1, <3>2, <1>3, <1>7
  <2>2. sent = <<>> BY <2>1 DEF StreamInv, TagHeldFirst
  <2> QED BY <1>1, <1>2, <2>1, <2>2, ConcatEmptySeq
<1>14. sent' \o (held' \o (buf' \o rest')) = sent \o (held \o (buf \o rest))
  <2>1. /\ Cat(got, rest') = Cat(buf, rest) /\ Cat(chunk, buf') = got
        /\ window = Cat(held, chunk) /\ Cat(pass, held') = window
    BY <1>4, <1>6, <1>8, <1>9, Zenon DEF Cat
  <2>2. \A x, y \in Seq(Symbols) : Cat(x, y) \in Seq(Symbols) BY CatProperties
  <2>3. \A x, y, z \in Seq(Symbols) : Cat(Cat(x, y), z) = Cat(x, Cat(y, z))
    BY CatProperties
  <2>4. PICK t \in Seq(Symbols) : t = Cat(buf', rest') BY <1>4, <1>6, <2>2
  <2>5. PICK u \in Seq(Symbols) : u = Cat(held', t) BY <1>8, <2>2
  <2>6. Cat(Cat(sent, pass), u) = Cat(sent, Cat(pass, u)) BY <1>2, <1>8, <2>3
  <2>7. Cat(pass, Cat(held', t)) = Cat(window, t) BY <1>8, <2>1, <2>3
  <2>8. Cat(window, t) = Cat(held, Cat(chunk, t)) BY <1>2, <1>6, <2>1, <2>3
  <2>9. Cat(chunk, Cat(buf', rest')) = Cat(got, rest') BY <1>4, <1>6, <2>1, <2>3
  <2>10. Cat(Cat(sent, pass), Cat(held', Cat(buf', rest')))
             = Cat(sent, Cat(held, Cat(buf, rest)))
    BY <2>1, <2>4, <2>5, <2>6, <2>7, <2>8, <2>9, Zenon
  <2> QED BY <1>1, <2>10, Zenon DEF Cat
<1>15. Whole' BY <1>1, <1>14 DEF StreamInv, Whole
<1> QED BY <1>1, <1>12, <1>13, <1>15 DEF StreamInv, EncryptedSoFar, Idle, OnlyTheOriginal

(* The end of the object. *)
LEMMA FinishStep == StreamInv /\ Finish => StreamInv'
<1> SUFFICES ASSUME StreamInv, Finish PROVE StreamInv' OBVIOUS
<1>1. /\ state = "streaming" /\ buf = <<>> /\ rest = <<>>
      /\ state' = IF Len(held) = TagLen /\ held = Tag(sent) THEN "complete" ELSE "failed"
      /\ UNCHANGED <<plain, object, rest, buf, held, sent, intact>>
  BY DEF Finish, Verified
<1>2. state' = "complete" => sent = plain
  BY <1>1, ValidTag DEF StreamInv
<1>3. ASSUME intact PROVE state' = "complete"
  <2>1. /\ TypeOK /\ held \in Seq(Symbols) /\ sent \in Seq(Symbols)
    BY DEF StreamInv, Streams
  <2>2. /\ plain \in Seq(Symbols) /\ Tag(plain) \in Seq(Symbols) /\ Len(Tag(plain)) = TagLen
        /\ Len(plain) \in Nat /\ TagLen \in Nat
    BY <2>1, FileAndTag
  <2>3. sent \o held = plain \o Tag(plain)
    <3>1. <<>> \o <<>> = <<>> /\ held \o <<>> = held BY <2>1, ConcatEmptySeq, EmptySeq
    <3> QED BY <1>1, <1>3, <3>1 DEF StreamInv, Whole
  <2>4. Len(sent) + Len(held) = Len(plain) + TagLen
    <3>1. \A s, t \in Seq(Symbols) : Len(s \o t) = Len(s) + Len(t)
      BY ConcatProperties
    <3>2. Len(sent \o held) = Len(sent) + Len(held) BY <2>1, <3>1, Zenon
    <3>3. Len(plain \o Tag(plain)) = Len(plain) + Len(Tag(plain)) BY <2>2, <3>1, Zenon
    <3> QED BY <2>2, <2>3, <3>2, <3>3, Zenon
  <2>5. Len(sent) \in Nat /\ Len(held) \in Nat BY <2>1, LenProperties
  <2>6. Len(held) = TagLen
    <3> SUFFICES ASSUME Len(held) # TagLen PROVE FALSE OBVIOUS
    <3>1. Len(held) < TagLen BY <2>1, <2>2, <2>5 DEF TypeOK
    <3>2. sent = <<>> BY <3>1 DEF StreamInv, TagHeldFirst
    <3>3. Len(sent) = 0 BY <3>2, EmptySeq
    <3> QED BY <2>2, <2>4, <2>5, <3>1, <3>3
  <2>7. Len(sent) = Len(plain) BY <2>2, <2>4, <2>5, <2>6
  <2>8. \A i \in 1..Len(sent) : sent[i] = plain[i]
    BY <2>1, <2>2, <2>3, <2>5, <2>7, SameFront
  <2>9. sent = plain BY <2>1, <2>2, <2>7, <2>8, SeqEqual
  <2>10. held = Tag(plain) BY <2>1, <2>2, <2>3, <2>9, ConcatSimplifications
  <2> QED BY <1>1, <2>6, <2>9, <2>10
<1>4. Symbols' = Symbols BY <1>1 DEF Symbols
<1>5. Streams' BY <1>1, <1>4 DEF StreamInv, Streams, TypeOK, States
<1>6. state' \in {"complete", "failed"} BY <1>1
<1>7. EncryptedSoFar' /\ Idle' BY <1>6 DEF EncryptedSoFar, Idle
<1>8. TagHeldFirst' /\ Whole' BY <1>1 DEF StreamInv, TagHeldFirst, Whole
<1>9. OnlyTheOriginal' BY <1>1, <1>2 DEF OnlyTheOriginal
<1> QED BY <1>1, <1>3, <1>5, <1>7, <1>8, <1>9 DEF StreamInv

(* No step of an encryption, of a download or of whoever changes the       *)
(* object breaks the stream invariant.                                     *)
LEMMA StreamStep == StreamInv /\ [Next]_vars => StreamInv'
<1> SUFFICES ASSUME StreamInv, [Next]_vars PROVE StreamInv' OBVIOUS
<1>1. CASE GetObject
  <2>1. /\ state = "stored" /\ rest' = object /\ state' = "streaming"
        /\ UNCHANGED <<plain, object, buf, held, sent, intact>>
    BY <1>1 DEF GetObject
  <2>2. buf = <<>> /\ held = <<>> /\ sent = <<>> BY <2>1 DEF StreamInv, Idle
  <2>3. object \in Seq(Symbols) BY DEF StreamInv, Streams
  <2>4. <<>> \o (<<>> \o (<<>> \o object)) = object BY <2>3, ConcatEmptySeq
  <2>5. Symbols' = Symbols BY <2>1 DEF Symbols
  <2>6. Streams' BY <2>1, <2>5 DEF StreamInv, Streams, TypeOK, States
  <2>7. Whole' BY <2>1, <2>2, <2>4 DEF StreamInv, Whole
  <2> QED BY <2>1, <2>6, <2>7
          DEF StreamInv, EncryptedSoFar, Idle, TagHeldFirst, OnlyTheOriginal
<1>2. CASE UpstreamBreaks \/ ClientLeaves
  <2>1. /\ state = "streaming" /\ state' \in {"cut", "left"}
        /\ UNCHANGED <<plain, object, rest, buf, held, sent, intact>>
    BY <1>2 DEF UpstreamBreaks, ClientLeaves
  <2>2. Symbols' = Symbols BY <2>1 DEF Symbols
  <2>3. Streams' BY <2>1, <2>2 DEF StreamInv, Streams, TypeOK, States
  <2> QED BY <2>1, <2>3
          DEF StreamInv, EncryptedSoFar, Idle, TagHeldFirst, Whole, OnlyTheOriginal
<1>3. CASE NextDownload
  <2>1. /\ state \in {"complete", "failed", "cut", "left"} /\ state' = "stored"
        /\ rest' = <<>> /\ buf' = <<>> /\ held' = <<>> /\ sent' = <<>>
        /\ UNCHANGED <<plain, object, intact>>
    BY <1>3 DEF NextDownload, Ended
  <2>2. <<>> \in Seq(Symbols) /\ Len(<<>>) = 0 BY EmptySeq
  <2>3. Symbols' = Symbols BY <2>1 DEF Symbols
  <2>4. Streams' BY <2>1, <2>2, <2>3, SizesAssumption DEF StreamInv, Streams, TypeOK, States
  <2> QED BY <2>1, <2>4
          DEF StreamInv, EncryptedSoFar, Idle, TagHeldFirst, Whole, OnlyTheOriginal
<1>4. CASE UNCHANGED vars
  <2>1. Symbols' = Symbols BY <1>4 DEF vars, Symbols
  <2>2. Streams' BY <1>4, <2>1 DEF vars, StreamInv, Streams, TypeOK
  <2> QED BY <1>4, <2>2
          DEF vars, StreamInv, EncryptedSoFar, Idle, TagHeldFirst, Whole, OnlyTheOriginal
<1> QED BY <1>1, <1>2, <1>3, <1>4, EncryptChunkStep, EncryptEndStep, TamperStep, ReadStep,
           FinishStep DEF Next

(* What the readers of an untouched object get is the beginning of the     *)
(* file: the tag is held back whole.                                       *)
LEMMA WholeIsPrefix == StreamInv => UntouchedPasses
<1> SUFFICES ASSUME StreamInv, intact PROVE IsPrefix(sent, plain)
  BY DEF StreamInv, UntouchedPasses
<1>1. /\ TypeOK /\ held \in Seq(Symbols) /\ sent \in Seq(Symbols)
      /\ buf \in Seq(Symbols) /\ rest \in Seq(Symbols)
  BY DEF StreamInv, Streams
<1>2. /\ plain \in Seq(Symbols) /\ Tag(plain) \in Seq(Symbols) /\ Len(Tag(plain)) = TagLen
      /\ Len(plain) \in Nat /\ TagLen \in Nat
  BY <1>1, FileAndTag
<1>3. CASE sent = <<>>
  <2>1. Len(sent) = 0 BY <1>3, EmptySeq
  <2>2. SubSeq(sent, 1, 0) = <<>> /\ SubSeq(plain, 1, 0) = <<>> BY SubSeqEmpty
  <2> QED BY <1>2, <2>1, <2>2 DEF IsPrefix
<1>4. CASE sent # <<>>
  <2>1. state \notin {"encrypting", "stored"} BY <1>4 DEF StreamInv, Idle
  <2>2. PICK t \in Seq(Symbols) : t = buf \o rest BY <1>1, ConcatProperties
  <2>3. sent \o (held \o t) = plain \o Tag(plain)
    BY <2>1, <2>2 DEF StreamInv, Whole
  <2>4. /\ Len(sent) \in Nat /\ Len(held) \in Nat /\ Len(t) \in Nat
        /\ held \o t \in Seq(Symbols) /\ Len(held \o t) = Len(held) + Len(t)
    BY <1>1, <2>2, LenProperties, ConcatProperties
  <2>5. Len(sent) + (Len(held) + Len(t)) = Len(plain) + TagLen
    <3>1. \A x, y \in Seq(Symbols) : Len(x \o y) = Len(x) + Len(y)
      BY ConcatProperties
    <3>2. Len(sent \o (held \o t)) = Len(sent) + Len(held \o t) BY <1>1, <2>4, <3>1, Zenon
    <3>3. Len(plain \o Tag(plain)) = Len(plain) + Len(Tag(plain)) BY <1>2, <3>1, Zenon
    <3> QED BY <1>2, <2>3, <2>4, <3>2, <3>3, Zenon
  <2>6. Len(held) = TagLen BY <1>1, <1>2, <1>4, <2>4 DEF TypeOK, StreamInv, TagHeldFirst
  <2>7. Len(sent) <= Len(plain) BY <1>2, <2>4, <2>5, <2>6
  <2>8. \A i \in 1..Len(sent) : sent[i] = plain[i]
    <3>1. PICK v \in Seq(Symbols) : v = held \o t BY <2>4
    <3>2. PICK tag \in Seq(Symbols) : tag = Tag(plain) BY <1>2
    <3>3. sent \o v = plain \o tag BY <2>3, <3>1, <3>2
    <3>4. sent \in Seq(Symbols) /\ plain \in Seq(Symbols) BY <1>1, <1>2
    <3> QED BY <2>7, <3>3, <3>4, SameFront
  <2>9. Len(sent) \in 0..Len(plain) /\ Len(sent) \in 0..Len(sent) BY <1>2, <2>4, <2>7
  <2>10. /\ SubSeq(plain, 1, Len(sent)) \in Seq(Symbols)
         /\ Len(SubSeq(plain, 1, Len(sent))) = Len(sent)
         /\ \A i \in 1..Len(sent) : SubSeq(plain, 1, Len(sent))[i] = plain[i]
    BY <1>2, <2>9, FirstProperties
  <2>11. SubSeq(plain, 1, Len(sent)) = sent BY <1>1, <2>8, <2>10, SeqEqual
  <2>12. SubSeq(sent, 1, Len(sent)) = sent BY <1>1, SubSeqFull
  <2> QED BY <2>7, <2>11, <2>12 DEF IsPrefix
<1> QED BY <1>3, <1>4

(* The reachable states satisfy the stream invariant. *)
LEMMA StreamInvariance == Spec => []StreamInv
  BY InitStreamInv, StreamStep, PTL DEF Spec

(* For files of any length, any tag, chunk and piece sizes: a stream needs *)
(* memory for one tag and one piece (decrypt_stream_iter, _IteratorIO).    *)
THEOREM StreamTypes == Spec => []TypeOK
<1>1. StreamInv => TypeOK BY DEF StreamInv, Streams
<1> QED BY <1>1, StreamInvariance, PTL

(* For all of them, and whatever was done to the object, a download that   *)
(* passes the tag check has delivered the uploaded file.                   *)
THEOREM VerifiedIsOriginal == Spec => []OnlyTheOriginal
<1>1. StreamInv => OnlyTheOriginal BY DEF StreamInv
<1> QED BY <1>1, StreamInvariance, PTL

(* For all of them, the sliding window never refuses an object that nobody *)
(* has changed, and never lets a byte of its tag through as a byte of the  *)
(* file, in whatever pieces MinIO sends it.                                *)
THEOREM UntouchedIsServed == Spec => []UntouchedPasses
  BY WholeIsPrefix, StreamInvariance, PTL

=============================================================================
