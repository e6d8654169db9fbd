--------------------------- MODULE UploadPageProofs ---------------------------
(***************************************************************************)
(* Proofs about UploadPage, for any files, names, chunk size, number of    *)
(* retries and of requests in flight.  The two properties speak of whole   *)
(* files; the invariant says of every single staged byte which listed file *)
(* it comes from and that it lies at its own place.                        *)
(***************************************************************************)
EXTENDS UploadPage, WellFoundedInduction, TLAPS

USE DEF name, Size

Clients == [at : {"idle", "head", "patch", "sent"}, offset : Nat, before : Nat,
            tries : Nat, request : Requests \cup {NoRequest}]

Patches == [at : {"idle", "sent", "loaded", "over", "full"}, file : Files \cup {NoFile},
            offset : Nat, length : Nat]

Contents == Seq(Files \X Nat)

Outcomes == {"pending", "uploading", "done", "failed"}

TypeOK ==
    /\ disk \in Disks
    /\ page \in {"creating", "uploading", "success", "failed"}
    /\ list \in Seq(Files) /\ at \in 0..Len(list)
    /\ fileStatus \in [Files -> Outcomes]
    /\ client \in Clients
    /\ req \in [Requests -> Patches]
    /\ staged \in [Rows -> Contents] /\ stored \in [Rows -> Contents]
    /\ queue \in Nat /\ lost \in {"nothing", "job", "staging"}
    /\ status \in {"uploading", "ready", "infected", "closed"}

(* Nothing has happened yet while the transfer is being created. *)
Untouched ==
    page = "creating" =>
        /\ at = 0 /\ client.at = "idle" /\ queue = 0 /\ status # "ready"
        /\ \A q \in Requests : req[q].at = "idle"
        /\ \A s \in Rows : staged[s] = <<>>
        /\ \A f \in Files : fileStatus[f] = "pending"

(* The client works on the file of the loop's index. *)
ClientOK ==
    client.at # "idle" =>
        /\ page = "uploading"
        /\ at \in 1..Len(list) /\ HasUrl(Current)
        /\ client.at = "patch" => client.offset <= Size[Current]
        /\ client.at = "sent" =>
              /\ client.request \in Requests
              /\ req[client.request].at # "idle"
              /\ req[client.request].file = Current

(* Staging has not been shredded yet. *)
Kept == status = "uploading" /\ lost # "staging"

(* What is lost stays lost. *)
LostGrows == /\ lost' \in {"nothing", "job", "staging"}
             /\ lost = "staging" => lost' = "staging"

(* A request carries bytes of a listed file; the file it has filled stays  *)
(* full until staging is shredded.                                         *)
RequestOK(q) ==
    req[q].at # "idle" =>
        LET s == Url(req[q].file)
            end == req[q].offset + req[q].length
        IN  /\ req[q].file \in Listed /\ HasUrl(req[q].file)
            /\ end <= Size[req[q].file]
            /\ req[q].at = "full" =>
                  end = Size[s] /\ (Kept => Len(staged[s]) >= Size[s])

RequestsOK == \A q \in Requests : RequestOK(q)

(* Every byte lies at its place and comes from a listed file of that URL   *)
(* that reaches so far.                                                    *)
Sources(s) == {f \in Listed : HasUrl(f) /\ Url(f) = s}

InPlace(bytes, F) ==
    \A i \in 1..Len(bytes) : \E f \in F : bytes[i] = <<f, i>> /\ i <= Size[f]

FromListed(s, bytes) == InPlace(bytes, Sources(s))

StagedOK == \A s \in Rows : FromListed(s, staged[s])

StoredOK == status = "ready" =>
                \A s \in Rows : /\ Len(stored[s]) = Size[s] /\ Len(stored[s]) > 0
                               /\ FromListed(s, stored[s])

Arrived(f) == Len(staged[Url(f)]) >= Size[Url(f)] \/ Len(staged[Url(f)]) >= Size[f]

DoneOK == \A f \in Files : fileStatus[f] = "done" => HasUrl(f) /\ (Kept => Arrived(f))

ShredOK == shredding => ~Kept

IInv == /\ TypeOK /\ Untouched /\ ClientOK /\ RequestsOK
        /\ StagedOK /\ StoredOK /\ DoneOK /\ ShredOK

-----------------------------------------------------------------------------
(* Names and URLs *)

LEMMA Smallest ==
    ASSUME NEW T, T \subseteq Nat, T # {}
    PROVE  \E x \in T : \A y \in T : x <= y
<1>1. \E R : IsWellFoundedOn(R, Nat) /\ \A x, y \in Nat : y < x => <<y, x>> \in R
  <2>1. \A x, y \in Nat : y < x => <<y, x>> \in OpToRel(<, Nat)
    BY DEF OpToRel
  <2>2. QED
    BY <2>1, NatLessThanWellFounded, Zenon
<1>2. PICK R : IsWellFoundedOn(R, Nat) /\ \A x, y \in Nat : y < x => <<y, x>> \in R
  BY <1>1
<1>3. PICK x \in T : \A y \in T : ~(<<y, x>> \in R)
  BY <1>2, WFMin, Zenon
<1>4. ASSUME NEW y \in T PROVE x <= y
  <2>1. x \in Nat /\ y \in Nat
    OBVIOUS
  <2>2. ~(y < x)
    BY <1>2, <1>3, <2>1, Zenon
  <2>3. QED
    BY <2>1, <2>2
<1>5. QED
  BY <1>4

LEMMA RowFacts ==
    /\ Chosen \in Seq(Files) /\ DOMAIN Chosen = 1..Len(Chosen) /\ Len(Chosen) \in Nat
    /\ Rows \subseteq Files
    /\ disk \in Disks => \A f \in Files : Size[f] \in Nat
BY FilesAssumption DEF Rows

(* The URL of a name is the row of a file of that name, the same for all   *)
(* files of the name.                                                      *)
LEMMA UrlFacts ==
    ASSUME NEW f, HasUrl(f)
    PROVE  /\ Url(f) \in Rows /\ name[Url(f)] = name[f]
           /\ \A g : name[g] = name[f] => HasUrl(g) /\ Url(g) = Url(f)
<1> DEFINE Same == {i \in DOMAIN Chosen : name[Chosen[i]] = name[f]}
           Ends == {Len(Chosen) - i : i \in Same}
<1>1. Ends \subseteq Nat /\ Ends # {}
  BY RowFacts DEF HasUrl
<1>2. PICK x \in Ends : \A y \in Ends : x <= y
  <2> HIDE DEF Ends
  <2>1. QED
    BY <1>1, Smallest
<1>3. PICK i \in Same : x = Len(Chosen) - i
  OBVIOUS
<1>4. \A j \in Same : Len(Chosen) - i <= Len(Chosen) - j
  BY <1>2, <1>3
<1>5. \A j \in Same : j <= i
  BY <1>4, RowFacts
<1>6. \E k \in DOMAIN Chosen :
          /\ name[Chosen[k]] = name[f]
          /\ \A j \in DOMAIN Chosen : name[Chosen[j]] = name[f] => j <= k
  BY <1>5
<1>7. \E k \in DOMAIN Chosen : Url(f) = Chosen[k] /\ name[Chosen[k]] = name[f]
  BY <1>6, Zenon DEF Url
<1>8. \A g : name[g] = name[f] => HasUrl(g) /\ Url(g) = Url(f)
  BY DEF HasUrl, Url
<1>9. QED
  BY <1>7, <1>8 DEF Rows

LEMMA UrlStable ==
    ASSUME disk' = disk
    PROVE  \A f : HasUrl(f)' = HasUrl(f) /\ Url(f)' = Url(f)
BY DEF HasUrl, Url

LEMMA ListFacts ==
    ASSUME TypeOK
    PROVE  /\ Listed \subseteq Files
           /\ at \in 1..Len(list) => Current \in Listed
BY DEF TypeOK, Listed, Current

-----------------------------------------------------------------------------
(* Bytes *)

LEMMA BytesFacts ==
    ASSUME NEW f \in Files, NEW from \in Nat, NEW n \in Nat
    PROVE  /\ Bytes(f, from, n) \in Contents /\ Len(Bytes(f, from, n)) = n
           /\ \A i \in 1..n : Bytes(f, from, n)[i] = <<f, from + i>>
<1>1. \A i \in 1..n : <<f, from + i>> \in Files \X Nat
  OBVIOUS
<1>2. QED
  BY <1>1 DEF Bytes, Contents

LEMMA ConcatFacts ==
    ASSUME NEW S, NEW a \in Seq(S), NEW b \in Seq(S)
    PROVE  /\ a \o b \in Seq(S) /\ Len(a \o b) = Len(a) + Len(b)
           /\ \A i \in 1..Len(a) : (a \o b)[i] = a[i]
           /\ \A i \in 1..Len(b) : (a \o b)[Len(a) + i] = b[i]
OBVIOUS

LEMMA ExtendFacts ==
    ASSUME NEW s, NEW old \in Contents, FromListed(s, old), NEW n \in Nat,
           NEW f \in Files, f \in Listed, HasUrl(f), Url(f) = s,
           Size[f] \in Nat, Len(old) + n <= Size[f]
    PROVE  /\ old \o Bytes(f, Len(old), n) \in Contents
           /\ Len(old \o Bytes(f, Len(old), n)) = Len(old) + n
           /\ FromListed(s, old \o Bytes(f, Len(old), n))
<1>1. PICK m \in Nat : m = Len(old)
  BY DEF Contents
<1>2. PICK new \in Contents : new = Bytes(f, m, n)
  BY BytesFacts
<1>3. Len(new) = n /\ \A i \in 1..n : new[i] = <<f, m + i>>
  BY <1>2, BytesFacts
<1>4. PICK all \in Contents : all = old \o new
  BY ConcatFacts DEF Contents
<1>5. /\ Len(all) = m + n
      /\ \A i \in 1..m : all[i] = old[i]
      /\ \A i \in 1..n : all[m + i] = new[i]
  <2>1. old \in Seq(Files \X Nat) /\ new \in Seq(Files \X Nat)
    BY DEF Contents
  <2>2. /\ Len(old \o new) = Len(old) + Len(new)
        /\ \A i \in 1..Len(old) : (old \o new)[i] = old[i]
        /\ \A i \in 1..Len(new) : (old \o new)[Len(old) + i] = new[i]
    BY <2>1, ConcatFacts
  <2>3. QED
    BY <1>1, <1>3, <1>4, <2>2
<1>6. ASSUME NEW i \in 1..Len(all)
      PROVE  \E g \in Sources(s) : all[i] = <<g, i>> /\ i <= Size[g]
  <2>1. CASE i <= m
    <3>1. i \in 1..m
      BY <1>5, <2>1
    <3>2. QED
      BY <1>1, <1>5, <3>1 DEF FromListed, InPlace
  <2>2. CASE ~(i <= m)
    <3>1. PICK j \in 1..n : i = m + j
      <4>1. i - m \in 1..n /\ i = m + (i - m)
        BY <1>5, <2>2
      <4>2. QED
        BY <4>1
    <3>2. all[i] = <<f, i>>
      BY <1>3, <1>5, <3>1
    <3>3. i <= Size[f]
      BY <1>1, <3>1
    <3>4. QED
      BY <3>2, <3>3 DEF Sources
  <2>3. QED
    BY <2>1, <2>2
<1>7. FromListed(s, all)
  BY <1>6 DEF FromListed, InPlace
<1>8. QED
  BY <1>1, <1>2, <1>4, <1>5, <1>7

(* What the append leaves in the file when the offset is the right one. *)
LEMMA AppendedFacts ==
    ASSUME IInv, NEW q \in Requests, req[q].at # "idle", OffsetMatches(q)
    PROVE  LET s == Url(req[q].file)
           IN  /\ s \in Rows /\ req[q].file \in Files
               /\ Appended(q) \in Contents
               /\ Len(Appended(q)) = req[q].offset + req[q].length
               /\ Len(Appended(q)) >= Len(staged[s])
               /\ FromListed(s, Appended(q))
<1>1. PICK f \in Files : f = req[q].file /\ f \in Listed /\ HasUrl(f)
  BY ListFacts DEF IInv, TypeOK, RequestsOK, RequestOK
<1>2. PICK n \in Nat : n = req[q].length /\ req[q].offset + n <= Size[f] /\ Size[f] \in Nat
  BY <1>1, RowFacts DEF IInv, TypeOK, Patches, RequestsOK, RequestOK
<1>3. PICK s \in Rows : s = Url(f)
  BY <1>1, UrlFacts
<1>4. PICK old \in Contents : old = staged[s] /\ FromListed(s, old)
  BY DEF IInv, TypeOK, StagedOK
<1>5. Len(old) = req[q].offset /\ Len(old) \in Nat
  BY <1>1, <1>3, <1>4 DEF OffsetMatches, CurrentOffset, Contents
<1>6. Appended(q) = old \o Bytes(f, Len(old), n)
  BY <1>1, <1>2, <1>3, <1>4, <1>5 DEF Appended
<1>7. /\ Appended(q) \in Contents /\ Len(Appended(q)) = Len(old) + n
      /\ FromListed(s, Appended(q))
  <2>1. /\ old \o Bytes(f, Len(old), n) \in Contents
        /\ Len(old \o Bytes(f, Len(old), n)) = Len(old) + n
        /\ FromListed(s, old \o Bytes(f, Len(old), n))
    BY <1>1, <1>2, <1>3, <1>4, <1>5, ExtendFacts
  <2>2. QED
    BY <1>6, <2>1
<1>8. QED
  BY <1>1, <1>2, <1>3, <1>4, <1>5, <1>7

(* Cutting a file back keeps its bytes. *)
LEMMA CutFacts ==
    ASSUME NEW s, NEW bytes \in Contents, FromListed(s, bytes),
           NEW n \in Nat, n <= Len(bytes)
    PROVE  /\ SubSeq(bytes, 1, n) \in Contents /\ Len(SubSeq(bytes, 1, n)) = n
           /\ FromListed(s, SubSeq(bytes, 1, n))
<1>1. /\ SubSeq(bytes, 1, n) \in Contents /\ Len(SubSeq(bytes, 1, n)) = n
      /\ \A i \in 1..n : SubSeq(bytes, 1, n)[i] = bytes[i]
  BY DEF Contents
<1>2. \A i \in 1..n : i \in 1..Len(bytes)
  BY DEF Contents
<1>3. QED
  BY <1>1, <1>2 DEF FromListed, InPlace

-----------------------------------------------------------------------------
(* What a failed request does to the client *)

LEMMA ErrorEffect ==
    ASSUME TypeOK, Current \in Files, NEW c \in Clients,
           EmitError(c) \/ Settle("failed")
    PROVE  /\ client' \in Clients /\ client'.at \in {"idle", "head"}
           /\ fileStatus' \in [Files -> Outcomes]
           /\ \A f \in Files : fileStatus'[f] = "done" => fileStatus[f] = "done"
<1>1. NoUpload \in Clients /\ NoUpload.at = "idle"
  BY DEF NoUpload, Clients
<1>2. CASE Settle("failed")
  BY <1>1, <1>2 DEF Settle, TypeOK, Outcomes
<1>3. CASE EmitError(c) /\ ~Settle("failed")
  <2>1. Attempts(c) + 1 \in Nat /\ c.offset \in Nat
    BY DEF Attempts, Clients
  <2>2. /\ client' = [at |-> "head", offset |-> c.offset, before |-> c.offset,
                      tries |-> Attempts(c) + 1, request |-> NoRequest]
        /\ fileStatus' = fileStatus
    BY <1>3 DEF EmitError
  <2>3. client' \in Clients /\ client'.at = "head"
    BY <2>1, <2>2 DEF Clients
  <2>4. QED
    BY <2>2, <2>3 DEF TypeOK
<1>4. QED
  BY <1>2, <1>3

-----------------------------------------------------------------------------
(* The steps *)

LEMMA SourcesGrow ==
    ASSUME disk' = disk, Listed \subseteq Listed'
    PROVE  \A s : Sources(s) \subseteq Sources(s)'
BY UrlStable DEF Sources

LEMMA InPlaceGrow ==
    ASSUME NEW bytes, NEW F, NEW G, F \subseteq G, InPlace(bytes, F)
    PROVE  InPlace(bytes, G)
BY DEF InPlace

(* The list may grow; nothing happens to the bytes. *)
LEMMA BytesKept ==
    ASSUME IInv, disk' = disk, Listed \subseteq Listed', UNCHANGED <<staged, stored>>,
           status' = status \/ status' # "ready"
    PROVE  StagedOK' /\ StoredOK'
<1>1. \A s \in Rows : /\ FromListed(s, staged[s]) => InPlace(staged[s], Sources(s)')
                      /\ FromListed(s, stored[s]) => InPlace(stored[s], Sources(s)')
  BY SourcesGrow, InPlaceGrow DEF FromListed
<1>2. QED
  BY <1>1 DEF IInv, StagedOK, StoredOK, FromListed, InPlace

(* Steps that leave the page and the bytes alone and cost the client at    *)
(* most an attempt or the file.                                            *)
LEMMA QuietStep ==
    ASSUME IInv,
           UNCHANGED <<disk, page, list, at, staged, queue, status, shredding, stored>>,
           LostGrows, req' \in [Requests -> Patches],
           \A q \in Requests : req'[q].at # "idle" =>
               /\ req[q].at # "idle" /\ req'[q].at \in {req[q].at, "loaded"}
               /\ req'[q].file = req[q].file /\ req'[q].offset = req[q].offset
               /\ req'[q].length = req[q].length,
           client' \in Clients, fileStatus' \in [Files -> Outcomes],
           \A f \in Files : fileStatus'[f] = "done" => fileStatus[f] = "done",
           \/ client.at # "idle" /\ client'.at \in {"idle", "head"}
           \/ /\ client' = client /\ fileStatus' = fileStatus
              /\ client.at = "sent" => req'[client.request].at # "idle"
    PROVE  IInv'
<1>1. TypeOK'
  BY DEF IInv, TypeOK, LostGrows
<1>2. Untouched'
  BY DEF IInv, Untouched, ClientOK
<1>3. ClientOK'
  BY UrlStable DEF IInv, ClientOK, Current
<1>4. Kept' => Kept
  BY DEF Kept, LostGrows
<1>5. RequestsOK'
  BY <1>4, UrlStable DEF IInv, RequestsOK, RequestOK, Listed, Kept
<1>6. StagedOK' /\ StoredOK'
  BY BytesKept DEF Listed
<1>8. DoneOK' /\ ShredOK'
  BY <1>4, UrlStable DEF IInv, DoneOK, ShredOK, Arrived
<1>7. QED
  BY <1>1, <1>2, <1>3, <1>5, <1>6, <1>8 DEF IInv

LEMMA CurrentFacts ==
    ASSUME IInv, client.at # "idle"
    PROVE  /\ Current \in Files /\ Current \in Listed /\ HasUrl(Current)
           /\ Url(Current) \in Rows
BY ListFacts, UrlFacts DEF IInv, ClientOK

LEMMA IdleFacts == Idle \in Patches /\ Idle.at = "idle"
BY DEF Idle, Patches

LEMMA CreateOK == ASSUME IInv, CreateAnswered \/ CreateFails PROVE IInv'
<1>1. /\ page = "creating" /\ page' \in {"uploading", "failed"}
      /\ UNCHANGED <<disk, list, at, clientVars, serverVars, workerVars>>
  BY DEF CreateAnswered, CreateFails
<1> USE DEF clientVars, serverVars, workerVars
<1>2. TypeOK' /\ Untouched' /\ DoneOK' /\ ShredOK'
  BY <1>1, UrlStable DEF IInv, TypeOK, Untouched, DoneOK, ShredOK, Arrived, Kept
<1>3. ClientOK' /\ RequestsOK'
  BY <1>1, UrlStable DEF IInv, Untouched, ClientOK, RequestsOK, RequestOK, Kept
<1>4. StagedOK' /\ StoredOK'
  BY <1>1, BytesKept DEF Listed
<1>5. QED
  BY <1>2, <1>3, <1>4 DEF IInv

LEMMA RemoveFileOK ==
    ASSUME IInv, NEW i \in DOMAIN list, RemoveFile(i)
    PROVE  IInv'
<1>1. /\ page = "creating" /\ list' = SubSeq(list, 1, i - 1) \o SubSeq(list, i + 1, Len(list))
      /\ UNCHANGED <<disk, page, at, clientVars, serverVars, workerVars>>
  BY DEF RemoveFile
<1> USE DEF clientVars, serverVars, workerVars
<1>2. list' \in Seq(Files) /\ Len(list') \in Nat
  <2>1. list \in Seq(Files) /\ i \in 1..Len(list)
    BY DEF IInv, TypeOK
  <2>2. SubSeq(list, 1, i - 1) \in Seq(Files) /\ SubSeq(list, i + 1, Len(list)) \in Seq(Files)
    BY <2>1
  <2>3. QED
    BY <1>1, <2>2
<1>3. TypeOK' /\ Untouched' /\ DoneOK' /\ ShredOK'
  BY <1>1, <1>2, UrlStable DEF IInv, TypeOK, Untouched, DoneOK, ShredOK, Arrived, Kept
<1>4. ClientOK' /\ RequestsOK'
  BY <1>1 DEF IInv, Untouched, ClientOK, RequestsOK, RequestOK, Kept
<1>5. StagedOK'
  BY <1>1 DEF IInv, Untouched, StagedOK, FromListed, InPlace
<1>6. StoredOK'
  BY <1>1 DEF IInv, Untouched, StoredOK
<1>7. QED
  BY <1>3, <1>4, <1>5, <1>6 DEF IInv

LEMMA AddFileOK ==
    ASSUME IInv, NEW f \in Files, AddFile(f)
    PROVE  IInv'
<1>1. /\ list' = Append(list, f)
      /\ UNCHANGED <<disk, page, at, clientVars, serverVars, workerVars>>
  BY DEF AddFile
<1> USE DEF clientVars, serverVars, workerVars
<1>2. /\ list' \in Seq(Files) /\ Len(list') = Len(list) + 1 /\ Len(list) \in Nat
      /\ \A i \in 1..Len(list) : list'[i] = list[i]
  BY <1>1 DEF IInv, TypeOK
<1>3. Listed \subseteq Listed'
  BY <1>2 DEF Listed, IInv, TypeOK
<1>4. TypeOK' /\ Untouched' /\ DoneOK' /\ ShredOK'
  <2>1. TypeOK'
    BY <1>1, <1>2 DEF IInv, TypeOK
  <2>2. Untouched' /\ ShredOK'
    BY <1>1 DEF IInv, Untouched, ShredOK, Kept
  <2>3. DoneOK'
    BY <1>1, UrlStable DEF IInv, DoneOK, Arrived, Kept
  <2>4. QED
    BY <2>1, <2>2, <2>3
<1>5. ClientOK'
  BY <1>1, <1>2, UrlStable DEF IInv, ClientOK, Current
<1>6. RequestsOK'
  BY <1>1, <1>3, UrlStable DEF IInv, RequestsOK, RequestOK, Kept
<1>7. StagedOK' /\ StoredOK'
  BY <1>1, <1>3, BytesKept
<1>8. QED
  BY <1>4, <1>5, <1>6, <1>7 DEF IInv

LEMMA NextFileOK == ASSUME IInv, NextFile PROVE IInv'
<1>1. /\ page = "uploading" /\ client.at = "idle" /\ at < Len(list) /\ at' = at + 1
      /\ UNCHANGED <<disk, page, list, serverVars, workerVars>>
  BY DEF NextFile
<1>2. /\ at' \in 1..Len(list) /\ list[at'] \in Files
  BY <1>1 DEF IInv, TypeOK
<1>3. \/ /\ HasUrl(list[at']) /\ client' = [NoUpload EXCEPT !.at = "head"]
         /\ fileStatus' = [fileStatus EXCEPT ![list[at']] = "uploading"]
      \/ client' = client /\ fileStatus' = [fileStatus EXCEPT ![list[at']] = "failed"]
  BY <1>1 DEF NextFile
<1>4. /\ fileStatus' \in [Files -> Outcomes]
      /\ \A f \in Files : fileStatus'[f] = "done" => fileStatus[f] = "done"
  BY <1>2, <1>3 DEF IInv, TypeOK, Outcomes
<1>5. client' \in Clients
  BY <1>3 DEF IInv, TypeOK, Clients, NoUpload
<1> USE DEF serverVars, workerVars
<1>6. TypeOK' /\ Untouched' /\ DoneOK' /\ ShredOK'
  BY <1>1, <1>2, <1>4, <1>5, UrlStable DEF IInv, TypeOK, Untouched, DoneOK, ShredOK, Arrived, Kept
<1>7. ClientOK'
  BY <1>1, <1>2, <1>3, UrlStable DEF ClientOK, Current, NoUpload
<1>8. RequestsOK'
  BY <1>1, UrlStable DEF IInv, RequestsOK, RequestOK, Listed, Kept
<1>9. StagedOK' /\ StoredOK'
  BY <1>1, BytesKept DEF Listed
<1>10. QED
  BY <1>6, <1>7, <1>8, <1>9 DEF IInv

LEMMA EndOfListOK == ASSUME IInv, EndOfList PROVE IInv'
<1>1. /\ client.at = "idle" /\ page' \in {"success", "failed"}
      /\ UNCHANGED <<disk, list, at, clientVars, serverVars, workerVars>>
  BY DEF EndOfList
<1> USE DEF clientVars, serverVars, workerVars
<1>2. TypeOK' /\ Untouched' /\ DoneOK' /\ ShredOK' /\ ClientOK'
  BY <1>1, UrlStable DEF IInv, TypeOK, Untouched, DoneOK, ShredOK, Arrived, Kept, ClientOK
<1>3. RequestsOK'
  BY <1>1, UrlStable DEF IInv, RequestsOK, RequestOK, Listed, Kept
<1>4. StagedOK' /\ StoredOK'
  BY <1>1, BytesKept DEF Listed
<1>5. QED
  BY <1>2, <1>3, <1>4 DEF IInv

(* An error the client hears of, with the requests as they are. *)
LEMMA ErrorStep ==
    ASSUME IInv, client.at # "idle", NEW c \in Clients, EmitError(c),
           UNCHANGED <<disk, page, list, at, staged, queue, lost, status, shredding, stored,
                       req>>
    PROVE  IInv'
<1>1. /\ client' \in Clients /\ client'.at \in {"idle", "head"}
      /\ fileStatus' \in [Files -> Outcomes]
      /\ \A f \in Files : fileStatus'[f] = "done" => fileStatus[f] = "done"
  BY CurrentFacts, ErrorEffect DEF IInv
<1>2. req' \in [Requests -> Patches] /\ LostGrows
  BY DEF IInv, TypeOK, LostGrows
<1>3. QED
  BY <1>1, <1>2, QuietStep

LEMMA HeadAnswersOK == ASSUME IInv, HeadAnswers PROVE IInv'
<1> DEFINE s == Url(Current)
           offset == CurrentOffset(s)
<1>1. /\ client.at = "head" /\ UNCHANGED <<disk, pageVars, serverVars, workerVars>>
      /\ \/ offset = Size[s] /\ Settle("done")
         \/ EmitError([client EXCEPT !.offset = offset])
         \/ /\ offset <= Size[Current] /\ fileStatus' = fileStatus
            /\ client' = [client EXCEPT !.at = "patch", !.offset = offset]
  <2>1. offset \in Nat /\ Size[Current] \in Nat
    BY CurrentFacts, RowFacts DEF HeadAnswers, IInv, TypeOK, Contents, CurrentOffset
  <2>2. QED
    BY <2>1 DEF HeadAnswers
<1> USE DEF pageVars, serverVars, workerVars
<1>2. Current \in Files /\ HasUrl(Current) /\ s \in Rows /\ offset \in Nat
  BY <1>1, CurrentFacts DEF IInv, TypeOK, Contents, CurrentOffset
<1>3. CASE EmitError([client EXCEPT !.offset = offset])
  <2>1. [client EXCEPT !.offset = offset] \in Clients
    BY <1>2 DEF IInv, TypeOK, Clients
  <2>2. QED
    BY <1>1, <1>3, <2>1, ErrorStep
<1>4. ASSUME client' \in Clients, fileStatus' \in [Files -> Outcomes],
             client'.at = "idle" \/ (client'.at = "patch" /\ client'.offset <= Size[Current]),
             \A f \in Files : fileStatus'[f] = "done" =>
                 fileStatus[f] = "done" \/ (f = Current /\ Len(staged[s]) = Size[s])
      PROVE  IInv'
  <2>1. TypeOK' /\ Untouched' /\ ShredOK' /\ DoneOK'
    BY <1>1, <1>2, <1>4, UrlStable
       DEF IInv, TypeOK, Untouched, ClientOK, ShredOK, DoneOK, Arrived, Kept
  <2>2. ClientOK'
    BY <1>1, <1>2, <1>4, UrlStable DEF IInv, ClientOK, Current
  <2>3. RequestsOK'
    BY <1>1, UrlStable DEF IInv, RequestsOK, RequestOK, Listed, Kept
  <2>4. StagedOK' /\ StoredOK'
    BY <1>1, BytesKept DEF Listed
  <2>5. QED
    BY <2>1, <2>2, <2>3, <2>4 DEF IInv
<1>5. CASE offset = Size[s] /\ Settle("done")
  <2>1. client' \in Clients /\ client'.at = "idle"
    BY <1>5 DEF Settle, NoUpload, Clients
  <2>2. fileStatus' = [fileStatus EXCEPT ![Current] = "done"]
    BY <1>5 DEF Settle
  <2>3. QED
    BY <1>2, <1>4, <1>5, <2>1, <2>2 DEF IInv, TypeOK, Outcomes, CurrentOffset
<1>6. CASE /\ offset <= Size[Current] /\ fileStatus' = fileStatus
           /\ client' = [client EXCEPT !.at = "patch", !.offset = offset]
  <2>1. client' \in Clients /\ client'.at = "patch" /\ client'.offset = offset
    BY <1>2, <1>6 DEF IInv, TypeOK, Clients
  <2>2. QED
    BY <1>4, <1>6, <2>1 DEF IInv, TypeOK
<1>7. QED
  BY <1>1, <1>3, <1>5, <1>6

LEMMA HeadBreaksOK == ASSUME IInv, HeadBreaks PROVE IInv'
BY ErrorStep DEF HeadBreaks, pageVars, serverVars, workerVars, IInv, TypeOK

LEMMA PatchSendsOK ==
    ASSUME IInv, NEW q \in Requests, PatchSends(q)
    PROVE  IInv'
<1> DEFINE rest == Size[Current] - client.offset
           length == IF rest < Chunk THEN rest ELSE Chunk
           new == [at |-> "sent", file |-> Current, offset |-> client.offset,
                   length |-> length]
<1>1. /\ client.at = "patch" /\ req[q].at = "idle"
      /\ req' = [req EXCEPT ![q] = new]
      /\ client' = [client EXCEPT !.at = "sent", !.request = q]
      /\ UNCHANGED <<disk, pageVars, fileStatus, staged, queue, lost, workerVars>>
  BY DEF PatchSends
<1> USE DEF pageVars, workerVars
<1>2. /\ Current \in Files /\ Current \in Listed /\ HasUrl(Current)
      /\ client.offset \in Nat /\ client.offset <= Size[Current] /\ Size[Current] \in Nat
  BY <1>1, CurrentFacts, RowFacts DEF IInv, TypeOK, Clients, ClientOK
<1>3. length \in Nat /\ client.offset + length <= Size[Current]
  BY <1>2, BoundsAssumption
<1> HIDE DEF length
<1>4. new \in Patches
  BY <1>2, <1>3 DEF Patches
<1>5. client' \in Clients
  BY <1>1 DEF IInv, TypeOK, Clients
<1>6. TypeOK' /\ Untouched' /\ DoneOK' /\ ShredOK'
  BY <1>1, <1>4, <1>5, UrlStable
     DEF IInv, TypeOK, Untouched, ClientOK, DoneOK, ShredOK, Arrived, Kept
<1>7. ClientOK'
  <2>1. client'.at = "sent" /\ client'.request = q
    BY <1>1 DEF IInv, TypeOK, Clients
  <2>2. req'[q] = new
    BY <1>1 DEF IInv, TypeOK
  <2>3. QED
    BY <1>1, <2>1, <2>2, UrlStable DEF IInv, ClientOK, Current
<1>8. RequestsOK'
  <2>1. ASSUME NEW p \in Requests PROVE RequestOK(p)'
    <3>1. CASE p = q
      <4>1. req'[p] = new
        BY <1>1, <3>1 DEF IInv, TypeOK
      <4>2. QED
        BY <1>1, <1>2, <1>3, <4>1, UrlStable DEF RequestOK, Listed
    <3>2. CASE p # q
      <4>1. req'[p] = req[p]
        BY <1>1, <3>2 DEF IInv, TypeOK
      <4>2. QED
        BY <1>1, <4>1, UrlStable DEF IInv, RequestsOK, RequestOK, Listed, Kept
    <3>3. QED
      BY <3>1, <3>2
  <2>2. QED
    BY <2>1 DEF RequestsOK
<1>9. StagedOK' /\ StoredOK'
  BY <1>1, BytesKept DEF Listed
<1>10. QED
  BY <1>6, <1>7, <1>8, <1>9 DEF IInv

LEMMA BreakOK == ASSUME IInv, Break PROVE IInv'
<1>1. /\ client.at = "sent" /\ EmitError(client)
      /\ req' = req \/ req' = [req EXCEPT ![client.request] = Idle]
      /\ UNCHANGED <<disk, pageVars, staged, queue, lost, workerVars>>
  BY DEF Break
<1>2. /\ client' \in Clients /\ client'.at \in {"idle", "head"}
      /\ fileStatus' \in [Files -> Outcomes]
      /\ \A f \in Files : fileStatus'[f] = "done" => fileStatus[f] = "done"
  BY <1>1, CurrentFacts, ErrorEffect DEF IInv, TypeOK
<1>3. /\ req' \in [Requests -> Patches] /\ LostGrows
      /\ \A q \in Requests : req'[q] = req[q] \/ req'[q].at = "idle"
  BY <1>1, IdleFacts DEF IInv, TypeOK, LostGrows
<1>4. QED
  BY <1>1, <1>2, <1>3, QuietStep DEF pageVars, workerVars

(* The request of q ends with an error. *)
LEMMA RefusedOK ==
    ASSUME IInv, NEW q \in Requests, req[q].at # "idle", Finish(q), AnswerError(q), LostGrows,
           UNCHANGED <<disk, page, list, at, staged, queue, status, shredding, stored>>
    PROVE  IInv'
<1>1. /\ req' \in [Requests -> Patches] /\ req'[q].at = "idle"
      /\ \A p \in Requests : p # q => req'[p] = req[p]
  BY IdleFacts DEF Finish, IInv, TypeOK
<1>2. CASE Waiting(q)
  <2>1. client.at = "sent" /\ EmitError(client)
    BY <1>2 DEF AnswerError, Waiting
  <2>2. /\ client' \in Clients /\ client'.at \in {"idle", "head"}
        /\ fileStatus' \in [Files -> Outcomes]
        /\ \A f \in Files : fileStatus'[f] = "done" => fileStatus[f] = "done"
    BY <2>1, CurrentFacts, ErrorEffect DEF IInv, TypeOK
  <2>3. QED
    BY <1>1, <2>1, <2>2, QuietStep
<1>3. CASE ~Waiting(q)
  <2>1. client' = client /\ fileStatus' = fileStatus
    BY <1>3 DEF AnswerError, clientVars
  <2>2. client.at = "sent" => client.request \in Requests /\ req'[client.request].at # "idle"
    BY <1>1, <1>3 DEF Waiting, IInv, ClientOK
  <2>3. client' \in Clients /\ fileStatus' \in [Files -> Outcomes]
    BY <2>1 DEF IInv, TypeOK
  <2>4. QED
    BY <1>1, <2>1, <2>2, <2>3, QuietStep
<1>4. QED
  BY <1>2, <1>3

LEMMA LoadOK == ASSUME IInv, NEW q \in Requests, Load(q) PROVE IInv'
<1> USE DEF pageVars, workerVars
<1>0. lost' = lost /\ LostGrows
  BY DEF Load, LostGrows, IInv, TypeOK
<1>1. CASE status # "uploading"
  BY <1>0, <1>1, RefusedOK DEF Load
<1>2. CASE status = "uploading"
  <2>1. /\ req[q].at = "sent" /\ req' = [req EXCEPT ![q].at = "loaded"]
        /\ client' = client /\ fileStatus' = fileStatus
        /\ UNCHANGED <<disk, page, list, at, staged, queue, status, shredding, stored>>
    BY <1>2 DEF Load, clientVars
  <2>2. req[q] \in Patches
    BY DEF IInv, TypeOK
  <2>3. [req[q] EXCEPT !.at = "loaded"] \in Patches
    BY <2>2 DEF Patches
  <2>4. /\ req' \in [Requests -> Patches] /\ req'[q] = [req[q] EXCEPT !.at = "loaded"]
        /\ \A p \in Requests : p # q => req'[p] = req[p]
    BY <2>1, <2>3 DEF IInv, TypeOK
  <2>5. /\ req'[q].at = "loaded" /\ req'[q].file = req[q].file
        /\ req'[q].offset = req[q].offset /\ req'[q].length = req[q].length
    BY <2>2, <2>4 DEF Patches
  <2>6. client.at = "sent" => req'[client.request].at # "idle"
    BY <2>4, <2>5 DEF IInv, ClientOK
  <2>7. client' \in Clients /\ fileStatus' \in [Files -> Outcomes]
    BY <2>1 DEF IInv, TypeOK
  <2>8. \A p \in Requests : req'[p].at # "idle" =>
               /\ req[p].at # "idle" /\ req'[p].at \in {req[p].at, "loaded"}
               /\ req'[p].file = req[p].file /\ req'[p].offset = req[p].offset
               /\ req'[p].length = req[p].length
    BY <2>1, <2>4, <2>5
  <2>9. QED
    BY <1>0, <2>1, <2>4, <2>6, <2>7, <2>8, QuietStep
<1>3. QED
  BY <1>1, <1>2

LEMMA OffsetConflictOK == ASSUME IInv, NEW q \in Requests, OffsetConflict(q) PROVE IInv'
<1>1. LostGrows
  BY DEF OffsetConflict, LostGrows, IInv, TypeOK
<1>2. QED
  BY <1>1, RefusedOK DEF OffsetConflict, pageVars, workerVars

LEMMA FailsOK == ASSUME IInv, NEW q \in Requests, Fails(q) PROVE IInv'
<1>1. LostGrows
  BY DEF Fails, JobLost, LostGrows, IInv, TypeOK
<1>2. QED
  BY <1>1, RefusedOK DEF Fails, pageVars, workerVars

(* A file grows in place, or is cut back to its declared size: what was    *)
(* full, arrived or done stays so.                                         *)
LEMMA GrowStep ==
    ASSUME IInv, NEW q \in Requests, req[q].at # "idle",
           UNCHANGED <<disk, page, list, at, queue, lost, status, shredding, stored>>,
           NEW s \in Rows, s = Url(req[q].file), NEW bytes \in Contents,
           staged' = [staged EXCEPT ![s] = bytes],
           Len(staged[s]) <= Len(bytes) \/ Size[s] <= Len(bytes), FromListed(s, bytes),
           req' \in [Requests -> Patches],
           \A p \in Requests : p # q => req'[p] = req[p],
           \/ req'[q].at = "idle"
           \/ /\ req'[q].file = req[q].file /\ req'[q].offset = req[q].offset
              /\ req'[q].length = req[q].length
              /\ \/ req'[q].at = "over"
                 \/ /\ req'[q].at = "full" /\ Len(bytes) = Size[s]
                    /\ req[q].offset + req[q].length = Size[s],
           client' \in Clients, fileStatus' \in [Files -> Outcomes],
           \A f \in Files : fileStatus'[f] = "done" =>
               fileStatus[f] = "done" \/ (f = req[q].file /\ Size[f] <= Len(bytes)),
           \/ client'.at = "idle"
           \/ /\ client.at = "sent" /\ client'.at = "patch"
              /\ client'.offset <= Size[Current]
           \/ /\ client' = client
              /\ client.at = "sent" => req'[client.request].at # "idle"
                                       /\ req'[client.request].file = req[client.request].file
    PROVE  IInv'
<1>1. /\ staged'[s] = bytes /\ staged' \in [Rows -> Contents]
      /\ \A t \in Rows : t # s => staged'[t] = staged[t]
  BY DEF IInv, TypeOK
<1>2. \A t \in Rows : Len(staged[t]) \in Nat /\ Len(staged'[t]) \in Nat /\ Size[t] \in Nat
  BY <1>1, RowFacts DEF IInv, TypeOK, Contents
<1>0. \A t \in Rows : Len(staged[t]) <= Len(staged'[t]) \/ Size[t] <= Len(staged'[t])
  BY <1>1, <1>2
<1>3. TypeOK'
  BY <1>1 DEF IInv, TypeOK
<1>4. page # "creating" /\ HasUrl(req[q].file)
  BY DEF IInv, Untouched, RequestsOK, RequestOK
<1>5. Untouched' /\ ShredOK'
  BY <1>4 DEF IInv, Untouched, ShredOK, Kept
<1>6. ClientOK'
  BY UrlStable DEF IInv, ClientOK, Current
<1>7. ASSUME NEW p \in Requests PROVE RequestOK(p)'
  <2>1. CASE p = q
    BY <1>1, <1>2, <2>1, UrlStable DEF IInv, RequestsOK, RequestOK, Listed, Kept
  <2>2. CASE p # q
    <3>1. req'[p] = req[p] /\ RequestOK(p)
      BY <2>2 DEF IInv, RequestsOK
    <3>2. CASE req[p].at = "idle"
      BY <3>1, <3>2 DEF RequestOK
    <3>3. CASE req[p].at # "idle"
      <4>1. HasUrl(req[p].file) /\ Url(req[p].file) \in Rows
        BY <3>1, <3>3, UrlFacts DEF RequestOK
      <4>2. Len(staged[Url(req[p].file)]) >= Size[Url(req[p].file)] =>
                Len(staged'[Url(req[p].file)]) >= Size[Url(req[p].file)]
        BY <1>0, <1>2, <4>1
      <4>3. QED
        BY <3>1, <4>2, UrlStable DEF RequestOK, Listed, Kept
    <3>4. QED
      BY <3>2, <3>3
  <2>3. QED
    BY <2>1, <2>2
<1>8. \A t : Sources(t)' = Sources(t)
  BY UrlStable DEF Sources, Listed
<1>9. StagedOK' /\ StoredOK'
  BY <1>1, <1>8 DEF IInv, StagedOK, StoredOK, FromListed, InPlace
<1>10. ASSUME NEW f \in Files, fileStatus'[f] = "done"
       PROVE  HasUrl(f) /\ (Kept => Arrived(f)')
  <2>1. CASE f = req[q].file /\ Size[f] <= Len(bytes)
    BY <1>1, <1>2, <1>4, <2>1, RowFacts, UrlStable DEF Arrived, IInv, TypeOK
  <2>2. CASE fileStatus[f] = "done"
    <3>1. HasUrl(f) /\ (Kept => Arrived(f)) /\ Url(f) \in Rows
      BY <2>2, UrlFacts DEF IInv, DoneOK
    <3>2. Arrived(f) => Arrived(f)'
      <4>1. Size[f] \in Nat /\ Size[Url(f)] \in Nat
        BY <1>2, <3>1, RowFacts DEF IInv, TypeOK
      <4>2. QED
        BY <1>0, <1>2, <3>1, <4>1, UrlStable DEF Arrived
    <3>3. QED
      BY <3>1, <3>2
  <2>3. QED
    BY <1>10, <2>1, <2>2
<1>11. DoneOK'
  BY <1>10, UrlStable DEF DoneOK, Kept
<1>12. QED
  BY <1>3, <1>5, <1>6, <1>7, <1>9, <1>11 DEF IInv, RequestsOK

LEMMA FailedEffect ==
    ASSUME IInv, client.at # "idle", Settle("failed")
    PROVE  /\ client' \in Clients /\ client'.at = "idle"
           /\ fileStatus' \in [Files -> Outcomes]
           /\ \A f \in Files : fileStatus'[f] = "done" => fileStatus[f] = "done"
<1>1. client' \in Clients /\ client'.at = "idle"
  BY DEF Settle, NoUpload, Clients
<1>2. QED
  BY <1>1, CurrentFacts DEF Settle, IInv, TypeOK, Outcomes

LEMMA TooLongOK == ASSUME IInv, NEW q \in Requests, TooLong(q) PROVE IInv'
<1>1. PICK s \in Rows : s = Url(req[q].file)
  BY ListFacts, UrlFacts DEF TooLong, IInv, RequestsOK, RequestOK
<1>2. /\ req[q].at = "over" /\ Len(staged[s]) > Size[s]
      /\ staged' = [staged EXCEPT ![s] = SubSeq(staged[s], 1, Size[s])]
      /\ Finish(q) /\ IF Waiting(q) THEN Settle("failed") ELSE UNCHANGED clientVars
      /\ UNCHANGED <<disk, page, list, at, queue, lost, status, shredding, stored>>
  BY <1>1 DEF TooLong, pageVars, workerVars
<1>3. Size[s] \in Nat /\ staged[s] \in Contents /\ FromListed(s, staged[s])
      /\ Len(staged[s]) \in Nat
  BY <1>1, RowFacts DEF IInv, TypeOK, StagedOK, Contents
<1>4. PICK bytes \in Contents : /\ bytes = SubSeq(staged[s], 1, Size[s])
                                /\ Len(bytes) = Size[s] /\ FromListed(s, bytes)
  <2>1. PICK n \in Nat : n = Size[s] /\ n <= Len(staged[s])
    BY <1>2, <1>3
  <2>2. PICK whole \in Contents : whole = staged[s]
    BY <1>3
  <2>3. /\ SubSeq(whole, 1, n) \in Contents /\ Len(SubSeq(whole, 1, n)) = n
        /\ FromListed(s, SubSeq(whole, 1, n))
    BY <1>3, <2>1, <2>2, CutFacts
  <2>4. QED
    BY <2>1, <2>2, <2>3
<1>5. Size[s] <= Len(bytes) /\ staged' = [staged EXCEPT ![s] = bytes]
  BY <1>2, <1>3, <1>4
<1>6. /\ req' \in [Requests -> Patches] /\ req'[q].at = "idle"
      /\ \A p \in Requests : p # q => req'[p] = req[p]
  BY <1>2, IdleFacts DEF Finish, IInv, TypeOK
<1>7. CASE Waiting(q)
  <2>1. /\ client' \in Clients /\ client'.at = "idle"
        /\ fileStatus' \in [Files -> Outcomes]
        /\ \A f \in Files : fileStatus'[f] = "done" => fileStatus[f] = "done"
    BY <1>2, <1>7, FailedEffect DEF Waiting
  <2>2. QED
    BY <1>1, <1>2, <1>4, <1>5, <1>6, <2>1, GrowStep
<1>8. CASE ~Waiting(q)
  <2>1. client' = client /\ fileStatus' = fileStatus
    BY <1>2, <1>8 DEF clientVars
  <2>2. client.at = "sent" => req'[client.request] = req[client.request]
                              /\ req[client.request].at # "idle"
    BY <1>6, <1>8 DEF Waiting, IInv, ClientOK
  <2>3. client' \in Clients /\ fileStatus' \in [Files -> Outcomes]
    BY <2>1 DEF IInv, TypeOK
  <2>4. QED
    BY <1>1, <1>2, <1>4, <1>5, <1>6, <2>1, <2>2, <2>3, GrowStep
<1>9. QED
  BY <1>7, <1>8

(* What a 204 with this offset does to the client. *)
LEMMA AnswerEffect ==
    ASSUME IInv, NEW q \in Requests, NEW offset \in Nat, Answer(q, offset), Waiting(q),
           offset <= Size[req[q].file]
    PROVE  /\ client' \in Clients /\ fileStatus' \in [Files -> Outcomes]
           /\ \A f \in Files : fileStatus'[f] = "done" =>
                  fileStatus[f] = "done" \/ (f = req[q].file /\ Size[f] = offset)
           /\ \/ client'.at = "idle"
              \/ client.at = "sent" /\ client'.at = "patch" /\ client'.offset <= Size[Current]
<1>1. client.at = "sent" /\ req[q].file = Current /\ Current \in Files
  BY CurrentFacts DEF Waiting, IInv, ClientOK
<1>2. CASE offset = Size[Current]
  <2>1. Settle("done")
    BY <1>2 DEF Answer
  <2>2. client' \in Clients /\ client'.at = "idle"
    BY <2>1 DEF Settle, NoUpload, Clients
  <2>3. QED
    BY <1>1, <1>2, <2>1, <2>2 DEF Settle, IInv, TypeOK, Outcomes
<1>3. CASE offset # Size[Current]
  <2>1. /\ client' = [client EXCEPT !.at = "patch", !.offset = offset, !.request = NoRequest]
        /\ fileStatus' = fileStatus
    BY <1>3 DEF Answer
  <2>2. client' \in Clients /\ client'.at = "patch" /\ client'.offset = offset
    BY <2>1 DEF IInv, TypeOK, Clients
  <2>3. QED
    BY <1>1, <2>1, <2>2 DEF IInv, TypeOK
<1>4. QED
  BY <1>2, <1>3

LEMMA AppendChunkOK == ASSUME IInv, NEW q \in Requests, AppendChunk(q) PROVE IInv'
<1>1. PICK s : s = Url(req[q].file)
  OBVIOUS
<1>2. PICK bytes : bytes = Appended(q)
  OBVIOUS
<1>3. /\ req[q].at = "loaded" /\ OffsetMatches(q)
      /\ staged' = [staged EXCEPT ![s] = bytes]
      /\ IF Len(bytes) < Size[s]
           THEN Finish(q) /\ Answer(q, Len(bytes))
           ELSE /\ req' = [req EXCEPT ![q].at = IF Len(bytes) = Size[s] THEN "full" ELSE "over"]
                /\ UNCHANGED clientVars
      /\ UNCHANGED <<disk, page, list, at, queue, lost, status, shredding, stored>>
  BY <1>1, <1>2 DEF AppendChunk, pageVars, workerVars
<1>4. /\ s \in Rows /\ bytes \in Contents /\ FromListed(s, bytes)
      /\ Size[s] \in Nat /\ Len(bytes) \in Nat /\ Len(staged[s]) <= Len(bytes)
      /\ Len(bytes) = req[q].offset + req[q].length
  BY <1>1, <1>2, <1>3, AppendedFacts, RowFacts DEF Contents, IInv, TypeOK
<1>5. req[q] \in Patches
  BY DEF IInv, TypeOK
<1>6. ASSUME req' \in [Requests -> Patches], client' = client, fileStatus' = fileStatus,
             \A p \in Requests : p # q => req'[p] = req[p],
             client.at = "sent" => req'[client.request].at # "idle"
                                   /\ req'[client.request].file = req[client.request].file,
             \/ req'[q].at = "idle"
             \/ /\ req'[q].file = req[q].file /\ req'[q].offset = req[q].offset
                /\ req'[q].length = req[q].length
                /\ \/ req'[q].at = "over"
                   \/ /\ req'[q].at = "full" /\ Len(bytes) = Size[s]
                      /\ req[q].offset + req[q].length = Size[s]
      PROVE  IInv'
  <2>1. client' \in Clients /\ fileStatus' \in [Files -> Outcomes]
    BY <1>6 DEF IInv, TypeOK
  <2>2. QED
    BY <1>1, <1>3, <1>4, <1>6, <2>1, GrowStep
<1>7. CASE ~(Len(bytes) < Size[s])
  <2>1. PICK step \in {"full", "over"} :
            /\ step = "full" => Len(bytes) = Size[s]
            /\ req' = [req EXCEPT ![q].at = step]
            /\ client' = client /\ fileStatus' = fileStatus
    BY <1>3, <1>7 DEF clientVars
  <2>2. [req[q] EXCEPT !.at = step] \in Patches
    BY <1>5, <2>1 DEF Patches
  <2>3. /\ req' \in [Requests -> Patches] /\ req'[q] = [req[q] EXCEPT !.at = step]
        /\ \A p \in Requests : p # q => req'[p] = req[p]
    BY <2>1, <2>2 DEF IInv, TypeOK
  <2>4. /\ req'[q].at = step /\ req'[q].file = req[q].file
        /\ req'[q].offset = req[q].offset /\ req'[q].length = req[q].length
    BY <1>5, <2>3 DEF Patches
  <2>5. client.at = "sent" => req'[client.request].at # "idle"
                              /\ req'[client.request].file = req[client.request].file
    BY <2>1, <2>3, <2>4 DEF IInv, ClientOK
  <2>6. QED
    BY <1>4, <1>6, <2>1, <2>3, <2>4, <2>5
<1>8. CASE Len(bytes) < Size[s]
  <2>1. Finish(q) /\ Answer(q, Len(bytes))
    BY <1>3, <1>8
  <2>2. /\ req' \in [Requests -> Patches] /\ req'[q].at = "idle"
        /\ \A p \in Requests : p # q => req'[p] = req[p]
    BY <2>1, IdleFacts DEF Finish, IInv, TypeOK
  <2>3. CASE Waiting(q)
    <3>1. Len(bytes) <= Size[req[q].file]
      BY <1>3, <1>4 DEF IInv, RequestsOK, RequestOK
    <3>2. /\ client' \in Clients /\ fileStatus' \in [Files -> Outcomes]
          /\ \A f \in Files : fileStatus'[f] = "done" =>
                 fileStatus[f] = "done" \/ (f = req[q].file /\ Size[f] = Len(bytes))
          /\ \/ client'.at = "idle"
             \/ client.at = "sent" /\ client'.at = "patch"
                /\ client'.offset <= Size[Current]
      BY <1>4, <2>1, <2>3, <3>1, AnswerEffect
    <3>3. \A f \in Files : fileStatus'[f] = "done" =>
              fileStatus[f] = "done" \/ (f = req[q].file /\ Size[f] <= Len(bytes))
      BY <1>4, <3>2
    <3>4. QED
      BY <1>1, <1>3, <1>4, <2>2, <3>2, <3>3, GrowStep
  <2>4. CASE ~Waiting(q)
    <3>1. client' = client /\ fileStatus' = fileStatus
      BY <2>1, <2>4 DEF Answer, clientVars
    <3>2. client.at = "sent" => req'[client.request] = req[client.request]
                                /\ req[client.request].at # "idle"
      BY <2>2, <2>4 DEF Waiting, IInv, ClientOK
    <3>3. QED
      BY <1>6, <2>2, <3>1, <3>2
  <2>5. QED
    BY <2>3, <2>4
<1>9. QED
  BY <1>7, <1>8

LEMMA CompleteOK == ASSUME IInv, NEW q \in Requests, Complete(q) PROVE IInv'
<1>1. PICK s \in Rows : s = Url(req[q].file) /\ HasUrl(req[q].file) /\ req[q].file \in Files
  BY ListFacts, UrlFacts DEF Complete, IInv, RequestsOK, RequestOK
<1>2. /\ req[q].at = "full" /\ Finish(q) /\ Answer(q, Size[s]) /\ queue' \in {queue, queue + 1}
      /\ UNCHANGED <<disk, page, list, at, staged, lost, status, shredding, stored>>
  BY <1>1 DEF Complete, pageVars, workerVars
<1>3. /\ req' \in [Requests -> Patches] /\ req'[q].at = "idle"
      /\ \A p \in Requests : p # q => req'[p] = req[p]
  BY <1>2, IdleFacts DEF Finish, IInv, TypeOK
<1>4. /\ Size[s] \in Nat /\ Size[s] <= Size[req[q].file]
      /\ Kept => Len(staged[s]) >= Size[s]
  BY <1>1, <1>2, RowFacts DEF IInv, TypeOK, RequestsOK, RequestOK
<1>5. page # "creating"
  BY <1>2 DEF IInv, Untouched
<1>6. /\ client' \in Clients /\ fileStatus' \in [Files -> Outcomes]
      /\ \A f \in Files : fileStatus'[f] = "done" =>
             fileStatus[f] = "done" \/ (f = req[q].file /\ Size[f] = Size[s])
      /\ \/ client'.at = "idle"
         \/ client.at = "sent" /\ client'.at = "patch" /\ client'.offset <= Size[Current]
         \/ /\ client' = client
            /\ client.at = "sent" => req'[client.request].at # "idle"
                                     /\ req'[client.request].file = req[client.request].file
  <2>1. CASE Waiting(q)
    BY <1>2, <1>4, <2>1, AnswerEffect
  <2>2. CASE ~Waiting(q)
    BY <1>2, <1>3, <2>2 DEF Answer, clientVars, Waiting, IInv, TypeOK, ClientOK
  <2>3. QED
    BY <2>1, <2>2
<1>7. TypeOK' /\ Untouched' /\ ShredOK'
  BY <1>2, <1>3, <1>5, <1>6 DEF IInv, TypeOK, Untouched, ShredOK, Kept
<1>8. ClientOK'
  BY <1>2, <1>6, UrlStable DEF IInv, ClientOK, Current
<1>9. RequestsOK'
  BY <1>2, <1>3, UrlStable DEF IInv, RequestsOK, RequestOK, Listed, Kept
<1>10. StagedOK' /\ StoredOK'
  BY <1>2, BytesKept DEF Listed
<1>11. DoneOK'
  BY <1>1, <1>2, <1>4, <1>6, UrlStable DEF IInv, DoneOK, Arrived, Kept
<1>12. QED
  BY <1>7, <1>8, <1>9, <1>10, <1>11 DEF IInv

(* The worker, up to its shredding. *)
LEMMA WorkerStep ==
    ASSUME IInv, UNCHANGED <<disk, page, list, at, client, fileStatus, req, staged>>,
           queue' = queue \/ (queue > 0 /\ queue' = queue - 1),
           LostGrows, status' \in {status, "infected", "ready"}, status # "uploading" =>
               status' # "uploading",
           shredding' = TRUE => ~Kept', shredding' \in {TRUE, FALSE, shredding},
           page = "creating" => status' # "ready" /\ queue' = queue,
           stored' = stored \/ stored' = staged,
           status' = "ready" =>
               \/ status = "ready" /\ stored' = stored
               \/ stored' = staged /\ AllFilesComplete /\ \A s \in Rows : staged[s] # <<>>
    PROVE  IInv'
<1>1. Kept' => Kept
  BY DEF Kept, LostGrows, IInv, TypeOK
<1>2. TypeOK' /\ Untouched'
  BY DEF IInv, TypeOK, Untouched, LostGrows
<1>3. ShredOK'
  BY <1>1 DEF IInv, ShredOK
<1>4. ClientOK'
  BY UrlStable DEF IInv, ClientOK, Current
<1>5. RequestsOK' /\ DoneOK'
  BY <1>1, UrlStable DEF IInv, RequestsOK, RequestOK, Listed, DoneOK, Arrived
<1>6. \A s : Sources(s)' = Sources(s)
  BY UrlStable DEF Sources, Listed
<1>7. \A s \in Rows : staged[s] # <<>> => Len(staged[s]) > 0
  BY DEF IInv, TypeOK, Contents
<1>8. StagedOK' /\ StoredOK'
  BY <1>6, <1>7
     DEF IInv, StagedOK, StoredOK, FromListed, InPlace, AllFilesComplete, CurrentOffset
<1>9. QED
  BY <1>2, <1>3, <1>4, <1>5, <1>8 DEF IInv

LEMMA EncryptOK == ASSUME IInv, Encrypt PROVE IInv'
<1>1. /\ queue > 0 /\ queue' = queue - 1
      /\ UNCHANGED <<disk, page, list, at, client, fileStatus, req, staged, lost>>
      /\ \/ UNCHANGED <<status, shredding, stored>>
         \/ shredding' = TRUE /\ status' = "infected" /\ stored' = stored
         \/ /\ shredding' = TRUE /\ status' = "ready" /\ stored' = staged
            /\ AllFilesComplete /\ \A s \in Rows : staged[s] # <<>>
  BY DEF Encrypt, pageVars, clientVars, workerVars
<1>2. page # "creating" /\ LostGrows
  BY <1>1 DEF IInv, TypeOK, Untouched, LostGrows
<1>3. shredding' = TRUE => ~Kept'
  BY <1>1 DEF IInv, ShredOK, Kept
<1>4. QED
  BY <1>1, <1>2, <1>3, WorkerStep

LEMMA EncryptFailsOK == ASSUME IInv, EncryptFails PROVE IInv'
<1>1. /\ UNCHANGED <<disk, page, list, at, client, fileStatus, req, staged, stored>>
      /\ \/ /\ queue > 0 /\ queue' = queue - 1 /\ shredding' = TRUE
            /\ \/ status' = "infected" /\ lost' = lost
               \/ lost' = "staging" /\ status' = status /\ status = "uploading"
         \/ /\ status = "ready" /\ status' = "infected"
            /\ UNCHANGED <<queue, shredding, lost>>
  BY DEF EncryptFails, pageVars, clientVars
<1>2. LostGrows /\ page # "creating"
  BY <1>1 DEF IInv, TypeOK, Untouched, LostGrows
<1>3. shredding' = TRUE => ~Kept'
  BY <1>1 DEF Kept
<1>4. /\ UNCHANGED <<disk, page, list, at, client, fileStatus, req, staged>>
      /\ queue' = queue \/ (queue > 0 /\ queue' = queue - 1)
      /\ stored' = stored
  BY <1>1
<1>5. /\ status' \in {status, "infected", "ready"}
      /\ status # "uploading" => status' # "uploading"
      /\ status' = "ready" => status = "ready"
  BY <1>1
<1>6. shredding' \in {TRUE, FALSE, shredding}
  BY <1>1
<1>7. QED
  BY <1>2, <1>3, <1>4, <1>5, <1>6, WorkerStep

LEMMA WorkerDiesOK == ASSUME IInv, WorkerDies PROVE IInv'
<1>1. /\ UNCHANGED <<disk, page, list, at, client, fileStatus, req, staged, status, stored>>
      /\ \/ /\ queue > 0 /\ queue' = queue - 1 /\ shredding' = shredding
            /\ JobLost \/ lost' = lost
         \/ shredding' = FALSE /\ queue' = queue /\ lost' = lost
  BY DEF WorkerDies, pageVars, clientVars
<1>2. LostGrows /\ (page = "creating" => status' # "ready" /\ queue' = queue)
  BY <1>1 DEF IInv, TypeOK, Untouched, LostGrows, JobLost
<1>3. shredding' = TRUE => ~Kept'
  BY <1>1, <1>2 DEF Kept, LostGrows, IInv, ShredOK
<1>4. /\ UNCHANGED <<disk, page, list, at, client, fileStatus, req, staged>>
      /\ queue' = queue \/ (queue > 0 /\ queue' = queue - 1)
      /\ stored' = stored
  BY <1>1
<1>5. /\ status' \in {status, "infected", "ready"}
      /\ status # "uploading" => status' # "uploading"
      /\ status' = "ready" => status = "ready"
  BY <1>1
<1>6. shredding' \in {TRUE, FALSE, shredding}
  BY <1>1
<1>7. QED
  BY <1>2, <1>3, <1>4, <1>5, <1>6, WorkerStep

LEMMA ShredStepOK == ASSUME IInv, Shred PROVE IInv'
<1>1. /\ ~Kept /\ shredding' = FALSE /\ staged' = [s \in Rows |-> <<>>]
      /\ UNCHANGED <<disk, page, list, at, client, fileStatus, req, queue, lost, status, stored>>
  BY DEF Shred, pageVars, clientVars, IInv, ShredOK
<1>2. /\ staged' \in [Rows -> Contents]
      /\ \A s \in Rows : staged'[s] = <<>> /\ Len(staged'[s]) = 0
  BY <1>1 DEF Contents
<1>3. TypeOK' /\ Untouched' /\ ShredOK'
  <2>1. TypeOK'
    BY <1>1, <1>2 DEF IInv, TypeOK
  <2>2. Untouched'
    BY <1>1, <1>2 DEF IInv, Untouched
  <2>3. ShredOK'
    BY <1>1 DEF ShredOK
  <2>4. QED
    BY <2>1, <2>2, <2>3
<1>4. ClientOK'
  BY <1>1, UrlStable DEF IInv, ClientOK, Current
<1>5. RequestsOK' /\ DoneOK'
  BY <1>1, UrlStable DEF IInv, RequestsOK, RequestOK, Listed, Kept, DoneOK
<1>6. \A s : Sources(s)' = Sources(s)
  BY <1>1, UrlStable DEF Sources, Listed
<1>7. StoredOK'
  BY <1>1, <1>6 DEF IInv, StoredOK, FromListed, InPlace
<1>8. StagedOK'
  BY <1>2, RowFacts DEF StagedOK, FromListed, InPlace
<1>9. QED
  BY <1>3, <1>4, <1>5, <1>7, <1>8 DEF IInv

LEMMA CloseOK == ASSUME IInv, Close PROVE IInv'
<1>1. /\ status' = "closed"
      /\ UNCHANGED <<disk, page, list, at, client, fileStatus, req, staged, queue, lost,
                     shredding, stored>>
  BY DEF Close, pageVars, clientVars, serverVars
<1>2. TypeOK' /\ Untouched' /\ ShredOK'
  BY <1>1 DEF IInv, TypeOK, Untouched, ShredOK, Kept
<1>3. ClientOK'
  BY <1>1, UrlStable DEF IInv, ClientOK, Current
<1>4. RequestsOK' /\ DoneOK'
  BY <1>1, UrlStable DEF IInv, RequestsOK, RequestOK, Listed, Kept, DoneOK
<1>5. StagedOK' /\ StoredOK'
  BY <1>1, BytesKept DEF Listed
<1>6. QED
  BY <1>2, <1>3, <1>4, <1>5 DEF IInv

LEMMA InitOK == Init => IInv
<1> SUFFICES ASSUME Init PROVE IInv
  OBVIOUS
<1>1. NoUpload \in Clients /\ NoUpload.at = "idle"
  BY DEF NoUpload, Clients
<1>2. /\ staged \in [Rows -> Contents] /\ stored \in [Rows -> Contents]
      /\ \A s \in Rows : staged[s] = <<>>
  BY DEF Init, Contents
<1>3. /\ req \in [Requests -> Patches] /\ \A q \in Requests : req[q].at = "idle"
      /\ fileStatus \in [Files -> Outcomes]
  BY IdleFacts DEF Init, Outcomes
<1>4. TypeOK /\ Untouched /\ ClientOK /\ RequestsOK /\ DoneOK /\ ShredOK /\ StoredOK
  <2>1. TypeOK
    BY <1>1, <1>2, <1>3, RowFacts DEF Init, TypeOK
  <2>2. Untouched /\ ClientOK
    BY <1>1, <1>2, <1>3 DEF Init, Untouched, ClientOK
  <2>3. RequestsOK /\ DoneOK
    BY <1>3 DEF Init, RequestsOK, RequestOK, DoneOK
  <2>4. ShredOK /\ StoredOK
    BY DEF Init, ShredOK, StoredOK
  <2>5. QED
    BY <2>1, <2>2, <2>3, <2>4
<1>5. StagedOK
  BY <1>2, RowFacts DEF StagedOK, FromListed, InPlace
<1>6. QED
  BY <1>4, <1>5 DEF IInv

LEMMA Inductive == IInv /\ [Next]_vars => IInv'
<1> SUFFICES ASSUME IInv, [Next]_vars PROVE IInv'
  OBVIOUS
<1>1. CASE UNCHANGED vars
  <2>1. UNCHANGED <<disk, page, list, at, client, fileStatus, req, staged, queue, lost, status,
                    shredding, stored>>
    BY <1>1 DEF vars, pageVars, clientVars, serverVars, workerVars
  <2>2. client' \in Clients /\ fileStatus' \in [Files -> Outcomes] /\ req' \in [Requests -> Patches]
    BY <2>1 DEF IInv, TypeOK
  <2>3. (client.at = "sent" => req'[client.request].at # "idle") /\ LostGrows
    BY <2>1 DEF IInv, TypeOK, ClientOK, LostGrows
  <2>4. QED
    BY <2>1, <2>2, <2>3, QuietStep
<1>2. CASE Next
  <2>1. CASE \/ CreateAnswered \/ CreateFails \/ NextFile \/ EndOfList
             \/ HeadAnswers \/ HeadBreaks \/ Break
    BY <2>1, CreateOK, NextFileOK, EndOfListOK, HeadAnswersOK, HeadBreaksOK, BreakOK
  <2>2. CASE \E i \in DOMAIN list : RemoveFile(i)
    BY <2>2, RemoveFileOK
  <2>3. CASE \E f \in Files : AddFile(f)
    BY <2>3, AddFileOK
  <2>4. CASE \E q \in Requests : PatchSends(q) \/ Api(q) \/ Fails(q)
    BY <2>4, PatchSendsOK, LoadOK, OffsetConflictOK, TooLongOK, AppendChunkOK, CompleteOK,
       FailsOK DEF Api
  <2>5. CASE Encrypt \/ EncryptFails \/ WorkerDies \/ Shred \/ Close
    BY <2>5, EncryptOK, EncryptFailsOK, WorkerDiesOK, ShredStepOK, CloseOK
  <2>6. QED
    BY <1>2, <2>1, <2>2, <2>3, <2>4, <2>5 DEF Next
<1>3. QED
  BY <1>1, <1>2

-----------------------------------------------------------------------------
LEMMA WholeFile ==
    ASSUME disk \in Disks, NEW f \in Files, NEW bytes \in Contents, Len(bytes) >= Size[f],
           InPlace(bytes, {f})
    PROVE  bytes = Content(f)
<1>1. PICK n \in Nat : n = Size[f]
  BY RowFacts
<1>2. /\ Content(f) \in Contents /\ Len(Content(f)) = n
      /\ \A i \in 1..n : Content(f)[i] = <<f, 0 + i>>
  <2>1. Content(f) = Bytes(f, 0, n) /\ 0 \in Nat
    BY <1>1 DEF Content
  <2>2. /\ Bytes(f, 0, n) \in Contents /\ Len(Bytes(f, 0, n)) = n
        /\ \A i \in 1..n : Bytes(f, 0, n)[i] = <<f, 0 + i>>
    BY <2>1, BytesFacts
  <2>3. QED
    BY <2>1, <2>2
<1>3. Len(bytes) = n
  <2>1. Len(bytes) \in Nat /\ Len(bytes) >= n
    BY <1>1 DEF Contents
  <2>2. CASE Len(bytes) > n
    <3>1. Len(bytes) \in 1..Len(bytes)
      BY <1>1, <2>1, <2>2
    <3>2. Len(bytes) <= Size[f]
      BY <3>1 DEF InPlace
    <3>3. QED
      BY <1>1, <2>1, <2>2, <3>2
  <2>3. QED
    BY <1>1, <2>1, <2>2
<1>4. \A i \in 1..n : bytes[i] = Content(f)[i]
  BY <1>1, <1>2, <1>3 DEF InPlace
<1>5. QED
  BY <1>1, <1>2, <1>3, <1>4 DEF Contents

(* A file of which every row has bytes is the only source of its row: a    *)
(* row that shares its name with a later one would have stayed empty.      *)
LEMMA StoredImplied == IInv => StoredIsOriginal
<1> SUFFICES ASSUME IInv, status = "ready", \A f \in Listed \ Rows : OwnName(f), NEW s \in Rows
             PROVE  stored[s] = Content(s)
  BY DEF StoredIsOriginal
<1>1. \A t \in Rows : /\ Len(stored[t]) = Size[t] /\ Len(stored[t]) > 0
                      /\ InPlace(stored[t], Sources(t))
  BY DEF IInv, StoredOK, FromListed
<1>2. \A t \in Rows : Sources(t) # {}
  <2>1. \A t \in Rows : 1 \in 1..Len(stored[t])
    BY <1>1 DEF IInv, TypeOK, Contents
  <2>2. QED
    BY <1>1, <2>1 DEF InPlace
<1>3. \A t \in Rows : Url(t) = t
  <2>1. SUFFICES ASSUME NEW t \in Rows PROVE Url(t) = t
    OBVIOUS
  <2>2. PICK g \in Sources(t) : TRUE
    BY <1>2
  <2>3. HasUrl(g) /\ Url(g) = t
    BY DEF Sources
  <2>4. name[t] = name[g]
    BY <2>3, UrlFacts
  <2>5. QED
    BY <2>3, <2>4, UrlFacts
<1>4. ASSUME NEW f \in Sources(s) PROVE f = s
  <2>1. f \in Listed /\ HasUrl(f) /\ Url(f) = s
    BY DEF Sources
  <2>2. name[s] = name[f]
    BY <2>1, UrlFacts
  <2>3. CASE f \in Rows
    BY <1>3, <2>1, <2>3
  <2>4. CASE f \notin Rows
    BY <2>1, <2>2, <2>4 DEF OwnName
  <2>5. QED
    BY <2>3, <2>4
<1>5. Sources(s) \subseteq {s}
  BY <1>4
<1>6. /\ s \in Files /\ stored[s] \in Contents /\ disk \in Disks
      /\ Size[s] \in Nat /\ Len(stored[s]) >= Size[s]
  BY <1>1, RowFacts DEF IInv, TypeOK
<1>7. InPlace(stored[s], {s})
  BY <1>1, <1>5, InPlaceGrow
<1>8. QED
  BY <1>1, <1>6, <1>7, WholeFile

LEMMA DoneImplied == IInv => DoneIsWhole
<1> SUFFICES ASSUME IInv, NEW f \in Listed, fileStatus[f] = "done", Kept, OwnName(f)
             PROVE  staged[f] = Content(f)
  BY DEF DoneIsWhole, Kept
<1>1. f \in Files /\ HasUrl(f) /\ Arrived(f)
  BY ListFacts DEF IInv, DoneOK
<1>2. Url(f) \in Rows /\ name[Url(f)] = name[f]
  BY <1>1, UrlFacts
<1>3. Url(f) = f
  BY <1>2 DEF OwnName
<1>4. staged[f] \in Contents /\ disk \in Disks /\ InPlace(staged[f], Sources(f))
  BY <1>2, <1>3 DEF IInv, TypeOK, StagedOK, FromListed
<1>5. Len(staged[f]) >= Size[f]
  BY <1>1, <1>3 DEF Arrived
<1>6. Sources(f) \subseteq {f}
  <2>1. \A g \in Sources(f) : g \in Listed /\ name[g] = name[f]
    BY UrlFacts DEF Sources
  <2>2. QED
    BY <2>1 DEF OwnName
<1>7. InPlace(staged[f], {f})
  BY <1>4, <1>6, InPlaceGrow
<1>8. QED
  BY <1>1, <1>4, <1>5, <1>7, WholeFile

(* Whatever the network and the retries of the tus client do, a transfer   *)
(* that becomes ready holds the bytes of the chosen files (the offset test *)
(* and the append of tus/handler.py, the size test of the worker).         *)
THEOREM UploadsAreOriginal == Spec => []StoredIsOriginal
BY InitOK, Inductive, StoredImplied, PTL DEF Spec

(* A file that UploadView shows as done is in staging, byte for byte, also *)
(* when it is empty, when another handler has written too much and when    *)
(* the worker has died, until the worker shreds it.                        *)
THEOREM TicksAreTrue == Spec => []DoneIsWhole
BY InitOK, Inductive, DoneImplied, PTL DEF Spec

=============================================================================
