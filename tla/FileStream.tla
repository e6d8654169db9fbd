------------------------------ MODULE FileStream ------------------------------
(***************************************************************************)
(* One file from staging to a recipient: encrypt_stream writes ciphertext  *)
(* and tag, the object lies in MinIO where it may be changed out of band,  *)
(* and a download pulls it through _IteratorIO and the sliding window of   *)
(* decrypt_stream_iter.  Bytes are abstract; GCM is ideal: a tag is valid  *)
(* for one ciphertext, and nobody makes one without the key.               *)
(***************************************************************************)
EXTENDS Integers, Sequences, SequencesExt

CONSTANTS
    MaxLen,       \* longest file
    TagLen,       \* _TAG_LEN
    ChunkSize,    \* chunk_size of encrypt_stream and decrypt_stream_iter
    FetchSize     \* the most that one step of resp.stream yields

ASSUME SizesAssumption == /\ MaxLen \in Nat
                          /\ {TagLen, ChunkSize, FetchSize} \subseteq Nat \ {0}

VARIABLES
    plain,        \* the uploaded file
    object,       \* the file written by encrypt_stream, then the MinIO object
    rest,         \* what MinIO has still to send
    buf,          \* _IteratorIO._buf
    held,         \* the bytes held back by decrypt_stream_iter
    sent,         \* what the decryptor has taken, and the client received
    state,        \* where the file is
    intact        \* history: nobody has changed the object

vars == <<plain, object, rest, buf, held, sent, state, intact>>

(***************************************************************************)
(* Byte i of the file and of its ciphertext (the cipher keeps the length), *)
(* the tag of a ciphertext, and a byte that comes from elsewhere.          *)
(***************************************************************************)
Byte(i)   == <<"byte", i>>
File(n)   == [i \in 1..n |-> Byte(i)]
Tag(c)    == [i \in 1..TagLen |-> <<"tag", c, i>>]
Foreign   == <<"foreign">>

States == {"encrypting", "stored", "streaming",
           "complete",      \* verified to the end
           "failed",        \* StreamCryptoError: the response is aborted
           "cut",           \* ended early without an error, the client waiting
           "left"}          \* the client is gone

(* Types, and the memory a stream needs: never more than the tag is held   *)
(* back and never more than one piece is buffered, however large the file  *)
(* (stream.py:92).                                                         *)
TypeOK ==
    /\ plain \in {File(n) : n \in 0..MaxLen}
    /\ state \in States
    /\ intact \in BOOLEAN
    /\ Len(held) <= TagLen
    /\ Len(buf) <= FetchSize

Init ==
    /\ \E n \in 0..MaxLen : plain = File(n)
    /\ object = <<>> /\ rest = <<>> /\ buf = <<>> /\ held = <<>> /\ sent = <<>>
    /\ state = "encrypting"
    /\ intact = TRUE

-----------------------------------------------------------------------------
FirstOf(s, n) == SubSeq(s, 1, Min({n, Len(s)}))
After(s, n)   == SubSeq(s, n + 1, Len(s))

(***************************************************************************)
(* encrypt_stream: a chunk is read, encrypted and written.                 *)
(***************************************************************************)
EncryptChunk ==
    /\ state = "encrypting"
    /\ Len(object) < Len(plain)
    /\ object' = object \o FirstOf(After(plain, Len(object)), ChunkSize)
    /\ UNCHANGED <<plain, rest, buf, held, sent, state, intact>>

(***************************************************************************)
(* The end of the file: the tag is appended and the object put.            *)
(***************************************************************************)
EncryptEnd ==
    /\ state = "encrypting"
    /\ Len(object) = Len(plain)
    /\ object' = object \o Tag(object)
    /\ state' = "stored"
    /\ UNCHANGED <<plain, rest, buf, held, sent, intact>>

(***************************************************************************)
(* Somebody with access to MinIO cuts the object, changes a byte, moves a  *)
(* byte or adds some.                                                      *)
(***************************************************************************)
Changed(o) ==
    {SubSeq(o, 1, n) : n \in 0..Len(o)}
        \cup {After(o, n) : n \in 0..Len(o)}
        \cup {[o EXCEPT ![i] = Foreign] : i \in 1..Len(o)}
        \cup {[[o EXCEPT ![i] = o[j]] EXCEPT ![j] = o[i]] : i, j \in 1..Len(o)}
        \cup {Append(o, Foreign), <<Foreign>> \o o, o \o o}

Tamper ==
    /\ state = "stored"
    /\ intact
    /\ object' \in Changed(object) \ {object}
    /\ intact' = FALSE
    /\ UNCHANGED <<plain, rest, buf, held, sent, state>>

(***************************************************************************)
(* The handler has returned; its body is pulled: get_stream opens the      *)
(* object.                                                                 *)
(***************************************************************************)
GetObject ==
    /\ state = "stored"
    /\ rest' = object
    /\ state' = "streaming"
    /\ UNCHANGED <<plain, object, buf, held, sent, intact>>

(* Mutant: what does not fit into the caller's buffer is dropped. *)
Leftover_Dropped(got, n) == <<>>

(***************************************************************************)
(* readinto keeps what the caller has no room for.                         *)
(***************************************************************************)
Leftover(got, n) == After(got, n)

(* Mutant: one byte more than the tag is held back. *)
Passes_Late(window) == IF Len(window) > TagLen + 1
                         THEN SubSeq(window, 1, Len(window) - TagLen - 1) ELSE <<>>

(***************************************************************************)
(* The front of the window that is decrypted; the rest may be the tag.     *)
(***************************************************************************)
Passes(window) == IF Len(window) > TagLen
                    THEN SubSeq(window, 1, Len(window) - TagLen) ELSE <<>>

(***************************************************************************)
(* One turn of the loop: src.read takes what is buffered, or else the next *)
(* piece that MinIO sends, of any size; all but the last TagLen bytes are  *)
(* decrypted and yielded.                                                  *)
(***************************************************************************)
Read(size) ==
    LET got    == IF buf # <<>> THEN buf ELSE FirstOf(rest, size)
        chunk  == FirstOf(got, ChunkSize)
        window == held \o chunk
        pass   == Passes(window)
    IN  /\ state = "streaming"
        /\ got # <<>>
        /\ rest' = IF buf # <<>> THEN rest ELSE After(rest, Len(got))
        /\ buf' = Leftover(got, Len(chunk))
        /\ sent' = sent \o pass
        /\ held' = After(window, Len(pass))
        /\ UNCHANGED <<plain, object, state, intact>>

(* Mutant: the tag is not looked at. *)
Verified_Unchecked(c, tag) == TRUE

(***************************************************************************)
(* finalize_with_tag accepts the tag of what was decrypted.                *)
(***************************************************************************)
Verified(c, tag) == tag = Tag(c)

(***************************************************************************)
(* The end of the object: what is held must be the tag.                    *)
(***************************************************************************)
Finish ==
    /\ state = "streaming"
    /\ buf = <<>> /\ rest = <<>>
    /\ state' = IF Len(held) = TagLen /\ Verified(sent, held)
                  THEN "complete" ELSE "failed"
    /\ UNCHANGED <<plain, object, rest, buf, held, sent, intact>>

(***************************************************************************)
(* MinIO closes the connection: ProtocolError, IncompleteRead and the like *)
(* are caught in _aiter_from_sync, which ends the body.                    *)
(***************************************************************************)
UpstreamBreaks ==
    /\ state = "streaming"
    /\ state' = "cut"
    /\ UNCHANGED <<plain, object, rest, buf, held, sent, intact>>

ClientLeaves ==
    /\ state = "streaming"
    /\ state' = "left"
    /\ UNCHANGED <<plain, object, rest, buf, held, sent, intact>>

Ended == state \in {"complete", "failed", "cut", "left"}

(* Each download starts afresh from the object. *)
NextDownload ==
    /\ Ended
    /\ rest' = <<>> /\ buf' = <<>> /\ held' = <<>> /\ sent' = <<>>
    /\ state' = "stored"
    /\ UNCHANGED <<plain, object, intact>>

Next ==
    \/ EncryptChunk \/ EncryptEnd
    \/ Tamper
    \/ GetObject \/ (\E size \in 1..FetchSize : Read(size)) \/ Finish
    \/ UpstreamBreaks \/ ClientLeaves
    \/ NextDownload

Spec == Init /\ [][Next]_vars

-----------------------------------------------------------------------------
(* A download that passes the tag check has delivered the uploaded file,   *)
(* whole and unchanged, whatever happened to the object and however MinIO  *)
(* cut it into pieces (docs/THREAT_MODEL.md B2).                           *)
OnlyTheOriginal == state = "complete" => sent = plain

(* An object nobody has changed is never refused, and what its readers get *)
(* before the end is the beginning of the file, for every way of cutting   *)
(* the ciphertext and the tag into pieces.                                 *)
UntouchedPasses == intact => /\ state # "failed"
                             /\ IsPrefix(sent, plain)

(* The body ends without an error only when it is whole, or when nobody is *)
(* there to read it (public.py:17: the errors that end it quietly mean     *)
(* that the HTTP client went away).                                        *)
QuietEndIsWhole == state \in {"complete", "cut"} => sent = plain

=============================================================================
