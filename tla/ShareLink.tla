------------------------------ MODULE ShareLink ------------------------------
(***************************************************************************)
(* What a transfer promises, whatever goes on behind it: a link that opens *)
(* at most once, in the same step as its file key is stored, and that once *)
(* closed stays closed; and a key that, once erased, never comes back.     *)
(***************************************************************************)
VARIABLES link, secret

slVars == <<link, secret>>

SLInit == link = "closed" /\ secret = "none"

(***************************************************************************)
(* The transfer becomes downloadable.                                      *)
(***************************************************************************)
Publish ==
    /\ link = "closed"
    /\ secret = "none"
    /\ link' = "open"
    /\ secret' = "held"

(***************************************************************************)
(* Revocation and quarantine keep the key, deletion and expiry erase it.   *)
(***************************************************************************)
Close ==
    /\ link = "open"
    /\ link' = "closed"
    /\ secret' \in {secret, "erased"}

(***************************************************************************)
(* A transfer that is closed already is deleted.                           *)
(***************************************************************************)
Erase ==
    /\ link = "closed"
    /\ secret = "held"
    /\ secret' = "erased"
    /\ UNCHANGED link

SLNext == Publish \/ Close \/ Erase

SLSpec == SLInit /\ [][SLNext]_slVars

=============================================================================
