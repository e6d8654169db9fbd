----------------------------- MODULE UploadGuards -----------------------------
(***************************************************************************)
(* POST /api/transfers: one sender's request passes captcha, blocklist,    *)
(* GeoIP gate and upload policy, each of which asks the database at a      *)
(* moment of its own, while administrators edit the blocklist, the         *)
(* settings and the extension list.  Audit events are outputs and left     *)
(* out.  A blocklist entry is one that matches the sender.                 *)
(***************************************************************************)
EXTENDS Integers, Sequences, SequencesExt, Orm

CONSTANTS
    Admins,         \* concurrent admin requests
    Captcha,        \* CaptchaVerifier.required
    Exts,           \* file suffixes
    Amounts,        \* numbers of recipients, sizes in GB, and their limits
    DefaultAmount,  \* the limit when the setting has no value
    Null,           \* a setting stored as null; nothing
    MaxChanges      \* bound on what the administrators do

ASSUME GuardsAssumption ==
    /\ Captcha \in BOOLEAN
    /\ Amounts \subseteq Nat \ {0} /\ DefaultAmount \in Nat /\ MaxChanges \in Nat

VARIABLES
    reader,         \* GeoIPReader.enabled: the country database could be opened
    blocklist,      \* the three tables: every entry absent, active or lapsed
    settings,       \* the settings table
    up,             \* the upload request: where it is, and what it has read
    standing,       \* history: what has held ever since it came in
    ever,           \* history: what has held at some moment since then
    editing,        \* each admin request on the settings: what it loaded and assigned
    answered,       \* history: the extension list by the answers given
    missed,         \* history: what became of the list since each edit loaded it
    disputed,       \* history: entries of the list on which edits crossed
    changes         \* what administrators have done so far

editVars == <<editing, answered, missed, disputed>>
vars == <<reader, blocklist, settings, up, standing, ever, editVars, changes>>

Kinds      == {"ips", "emails", "domains"}
Entries    == {"network", "address", "email", "domain"}
KindOf(e)  == CASE e \in {"network", "address"} -> "ips"
                [] e = "email"                  -> "emails"
                [] e = "domain"                 -> "domains"

(***************************************************************************)
(* An extension as it is listed: with its dot or without.                  *)
(***************************************************************************)
Spelling   == [ext : Exts, dot : BOOLEAN]
Countries  == {"KZ", "XX"}
Unknown    == "unknown"

Values(key) ==
    CASE key = "geoip_enabled"                             -> BOOLEAN
      [] key = "geoip_countries"                           -> SUBSET Countries
      [] key \in {"max_recipients", "max_transfer_size_gb"} -> Amounts
      [] key = "extension_blacklist"                       -> SUBSET Spelling

DefaultOf(key) ==
    CASE key = "geoip_enabled"                             -> FALSE
      [] key = "geoip_countries"                           -> {"KZ"}
      [] key \in {"max_recipients", "max_transfer_size_gb"} -> DefaultAmount
      [] key = "extension_blacklist"                       -> {}

SettingKeys == {"geoip_enabled", "geoip_countries", "max_recipients",
                "max_transfer_size_gb", "extension_blacklist"}

ASSUME NullAssumption == \A key \in SettingKeys : \A v \in Values(key) : v # Null

(***************************************************************************)
(* SettingsService.get and its typed variants: null counts as the default. *)
(***************************************************************************)
get(key) == IF settings[key] = Null THEN DefaultOf(key) ELSE settings[key]

(***************************************************************************)
(* The suffixes of the file name, the last one first.                      *)
(***************************************************************************)
Names == {s \in SeqOf(Exts, 2) : IsInjective(s)}

NoRequest ==
    [at |-> "idle", country |-> Unknown, recipients |-> 1, size |-> 1,
     name |-> <<>>, geo |-> FALSE, maxGb |-> 1, maxRecipients |-> 1, reason |-> Null]

Init ==
    /\ reader \in BOOLEAN
    /\ blocklist = [e \in Entries |-> "absent"]
    /\ settings = [key \in SettingKeys |-> DefaultOf(key)]
    /\ up = NoRequest
    /\ standing = {} /\ ever = {}
    /\ editing = [a \in Admins |-> Null]
    /\ answered = {} /\ disputed = {}
    /\ missed = [a \in Admins |-> {}]
    /\ changes = 0

-----------------------------------------------------------------------------
(* Mutant: an entry that has lapsed still counts. *)
NotExpired_Ignored(e) == blocklist[e] # "absent"

(***************************************************************************)
(* _not_expired.                                                           *)
(***************************************************************************)
NotExpired(e) == blocklist[e] = "active"

(***************************************************************************)
(* check_ip, check_email and check_email_domain.                           *)
(***************************************************************************)
Check(kind) == \E e \in Entries : KindOf(e) = kind /\ NotExpired(e)

(* Mutant: only the last suffix is looked at. *)
Extensions_LastOnly(name) == IF name = <<>> THEN {} ELSE {name[1]}

(***************************************************************************)
(* _extensions_of: all suffixes.                                           *)
(***************************************************************************)
Extensions(name) == ToSet(name)

(***************************************************************************)
(* A suffix has its dot, so it matches what is listed with a dot.          *)
(***************************************************************************)
Blacklisted(list, name) == \E x \in Extensions(name) : [ext |-> x, dot |-> TRUE] \in list

(***************************************************************************)
(* is_country_allowed with an open database: an unknown address passes.    *)
(***************************************************************************)
CountryAllowed(country, allowed) == country = Unknown \/ country \in allowed

(***************************************************************************)
(* What speaks against the request u in the present state of the tables.   *)
(***************************************************************************)
Against(u) ==
    LET name == ToSet(u.name)
        list == get("extension_blacklist")
    IN  {KindOf(e) : e \in {f \in Entries : blocklist[f] = "active"}}
        \cup (IF reader /\ get("geoip_enabled") THEN {"geo_on"} ELSE {})
        \cup (IF u.country \in Countries \ get("geoip_countries") THEN {"geo_out"} ELSE {})
        \cup (IF ~reader /\ get("geoip_enabled") /\ get("geoip_countries") # {}
                THEN {"geo_blind"} ELSE {})
        \cup (IF u.recipients > get("max_recipients") THEN {"recipients"} ELSE {})
        \cup (IF u.size > get("max_transfer_size_gb") THEN {"size"} ELSE {})
        \cup (IF \E x \in name : [ext |-> x, dot |-> TRUE] \in list
                THEN {"extension"} ELSE {})
        \cup (IF \E x \in name, d \in BOOLEAN : [ext |-> x, dot |-> d] \in list
                THEN {"listed"} ELSE {})

(* The history of the request after a step that leaves the tables alone. *)
Watch == UNCHANGED <<standing, ever>>

(* ... and after one that changes them, while the request is under way. *)
Note == IF up.at \in {"idle", "refused", "created"} THEN Watch
        ELSE /\ standing' = standing \cap Against(up)'
             /\ ever' = ever \cup Against(up)'

Tables == <<reader, blocklist, settings>>

(***************************************************************************)
(* A request comes in; its country is what the database says of its        *)
(* address.                                                                *)
(***************************************************************************)
Arrive(country, recipients, size, name) ==
    /\ up.at = "idle"
    /\ ~reader => country = Unknown
    /\ up' = [NoRequest EXCEPT !.at = IF Captcha THEN "captcha" ELSE "ips",
                  !.country = country, !.recipients = recipients,
                  !.size = size, !.name = name]
    /\ standing' = Against(up')
    /\ ever' = Against(up')
    /\ UNCHANGED <<Tables, editVars, changes>>

Goto(step)     == up' = [up EXCEPT !.at = step]

(***************************************************************************)
(* The handler raises with the code of the rule, and only that is left.    *)
(***************************************************************************)
Refuse(reason) == up' = [NoRequest EXCEPT !.at = "refused", !.reason = reason]

Handler == Watch /\ UNCHANGED <<Tables, editVars, changes>>

(***************************************************************************)
(* hCaptcha's verdict; an unreachable service counts as a failure.         *)
(***************************************************************************)
VerifyCaptcha ==
    /\ up.at = "captcha"
    /\ Goto("ips") \/ Refuse("captcha")
    /\ Handler

CheckBlocklist(kind, next) ==
    /\ up.at = kind
    /\ IF Check(kind) THEN Refuse(kind) ELSE Goto(next)
    /\ Handler

ReadGeoEnabled ==
    /\ up.at = "geo_enabled"
    /\ up' = [up EXCEPT !.at = "geo_countries", !.geo = get("geoip_enabled")]
    /\ Handler

(***************************************************************************)
(* The gate is passed by everyone when there is no country database.       *)
(***************************************************************************)
CheckCountry ==
    /\ up.at = "geo_countries"
    /\ IF /\ reader
          /\ up.geo
          /\ ~CountryAllowed(up.country, get("geoip_countries"))
         THEN Refuse("geo") ELSE Goto("max_gb")
    /\ Handler

(***************************************************************************)
(* UploadPolicy.check reads its three settings first.                      *)
(***************************************************************************)
ReadMaxGb ==
    /\ up.at = "max_gb"
    /\ up' = [up EXCEPT !.at = "max_recipients", !.maxGb = get("max_transfer_size_gb")]
    /\ Handler

ReadMaxRecipients ==
    /\ up.at = "max_recipients"
    /\ up' = [up EXCEPT !.at = "blacklist", !.maxRecipients = get("max_recipients")]
    /\ Handler

CheckPolicy ==
    /\ up.at = "blacklist"
    /\ CASE up.recipients > up.maxRecipients -> Refuse("recipients")
         [] up.recipients <= up.maxRecipients /\ up.size > up.maxGb -> Refuse("size")
         [] OTHER -> IF Blacklisted(get("extension_blacklist"), up.name)
                       THEN Refuse("extension") ELSE Goto("create")
    /\ Handler

Create ==
    /\ up.at = "create"
    /\ up' = [NoRequest EXCEPT !.at = "created"]
    /\ Handler

(***************************************************************************)
(* The answer has been sent; or the request died on the way.               *)
(***************************************************************************)
RequestEnds ==
    /\ up.at # "idle"
    /\ up' = NoRequest
    /\ standing' = {} /\ ever' = {}
    /\ UNCHANGED <<Tables, editVars, changes>>

-----------------------------------------------------------------------------
Counted == changes < MaxChanges /\ changes' = changes + 1

(***************************************************************************)
(* An entry that is there, lapsed or not, cannot be added (409).           *)
(***************************************************************************)
BlocklistAdd(a, e) ==
    /\ editing[a] = Null
    /\ Counted
    /\ blocklist[e] = "absent"
    /\ blocklist' = [blocklist EXCEPT ![e] = "active"]
    /\ UNCHANGED <<reader, settings, up, editVars>>
    /\ Note

BlocklistDelete(a, e) ==
    /\ editing[a] = Null
    /\ Counted
    /\ blocklist[e] # "absent"
    /\ blocklist' = [blocklist EXCEPT ![e] = "absent"]
    /\ UNCHANGED <<reader, settings, up, editVars>>
    /\ Note

(***************************************************************************)
(* expires_at has come.                                                    *)
(***************************************************************************)
EntryLapses(e) ==
    /\ blocklist[e] = "active"
    /\ blocklist' = [blocklist EXCEPT ![e] = "lapsed"]
    /\ UNCHANGED <<reader, settings, up, editVars, changes>>
    /\ Note

List == "extension_blacklist"

(***************************************************************************)
(* The session of the request a, with one more row loaded and its value    *)
(* assigned.                                                               *)
(***************************************************************************)
Session(a)       == IF editing[a] = Null THEN [old |-> <<>>, new |-> <<>>] ELSE editing[a]
With(f, key, v)  == [k \in DOMAIN f \cup {key} |-> IF k = key THEN v ELSE f[k]]

Load(a, op, x, key, v) ==
    /\ Counted
    /\ editing' = [editing EXCEPT ![a] =
                      [op |-> op, x |-> x,
                       old |-> With(Session(a).old, key, settings[key]),
                       new |-> With(Session(a).new, key, v)]]
    /\ missed' = IF key = List THEN [missed EXCEPT ![a] = {}] ELSE missed
    /\ UNCHANGED <<Tables, up, standing, ever, answered, disputed>>

(***************************************************************************)
(* PATCH /settings goes through the keys it was sent, in any order, before *)
(* it commits: exclude_unset keeps a null that was sent, and it is stored. *)
(***************************************************************************)
PatchLoad(a, key, v) ==
    /\ editing[a] # Null => editing[a].op = "patch" /\ key \notin DOMAIN editing[a].new
    /\ Load(a, "patch", Null, key, v)

(* Mutant: the new extension takes the place of the list. *)
Edited_Replaced(op, x, list) == IF op = "add" THEN {x} ELSE list \ {x}

Edited(op, x, list) == IF op = "add" THEN list \cup {x} ELSE list \ {x}

(***************************************************************************)
(* POST and DELETE /extensions load the list and assign another one.  An   *)
(* extension is added in lower case with its dot, and removed as spelled.  *)
(***************************************************************************)
ExtensionLoad(a, op, x) ==
    /\ editing[a] = Null
    /\ op = "add" => x.dot
    /\ op = "remove" => x \in get(List)
    /\ Load(a, op, x, List, Edited(op, x, get(List)))

(* The entries of the list an edit says something about. *)
Touches(e) == IF List \notin DOMAIN e.new THEN {}
              ELSE IF e.op = "patch" THEN Spelling ELSE {e.x}

(* The entries in which two lists differ. *)
Differences(l, m) == (l \ m) \cup (m \ l)

(***************************************************************************)
(* The commit writes every column the session changed, over whatever is    *)
(* stored by now; then the answer is sent.                                 *)
(***************************************************************************)
SettingsCommit(a) ==
    LET e     == editing[a]
        asked == IF e.new[List] = Null THEN {} ELSE e.new[List]
        mine  == List \in DOMAIN e.new
    IN  /\ e # Null
        /\ settings' = [key \in SettingKeys |->
                           IF key \in DOMAIN e.new
                             THEN Flush(e.old[key], e.new[key], settings[key])
                             ELSE settings[key]]
        /\ editing' = [editing EXCEPT ![a] = Null]
        /\ answered' = IF mine THEN (answered \ Touches(e)) \cup (asked \cap Touches(e))
                       ELSE answered
        /\ disputed' = IF mine THEN (disputed \ Touches(e)) \cup missed[a] ELSE disputed
        /\ missed' = [b \in Admins |->
                         IF editing'[b] # Null /\ List \in DOMAIN editing'[b].new
                           THEN missed[b] \cup Differences(get(List), get(List)')
                           ELSE {}]
        /\ UNCHANGED <<reader, blocklist, up, changes>>
        /\ Note

Next ==
    \/ \E country \in Countries \cup {Unknown}, recipients, size \in Amounts,
          name \in Names : Arrive(country, recipients, size, name)
    \/ VerifyCaptcha
    \/ CheckBlocklist("ips", "emails")
    \/ CheckBlocklist("emails", "domains")
    \/ CheckBlocklist("domains", "geo_enabled")
    \/ ReadGeoEnabled \/ CheckCountry
    \/ ReadMaxGb \/ ReadMaxRecipients \/ CheckPolicy
    \/ Create \/ RequestEnds
    \/ \E e \in Entries : EntryLapses(e)
    \/ \E a \in Admins :
        \/ \E e \in Entries : BlocklistAdd(a, e) \/ BlocklistDelete(a, e)
        \/ \E key \in SettingKeys : \E v \in Values(key) \cup {Null} :
              PatchLoad(a, key, v)
        \/ \E op \in {"add", "remove"}, x \in Spelling : ExtensionLoad(a, op, x)
        \/ SettingsCommit(a)

Spec == Init /\ [][Next]_vars

-----------------------------------------------------------------------------
(* No transfer is created for a request against which something spoke from *)
(* its arrival on: a block, the country gate, a limit or a file extension. *)
(* Changes made meanwhile may be seen or missed; a rule that stood all the *)
(* time is not (create_transfer, policy.py: every suffix is checked).      *)
RulesHold ==
    up.at = "created" =>
        /\ standing \cap {"ips", "emails", "domains", "recipients", "size", "extension"} = {}
        /\ ~({"geo_on", "geo_out"} \subseteq standing)

(* Nobody is refused without a reason: what a refusal names was the case   *)
(* at some moment since the request came in.  Lapsed blocks do not count   *)
(* (README.md:80, "Expiry-aware").                                         *)
RefusedForAReason ==
    up.at = "refused" =>
        CASE up.reason = "captcha" -> Captcha
          [] up.reason = "geo"     -> {"geo_on", "geo_out"} \subseteq ever
          [] OTHER                 -> up.reason \in ever

(* The extension list is what the answers to POST and DELETE /extensions   *)
(* and PATCH /settings say it is: an entry that was answered as added is   *)
(* in it and one answered as removed is not (test_admin_settings.py:181),  *)
(* except an entry that some edit changed between another edit's load and  *)
(* commit (admin.py:798-822), until an edit of that entry comes through    *)
(* uncrossed.  So a commit of a whole list loses nothing but what was      *)
(* changed while it was under way.                                         *)
ListAsAnswered ==
    \A x \in Spelling \ disputed : x \in get(List) <=> x \in answered

(* With a country list in force and no database to look addresses up, no   *)
(* transfer is created (geoip.py:50, "Fail-closed when the reader is       *)
(* disabled but policy expected to enforce").                              *)
GeoFailsClosed == up.at = "created" => "geo_blind" \notin standing

(* A listed extension is refused, however it was listed (schemas/admin.py: *)
(* 40 gives the list as ["exe", "bat", "scr"]).                            *)
ListedIsRefused == up.at = "created" => "listed" \notin standing

(* A field sent as null leaves the setting alone (schemas/admin.py:51:     *)
(* "fields explicitly set to None are NOT included").                      *)
NullLeavesAlone ==
    [][\A key \in SettingKeys : settings'[key] = Null => settings[key] = Null]_vars

=============================================================================
