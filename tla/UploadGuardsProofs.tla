-------------------------- MODULE UploadGuardsProofs --------------------------
(***************************************************************************)
(* Proofs about UploadGuards: a rule that stands is enforced, a refusal    *)
(* has its reason, and edits of the extension list lose only what crossed. *)
(***************************************************************************)
EXTENDS UploadGuards, TLAPS

-----------------------------------------------------------------------------
(***************************************************************************)
(* The request on its way.                                                 *)
(***************************************************************************)
PastPolicy  == {"create", "created"}
PastCountry == {"max_gb", "max_recipients", "blacklist"} \cup PastPolicy
PastDomains == {"geo_enabled", "geo_countries"} \cup PastCountry
PastEmails  == {"domains"} \cup PastDomains
PastIps     == {"emails"} \cup PastEmails
Stages      == {"idle", "captcha", "ips", "refused"} \cup PastIps

Reasons == {"captcha", "geo", "ips", "emails", "domains", "recipients", "size",
            "extension", Null}

Requests ==
    [at : Stages, country : Countries \cup {Unknown}, recipients : Nat, size : Nat,
     name : Names \cup {<<>>}, geo : BOOLEAN, maxGb : Nat, maxRecipients : Nat,
     reason : Reasons]

Stored ==
    /\ DOMAIN settings = SettingKeys
    /\ \A key \in SettingKeys : settings[key] \in Values(key) \cup {Null, DefaultOf(key)}

(* A stored value as the extension list it stands for. *)
AsList(v) == IF v = Null THEN {} ELSE v

(* What a session on the settings holds: the rows it loaded, and what it   *)
(* assigned to them; an edit of one extension leaves the others as loaded. *)
IsEdit(e) ==
    /\ DOMAIN e.new \subseteq SettingKeys /\ DOMAIN e.old = DOMAIN e.new
    /\ \A key \in DOMAIN e.new : /\ e.new[key] \in Values(key) \cup {Null}
                                 /\ e.old[key] \in Values(key) \cup {Null, DefaultOf(key)}
    /\ e.op # "patch" => \A y \in Spelling \ {e.x} :
                            y \in AsList(e.new[List]) <=> y \in AsList(e.old[List])

TableTypes ==
    /\ Stored
    /\ DOMAIN editing = Admins
    /\ \A a \in Admins : editing[a] # Null => IsEdit(editing[a])

GuardTypes == up \in Requests /\ Stored

(* What has stood all the time still stands, and what stands now has been  *)
(* seen.                                                                   *)
History ==
    up.at \notin {"idle", "refused", "created"} =>
        standing \subseteq Against(up) /\ Against(up) \subseteq ever

(* A check that is passed saw a moment at which its rule did not hold; the *)
(* policy decides on values it read before.                                *)
Passed ==
    /\ up.at \in PastIps => "ips" \notin standing
    /\ up.at \in PastEmails => "emails" \notin standing
    /\ up.at \in PastDomains => "domains" \notin standing
    /\ up.at = "geo_countries" /\ "geo_on" \in standing => up.geo
    /\ up.at \in PastCountry => "geo_on" \notin standing \/ "geo_out" \notin standing
    /\ up.at \in {"max_recipients", "blacklist"} /\ "size" \in standing => up.size > up.maxGb
    /\ up.at = "blacklist" /\ "recipients" \in standing => up.recipients > up.maxRecipients
    /\ up.at \in PastPolicy => {"recipients", "size", "extension"} \cap standing = {}

(* What a later refusal will rest on has been the case. *)
Grounds ==
    /\ up.at = "captcha" => Captcha
    /\ up.at = "geo_countries" /\ up.geo /\ reader => "geo_on" \in ever
    /\ up.at \in {"max_recipients", "blacklist"} /\ up.size > up.maxGb => "size" \in ever
    /\ up.at = "blacklist" /\ up.recipients > up.maxRecipients => "recipients" \in ever

GuardInv == GuardTypes /\ History /\ Passed /\ Grounds /\ RefusedForAReason

(***************************************************************************)
(* The extension list.  What an edit has loaded is the list as it is, but  *)
(* for the entries changed since.                                          *)
(***************************************************************************)
OnList(a) == editing[a] # Null /\ List \in DOMAIN editing[a].new

EditInv ==
    /\ TableTypes
    /\ ListAsAnswered
    /\ DOMAIN missed = Admins
    /\ \A a \in Admins : OnList(a) => \A y \in Spelling \ missed[a] :
          y \in AsList(editing[a].old[List]) <=> y \in get(List)

-----------------------------------------------------------------------------
(* Each part of Against names one rule. *)
LEMMA AgainstMeans ==
    ASSUME NEW u
    PROVE  /\ \A kind \in Kinds : kind \in Against(u) <=> Check(kind)
           /\ "geo_on" \in Against(u) <=> reader /\ get("geoip_enabled")
           /\ "geo_out" \in Against(u) <=> u.country \in Countries \ get("geoip_countries")
           /\ "recipients" \in Against(u) <=> u.recipients > get("max_recipients")
           /\ "size" \in Against(u) <=> u.size > get("max_transfer_size_gb")
           /\ "extension" \in Against(u) <=> Blacklisted(get("extension_blacklist"), u.name)
<1> DEFINE blocks == {KindOf(e) : e \in {f \in Entries : blocklist[f] = "active"}}
           on     == IF reader /\ get("geoip_enabled") THEN {"geo_on"} ELSE {}
           out    == IF u.country \in Countries \ get("geoip_countries") THEN {"geo_out"} ELSE {}
           blind  == IF ~reader /\ get("geoip_enabled") /\ get("geoip_countries") # {}
                       THEN {"geo_blind"} ELSE {}
           many   == IF u.recipients > get("max_recipients") THEN {"recipients"} ELSE {}
           large  == IF u.size > get("max_transfer_size_gb") THEN {"size"} ELSE {}
           ext    == IF Blacklisted(get("extension_blacklist"), u.name)
                       THEN {"extension"} ELSE {}
           listed == IF \E x \in ToSet(u.name), d \in BOOLEAN :
                              [ext |-> x, dot |-> d] \in get("extension_blacklist")
                       THEN {"listed"} ELSE {}
<1>1. Against(u) = blocks \cup on \cup out \cup blind \cup many \cup large \cup ext \cup listed
  BY DEF Against, Blacklisted, Extensions
<1>2. blocks \subseteq Kinds BY DEF KindOf, Entries, Kinds
<1>3. \A kind \in Kinds : kind \in blocks <=> Check(kind) BY DEF Check, NotExpired
<1>4. /\ on \subseteq {"geo_on"} /\ ("geo_on" \in on <=> reader /\ get("geoip_enabled"))
      /\ out \subseteq {"geo_out"}
      /\ ("geo_out" \in out <=> u.country \in Countries \ get("geoip_countries"))
  OBVIOUS
<1>5. blind \subseteq {"geo_blind"} /\ listed \subseteq {"listed"} OBVIOUS
<1>6. /\ many \subseteq {"recipients"}
      /\ ("recipients" \in many <=> u.recipients > get("max_recipients"))
      /\ large \subseteq {"size"}
      /\ ("size" \in large <=> u.size > get("max_transfer_size_gb"))
  OBVIOUS
<1>7. /\ ext \subseteq {"extension"}
      /\ ("extension" \in ext <=> Blacklisted(get("extension_blacklist"), u.name))
  OBVIOUS
<1> HIDE DEF blocks, on, out, blind, many, large, ext, listed
<1> QED BY <1>1, <1>2, <1>3, <1>4, <1>5, <1>6, <1>7 DEF Kinds

(* The values a setting can have when it is read. *)
LEMMA GetTypes ==
    ASSUME Stored
    PROVE  /\ get("geoip_enabled") \in BOOLEAN
           /\ get("max_recipients") \in Nat /\ get("max_transfer_size_gb") \in Nat
           /\ get("extension_blacklist") \in SUBSET Spelling
<1>1. /\ settings["geoip_enabled"] \in BOOLEAN \cup {Null}
      /\ settings["max_recipients"] \in Amounts \cup {Null, DefaultAmount}
      /\ settings["max_transfer_size_gb"] \in Amounts \cup {Null, DefaultAmount}
      /\ settings["extension_blacklist"] \in (SUBSET Spelling) \cup {Null}
  BY DEF Stored, SettingKeys, Values, DefaultOf
<1>2. /\ DefaultOf("geoip_enabled") = FALSE /\ DefaultOf("max_recipients") = DefaultAmount
      /\ DefaultOf("max_transfer_size_gb") = DefaultAmount
      /\ DefaultOf("extension_blacklist") = {}
  BY DEF DefaultOf
<1> QED BY <1>1, <1>2, GuardsAssumption DEF get

(* The rules look at the request itself, not at where it is. *)
LEMMA SameRequest ==
    ASSUME UNCHANGED Tables, up'.country = up.country, up'.recipients = up.recipients,
           up'.size = up.size, up'.name = up.name
    PROVE  Against(up)' = Against(up)
  BY DEF Tables, Against, get

(* The request goes on with its stage and what it has read. *)
LEMMA RequestFields ==
    ASSUME up \in Requests, NEW s \in Stages
    PROVE  /\ Goto(s) => /\ up' \in Requests /\ up'.at = s
                         /\ up'.country = up.country /\ up'.recipients = up.recipients
                         /\ up'.size = up.size /\ up'.name = up.name /\ up'.geo = up.geo
                         /\ up'.maxGb = up.maxGb /\ up'.maxRecipients = up.maxRecipients
           /\ \A reason \in Reasons : Refuse(reason) =>
                         up' \in Requests /\ up'.at = "refused" /\ up'.reason = reason
<1>1. \A reason \in Reasons : Refuse(reason) =>
         up' = [NoRequest EXCEPT !.at = "refused", !.reason = reason]
  BY DEF Refuse
<1>2. NoRequest \in Requests BY DEF NoRequest, Requests, Stages, Reasons
<1>3. "refused" \in Stages BY DEF Stages
<1> QED BY <1>1, <1>2, <1>3 DEF Requests, Goto

(* A refusal at the present stage, with its grounds. *)
LEMMA RefuseStep ==
    ASSUME GuardInv, Handler, up.at # "idle", NEW reason \in Reasons, Refuse(reason),
           CASE reason = "captcha" -> Captcha
             [] reason = "geo"     -> {"geo_on", "geo_out"} \subseteq ever
             [] OTHER              -> reason \in ever
    PROVE  GuardInv'
<1>1. up' \in Requests /\ up'.at = "refused" /\ up'.reason = reason
  BY RequestFields DEF GuardInv, GuardTypes, Stages
<1>2. UNCHANGED <<standing, ever, reader, settings, blocklist>> BY DEF Handler, Watch, Tables
<1>4. GuardTypes' BY <1>1, <1>2 DEF GuardInv, GuardTypes, Stored
<1>5. History' BY <1>1 DEF History
<1>6. Passed' /\ Grounds'
  BY <1>1 DEF Passed, Grounds, PastIps, PastEmails, PastDomains, PastCountry, PastPolicy
<1>7. RefusedForAReason' BY <1>1, <1>2 DEF RefusedForAReason
<1> QED BY <1>4, <1>5, <1>6, <1>7 DEF GuardInv

(* A step to the next stage keeps the history of the request. *)
LEMMA StageStep ==
    ASSUME GuardInv, Handler, up.at \notin {"idle", "refused", "created"}, up' \in Requests,
           up'.at # "refused",
           up'.country = up.country, up'.recipients = up.recipients,
           up'.size = up.size, up'.name = up.name, Passed', Grounds'
    PROVE  GuardInv'
<1>1. UNCHANGED <<standing, ever, reader, settings, blocklist>> BY DEF Handler, Watch, Tables
<1>2. Against(up)' = Against(up) BY <1>1, SameRequest DEF Tables
<1>3. GuardTypes' BY <1>1 DEF GuardInv, GuardTypes, Stored
<1>4. History' BY <1>1, <1>2 DEF GuardInv, History
<1>5. RefusedForAReason' BY DEF RefusedForAReason
<1> QED BY <1>3, <1>4, <1>5 DEF GuardInv

(* What speaks for or against a request while it waits. *)
LEMMA Seen ==
    ASSUME GuardInv, up.at \notin {"idle", "refused", "created"}
    PROVE  /\ \A kind \in Kinds : /\ ~Check(kind) => kind \notin standing
                                  /\ Check(kind) => kind \in ever
           /\ "geo_on" \in standing => reader /\ get("geoip_enabled")
           /\ reader /\ get("geoip_enabled") => "geo_on" \in ever
           /\ "geo_out" \in standing => up.country \in Countries \ get("geoip_countries")
           /\ up.country \in Countries \ get("geoip_countries") => "geo_out" \in ever
           /\ "recipients" \in standing => up.recipients > get("max_recipients")
           /\ up.recipients > get("max_recipients") => "recipients" \in ever
           /\ "size" \in standing => up.size > get("max_transfer_size_gb")
           /\ up.size > get("max_transfer_size_gb") => "size" \in ever
           /\ "extension" \in standing => Blacklisted(get("extension_blacklist"), up.name)
           /\ Blacklisted(get("extension_blacklist"), up.name) => "extension" \in ever
<1>1. standing \subseteq Against(up) /\ Against(up) \subseteq ever BY DEF GuardInv, History
<1> QED BY <1>1, AgainstMeans

(* A blocklist is asked. *)
LEMMA BlocklistStep ==
    ASSUME GuardInv, NEW kind \in Kinds, NEW next \in Stages,
           CheckBlocklist(kind, next),
           \/ kind = "ips" /\ next = "emails"
           \/ kind = "emails" /\ next = "domains"
           \/ kind = "domains" /\ next = "geo_enabled"
    PROVE  GuardInv'
<1>1. up.at = kind /\ Handler /\ kind \in Reasons
      /\ up.at \notin {"idle", "refused", "created"}
  BY DEF CheckBlocklist, Kinds, Reasons
<1>2. CASE Check(kind)
  <2>1. Refuse(kind) BY <1>2 DEF CheckBlocklist
  <2>2. kind \in ever BY <1>1, <1>2, Seen
  <2>3. kind # "captcha" /\ kind # "geo" BY DEF Kinds
  <2> QED BY <1>1, <2>1, <2>2, <2>3, RefuseStep
<1>3. CASE ~Check(kind)
  <2>1. Goto(next) BY <1>3 DEF CheckBlocklist
  <2>2. kind \notin standing BY <1>1, <1>3, Seen
  <2>3. /\ up' \in Requests /\ up'.at = next
        /\ up'.country = up.country /\ up'.recipients = up.recipients
        /\ up'.size = up.size /\ up'.name = up.name
    BY <2>1, RequestFields DEF GuardInv, GuardTypes
  <2>4. standing' = standing BY <1>1 DEF Handler, Watch
  <2>5. Passed'
    BY <1>1, <2>2, <2>3, <2>4
       DEF GuardInv, Passed, PastIps, PastEmails, PastDomains, PastCountry, PastPolicy
  <2>6. Grounds' BY <2>3 DEF Grounds
  <2>7. up'.at # "refused" BY <2>3
  <2> QED BY <1>1, <2>3, <2>5, <2>6, <2>7, StageStep
<1> QED BY <1>2, <1>3

(* The country gate and the first two reads of the policy. *)
LEMMA GateStep ==
    ASSUME GuardInv, ReadGeoEnabled \/ CheckCountry \/ ReadMaxGb \/ ReadMaxRecipients
    PROVE  GuardInv'
<1> USE DEF Stages, PastIps, PastEmails, PastDomains, PastCountry, PastPolicy
<1>0. Handler /\ standing' = standing /\ ever' = ever /\ reader' = reader /\ up \in Requests
      /\ Stored
  BY DEF ReadGeoEnabled, CheckCountry, ReadMaxGb, ReadMaxRecipients, Handler, Watch, Tables,
         GuardInv, GuardTypes
<1>1. CASE ReadGeoEnabled
  <2>1. up.at = "geo_enabled"
        /\ up' = [up EXCEPT !.at = "geo_countries", !.geo = get("geoip_enabled")]
    BY <1>1 DEF ReadGeoEnabled
  <2>2. get("geoip_enabled") \in BOOLEAN BY <1>0, GetTypes
  <2>3. /\ up' \in Requests /\ up'.at = "geo_countries" /\ up'.geo = get("geoip_enabled")
        /\ up'.country = up.country /\ up'.recipients = up.recipients
        /\ up'.size = up.size /\ up'.name = up.name
    BY <1>0, <2>1, <2>2 DEF Requests
  <2>4. "geo_on" \in standing => get("geoip_enabled") BY <2>1, Seen
  <2>5. reader /\ get("geoip_enabled") => "geo_on" \in ever BY <2>1, Seen
  <2>6. Passed' BY <1>0, <2>1, <2>3, <2>4 DEF GuardInv, Passed
  <2>7. Grounds' BY <1>0, <2>3, <2>5 DEF Grounds
  <2> QED BY <1>0, <2>1, <2>3, <2>6, <2>7, StageStep
<1>2. CASE CheckCountry
  <2> DEFINE shut == reader /\ up.geo /\ ~CountryAllowed(up.country, get("geoip_countries"))
  <2>1. up.at = "geo_countries" /\ (IF shut THEN Refuse("geo") ELSE Goto("max_gb"))
    BY <1>2 DEF CheckCountry
  <2>2. CASE shut
    <3>1. "geo_on" \in ever BY <2>1, <2>2 DEF GuardInv, Grounds
    <3>2. up.country \in Countries \ get("geoip_countries")
      BY <1>0, <2>2 DEF CountryAllowed, Requests
    <3>3. "geo_out" \in ever BY <2>1, <3>2, Seen
    <3> QED BY <1>0, <2>1, <2>2, <3>1, <3>3, RefuseStep DEF Reasons
  <2>3. CASE ~shut
    <3>1. Goto("max_gb") BY <2>1, <2>3
    <3>2. /\ up' \in Requests /\ up'.at = "max_gb"
          /\ up'.country = up.country /\ up'.recipients = up.recipients
          /\ up'.size = up.size /\ up'.name = up.name
      BY <1>0, <3>1, RequestFields
    <3>3. "geo_on" \notin standing \/ "geo_out" \notin standing
      <4>1. "geo_on" \in standing => reader /\ up.geo
        BY <2>1, Seen DEF GuardInv, Passed
      <4>2. "geo_out" \in standing => up.country \in Countries \ get("geoip_countries")
        BY <2>1, Seen
      <4>3. Unknown \notin Countries BY DEF Unknown, Countries
      <4> QED BY <2>3, <4>1, <4>2, <4>3 DEF CountryAllowed
    <3>4. Passed' BY <1>0, <2>1, <3>2, <3>3 DEF GuardInv, Passed
    <3>5. Grounds' BY <3>2 DEF Grounds
    <3> QED BY <1>0, <2>1, <3>2, <3>4, <3>5, StageStep
  <2> QED BY <2>2, <2>3
<1>3. CASE ReadMaxGb
  <2>1. up.at = "max_gb"
        /\ up' = [up EXCEPT !.at = "max_recipients", !.maxGb = get("max_transfer_size_gb")]
    BY <1>3 DEF ReadMaxGb
  <2>2. get("max_transfer_size_gb") \in Nat BY <1>0, GetTypes
  <2>3. /\ up' \in Requests /\ up'.at = "max_recipients"
        /\ up'.maxGb = get("max_transfer_size_gb")
        /\ up'.country = up.country /\ up'.recipients = up.recipients
        /\ up'.size = up.size /\ up'.name = up.name
    BY <1>0, <2>1, <2>2 DEF Requests
  <2>4. ("size" \in standing => up.size > get("max_transfer_size_gb"))
        /\ (up.size > get("max_transfer_size_gb") => "size" \in ever)
    BY <2>1, Seen
  <2>5. Passed' BY <1>0, <2>1, <2>3, <2>4 DEF GuardInv, Passed
  <2>6. Grounds' BY <1>0, <2>3, <2>4 DEF Grounds
  <2> QED BY <1>0, <2>1, <2>3, <2>5, <2>6, StageStep
<1>4. CASE ReadMaxRecipients
  <2>1. up.at = "max_recipients"
        /\ up' = [up EXCEPT !.at = "blacklist", !.maxRecipients = get("max_recipients")]
    BY <1>4 DEF ReadMaxRecipients
  <2>2. get("max_recipients") \in Nat BY <1>0, GetTypes
  <2>3. /\ up' \in Requests /\ up'.at = "blacklist" /\ up'.maxGb = up.maxGb
        /\ up'.maxRecipients = get("max_recipients")
        /\ up'.country = up.country /\ up'.recipients = up.recipients
        /\ up'.size = up.size /\ up'.name = up.name
    BY <1>0, <2>1, <2>2 DEF Requests
  <2>4. ("recipients" \in standing => up.recipients > get("max_recipients"))
        /\ (up.recipients > get("max_recipients") => "recipients" \in ever)
    BY <2>1, Seen
  <2>5. Passed' BY <1>0, <2>1, <2>3, <2>4 DEF GuardInv, Passed
  <2>6. Grounds' BY <1>0, <2>1, <2>3, <2>4 DEF GuardInv, Grounds
  <2> QED BY <1>0, <2>1, <2>3, <2>5, <2>6, StageStep
<1> QED BY <1>1, <1>2, <1>3, <1>4

(* UploadPolicy.check decides on two values read before and the list as it *)
(* is.                                                                     *)
LEMMA PolicyStep ==
    ASSUME GuardInv, CheckPolicy
    PROVE  GuardInv'
<1> USE DEF Stages, PastIps, PastEmails, PastDomains, PastCountry, PastPolicy
<1>1. Handler /\ standing' = standing /\ up \in Requests /\ up.at = "blacklist"
  BY DEF CheckPolicy, Handler, Watch, GuardInv, GuardTypes
<1>2. up.recipients \in Nat /\ up.maxRecipients \in Nat /\ up.size \in Nat /\ up.maxGb \in Nat
  BY <1>1 DEF Requests
<1>3. CASE up.recipients > up.maxRecipients
  <2>1. Refuse("recipients") BY <1>2, <1>3 DEF CheckPolicy
  <2>2. "recipients" \in ever BY <1>1, <1>3 DEF GuardInv, Grounds
  <2> QED BY <1>1, <2>1, <2>2, RefuseStep DEF Reasons
<1>4. CASE ~(up.recipients > up.maxRecipients) /\ up.size > up.maxGb
  <2>1. Refuse("size") BY <1>2, <1>4 DEF CheckPolicy
  <2>2. "size" \in ever BY <1>1, <1>4 DEF GuardInv, Grounds
  <2> QED BY <1>1, <2>1, <2>2, RefuseStep DEF Reasons
<1>5. CASE ~(up.recipients > up.maxRecipients) /\ ~(up.size > up.maxGb)
  <2>1. IF Blacklisted(get("extension_blacklist"), up.name)
          THEN Refuse("extension") ELSE Goto("create")
    BY <1>2, <1>5 DEF CheckPolicy
  <2>2. CASE Blacklisted(get("extension_blacklist"), up.name)
    <3>1. "extension" \in ever BY <1>1, <2>2, Seen
    <3> QED BY <1>1, <2>1, <2>2, <3>1, RefuseStep DEF Reasons
  <2>3. CASE ~Blacklisted(get("extension_blacklist"), up.name)
    <3>1. "extension" \notin standing BY <1>1, <2>3, Seen
    <3>2. "recipients" \notin standing /\ "size" \notin standing
      BY <1>1, <1>5 DEF GuardInv, Passed
    <3>3. /\ up' \in Requests /\ up'.at = "create"
          /\ up'.country = up.country /\ up'.recipients = up.recipients
          /\ up'.size = up.size /\ up'.name = up.name
      BY <1>1, <2>1, <2>3, RequestFields
    <3>4. Passed' BY <1>1, <3>1, <3>2, <3>3 DEF GuardInv, Passed
    <3>5. Grounds' BY <3>3 DEF Grounds
    <3> QED BY <1>1, <3>3, <3>4, <3>5, StageStep
  <2> QED BY <2>2, <2>3
<1> QED BY <1>3, <1>4, <1>5

(* Edits of the tables: the request is where it was, and its history takes *)
(* note.                                                                   *)
LEMMA TablesStep ==
    ASSUME GuardInv, UNCHANGED <<up, reader>>, Note, Stored'
    PROVE  GuardInv'
<1>1. GuardTypes' BY DEF GuardInv, GuardTypes
<1>2. standing' \subseteq standing /\ ever \subseteq ever' BY DEF Note, Watch
<1>3. History' BY DEF Note, History
<1>4. Passed' BY <1>2 DEF GuardInv, Passed
<1>5. Grounds' BY <1>2 DEF GuardInv, Grounds
<1>6. RefusedForAReason' BY <1>2 DEF GuardInv, RefusedForAReason
<1> QED BY <1>1, <1>3, <1>4, <1>5, <1>6 DEF GuardInv

(* What the handlers assign: a PATCH another key, the others one entry. *)
Assigns(a, op, x, key, v) ==
    /\ op = "patch" /\ editing[a] # Null => key \notin DOMAIN editing[a].new
    /\ op # "patch" => /\ editing[a] = Null /\ key = List
                       /\ \A y \in Spelling \ {x} :
                             y \in AsList(v) <=> y \in AsList(settings[List])

(* Loading a row and assigning to it makes an edit of the session. *)
LEMMA LoadMakesEdit ==
    ASSUME TableTypes, NEW a \in Admins, NEW op, NEW x, NEW key \in SettingKeys,
           NEW v \in Values(key) \cup {Null}, Load(a, op, x, key, v), Assigns(a, op, x, key, v)
    PROVE  /\ editing' = [editing EXCEPT ![a] = editing'[a]]
           /\ editing'[a] # Null => IsEdit(editing'[a])
           /\ DOMAIN editing'[a].new = DOMAIN Session(a).new \cup {key}
           /\ editing'[a].old[key] = settings[key]
           /\ \A k \in DOMAIN Session(a).old \ {key} :
                 editing'[a].old[k] = Session(a).old[k]
<1> DEFINE e == [op |-> op, x |-> x, old |-> With(Session(a).old, key, settings[key]),
                 new |-> With(Session(a).new, key, v)]
<1>1. editing' = [editing EXCEPT ![a] = e] /\ editing'[a] = e BY DEF Load, TableTypes
<1>2. /\ DOMAIN Session(a).new \subseteq SettingKeys
      /\ DOMAIN Session(a).old = DOMAIN Session(a).new
      /\ \A k \in DOMAIN Session(a).new :
            /\ Session(a).new[k] \in Values(k) \cup {Null}
            /\ Session(a).old[k] \in Values(k) \cup {Null, DefaultOf(k)}
  BY DEF Session, TableTypes, IsEdit
<1>3. settings[key] \in Values(key) \cup {Null, DefaultOf(key)} BY DEF TableTypes, Stored
<1>4. /\ DOMAIN e.new = DOMAIN Session(a).new \cup {key}
      /\ DOMAIN e.old = DOMAIN Session(a).old \cup {key}
      /\ e.new[key] = v /\ e.old[key] = settings[key]
      /\ \A k \in DOMAIN Session(a).new \ {key} : e.new[k] = Session(a).new[k]
      /\ \A k \in DOMAIN Session(a).old \ {key} : e.old[k] = Session(a).old[k]
  BY DEF With
<1>5. IsEdit(e)
  <2>1. e.op # "patch" => \A y \in Spelling \ {e.x} :
                            y \in AsList(e.new[List]) <=> y \in AsList(e.old[List])
    BY <1>4 DEF Assigns
  <2> HIDE DEF e
  <2> QED BY <1>2, <1>3, <1>4, <2>1 DEF IsEdit
<1> HIDE DEF e
<1> QED BY <1>1, <1>4, <1>5

(* An edit of one entry assigns a list that differs in that entry. *)
LEMMA EditedAssigns ==
    ASSUME TableTypes, NEW a \in Admins, NEW op \in {"add", "remove"}, NEW x \in Spelling,
           editing[a] = Null
    PROVE  /\ List \in SettingKeys /\ Edited(op, x, get(List)) \in Values(List)
           /\ Assigns(a, op, x, List, Edited(op, x, get(List)))
<1>1. get(List) = AsList(settings[List]) BY DEF get, AsList, List, DefaultOf
<1>2. get(List) \in SUBSET Spelling BY GetTypes DEF TableTypes, List
<1>3. Edited(op, x, get(List)) \in SUBSET Spelling BY <1>2 DEF Edited
<1>4. Values(List) = SUBSET Spelling /\ List \in SettingKeys BY DEF Values, List, SettingKeys
<1>5. Edited(op, x, get(List)) # Null BY <1>3, <1>4, NullAssumption
<1>6. AsList(Edited(op, x, get(List))) = Edited(op, x, get(List)) BY <1>5 DEF AsList
<1>7. \A y \in Spelling \ {x} : y \in Edited(op, x, get(List)) <=> y \in AsList(settings[List])
  BY <1>1 DEF Edited
<1> QED BY <1>3, <1>4, <1>6, <1>7 DEF Assigns

(* Settings and sessions keep their types. *)
LEMMA TableTypesStep == TableTypes /\ [Next]_vars => TableTypes'
<1> SUFFICES ASSUME TableTypes, [Next]_vars PROVE TableTypes' OBVIOUS
<1>1. CASE UNCHANGED <<settings, editing>> BY <1>1 DEF TableTypes, Stored
<1>2. ASSUME NEW a \in Admins, NEW key \in SettingKeys, NEW v \in Values(key) \cup {Null},
             PatchLoad(a, key, v)
      PROVE  TableTypes'
  <2>1. /\ Load(a, "patch", Null, key, v)
        /\ editing[a] # Null => key \notin DOMAIN editing[a].new
    BY <1>2 DEF PatchLoad
  <2>2. Assigns(a, "patch", Null, key, v) BY <2>1 DEF Assigns
  <2>4. editing' = [editing EXCEPT ![a] = editing'[a]]
        /\ (editing'[a] # Null => IsEdit(editing'[a]))
    BY <2>1, <2>2, LoadMakesEdit
  <2>3. settings' = settings BY <2>1 DEF Load, Tables
  <2> QED BY <2>3, <2>4 DEF TableTypes, Stored
<1>3. ASSUME NEW a \in Admins, NEW op \in {"add", "remove"}, NEW x \in Spelling,
             ExtensionLoad(a, op, x)
      PROVE  TableTypes'
  <2>1. /\ Load(a, op, x, List, Edited(op, x, get(List)))
        /\ editing[a] = Null /\ (op = "remove" => x \in get(List)) /\ op # "patch"
    BY <1>3 DEF ExtensionLoad
  <2>2. /\ List \in SettingKeys /\ Edited(op, x, get(List)) \in Values(List)
        /\ Assigns(a, op, x, List, Edited(op, x, get(List)))
    BY <2>1, EditedAssigns
  <2>4. editing' = [editing EXCEPT ![a] = editing'[a]]
        /\ (editing'[a] # Null => IsEdit(editing'[a]))
    BY <2>1, <2>2, LoadMakesEdit
  <2>3. settings' = settings BY <2>1 DEF Load, Tables
  <2> QED BY <2>3, <2>4 DEF TableTypes, Stored
<1>4. ASSUME NEW a \in Admins, SettingsCommit(a) PROVE TableTypes'
  <2>1. /\ editing' = [editing EXCEPT ![a] = Null] /\ IsEdit(editing[a])
        /\ settings' = [key \in SettingKeys |->
                           IF key \in DOMAIN editing[a].new
                             THEN Flush(editing[a].old[key], editing[a].new[key], settings[key])
                             ELSE settings[key]]
    BY <1>4 DEF SettingsCommit, TableTypes
  <2>2. Stored' BY <2>1 DEF TableTypes, Stored, IsEdit, Flush
  <2> QED BY <2>1, <2>2 DEF TableTypes
<1>5. ASSUME NEW a \in Admins, NEW e \in Entries, BlocklistAdd(a, e) \/ BlocklistDelete(a, e)
      PROVE  TableTypes'
  BY <1>1, <1>5 DEF BlocklistAdd, BlocklistDelete, editVars
<1>6. ASSUME NEW e \in Entries, EntryLapses(e) PROVE TableTypes'
  BY <1>1, <1>6 DEF EntryLapses, editVars
<1>7. ASSUME NEW country, NEW recipients, NEW size, NEW name,
             Arrive(country, recipients, size, name)
      PROVE  TableTypes'
  BY <1>1, <1>7 DEF Arrive, Tables, editVars
<1>8. CASE \/ VerifyCaptcha \/ CheckBlocklist("ips", "emails")
           \/ CheckBlocklist("emails", "domains") \/ CheckBlocklist("domains", "geo_enabled")
           \/ ReadGeoEnabled \/ CheckCountry \/ ReadMaxGb \/ ReadMaxRecipients
           \/ CheckPolicy \/ Create \/ RequestEnds
  BY <1>1, <1>8 DEF VerifyCaptcha, CheckBlocklist, ReadGeoEnabled, CheckCountry, ReadMaxGb,
                    ReadMaxRecipients, CheckPolicy, Create, RequestEnds, Handler, Tables, editVars
<1>9. CASE UNCHANGED vars BY <1>1, <1>9 DEF vars, editVars
<1> QED BY <1>2, <1>3, <1>4, <1>5, <1>6, <1>7, <1>8, <1>9 DEF Next

(* A request comes in, or its answer goes out. *)
LEMMA ArriveStep ==
    ASSUME GuardInv, NEW country \in Countries \cup {Unknown}, NEW recipients \in Amounts,
           NEW size \in Amounts, NEW name \in Names,
           Arrive(country, recipients, size, name)
    PROVE  GuardInv'
<1>1. /\ UNCHANGED <<reader, blocklist, settings>>
      /\ standing' = Against(up') /\ ever' = Against(up')
  BY DEF Arrive, Tables
<1>2. recipients \in Nat /\ size \in Nat BY GuardsAssumption
<1>3. up' \in Requests /\ up'.at = IF Captcha THEN "captcha" ELSE "ips"
  BY <1>2, GuardsAssumption
     DEF Arrive, NoRequest, Requests, Stages, Reasons, PastIps, PastEmails, PastDomains,
         PastCountry, PastPolicy
<1>4. Against(up)' = Against(up') BY <1>1 DEF Against, get
<1>5. GuardTypes' BY <1>1, <1>3 DEF GuardInv, GuardTypes, Stored
<1>6. History' BY <1>1, <1>4 DEF History
<1>7. Passed' /\ RefusedForAReason'
  BY <1>3 DEF Passed, RefusedForAReason, PastIps, PastEmails, PastDomains, PastCountry,
              PastPolicy
<1>8. Grounds' BY <1>3, GuardsAssumption DEF Grounds
<1> QED BY <1>5, <1>6, <1>7, <1>8 DEF GuardInv

(* No request at all satisfies the invariant. *)
LEMMA IdleInv ==
    ASSUME up = NoRequest, Stored
    PROVE  GuardInv
<1>1. up \in Requests /\ up.at = "idle"
  BY DEF NoRequest, Requests, Stages, Reasons
<1> QED
  BY <1>1 DEF GuardInv, GuardTypes, History, Passed, Grounds, RefusedForAReason, PastIps,
              PastEmails, PastDomains, PastCountry, PastPolicy

(* No step of the request and no edit breaks the invariant. *)
LEMMA GuardStep == GuardInv /\ TableTypes' /\ [Next]_vars => GuardInv'
<1> SUFFICES ASSUME GuardInv, TableTypes', [Next]_vars PROVE GuardInv' OBVIOUS
<1>1. ASSUME NEW country \in Countries \cup {Unknown}, NEW recipients \in Amounts,
             NEW size \in Amounts, NEW name \in Names,
             Arrive(country, recipients, size, name)
      PROVE  GuardInv'
  BY <1>1, ArriveStep
<1>2. CASE VerifyCaptcha
  <2>1. up.at = "captcha" /\ Handler /\ (Goto("ips") \/ Refuse("captcha"))
    BY <1>2 DEF VerifyCaptcha
  <2>2. CASE Refuse("captcha")
    <3>1. Captcha BY <2>1 DEF GuardInv, Grounds
    <3> QED BY <2>1, <2>2, <3>1, RefuseStep DEF Reasons
  <2>3. CASE Goto("ips")
    <3>1. /\ up' \in Requests /\ up'.at = "ips"
          /\ up'.country = up.country /\ up'.recipients = up.recipients
          /\ up'.size = up.size /\ up'.name = up.name
      BY <2>3, RequestFields DEF GuardInv, GuardTypes, Stages
    <3>2. Passed' /\ Grounds'
      BY <3>1 DEF Passed, Grounds, PastIps, PastEmails, PastDomains, PastCountry, PastPolicy
    <3> QED BY <2>1, <3>1, <3>2, StageStep
  <2> QED BY <2>1, <2>2, <2>3
<1>3. CASE \/ CheckBlocklist("ips", "emails") \/ CheckBlocklist("emails", "domains")
           \/ CheckBlocklist("domains", "geo_enabled")
  <2>1. {"emails", "domains", "geo_enabled"} \subseteq Stages
    BY DEF Stages, PastIps, PastEmails, PastDomains
  <2>2. CASE CheckBlocklist("ips", "emails") BY <2>1, <2>2, BlocklistStep DEF Kinds
  <2>3. CASE CheckBlocklist("emails", "domains") BY <2>1, <2>3, BlocklistStep DEF Kinds
  <2>4. CASE CheckBlocklist("domains", "geo_enabled") BY <2>1, <2>4, BlocklistStep DEF Kinds
  <2> QED BY <1>3, <2>2, <2>3, <2>4
<1>4. CASE ReadGeoEnabled \/ CheckCountry \/ ReadMaxGb \/ ReadMaxRecipients
  BY <1>4, GateStep
<1>5. CASE CheckPolicy BY <1>5, PolicyStep
<1>6. CASE Create
  <2>1. up.at = "create" /\ Handler /\ up' = [NoRequest EXCEPT !.at = "created"]
    BY <1>6 DEF Create
  <2>2. up' \in Requests /\ up'.at = "created"
    BY <2>1
       DEF NoRequest, Requests, Reasons, Stages, PastIps, PastEmails, PastDomains, PastCountry,
           PastPolicy
  <2>3. standing' = standing /\ settings' = settings BY <2>1 DEF Handler, Watch, Tables
  <2>4. Passed' /\ Grounds'
    BY <2>1, <2>2, <2>3
       DEF GuardInv, Passed, Grounds, PastIps, PastEmails, PastDomains, PastCountry, PastPolicy
  <2>5. GuardTypes' BY <2>2, <2>3 DEF GuardInv, GuardTypes, Stored
  <2>6. History' /\ RefusedForAReason' BY <2>2 DEF History, RefusedForAReason
  <2> QED BY <2>4, <2>5, <2>6 DEF GuardInv
<1>7. CASE RequestEnds
  <2>1. up' = NoRequest /\ Stored' BY <1>7 DEF RequestEnds, TableTypes
  <2>2. up' \in Requests /\ up'.at = "idle"
    BY <2>1 DEF NoRequest, Requests, Stages, Reasons
  <2> QED
    BY <2>1, <2>2 DEF GuardInv, GuardTypes, History, Passed, Grounds, RefusedForAReason,
                      PastIps, PastEmails, PastDomains, PastCountry, PastPolicy
<1>8. ASSUME NEW e \in Entries, EntryLapses(e) PROVE GuardInv'
  BY <1>8, TablesStep DEF EntryLapses, TableTypes
<1>9. ASSUME NEW a \in Admins, NEW e \in Entries, BlocklistAdd(a, e) \/ BlocklistDelete(a, e)
      PROVE  GuardInv'
  BY <1>9, TablesStep DEF BlocklistAdd, BlocklistDelete, TableTypes
<1>10. CASE UNCHANGED <<reader, blocklist, settings, up, standing, ever>>
  <2>1. Against(up)' = Against(up) BY <1>10 DEF Against, get
  <2> QED BY <1>10, <2>1
          DEF GuardInv, GuardTypes, Stored, History, Passed, Grounds, RefusedForAReason
<1>11. ASSUME NEW a \in Admins, NEW key \in SettingKeys, NEW v, PatchLoad(a, key, v)
       PROVE  GuardInv'
  BY <1>11, <1>10 DEF PatchLoad, Load, Tables
<1>12. ASSUME NEW a \in Admins, SettingsCommit(a) PROVE GuardInv'
  BY <1>12, TablesStep DEF SettingsCommit, TableTypes
<1>13. ASSUME NEW a \in Admins, NEW op, NEW x, ExtensionLoad(a, op, x) PROVE GuardInv'
  BY <1>10, <1>13 DEF ExtensionLoad, Load, Tables
<1>14. CASE UNCHANGED vars BY <1>10, <1>14 DEF vars
<1> QED BY <1>1, <1>2, <1>3, <1>4, <1>5, <1>6, <1>7, <1>8, <1>9, <1>11, <1>12, <1>13, <1>14
        DEF Next

(* The initial state. *)
LEMMA InitGuards == Init => GuardInv /\ EditInv
<1> SUFFICES ASSUME Init PROVE GuardInv /\ EditInv OBVIOUS
<1>1. Stored
  <2>1. \A key \in SettingKeys : settings[key] = DefaultOf(key) BY DEF Init
  <2> QED BY <2>1 DEF Init, Stored
<1>2. TableTypes BY <1>1 DEF Init, TableTypes
<1>3. get(List) = {} BY DEF Init, get, SettingKeys, List, DefaultOf
<1>4. EditInv BY <1>2, <1>3 DEF Init, EditInv, OnList, ListAsAnswered
<1>5. GuardInv BY <1>1, IdleInv DEF Init
<1> QED BY <1>4, <1>5

(* The reachable states satisfy both. *)
LEMMA GuardInvariance == Spec => [](TableTypes /\ GuardInv)
<1>1. Init => TableTypes /\ GuardInv BY InitGuards DEF EditInv
<1>2. (TableTypes /\ GuardInv) /\ [Next]_vars => (TableTypes /\ GuardInv)'
  BY TableTypesStep, GuardStep
<1> QED BY <1>1, <1>2, PTL DEF Spec

(* However many administrators edit the tables between the checks of a     *)
(* request, and with any limits and extensions: create_transfer lets       *)
(* nothing pass against which a rule stood from its arrival on.            *)
THEOREM StandingRulesHold == Spec => []RulesHold
<1>1. GuardInv => RulesHold
  BY DEF GuardInv, Passed, RulesHold, PastIps, PastEmails, PastDomains, PastCountry, PastPolicy
<1> QED BY <1>1, GuardInvariance, PTL

(* Under the same conditions no check refuses a request for something that *)
(* was not the case at any moment since it came in, although the policy    *)
(* decides on settings read earlier.                                       *)
THEOREM RefusalsAreFounded == Spec => []RefusedForAReason
<1>1. GuardInv => RefusedForAReason BY DEF GuardInv
<1> QED BY <1>1, GuardInvariance, PTL

(* Loads leave the list alone; the session that loads it has missed        *)
(* nothing yet.                                                            *)
LEMMA LoadStep ==
    ASSUME EditInv, TableTypes', NEW a \in Admins, NEW op, NEW x, NEW key \in SettingKeys,
           NEW v \in Values(key) \cup {Null}, Load(a, op, x, key, v), Assigns(a, op, x, key, v)
    PROVE  EditInv'
<1>1. /\ UNCHANGED <<settings, answered, disputed>>
      /\ missed' = IF key = List THEN [missed EXCEPT ![a] = {}] ELSE missed
  BY DEF Load, Tables
<1>2. get(List)' = get(List) BY <1>1 DEF get
<1>3. get(List) = AsList(settings[List]) BY DEF get, AsList, List, DefaultOf
<1>4. /\ editing' = [editing EXCEPT ![a] = editing'[a]]
      /\ DOMAIN editing'[a].new = DOMAIN Session(a).new \cup {key}
      /\ editing'[a].old[key] = settings[key]
      /\ \A k \in DOMAIN Session(a).old \ {key} : editing'[a].old[k] = Session(a).old[k]
  <2>1. TableTypes BY DEF EditInv
  <2>2. editing' = [editing EXCEPT ![a] = editing'[a]] BY <2>1, LoadMakesEdit
  <2>3. DOMAIN editing'[a].new = DOMAIN Session(a).new \cup {key} BY <2>1, LoadMakesEdit
  <2>4. editing'[a].old[key] = settings[key] BY <2>1 DEF Load, With, TableTypes
  <2>5. \A k \in DOMAIN Session(a).old \ {key} : editing'[a].old[k] = Session(a).old[k]
    BY <2>1, LoadMakesEdit
  <2> QED BY <2>2, <2>3, <2>4, <2>5
<1>5. ASSUME NEW b \in Admins, OnList(b)', NEW y \in Spelling \ missed'[b]
      PROVE  y \in AsList(editing'[b].old[List]) <=> y \in get(List)
  <2>1. CASE b # a
    <3>1. OnList(b) /\ editing'[b] = editing[b] /\ missed'[b] = missed[b]
      BY <1>1, <1>4, <1>5, <2>1 DEF OnList, EditInv, TableTypes
    <3> QED BY <1>5, <3>1 DEF EditInv
  <2>2. CASE b = a /\ key = List BY <1>3, <1>4, <2>2
  <2>3. CASE b = a /\ key # List
    <3>1. List \in DOMAIN Session(a).new BY <1>4, <1>5, <2>3 DEF OnList
    <3>2. editing[a] # Null /\ Session(a) = editing[a] BY <3>1 DEF Session
    <3>3. DOMAIN editing[a].old = DOMAIN editing[a].new
      BY <3>2 DEF EditInv, TableTypes, IsEdit
    <3>4. editing'[a].old[List] = editing[a].old[List] BY <1>4, <2>3, <3>1, <3>2, <3>3
    <3>5. OnList(a) /\ missed'[a] = missed[a] BY <1>1, <2>3, <3>1, <3>2 DEF OnList
    <3> QED BY <1>5, <2>3, <3>4, <3>5 DEF EditInv
  <2> QED BY <2>1, <2>2, <2>3
<1>6. DOMAIN missed' = Admins BY <1>1 DEF EditInv
<1>7. ListAsAnswered' BY <1>1, <1>2 DEF EditInv, ListAsAnswered
<1> QED BY <1>2, <1>5, <1>6, <1>7 DEF EditInv

(* The list a commit leaves behind: in the entries that did not change     *)
(* since the load it is the one that was assigned, and elsewhere what was  *)
(* assigned or what was stored.                                            *)
LEMMA CommitLeaves ==
    ASSUME EditInv, NEW a \in Admins, SettingsCommit(a)
    PROVE  /\ List \notin DOMAIN editing[a].new => get(List)' = get(List)
           /\ List \in DOMAIN editing[a].new =>
                \A y \in Spelling \ missed[a] :
                   y \in get(List)' <=> y \in AsList(editing[a].new[List])
<1> DEFINE e == editing[a]
<1>1. e # Null /\ IsEdit(e) BY DEF SettingsCommit, EditInv, TableTypes
<1>2. settings'[List] = IF List \in DOMAIN e.new
                          THEN Flush(e.old[List], e.new[List], settings[List])
                          ELSE settings[List]
  BY DEF SettingsCommit, List, SettingKeys
<1>3. /\ get(List) = AsList(settings[List])
      /\ get(List)' = AsList(settings'[List])
  BY DEF get, AsList, List, DefaultOf
<1>4. CASE List \notin DOMAIN e.new BY <1>2, <1>3, <1>4
<1>5. ASSUME List \in DOMAIN e.new, NEW y \in Spelling \ missed[a]
      PROVE  y \in get(List)' <=> y \in AsList(e.new[List])
  <2>1. y \in AsList(e.old[List]) <=> y \in get(List)
    BY <1>1, <1>5 DEF EditInv, OnList
  <2>2. CASE e.new[List] = e.old[List] BY <1>2, <1>3, <1>5, <2>1, <2>2 DEF Flush
  <2>3. CASE e.new[List] # e.old[List] BY <1>2, <1>3, <1>5, <2>3 DEF Flush
  <2> QED BY <2>2, <2>3
<1> QED BY <1>4, <1>5

(* A commit of the list, whatever was committed since it was loaded. *)
LEMMA CommitStep ==
    ASSUME EditInv, TableTypes', NEW a \in Admins, SettingsCommit(a)
    PROVE  EditInv'
<1> DEFINE e     == editing[a]
           mine  == List \in DOMAIN e.new
           asked == AsList(e.new[List])
<1>1. /\ e # Null /\ IsEdit(e) /\ editing' = [editing EXCEPT ![a] = Null]
      /\ answered' = IF mine THEN (answered \ Touches(e)) \cup (asked \cap Touches(e))
                     ELSE answered
      /\ disputed' = IF mine THEN (disputed \ Touches(e)) \cup missed[a] ELSE disputed
  BY DEF SettingsCommit, EditInv, TableTypes, AsList
<1>2. /\ DOMAIN missed' = Admins
      /\ \A b \in Admins : OnList(b)' =>
           missed'[b] = missed[b] \cup Differences(get(List), get(List)')
  BY DEF SettingsCommit, OnList
<1>3. ListAsAnswered'
  <2>1. CASE ~mine
    <3>1. get(List)' = get(List) /\ answered' = answered /\ disputed' = disputed
      BY <1>1, <2>1, CommitLeaves
    <3> QED BY <3>1 DEF EditInv, ListAsAnswered
  <2>2. CASE mine
    <3> SUFFICES ASSUME NEW y \in Spelling \ disputed'
                 PROVE  y \in get(List)' <=> y \in answered'
      BY DEF ListAsAnswered
    <3>1. y \notin missed[a] /\ (y \notin disputed \/ y \in Touches(e)) BY <1>1, <2>2
    <3>2. y \in get(List)' <=> y \in asked BY <2>2, <3>1, CommitLeaves
    <3>3. CASE y \in Touches(e) BY <1>1, <2>2, <3>2, <3>3
    <3>4. CASE y \notin Touches(e)
      <4>1. e.op # "patch" /\ y # e.x BY <2>2, <3>4 DEF Touches
      <4>2. y \in asked <=> y \in AsList(e.old[List]) BY <1>1, <4>1 DEF IsEdit
      <4>3. y \in AsList(e.old[List]) <=> y \in get(List)
        BY <1>1, <2>2, <3>1 DEF EditInv, OnList
      <4>4. y \in get(List) <=> y \in answered BY <3>1, <3>4 DEF EditInv, ListAsAnswered
      <4>5. y \in answered' <=> y \in answered BY <1>1, <2>2, <3>4
      <4> QED BY <3>2, <4>2, <4>3, <4>4, <4>5
    <3> QED BY <3>3, <3>4
  <2> QED BY <2>1, <2>2
<1>4. ASSUME NEW b \in Admins, OnList(b)', NEW y \in Spelling \ missed'[b]
      PROVE  y \in AsList(editing'[b].old[List]) <=> y \in get(List)'
  <2>1. b # a /\ editing'[b] = editing[b] /\ OnList(b)
    BY <1>1, <1>4 DEF OnList, EditInv, TableTypes
  <2>2. y \notin missed[b] /\ y \notin Differences(get(List), get(List)') BY <1>2, <1>4
  <2>3. y \in AsList(editing[b].old[List]) <=> y \in get(List) BY <2>1, <2>2 DEF EditInv
  <2> QED BY <2>1, <2>2, <2>3 DEF Differences
<1> QED BY <1>2, <1>3, <1>4 DEF EditInv

(* No step breaks the invariant of the list. *)
LEMMA EditStep == EditInv /\ [Next]_vars => EditInv'
<1> SUFFICES ASSUME EditInv, [Next]_vars PROVE EditInv' OBVIOUS
<1>0. TableTypes' BY TableTypesStep DEF EditInv
<1>1. CASE UNCHANGED <<settings, editVars>>
  <2>1. get(List)' = get(List) BY <1>1 DEF get
  <2> QED BY <1>0, <1>1, <2>1 DEF EditInv, ListAsAnswered, OnList, editVars
<1>2. ASSUME NEW a \in Admins, NEW key \in SettingKeys, NEW v \in Values(key) \cup {Null},
             PatchLoad(a, key, v)
      PROVE  EditInv'
  <2>1. Load(a, "patch", Null, key, v) /\ Assigns(a, "patch", Null, key, v)
    BY <1>2 DEF PatchLoad, Assigns
  <2> QED BY <1>0, <2>1, LoadStep
<1>3. ASSUME NEW a \in Admins, NEW op \in {"add", "remove"}, NEW x \in Spelling,
             ExtensionLoad(a, op, x)
      PROVE  EditInv'
  <2>1. /\ Load(a, op, x, List, Edited(op, x, get(List)))
        /\ editing[a] = Null /\ (op = "remove" => x \in get(List)) /\ op # "patch"
    BY <1>3 DEF ExtensionLoad
  <2>2. /\ List \in SettingKeys /\ Edited(op, x, get(List)) \in Values(List)
        /\ Assigns(a, op, x, List, Edited(op, x, get(List)))
    BY <2>1, EditedAssigns DEF EditInv
  <2> QED BY <1>0, <2>1, <2>2, LoadStep
<1>4. ASSUME NEW a \in Admins, SettingsCommit(a) PROVE EditInv'
  BY <1>0, <1>4, CommitStep
<1>5. ASSUME NEW a \in Admins, NEW f \in Entries, BlocklistAdd(a, f) \/ BlocklistDelete(a, f)
      PROVE  EditInv'
  BY <1>1, <1>5 DEF BlocklistAdd, BlocklistDelete
<1>6. ASSUME NEW f \in Entries, EntryLapses(f) PROVE EditInv'
  BY <1>1, <1>6 DEF EntryLapses
<1>7. ASSUME NEW country, NEW recipients, NEW size, NEW name,
             Arrive(country, recipients, size, name)
      PROVE  EditInv'
  BY <1>1, <1>7 DEF Arrive, Tables
<1>8. CASE \/ VerifyCaptcha \/ CheckBlocklist("ips", "emails")
           \/ CheckBlocklist("emails", "domains") \/ CheckBlocklist("domains", "geo_enabled")
           \/ ReadGeoEnabled \/ CheckCountry \/ ReadMaxGb \/ ReadMaxRecipients
           \/ CheckPolicy \/ Create \/ RequestEnds
  BY <1>1, <1>8 DEF VerifyCaptcha, CheckBlocklist, ReadGeoEnabled, CheckCountry, ReadMaxGb,
                    ReadMaxRecipients, CheckPolicy, Create, RequestEnds, Handler, Tables
<1>9. CASE UNCHANGED vars BY <1>1, <1>9 DEF vars
<1> QED BY <1>2, <1>3, <1>4, <1>5, <1>6, <1>7, <1>8, <1>9 DEF Next

(* However many administrators edit the extension list at once, and        *)
(* although every commit writes a whole list loaded earlier, or nothing    *)
(* (admin_add_extension, admin_remove_extension, admin_patch_settings):    *)
(* the list and the answers given differ at most in entries changed        *)
(* between another edit's load and its commit.                             *)
THEOREM EditsAreKept == Spec => []ListAsAnswered
<1>1. Init => EditInv BY InitGuards
<1>2. EditInv /\ [Next]_vars => EditInv' BY EditStep
<1>3. EditInv => ListAsAnswered BY DEF EditInv
<1> QED BY <1>1, <1>2, <1>3, PTL DEF Spec

=============================================================================
