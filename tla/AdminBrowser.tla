----------------------------- MODULE AdminBrowser -----------------------------
(***************************************************************************)
(* The admin panel in one browser: several tabs over one cookie jar, the   *)
(* CSRF middleware, and the handlers' use of the session in Redis.  An     *)
(* answer may overtake another or get lost while its handler goes on.      *)
(* Of the panel's views only the dashboard asks the server every minute;   *)
(* the others ask when their user does.  Times are dropped: a cookie or a  *)
(* session may end at any time.                                            *)
(* Accounts, roles and lockouts are AdminAccess'.                          *)
(***************************************************************************)
CONSTANTS
    Tabs,       \* tabs of the browser
    Requests,   \* of each tab: one at a time that reads, and one click
    Sids,       \* session ids
    Tokens      \* CSRF tokens

None == "none"
ASSUME NoneAssumption == None \notin Sids \cup Tokens
ASSUME RequestsAssumption == Requests \subseteq Tabs \X {"read", "click"}

VARIABLES
    view,       \* blank, loading, login, the dashboard or another section of the panel
    store,      \* does the session store of the tab hold an admin?
    jar,        \* the cookies session_id and csrf
    live,       \* the sessions in Redis
    req,        \* the requests of every tab
    loggedOut,  \* history: the last of login and logout to be answered was a logout
    lapsed      \* history: the token has run out and no answer has set another

tabVars == <<view, store>>
histVars == <<loggedOut, lapsed>>
vars == <<tabVars, jar, live, req, histVars>>

Tab(r) == r[1]

Kinds == {"get", "change", "login", "logout"}
Panel == {"dashboard", "section"}
Views == {"blank", "loading", "login"} \cup Panel
Mutating == Kinds \ {"get"}
Protected == {"get", "change"}      \* by require_session
Guarded == {"change", "logout"}     \* by CsrfMiddleware

(***************************************************************************)
(* A request carries the session's cookie and no csrf cookie, that cookie  *)
(* alone, or one its header repeats; token is the header's until it is     *)
(* sent, and the one the answer sets.  History: out, sent after a logout;  *)
(* stale, its token had run out or changed while it was being sent.        *)
(***************************************************************************)
NoRequest == [at |-> "idle", kind |-> "get", sid |-> None, csrf |-> "none", token |-> None,
              heard |-> FALSE, answer |-> None, out |-> FALSE, stale |-> FALSE]

RequestStates ==
    [at : {"idle", "called", "sent", "loaded", "touching", "answered"}, kind : Kinds,
     sid : Sids \cup {None}, csrf : {"none", "alone", "repeated"},
     token : Tokens \cup {None}, heard : BOOLEAN, answer : {None, "ok", "401", "csrf", "fail"},
     out : BOOLEAN, stale : BOOLEAN]

TypeOK ==
    /\ view \in [Tabs -> Views]
    /\ store \in [Tabs -> BOOLEAN]
    /\ jar \in [sid : Sids \cup {None}, csrf : Tokens \cup {None}]
    /\ live \subseteq Sids
    /\ req \in [Requests -> RequestStates]
    /\ loggedOut \in BOOLEAN
    /\ lapsed \in BOOLEAN

Init ==
    /\ view = [t \in Tabs |-> "blank"]
    /\ store = [t \in Tabs |-> FALSE]
    /\ jar = [sid |-> None, csrf |-> None]
    /\ live = {}
    /\ req = [r \in Requests |-> NoRequest]
    /\ loggedOut = FALSE
    /\ lapsed = FALSE

-----------------------------------------------------------------------------
(* The tabs *)

(* The browser adds the cookies to request q when it sends it. *)
Sent(q) ==
    [q EXCEPT !.at = "sent", !.sid = jar.sid, !.token = None,
              !.csrf = IF jar.csrf = None THEN "none"
                       ELSE IF q.token = jar.csrf THEN "repeated" ELSE "alone",
              !.out = loggedOut /\ q.kind \in Protected,
              !.stale = q.stale \/ (q.kind \in Guarded /\ q.token # jar.csrf)]

(***************************************************************************)
(* request(): a call that changes something repeats the csrf cookie, which *)
(* for a login nobody reads.                                               *)
(***************************************************************************)
Called(kind) ==
    LET q == [NoRequest EXCEPT !.at = "called", !.kind = kind, !.heard = TRUE]
    IN  IF kind \in Guarded THEN [q EXCEPT !.token = jar.csrf, !.stale = lapsed] ELSE Sent(q)

(* Nobody waits for the answer to q: one on its way is dropped. *)
Ignored(q) == IF q.at = "answered" THEN NoRequest ELSE [q EXCEPT !.heard = FALSE]

(* The page of t is gone, and with it whoever waited for its answers. *)
Hushed(t, rs) == [r \in Requests |-> IF Tab(r) = t THEN Ignored(rs[r]) ELSE rs[r]]

(* A protected address is opened: beforeEach waits for GET /me ... *)
Open(t) ==
    /\ <<t, "read">> \in Requests
    /\ req[<<t, "read">>].at = "idle"
    /\ req' = [Hushed(t, req) EXCEPT ![<<t, "read">>] = Called("get")]
    /\ view' = [view EXCEPT ![t] = "loading"]
    /\ store' = [store EXCEPT ![t] = FALSE]
    /\ UNCHANGED <<jar, live, histVars>>

(* ... and the login page is not protected. *)
OpenLogin(t) ==
    /\ req' = Hushed(t, req)
    /\ view' = [view EXCEPT ![t] = "login"]
    /\ store' = [store EXCEPT ![t] = FALSE]
    /\ UNCHANGED <<jar, live, histVars>>

(* Within the page the guard asks the store only. *)
Navigate(t) ==
    /\ view[t] \in Panel \cup {"login"} /\ store[t]
    /\ \E place \in Panel : view' = [view EXCEPT ![t] = place]
    /\ UNCHANGED <<store, jar, live, req, histVars>>

Ask(r) ==
    /\ r \in Requests
    /\ req[r].at = "idle"
    /\ req' = [req EXCEPT ![r] = Called("get")]
    /\ UNCHANGED <<tabVars, jar, live, histVars>>

(* The dashboard's interval, and what another section shows. *)
Poll(t) == view[t] = "dashboard" /\ Ask(<<t, "read">>)
Load(t) == view[t] = "section" /\ Ask(<<t, "read">>)

(* The changes are those of the sections; every view has the logout. *)
Click(t, kind) ==
    /\ view[t] \in CASE kind = "login" -> {"login"}
                     [] kind = "logout" -> Panel
                     [] OTHER -> {"section"}
    /\ <<t, "click">> \in Requests
    /\ req[<<t, "click">>].at = "idle"
    /\ req' = [req EXCEPT ![<<t, "click">>] = Called(kind)]
    /\ UNCHANGED <<tabVars, jar, live, histVars>>

Depart(r) ==
    /\ req[r].at = "called"
    /\ req' = [req EXCEPT ![r] = Sent(@)]
    /\ UNCHANGED <<tabVars, jar, live, histVars>>

-----------------------------------------------------------------------------
(* The server *)

(* Mutant: an exempt path is let through as it is. *)
NewTokens_NotOnLogin(r) ==
    IF req[r].csrf = "none" /\ req[r].kind # "login" THEN Tokens \ {jar.csrf} ELSE {None}

(***************************************************************************)
(* Every answer under the prefix sets a token when the request had none.   *)
(***************************************************************************)
NewTokens(r) == IF req[r].csrf = "none" THEN Tokens \ {jar.csrf} ELSE {None}

(* The answer to request q, with its cookies for whom it reaches. *)
Answered(q, answer, sid, token) ==
    [at |-> "answered", kind |-> q.kind, csrf |-> "none",
     sid |-> IF q.heard THEN sid ELSE None, token |-> IF q.heard THEN token ELSE None,
     heard |-> q.heard, answer |-> answer,
     out |-> q.out /\ answer = "ok", stale |-> q.stale /\ answer = "csrf"]

(* The answer to r; set_cookie keeps the session's cookie beside the token.*)
Answer(r, answer, sid) ==
    \E token \in NewTokens(r) :
        req' = [req EXCEPT ![r] = Answered(@, answer, sid, token)]

DoubleSubmit(r) == req[r].kind \in Guarded => req[r].csrf = "repeated"

(* This refusal is the one answer without a token. *)
RefuseCsrf(r) ==
    /\ req[r].at = "sent"
    /\ ~DoubleSubmit(r)
    /\ req' = [req EXCEPT ![r] = Answered(@, "csrf", None, None)]
    /\ UNCHANGED <<tabVars, jar, live, histVars>>

(***************************************************************************)
(* require_session: no cookie or no session is a 401.                      *)
(***************************************************************************)
LoadSession(r) ==
    /\ req[r].at = "sent" /\ req[r].kind \in Protected
    /\ DoubleSubmit(r)
    /\ IF req[r].sid \in live
         THEN req' = [req EXCEPT ![r] = [[@ EXCEPT !.at = "loaded"] EXCEPT !.stale = FALSE]]
         ELSE Answer(r, "401", None)
    /\ UNCHANGED <<tabVars, jar, live, histVars>>

(* The account is read: the handler acts, or the account is gone. *)
Serve(r) == \E answer \in {"ok", "401"} : Answer(r, answer, None)

(***************************************************************************)
(* touch reads the key again and, if it was there, sets it anew.           *)
(***************************************************************************)
TouchGet(r) ==
    /\ req[r].at = "loaded"
    /\ IF req[r].sid \in live
         THEN req' = [req EXCEPT ![r].at = "touching"]
         ELSE Serve(r)
    /\ UNCHANGED <<tabVars, jar, live, histVars>>

TouchSet(r) ==
    /\ req[r].at = "touching"
    /\ live' = live \cup {req[r].sid}
    /\ Serve(r)
    /\ UNCHANGED <<tabVars, jar, histVars>>

Login(r, sid) ==
    /\ req[r].at = "sent" /\ req[r].kind = "login"
    /\ sid \notin live \cup {jar.sid} \cup {req[q].sid : q \in Requests}
    /\ live' = live \cup {sid}
    /\ Answer(r, "ok", sid)
    /\ UNCHANGED <<tabVars, jar, histVars>>

Logout(r) ==
    /\ req[r].at = "sent" /\ req[r].kind = "logout"
    /\ DoubleSubmit(r)
    /\ live' = live \ {req[r].sid}
    /\ Answer(r, "ok", None)
    /\ UNCHANGED <<tabVars, jar, histVars>>

(* Wrong credentials, a full disk, a query that raises. *)
Fails(r) ==
    /\ req[r].at \in {"sent", "loaded", "touching"}
    /\ DoubleSubmit(r)
    /\ Answer(r, "fail", None)
    /\ UNCHANGED <<tabVars, jar, live, histVars>>

-----------------------------------------------------------------------------
(* The answers *)

Is(r, kind, answer) == req[r].kind = kind /\ req[r].answer = answer

(* Mutant: logging out leaves the cookie in the browser. *)
SidAfter_Kept(r) == IF Is(r, "login", "ok") THEN req[r].sid ELSE jar.sid

(***************************************************************************)
(* Only login sets the session's cookie, and logout deletes it.            *)
(***************************************************************************)
SidAfter(r) ==
    CASE Is(r, "login", "ok") -> req[r].sid
      [] Is(r, "logout", "ok") -> None
      [] OTHER -> jar.sid

StoreCookies(r) ==
    /\ jar' = [sid |-> SidAfter(r),
               csrf |-> IF req[r].token # None THEN req[r].token ELSE jar.csrf]
    /\ loggedOut' = CASE Is(r, "login", "ok") -> FALSE
                      [] Is(r, "logout", "ok") -> TRUE
                      [] OTHER -> loggedOut
    /\ lapsed' = (lapsed /\ req[r].token = None)

(* Mutant: an expired session is an error like any other. *)
Bounces_Never(r, answer) == FALSE

(***************************************************************************)
(* A 401 loads the login page, unless the tab is there.                    *)
(***************************************************************************)
Bounces(r, answer) == answer = "401" /\ view[Tab(r)] # "login"

(* GET /me when the page is loaded, and login, lead to the panel, to the  *)
(* section that was asked for.                                             *)
Enters(r, answer) ==
    answer = "ok" /\ (view[Tab(r)] = "loading" \/ req[r].kind = "login")

ViewAfter(r, answer, place) ==
    IF Bounces(r, answer) THEN "login"
    ELSE IF Enters(r, answer) THEN place
    ELSE IF view[Tab(r)] = "loading" THEN "blank"
    ELSE IF req[r].kind = "logout" THEN "login"
    ELSE view[Tab(r)]

StoreAfter(r, answer) ==
    IF Enters(r, answer) THEN TRUE
    ELSE IF Bounces(r, answer) \/ (req[r].kind = "logout" /\ answer = "ok") THEN FALSE
    ELSE store[Tab(r)]

(***************************************************************************)
(* What the tab makes of an answer, or of none ("fail").  A logout that    *)
(* fails shows the login page too, and leaves the store as it is.          *)
(***************************************************************************)
React(r, answer) ==
    /\ \E place \in Panel : view' = [view EXCEPT ![Tab(r)] = ViewAfter(r, answer, place)]
    /\ store' = [store EXCEPT ![Tab(r)] = StoreAfter(r, answer)]

Receive(r) ==
    /\ req[r].at = "answered" /\ req[r].heard
    /\ StoreCookies(r)
    /\ React(r, req[r].answer)
    /\ req' = LET rest == [req EXCEPT ![r] = NoRequest]
              IN  IF Bounces(r, req[r].answer) THEN Hushed(Tab(r), rest) ELSE rest
    /\ UNCHANGED live

(* The connection breaks; the handler does not notice. *)
Break(r) ==
    /\ req[r].at # "idle" /\ req[r].heard
    /\ React(r, "fail")
    /\ req' = [req EXCEPT ![r] = Ignored(@)]
    /\ UNCHANGED <<jar, live, histVars>>

Unheard(r) ==
    /\ req[r].at = "answered" /\ ~req[r].heard
    /\ req' = [req EXCEPT ![r] = NoRequest]
    /\ UNCHANGED <<tabVars, jar, live, histVars>>

-----------------------------------------------------------------------------
(* Max-Age and the TTL run out *)

SidLapses ==
    /\ jar.sid # None
    /\ jar' = [jar EXCEPT !.sid = None]
    /\ UNCHANGED <<tabVars, live, req, histVars>>

TokenLapses ==
    /\ jar.csrf # None
    /\ jar' = [jar EXCEPT !.csrf = None]
    /\ lapsed' = TRUE
    /\ UNCHANGED <<tabVars, live, req, loggedOut>>

SessionExpires(sid) ==
    /\ sid \in live
    /\ live' = live \ {sid}
    /\ UNCHANGED <<tabVars, jar, req, histVars>>

-----------------------------------------------------------------------------
Api(r) ==
    \/ RefuseCsrf(r) \/ LoadSession(r) \/ TouchGet(r) \/ TouchSet(r)
    \/ (\E sid \in Sids : Login(r, sid)) \/ Logout(r) \/ Fails(r)

Next ==
    \/ \E t \in Tabs : Open(t) \/ OpenLogin(t) \/ Navigate(t) \/ Poll(t) \/ Load(t)
    \/ \E t \in Tabs, kind \in Mutating : Click(t, kind)
    \/ \E r \in Requests : Depart(r) \/ Api(r) \/ Receive(r) \/ Break(r) \/ Unheard(r)
    \/ SidLapses \/ TokenLapses
    \/ \E sid \in Sids : SessionExpires(sid)

Spec == Init /\ [][Next]_vars

Reads == {r \in Requests : r[2] = "read"}

(***************************************************************************)
(* setInterval fires, its requests come to an end, and not every one of    *)
(* them fails or loses its answer.  Nothing is assumed of the user.        *)
(***************************************************************************)
Fairness ==
    \A r \in Reads :
        /\ WF_vars(Poll(Tab(r)))
        /\ WF_vars(Api(r) \/ Receive(r) \/ Unheard(r))
        /\ SF_vars(LoadSession(r) /\ req[r].heard)
        /\ SF_vars(Receive(r) /\ req[r].answer # "fail")

FairSpec == Spec /\ Fairness

-----------------------------------------------------------------------------
(* Logging out is final for the browser: once the answer is there, no      *)
(* request of any tab is served until somebody logs in, even if touch has  *)
(* brought the session in Redis back.                                      *)
LoggedOutStaysOut ==
    \A r \in Requests :
        req[r].kind \in Protected /\ req[r].answer = "ok" => ~req[r].out

(* A click in the panel is refused for its CSRF token only between the end *)
(* of a token's 24 hours and the next answer, or when the cookie changes   *)
(* between readCookie and the browser's sending: never after a login from  *)
(* the bare login page, nor later because two answers each set a token.    *)
RefusedOnlyWhenLapsed ==
    \A r \in Requests : req[r].answer = "csrf" => req[r].stale

(* Logging out in one tab takes every tab that stays on the dashboard off  *)
(* it, while its polls may fail or get lost.  (A tab on another section    *)
(* asks nothing by itself and shows what it has until its user does.)      *)
LogoutReachesTabs ==
    \A r \in Reads : loggedOut ~> (view[Tab(r)] # "dashboard" \/ ~loggedOut)

=============================================================================
