-------------------------- MODULE AdminBrowserProofs --------------------------
(***************************************************************************)
(* Proofs about the admin panel in a browser: logging out is final for all *)
(* tabs, and the CSRF middleware refuses a click only after the token has  *)
(* run out.                                                                *)
(***************************************************************************)
EXTENDS AdminBrowser, TLAPS

Pending == {"sent", "loaded", "touching"}

(* The browser has a token, or has had one that ran out. *)
HasToken == jar.csrf # None \/ lapsed

(* The session's cookie goes with the logout. *)
Out == loggedOut => jar.sid = None

(* Whoever is in the panel has a token. *)
TabsHaveToken == \A t \in Tabs : view[t] \in Panel \/ store[t] => HasToken

(* A request sent after a logout has no cookie and is not served. *)
SentOut(q) ==
    q.out => /\ q.at = "sent" => q.sid = None
             /\ q.at \notin {"loaded", "touching"}
             /\ q.answer # "ok" \/ q.kind \notin Protected

(* So has the tab to which a request or its answer belongs. *)
Tokened(q) ==
    /\ q.at \in Pending /\ q.csrf # "none" => HasToken
    /\ q.at = "answered" /\ q.answer = "ok" /\ q.heard => q.token # None \/ HasToken

(* A click has a token unless it had run out, and repeats it unless it has *)
(* changed meanwhile.                                                      *)
Clicked(q) ==
    /\ q.at = "called" => q.token # None \/ q.stale
    /\ q.at = "sent" /\ q.kind \in Guarded => q.csrf = "repeated" \/ q.stale
    /\ q.answer = "csrf" => q.stale

(* An answer is there once it has been given, a session once it was found.*)
Staged(q) ==
    /\ q.at # "answered" => q.answer = None
    /\ q.at \in {"loaded", "touching"} => q.sid \in Sids

Sound(q) == q \in RequestStates /\ SentOut(q) /\ Tokened(q) /\ Clicked(q) /\ Staged(q)

IInv ==
    /\ TypeOK
    /\ Out
    /\ TabsHaveToken
    /\ \A r \in Requests : Sound(req[r])

-----------------------------------------------------------------------------
(* What the parts of a request become *)

(* The slot of no request. *)
LEMMA NoRequestSound == Sound(NoRequest)
BY DEF Sound, RequestStates, SentOut, Tokened, Clicked, Staged, NoRequest, None, Pending, Kinds

(* A request that is no longer heard. *)
LEMMA IgnoredSound ==
    ASSUME NEW q, Sound(q)
    PROVE  Sound(Ignored(q))
<1>1. CASE q.at = "answered"
  BY <1>1, NoRequestSound DEF Ignored
<1>2. CASE q.at # "answered"
  <2>1. Ignored(q) = [q EXCEPT !.heard = FALSE]
    BY <1>2 DEF Ignored
  <2>. QED  BY <1>2, <2>1 DEF Sound, RequestStates, SentOut, Tokened, Clicked, Staged
<1>. QED  BY <1>1, <1>2

(* The browser adds its cookies: the header repeats the token unless it    *)
(* has changed.                                                            *)
LEMMA SentSound ==
    ASSUME TypeOK, Out, NEW q \in RequestStates, q.answer = None,
           q.kind \in Guarded => q.token # None \/ q.stale
    PROVE  Sound(Sent(q))
<1>1. PICK csrf \in {"none", "alone", "repeated"} :
           csrf = IF jar.csrf = None THEN "none"
                  ELSE IF q.token = jar.csrf THEN "repeated" ELSE "alone"
  OBVIOUS
<1>2. PICK out \in BOOLEAN : out = (loggedOut /\ q.kind \in Protected)
  BY Zenon DEF TypeOK
<1>3. PICK stale \in BOOLEAN :
           stale = (q.stale \/ (q.kind \in Guarded /\ q.token # jar.csrf))
  BY Zenon
<1>4. /\ csrf # "none" => HasToken
      /\ out => jar.sid = None
      /\ q.kind \in Guarded => csrf = "repeated" \/ stale
  <2>1. csrf # "none" => HasToken
    BY <1>1 DEF HasToken
  <2>2. out => jar.sid = None
    BY <1>2 DEF Out
  <2>3. q.kind \in Guarded => csrf = "repeated" \/ stale
    BY <1>1, <1>3
  <2>. QED  BY <2>1, <2>2, <2>3
<1>5. jar.sid \in Sids \cup {None}
  BY DEF TypeOK
<1>6. Sent(q) = [at |-> "sent", kind |-> q.kind, sid |-> jar.sid, csrf |-> csrf, token |-> None,
                 heard |-> q.heard, answer |-> None, out |-> out, stale |-> stale]
  <2>1. Sent(q) = [q EXCEPT !.at = "sent", !.sid = jar.sid, !.token = None, !.csrf = csrf,
                            !.out = out, !.stale = stale]
    BY <1>1, <1>2, <1>3, Zenon DEF Sent
  <2>. QED  BY <2>1 DEF RequestStates
<1>7. /\ q.kind \in Kinds /\ q.heard \in BOOLEAN
  BY DEF RequestStates
<1>8. Sent(q) \in RequestStates
  BY <1>5, <1>6, <1>7 DEF RequestStates
<1>9. SentOut(Sent(q)) /\ Tokened(Sent(q)) /\ Clicked(Sent(q)) /\ Staged(Sent(q))
  BY <1>4, <1>6 DEF SentOut, Tokened, Clicked, Staged, None
<1>. QED  BY <1>8, <1>9 DEF Sound

(* A call of a page: its header has a token where the page has one. *)
LEMMA CalledSound ==
    ASSUME TypeOK, Out, NEW kind \in Kinds, kind \in Guarded => HasToken
    PROVE  Sound(Called(kind))
<1>1. PICK q \in RequestStates :
           q = [NoRequest EXCEPT !.at = "called", !.kind = kind, !.heard = TRUE]
  BY DEF RequestStates, NoRequest
<1>2. /\ q.at = "called" /\ q.kind = kind /\ q.answer = None /\ ~q.out
  BY <1>1 DEF NoRequest
<1>3. CASE kind \in Guarded
  <2>1. Called(kind) = [q EXCEPT !.token = jar.csrf, !.stale = lapsed]
    BY <1>1, <1>3 DEF Called
  <2>2. PICK p : p = [q EXCEPT !.token = jar.csrf, !.stale = lapsed]
    OBVIOUS
  <2>3. p \in RequestStates
    BY <2>2 DEF TypeOK, RequestStates
  <2>4. /\ p.at = "called" /\ p.answer = None /\ ~p.out
        /\ p.token # None \/ p.stale
    BY <1>2, <1>3, <2>2 DEF RequestStates, HasToken
  <2>. QED  BY <2>1, <2>2, <2>3, <2>4
            DEF Sound, SentOut, Tokened, Clicked, Staged, Pending, None
<1>4. CASE kind \notin Guarded
  BY <1>1, <1>2, <1>4, SentSound DEF Called
<1>. QED  BY <1>3, <1>4

(* The answer to a pending request; it brings a token to one without. *)
LEMMA AnsweredSound ==
    ASSUME TypeOK, NEW r \in Requests, Sound(req[r]), req[r].at \in Pending,
           NEW answer \in {"ok", "401", "fail"}, NEW sid \in Sids \cup {None},
           answer = "ok" => req[r].at # "sent" \/ req[r].kind \notin Protected,
           NEW token \in NewTokens(r)
    PROVE  Sound(Answered(req[r], answer, sid, token))
<1>1. /\ token \in Tokens \cup {None}
      /\ token = None => HasToken
  BY NoneAssumption DEF NewTokens, Sound, Tokened, TypeOK
<1>2. PICK q \in RequestStates : q = req[r]
  BY DEF Sound
<1>3. PICK out \in BOOLEAN : out = (q.out /\ answer = "ok")
  BY Zenon
<1>4. PICK stale \in BOOLEAN : stale = (q.stale /\ answer = "csrf")
  BY Zenon
<1>5. PICK s \in Sids \cup {None} : s = IF q.heard THEN sid ELSE None
  OBVIOUS
<1>6. PICK k \in Tokens \cup {None} : k = IF q.heard THEN token ELSE None
  BY <1>1
<1>7. Answered(q, answer, sid, token) =
        [at |-> "answered", kind |-> q.kind, csrf |-> "none", sid |-> s, token |-> k,
         heard |-> q.heard, answer |-> answer, out |-> out, stale |-> stale]
  BY <1>3, <1>4, <1>5, <1>6 DEF Answered
<1>8. q.kind \in Kinds /\ q.heard \in BOOLEAN
  BY DEF RequestStates
<1>9. Answered(q, answer, sid, token) \in RequestStates
  BY <1>7, <1>8 DEF RequestStates
<1>10. /\ out => answer # "ok" \/ q.kind \notin Protected
       /\ answer = "ok" /\ q.heard => k # None \/ HasToken
  BY <1>1, <1>2, <1>3, <1>6 DEF Sound, SentOut, Pending
<1>11. LET a == Answered(q, answer, sid, token)
       IN  SentOut(a) /\ Tokened(a) /\ Clicked(a) /\ Staged(a)
  BY <1>7, <1>10 DEF SentOut, Tokened, Clicked, Staged, Pending
<1>. QED  BY <1>2, <1>9, <1>11 DEF Sound

-----------------------------------------------------------------------------
(* The steps *)

(* What a step that keeps cookies and token has to show. *)
LEMMA StepKeeps ==
    ASSUME IInv, UNCHANGED <<jar, loggedOut, lapsed>>,
           view' \in [Tabs -> Views], store' \in [Tabs -> BOOLEAN], live' \subseteq Sids,
           \A t \in Tabs : view'[t] \in Panel \/ store'[t] => HasToken,
           req' \in [Requests -> RequestStates], \A r \in Requests : Sound(req'[r])
    PROVE  IInv'
<1>1. TypeOK' /\ Out'
  BY DEF IInv, TypeOK, Out
<1>2. TabsHaveToken'
  BY DEF TabsHaveToken, HasToken
<1>3. ASSUME NEW r \in Requests PROVE Sound(req[r])'
  <2>1. Sound(req'[r])
    OBVIOUS
  <2>. QED  BY <2>1 DEF Sound, SentOut, Tokened, Clicked, Staged, HasToken
<1>. QED  BY <1>1, <1>2, <1>3 DEF IInv

(* A step of one request. *)
LEMMA SlotKeeps ==
    ASSUME IInv, UNCHANGED <<tabVars, jar, histVars>>, live' \subseteq Sids,
           NEW r \in Requests, NEW q, Sound(q), req' = [req EXCEPT ![r] = q]
    PROVE  IInv'
<1>1. req' \in [Requests -> RequestStates] /\ \A p \in Requests : Sound(req'[p])
  BY DEF IInv, TypeOK, Sound
<1>2. /\ UNCHANGED <<jar, loggedOut, lapsed>>
      /\ view' \in [Tabs -> Views] /\ store' \in [Tabs -> BOOLEAN]
      /\ \A t \in Tabs : view'[t] \in Panel \/ store'[t] => HasToken
  BY DEF IInv, TypeOK, TabsHaveToken, tabVars, histVars
<1>. QED  BY <1>1, <1>2, StepKeeps

(* The page of a tab is gone. *)
LEMMA HushedSound ==
    ASSUME NEW t, NEW rs \in [Requests -> RequestStates], \A r \in Requests : Sound(rs[r])
    PROVE  /\ Hushed(t, rs) \in [Requests -> RequestStates]
           /\ \A r \in Requests : Sound(Hushed(t, rs)[r])
<1>1. \A r \in Requests : Sound(Ignored(rs[r]))
  BY IgnoredSound
<1>2. \A r \in Requests : Sound(Hushed(t, rs)[r])
  BY <1>1 DEF Hushed
<1>. QED  BY <1>2 DEF Hushed, Sound

(* A protected page is opened: GET /me is sent. *)
LEMMA OpenKeeps ==
    ASSUME NEW t \in Tabs, IInv, Open(t)
    PROVE  IInv'
<1>1. PICK rs : rs = Hushed(t, req)
  OBVIOUS
<1>2. rs \in [Requests -> RequestStates] /\ \A r \in Requests : Sound(rs[r])
  BY <1>1, HushedSound DEF IInv, TypeOK
<1>3. PICK q : q = Called("get")
  OBVIOUS
<1>4. Sound(q)
  BY <1>3, CalledSound DEF IInv, Kinds, Guarded
<1>5. req' = [rs EXCEPT ![<<t, "read">>] = q]
  BY <1>1, <1>3 DEF Open
<1>6. req' \in [Requests -> RequestStates] /\ \A r \in Requests : Sound(req'[r])
  BY <1>2, <1>4, <1>5 DEF Sound
<1>7. /\ view' = [view EXCEPT ![t] = "loading"] /\ store' = [store EXCEPT ![t] = FALSE]
      /\ UNCHANGED <<jar, live, loggedOut, lapsed>>
  BY DEF Open, histVars
<1>8. /\ view' \in [Tabs -> Views] /\ store' \in [Tabs -> BOOLEAN] /\ live' \subseteq Sids
      /\ \A s \in Tabs : view'[s] \in Panel \/ store'[s] => HasToken
  BY <1>7 DEF IInv, TypeOK, TabsHaveToken, Views, Panel
<1>. QED  BY <1>6, <1>7, <1>8, StepKeeps

(* The login page is opened. *)
LEMMA OpenLoginKeeps ==
    ASSUME NEW t \in Tabs, IInv, OpenLogin(t)
    PROVE  IInv'
<1>1. req' \in [Requests -> RequestStates] /\ \A r \in Requests : Sound(req'[r])
  BY HushedSound DEF IInv, TypeOK, OpenLogin
<1>2. /\ view' = [view EXCEPT ![t] = "login"] /\ store' = [store EXCEPT ![t] = FALSE]
      /\ UNCHANGED <<jar, live, loggedOut, lapsed>>
  BY DEF OpenLogin, histVars
<1>3. /\ view' \in [Tabs -> Views] /\ store' \in [Tabs -> BOOLEAN] /\ live' \subseteq Sids
      /\ \A s \in Tabs : view'[s] \in Panel \/ store'[s] => HasToken
  BY <1>2 DEF IInv, TypeOK, TabsHaveToken, Views, Panel
<1>. QED  BY <1>1, <1>2, <1>3, StepKeeps

(* The guard of the router lets a tab in whose store has an admin, and     *)
(* such a tab has a token.                                                 *)
LEMMA NavigateKeeps ==
    ASSUME NEW t \in Tabs, IInv, Navigate(t)
    PROVE  IInv'
<1>1. PICK place \in Panel : view' = [view EXCEPT ![t] = place]
  BY DEF Navigate
<1>2. UNCHANGED <<store, jar, live, req, loggedOut, lapsed>> /\ store[t]
  BY DEF Navigate, histVars
<1>3. /\ view' \in [Tabs -> Views] /\ store' \in [Tabs -> BOOLEAN] /\ live' \subseteq Sids
      /\ \A s \in Tabs : view'[s] \in Panel \/ store'[s] => HasToken
      /\ req' \in [Requests -> RequestStates] /\ \A r \in Requests : Sound(req'[r])
  BY <1>1, <1>2 DEF IInv, TypeOK, TabsHaveToken, Views
<1>. QED  BY <1>2, <1>3, StepKeeps

(* A request that reads: of the dashboard's interval or of a section. *)
LEMMA AskKeeps ==
    ASSUME NEW r, IInv, Ask(r)
    PROVE  IInv'
<1>1. PICK q : q = Called("get")
  OBVIOUS
<1>2. Sound(q)
  BY <1>1, CalledSound DEF IInv, Kinds, Guarded
<1>3. /\ r \in Requests /\ req' = [req EXCEPT ![r] = q] /\ live' \subseteq Sids
      /\ UNCHANGED <<tabVars, jar, histVars>>
  BY <1>1 DEF Ask, IInv, TypeOK
<1>. QED  BY <1>2, <1>3, SlotKeeps

(* A click in the panel, where there is a token, or on the login page. *)
LEMMA ClickKeeps ==
    ASSUME NEW t \in Tabs, NEW kind \in Mutating, IInv, Click(t, kind)
    PROVE  IInv'
<1>1. kind \in Kinds /\ (kind \in Guarded => HasToken)
  BY DEF Click, IInv, TabsHaveToken, Guarded, Panel, Mutating
<1>2. PICK q : q = Called(kind)
  OBVIOUS
<1>3. Sound(q)
  BY <1>1, <1>2, CalledSound DEF IInv
<1>4. PICK r \in Requests : req' = [req EXCEPT ![r] = q]
  BY <1>2 DEF Click
<1>5. live' \subseteq Sids /\ UNCHANGED <<tabVars, jar, histVars>>
  BY DEF Click, IInv, TypeOK
<1>. QED  BY <1>3, <1>4, <1>5, SlotKeeps

(* The browser sends the call. *)
LEMMA DepartKeeps ==
    ASSUME NEW r \in Requests, IInv, Depart(r)
    PROVE  IInv'
<1>1. PICK q : q = Sent(req[r])
  OBVIOUS
<1>2. /\ req[r] \in RequestStates /\ req[r].answer = None
      /\ req[r].token # None \/ req[r].stale
  BY DEF IInv, Sound, Clicked, Staged, Depart
<1>3. Sound(q)
  BY <1>1, <1>2, SentSound DEF IInv
<1>4. /\ req' = [req EXCEPT ![r] = q] /\ live' \subseteq Sids
      /\ UNCHANGED <<tabVars, jar, histVars>>
  BY <1>1 DEF Depart, IInv, TypeOK
<1>. QED  BY <1>3, <1>4, SlotKeeps

(* The refusal: a click whose header does not repeat the token was made    *)
(* after it ran out, or while it changed.                                  *)
LEMMA RefuseCsrfKeeps ==
    ASSUME NEW r \in Requests, IInv, RefuseCsrf(r)
    PROVE  IInv'
<1>1. PICK p \in RequestStates : p = req[r]
  BY DEF IInv, Sound
<1>2. p.stale
  BY <1>1 DEF IInv, Sound, Clicked, RefuseCsrf, DoubleSubmit
<1>3. PICK q : q = Answered(p, "csrf", None, None)
  OBVIOUS
<1>4. q = [at |-> "answered", kind |-> p.kind, csrf |-> "none", sid |-> None, token |-> None,
           heard |-> p.heard, answer |-> "csrf", out |-> FALSE, stale |-> TRUE]
  BY <1>2, <1>3 DEF Answered, RequestStates
<1>5. Sound(q)
  BY <1>4 DEF Sound, RequestStates, SentOut, Tokened, Clicked, Staged, Pending
<1>6. /\ req' = [req EXCEPT ![r] = q] /\ live' \subseteq Sids
      /\ UNCHANGED <<tabVars, jar, histVars>>
  BY <1>1, <1>3 DEF RefuseCsrf, IInv, TypeOK
<1>. QED  BY <1>5, <1>6, SlotKeeps

(* An answer of the server to a pending request. *)
LEMMA AnswerKeeps ==
    ASSUME NEW r \in Requests, NEW answer \in {"ok", "401", "fail"},
           NEW sid \in Sids \cup {None}, IInv,
           req[r].at \in Pending,
           answer = "ok" => req[r].at # "sent" \/ req[r].kind \notin Protected,
           Answer(r, answer, sid),
           live' \subseteq Sids, UNCHANGED <<tabVars, jar, histVars>>
    PROVE  IInv'
<1>1. PICK token \in NewTokens(r) :
           req' = [req EXCEPT ![r] = Answered(req[r], answer, sid, token)]
  BY DEF Answer
<1>2. PICK q : q = Answered(req[r], answer, sid, token)
  OBVIOUS
<1>3. Sound(q)
  BY <1>2, AnsweredSound DEF IInv
<1>. QED  BY <1>1, <1>2, <1>3, SlotKeeps

(* The first half of require_session. *)
LEMMA LoadSessionKeeps ==
    ASSUME NEW r \in Requests, IInv, LoadSession(r)
    PROVE  IInv'
<1>1. live \subseteq Sids
  BY DEF IInv, TypeOK
<1>2. CASE req[r].sid \in live
  <2>1. PICK q : q = [[req[r] EXCEPT !.at = "loaded"] EXCEPT !.stale = FALSE]
    OBVIOUS
  <2>2. /\ req' = [req EXCEPT ![r] = q] /\ UNCHANGED <<tabVars, jar, histVars, live>>
        /\ req[r].at = "sent" /\ Sound(req[r])
    BY <1>2, <2>1 DEF LoadSession, IInv
  <2>3. Sound(q)
    <3>1. ~req[r].out /\ req[r].answer = None /\ req[r].sid \in Sids
      BY <1>1, <1>2, <2>2, NoneAssumption DEF Sound, SentOut, Staged
    <3>. QED  BY <2>1, <2>2, <3>1
              DEF Sound, RequestStates, SentOut, Tokened, Clicked, Staged, Pending, None
  <2>. QED  BY <1>1, <2>2, <2>3, SlotKeeps
<1>3. CASE req[r].sid \notin live
  <2>1. Answer(r, "401", None) /\ UNCHANGED <<tabVars, jar, histVars>> /\ live' = live
    BY <1>3 DEF LoadSession
  <2>2. req[r].at \in Pending
    BY DEF LoadSession, Pending
  <2>. QED  BY <1>1, <2>1, <2>2, AnswerKeeps
<1>. QED  BY <1>2, <1>3

(* The first half of touch; a request that was sent logged out does not    *)
(* come here.                                                              *)
LEMMA TouchGetKeeps ==
    ASSUME NEW r \in Requests, IInv, TouchGet(r)
    PROVE  IInv'
<1>1. live \subseteq Sids /\ req[r].at = "loaded" /\ Sound(req[r])
  BY DEF IInv, TypeOK, TouchGet
<1>2. CASE req[r].sid \in live
  <2>1. PICK q : q = [req[r] EXCEPT !.at = "touching"]
    OBVIOUS
  <2>2. req' = [req EXCEPT ![r] = q] /\ UNCHANGED <<tabVars, jar, histVars, live>>
    BY <1>2, <2>1 DEF TouchGet
  <2>3. Sound(q)
    BY <1>1, <2>1 DEF Sound, RequestStates, SentOut, Tokened, Clicked, Staged, Pending
  <2>. QED  BY <1>1, <2>2, <2>3, SlotKeeps
<1>3. CASE req[r].sid \notin live
  <2>1. Serve(r) /\ UNCHANGED <<tabVars, jar, histVars>> /\ live' = live
    BY <1>3 DEF TouchGet
  <2>2. PICK answer \in {"ok", "401"} : Answer(r, answer, None)
    BY <2>1 DEF Serve
  <2>. QED  BY <1>1, <2>1, <2>2, AnswerKeeps DEF Pending
<1>. QED  BY <1>2, <1>3

(* The second half, which may bring a session back. *)
LEMMA TouchSetKeeps ==
    ASSUME NEW r \in Requests, IInv, TouchSet(r)
    PROVE  IInv'
<1>1. PICK answer \in {"ok", "401"} : Answer(r, answer, None)
  BY DEF TouchSet, Serve
<1>2. req[r].at = "touching" /\ live' \subseteq Sids
  BY DEF IInv, TypeOK, Sound, Staged, TouchSet
<1>. QED  BY <1>1, <1>2, AnswerKeeps DEF TouchSet, Pending

(* A login at the server. *)
LEMMA LoginKeeps ==
    ASSUME NEW r \in Requests, NEW sid \in Sids, IInv, Login(r, sid)
    PROVE  IInv'
<1>1. live' \subseteq Sids /\ req[r].kind \notin Protected
  BY DEF IInv, TypeOK, Login, Protected
<1>. QED  BY <1>1, AnswerKeeps DEF Login, Pending

(* A logout at the server. *)
LEMMA LogoutKeeps ==
    ASSUME NEW r \in Requests, IInv, Logout(r)
    PROVE  IInv'
<1>1. live' \subseteq Sids /\ req[r].kind \notin Protected
  BY DEF IInv, TypeOK, Logout, Protected
<1>. QED  BY <1>1, AnswerKeeps DEF Logout, Pending

(* An error of the server. *)
LEMMA FailsKeeps ==
    ASSUME NEW r \in Requests, IInv, Fails(r)
    PROVE  IInv'
<1>1. live' \subseteq Sids
  BY DEF IInv, TypeOK, Fails
<1>. QED  BY <1>1, AnswerKeeps DEF Fails, Pending

(* A reaction leaves a tab in one of its states, and leads it to the panel *)
(* only with an answer that brings a token or after one.                   *)
LEMMA ReactFacts ==
    ASSUME NEW r \in Requests, NEW answer, IInv, React(r, answer)
    PROVE  /\ view' \in [Tabs -> Views] /\ store' \in [Tabs -> BOOLEAN]
           /\ \A t \in Tabs : view'[t] \in Panel \/ store'[t] => HasToken \/ answer = "ok"
<1>1. Tab(r) \in Tabs
  BY RequestsAssumption DEF Tab
<1>2. PICK place \in Panel : view' = [view EXCEPT ![Tab(r)] = ViewAfter(r, answer, place)]
  BY DEF React
<1>3. /\ ViewAfter(r, answer, place) \in Views /\ StoreAfter(r, answer) \in BOOLEAN
  BY <1>1, <1>2 DEF IInv, TypeOK, ViewAfter, StoreAfter, Views
<1>4. /\ ViewAfter(r, answer, place) \in Panel => view[Tab(r)] \in Panel \/ answer = "ok"
      /\ StoreAfter(r, answer) => store[Tab(r)] \/ answer = "ok"
  BY DEF ViewAfter, StoreAfter, Enters, Panel
<1>5. store' = [store EXCEPT ![Tab(r)] = StoreAfter(r, answer)]
  BY DEF React
<1>. QED  BY <1>1, <1>2, <1>3, <1>4, <1>5 DEF IInv, TypeOK, TabsHaveToken

(* An answer with its cookies: it brings the token for the panel it leads  *)
(* to.                                                                     *)
LEMMA ReceiveKeeps ==
    ASSUME NEW r \in Requests, IInv, Receive(r)
    PROVE  IInv'
<1>1. /\ req[r].at = "answered" /\ req[r].heard /\ Sound(req[r])
      /\ React(r, req[r].answer) /\ StoreCookies(r) /\ live' = live
  BY DEF Receive, IInv
<1>2. /\ jar' \in [sid : Sids \cup {None}, csrf : Tokens \cup {None}]
      /\ loggedOut' \in BOOLEAN /\ lapsed' \in BOOLEAN
      /\ HasToken => HasToken'
      /\ req[r].answer = "ok" => HasToken'
      /\ loggedOut' => jar'.sid = None
  <2>1. req[r].sid \in Sids \cup {None} /\ req[r].token \in Tokens \cup {None}
    BY <1>1 DEF Sound, RequestStates
  <2>2. jar' \in [sid : Sids \cup {None}, csrf : Tokens \cup {None}]
    BY <1>1, <2>1 DEF StoreCookies, SidAfter, IInv, TypeOK
  <2>3. loggedOut' \in BOOLEAN /\ lapsed' \in BOOLEAN
    BY <1>1, Zenon DEF StoreCookies, IInv, TypeOK
  <2>4. jar'.csrf = (IF req[r].token # None THEN req[r].token ELSE jar.csrf)
        /\ (lapsed' <=> lapsed /\ req[r].token = None)
    BY <1>1 DEF StoreCookies
  <2>5. /\ HasToken => HasToken'
        /\ req[r].answer = "ok" => HasToken'
    BY <1>1, <2>4 DEF HasToken, Sound, Tokened
  <2>6. loggedOut' => jar'.sid = None
    BY <1>1 DEF StoreCookies, SidAfter, Is, IInv, Out
  <2>. QED  BY <2>2, <2>3, <2>5, <2>6
<1>3. /\ view' \in [Tabs -> Views] /\ store' \in [Tabs -> BOOLEAN]
      /\ \A t \in Tabs : view'[t] \in Panel \/ store'[t] => HasToken'
  BY <1>1, <1>2, ReactFacts
<1>4. req' \in [Requests -> RequestStates] /\ \A p \in Requests : Sound(req'[p])
  <2>1. PICK rs : rs = [req EXCEPT ![r] = NoRequest]
    OBVIOUS
  <2>2. rs \in [Requests -> RequestStates] /\ \A p \in Requests : Sound(rs[p])
    BY <2>1, NoRequestSound DEF IInv, TypeOK, Sound
  <2>3. req' = rs \/ req' = Hushed(Tab(r), rs)
    BY <2>1 DEF Receive
  <2>. QED  BY <2>2, <2>3, HushedSound
<1>5. ASSUME NEW p \in Requests PROVE Sound(req[p])'
  BY <1>2, <1>4 DEF Sound, SentOut, Tokened, Clicked, Staged
<1>6. TypeOK' /\ Out' /\ TabsHaveToken'
  BY <1>1, <1>2, <1>3, <1>4 DEF IInv, TypeOK, Out, TabsHaveToken
<1>. QED  BY <1>5, <1>6 DEF IInv

(* A broken connection leads nobody to the panel. *)
LEMMA BreakKeeps ==
    ASSUME NEW r \in Requests, IInv, Break(r)
    PROVE  IInv'
<1>1. PICK q : q = Ignored(req[r])
  OBVIOUS
<1>2. Sound(q)
  BY <1>1, IgnoredSound DEF IInv
<1>3. /\ React(r, "fail") /\ req' = [req EXCEPT ![r] = q]
      /\ UNCHANGED <<jar, live, loggedOut, lapsed>>
  BY <1>1 DEF Break, histVars
<1>4. req' \in [Requests -> RequestStates] /\ \A p \in Requests : Sound(req'[p])
  BY <1>2, <1>3 DEF IInv, TypeOK, Sound
<1>5. /\ view' \in [Tabs -> Views] /\ store' \in [Tabs -> BOOLEAN] /\ live' \subseteq Sids
      /\ \A t \in Tabs : view'[t] \in Panel \/ store'[t] => HasToken
  BY <1>3, ReactFacts DEF IInv, TypeOK
<1>. QED  BY <1>3, <1>4, <1>5, StepKeeps

(* An answer nobody waits for. *)
LEMMA UnheardKeeps ==
    ASSUME NEW r \in Requests, IInv, Unheard(r)
    PROVE  IInv'
<1>1. /\ req' = [req EXCEPT ![r] = NoRequest] /\ live' \subseteq Sids
      /\ UNCHANGED <<tabVars, jar, histVars>>
  BY DEF Unheard, IInv, TypeOK
<1>. QED  BY <1>1, NoRequestSound, SlotKeeps

(* A session's cookie, a token or a session in Redis comes to its end. *)
LEMMA LapseKeeps ==
    ASSUME IInv, SidLapses \/ TokenLapses \/ \E sid \in Sids : SessionExpires(sid)
    PROVE  IInv'
<1>1. /\ UNCHANGED <<view, store, req, loggedOut>> /\ live' \subseteq Sids
      /\ jar' \in [sid : Sids \cup {None}, csrf : Tokens \cup {None}]
      /\ lapsed' \in BOOLEAN
      /\ jar.sid = None => jar'.sid = None
      /\ HasToken => HasToken'
  BY DEF IInv, TypeOK, SidLapses, TokenLapses, SessionExpires, tabVars, histVars, HasToken
<1>2. TypeOK' /\ Out' /\ TabsHaveToken'
  BY <1>1 DEF IInv, TypeOK, Out, TabsHaveToken
<1>3. ASSUME NEW p \in Requests PROVE Sound(req[p])'
  BY <1>1 DEF IInv, Sound, SentOut, Tokened, Clicked, Staged
<1>. QED  BY <1>2, <1>3 DEF IInv

-----------------------------------------------------------------------------
(* The invariant is inductive: every step of the tabs, the server, the     *)
(* network and the clock keeps it.                                         *)
LEMMA Invariance == Spec => []IInv
<1>1. Init => IInv
  <2>. SUFFICES ASSUME Init PROVE IInv
    OBVIOUS
  <2>1. /\ view \in [Tabs -> Views] /\ live \subseteq Sids
        /\ jar \in [sid : Sids \cup {None}, csrf : Tokens \cup {None}]
    BY DEF Init, Views
  <2>2. store \in [Tabs -> BOOLEAN] /\ loggedOut \in BOOLEAN /\ lapsed \in BOOLEAN
    BY Zenon DEF Init
  <2>3. req \in [Requests -> RequestStates] /\ \A r \in Requests : Sound(req[r])
    BY NoRequestSound DEF Init, Sound
  <2>4. Out /\ TabsHaveToken
    BY DEF Init, Out, TabsHaveToken, Panel
  <2>. QED  BY <2>1, <2>2, <2>3, <2>4 DEF IInv, TypeOK
<1>2. IInv /\ [Next]_vars => IInv'
  <2>. SUFFICES ASSUME IInv, [Next]_vars  PROVE IInv'
    OBVIOUS
  <2>1. CASE \E t \in Tabs : Open(t) \/ OpenLogin(t) \/ Navigate(t) \/ Poll(t) \/ Load(t)
    BY <2>1, OpenKeeps, OpenLoginKeeps, NavigateKeeps, AskKeeps DEF Poll, Load
  <2>2. CASE \E t \in Tabs, kind \in Mutating : Click(t, kind)
    BY <2>2, ClickKeeps
  <2>3. CASE \E r \in Requests : Depart(r) \/ Api(r)
    BY <2>3, DepartKeeps, RefuseCsrfKeeps, LoadSessionKeeps, TouchGetKeeps, TouchSetKeeps,
       LoginKeeps, LogoutKeeps, FailsKeeps DEF Api
  <2>4. CASE \E r \in Requests : Receive(r) \/ Break(r) \/ Unheard(r)
    BY <2>4, ReceiveKeeps, BreakKeeps, UnheardKeeps
  <2>5. CASE SidLapses \/ TokenLapses \/ \E sid \in Sids : SessionExpires(sid)
    BY <2>5, LapseKeeps
  <2>6. CASE UNCHANGED vars
    <3>1. UNCHANGED <<tabVars, jar, live, req, histVars>>
      BY <2>6 DEF vars
    <3>. QED  BY <3>1 DEF IInv, TypeOK, Out, TabsHaveToken, HasToken, Sound, SentOut,
                          Tokened, Clicked, Staged, tabVars, histVars
  <2>. QED  BY <2>1, <2>2, <2>3, <2>4, <2>5, <2>6 DEF Next
<1>. QED  BY <1>1, <1>2, PTL DEF Spec

(* For any number of tabs, requests and sessions: once a logout has been   *)
(* answered no tab of the browser is served before the next login, also    *)
(* when touch (session.py) sets the deleted session again.                 *)
THEOREM LogoutIsFinalHere == Spec => []LoggedOutStaysOut
<1>1. IInv => LoggedOutStaysOut
  BY DEF IInv, Sound, SentOut, LoggedOutStaysOut
<1>. QED  BY <1>1, Invariance, PTL

(* For any number of tabs and requests: CsrfMiddleware refuses a click of  *)
(* the panel only when it was made after the token had run out, or while   *)
(* the cookie changed.                                                     *)
THEOREM ClicksPass == Spec => []RefusedOnlyWhenLapsed
<1>1. IInv => RefusedOnlyWhenLapsed
  BY DEF IInv, Sound, Clicked, RefusedOnlyWhenLapsed
<1>. QED  BY <1>1, Invariance, PTL

=============================================================================
