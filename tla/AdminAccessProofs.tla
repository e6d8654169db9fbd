-------------------------- MODULE AdminAccessProofs --------------------------
(***************************************************************************)
(* A session that outlives its account is worth nothing, for any number of *)
(* accounts, sessions, logins and concurrent requests.  The lockout and    *)
(* the last active admin, which count on rows being as they were loaded,   *)
(* fail only by calls that were outrun or overtaken between their reads    *)
(* and their commit, whatever else overlaps.  The panel's list of          *)
(* transfers shows every row once, for any table and page size             *)
(* (AdminListing).                                                         *)
(***************************************************************************)
EXTENDS AdminAccess, AdminListing, FiniteSetTheorems, TLAPS

InFlight(r) == req[r].at \in {"loaded", "touching", "touched"}
Acting(r)   == req[r].at \in {"acting", "target", "decided"}

(* A live session, and the session of a request, belong to an account.     *)
Owned ==
    /\ \A s \in Sids : live[s] => owner[s] # Nobody
    /\ \A r \in Requests : InFlight(r) => owner[req[r].sid] # Nobody

(* Whoever logs in or has logged in has, or had, a row.                    *)
Born ==
    /\ \A s \in Sids : owner[s] # Nobody => row[owner[s]] # "none"
    /\ \A l \in Logins : login[l].at # "idle" => row[login[l].admin] # "none"

(* Until it is authorised, a late request belongs to an unusable account;  *)
(* afterwards it is not late.                                              *)
LateIsRefused ==
    \A r \in Requests :
        /\ InFlight(r) /\ late[r] => ~Usable(owner[req[r].sid])
        /\ Acting(r) => ~late[r]

IInv == TypeOK /\ Owned /\ Born /\ LateIsRefused

USE RootAssumption, SidsAssumption, NobodyAssumption

-----------------------------------------------------------------------------
LEMMA DefaultTypes ==
    /\ NoLogin \in LoginStates
    /\ NoRequest \in RequestStates
    /\ NoLogin.at = "idle"
    /\ NoRequest.at = "idle"
<1>1. (CHOOSE s \in Sids : TRUE) \in Sids
  OBVIOUS
<1> QED
  BY <1>1 DEF NoLogin, NoRequest, LockUntil, Changes, LoginStates, RequestStates

LEMMA InitIInv == Init => IInv
<1> SUFFICES ASSUME Init PROVE IInv
  OBVIOUS
<1>1. TypeOK
  BY DefaultTypes DEF Init, TypeOK, LockUntil
<1> QED
  BY <1>1, DefaultTypes DEF Init, IInv, Owned, Born, LateIsRefused, InFlight, Acting

LEMMA LoginSteps ==
    ASSUME IInv, NEW l \in Logins,
           \/ \E a \in Admins : LoginLoad(l, a)
           \/ LoginFail(l) \/ LoginPass(l) \/ LoginAborts(l)
    PROVE  IInv'
<1> USE DefaultTypes DEF IInv, accountVars, sessionVars, lockoutVars, loginVars, requestVars
<1>1. ASSUME NEW a \in Admins, LoginLoad(l, a) PROVE IInv'
  <2>1. TypeOK'
    BY <1>1 DEF TypeOK, LoginStates, LockUntil, LoginLoad
  <2>2. Owned' /\ Born' /\ LateIsRefused'
    BY <1>1 DEF TypeOK, LoginStates, LoginLoad, Owned, Born, LateIsRefused, InFlight, Acting, Usable
  <2> QED
    BY <2>1, <2>2
<1>2. CASE LoginFail(l)
  <2>1. TypeOK'
    BY <1>2 DEF TypeOK, LoginStates, LoginFail, Outrun, LockUntil
  <2>2. Owned' /\ Born' /\ LateIsRefused'
    BY <1>2 DEF TypeOK, LoginStates, LoginFail, Outrun, Owned, Born, LateIsRefused, InFlight, Acting, Usable
  <2> QED
    BY <2>1, <2>2
<1>3. CASE LoginPass(l)
  <2>1. TypeOK'
    BY <1>3 DEF TypeOK, LoginStates, LoginPass, Outrun, Flush, LockUntil
  <2>2. Owned' /\ Born' /\ LateIsRefused'
    BY <1>3 DEF TypeOK, LoginStates, LoginPass, Outrun, Owned, Born, LateIsRefused, InFlight, Acting, Usable
  <2> QED
    BY <2>1, <2>2
<1>4. CASE LoginAborts(l)
  <2>1. TypeOK'
    BY <1>4 DEF TypeOK, LoginAborts
  <2>2. Owned' /\ Born' /\ LateIsRefused'
    BY <1>4 DEF TypeOK, LoginAborts, Owned, Born, LateIsRefused, InFlight, Acting, Usable
  <2> QED
    BY <2>1, <2>2
<1> QED
  BY <1>1, <1>2, <1>3, <1>4

LEMMA SessionSteps ==
    ASSUME IInv,
           \/ \E l \in Logins, s \in Sids : LoginSession(l, s)
           \/ \E a \in Admins : LockPasses(a)
           \/ \E s \in Sids : Logout(s) \/ SessionExpires(s)
    PROVE  IInv'
<1> USE DEF IInv, accountVars, sessionVars, lockoutVars, loginVars, requestVars
<1>1. ASSUME NEW l \in Logins, NEW s \in Sids, LoginSession(l, s) PROVE IInv'
  <2>1. TypeOK'
    BY <1>1, DefaultTypes DEF TypeOK, LoginStates, LoginSession
  <2>2. Owned'
    BY <1>1 DEF TypeOK, LoginStates, LoginSession, Owned, InFlight
  <2>3. Born'
    BY <1>1, DefaultTypes DEF TypeOK, LoginStates, LoginSession, Born
  <2>4. \A r \in Requests : InFlight(r) => owner'[req[r].sid] = owner[req[r].sid]
    BY <1>1 DEF TypeOK, LoginStates, LoginSession, Owned
  <2>5. LateIsRefused'
    BY <1>1, <2>4 DEF TypeOK, LoginStates, LoginSession, LateIsRefused, InFlight, Acting, Usable
  <2> QED
    BY <2>1, <2>2, <2>3, <2>5
<1>2. ASSUME NEW a \in Admins, LockPasses(a) PROVE IInv'
  BY <1>2 DEF TypeOK, LockPasses, LockUntil, Owned, Born, LateIsRefused, InFlight,
              Acting, Usable
<1>3. ASSUME NEW s \in Sids, Logout(s) \/ SessionExpires(s) PROVE IInv'
  <2>1. TypeOK'
    BY <1>3 DEF TypeOK, Logout, SessionExpires
  <2>2. Owned' /\ Born' /\ LateIsRefused'
    BY <1>3 DEF TypeOK, Logout, SessionExpires, Owned, Born, LateIsRefused, InFlight,
                Acting, Usable
  <2> QED
    BY <2>1, <2>2
<1> QED
  BY <1>1, <1>2, <1>3

(* Moving one request on. *)
LEMMA Advance ==
    ASSUME TypeOK, NEW r \in Requests, NEW q \in RequestStates,
           req' = [req EXCEPT ![r] = q]
    PROVE  /\ req' \in [Requests -> RequestStates]
           /\ req'[r] = q
           /\ \A p \in Requests \ {r} : req'[p] = req[p]
BY DEF TypeOK

LEMMA RequireSessionSteps ==
    ASSUME IInv, NEW r \in Requests,
           \/ \E s \in Sids : RequestLoad(r, s)
           \/ TouchGet(r) \/ TouchSet(r) \/ Authorise(r) \/ RequestEnds(r)
    PROVE  IInv'
<1> USE DEF IInv, accountVars, sessionVars, lockoutVars, loginVars, requestVars
<1>0. req[r] \in RequestStates
  BY DEF TypeOK
<1>1. ASSUME NEW s \in Sids, RequestLoad(r, s) PROVE IInv'
  <2> DEFINE q == [req[r] EXCEPT !.at = "loaded", !.sid = s]
  <2>0. q \in RequestStates /\ q.at = "loaded" /\ q.sid = s
    BY <1>0 DEF RequestStates
  <2>1. req' = [req EXCEPT ![r] = q]
    BY <1>1 DEF RequestLoad
  <2> HIDE DEF q
  <2>2. /\ req' \in [Requests -> RequestStates]
        /\ req'[r] = q
        /\ \A p \in Requests \ {r} : req'[p] = req[p]
    BY <2>0, <2>1, Advance
  <2>3. TypeOK'
    BY <1>1, <2>2 DEF TypeOK, RequestLoad
  <2>4. Owned' /\ Born'
    BY <1>1, <2>0, <2>2 DEF RequestLoad, Owned, Born, InFlight
  <2>5. LateIsRefused'
    BY <1>1, <2>0, <2>2 DEF TypeOK, RequestLoad, LateIsRefused, InFlight, Acting, Usable
  <2> QED
    BY <2>3, <2>4, <2>5
<1>2. CASE TouchGet(r) \/ TouchSet(r)
  <2>1. PICK q \in RequestStates :
          /\ req' = [req EXCEPT ![r] = q]
          /\ q.at \in {"touching", "touched"}
          /\ q.sid = req[r].sid
    <3>1. [req[r] EXCEPT !.at = "touching"] \in RequestStates
      BY <1>0 DEF RequestStates
    <3>2. [req[r] EXCEPT !.at = "touched"] \in RequestStates
      BY <1>0 DEF RequestStates
    <3> QED
      BY <1>0, <1>2, <3>1, <3>2 DEF TouchGet, TouchSet, RequestStates
  <2>2. /\ req' \in [Requests -> RequestStates]
        /\ req'[r] = q
        /\ \A p \in Requests \ {r} : req'[p] = req[p]
    BY <2>1, Advance
  <2>3. TypeOK'
    BY <1>2, <2>2 DEF TypeOK, TouchGet, TouchSet
  <2>4. InFlight(r)
    BY <1>2 DEF TouchGet, TouchSet, InFlight
  <2>5. req[r].sid \in Sids
    BY <1>0 DEF RequestStates
  <2>6. Owned' /\ Born'
    BY <1>2, <2>1, <2>2, <2>4, <2>5 DEF TypeOK, TouchGet, TouchSet, Owned, Born, InFlight
  <2>7. LateIsRefused'
    BY <1>2, <2>1, <2>2, <2>4 DEF TouchGet, TouchSet, LateIsRefused, InFlight, Acting, Usable
  <2> QED
    BY <2>3, <2>6, <2>7
<1>3. CASE Authorise(r) \/ RequestEnds(r)
  <2>0. Authorise(r) => InFlight(r) /\ owner[req[r].sid] \in Admins
    <3> SUFFICES ASSUME Authorise(r)
                 PROVE  InFlight(r) /\ owner[req[r].sid] \in Admins
      OBVIOUS
    <3>1. InFlight(r)
      BY DEF Authorise, InFlight
    <3>2. req[r].sid \in Sids
      BY <1>0 DEF RequestStates
    <3> QED
      BY <3>1, <3>2 DEF TypeOK, Owned
  <2>1. PICK q \in RequestStates :
          /\ req' = [req EXCEPT ![r] = q]
          /\ \/ q.at = "idle"
             \/ q.at = "acting" /\ InFlight(r) /\ Usable(owner[req[r].sid])
    <3>2. CASE RequestEnds(r)
      BY <3>2, DefaultTypes DEF RequestEnds, Finish
    <3>3. CASE Authorise(r) /\ ~Usable(owner[req[r].sid])
      BY <3>3, DefaultTypes DEF Authorise, Finish
    <3>4. CASE Authorise(r) /\ Usable(owner[req[r].sid])
      <4> DEFINE a == owner[req[r].sid]
      <4>1. role[a] \in {"admin", "viewer"}
        BY <2>0, <3>4 DEF TypeOK
      <4>2. /\ [req[r] EXCEPT !.at = "acting", !.role = role[a]] \in RequestStates
            /\ [req[r] EXCEPT !.at = "acting", !.role = role[a]].at = "acting"
        BY <1>0, <4>1 DEF RequestStates
      <4> QED
        BY <2>0, <3>4, <4>2 DEF Authorise
    <3> QED
      BY <1>3, <3>2, <3>3, <3>4
  <2>2. /\ req' \in [Requests -> RequestStates]
        /\ req'[r] = q
        /\ \A p \in Requests \ {r} : req'[p] = req[p]
    BY <2>1, Advance
  <2>3. TypeOK'
    BY <1>3, <2>2 DEF TypeOK, Authorise, RequestEnds, Finish
  <2>4. Owned' /\ Born'
    BY <1>3, <2>1, <2>2 DEF Authorise, RequestEnds, Owned, Born, InFlight
  <2>5. LateIsRefused'
    BY <1>3, <2>1, <2>2 DEF TypeOK, Authorise, RequestEnds, Finish, LateIsRefused, InFlight,
                            Acting, Usable
  <2> QED
    BY <2>3, <2>4, <2>5
<1> QED
  BY <1>1, <1>2, <1>3

LEMMA DecideSteps ==
    ASSUME IInv, NEW r \in Requests,
           (\E c \in Changes, a \in Admins : LoadTarget(r, c, a)) \/ Decide(r)
    PROVE  IInv'
<1> USE DEF IInv, accountVars, sessionVars, lockoutVars, loginVars, requestVars
<1>0. req[r] \in RequestStates
  BY DEF TypeOK
<1>1. PICK q \in RequestStates :
        /\ req' = [req EXCEPT ![r] = q]
        /\ q.at \in {"idle", "target", "decided"}
  <2>1. ASSUME NEW c \in Changes, NEW a \in Admins, LoadTarget(r, c, a)
        PROVE  \E q \in RequestStates :
                  /\ req' = [req EXCEPT ![r] = q]
                  /\ q.at \in {"idle", "target", "decided"}
    <3> DEFINE own  == c # "create" /\ a = owner[req[r].sid]
               was  == IF own THEN req[r].role ELSE role[a]
               off  == ~own /\ disabled[a]
               q    == [req[r] EXCEPT !.at = "target", !.change = c, !.target = a,
                                      !.wasRole = was, !.wasDisabled = off]
    <3>1. was \in {"admin", "viewer"} /\ off \in BOOLEAN
      BY <1>0 DEF TypeOK, RequestStates
    <3>2. q \in RequestStates /\ q.at = "target"
      <4> HIDE DEF was, off
      <4> QED
        BY <1>0, <3>1 DEF RequestStates
    <3> QED
      BY <2>1, <3>2 DEF LoadTarget
  <2>2. CASE Decide(r)
    <3>1. /\ [req[r] EXCEPT !.at = "decided"] \in RequestStates
          /\ [req[r] EXCEPT !.at = "decided"].at = "decided"
      BY <1>0 DEF RequestStates
    <3> QED
      BY <2>2, <3>1, DefaultTypes DEF Decide, Finish
  <2> QED
    BY <2>1, <2>2
<1>2. Acting(r)
  BY DEF LoadTarget, Decide, Acting
<1>3. /\ UNCHANGED <<accountVars, lockoutVars, sessionVars, loginVars>>
      /\ late' \in [Requests -> BOOLEAN] /\ overtaken' \in [Requests -> BOOLEAN]
      /\ \A p \in Requests : late'[p] => late[p]
  BY DEF TypeOK, LoadTarget, Decide, Finish
<1>4. /\ req' \in [Requests -> RequestStates]
      /\ req'[r] = q
      /\ \A p \in Requests \ {r} : req'[p] = req[p]
  BY <1>1, Advance
<1>5. TypeOK'
  BY <1>3, <1>4 DEF TypeOK
<1>6. Owned' /\ Born'
  BY <1>1, <1>3, <1>4 DEF Owned, Born, InFlight
<1>7. LateIsRefused'
  BY <1>1, <1>2, <1>3, <1>4 DEF LateIsRefused, InFlight, Acting, Usable
<1> QED
  BY <1>5, <1>6, <1>7

LEMMA CommitSteps ==
    ASSUME IInv, NEW r \in Requests,
           \/ CommitUpdate(r) \/ CommitDelete(r)
           \/ \E x \in {"admin", "viewer"} : CommitCreate(r, x)
    PROVE  IInv'
<1> DEFINE a == req[r].target
<1> USE DEF IInv, accountVars, sessionVars, lockoutVars, loginVars, requestVars
<1>0. req[r] \in RequestStates /\ a \in Admins
  BY DEF TypeOK, RequestStates
<1>1. req' = [req EXCEPT ![r] = NoRequest] /\ UNCHANGED <<lockoutVars, sessionVars, loginVars>>
  BY DEF CommitUpdate, CommitDelete, CommitCreate
<1>2. /\ req' \in [Requests -> RequestStates]
      /\ req'[r].at = "idle"
      /\ \A p \in Requests \ {r} : req'[p] = req[p]
  BY <1>1, Advance, DefaultTypes
<1>3. /\ req[r].wasRole \in {"admin", "viewer"}
      /\ req[r].wasDisabled \in BOOLEAN
  BY <1>0 DEF RequestStates
<1>4. /\ row' \in [Admins -> {"none", "present", "deleted"}]
      /\ \A b \in Admins : row[b] # "none" => row'[b] # "none"
  BY <1>0 DEF TypeOK, CommitUpdate, CommitDelete, CommitCreate
<1>5. disabled' \in [Admins -> BOOLEAN] /\ role' \in [Admins -> {"admin", "viewer"}]
  <2>1. CASE CommitUpdate(r)
    <3>1. AssignedDisabled(r) \in BOOLEAN
      BY <1>3 DEF AssignedDisabled
    <3>2. Flush(req[r].wasDisabled, AssignedDisabled(r), disabled[a]) \in BOOLEAN
      BY <1>0, <3>1 DEF TypeOK, Flush
    <3>3. AssignedRole(r) \in {"admin", "viewer"}
      BY <1>3 DEF AssignedRole
    <3>4. Flush(req[r].wasRole, AssignedRole(r), role[a]) \in {"admin", "viewer"}
      BY <1>0, <3>3 DEF TypeOK, Flush
    <3> QED
      BY <2>1, <3>2, <3>4 DEF TypeOK, CommitUpdate
  <2>2. CASE CommitDelete(r)
    BY <2>2 DEF TypeOK, CommitDelete
  <2>3. CASE \E x \in {"admin", "viewer"} : CommitCreate(r, x)
    <3>1. PICK x \in {"admin", "viewer"} : CommitCreate(r, x)
      BY <2>3
    <3>2. /\ disabled' = [disabled EXCEPT ![a] = FALSE]
          /\ role' = [role EXCEPT ![a] = x]
      BY <3>1 DEF CommitCreate
    <3>3. disabled \in [Admins -> BOOLEAN] /\ role \in [Admins -> {"admin", "viewer"}]
      BY DEF TypeOK
    <3>4. disabled' \in [Admins -> BOOLEAN]
      BY <3>2, <3>3
    <3>5. role' \in [Admins -> {"admin", "viewer"}]
      BY <3>2, <3>3
    <3> QED
      BY <3>4, <3>5
  <2> QED
    BY <2>1, <2>2, <2>3
<1>6. late' \in [Requests -> BOOLEAN] /\ \A p \in Requests : late'[p] => late[p]
  BY DEF TypeOK, CommitUpdate, CommitDelete, CommitCreate
<1>7. TypeOK'
  <2>1. overtaken' \in [Requests -> BOOLEAN]
    BY DEF TypeOK, CommitUpdate, CommitDelete, CommitCreate, Overtake
  <2> QED
    BY <1>1, <1>2, <1>4, <1>5, <1>6, <2>1 DEF TypeOK
<1>8. Owned'
  BY <1>1, <1>2 DEF Owned, InFlight
<1>9. Born'
  BY <1>1, <1>4 DEF TypeOK, LoginStates, Born
<1>10. ASSUME NEW p \in Requests, InFlight(p)', late'[p]
       PROVE  ~Usable(owner[req[p].sid])'
  <2> DEFINE b == owner[req[p].sid]
  <2>1. p # r /\ req'[p] = req[p] /\ InFlight(p)
    BY <1>2, <1>10 DEF InFlight
  <2>2. late[p] /\ ~Usable(b)
    BY <1>6, <1>10, <2>1 DEF LateIsRefused
  <2>3. req[p].sid \in Sids /\ b # Nobody
    BY <2>1 DEF TypeOK, RequestStates, Owned
  <2>4. b \in Admins /\ row[b] # "none"
    BY <2>3 DEF TypeOK, Born
  <2>5. CASE b # a
    BY <1>0, <1>1, <2>1, <2>2, <2>4, <2>5 DEF TypeOK, CommitUpdate, CommitDelete,
                                              CommitCreate, Usable
  <2>6. CASE b = a /\ CommitUpdate(r)
    BY <1>1, <1>10, <2>1, <2>6 DEF CommitUpdate, Usable
  <2>7. CASE b = a /\ ~CommitUpdate(r)
    BY <1>0, <1>1, <2>1, <2>4, <2>7 DEF TypeOK, CommitDelete, CommitCreate, Usable
  <2> QED
    BY <2>5, <2>6, <2>7
<1>11. ASSUME NEW p \in Requests, Acting(p)' PROVE ~late'[p]
  BY <1>2, <1>6, <1>11 DEF LateIsRefused, Acting
<1> QED
  BY <1>7, <1>8, <1>9, <1>10, <1>11 DEF LateIsRefused

LEMMA NextIInv == IInv /\ [Next]_vars => IInv'
<1> SUFFICES ASSUME IInv, [Next]_vars PROVE IInv'
  OBVIOUS
<1>1. CASE Next
  BY <1>1, LoginSteps, SessionSteps, RequireSessionSteps, DecideSteps, CommitSteps DEF Next
<1>2. CASE UNCHANGED vars
  BY <1>2 DEF IInv, TypeOK, Owned, Born, LateIsRefused, InFlight, Acting, Usable,
              vars, accountVars, lockoutVars, sessionVars, loginVars, requestVars
<1> QED
  BY <1>1, <1>2

(* The admin plane's state is well typed: in particular the two lockout    *)
(* columns and every request's snapshot stay within their domains.         *)
THEOREM AdminTypes == Spec => []TypeOK
<1>1. IInv => TypeOK
  BY DEF IInv
<1>2. Spec => []IInv
  BY InitIInv, NextIInv, PTL DEF Spec
<1> QED
  BY <1>1, <1>2, PTL

(* No request acts for an account that was disabled or deleted before the  *)
(* request came in and has not been enabled since, for any number of       *)
(* concurrent requests: require_session reads the row on every request.    *)
THEOREM LateRequestsRefused == Spec => []NoLateAction
<1>1. IInv => NoLateAction
  BY DEF IInv, LateIsRefused, NoLateAction, Acting
<1>2. Spec => []IInv
  BY InitIInv, NextIInv, PTL DEF Spec
<1> QED
  BY <1>1, <1>2, PTL

-----------------------------------------------------------------------------
(* The lockout.  A login that was not outrun has loaded the counter as it  *)
(* still is; the counter counts every failure of the row; and the row does *)
(* not reach max_failed_attempts without a lock.  (The counter itself may: *)
(* a pass that was outrun clears the lock and leaves the counter.)         *)
Counted ==
    /\ \A l \in Logins : login[l].at = "loaded" /\ ~outrun[l] =>
          login[l].failed = failed[login[l].admin]
    /\ \A a \in Admins : strikes[a] <= failed[a]
    /\ ThresholdLocks

LEMMA CountedFail ==
    ASSUME TypeOK, Counted, NEW l \in Logins, LoginFail(l) PROVE Counted'
<1> DEFINE a == login[l].admin
           n == login[l].failed + 1
           k == IF outrun[l] THEN 1 ELSE strikes[a] + 1
<1>1. login[l] \in LoginStates /\ a \in Admins /\ login[l].failed \in Nat
  BY DEF TypeOK, LoginStates
<1>2. /\ failed' = [failed EXCEPT ![a] = n]
      /\ strikes' = [strikes EXCEPT ![a] = k]
      /\ lock' = IF n >= MaxFailed THEN [lock EXCEPT ![a] = "future"] ELSE lock
      /\ login' = [login EXCEPT ![l] = NoLogin]
      /\ login[l].at = "loaded"
  BY DEF LoginFail, LocksAfter
<1>3. \A m \in Logins : outrun'[m] = (m # l /\ (outrun[m] \/ (login[m].at = "loaded" /\ login[m].admin = a)))
  BY DEF LoginFail, Outrun
<1>4. k <= n /\ k \in Nat /\ n \in Nat
  BY <1>1, <1>2 DEF TypeOK, Counted
<1>5. ASSUME NEW m \in Logins, login'[m].at = "loaded", ~outrun'[m]
      PROVE  login'[m].failed = failed'[login'[m].admin]
  <2>1. m # l
    BY <1>2, <1>5, DefaultTypes DEF TypeOK
  <2>2. login'[m] = login[m]
    BY <1>2, <2>1 DEF TypeOK
  <2>3. login[m].admin # a /\ ~outrun[m] /\ login[m].admin \in Admins
    BY <1>3, <1>5, <2>1, <2>2 DEF TypeOK, LoginStates
  <2>4. failed'[login[m].admin] = failed[login[m].admin]
    BY <1>1, <1>2, <2>3 DEF TypeOK
  <2> QED
    BY <1>5, <2>2, <2>3, <2>4 DEF Counted
<1>6. ASSUME NEW b \in Admins
      PROVE  /\ strikes'[b] <= failed'[b]
             /\ strikes'[b] >= MaxFailed => lock'[b] # "null"
  <2>1. CASE b # a
    <3>1. strikes'[b] = strikes[b] /\ failed'[b] = failed[b] /\ lock'[b] = lock[b]
      BY <1>1, <1>2, <2>1 DEF TypeOK
    <3> QED
      BY <3>1 DEF Counted, ThresholdLocks
  <2>2. CASE b = a
    <3>1. strikes'[b] = k /\ failed'[b] = n
      BY <1>1, <1>2, <2>2 DEF TypeOK
    <3>2. n >= MaxFailed => lock'[b] = "future"
      BY <1>1, <1>2, <2>2 DEF TypeOK
    <3> HIDE DEF k, n
    <3> QED
      BY <1>4, <3>1, <3>2, MaxFailedAssumption
  <2> QED
    BY <2>1, <2>2
<1> QED
  BY <1>5, <1>6 DEF Counted, ThresholdLocks

LEMMA CountedPass ==
    ASSUME TypeOK, Counted, NEW l \in Logins, LoginPass(l) PROVE Counted'
<1> DEFINE a == login[l].admin
<1>1. login[l] \in LoginStates /\ a \in Admins
  BY DEF TypeOK, LoginStates
<1>2. /\ failed' = [failed EXCEPT ![a] = Flush(login[l].failed, 0, failed[a])]
      /\ strikes' = [strikes EXCEPT ![a] = 0]
      /\ lock' = [lock EXCEPT ![a] = Flush(login[l].lock, "null", lock[a])]
      /\ login' = [login EXCEPT ![l] = [NoLogin EXCEPT !.at = "passed", !.admin = a]]
  BY DEF LoginPass
<1>3. \A m \in Logins : outrun'[m] = (m # l /\ (outrun[m] \/ (login[m].at = "loaded" /\ login[m].admin = a)))
  BY DEF LoginPass, Outrun
<1>4. login'[l].at = "passed"
  BY <1>2 DEF TypeOK, NoLogin
<1>5. ASSUME NEW m \in Logins, login'[m].at = "loaded", ~outrun'[m]
      PROVE  login'[m].failed = failed'[login'[m].admin]
  <2>1. m # l
    BY <1>4, <1>5
  <2>2. login'[m] = login[m]
    BY <1>2, <2>1 DEF TypeOK
  <2>3. login[m].admin # a /\ ~outrun[m] /\ login[m].admin \in Admins
    BY <1>3, <1>5, <2>1, <2>2 DEF TypeOK, LoginStates
  <2>4. failed'[login[m].admin] = failed[login[m].admin]
    BY <1>1, <1>2, <2>3 DEF TypeOK
  <2> QED
    BY <1>5, <2>2, <2>3, <2>4 DEF Counted
<1>6. ASSUME NEW b \in Admins
      PROVE  /\ strikes'[b] <= failed'[b]
             /\ strikes'[b] >= MaxFailed => lock'[b] # "null"
  <2>1. CASE b # a
    <3>1. strikes'[b] = strikes[b] /\ failed'[b] = failed[b] /\ lock'[b] = lock[b]
      BY <1>1, <1>2, <2>1 DEF TypeOK
    <3> QED
      BY <3>1 DEF Counted, ThresholdLocks
  <2>2. CASE b = a
    <3>1. strikes'[b] = 0 /\ failed'[b] \in Nat
      BY <1>1, <1>2, <2>2 DEF TypeOK, Flush
    <3> QED
      BY <3>1, MaxFailedAssumption
  <2> QED
    BY <2>1, <2>2
<1> QED
  BY <1>5, <1>6 DEF Counted, ThresholdLocks

LEMMA CountedStep ==
    ASSUME TypeOK, Counted, [Next]_vars PROVE Counted'
<1> USE DEF lockoutVars, loginVars
<1>1. ASSUME NEW l \in Logins, NEW a \in Admins, LoginLoad(l, a) PROVE Counted'
  <2>1. /\ login'[l].failed = failed[a] /\ login'[l].admin = a
        /\ \A m \in Logins \ {l} : login'[m] = login[m]
        /\ UNCHANGED <<failed, lock, strikes, outrun>>
    BY <1>1 DEF TypeOK, LoginLoad
  <2> QED
    BY <2>1 DEF Counted, ThresholdLocks
<1>2. ASSUME NEW l \in Logins, LoginAborts(l) \/ \E s \in Sids : LoginSession(l, s)
      PROVE  Counted'
  <2>1. /\ login'[l].at = "idle"
        /\ \A m \in Logins \ {l} : login'[m] = login[m] /\ outrun'[m] = outrun[m]
        /\ UNCHANGED <<failed, lock, strikes>>
    BY <1>2, DefaultTypes DEF TypeOK, LoginAborts, LoginSession
  <2> QED
    BY <2>1 DEF Counted, ThresholdLocks
<1>3. ASSUME NEW a \in Admins, LockPasses(a) PROVE Counted'
  BY <1>3 DEF LockPasses, TypeOK, Counted, ThresholdLocks, LockUntil
<1>4. CASE UNCHANGED <<failed, lock, strikes, login, outrun>>
  BY <1>4 DEF Counted, ThresholdLocks
<1>5. ASSUME \/ \E s \in Sids : Logout(s) \/ SessionExpires(s)
             \/ \E r \in Requests :
                   \/ \E s \in Sids : RequestLoad(r, s)
                   \/ TouchGet(r) \/ TouchSet(r) \/ Authorise(r)
                   \/ \E c \in Changes, a \in Admins : LoadTarget(r, c, a)
                   \/ Decide(r) \/ CommitUpdate(r) \/ CommitDelete(r)
                   \/ \E x \in {"admin", "viewer"} : CommitCreate(r, x)
                   \/ RequestEnds(r)
             \/ UNCHANGED vars
      PROVE  UNCHANGED <<failed, lock, strikes, login, outrun>>
  BY <1>5 DEF Logout, SessionExpires, RequestLoad, TouchGet, TouchSet, Authorise,
       LoadTarget, Decide, CommitUpdate, CommitDelete, CommitCreate, RequestEnds, vars
<1> QED
  BY <1>1, <1>2, <1>3, <1>4, <1>5, CountedFail, CountedPass DEF Next

(* max_failed_attempts failures in a row lock the account, with any number *)
(* of logins under way at once: only a failure that had loaded the counter *)
(* before another login was counted begins a new row.                      *)
THEOREM LockoutWorks == Spec => []ThresholdLocks
<1>1. Init => Counted
  BY MaxFailedAssumption, DefaultTypes DEF Init, Counted, ThresholdLocks
<1>2. TypeOK /\ Counted /\ [Next]_vars => Counted'
  BY CountedStep
<1>3. Counted => ThresholdLocks
  BY DEF Counted
<1> QED
  BY <1>1, <1>2, <1>3, AdminTypes, PTL DEF Spec

-----------------------------------------------------------------------------
(* The last active admin.  Of a request that was not overtaken: a target   *)
(* that it loaded as inactive still is; and when it has decided to take an *)
(* active admin away there is another one.                                 *)
Reducing(r) == req[r].change \in {"disable", "demote", "delete"}

Sound(r) ==
    ~overtaken[r] =>
        /\ req[r].at \in {"target", "decided"} /\ Reducing(r) /\ ~Reduces(r) =>
              ~ActiveAdmin(req[r].target)
        /\ req[r].at = "decided" /\ Reduces(r) =>
              \E b \in Admins : b # req[r].target /\ ActiveAdmin(b)

LastInv == \A r \in Requests : Sound(r)

(* A set with more than one element is not within a singleton. *)
LEMMA MoreThanOne ==
    ASSUME NEW S, NEW a, S \subseteq {a} PROVE Cardinality(S) <= 1
<1>1. S = {} \/ S = {a}
  OBVIOUS
<1>2. Cardinality({}) = 0 /\ Cardinality({a}) = 1
  BY FS_EmptySet, FS_Singleton
<1> QED
  BY <1>1, <1>2

(* What stays sound as long as the accounts do not change. *)
LEMMA SoundFrame ==
    ASSUME NEW r \in Requests, Sound(r), UNCHANGED <<row, role, disabled>>,
           req'[r] = req[r], overtaken'[r] = overtaken[r]
    PROVE  Sound(r)'
BY DEF Sound, Reducing, Reduces, ActiveAdmin

(* A step of one request that leaves the accounts alone. *)
LEMMA SoundAlone ==
    ASSUME IInv, LastInv, NEW r \in Requests, Sound(r)',
           UNCHANGED <<row, role, disabled>>,
           \A q \in Requests \ {r} : req'[q] = req[q] /\ overtaken'[q] = overtaken[q]
    PROVE  LastInv'
BY SoundFrame DEF LastInv

LEMMA LastRequireSession ==
    ASSUME IInv, LastInv, NEW r \in Requests,
           \/ \E s \in Sids : RequestLoad(r, s)
           \/ TouchGet(r) \/ TouchSet(r) \/ Authorise(r) \/ RequestEnds(r)
    PROVE  LastInv'
<1> USE DEF accountVars
<1>0. req[r] \in RequestStates /\ req \in [Requests -> RequestStates]
  BY DEF IInv, TypeOK
<1>1. /\ UNCHANGED <<row, role, disabled>>
      /\ \A q \in Requests \ {r} : req'[q] = req[q] /\ overtaken'[q] = overtaken[q]
  BY <1>0 DEF IInv, TypeOK, RequestLoad, TouchGet, TouchSet, Authorise, RequestEnds, Finish
<1>2. req'[r].at \in {"idle", "loaded", "touching", "touched", "acting"}
  <2>1. ASSUME NEW s \in Sids, RequestLoad(r, s) PROVE req'[r].at = "loaded"
    BY <1>0, <2>1 DEF RequestLoad, RequestStates
  <2>2. CASE TouchGet(r)
    BY <1>0, <2>2 DEF TouchGet, RequestStates
  <2>3. CASE TouchSet(r)
    BY <1>0, <2>3 DEF TouchSet, RequestStates
  <2>4. CASE Authorise(r)
    <3>1. CASE Usable(owner[req[r].sid])
      BY <1>0, <2>4, <3>1 DEF Authorise, RequestStates
    <3>2. CASE ~Usable(owner[req[r].sid])
      BY <1>0, <2>4, <3>2, DefaultTypes DEF Authorise, Finish
    <3> QED
      BY <3>1, <3>2
  <2>5. CASE RequestEnds(r)
    BY <1>0, <2>5, DefaultTypes DEF RequestEnds, Finish
  <2> QED
    BY <2>1, <2>2, <2>3, <2>4, <2>5
<1>3. Sound(r)'
  BY <1>2 DEF Sound
<1> QED
  BY <1>1, <1>3, SoundAlone

LEMMA LastLoadTarget ==
    ASSUME IInv, LastInv, NEW r \in Requests, NEW c \in Changes, NEW a \in Admins,
           LoadTarget(r, c, a)
    PROVE  LastInv'
<1> USE DEF accountVars
<1> DEFINE own == c # "create" /\ a = owner[req[r].sid]
           was == IF own THEN req[r].role ELSE role[a]
           off == ~own /\ disabled[a]
           q   == [req[r] EXCEPT !.at = "target", !.change = c, !.target = a,
                                 !.wasRole = was, !.wasDisabled = off]
<1>0. req[r] \in RequestStates /\ req \in [Requests -> RequestStates]
  BY DEF IInv, TypeOK
<1>1. UNCHANGED <<row, role, disabled, overtaken>> /\ req[r].role = "admin"
  BY DEF LoadTarget
<1>2. req' = [req EXCEPT ![r] = q]
  BY DEF LoadTarget
<1>3. ~(was = "admin" /\ ~off) => ~own /\ ~ActiveAdmin(a)
  BY <1>1 DEF ActiveAdmin
<1> HIDE DEF was, off
<1>4. /\ q.at = "target" /\ q.change = c /\ q.target = a /\ q.wasRole = was
      /\ q.wasDisabled = off
  BY <1>0 DEF RequestStates
<1> HIDE DEF q
<1>5. req'[r] = q /\ \A p \in Requests \ {r} : req'[p] = req[p]
  BY <1>0, <1>2
<1>6. ActiveAdmin(a)' = ActiveAdmin(a)
  BY <1>1 DEF ActiveAdmin
<1>7. Sound(r)'
  BY <1>3, <1>4, <1>5, <1>6 DEF Sound, Reducing, Reduces
<1> QED
  BY <1>1, <1>5, <1>7, SoundAlone

LEMMA LastDecide ==
    ASSUME IInv, LastInv, NEW r \in Requests, Decide(r) PROVE LastInv'
<1> USE DEF accountVars
<1>0. req[r] \in RequestStates /\ req \in [Requests -> RequestStates]
  BY DEF IInv, TypeOK
<1>1. /\ UNCHANGED <<row, role, disabled>> /\ req[r].at = "target"
      /\ \A q \in Requests \ {r} : req'[q] = req[q] /\ overtaken'[q] = overtaken[q]
  BY <1>0 DEF IInv, TypeOK, Decide, Finish
<1>2. CASE Reduces(r) /\ Cardinality(ActiveAdmins) <= 1
  <2>1. req'[r].at = "idle"
    BY <1>0, <1>2, DefaultTypes DEF Decide, Finish
  <2>2. Sound(r)'
    BY <2>1 DEF Sound
  <2> QED
    BY <1>1, <2>2, SoundAlone
<1>3. CASE ~(Reduces(r) /\ Cardinality(ActiveAdmins) <= 1)
  <2> DEFINE q == [req[r] EXCEPT !.at = "decided"]
  <2>1. /\ q.at = "decided" /\ q.change = req[r].change /\ q.target = req[r].target
        /\ q.wasRole = req[r].wasRole /\ q.wasDisabled = req[r].wasDisabled
    BY <1>0 DEF RequestStates
  <2>2. req'[r] = q /\ overtaken' = overtaken
    BY <1>0, <1>3 DEF Decide
  <2> HIDE DEF q
  <2>3. /\ Reduces(r)' = Reduces(r) /\ Reducing(r)' = Reducing(r)
        /\ req'[r].target = req[r].target
    BY <2>1, <2>2 DEF Reduces, Reducing
  <2>4. \A b \in Admins : ActiveAdmin(b)' = ActiveAdmin(b)
    BY <1>1 DEF ActiveAdmin
  <2>5. req[r].target \in Admins
    BY <1>0 DEF RequestStates
  <2>6. Reduces(r) => \E b \in Admins : b # req[r].target /\ ActiveAdmin(b)
    BY <1>3, MoreThanOne DEF ActiveAdmins
  <2>7. Sound(r)'
    BY <1>1, <2>2, <2>3, <2>4, <2>5, <2>6 DEF LastInv, Sound
  <2> QED
    BY <1>1, <2>7, SoundAlone
<1> QED
  BY <1>2, <1>3

(* A commit keeps the others sound, or overtakes them. *)
LEMMA LastCommit ==
    ASSUME IInv, LastInv, NEW r \in Requests,
           \/ CommitUpdate(r) \/ CommitDelete(r)
           \/ \E x \in {"admin", "viewer"} : CommitCreate(r, x)
    PROVE  LastInv'
<1>1. req' = [req EXCEPT ![r] = NoRequest] /\ Overtake(r)
  BY DEF CommitUpdate, CommitDelete, CommitCreate
<1>2. req'[r].at = "idle" /\ \A q \in Requests \ {r} : req'[q] = req[q]
  BY <1>1, DefaultTypes DEF IInv, TypeOK
<1>3. Sound(r)'
  BY <1>2 DEF Sound
<1>4. ASSUME NEW q \in Requests \ {r}, ~overtaken'[q] PROVE Sound(q)'
  <2>1. ~overtaken[q] /\ ~Undermines(q)
    BY <1>1, <1>4 DEF Overtake
  <2>2. req[q].target \in Admins
    BY DEF IInv, TypeOK, RequestStates
  <2>3. Reduces(q)' = Reduces(q) /\ Reducing(q)' = Reducing(q)
    BY <1>2 DEF Reduces, Reducing
  <2>4. ASSUME req[q].at \in {"target", "decided"}, ~ActiveAdmin(req[q].target)
        PROVE  ~ActiveAdmin(req[q].target)'
    BY <1>2, <2>1, <2>2, <2>4 DEF Undermines, ActiveAdmins
  <2>5. ASSUME req[q].at = "decided", NEW b \in Admins, ActiveAdmin(b)
        PROVE  ActiveAdmin(b)'
    BY <2>1, <2>5 DEF Undermines, ActiveAdmins
  <2>6. Sound(q)
    BY DEF LastInv
  <2> QED
    BY <1>2, <2>1, <2>3, <2>4, <2>5, <2>6 DEF Sound
<1>5. ASSUME NEW q \in Requests \ {r} PROVE Sound(q)'
  BY <1>4, <1>5 DEF Sound
<1> QED
  BY <1>3, <1>5 DEF LastInv

LEMMA LastStep ==
    ASSUME IInv, LastInv, [Next]_vars PROVE LastInv'
<1>1. ASSUME \/ \E l \in Logins : \/ \E a \in Admins : LoginLoad(l, a)
                                  \/ LoginFail(l) \/ LoginPass(l) \/ LoginAborts(l)
                                  \/ \E s \in Sids : LoginSession(l, s)
             \/ \E a \in Admins : LockPasses(a)
             \/ \E s \in Sids : Logout(s) \/ SessionExpires(s)
             \/ UNCHANGED vars
      PROVE  LastInv'
  <2>1. UNCHANGED <<row, role, disabled, req, overtaken>>
    BY <1>1 DEF LoginLoad, LoginFail, LoginPass, LoginAborts, LoginSession, LockPasses,
         Logout, SessionExpires, vars, accountVars, requestVars
  <2> QED
    BY <2>1, SoundFrame DEF LastInv
<1> QED
  BY <1>1, LastRequireSession, LastLoadTarget, LastDecide, LastCommit DEF Next

(* A commit that was not overtaken leaves an active admin. *)
LEMMA CommitLeavesOne ==
    ASSUME IInv, LastInv, NEW r \in Requests, ~overtaken[r],
           \/ CommitUpdate(r) \/ CommitDelete(r)
           \/ \E x \in {"admin", "viewer"} : CommitCreate(r, x),
           ActiveAdmins # {}
    PROVE  ActiveAdmins' # {}
<1> DEFINE a == req[r].target
<1>0. req[r] \in RequestStates /\ a \in Admins
  BY DEF IInv, TypeOK, RequestStates
<1>1. req[r].at = "decided" /\ Sound(r)
  BY DEF CommitUpdate, CommitDelete, CommitCreate, LastInv
<1>2. \A b \in Admins \ {a} : ActiveAdmin(b) => ActiveAdmin(b)'
  BY <1>0 DEF IInv, TypeOK, CommitUpdate, CommitDelete, CommitCreate, ActiveAdmin
<1>3. CASE \E b \in Admins : b # a /\ ActiveAdmin(b)
  BY <1>2, <1>3 DEF ActiveAdmins
<1>4. CASE ~ \E b \in Admins : b # a /\ ActiveAdmin(b)
  <2>1. ActiveAdmin(a)
    BY <1>4 DEF ActiveAdmins
  <2>2. ~Reducing(r)
    BY <1>1, <1>4, <2>1 DEF Sound
  <2>3. req[r].change # "create"
    BY <2>1 DEF ActiveAdmin, CommitCreate, CommitUpdate, CommitDelete
  <2>4. req[r].change \in {"enable", "promote"}
    BY <1>0, <2>2, <2>3 DEF Reducing, RequestStates, Changes
  <2>5. CommitUpdate(r)
    BY <2>4 DEF CommitDelete, CommitCreate
  <2>6. /\ role[a] = "admin" /\ disabled[a] = FALSE /\ row[a] = "present"
        /\ req[r].wasDisabled \in BOOLEAN
    BY <1>0, <2>1 DEF ActiveAdmin, IInv, TypeOK, RequestStates
  <2>7. /\ AssignedDisabled(r) \in {FALSE, req[r].wasDisabled}
        /\ AssignedRole(r) \in {"admin", req[r].wasRole}
    BY <2>4 DEF AssignedDisabled, AssignedRole
  <2>8. disabled'[a] = FALSE /\ role'[a] = "admin" /\ row' = row
    BY <1>0, <2>5, <2>6, <2>7 DEF CommitUpdate, Flush, IInv, TypeOK
  <2>9. PICK b \in Admins : b = a
    BY <1>0
  <2>10. ActiveAdmin(b)'
    BY <2>6, <2>8, <2>9 DEF ActiveAdmin
  <2> QED
    BY <2>10 DEF ActiveAdmins
<1> QED
  BY <1>3, <1>4

(* Only a request that was overtaken between its reads and its commit can  *)
(* take the last active admin away, with any number of accounts, sessions, *)
(* logins and requests: the count and the commit are separate statements.  *)
THEOREM LastAdminSafe == Spec => LastAdminRemains
<1> DEFINE Falls ==
      ActiveAdmins # {} /\ ActiveAdmins' = {} =>
        \E r \in Requests : req[r].at = "decided" /\ req'[r].at = "idle" /\ overtaken[r]
<1>1. Init => LastInv
  BY DefaultTypes DEF Init, LastInv, Sound
<1>2. IInv /\ LastInv /\ [Next]_vars => LastInv'
  BY LastStep
<1>3. Spec => [](IInv /\ LastInv)
  BY InitIInv, NextIInv, <1>1, <1>2, PTL DEF Spec
<1>4. ASSUME IInv, LastInv, [Next]_vars PROVE Falls
  <2>1. CASE \E r \in Requests : \/ CommitUpdate(r) \/ CommitDelete(r)
                                 \/ \E x \in {"admin", "viewer"} : CommitCreate(r, x)
    <3>1. PICK r \in Requests : \/ CommitUpdate(r) \/ CommitDelete(r)
                                \/ \E x \in {"admin", "viewer"} : CommitCreate(r, x)
      BY <2>1
    <3>2. req[r].at = "decided" /\ req' = [req EXCEPT ![r] = NoRequest]
      BY <3>1 DEF CommitUpdate, CommitDelete, CommitCreate
    <3>3. req'[r].at = "idle"
      BY <1>4, <3>2, DefaultTypes DEF IInv, TypeOK
    <3> QED
      BY <1>4, <3>1, <3>2, <3>3, CommitLeavesOne
  <2>2. CASE ~ \E r \in Requests : \/ CommitUpdate(r) \/ CommitDelete(r)
                                   \/ \E x \in {"admin", "viewer"} : CommitCreate(r, x)
    <3>1. UNCHANGED <<row, role, disabled>>
      BY <1>4, <2>2 DEF Next, LoginLoad, LoginFail, LoginPass, LoginAborts, LoginSession,
           LockPasses, Logout, SessionExpires, RequestLoad, TouchGet, TouchSet, Authorise,
           LoadTarget, Decide, RequestEnds, vars, accountVars
    <3>2. ActiveAdmins' = ActiveAdmins
      BY <3>1 DEF ActiveAdmins, ActiveAdmin
    <3> QED
      BY <3>2
  <2> QED
    BY <2>1, <2>2
<1>5. (IInv /\ LastInv) /\ [Next]_vars => [Falls]_vars
  BY <1>4
<1>6. LastAdminRemains <=> [][Falls]_vars
  BY PTL DEF LastAdminRemains
<1> HIDE DEF Falls
<1> QED
  BY <1>3, <1>5, <1>6, PTL DEF Spec

-----------------------------------------------------------------------------
(***************************************************************************)
(* The lists of the panel.                                                 *)
(***************************************************************************)
Rows == Row \cup {None}

LoadStates ==
    [at : {"none", "asked", "served"}, reset : BOOLEAN, filter : Filters \cup {None},
     cursor : Rows, page : Seq(Row), next : Rows, matched : SUBSET Row, alone : BOOLEAN]

ListTypes ==
    /\ table \in SUBSET Row
    /\ IsFiniteSet(table)
    /\ \A r, s \in table : r.id = s.id => r = s
    /\ kind \in [Ids -> Filters]
    /\ filter \in Filters
    /\ shown \in Seq(Row)
    /\ nextCursor \in Rows
    /\ load \in [Loads -> LoadStates]
    /\ old \in SUBSET Row
    /\ clean \in BOOLEAN

(* The rows of s come newest first, so none comes twice.                   *)
Descending(s) == \A i, j \in DOMAIN s : i < j => Before(s[j], s[i])

(* The cursor c goes with the last row of s.                               *)
Marks(c, s) == c # None => s # <<>> /\ c = Last(s)

(* The row r is in s, or behind its end.                                   *)
Met(r, s, c) == r \in ToSet(s) \/ (c # None /\ Before(r, Last(s)))

Busy(l) == load[l].at # "none"

(* A load that has run alone still does.                                   *)
Alone ==
    \A l \in Loads : Busy(l) /\ load[l].alone =>
        /\ \A k \in Loads : Busy(k) => k = l
        /\ ~load[l].reset => load[l].cursor = nextCursor /\ nextCursor # None

(* What a load brings is a page that lies behind its cursor.               *)
ServedPage(l) ==
    /\ Descending(load[l].page)
    /\ Marks(load[l].next, load[l].page)
    /\ load[l].cursor # None =>
           \A i \in DOMAIN load[l].page : Before(load[l].page[i], load[l].cursor)

Pages == \A l \in Loads : load[l].at = "served" => ServedPage(l)

(* What a reload has found and still matches.                              *)
Found ==
    \A l \in Loads : \A r \in load[l].matched :
        /\ load[l].at = "served"
        /\ r \in table
        /\ kind[r.id] = load[l].filter
        /\ Met(r, load[l].page, load[l].next)

(* A clean list is in order, and its old rows match its filter.            *)
CleanList ==
    clean =>
        /\ Descending(shown)
        /\ Marks(nextCursor, shown)
        /\ \A r \in old : /\ r \in table
                          /\ kind[r.id] = shownFilter
                          /\ Met(r, shown, nextCursor)

(* The next page of a clean list goes on where the list ends.              *)
Continues ==
    \A l \in Loads :
        /\ clean /\ load[l].at = "served" /\ load[l].alone /\ ~load[l].reset
        /\ load[l].filter = shownFilter
        => \A r \in old : Before(r, load[l].cursor) => Met(r, load[l].page, load[l].next)

ListInv == ListTypes /\ Alone /\ Pages /\ Found /\ CleanList /\ Continues

-----------------------------------------------------------------------------
(* Rows are ordered by timestamp and identifier. *)
LEMMA RowOrder ==
    \A r, s, t \in Row :
        /\ ~Before(r, r)
        /\ Before(r, s) /\ Before(s, t) => Before(r, t)
        /\ r # s => Before(r, s) \/ Before(s, r)
<1> SUFFICES ASSUME NEW r \in Row, NEW s \in Row, NEW t \in Row
             PROVE  /\ ~Before(r, r)
                    /\ Before(r, s) /\ Before(s, t) => Before(r, t)
                    /\ r # s => Before(r, s) \/ Before(s, r)
  OBVIOUS
<1>1. \A x \in Row : x.ts \in Int /\ x.id \in Int
  <2>1. MaxTs \in Nat /\ Ids \in SUBSET Nat
    BY BoundsAssumption
  <2> TAKE x \in Row
  <2>2. x.ts \in 1..MaxTs /\ x.id \in Ids
    BY DEF Row
  <2>3. x.id \in Nat
    BY <2>1, <2>2
  <2>4. x.ts \in Int
    BY <2>1, <2>2
  <2> QED
    BY <2>3, <2>4
<1>2. r = s \/ r.ts # s.ts \/ r.id # s.id
  BY DEF Row
<1> QED
  BY <1>1, <1>2 DEF Before

(* The older of two rows has more newer ones. *)
LEMMA OlderHasMore ==
    ASSUME NEW rows \in SUBSET Row, IsFiniteSet(rows),
           NEW r \in rows, NEW s \in rows, Before(r, s)
    PROVE  Cardinality(Newer(s, rows)) < Cardinality(Newer(r, rows))
<1>1. /\ Newer(r, rows) \in SUBSET rows
      /\ Newer(s, rows) \in SUBSET Newer(r, rows)
      /\ s \in Newer(r, rows)
      /\ s \notin Newer(s, rows)
  BY RowOrder DEF Newer
<1>2. IsFiniteSet(Newer(r, rows))
  BY <1>1, FS_Subset
<1>3. /\ Cardinality(Newer(s, rows)) <= Cardinality(Newer(r, rows))
      /\ Cardinality(Newer(r, rows)) = Cardinality(Newer(s, rows)) =>
             Newer(r, rows) = Newer(s, rows)
  BY <1>1, <1>2, FS_Subset
<1>4. Cardinality(Newer(r, rows)) \in Nat /\ Cardinality(Newer(s, rows)) \in Nat
  BY <1>1, <1>2, FS_Subset, FS_CardinalityType
<1> QED
  BY <1>1, <1>3, <1>4

(* Of n rows exactly one has i - 1 newer ones, for i in 1..n. *)
LEMMA Ranks ==
    ASSUME NEW rows \in SUBSET Row, IsFiniteSet(rows)
    PROVE  /\ Cardinality(rows) \in Nat
           /\ \A r \in rows : Cardinality(Newer(r, rows)) \in 0..Cardinality(rows) - 1
           /\ \A r, s \in rows :
                  Cardinality(Newer(r, rows)) = Cardinality(Newer(s, rows)) => r = s
           /\ \A i \in 1..Cardinality(rows) :
                  \E r \in rows : Cardinality(Newer(r, rows)) = i - 1
<1> DEFINE n == Cardinality(rows)
           Rank(r) == Cardinality(Newer(r, rows))
           f == [r \in rows |-> Rank(r)]
<1>1. n \in Nat
  BY FS_CardinalityType
<1>2. ASSUME NEW r \in rows PROVE Rank(r) \in 0..n - 1
  <2>1. Newer(r, rows) \in SUBSET rows /\ r \notin Newer(r, rows)
    BY RowOrder DEF Newer
  <2>2. /\ IsFiniteSet(Newer(r, rows))
        /\ Rank(r) <= n
        /\ n = Rank(r) => rows = Newer(r, rows)
    BY <2>1, FS_Subset
  <2>3. Rank(r) \in Nat
    BY <2>2, FS_CardinalityType
  <2>4. n # Rank(r)
    BY <2>1, <2>2
  <2> HIDE DEF n, Rank
  <2> QED
    BY <1>1, <2>2, <2>3, <2>4
<1>3. ASSUME NEW r \in rows, NEW s \in rows, Rank(r) = Rank(s) PROVE r = s
  <2>1. CASE Before(r, s)
    <3>1. Rank(s) < Rank(r) BY <2>1, OlderHasMore
    <3> QED BY <1>1, <1>2, <1>3, <3>1
  <2>2. CASE Before(s, r)
    <3>1. Rank(r) < Rank(s) BY <2>2, OlderHasMore
    <3> QED BY <1>1, <1>2, <1>3, <3>1
  <2> QED
    BY <2>1, <2>2, RowOrder
<1> HIDE DEF n, Rank
<1>4. f \in Injection(rows, 0..n - 1)
  BY <1>2, <1>3 DEF Injection, IsInjective
<1>5. IsFiniteSet(0..n - 1) /\ Cardinality(0..n - 1) = n
  BY <1>1, FS_Interval
<1>6. f \in Surjection(rows, 0..n - 1)
  BY <1>4, <1>5, FS_Injection DEF n
<1>7. ASSUME NEW i \in 1..n PROVE \E r \in rows : Rank(r) = i - 1
  <2>1. i - 1 \in 0..n - 1
    BY <1>1
  <2> QED
    BY <1>6, <2>1 DEF Surjection
<1> QED
  BY <1>1, <1>2, <1>3, <1>7 DEF n, Rank

(* The smaller of two numbers. *)
LEMMA SmallerOfTwo ==
    ASSUME NEW a \in Int, NEW b \in Int
    PROVE  Min({a, b}) = IF a <= b THEN a ELSE b
<1>1. \E x \in {a, b} : \A y \in {a, b} : x <= y
  <2>1. CASE a <= b BY <2>1
  <2>2. CASE b <= a BY <2>2
  <2> QED BY <2>1, <2>2
<1>2. Min({a, b}) \in {a, b} /\ \A y \in {a, b} : Min({a, b}) <= y
  BY <1>1 DEF Min
<1> QED
  BY <1>2

(* A page is the front of the rows, newest first, and its cursor is that   *)
(* of its last row whenever some row has found no place.                   *)
LEMMA PageOfRows ==
    ASSUME NEW rows \in SUBSET Row, IsFiniteSet(rows)
    PROVE  /\ Page(rows) \in Seq(Row)
           /\ \A i \in DOMAIN Page(rows) : Page(rows)[i] \in rows
           /\ Descending(Page(rows))
           /\ NextCursor(rows) \in Rows
           /\ Marks(NextCursor(rows), Page(rows))
           /\ \A r \in rows : Met(r, Page(rows), NextCursor(rows))
<1> DEFINE n == Cardinality(rows)
           Rank(r) == Cardinality(Newer(r, rows))
           k == Min({Limit, n})
           p == Page(rows)
<1>1. Limit \in Nat \ {0} /\ n \in Nat
  BY BoundsAssumption, Ranks
<1>2. /\ k = IF Limit <= n THEN Limit ELSE n
      /\ k \in Nat
  BY <1>1, SmallerOfTwo
<1>3. p = [i \in 1..k |-> CHOOSE r \in rows : Rank(r) = i - 1]
  BY DEF Page
<1>4. /\ \A r \in rows : Rank(r) \in 0..n - 1
      /\ \A r, s \in rows : Rank(r) = Rank(s) => r = s
      /\ \A i \in 1..n : \E r \in rows : Rank(r) = i - 1
      /\ \A r, s \in rows : Before(r, s) => Rank(s) < Rank(r)
  BY Ranks, OlderHasMore
<1> HIDE DEF n, Rank, k, p
<1>5. ASSUME NEW i \in 1..k PROVE p[i] \in rows /\ Rank(p[i]) = i - 1
  <2>1. i \in 1..n
    BY <1>1, <1>2
  <2>2. PICK r \in rows : Rank(r) = i - 1
    BY <1>4, <2>1
  <2>3. p[i] = CHOOSE x \in rows : Rank(x) = i - 1
    BY <1>3
  <2> QED
    BY <2>2, <2>3
<1>6. p \in Seq(Row) /\ Len(p) = k /\ DOMAIN p = 1..k
  <2>1. p \in [1..k -> Row]
    BY <1>3, <1>5
  <2> QED
    BY <1>2, <2>1
<1>7. Descending(p)
  <2> SUFFICES ASSUME NEW i \in 1..k, NEW j \in 1..k, i < j
               PROVE  Before(p[j], p[i])
    BY <1>6 DEF Descending
  <2>1. p[i] \in rows /\ p[j] \in rows /\ Rank(p[i]) = i - 1 /\ Rank(p[j]) = j - 1
    BY <1>5
  <2>2. p[i] # p[j]
    BY <2>1
  <2>3. ~Before(p[i], p[j])
    BY <1>4, <2>1
  <2> QED
    BY <2>1, <2>2, <2>3, RowOrder
<1>8. /\ NextCursor(rows) \in Rows
      /\ NextCursor(rows) = IF n > Limit THEN p[k] ELSE None
      /\ n > Limit => k = Limit /\ p[k] \in rows /\ p # <<>>
  <2>1. NextCursor(rows) = IF n > Limit THEN p[k] ELSE None
    BY <1>6 DEF NextCursor, Last, p, n
  <2>2. n > Limit => k = Limit /\ k \in 1..k
    BY <1>1, <1>2
  <2>3. n > Limit => p[k] \in rows
    BY <1>5, <2>2
  <2>4. n > Limit => p # <<>>
    BY <1>6, <1>1, <2>2
  <2> QED
    BY <2>1, <2>2, <2>3, <2>4 DEF Rows
<1>9. Marks(NextCursor(rows), p)
  BY <1>6, <1>8 DEF Marks, Last
<1>10. ASSUME NEW r \in rows PROVE Met(r, p, NextCursor(rows))
  <2>1. CASE Rank(r) < k
    <3>1. Rank(r) + 1 \in 1..k
      BY <1>2, <1>1, <1>4, <2>1
    <3>2. p[Rank(r) + 1] \in rows /\ Rank(p[Rank(r) + 1]) = Rank(r)
      BY <1>1, <1>4, <1>5, <3>1
    <3>3. p[Rank(r) + 1] = r
      BY <1>4, <3>2
    <3> QED
      BY <1>6, <3>1, <3>3 DEF Met, ToSet
  <2>2. CASE k <= Rank(r)
    <3>1. n > Limit /\ k = Limit /\ k \in 1..k
      BY <1>1, <1>2, <1>4, <2>2
    <3>2. p[k] \in rows /\ Rank(p[k]) < Rank(r)
      BY <1>1, <1>4, <1>5, <2>2, <3>1
    <3>3. Before(r, p[k])
      BY <1>4, <1>1, <3>2, RowOrder
    <3>4. p[k] # None
      BY <3>2, NoneAssumption
    <3> QED
      BY <1>6, <1>8, <3>1, <3>3, <3>4 DEF Met, Last
  <2> QED
    BY <1>1, <1>2, <1>4, <2>1, <2>2
<1> QED
  BY <1>5, <1>6, <1>7, <1>8, <1>9, <1>10 DEF p

-----------------------------------------------------------------------------
LEMMA NoLoadFields ==
    /\ NoLoad \in LoadStates
    /\ NoLoad.at = "none" /\ NoLoad.page = <<>> /\ NoLoad.matched = {}
<1>1. <<>> \in Seq(Row)
  OBVIOUS
<1> QED
  BY <1>1 DEF NoLoad, LoadStates, Rows

LEMMA InitListInv == ListInit => ListInv
<1> SUFFICES ASSUME ListInit PROVE ListInv
  OBVIOUS
<1>1. \A l \in Loads : load[l].at = "none" /\ load[l].matched = {}
  BY NoLoadFields DEF ListInit
<1>2. ListTypes
  <2>1. shown \in Seq(Row)
    BY DEF ListInit
  <2>2. nextCursor \in Rows /\ old \in SUBSET Row /\ clean \in BOOLEAN
    BY DEF ListInit, Rows
  <2>3. load \in [Loads -> LoadStates]
    BY NoLoadFields DEF ListInit
  <2> QED
    BY <2>1, <2>2, <2>3 DEF ListInit, ListTypes
<1>3. CleanList
  BY DEF ListInit, CleanList
<1> QED
  BY <1>1, <1>2, <1>3 DEF ListInv, Alone, Busy, Pages, Found, Continues

(* A load that starts ends the solitude of those on their way. *)
LEMMA StartStep ==
    ASSUME ListInv, NEW l \in Loads, NEW reset \in BOOLEAN, NEW cursor \in Rows,
           Start(l, reset, cursor),
           ~reset => cursor = nextCursor /\ nextCursor # None
    PROVE  ListInv'
<1>1. ListTypes
  BY DEF ListInv
<1>2. UNCHANGED <<table, kind, filter, shown, nextCursor, shownFilter, old, clean>>
  BY DEF Start
<1>3. /\ load'[l] = [NoLoad EXCEPT !.at = "asked", !.reset = reset, !.filter = filter,
                        !.cursor = cursor, !.alone = \A k \in Loads : load[k].at = "none"]
      /\ DOMAIN load' = Loads
  BY DEF Start
<1>4. ASSUME NEW k \in Loads, k # l
      PROVE  load'[k] = IF load[k].at = "none" THEN load[k]
                        ELSE [load[k] EXCEPT !.alone = FALSE, !.matched = {}]
  BY <1>4 DEF Start
<1>5. /\ load'[l] \in LoadStates
      /\ load'[l].at = "asked" /\ load'[l].reset = reset /\ load'[l].cursor = cursor
      /\ load'[l].matched = {}
      /\ load'[l].alone = \A k \in Loads : load[k].at = "none"
  BY <1>1, <1>3, NoLoadFields DEF LoadStates, ListTypes
<1>6. ASSUME NEW k \in Loads, k # l
      PROVE  /\ load'[k] \in LoadStates
             /\ load'[k].at = load[k].at /\ load'[k].page = load[k].page
             /\ load'[k].next = load[k].next /\ load'[k].cursor = load[k].cursor
             /\ load'[k].filter = load[k].filter /\ load'[k].reset = load[k].reset
             /\ load'[k].matched \in SUBSET load[k].matched
             /\ Busy(k) => ~load'[k].alone
  <2>1. load[k] \in LoadStates
    BY <1>1 DEF ListTypes
  <2> QED
    BY <1>4, <1>6, <2>1 DEF LoadStates, Busy
<1>7. ListTypes'
  <2>1. load' \in [Loads -> LoadStates]
    <3>1. \A k \in Loads : load'[k] \in LoadStates
      BY <1>5, <1>6
    <3>2. load' = [k \in Loads |-> load'[k]]
      BY DEF Start
    <3> QED
      BY <3>1, <3>2
  <2> QED
    BY <1>1, <1>2, <2>1 DEF ListTypes
<1>8. Alone'
  <2> SUFFICES ASSUME NEW k \in Loads, Busy(k)', load'[k].alone
               PROVE  /\ \A j \in Loads : Busy(j)' => j = k
                      /\ ~load'[k].reset => load'[k].cursor = nextCursor' /\ nextCursor' # None
    BY DEF Alone
  <2>1. k = l
    BY <1>6 DEF Busy
  <2>2. \A j \in Loads : load[j].at = "none"
    BY <1>5, <2>1
  <2>3. \A j \in Loads : j # l => ~Busy(j)'
    BY <1>6, <2>2 DEF Busy
  <2> QED
    BY <1>2, <1>5, <2>1, <2>3
<1>9. Pages'
  <2> SUFFICES ASSUME NEW k \in Loads, load'[k].at = "served"
               PROVE  ServedPage(k)'
    BY DEF Pages
  <2>1. k # l
    BY <1>5
  <2>2. ServedPage(k)
    BY <1>6, <2>1 DEF ListInv, Pages
  <2> QED
    BY <1>6, <2>1, <2>2 DEF ServedPage
<1>10. Found'
  <2> SUFFICES ASSUME NEW k \in Loads, NEW r \in load'[k].matched
               PROVE  /\ load'[k].at = "served"
                      /\ r \in table'
                      /\ kind'[r.id] = load'[k].filter
                      /\ Met(r, load'[k].page, load'[k].next)
    BY DEF Found
  <2>1. k # l
    BY <1>5
  <2>2. r \in load[k].matched
    BY <1>6, <2>1
  <2> QED
    BY <1>2, <1>6, <2>1, <2>2 DEF ListInv, Found
<1>11. CleanList'
  BY <1>2 DEF ListInv, CleanList
<1>12. Continues'
  <2> SUFFICES ASSUME NEW k \in Loads, load'[k].at = "served", load'[k].alone
               PROVE  FALSE
    BY DEF Continues
  <2> QED
    BY <1>5, <1>6 DEF Busy
<1> QED
  BY <1>7, <1>8, <1>9, <1>10, <1>11, <1>12 DEF ListInv

(* The rows behind the cursor of a clean list are those it still has to    *)
(* bring.                                                                  *)
LEMMA ServeStep ==
    ASSUME Listing = "transfers", ListInv, NEW l \in Loads, Serve(l)
    PROVE  ListInv'
<1> DEFINE q == load[l]
           rows == Query(q.filter, q.cursor)
           found == IF q.reset /\ q.alone THEN rows ELSE {}
<1>1. ListTypes /\ q \in LoadStates
  BY DEF ListInv, ListTypes
<1>2. rows \in SUBSET Row /\ rows \in SUBSET table /\ IsFiniteSet(rows)
  <2>1. rows \in SUBSET table
    BY DEF Query
  <2>2. table \in SUBSET Row /\ IsFiniteSet(table)
    BY <1>1 DEF ListTypes
  <2> HIDE DEF rows
  <2> QED
    BY <2>1, <2>2, FS_Subset
<1>3. /\ \A r \in rows : kind[r.id] = q.filter /\ (q.cursor # None => Before(r, q.cursor))
      /\ \A r \in table : kind[r.id] = q.filter /\ Before(r, q.cursor) => r \in rows
  BY DEF Query, Follows
<1>4. UNCHANGED <<table, kind, filter, shown, nextCursor, shownFilter, old, clean>>
  BY DEF Serve
<1>5. load' = [load EXCEPT ![l] =
          [@ EXCEPT !.at = "served", !.page = Page(rows), !.next = NextCursor(rows),
                    !.matched = found]]
  BY DEF Serve
<1>6. /\ Page(rows) \in Seq(Row)
      /\ \A i \in DOMAIN Page(rows) : Page(rows)[i] \in rows
      /\ Descending(Page(rows))
      /\ NextCursor(rows) \in Rows
      /\ Marks(NextCursor(rows), Page(rows))
      /\ \A r \in rows : Met(r, Page(rows), NextCursor(rows))
  BY <1>2, PageOfRows
<1>7. found \in SUBSET rows
  OBVIOUS
<1> HIDE DEF rows, found
<1>8. /\ load'[l] \in LoadStates
      /\ load'[l].at = "served" /\ load'[l].page = Page(rows)
      /\ load'[l].next = NextCursor(rows) /\ load'[l].matched = found
      /\ load'[l].cursor = q.cursor /\ load'[l].filter = q.filter
      /\ load'[l].reset = q.reset /\ load'[l].alone = q.alone
      /\ q.at = "asked"
  <2>1. q.at = "asked"
    BY DEF Serve
  <2>2. load'[l] = [q EXCEPT !.at = "served", !.page = Page(rows),
                             !.next = NextCursor(rows), !.matched = found]
    BY <1>1, <1>5 DEF ListTypes
  <2>3. found \in SUBSET Row
    BY <1>2, <1>7
  <2> HIDE DEF q
  <2> QED
    BY <1>1, <1>6, <2>1, <2>2, <2>3 DEF LoadStates
<1>9. \A k \in Loads : k # l => load'[k] = load[k]
  BY <1>1, <1>5 DEF ListTypes
<1>10. ListTypes'
  <2>1. load' \in [Loads -> LoadStates]
    <3>1. \A k \in Loads : load'[k] \in LoadStates
      BY <1>1, <1>8, <1>9 DEF ListTypes
    <3>2. load' = [k \in Loads |-> load'[k]]
      BY <1>1, <1>5 DEF ListTypes
    <3> QED
      BY <3>1, <3>2
  <2> QED
    BY <1>1, <1>4, <2>1 DEF ListTypes
<1>11. Alone'
  <2>1. \A k \in Loads : Busy(k)' <=> Busy(k)
    BY <1>8, <1>9 DEF Busy
  <2> QED
    BY <1>4, <1>8, <1>9, <2>1 DEF ListInv, Alone
<1>12. Pages'
  <2> SUFFICES ASSUME NEW k \in Loads, load'[k].at = "served"
               PROVE  ServedPage(k)'
    BY DEF Pages
  <2>1. CASE k # l
    BY <1>9, <2>1 DEF ListInv, Pages, ServedPage
  <2>2. CASE k = l
    BY <1>3, <1>6, <1>8, <2>2 DEF ServedPage
  <2> QED
    BY <2>1, <2>2
<1>13. Found'
  <2> SUFFICES ASSUME NEW k \in Loads, NEW r \in load'[k].matched
               PROVE  /\ load'[k].at = "served"
                      /\ r \in table'
                      /\ kind'[r.id] = load'[k].filter
                      /\ Met(r, load'[k].page, load'[k].next)
    BY DEF Found
  <2>1. CASE k # l
    BY <1>4, <1>9, <2>1 DEF ListInv, Found
  <2>2. CASE k = l
    BY <1>2, <1>3, <1>4, <1>6, <1>7, <1>8, <2>2
  <2> QED
    BY <2>1, <2>2
<1>14. CleanList'
  BY <1>4 DEF ListInv, CleanList
<1>15. Continues'
  <2> SUFFICES ASSUME NEW k \in Loads, clean', load'[k].at = "served", load'[k].alone,
                      ~load'[k].reset, load'[k].filter = shownFilter', NEW r \in old',
                      Before(r, load'[k].cursor)
               PROVE  Met(r, load'[k].page, load'[k].next)
    BY DEF Continues
  <2>1. CASE k # l
    BY <1>4, <1>9, <2>1 DEF ListInv, Continues
  <2>2. CASE k = l
    <3>1. r \in table /\ kind[r.id] = q.filter /\ Before(r, q.cursor)
      BY <1>4, <1>8, <2>2 DEF ListInv, CleanList
    <3>2. r \in rows
      BY <1>3, <3>1
    <3> QED
      BY <1>6, <1>8, <2>2, <3>2
  <2> QED
    BY <2>1, <2>2
<1> QED
  BY <1>10, <1>11, <1>12, <1>13, <1>14, <1>15 DEF ListInv

(* What an ended load leaves behind. *)
LEMMA LoadEnds ==
    ASSUME ListInv, NEW l \in Loads, load' = [load EXCEPT ![l] = NoLoad]
    PROVE  /\ load' \in [Loads -> LoadStates]
           /\ load'[l].at = "none" /\ load'[l].matched = {}
           /\ \A k \in Loads : k # l => load'[k] = load[k]
<1>1. load \in [Loads -> LoadStates]
  BY DEF ListInv, ListTypes
<1> QED
  BY <1>1, NoLoadFields

(* The list with a page appended is in order, ends where the page ends and *)
(* has met what the page has.                                              *)
LEMMA AppendPage ==
    ASSUME NEW s \in Seq(Row), NEW p \in Seq(Row), NEW c \in Row, NEW d \in Rows,
           Descending(s), Descending(p), s # <<>>, c = Last(s), Marks(d, p),
           \A i \in DOMAIN p : Before(p[i], c)
    PROVE  /\ s \o p \in Seq(Row)
           /\ Descending(s \o p)
           /\ Marks(d, s \o p)
           /\ \A r \in Row : Met(r, s, c) /\ (Before(r, c) => Met(r, p, d)) => Met(r, s \o p, d)
<1> DEFINE m == Len(s)
           n == Len(p)
           u == s \o p
<1>1. /\ m \in Nat /\ n \in Nat /\ m # 0
      /\ u \in Seq(Row) /\ Len(u) = m + n
      /\ \A i \in 1..m : s[i] \in Row /\ u[i] = s[i]
      /\ \A i \in 1..n : p[i] \in Row /\ u[m + i] = p[i]
      /\ DOMAIN s = 1..m /\ DOMAIN p = 1..n /\ DOMAIN u = 1..m + n
  <2>1. /\ m \in Nat /\ n \in Nat /\ u \in Seq(Row) /\ Len(u) = m + n
        /\ DOMAIN s = 1..m /\ DOMAIN p = 1..n
    OBVIOUS
  <2>2. m # 0
    OBVIOUS
  <2>3. DOMAIN u = 1..m + n
    BY <2>1
  <2>4. /\ \A i \in 1..m : s[i] \in Row
        /\ \A i \in 1..n : p[i] \in Row
    OBVIOUS
  <2>5. \A i \in 1..m : u[i] = s[i]
    OBVIOUS
  <2>6. ASSUME NEW i \in 1..n PROVE u[m + i] = p[i]
    <3>1. m + i \in 1..m + n /\ ~(m + i <= m) /\ m + i - m = i
      BY <2>1
    <3> QED
      BY <2>1, <3>1
  <2> QED
    BY <2>1, <2>2, <2>3, <2>4, <2>5, <2>6
<1>2. c = s[m]
  BY DEF Last
<1>3. /\ \A i, j \in 1..m : i < j => Before(s[j], s[i])
      /\ \A i, j \in 1..n : i < j => Before(p[j], p[i])
      /\ \A i \in 1..n : Before(p[i], c)
  BY <1>1 DEF Descending
<1> HIDE DEF m, n, u
<1>4. Descending(u)
  <2> SUFFICES ASSUME NEW i \in 1..m + n, NEW j \in 1..m + n, i < j
               PROVE  Before(u[j], u[i])
    BY <1>1 DEF Descending
  <2>1. CASE j <= m
    <3>1. i \in 1..m /\ j \in 1..m
      BY <1>1, <2>1
    <3> QED
      BY <1>1, <1>3, <3>1
  <2>2. CASE i > m
    <3>1. i - m \in 1..n /\ j - m \in 1..n /\ i - m < j - m /\ m + (i - m) = i /\ m + (j - m) = j
      BY <1>1, <2>2
    <3>2. u[i] = p[i - m] /\ u[j] = p[j - m]
      BY <1>1, <3>1
    <3> QED
      BY <1>3, <3>1, <3>2
  <2>3. CASE i <= m /\ j > m
    <3>1. i \in 1..m /\ j - m \in 1..n /\ m + (j - m) = j /\ m \in 1..m
      BY <1>1, <2>3
    <3>2. u[i] = s[i] /\ u[j] = p[j - m]
      BY <1>1, <3>1
    <3>3. Before(u[j], c)
      BY <1>3, <3>1, <3>2
    <3>4. c = s[i] \/ Before(c, s[i])
      BY <1>1, <1>2, <1>3, <3>1
    <3>5. u[j] \in Row /\ s[i] \in Row
      BY <1>1, <3>1, <3>2
    <3> QED
      BY <3>2, <3>3, <3>4, <3>5, RowOrder
  <2> QED
    BY <1>1, <2>1, <2>2, <2>3
<1>5. p # <<>> => n # 0 /\ u[m + n] = p[n] /\ Last(u) = Last(p)
  <2>1. p # <<>> => n # 0
    BY DEF n
  <2>2. Last(u) = u[m + n] /\ Last(p) = p[n]
    BY <1>1 DEF Last, n
  <2> QED
    BY <1>1, <2>1, <2>2
<1>6. u # <<>>
  <2>1. Len(u) # 0
    BY <1>1
  <2> QED
    BY <2>1
<1>7. Marks(d, u)
  BY <1>5, <1>6 DEF Marks
<1>8. ASSUME NEW r \in Row, Met(r, s, c), Before(r, c) => Met(r, p, d)
      PROVE  Met(r, u, d)
  <2>1. CASE r \in ToSet(s)
    <3>1. PICK i \in 1..m : r = s[i]
      BY <1>1, <2>1 DEF ToSet
    <3>2. i \in 1..m + n /\ u[i] = r
      BY <1>1, <3>1
    <3> QED
      BY <1>1, <3>2 DEF Met, ToSet
  <2>2. CASE Before(r, c)
    <3>1. CASE r \in ToSet(p)
      <4>1. PICK i \in 1..n : r = p[i]
        BY <1>1, <3>1 DEF ToSet
      <4>2. m + i \in 1..m + n /\ u[m + i] = r
        BY <1>1, <4>1
      <4> QED
        BY <1>1, <4>2 DEF Met, ToSet
    <3>2. CASE d # None /\ Before(r, Last(p))
      BY <1>5, <3>2 DEF Met, Marks
    <3> QED
      BY <1>8, <2>2, <3>1, <3>2 DEF Met
  <2> QED
    BY <1>8, <2>1, <2>2 DEF Met
<1> QED
  BY <1>1, <1>4, <1>7, <1>8 DEF u

(* A page opens a list, or goes on with one. *)
LEMMA AnswerStep ==
    ASSUME ListInv, NEW l \in Loads, Answer(l)
    PROVE  ListInv'
<1> DEFINE q == load[l]
<1>1. ListTypes /\ q \in LoadStates /\ q.at = "served" /\ Busy(l)
  BY DEF ListInv, ListTypes, Answer, Busy
<1>2. /\ UNCHANGED <<table, kind, filter>>
      /\ shown' = IF q.reset THEN q.page ELSE shown \o q.page
      /\ nextCursor' = q.next
      /\ clean' = (q.alone /\ (q.reset \/ (clean /\ q.filter = shownFilter)))
      /\ shownFilter' = IF clean' THEN q.filter ELSE None
      /\ old' = IF ~clean' THEN {} ELSE IF q.reset THEN q.matched ELSE old
      /\ load' = [load EXCEPT ![l] = NoLoad]
  BY DEF Answer
<1>3. /\ load' \in [Loads -> LoadStates]
      /\ load'[l].at = "none" /\ load'[l].matched = {}
      /\ \A k \in Loads : k # l => load'[k] = load[k]
  BY <1>2, LoadEnds
<1>4. /\ q.page \in Seq(Row) /\ q.next \in Rows /\ q.matched \in SUBSET Row
      /\ q.alone \in BOOLEAN /\ q.reset \in BOOLEAN
  BY <1>1 DEF LoadStates
<1>5. ServedPage(l)
  BY <1>1 DEF ListInv, Pages
<1> HIDE DEF q
<1>6. ListTypes'
  <2>1. shown' \in Seq(Row)
    <3>1. shown \in Seq(Row)
      BY <1>1 DEF ListTypes
    <3>2. shown \o q.page \in Seq(Row)
      BY <1>4, <3>1
    <3> QED
      BY <1>2, <1>4, <3>2
  <2>2. clean' \in BOOLEAN
    BY <1>2, <1>4
  <2>3. old' \in SUBSET Row
    BY <1>1, <1>2, <1>4 DEF ListTypes
  <2> QED
    BY <1>1, <1>2, <1>3, <1>4, <2>1, <2>2, <2>3 DEF ListTypes
<1>7. Alone'
  <2> SUFFICES ASSUME NEW k \in Loads, Busy(k)', load'[k].alone
               PROVE  FALSE
    BY DEF Alone
  <2>1. k # l /\ Busy(k) /\ load[k].alone
    BY <1>3 DEF Busy
  <2> QED
    BY <1>1, <2>1 DEF ListInv, Alone
<1>8. Pages'
  <2> SUFFICES ASSUME NEW k \in Loads, load'[k].at = "served"
               PROVE  ServedPage(k)'
    BY DEF Pages
  <2>1. k # l
    BY <1>3
  <2> QED
    BY <1>3, <2>1 DEF ListInv, Pages, ServedPage
<1>9. Found'
  <2> SUFFICES ASSUME NEW k \in Loads, NEW r \in load'[k].matched
               PROVE  /\ load'[k].at = "served"
                      /\ r \in table'
                      /\ kind'[r.id] = load'[k].filter
                      /\ Met(r, load'[k].page, load'[k].next)
    BY DEF Found
  <2>1. k # l
    BY <1>3
  <2> QED
    BY <1>2, <1>3, <2>1 DEF ListInv, Found
<1>10. CleanList'
  <2> SUFFICES ASSUME clean'
               PROVE  /\ Descending(shown')
                      /\ Marks(nextCursor', shown')
                      /\ \A r \in old' : /\ r \in table'
                                         /\ kind'[r.id] = shownFilter'
                                         /\ Met(r, shown', nextCursor')
    BY DEF CleanList
  <2>1. /\ Descending(q.page) /\ Marks(q.next, q.page)
        /\ q.cursor # None => \A i \in DOMAIN q.page : Before(q.page[i], q.cursor)
    BY <1>5 DEF ServedPage, q
  <2>2. CASE q.reset
    <3>1. shown' = q.page /\ nextCursor' = q.next /\ old' = q.matched /\ shownFilter' = q.filter
      BY <1>2, <2>2
    <3>2. \A r \in q.matched : r \in table /\ kind[r.id] = q.filter /\ Met(r, q.page, q.next)
      BY DEF ListInv, Found, q
    <3> QED
      BY <1>2, <2>1, <3>1, <3>2
  <2>3. CASE ~q.reset
    <3>1. /\ shown' = shown \o q.page /\ nextCursor' = q.next /\ old' = old
          /\ shownFilter' = shownFilter /\ clean /\ q.alone /\ q.filter = shownFilter
      BY <1>2, <2>3
    <3>2. q.cursor = nextCursor /\ nextCursor # None
      BY <1>1, <2>3, <3>1 DEF ListInv, Alone, q
    <3>3. /\ Descending(shown) /\ Marks(nextCursor, shown)
          /\ \A r \in old : /\ r \in table /\ kind[r.id] = shownFilter
                            /\ Met(r, shown, nextCursor)
      BY <3>1 DEF ListInv, CleanList
    <3>4. shown \in Seq(Row) /\ nextCursor \in Row /\ old \in SUBSET Row
      BY <1>1, <3>2 DEF ListTypes, Rows
    <3>5. shown # <<>> /\ nextCursor = Last(shown)
      BY <3>2, <3>3 DEF Marks
    <3>6. \A i \in DOMAIN q.page : Before(q.page[i], nextCursor)
      BY <2>1, <3>2
    <3>7. /\ Descending(shown \o q.page)
          /\ Marks(q.next, shown \o q.page)
          /\ \A r \in Row : /\ Met(r, shown, nextCursor)
                            /\ Before(r, nextCursor) => Met(r, q.page, q.next)
                            => Met(r, shown \o q.page, q.next)
      BY <1>4, <2>1, <3>3, <3>4, <3>5, <3>6, AppendPage
    <3>8. \A r \in old : Before(r, nextCursor) => Met(r, q.page, q.next)
      BY <1>1, <2>3, <3>1, <3>2 DEF ListInv, Continues, q
    <3>9. \A r \in old : Met(r, shown \o q.page, q.next)
      BY <3>3, <3>4, <3>7, <3>8
    <3> QED
      BY <1>2, <3>1, <3>3, <3>7, <3>9
  <2> QED
    BY <1>4, <2>2, <2>3
<1>11. Continues'
  <2> SUFFICES ASSUME NEW k \in Loads, load'[k].at = "served", load'[k].alone
               PROVE  FALSE
    BY DEF Continues
  <2> QED
    BY <1>7, <1>1, <1>3 DEF ListInv, Alone, Busy
<1> QED
  BY <1>6, <1>7, <1>8, <1>9, <1>10, <1>11 DEF ListInv

LEMMA AnswerLostStep ==
    ASSUME ListInv, NEW l \in Loads, AnswerLost(l)
    PROVE  ListInv'
<1>1. /\ UNCHANGED <<table, kind, filter, shown, nextCursor, shownFilter, old, clean>>
      /\ load' = [load EXCEPT ![l] = NoLoad]
  BY DEF AnswerLost
<1>2. /\ load' \in [Loads -> LoadStates]
      /\ load'[l].at = "none" /\ load'[l].matched = {}
      /\ \A k \in Loads : k # l => load'[k] = load[k]
  BY <1>1, LoadEnds
<1>3. ListTypes'
  BY <1>1, <1>2 DEF ListInv, ListTypes
<1>4. Alone'
  <2>1. \A k \in Loads : Busy(k)' => k # l /\ Busy(k) /\ load'[k] = load[k]
    BY <1>2 DEF Busy
  <2> QED
    BY <1>1, <2>1 DEF ListInv, Alone
<1>5. Pages'
  BY <1>2 DEF ListInv, Pages, ServedPage
<1>6. Found'
  BY <1>1, <1>2 DEF ListInv, Found
<1>7. CleanList'
  BY <1>1 DEF ListInv, CleanList
<1>8. Continues'
  BY <1>1, <1>2 DEF ListInv, Continues
<1> QED
  BY <1>3, <1>4, <1>5, <1>6, <1>7, <1>8 DEF ListInv

(* New rows take nothing away. *)
LEMMA InsertStep ==
    ASSUME ListInv, NEW r \in Row, Insert(r)
    PROVE  ListInv'
<1>1. /\ UNCHANGED <<kind, filter, shown, nextCursor, load, shownFilter, old, clean>>
      /\ table' = table \cup {r}
      /\ \A s \in table : s.id # r.id
  BY DEF Insert
<1>2. ListTypes'
  <2>1. IsFiniteSet(table')
    BY <1>1, FS_AddElement DEF ListInv, ListTypes
  <2> QED
    BY <1>1, <2>1 DEF ListInv, ListTypes
<1>3. Alone' /\ Pages'
  BY <1>1 DEF ListInv, Alone, Busy, Pages, ServedPage
<1>4. Found'
  BY <1>1 DEF ListInv, Found
<1>5. CleanList' /\ Continues'
  BY <1>1 DEF ListInv, CleanList, Continues
<1> QED
  BY <1>2, <1>3, <1>4, <1>5 DEF ListInv

(* A row that changes leaves the history, and no other row has its id. *)
LEMMA ChangeStep ==
    ASSUME ListInv, NEW r \in table, NEW f \in Filters, Change(r, f)
    PROVE  ListInv'
<1>1. /\ UNCHANGED <<table, filter, shown, nextCursor, shownFilter, clean>>
      /\ kind' = [kind EXCEPT ![r.id] = f]
      /\ old' = old \ {r}
      /\ load' = [l \in Loads |-> [load[l] EXCEPT !.matched = @ \ {r}]]
  BY DEF Change
<1>2. ASSUME NEW l \in Loads
      PROVE  /\ load'[l] \in LoadStates
             /\ load'[l].matched = load[l].matched \ {r}
             /\ load'[l].at = load[l].at /\ load'[l].page = load[l].page
             /\ load'[l].next = load[l].next /\ load'[l].cursor = load[l].cursor
             /\ load'[l].filter = load[l].filter /\ load'[l].reset = load[l].reset
             /\ load'[l].alone = load[l].alone
  <2>1. load[l] \in LoadStates
    BY DEF ListInv, ListTypes
  <2>2. load'[l] = [load[l] EXCEPT !.matched = load[l].matched \ {r}]
    BY <1>1
  <2> QED
    BY <2>1, <2>2 DEF LoadStates
<1>3. \A s \in table : s # r => kind'[s.id] = kind[s.id]
  <2> SUFFICES ASSUME NEW s \in table, s # r PROVE kind'[s.id] = kind[s.id]
    OBVIOUS
  <2>1. s.id # r.id
    BY DEF ListInv, ListTypes
  <2>2. s.id \in Ids /\ kind \in [Ids -> Filters]
    BY DEF ListInv, ListTypes, Row
  <2> QED
    BY <1>1, <2>1, <2>2
<1>4. ListTypes'
  <2>1. load' \in [Loads -> LoadStates]
    BY <1>1, <1>2
  <2>2. kind' \in [Ids -> Filters]
    BY <1>1 DEF ListInv, ListTypes
  <2>3. old' \in SUBSET Row
    BY <1>1 DEF ListInv, ListTypes
  <2> QED
    BY <1>1, <2>1, <2>2, <2>3 DEF ListInv, ListTypes
<1>5. Alone'
  BY <1>1, <1>2 DEF ListInv, Alone, Busy
<1>6. Pages'
  BY <1>2 DEF ListInv, Pages, ServedPage
<1>7. Found'
  BY <1>1, <1>2, <1>3 DEF ListInv, Found
<1>8. CleanList'
  BY <1>1, <1>3 DEF ListInv, CleanList
<1>9. Continues'
  BY <1>1, <1>2 DEF ListInv, Continues
<1> QED
  BY <1>4, <1>5, <1>6, <1>7, <1>8, <1>9 DEF ListInv

LEMMA ListStep ==
    ASSUME Listing = "transfers", ListInv, [ListNext]_listVars
    PROVE  ListInv'
<1>1. ASSUME NEW l \in Loads, Reload(l) PROVE ListInv'
  BY <1>1, StartStep DEF Reload, Rows
<1>2. ASSUME NEW l \in Loads, LoadMore(l) PROVE ListInv'
  <2>1. nextCursor \in Rows
    BY DEF ListInv, ListTypes
  <2> QED
    BY <1>2, <2>1, StartStep DEF LoadMore
<1>3. ASSUME NEW f \in Filters, ChangeFilter(f) PROVE ListInv'
  <2>1. filter' = f /\ UNCHANGED <<table, kind, shown, nextCursor, load, shownFilter, old, clean>>
    BY <1>3 DEF ChangeFilter
  <2>2. ListTypes'
    BY <2>1 DEF ListInv, ListTypes
  <2> QED
    BY <2>1, <2>2 DEF ListInv, Alone, Busy, Pages, ServedPage, Found, CleanList, Continues
<1>4. ASSUME UNCHANGED listVars PROVE ListInv'
  BY <1>4 DEF listVars, ListInv, ListTypes, Alone, Busy, Pages, ServedPage, Found, CleanList,
              Continues
<1> QED
  BY <1>1, <1>2, <1>3, <1>4, ServeStep, AnswerStep, AnswerLostStep, InsertStep, ChangeStep
     DEF ListNext

(* The reachable states of the transfer list satisfy its invariant. *)
LEMMA ListInvariance == ASSUME Listing = "transfers" PROVE ListSpec => []ListInv
<1>1. ListInv /\ [ListNext]_listVars => ListInv'
  BY ListStep
<1> QED
  BY <1>1, InitListInv, PTL DEF ListSpec

(* In the list of transfers no row is listed twice, whatever the table,    *)
(* the size of a page and the number of overlapping loads, once a reload   *)
(* has run alone.  The cursors of the other two lists do not give it.      *)
THEOREM ListedOnce ==
    ASSUME Listing = "transfers" PROVE ListSpec => []EachRowOnce
<1>1. ListInv => EachRowOnce
  <2> SUFFICES ASSUME ListInv, clean, NEW i \in DOMAIN shown, NEW j \in DOMAIN shown, i # j
               PROVE  shown[i] # shown[j]
    BY DEF EachRowOnce, IsInjective
  <2>1. shown \in Seq(Row) /\ Descending(shown)
    BY DEF ListInv, ListTypes, CleanList
  <2>2. DOMAIN shown = 1..Len(shown) /\ shown[i] \in Row /\ shown[j] \in Row
    BY <2>1
  <2>3. Before(shown[j], shown[i]) \/ Before(shown[i], shown[j])
    BY <2>1, <2>2 DEF Descending
  <2> QED
    BY <2>2, <2>3, RowOrder
<1> QED
  BY <1>1, ListInvariance, PTL

(* For all of them, a row that matches all the time is shown when the list *)
(* has reached its place (admin_list_transfers compares timestamp and id). *)
THEOREM ListedAll ==
    ASSUME Listing = "transfers" PROVE ListSpec => []NoRowSkipped
<1>1. ListInv => NoRowSkipped
  BY DEF ListInv, CleanList, Met, NoRowSkipped
<1> QED
  BY <1>1, ListInvariance, PTL

=============================================================================
