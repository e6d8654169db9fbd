----------------------------- MODULE AdminAccess -----------------------------
(***************************************************************************)
(* The admin plane: accounts with their lockout counters in Postgres,      *)
(* sessions in Redis, logins, logouts, and protected requests, which       *)
(* resolve a session to an account and may change accounts.  An action is  *)
(* the code between two awaits; the rows a handler has loaded are kept as  *)
(* its snapshot and may be stale when it commits.                          *)
(***************************************************************************)
EXTENDS Integers, FiniteSets, Orm

CONSTANTS
    Admins,      \* admin ids, of existing and of future accounts
    Root,        \* the account that exists at first
    Guessed,     \* the accounts somebody tries wrong passwords on
    Sids,        \* session ids, each drawn at most once
    Logins,      \* concurrent login requests
    Requests,    \* concurrent protected requests
    MaxFailed,   \* max_failed_attempts
    MaxCalls,    \* bound on the logins and requests under way at a time
    MaxCount     \* bound on admins.failed_attempts

ASSUME RootAssumption == Root \in Admins
ASSUME GuessedAssumption == Guessed \subseteq Admins
ASSUME SidsAssumption == Sids # {}
ASSUME MaxFailedAssumption == MaxFailed \in Nat \ {0}
ASSUME BoundAssumption == MaxCalls \in Nat /\ MaxCount \in Nat

VARIABLES
    row,         \* is there an admins row: "none", "present" or "deleted"
    role,        \* admins.role
    disabled,    \* admins.disabled
    failed,      \* admins.failed_attempts
    lock,        \* admins.locked_until: NULL, or a time that is past or to come
    strikes,     \* history: failures in a row, each of which has seen the one before
    owner,       \* the account each session id was drawn for
    live,        \* does the Redis key session:{sid} exist?
    loggedOut,   \* history: has a logout with this session id been answered?
    login,       \* each login request: its state and its snapshot of the row
    outrun,      \* history: has another login been counted since it loaded the row?
    req,         \* each protected request: its state and its snapshots
    late,        \* history: was the account unusable when the request came in,
                 \*          and has it been so ever since?
    overtaken    \* history: has another request's commit made what it has read
                 \*          of its target, or counted, untrue?

accountVars == <<row, role, disabled>>
lockoutVars == <<failed, lock, strikes>>
sessionVars == <<owner, live, loggedOut>>
loginVars   == <<login, outrun>>
requestVars == <<req, late, overtaken>>
vars == <<accountVars, lockoutVars, sessionVars, loginVars, requestVars>>

Nobody    == "nobody"
ASSUME NobodyAssumption == Nobody \notin Admins

LockUntil == {"null", "past", "future"}
Changes   == {"disable", "enable", "demote", "promote", "delete", "create"}

LoginStates == [at : {"idle", "loaded", "passed"}, admin : Admins, failed : Nat,
                lock : LockUntil]

RequestStates == [at : {"idle", "loaded", "touching", "touched", "acting",
                        "target", "decided"},
                  sid : Sids, role : {"admin", "viewer"},
                  change : Changes, target : Admins,
                  wasRole : {"admin", "viewer"}, wasDisabled : BOOLEAN]

NoLogin   == [at |-> "idle", admin |-> Root, failed |-> 0, lock |-> "null"]
NoRequest == [at |-> "idle", sid |-> CHOOSE s \in Sids : TRUE, role |-> "viewer",
              change |-> "create", target |-> Root, wasRole |-> "viewer",
              wasDisabled |-> FALSE]

TypeOK ==
    /\ row \in [Admins -> {"none", "present", "deleted"}]
    /\ role \in [Admins -> {"admin", "viewer"}]
    /\ disabled \in [Admins -> BOOLEAN]
    /\ failed \in [Admins -> Nat]
    /\ lock \in [Admins -> LockUntil]
    /\ strikes \in [Admins -> Nat]
    /\ owner \in [Sids -> Admins \cup {Nobody}]
    /\ live \in [Sids -> BOOLEAN]
    /\ loggedOut \in [Sids -> BOOLEAN]
    /\ login \in [Logins -> LoginStates]
    /\ req \in [Requests -> RequestStates]
    /\ late \in [Requests -> BOOLEAN]
    /\ outrun \in [Logins -> BOOLEAN]
    /\ overtaken \in [Requests -> BOOLEAN]

(***************************************************************************)
(* scripts/create_admin.py has made the first account; nobody is logged in.*)
(***************************************************************************)
Init ==
    /\ row = [a \in Admins |-> IF a = Root THEN "present" ELSE "none"]
    /\ role = [a \in Admins |-> "admin"]
    /\ disabled = [a \in Admins |-> FALSE]
    /\ failed = [a \in Admins |-> 0]
    /\ lock = [a \in Admins |-> "null"]
    /\ strikes = [a \in Admins |-> 0]
    /\ owner = [s \in Sids |-> Nobody]
    /\ live = [s \in Sids |-> FALSE]
    /\ loggedOut = [s \in Sids |-> FALSE]
    /\ login = [l \in Logins |-> NoLogin]
    /\ req = [r \in Requests |-> NoRequest]
    /\ late = [r \in Requests |-> FALSE]
    /\ outrun = [l \in Logins |-> FALSE]
    /\ overtaken = [r \in Requests |-> FALSE]

UnderWay ==
    Cardinality({l \in Logins : login[l].at # "idle"})
        + Cardinality({r \in Requests : req[r].at # "idle"})

-----------------------------------------------------------------------------
(* Login *)

(***************************************************************************)
(* Load the account by email; a missing, disabled or locked one is refused.*)
(***************************************************************************)
LoginLoad(l, a) ==
    /\ login[l].at = "idle"
    /\ UnderWay < MaxCalls
    /\ row[a] = "present"
    /\ ~disabled[a]
    /\ lock[a] # "future"
    /\ login' = [login EXCEPT ![l] = [at |-> "loaded", admin |-> a,
                                      failed |-> failed[a], lock |-> lock[a]]]
    /\ UNCHANGED <<accountVars, lockoutVars, sessionVars, outrun, requestVars>>

(* Mutant: one failure too many before the account is locked. *)
LocksAfter_OneMore(n) == n > MaxFailed

(***************************************************************************)
(* register_failure locks from the max_failed_attempts-th failure on.      *)
(***************************************************************************)
LocksAfter(n) == n >= MaxFailed

(***************************************************************************)
(* A login of account a is counted: what others have loaded of the counter *)
(* is old from now on.                                                     *)
(***************************************************************************)
Outrun(l, a) ==
    outrun' = [k \in Logins |->
                  k # l /\ (outrun[k] \/ (login[k].at = "loaded" /\ login[k].admin = a))]

(***************************************************************************)
(* Wrong password or code: count one more than was loaded, and lock.  A    *)
(* failure that was outrun sets the counter back; a new row begins.        *)
(***************************************************************************)
LoginFail(l) ==
    LET a == login[l].admin
        n == login[l].failed + 1
    IN  /\ login[l].at = "loaded"
        /\ row[a] = "present"
        /\ a \in Guessed
        /\ n <= MaxCount
        /\ failed' = [failed EXCEPT ![a] = n]
        /\ lock' = IF LocksAfter(n) THEN [lock EXCEPT ![a] = "future"] ELSE lock
        /\ strikes' = [strikes EXCEPT ![a] = IF outrun[l] THEN 1 ELSE @ + 1]
        /\ login' = [login EXCEPT ![l] = NoLogin]
        /\ Outrun(l, a)
        /\ UNCHANGED <<accountVars, sessionVars, requestVars>>

(***************************************************************************)
(* reset_failures; each column is written only if it was loaded otherwise. *)
(***************************************************************************)
LoginPass(l) ==
    LET a == login[l].admin
    IN  /\ login[l].at = "loaded"
        /\ row[a] = "present"
        /\ failed' = [failed EXCEPT ![a] = Flush(login[l].failed, 0, @)]
        /\ lock' = [lock EXCEPT ![a] = Flush(login[l].lock, "null", @)]
        /\ strikes' = [strikes EXCEPT ![a] = 0]
        /\ login' = [login EXCEPT ![l] = [NoLogin EXCEPT !.at = "passed", !.admin = a]]
        /\ Outrun(l, a)
        /\ UNCHANGED <<accountVars, sessionVars, requestVars>>

(***************************************************************************)
(* SessionStore.create with a fresh id; the cookie goes out.               *)
(***************************************************************************)
LoginSession(l, s) ==
    /\ login[l].at = "passed"
    /\ owner[s] = Nobody
    /\ owner' = [owner EXCEPT ![s] = login[l].admin]
    /\ live' = [live EXCEPT ![s] = TRUE]
    /\ login' = [login EXCEPT ![l] = NoLogin]
    /\ UNCHANGED <<accountVars, lockoutVars, loggedOut, outrun, requestVars>>

(***************************************************************************)
(* The request breaks off (the row is gone, the client or the api is).     *)
(***************************************************************************)
LoginAborts(l) ==
    /\ login[l].at # "idle"
    /\ login' = [login EXCEPT ![l] = NoLogin]
    /\ outrun' = [outrun EXCEPT ![l] = FALSE]
    /\ UNCHANGED <<accountVars, lockoutVars, sessionVars, requestVars>>

(***************************************************************************)
(* locked_until passes.                                                    *)
(***************************************************************************)
LockPasses(a) ==
    /\ lock[a] = "future"
    /\ lock' = [lock EXCEPT ![a] = "past"]
    /\ UNCHANGED <<accountVars, failed, strikes, sessionVars, loginVars, requestVars>>

(***************************************************************************)
(* Logout: SessionStore.destroy deletes the key, whatever it read first.   *)
(***************************************************************************)
Logout(s) ==
    /\ owner[s] # Nobody
    /\ live' = [live EXCEPT ![s] = FALSE]
    /\ loggedOut' = [loggedOut EXCEPT ![s] = TRUE]
    /\ UNCHANGED <<accountVars, lockoutVars, owner, loginVars, requestVars>>

(***************************************************************************)
(* The key's TTL runs out.                                                 *)
(***************************************************************************)
SessionExpires(s) ==
    /\ live[s]
    /\ live' = [live EXCEPT ![s] = FALSE]
    /\ UNCHANGED <<accountVars, lockoutVars, owner, loggedOut, loginVars, requestVars>>

-----------------------------------------------------------------------------
(* require_session *)

(* The request is answered, or broken off, without a commit. *)
Finish(r) ==
    /\ req' = [req EXCEPT ![r] = NoRequest]
    /\ late' = [late EXCEPT ![r] = FALSE]
    /\ overtaken' = [overtaken EXCEPT ![r] = FALSE]

Usable(a) == row[a] = "present" /\ ~disabled[a]

(***************************************************************************)
(* SessionStore.load.                                                      *)
(***************************************************************************)
RequestLoad(r, s) ==
    /\ req[r].at = "idle"
    /\ UnderWay < MaxCalls
    /\ live[s]
    /\ req' = [req EXCEPT ![r] = [@ EXCEPT !.at = "loaded", !.sid = s]]
    /\ late' = [late EXCEPT ![r] = ~Usable(owner[s])]
    /\ UNCHANGED <<accountVars, lockoutVars, sessionVars, loginVars, overtaken>>

(***************************************************************************)
(* SessionStore.touch reads the key again; nothing to do if it is gone ... *)
(***************************************************************************)
TouchGet(r) ==
    /\ req[r].at = "loaded"
    /\ req' = [req EXCEPT ![r] =
                  [@ EXCEPT !.at = IF live[req[r].sid] THEN "touching" ELSE "touched"]]
    /\ UNCHANGED <<accountVars, lockoutVars, sessionVars, loginVars, late, overtaken>>

(***************************************************************************)
(* ... and otherwise sets it anew with a full TTL.                         *)
(***************************************************************************)
TouchSet(r) ==
    /\ req[r].at = "touching"
    /\ live' = [live EXCEPT ![req[r].sid] = TRUE]
    /\ req' = [req EXCEPT ![r] = [@ EXCEPT !.at = "touched"]]
    /\ UNCHANGED <<accountVars, lockoutVars, owner, loggedOut, loginVars, late, overtaken>>

(* Mutant: whether the account is disabled is not looked at. *)
Authorise_NoDisabled(r) ==
    LET a == owner[req[r].sid]
    IN  /\ req[r].at = "touched"
        /\ IF row[a] = "present"
             THEN /\ req' = [req EXCEPT ![r] = [@ EXCEPT !.at = "acting", !.role = role[a]]]
                  /\ UNCHANGED <<late, overtaken>>
             ELSE Finish(r)
        /\ UNCHANGED <<accountVars, lockoutVars, sessionVars, loginVars>>

(***************************************************************************)
(* The account is read; a missing or disabled one gets a 401.              *)
(***************************************************************************)
Authorise(r) ==
    LET a == owner[req[r].sid]
    IN  /\ req[r].at = "touched"
        /\ IF Usable(a)
             THEN /\ req' = [req EXCEPT ![r] = [@ EXCEPT !.at = "acting", !.role = role[a]]]
                  /\ UNCHANGED <<late, overtaken>>
             ELSE Finish(r)
        /\ UNCHANGED <<accountVars, lockoutVars, sessionVars, loginVars>>

-----------------------------------------------------------------------------
(* create, update and delete of accounts *)

ActiveAdmin(a) == row[a] = "present" /\ ~disabled[a] /\ role[a] = "admin"

(***************************************************************************)
(* _active_admin_count_stmt.                                               *)
(***************************************************************************)
ActiveAdmins == {a \in Admins : ActiveAdmin(a)}

(***************************************************************************)
(* require_admin_role, then load the target row (create: no such email).   *)
(* The request's own account is in its session already and is not read     *)
(* again: the row counts as require_session found it.                      *)
(***************************************************************************)
LoadTarget(r, change, a) ==
    LET own == change # "create" /\ a = owner[req[r].sid]
    IN  /\ req[r].at = "acting"
        /\ req[r].role = "admin"
        /\ own \/ row[a] = (IF change = "create" THEN "none" ELSE "present")
        /\ req' = [req EXCEPT ![r] =
                      [@ EXCEPT !.at = "target", !.change = change, !.target = a,
                                !.wasRole = IF own THEN req[r].role ELSE role[a],
                                !.wasDisabled = ~own /\ disabled[a]]]
        /\ UNCHANGED <<accountVars, lockoutVars, sessionVars, loginVars, late, overtaken>>

(* Mutant: demoting is not counted as reducing the active admins. *)
Reduces_NoDemote(r) ==
    /\ req[r].change \in {"disable", "delete"}
    /\ req[r].wasRole = "admin" /\ ~req[r].wasDisabled

(***************************************************************************)
(* Does the change take an active admin away, by the row as loaded?        *)
(***************************************************************************)
Reduces(r) ==
    /\ req[r].change \in {"disable", "demote", "delete"}
    /\ req[r].wasRole = "admin" /\ ~req[r].wasDisabled

(***************************************************************************)
(* Count the active admins; taking away the last one gets a 409.           *)
(***************************************************************************)
Decide(r) ==
    /\ req[r].at = "target"
    /\ IF Reduces(r) /\ Cardinality(ActiveAdmins) <= 1
         THEN Finish(r)
         ELSE /\ req' = [req EXCEPT ![r] = [@ EXCEPT !.at = "decided"]]
              /\ UNCHANGED <<late, overtaken>>
    /\ UNCHANGED <<accountVars, lockoutVars, sessionVars, loginVars>>

AssignedDisabled(r) ==
    CASE req[r].change = "disable" -> TRUE
      [] req[r].change = "enable"  -> FALSE
      [] OTHER                     -> req[r].wasDisabled

AssignedRole(r) ==
    CASE req[r].change = "demote"  -> "viewer"
      [] req[r].change = "promote" -> "admin"
      [] OTHER                     -> req[r].wasRole

(***************************************************************************)
(* A commit makes what request q goes by untrue: it takes an active admin  *)
(* away after q has counted them, or it makes the account active that q    *)
(* has loaded as its target.                                               *)
(***************************************************************************)
Undermines(q) ==
    \/ req[q].at = "decided" /\ ~(ActiveAdmins \subseteq ActiveAdmins')
    \/ /\ req[q].at \in {"target", "decided"}
       /\ req[q].target \notin ActiveAdmins
       /\ req[q].target \in ActiveAdmins'

Overtake(r) ==
    overtaken' = [q \in Requests |-> q # r /\ (overtaken[q] \/ Undermines(q))]

(***************************************************************************)
(* Commit an update: a column is written if it was loaded otherwise.  A    *)
(* row that is gone by now makes the commit fail.                          *)
(***************************************************************************)
CommitUpdate(r) ==
    LET a == req[r].target
    IN  /\ req[r].at = "decided"
        /\ req[r].change \in {"disable", "enable", "demote", "promote"}
        /\ row[a] = "present"
        /\ disabled' = [disabled EXCEPT ![a] =
                            Flush(req[r].wasDisabled, AssignedDisabled(r), @)]
        /\ role' = [role EXCEPT ![a] = Flush(req[r].wasRole, AssignedRole(r), @)]
        /\ late' = [q \in Requests |->
                       late[q] /\ (owner[req[q].sid] = a => disabled'[a])]
        /\ req' = [req EXCEPT ![r] = NoRequest]
        /\ UNCHANGED <<row, lockoutVars, sessionVars, loginVars>>
        /\ Overtake(r)

CommitDelete(r) ==
    LET a == req[r].target
    IN  /\ req[r].at = "decided"
        /\ req[r].change = "delete"
        /\ row[a] = "present"
        /\ row' = [row EXCEPT ![a] = "deleted"]
        /\ req' = [req EXCEPT ![r] = NoRequest]
        /\ UNCHANGED <<role, disabled, lockoutVars, sessionVars, loginVars, late>>
        /\ Overtake(r)

(***************************************************************************)
(* A new account begins enabled; a second one with the same email fails.   *)
(***************************************************************************)
CommitCreate(r, newRole) ==
    LET a == req[r].target
    IN  /\ req[r].at = "decided"
        /\ req[r].change = "create"
        /\ row[a] = "none"
        /\ row' = [row EXCEPT ![a] = "present"]
        /\ role' = [role EXCEPT ![a] = newRole]
        /\ disabled' = [disabled EXCEPT ![a] = FALSE]
        /\ req' = [req EXCEPT ![r] = NoRequest]
        /\ UNCHANGED <<lockoutVars, sessionVars, loginVars, late>>
        /\ Overtake(r)

(***************************************************************************)
(* A request that changes no account, or breaks off, or is refused.        *)
(***************************************************************************)
RequestEnds(r) ==
    /\ req[r].at # "idle"
    /\ Finish(r)
    /\ UNCHANGED <<accountVars, lockoutVars, sessionVars, loginVars>>

Next ==
    \/ \E l \in Logins : \/ \E a \in Admins : LoginLoad(l, a)
                         \/ LoginFail(l)
                         \/ LoginPass(l)
                         \/ \E s \in Sids : LoginSession(l, s)
                         \/ LoginAborts(l)
    \/ \E a \in Admins : LockPasses(a)
    \/ \E s \in Sids : Logout(s) \/ SessionExpires(s)
    \/ \E r \in Requests : \/ \E s \in Sids : RequestLoad(r, s)
                           \/ TouchGet(r) \/ TouchSet(r) \/ Authorise(r)
                           \/ \E c \in Changes, a \in Admins : LoadTarget(r, c, a)
                           \/ Decide(r) \/ CommitUpdate(r) \/ CommitDelete(r)
                           \/ \E x \in {"admin", "viewer"} : CommitCreate(r, x)
                           \/ RequestEnds(r)

Spec == Init /\ [][Next]_vars

-----------------------------------------------------------------------------
(* No request acts for an account that was disabled or deleted before the  *)
(* request came in: sessions outlive the account, but require_session      *)
(* reads the row every time.                                               *)
NoLateAction ==
    \A r \in Requests : req[r].at \in {"acting", "target", "decided"} => ~late[r]

(* The last active admin goes only in the commit of a request that was     *)
(* overtaken between its reads and its commit (admin.py:1216 counts, :1237 *)
(* commits): no other order of any requests takes it away, not by stale    *)
(* snapshots, own rows or accounts that are demoted, enabled or deleted    *)
(* meanwhile (test_admins_crud.py tests one request at a time).            *)
LastAdminRemains ==
    [][ActiveAdmins # {} /\ ActiveAdmins' = {} =>
         \E r \in Requests : req[r].at = "decided" /\ req'[r].at = "idle" /\ overtaken[r]]_vars

(* MaxFailed failures in a row lock the account (README.md:86), with other *)
(* logins of the account and of others under way, as long as each failure  *)
(* of the row has loaded the counter after the one before was committed    *)
(* (auth.py:103): one that was outrun sets the counter back.               *)
ThresholdLocks == \A a \in Admins : strikes[a] >= MaxFailed => lock[a] # "null"

(* SECURITY.md:67: a session is invalidated on logout.  A request that has *)
(* read the key before the logout sets it anew after it.                   *)
LogoutIsFinal == \A s \in Sids : loggedOut[s] => ~live[s]

=============================================================================
