-------------------------- MODULE KeyRotationProofs --------------------------
(***************************************************************************)
(* The rotation never leaves a running api with a key it cannot unwrap,    *)
(* for any number of transfers, admins, api processes, runs and failures.  *)
(***************************************************************************)
EXTENDS KeyRotation, FiniteSetTheorems, TLAPS

(* Which keys the processes hold, relative to one another. *)
Phases ==
    /\ worker = "old" => \A i \in Apis : api[i] \in {"old", "window"}
    /\ worker = "new" => \A i \in Apis : api[i] \in {"window", "new"}
    /\ worker = "stopped" => \A i \in Apis : api[i] = "stopped"
    /\ \A i \in Apis : api[i] = "new" => migrated

(* Nothing is under the new key, and no run is active, before the worker   *)
(* has left the old one.                                                   *)
NotEarly ==
    worker = "old" =>
        /\ ~migrated
        /\ \A r \in Runners : run[r] = "idle"
        /\ \A t \in Ids : wrapped[t] # "new"

(* Behind a run's last_id no row is under the old key, except those of the *)
(* page it is about to commit; a TOTP secret under the old key was so when *)
(* the run loaded it, at its start or at its end.                          *)
Swept ==
    \A r \in Runners :
        /\ run[r] = "paging" => \A t \in Ids : t <= lastId[r] => wrapped[t] # "old"
        /\ run[r] = "loaded" => \A t \in Ids :
               t <= lastId[r] /\ wrapped[t] = "old" => batch[r][t] = "old"
        /\ run[r] = "unwrapped" => \A t \in Ids : wrapped[t] # "old"
        /\ run[r] # "idle" => \A a \in Admins :
               totp[a].under = "old" => totpBatch[r][a].under = "old"

(* After a successful run nothing is under the old key any more. *)
AllMoved ==
    migrated => /\ \A t \in Ids : wrapped[t] # "old"
                /\ \A a \in Admins : totp[a].under # "old"

IInv == TypeOK /\ Phases /\ NotEarly /\ Swept /\ AllMoved

-----------------------------------------------------------------------------
(* A page holds every remaining row up to its last one. *)
LEMMA PageIsPrefix ==
    ASSUME NEW r, NEW m \in Page(r), NEW t \in Remaining(r), t <= m
    PROVE  t \in Page(r)
<1> DEFINE Below(k) == {u \in Remaining(r) : u < k}
<1>1. IsFiniteSet(Ids)
  BY FS_Interval, NAssumption DEF Ids
<1>2. Below(m) \subseteq Ids /\ Below(t) \subseteq Below(m)
  BY NAssumption DEF Remaining, Ids, Page
<1>3. IsFiniteSet(Below(m))
  BY <1>1, <1>2, FS_Subset
<1>4. /\ Cardinality(Below(t)) <= Cardinality(Below(m))
      /\ Cardinality(Below(t)) \in Nat
      /\ Cardinality(Below(m)) \in Nat
  BY <1>2, <1>3, FS_Subset, FS_CardinalityType
<1>5. Cardinality(Below(m)) < ChunkSize
  BY DEF Page
<1> QED
  BY <1>4, <1>5, ChunkAssumption DEF Page

(* What a flush writes is the loaded, the assigned or the stored value. *)
LEMMA FlushNew ==
    ASSUME NEW b \in Wraps, NEW s \in Wraps
    PROVE  /\ Flush(b, "new", s) \in {"new", s}
           /\ b = "old" => Flush(b, "new", s) = "new"
BY DEF Flush, Wraps

LEMMA FlushSecret ==
    ASSUME NEW b \in Secrets, NEW s \in Secrets
    PROVE  /\ Flush(b, Rewrapped(b), s) \in Secrets
           /\ \/ Flush(b, Rewrapped(b), s) = s
              \/ Flush(b, Rewrapped(b), s).under = "new"
           /\ b.under = "old" => Flush(b, Rewrapped(b), s).under = "new"
BY DEF Flush, Rewrapped, Secrets

-----------------------------------------------------------------------------
LEMMA InitIInv == Init => IInv
<1> SUFFICES ASSUME Init PROVE IInv
  OBVIOUS
<1>1. totp \in [Admins -> Secrets]
  BY DEF Init, Secrets
<1>2. wrapped \in [Ids -> Wraps] /\ NoRows \in [Ids -> Wraps]
  BY DEF Init, NoRows, Wraps
<1>3. lastId \in [Runners -> 0..N]
  BY NAssumption DEF Init
<1>4. TypeOK
  BY <1>1, <1>2, <1>3 DEF Init, TypeOK
<1> QED
  BY <1>4 DEF Init, IInv, Phases, NotEarly, Swept, AllMoved, Runners

(* A step of the encrypt worker, of a delete or of an expiry. *)
LEMMA RowSteps ==
    ASSUME IInv, NEW t \in Ids, Encrypt(t) \/ Erase(t)
    PROVE  IInv'
<1>1. TypeOK'
  BY DEF IInv, TypeOK, Encrypt, Erase, Running, runVars, Wraps
<1>2. /\ Phases'
      /\ NotEarly'
  BY DEF IInv, TypeOK, Phases, NotEarly, Encrypt, Erase, Running, runVars, Wraps
<1>3. \A u \in Ids : worker = "old" \/ wrapped'[u] = wrapped[u] \/ wrapped'[u] # "old"
  BY DEF IInv, TypeOK, Encrypt, Erase, Running
<1>4. Swept' /\ AllMoved'
  <2>1. CASE worker = "old"
    BY <2>1 DEF IInv, NotEarly, Swept, AllMoved, Encrypt, Erase, runVars
  <2>2. CASE worker # "old"
    BY <1>3, <2>2 DEF IInv, Swept, AllMoved, Encrypt, Erase, runVars
  <2> QED
    BY <2>1, <2>2
<1> QED
  BY <1>1, <1>2, <1>4 DEF IInv

LEMMA ResetStep ==
    ASSUME IInv, NEW i \in Apis, NEW a \in Admins, ResetTotp(i, a)
    PROVE  IInv'
<1>1. TypeOK'
  BY DEF IInv, TypeOK, ResetTotp, runVars, Secrets, CurrentKey
<1>2. Phases' /\ NotEarly'
  BY DEF IInv, Phases, NotEarly, ResetTotp, runVars
<1>3. worker # "old" => api[i] # "old"
  BY DEF IInv, TypeOK, Phases
<1>4. worker # "old" => \A b \in Admins : totp'[b] = totp[b] \/ totp'[b].under = "new"
  BY <1>3 DEF IInv, TypeOK, ResetTotp, CurrentKey
<1>5. Swept' /\ AllMoved'
  BY <1>4 DEF IInv, NotEarly, Swept, AllMoved, ResetTotp, runVars
<1> QED
  BY <1>1, <1>2, <1>5 DEF IInv

LEMMA BeginStep ==
    ASSUME IInv, NEW r \in Runners, Begin(r), worker # "old"
    PROVE  IInv'
<1>1. TypeOK'
  BY NAssumption DEF IInv, TypeOK, Begin
<1>2. Phases' /\ NotEarly' /\ AllMoved'
  BY DEF IInv, Phases, NotEarly, AllMoved, Begin
<1>3. Swept'
  BY DEF IInv, TypeOK, Swept, Begin, Ids
<1> QED
  BY <1>1, <1>2, <1>3 DEF IInv

LEMMA PageSteps ==
    ASSUME IInv, NEW r \in Runners, SelectPage(r) \/ CommitPage(r)
    PROVE  IInv'
<1>0. worker # "old"
  BY DEF IInv, NotEarly, SelectPage, CommitPage
<1>1. CASE SelectPage(r)
  <2>1. PICK m \in Page(r) : /\ \A t \in Page(r) : t <= m
                             /\ lastId' = [lastId EXCEPT ![r] = m]
    BY <1>1 DEF SelectPage
  <2>2. m \in Ids
    BY DEF Page, Remaining
  <2>3. TypeOK'
    BY <1>1, <2>1, <2>2, NAssumption DEF IInv, TypeOK, SelectPage, Wraps, Ids
  <2>4. \A t \in Ids : t <= m /\ wrapped[t] = "old" => t \in Page(r)
    <3> SUFFICES ASSUME NEW t \in Ids, t <= m, wrapped[t] = "old"
                 PROVE  t \in Page(r)
      OBVIOUS
    <3>1. ~(t <= lastId[r])
      BY <1>1 DEF IInv, Swept, SelectPage
    <3>2. t \in Remaining(r)
      BY <3>1, NAssumption DEF Remaining, IInv, TypeOK, Ids
    <3> QED
      BY <3>2, PageIsPrefix
  <2>5. Swept'
    BY <1>1, <2>1, <2>4 DEF IInv, TypeOK, Swept, SelectPage
  <2>6. Phases' /\ NotEarly' /\ AllMoved'
    BY <1>0, <1>1 DEF IInv, Phases, NotEarly, AllMoved, SelectPage
  <2> QED
    BY <2>3, <2>5, <2>6 DEF IInv
<1>2. CASE CommitPage(r)
  <2>1. \A t \in Ids : batch[r][t] \in Wraps /\ wrapped[t] \in Wraps
    BY DEF IInv, TypeOK
  <2>2. \A t \in Ids : /\ wrapped'[t] \in {"new", wrapped[t]}
                       /\ batch[r][t] = "old" => wrapped'[t] = "new"
    BY <1>2, <2>1, FlushNew DEF CommitPage
  <2>3. TypeOK'
    BY <1>2, <2>1, <2>2 DEF IInv, TypeOK, CommitPage, NoRows, Wraps
  <2>4. Swept'
    BY <1>2, <2>2 DEF IInv, TypeOK, Swept, CommitPage
  <2>5. Phases' /\ NotEarly' /\ AllMoved'
    BY <1>0, <1>2, <2>2 DEF IInv, Phases, NotEarly, AllMoved, CommitPage
  <2> QED
    BY <2>3, <2>4, <2>5 DEF IInv
<1> QED
  BY <1>1, <1>2

LEMMA AdminSteps ==
    ASSUME IInv, NEW r \in Runners, SelectAdmins(r) \/ CommitAdmins(r)
    PROVE  IInv'
<1>0. worker # "old"
  BY DEF IInv, NotEarly, SelectAdmins, CommitAdmins
<1>1. CASE SelectAdmins(r)
  <2>1. TypeOK'
    BY <1>1 DEF IInv, TypeOK, SelectAdmins
  <2>2. ASSUME NEW t \in Ids PROVE wrapped[t] # "old"
    <3>1. CASE t <= lastId[r]
      BY <1>1, <3>1 DEF IInv, Swept, SelectAdmins
    <3>2. CASE t > lastId[r]
      BY <1>1, <3>2 DEF SelectAdmins, Remaining
    <3> QED
      BY <3>1, <3>2, NAssumption DEF IInv, TypeOK, Ids
  <2>3. Swept'
    BY <1>1, <2>2 DEF IInv, TypeOK, Swept, SelectAdmins
  <2>4. Phases' /\ NotEarly' /\ AllMoved'
    BY <1>0, <1>1 DEF IInv, Phases, NotEarly, AllMoved, SelectAdmins
  <2> QED
    BY <2>1, <2>3, <2>4 DEF IInv
<1>2. CASE CommitAdmins(r)
  <2>1. \A a \in Admins : totpBatch[r][a] \in Secrets /\ totp[a] \in Secrets
    BY DEF IInv, TypeOK
  <2>2. \A a \in Admins : /\ totp'[a] \in Secrets
                          /\ totp'[a] = totp[a] \/ totp'[a].under = "new"
                          /\ totpBatch[r][a].under = "old" => totp'[a].under = "new"
    BY <1>2, <2>1, FlushSecret DEF CommitAdmins
  <2>3. TypeOK'
    BY <1>2, <2>2 DEF IInv, TypeOK, CommitAdmins
  <2>4. AllMoved'
    BY <1>2, <2>2 DEF IInv, Swept, AllMoved, CommitAdmins
  <2>5. Swept'
    BY <1>2, <2>2 DEF IInv, TypeOK, Swept, CommitAdmins
  <2>6. Phases' /\ NotEarly'
    BY <1>0, <1>2 DEF IInv, Phases, NotEarly, CommitAdmins
  <2> QED
    BY <2>3, <2>4, <2>5, <2>6 DEF IInv
<1> QED
  BY <1>1, <1>2

LEMMA DyingStep ==
    ASSUME IInv, NEW r \in Runners, RunDies(r)
    PROVE  IInv'
<1>1. TypeOK'
  BY DEF IInv, TypeOK, RunDies, NoRows, Wraps
<1>2. Phases' /\ NotEarly' /\ AllMoved' /\ Swept'
  BY DEF IInv, TypeOK, Phases, NotEarly, AllMoved, Swept, RunDies
<1> QED
  BY <1>1, <1>2 DEF IInv

LEMMA OperatorSteps ==
    ASSUME IInv,
           \/ \E i \in Apis : OpenWindow(i) \/ CloseWindow(i)
           \/ RestartWorker \/ StopAll \/ StartAll
    PROVE  IInv'
<1>1. ASSUME NEW i \in Apis, OpenWindow(i) \/ CloseWindow(i)
      PROVE  IInv'
  <2>0. /\ i \in Runners
        /\ NoRows \in [Ids -> Wraps]
    BY DEF Runners, NoRows, Wraps
  <2>1. PICK k \in {"window", "new"} :
          /\ Restart(i, k)
          /\ k = "window" => api[i] = "old"
          /\ k = "new" => api[i] = "window" /\ migrated
    BY <1>1 DEF OpenWindow, CloseWindow
  <2>2. TypeOK'
    BY <2>0, <2>1 DEF IInv, TypeOK, Restart
  <2>3. Phases'
    BY <2>1 DEF IInv, TypeOK, Phases, NotEarly, Restart
  <2>4. NotEarly' /\ AllMoved'
    BY <2>0, <2>1 DEF IInv, TypeOK, NotEarly, AllMoved, Restart
  <2>5. Swept'
    BY <2>0, <2>1 DEF IInv, TypeOK, Swept, Restart
  <2> QED
    BY <2>2, <2>3, <2>4, <2>5 DEF IInv
<1>2. CASE RestartWorker \/ StopAll \/ StartAll
  <2>1. TypeOK'
    BY <1>2 DEF IInv, TypeOK, RestartWorker, StopAll, StartAll, runVars
  <2>2. Phases' /\ NotEarly'
    BY <1>2 DEF IInv, TypeOK, Phases, NotEarly, RestartWorker, StopAll, StartAll,
                runVars, Running
  <2>3. Swept' /\ AllMoved'
    BY <1>2 DEF IInv, Swept, AllMoved, RestartWorker, StopAll, StartAll, runVars
  <2> QED
    BY <2>1, <2>2, <2>3 DEF IInv
<1> QED
  BY <1>1, <1>2

LEMMA NextIInv == IInv /\ [Next]_vars => IInv'
<1> SUFFICES ASSUME IInv, [Next]_vars PROVE IInv'
  OBVIOUS
<1>1. CASE Next
  <2>1. ASSUME NEW t \in Ids, Encrypt(t) \/ Erase(t) PROVE IInv'
    BY <2>1, RowSteps
  <2>2. ASSUME NEW i \in Apis, NEW a \in Admins, ResetTotp(i, a) PROVE IInv'
    BY <2>2, ResetStep
  <2>3. ASSUME NEW i \in Apis, RewrapBegin(i) PROVE IInv'
    BY <2>3, BeginStep DEF RewrapBegin, Runners
  <2>4. ASSUME ScriptBegin PROVE IInv'
    BY <2>4, BeginStep DEF ScriptBegin, Running, Runners
  <2>5. ASSUME NEW r \in Runners, SelectPage(r) \/ CommitPage(r) PROVE IInv'
    BY <2>5, PageSteps
  <2>6. ASSUME NEW r \in Runners, SelectAdmins(r) \/ CommitAdmins(r) PROVE IInv'
    BY <2>6, AdminSteps
  <2>7. ASSUME NEW r \in Runners, RunDies(r) PROVE IInv'
    BY <2>7, DyingStep
  <2>8. ASSUME \/ \E i \in Apis : OpenWindow(i) \/ CloseWindow(i)
               \/ RestartWorker \/ StopAll \/ StartAll
        PROVE  IInv'
    BY <2>8, OperatorSteps
  <2> QED
    BY <1>1, <2>1, <2>2, <2>3, <2>4, <2>5, <2>6, <2>7, <2>8 DEF Next
<1>2. CASE UNCHANGED vars
  BY <1>2 DEF IInv, TypeOK, Phases, NotEarly, Swept, AllMoved, vars, runVars
<1> QED
  BY <1>1, <1>2

(* Every running api can unwrap every transfer's key, and every restarted  *)
(* one every TOTP secret, through the whole rotation: for any number of    *)
(* rows, chunk size, processes, concurrent or repeated rewrap runs and     *)
(* failures of them, when the operator keeps to the runbook's order.       *)
THEOREM RotationKeepsReadable == Spec => []ReadableThroughout
<1>1. IInv => ReadableThroughout
  BY DEF IInv, TypeOK, Phases, NotEarly, AllMoved, ReadableThroughout, Unwraps,
         CurrentKey, Wraps, Secrets
<1>2. IInv /\ [Next]_vars => IInv'
  BY NextIInv
<1>3. Spec => []IInv
  BY InitIInv, <1>2, PTL DEF Spec
<1> QED
  BY <1>1, <1>3, PTL

=============================================================================
