--------------------------- MODULE RateLimitProofs ---------------------------
(***************************************************************************)
(* Proofs about RateLimit, for any number of processes and requests, any   *)
(* limits and any lifetimes.  FreshLimits is not inductive: a limit that a *)
(* request holds may come from the cache, and the cache may have been      *)
(* filled by a load that began earlier and ended later than another one.   *)
(* The invariant therefore says of every cache entry, by its age, when its *)
(* value was in force, and of every load in flight the same.               *)
(***************************************************************************)
EXTENDS RateLimit, TLAPS

(* What is in the table now is among the limits of the current tick. *)
SettingIsRecent == \A k \in Keys : get_int(setting[k]) \in recent[k][0]

(* The value of an entry that has lasted n ticks was in force n ticks ago  *)
(* or since.                                                               *)
CacheIsRecent ==
    \A a \in Apis, k \in Keys :
        LET c == cache[a][k]
        IN  c.left > 0 => \E d \in 0..(CacheTTL - c.left) : c.value \in recent[k][d]

(* How many limits the request holds. *)
Known(r) == IF req[r].at = "consume" THEN PolicyLength(req[r].action)
                                     ELSE req[r].step - 1

Covered(r) == \A k \in Keys, d \in Ages : recent[k][d] \subseteq seen[r][k]

Holds(r) == \A i \in 1..Known(r) :
                LET k == policy(req[r].action)[i] IN req[r].limit[k] \in seen[r][k]

Loading(r) == req[r].at = "loaded" =>
                /\ req[r].got \in seen[r][key(r)]
                /\ req[r].waited < CacheTTL =>
                     \E d \in 0..req[r].waited : req[r].got \in recent[key(r)][d]

RequestOK(r) == req[r].at # "idle" => Covered(r) /\ Holds(r) /\ Loading(r)

Windows == \A k \in Keys : passed[k] <= count[k] /\ passed[k] <= top[k]

IInv == /\ TypeOK /\ SettingIsRecent /\ CacheIsRecent /\ Windows
        /\ \A r \in Requests : RequestOK(r)

-----------------------------------------------------------------------------
LEMMA LimitFacts ==
    /\ Limits \subseteq Nat
    /\ Default \in Limits
    /\ \A v \in Limits : v < MaxHits
    /\ \A v \in Stored : get_int(v) \in Limits
    /\ CacheTTL \in Nat /\ CacheTTL > 0
BY ValuesAssumption, BoundsAssumption, TimesAssumption DEF Limits, Stored, get_int

(* The policy of either action names keys, each once. *)
LEMMA PolicyFacts ==
    ASSUME NEW action \in Actions
    PROVE  /\ PolicyLength(action) \in 1..2
           /\ \A i \in 1..PolicyLength(action) : policy(action)[i] \in Keys
           /\ \A i, j \in 1..PolicyLength(action) :
                 i # j => policy(action)[i] # policy(action)[j]
<1>1. CASE action = "upload"
  <2>1. /\ PolicyLength(action) = 2
        /\ policy(action)[1] = "upload_hourly" /\ policy(action)[2] = "upload_daily"
    BY <1>1 DEF PolicyLength, policy
  <2> QED
    BY <2>1 DEF Keys
<1>2. CASE action = "download"
  <2>1. PolicyLength(action) = 1 /\ policy(action)[1] = "download_hourly"
    BY <1>2 DEF PolicyLength, policy
  <2> QED
    BY <2>1 DEF Keys
<1> QED
  BY <1>1, <1>2 DEF Actions

LEMMA RequestTypes ==
    ASSUME TypeOK, NEW r \in Requests
    PROVE  /\ req[r] \in ReqStates
           /\ req[r].step \in 1..PolicyLength(req[r].action)
           /\ req[r].action \in Actions /\ req[r].api \in Apis
           /\ key(r) \in Keys
           /\ req[r].got \in Limits /\ req[r].waited \in Ages
           /\ req[r].limit \in [Keys -> Limits]
<1>1. req[r] \in ReqStates /\ req[r].step <= PolicyLength(req[r].action)
  BY DEF TypeOK
<1>2. req[r].action \in Actions /\ req[r].step \in 1..2
  BY <1>1 DEF ReqStates
<1>3. req[r].step \in 1..PolicyLength(req[r].action)
  BY <1>1, <1>2, PolicyFacts
<1>4. key(r) \in Keys
  BY <1>2, <1>3, PolicyFacts DEF key
<1> QED
  BY <1>1, <1>2, <1>3, <1>4 DEF ReqStates

LEMMA NoRequestTypes ==
    ASSUME NEW a \in Apis
    PROVE  /\ NoRequest(a) \in ReqStates
           /\ NoRequest(a).at = "idle" /\ NoRequest(a).step = 1
           /\ NoRequest(a).action = "download"
BY LimitFacts DEF NoRequest, ReqStates, Actions, Ages

(* What a request is when it has learnt the limit of its present key. *)
LEMMA HaveLimitFacts ==
    ASSUME NEW q \in ReqStates, q.step \in 1..PolicyLength(q.action),
           NEW k \in Keys, NEW v \in Limits
    PROVE  /\ HaveLimit(q, k, v) \in ReqStates
           /\ HaveLimit(q, k, v).action = q.action
           /\ HaveLimit(q, k, v).limit = [q.limit EXCEPT ![k] = v]
           /\ \/ /\ HaveLimit(q, k, v).at = "lookup"
                 /\ q.step < PolicyLength(q.action)
                 /\ HaveLimit(q, k, v).step = q.step + 1
              \/ /\ HaveLimit(q, k, v).at = "consume"
                 /\ q.step = PolicyLength(q.action)
                 /\ HaveLimit(q, k, v).step = 1
<1>1. /\ q.action \in Actions /\ q.limit \in [Keys -> Limits] /\ q.step \in 1..2
      /\ PolicyLength(q.action) \in 1..2
  BY PolicyFacts DEF ReqStates
<1>2. PICK L \in [Keys -> Limits] : L = [q.limit EXCEPT ![k] = v]
  BY <1>1
<1>3. 0 \in Ages /\ Default \in Limits
  BY LimitFacts DEF Ages
<1>4. CASE q.step < PolicyLength(q.action)
  <2>1. HaveLimit(q, k, v) = [q EXCEPT !.at = "lookup", !.step = q.step + 1,
                                       !.limit = L, !.got = Default, !.waited = 0]
    BY <1>2, <1>4 DEF HaveLimit
  <2>2. q.step + 1 \in 1..2
    BY <1>1, <1>4
  <2>3. HaveLimit(q, k, v) \in ReqStates
    BY <1>3, <2>1, <2>2 DEF ReqStates
  <2> QED
    BY <1>2, <1>4, <2>1, <2>3 DEF ReqStates
<1>5. CASE ~(q.step < PolicyLength(q.action))
  <2>1. HaveLimit(q, k, v) = [q EXCEPT !.at = "consume", !.step = 1,
                                       !.limit = L, !.got = Default, !.waited = 0]
    BY <1>2, <1>5 DEF HaveLimit
  <2>2. q.step = PolicyLength(q.action)
    BY <1>1, <1>5
  <2>3. HaveLimit(q, k, v) \in ReqStates
    <3>1. 1 \in 1..2
      OBVIOUS
    <3> QED
      BY <1>3, <2>1, <3>1 DEF ReqStates
  <2>4. /\ HaveLimit(q, k, v).at = "consume" /\ HaveLimit(q, k, v).step = 1
        /\ HaveLimit(q, k, v).action = q.action /\ HaveLimit(q, k, v).limit = L
    BY <2>1 DEF ReqStates
  <2> QED
    BY <1>2, <2>2, <2>3, <2>4
<1> QED
  BY <1>4, <1>5

(* A step of one request that leaves the tables alone: what has to be      *)
(* shown is about that request only.                                       *)
LEMMA OneRequest ==
    ASSUME IInv, NEW r \in Requests, NEW q \in ReqStates,
           q.step <= PolicyLength(q.action),
           req' = [req EXCEPT ![r] = q],
           UNCHANGED <<setting, recent, cache, count, ttl, seen, passed, top, patches>>,
           RequestOK(r)'
    PROVE  IInv'
<1>1. /\ req'[r] = q
      /\ \A p \in Requests \ {r} : req'[p] = req[p]
      /\ req' \in [Requests -> ReqStates]
  BY DEF IInv, TypeOK
<1>2. TypeOK'
  BY <1>1 DEF IInv, TypeOK
<1>3. SettingIsRecent' /\ CacheIsRecent' /\ Windows'
  BY DEF IInv, SettingIsRecent, CacheIsRecent, Windows
<1>4. ASSUME NEW p \in Requests \ {r} PROVE RequestOK(p)'
  BY <1>1 DEF IInv, RequestOK, Covered, Holds, Known, Loading, key
<1> QED
  BY <1>2, <1>3, <1>4 DEF IInv

-----------------------------------------------------------------------------
LEMMA InitOK == Init => IInv
<1> SUFFICES ASSUME Init PROVE IInv
  OBVIOUS
<1>1. PICK a \in Apis : req = [r \in Requests |-> NoRequest(a)]
  BY DEF Init
<1>2. \A r \in Requests : req[r] \in ReqStates /\ req[r].at = "idle"
                          /\ req[r].step <= PolicyLength(req[r].action)
  BY <1>1, NoRequestTypes DEF PolicyLength
<1>3. req \in [Requests -> ReqStates]
  BY <1>1, <1>2
<1>4. TypeOK
  BY <1>2, <1>3, LimitFacts DEF Init, TypeOK, Stored, Ages, NotSeen
<1>5. SettingIsRecent /\ CacheIsRecent /\ Windows
  BY LimitFacts DEF Init, SettingIsRecent, CacheIsRecent, Windows, get_int, Ages
<1> QED
  BY <1>2, <1>4, <1>5 DEF IInv, RequestOK

(* A limit learnt now is one the request may be judged by. *)
LEMMA LearnKeepsHolds ==
    ASSUME IInv, NEW r \in Requests, req[r].at \in {"lookup", "loaded"},
           NEW v \in Limits, v \in seen[r][key(r)],
           req' = [req EXCEPT ![r] = HaveLimit(req[r], key(r), v)], seen' = seen
    PROVE  /\ req'[r] = HaveLimit(req[r], key(r), v)
           /\ HaveLimit(req[r], key(r), v) \in ReqStates
           /\ req'[r].step <= PolicyLength(req'[r].action)
           /\ req'[r].at \in {"lookup", "consume"}
           /\ Holds(r)'
<1> DEFINE q == req[r]  k == key(r)  h == HaveLimit(req[r], key(r), v)
<1>1. /\ q \in ReqStates /\ q.action \in Actions /\ k \in Keys
      /\ q.step \in 1..PolicyLength(q.action) /\ q.limit \in [Keys -> Limits]
  BY RequestTypes DEF IInv
<1>2. PolicyLength(q.action) \in 1..2
  BY <1>1, PolicyFacts
<1>3. /\ h \in ReqStates /\ h.action = q.action
      /\ h.limit = [q.limit EXCEPT ![k] = v]
      /\ \/ h.at = "lookup" /\ q.step < PolicyLength(q.action) /\ h.step = q.step + 1
         \/ h.at = "consume" /\ q.step = PolicyLength(q.action) /\ h.step = 1
  BY <1>1, HaveLimitFacts
<1>4. req'[r] = h
  BY DEF IInv, TypeOK
<1>5. Known(r)' = q.step
  BY <1>1, <1>2, <1>3, <1>4 DEF Known
<1>6. ASSUME NEW i \in 1..q.step
      PROVE  h.limit[policy(q.action)[i]] \in seen[r][policy(q.action)[i]]
  <2>1. CASE i = q.step
    BY <1>1, <1>3, <2>1 DEF key
  <2>2. CASE i # q.step
    <3>1. i \in 1..Known(r) /\ i \in 1..PolicyLength(q.action)
      BY <1>1, <1>2, <2>2 DEF Known
    <3>2. policy(q.action)[i] \in Keys /\ policy(q.action)[i] # k
      BY <1>1, <2>2, <3>1, PolicyFacts DEF key
    <3>3. q.limit[policy(q.action)[i]] \in seen[r][policy(q.action)[i]]
      BY <3>1 DEF IInv, RequestOK, Holds
    <3> QED
      BY <1>1, <1>3, <3>2, <3>3
  <2> QED
    BY <2>1, <2>2
<1>7. Holds(r)'
  BY <1>3, <1>4, <1>5, <1>6 DEF Holds
<1>8. h.step <= PolicyLength(h.action) /\ h.at \in {"lookup", "consume"}
  BY <1>1, <1>2, <1>3
<1> QED
  BY <1>3, <1>4, <1>7, <1>8

LEMMA LookupOK == ASSUME IInv, NEW r \in Requests, Lookup(r) PROVE IInv'
<1> DEFINE k == key(r)  c == cache[req[r].api][k]
<1>0. /\ req[r] \in ReqStates /\ req[r].api \in Apis /\ k \in Keys
      /\ req[r].step <= PolicyLength(req[r].action)
  BY RequestTypes DEF IInv, TypeOK
<1>1. req[r].at = "lookup"
  BY DEF Lookup
<1>2. Covered(r) /\ Holds(r)
  BY <1>1 DEF IInv, RequestOK
<1>3. CASE Fresh(c)
  <2>1. c.value \in Limits /\ c.left \in Ages /\ CacheTTL \in Nat
    BY <1>0, LimitFacts DEF IInv, TypeOK
  <2>2. PICK d \in 0..(CacheTTL - c.left) : c.value \in recent[k][d]
    BY <1>0, <1>3 DEF IInv, CacheIsRecent, Fresh
  <2>3. c.value \in seen[r][k]
    BY <1>0, <1>2, <2>1, <2>2 DEF Covered, Ages
  <2>4. /\ req' = [req EXCEPT ![r] = HaveLimit(req[r], k, c.value)]
        /\ UNCHANGED <<setting, recent, cache, count, ttl, seen, passed, top, patches>>
    BY <1>3 DEF Lookup
  <2>5. /\ req'[r] = HaveLimit(req[r], k, c.value)
        /\ HaveLimit(req[r], k, c.value) \in ReqStates
        /\ req'[r].step <= PolicyLength(req'[r].action)
        /\ req'[r].at \in {"lookup", "consume"}
        /\ Holds(r)'
    BY <1>1, <2>1, <2>3, <2>4, LearnKeepsHolds
  <2>6. RequestOK(r)'
    BY <1>2, <2>4, <2>5 DEF RequestOK, Covered, Loading
  <2> QED
    BY <2>4, <2>5, <2>6, OneRequest
<1>4. CASE ~Fresh(c)
  <2> DEFINE q == [req[r] EXCEPT !.at = "loading"]
  <2>1. /\ req' = [req EXCEPT ![r] = q]
        /\ UNCHANGED <<setting, recent, cache, count, ttl, seen, passed, top, patches>>
    BY <1>4 DEF Lookup
  <2>2. /\ q \in ReqStates /\ q.at = "loading" /\ q.action = req[r].action
        /\ q.step = req[r].step /\ q.limit = req[r].limit
    BY <1>0 DEF ReqStates
  <2>3. req'[r] = q
    BY <2>1 DEF IInv, TypeOK
  <2> HIDE DEF q
  <2>4. RequestOK(r)'
    BY <1>1, <1>2, <2>1, <2>2, <2>3 DEF RequestOK, Covered, Holds, Known, Loading
  <2> QED
    BY <1>0, <2>1, <2>2, <2>4, OneRequest
<1> QED
  BY <1>3, <1>4

LEMMA ReadSettingOK == ASSUME IInv, NEW r \in Requests, ReadSetting(r) PROVE IInv'
<1> DEFINE k == key(r)  v == get_int(setting[k])
           q == [req[r] EXCEPT !.at = "loaded", !.got = v]
<1>0. /\ req[r] \in ReqStates /\ k \in Keys /\ req[r].waited \in Ages
      /\ req[r].step <= PolicyLength(req[r].action)
  BY RequestTypes DEF IInv, TypeOK
<1>1. req[r].at = "loading"
  BY DEF ReadSetting
<1>2. Covered(r) /\ Holds(r)
  BY <1>1 DEF IInv, RequestOK
<1>3. v \in Limits
  BY <1>0, LimitFacts DEF IInv, TypeOK
<1>4. v \in recent[k][0] /\ v \in seen[r][k]
  BY <1>0, <1>2, LimitFacts DEF IInv, SettingIsRecent, Covered, Ages
<1>5. /\ req' = [req EXCEPT ![r] = q]
      /\ UNCHANGED <<setting, recent, cache, count, ttl, seen, passed, top, patches>>
  BY DEF ReadSetting
<1> HIDE DEF v
<1>6. /\ q \in ReqStates /\ q.at = "loaded" /\ q.action = req[r].action /\ q.got = v
      /\ q.step = req[r].step /\ q.limit = req[r].limit /\ q.waited \in Ages
  BY <1>0, <1>3 DEF ReqStates
<1>7. req'[r] = q
  BY <1>5 DEF IInv, TypeOK
<1> HIDE DEF q
<1>8. key(r)' = k
  BY <1>6, <1>7 DEF key
<1>9. Loading(r)'
  <2>1. 0 \in 0..q.waited
    BY <1>6, LimitFacts DEF Ages
  <2> QED
    BY <1>4, <1>5, <1>6, <1>7, <1>8, <2>1 DEF Loading
<1>10. Covered(r)' /\ Holds(r)'
  BY <1>1, <1>2, <1>5, <1>6, <1>7 DEF Covered, Holds, Known
<1>11. RequestOK(r)'
  BY <1>9, <1>10 DEF RequestOK
<1> QED
  BY <1>0, <1>5, <1>6, <1>11, OneRequest

LEMMA StoreCacheOK == ASSUME IInv, NEW r \in Requests, StoreCache(r) PROVE IInv'
<1> DEFINE k == key(r)  a == req[r].api  v == req[r].got
           e == [value |-> v, left |-> CacheTTL - req[r].waited]
<1>0. /\ req[r] \in ReqStates /\ k \in Keys /\ a \in Apis
      /\ v \in Limits /\ req[r].waited \in Ages
  BY RequestTypes DEF IInv
<1>1. req[r].at = "loaded"
  BY DEF StoreCache
<1>2. /\ Covered(r) /\ v \in seen[r][k]
      /\ req[r].waited < CacheTTL => \E d \in 0..req[r].waited : v \in recent[k][d]
  BY <1>1 DEF IInv, RequestOK, Loading
<1>3. /\ req' = [req EXCEPT ![r] = HaveLimit(req[r], k, v)]
      /\ cache' = [cache EXCEPT ![a] = [cache[a] EXCEPT ![k] = e]]
      /\ UNCHANGED <<setting, recent, count, ttl, seen, passed, top, patches>>
  BY DEF StoreCache
<1>4. /\ req'[r] = HaveLimit(req[r], k, v)
      /\ HaveLimit(req[r], k, v) \in ReqStates
      /\ req'[r].step <= PolicyLength(req'[r].action)
      /\ req'[r].at \in {"lookup", "consume"}
      /\ Holds(r)'
  BY <1>0, <1>1, <1>2, <1>3, LearnKeepsHolds
<1>5. /\ e.value = v /\ e.left \in Ages /\ e.left = CacheTTL - req[r].waited
      /\ e \in [value : Limits, left : Ages]
  BY <1>0, LimitFacts DEF Ages
<1>6. /\ cache' \in [Apis -> [Keys -> [value : Limits, left : Ages]]]
      /\ cache'[a][k] = e
      /\ \A b \in Apis, j \in Keys : <<b, j>> # <<a, k>> => cache'[b][j] = cache[b][j]
  <2> HIDE DEF e
  <2>1. cache \in [Apis -> [Keys -> [value : Limits, left : Ages]]]
    BY DEF IInv, TypeOK
  <2>2. [cache[a] EXCEPT ![k] = e] \in [Keys -> [value : Limits, left : Ages]]
    BY <1>0, <1>5, <2>1
  <2> QED
    BY <1>0, <1>3, <2>1, <2>2
<1> HIDE DEF e
<1>7. TypeOK'
  <2>1. req' \in [Requests -> ReqStates]
    BY <1>3, <1>4 DEF IInv, TypeOK
  <2>2. \A p \in Requests : req'[p].step <= PolicyLength(req'[p].action)
    BY <1>3, <1>4 DEF IInv, TypeOK
  <2> QED
    BY <1>3, <1>6, <2>1, <2>2 DEF IInv, TypeOK
<1>8. CacheIsRecent'
  <2>1. ASSUME NEW b \in Apis, NEW j \in Keys, cache'[b][j].left > 0
        PROVE  \E d \in 0..(CacheTTL - cache'[b][j].left) :
                  cache'[b][j].value \in recent[j][d]
    <3>1. CASE b = a /\ j = k
      <4>1. req[r].waited < CacheTTL /\ CacheTTL - e.left = req[r].waited
        BY <1>0, <1>5, <1>6, <2>1, <3>1, LimitFacts DEF Ages
      <4> QED
        BY <1>2, <1>5, <1>6, <3>1, <4>1
    <3>2. CASE ~(b = a /\ j = k)
      BY <1>6, <2>1, <3>2 DEF IInv, CacheIsRecent
    <3> QED
      BY <3>1, <3>2
  <2> QED
    BY <1>3, <2>1 DEF CacheIsRecent
<1>9. ASSUME NEW p \in Requests PROVE RequestOK(p)'
  <2>1. CASE p = r
    BY <1>2, <1>3, <1>4, <2>1 DEF RequestOK, Covered, Loading
  <2>2. CASE p # r
    <3>1. req'[p] = req[p]
      BY <1>3, <2>2 DEF IInv, TypeOK
    <3> QED
      BY <1>3, <3>1 DEF IInv, RequestOK, Covered, Holds, Known, Loading, key
  <2> QED
    BY <2>1, <2>2
<1>10. SettingIsRecent' /\ Windows'
  BY <1>3 DEF IInv, SettingIsRecent, Windows
<1> QED
  BY <1>7, <1>8, <1>9, <1>10 DEF IInv

LEMMA ArriveOK ==
    ASSUME IInv, NEW r \in Requests, NEW a \in Apis, NEW action \in Actions,
           Arrive(r, a, action)
    PROVE  IInv'
<1> DEFINE q == [NoRequest(a) EXCEPT !.at = "lookup", !.action = action]
           all == [k \in Keys |-> UNION {recent[k][d] : d \in Ages}]
<1>1. /\ req' = [req EXCEPT ![r] = q] /\ seen' = [seen EXCEPT ![r] = all]
      /\ UNCHANGED <<setting, recent, cache, count, ttl, passed, top, patches>>
  BY DEF Arrive
<1>2. q \in ReqStates /\ q.at = "lookup" /\ q.step = 1 /\ q.action = action
  <2>1. PICK n \in ReqStates : n = NoRequest(a) /\ n.step = 1
    BY NoRequestTypes
  <2>2. q = [n EXCEPT !.at = "lookup", !.action = action]
    BY <2>1
  <2> HIDE DEF q
  <2> QED
    BY <2>1, <2>2 DEF ReqStates
<1>3. all \in [Keys -> SUBSET Limits]
  BY DEF IInv, TypeOK
<1> HIDE DEF q
<1>4. /\ req'[r] = q /\ seen'[r] = all
      /\ \A p \in Requests \ {r} : req'[p] = req[p] /\ seen'[p] = seen[p]
      /\ req' \in [Requests -> ReqStates]
      /\ seen' \in [Requests -> [Keys -> SUBSET Limits]]
  BY <1>1, <1>2, <1>3 DEF IInv, TypeOK
<1>5. q.step <= PolicyLength(q.action)
  BY <1>2, PolicyFacts
<1>6. TypeOK'
  BY <1>1, <1>4, <1>5 DEF IInv, TypeOK
<1>7. SettingIsRecent' /\ CacheIsRecent' /\ Windows'
  BY <1>1 DEF IInv, SettingIsRecent, CacheIsRecent, Windows
<1>8. RequestOK(r)'
  <2>1. Covered(r)'
    BY <1>1, <1>4 DEF Covered
  <2>2. Known(r)' = 0 /\ req'[r].at # "loaded"
    BY <1>2, <1>4 DEF Known
  <2>3. Holds(r)' /\ Loading(r)'
    BY <2>2 DEF Holds, Loading
  <2> QED
    BY <2>1, <2>3 DEF RequestOK
<1>9. ASSUME NEW p \in Requests \ {r} PROVE RequestOK(p)'
  BY <1>1, <1>4 DEF IInv, RequestOK, Covered, Holds, Known, Loading, key
<1> QED
  BY <1>6, <1>7, <1>8, <1>9 DEF IInv

LEMMA ConsumeOK == ASSUME IInv, NEW r \in Requests, Consume(r) PROVE IInv'
<1> DEFINE k == key(r)  limit == req[r].limit[k]  c == INCR(count[k])
           last == req[r].step = PolicyLength(req[r].action)
           q == IF Exceeds(c, limit) \/ last THEN NoRequest(req[r].api)
                ELSE [req[r] EXCEPT !.step = req[r].step + 1]
<1>0. /\ req[r] \in ReqStates /\ k \in Keys /\ req[r].api \in Apis
      /\ req[r].step \in 1..PolicyLength(req[r].action) /\ req[r].action \in Actions
      /\ req[r].limit \in [Keys -> Limits]
  BY RequestTypes DEF IInv
<1>1. /\ req[r].at = "consume"
      /\ count' = [count EXCEPT ![k] = c]
      /\ ttl' = [ttl EXCEPT ![k] = WindowAfter(c, ttl[k], Window(k))]
      /\ passed' = [passed EXCEPT ![k] = IF Exceeds(c, limit) THEN @ ELSE @ + 1]
      /\ top' = [top EXCEPT ![k] = IF limit > @ THEN limit ELSE @]
      /\ req' = [req EXCEPT ![r] = q]
      /\ seen' = [seen EXCEPT ![r] = IF req'[r].at = "idle" THEN NotSeen ELSE @]
      /\ UNCHANGED <<setting, recent, cache, patches>>
  BY DEF Consume
<1>2. /\ limit \in Nat /\ limit < MaxHits /\ MaxHits \in Nat
      /\ count[k] \in Nat /\ passed[k] \in Nat /\ top[k] \in Nat /\ ttl[k] \in Nat
      /\ Window(k) \in Nat
  BY <1>0, LimitFacts, BoundsAssumption, TimesAssumption DEF IInv, TypeOK, Window
<1>3. c \in Nat /\ c >= count[k] /\ (c <= limit => c = count[k] + 1)
  BY <1>2 DEF INCR
<1>4. /\ passed'[k] <= count'[k] /\ passed'[k] <= top'[k]
      /\ count' \in [Keys -> Nat] /\ passed' \in [Keys -> Nat] /\ top' \in [Keys -> Nat]
  <2>1. count'[k] = c /\ count' \in [Keys -> Nat]
    BY <1>0, <1>1, <1>3 DEF IInv, TypeOK
  <2>2. /\ top'[k] >= limit /\ top'[k] >= top[k] /\ top'[k] \in Nat
        /\ top' \in [Keys -> Nat]
    BY <1>0, <1>1, <1>2 DEF IInv, TypeOK
  <2>3. CASE Exceeds(c, limit)
    <3>1. passed' = [passed EXCEPT ![k] = passed[k]]
      BY <1>1, <2>3
    <3>2. passed'[k] = passed[k] /\ passed' \in [Keys -> Nat]
      BY <1>0, <1>2, <3>1 DEF IInv, TypeOK
    <3> QED
      BY <1>0, <1>2, <1>3, <2>1, <2>2, <3>2 DEF IInv, Windows
  <2>4. CASE ~Exceeds(c, limit)
    <3>1. passed' = [passed EXCEPT ![k] = passed[k] + 1]
      BY <1>1, <2>4
    <3>2. passed'[k] = passed[k] + 1 /\ passed' \in [Keys -> Nat]
      BY <1>0, <1>2, <3>1 DEF IInv, TypeOK
    <3>3. c <= limit
      BY <1>2, <1>3, <2>4 DEF Exceeds
    <3> QED
      BY <1>0, <1>2, <1>3, <2>1, <2>2, <3>2, <3>3 DEF IInv, Windows
  <2> QED
    BY <2>3, <2>4
<1>5. ttl' \in [Keys -> Nat]
  <2>1. WindowAfter(c, ttl[k], Window(k)) \in Nat
    BY <1>2 DEF WindowAfter
  <2> QED
    BY <1>0, <1>1, <2>1 DEF IInv, TypeOK
<1>6. Windows'
  <2>1. ASSUME NEW j \in Keys, j # k PROVE passed'[j] <= count'[j] /\ passed'[j] <= top'[j]
    BY <1>0, <1>1, <2>1 DEF IInv, TypeOK, Windows
  <2> QED
    BY <1>4, <2>1 DEF Windows
<1>7. /\ q \in ReqStates /\ q.step <= PolicyLength(q.action)
      /\ \/ q.at = "idle"
         \/ /\ q.at = "consume" /\ q.action = req[r].action /\ q.limit = req[r].limit
  <2>1. CASE Exceeds(c, limit) \/ last
    <3>1. q = NoRequest(req[r].api)
      BY <2>1
    <3>2. 1 <= PolicyLength("download")
      BY DEF PolicyLength
    <3> QED
      BY <1>0, <3>1, <3>2, NoRequestTypes
  <2>2. CASE ~(Exceeds(c, limit) \/ last)
    <3>1. q = [req[r] EXCEPT !.step = req[r].step + 1]
      BY <2>2
    <3>2. PolicyLength(req[r].action) \in 1..2
      BY <1>0, PolicyFacts
    <3>3. /\ req[r].step + 1 \in 1..2
          /\ req[r].step + 1 <= PolicyLength(req[r].action)
      BY <1>0, <2>2, <3>2
    <3> QED
      BY <1>0, <1>1, <3>1, <3>3 DEF ReqStates
  <2> QED
    BY <2>1, <2>2
<1> HIDE DEF q
<1>8. /\ req'[r] = q /\ req' \in [Requests -> ReqStates]
      /\ \A p \in Requests \ {r} : req'[p] = req[p]
  BY <1>1, <1>7 DEF IInv, TypeOK
<1>9. /\ seen' \in [Requests -> [Keys -> SUBSET Limits]]
      /\ q.at # "idle" => seen'[r] = seen[r]
      /\ \A p \in Requests \ {r} : seen'[p] = seen[p]
  BY <1>1, <1>8 DEF IInv, TypeOK, NotSeen
<1>10. TypeOK'
  <2>1. \A p \in Requests : req'[p].step <= PolicyLength(req'[p].action)
    BY <1>7, <1>8 DEF IInv, TypeOK
  <2> QED
    BY <1>1, <1>4, <1>5, <1>8, <1>9, <2>1 DEF IInv, TypeOK
<1>11. SettingIsRecent' /\ CacheIsRecent'
  BY <1>1 DEF IInv, SettingIsRecent, CacheIsRecent
<1>12. RequestOK(r)'
  BY <1>1, <1>7, <1>8, <1>9 DEF IInv, RequestOK, Covered, Holds, Known, Loading
<1>13. ASSUME NEW p \in Requests \ {r} PROVE RequestOK(p)'
  BY <1>1, <1>8, <1>9 DEF IInv, RequestOK, Covered, Holds, Known, Loading, key
<1> QED
  BY <1>6, <1>10, <1>11, <1>12, <1>13 DEF IInv

LEMMA UnreachableOK == ASSUME IInv, NEW r \in Requests, Unreachable(r) PROVE IInv'
<1> DEFINE n == NoRequest(req[r].api)
           q == [n EXCEPT !.at = IF req[r].at = "loading" THEN "no_db" ELSE "no_redis"]
<1>1. /\ req' = [req EXCEPT ![r] = q]
      /\ UNCHANGED <<setting, recent, cache, count, ttl, seen, passed, top, patches>>
      /\ req[r].at \in {"loading", "consume"}
  BY DEF Unreachable
<1>2. n \in ReqStates /\ n.step = 1 /\ n.action = "download"
  BY RequestTypes, NoRequestTypes DEF IInv
<1> HIDE DEF n
<1>3. /\ q \in ReqStates /\ q.at \in {"no_db", "no_redis"}
      /\ q.step = 1 /\ q.action = "download"
  BY <1>2 DEF ReqStates
<1>4. q.step <= PolicyLength(q.action)
  BY <1>3 DEF PolicyLength
<1>5. req'[r] = q
  BY <1>1 DEF IInv, TypeOK
<1> HIDE DEF q
<1>6. Known(r)' = 0
  BY <1>3, <1>5 DEF Known
<1>7. Covered(r)
  BY <1>1 DEF IInv, RequestOK
<1>8. RequestOK(r)'
  BY <1>1, <1>3, <1>5, <1>6, <1>7 DEF RequestOK, Covered, Holds, Loading
<1> QED
  BY <1>1, <1>3, <1>4, <1>8, OneRequest

LEMMA PatchOK ==
    ASSUME IInv, NEW k \in Keys, NEW v \in Stored, PatchSetting(k, v)
    PROVE  IInv'
<1> DEFINE w == get_int(v)
<1>0. w \in Limits /\ 0 \in Ages
  BY LimitFacts DEF Ages
<1>1. /\ setting' = [setting EXCEPT ![k] = v]
      /\ recent' = [recent EXCEPT ![k] = [recent[k] EXCEPT ![0] = @ \cup {w}]]
      /\ seen' = [r \in Requests |-> IF req[r].at = "idle" THEN seen[r]
                                     ELSE [seen[r] EXCEPT ![k] = @ \cup {w}]]
      /\ patches' = patches + 1
      /\ UNCHANGED <<cache, count, ttl, req, passed, top>>
  BY DEF PatchSetting
<1>2. /\ recent' \in [Keys -> [Ages -> SUBSET Limits]]
      /\ recent'[k][0] = recent[k][0] \cup {w}
      /\ \A j \in Keys, d \in Ages : <<j, d>> # <<k, 0>> => recent'[j][d] = recent[j][d]
  <2>1. recent \in [Keys -> [Ages -> SUBSET Limits]]
    BY DEF IInv, TypeOK
  <2>2. [recent[k] EXCEPT ![0] = recent[k][0] \cup {w}] \in [Ages -> SUBSET Limits]
    BY <1>0, <2>1
  <2> QED
    BY <1>0, <1>1, <2>1, <2>2
<1>3. \A j \in Keys, d \in Ages : recent[j][d] \subseteq recent'[j][d]
  BY <1>2
<1>4. /\ seen' \in [Requests -> [Keys -> SUBSET Limits]]
      /\ \A r \in Requests, j \in Keys : seen[r][j] \subseteq seen'[r][j]
      /\ \A r \in Requests : req[r].at # "idle" => w \in seen'[r][k]
  BY <1>0, <1>1 DEF IInv, TypeOK
<1>5. setting' \in [Keys -> Stored] /\ patches' \in Nat
  BY <1>0, <1>1 DEF IInv, TypeOK
<1>6. TypeOK'
  BY <1>1, <1>2, <1>4, <1>5 DEF IInv, TypeOK
<1>7. SettingIsRecent'
  BY <1>0, <1>1, <1>2, <1>3 DEF IInv, TypeOK, SettingIsRecent
<1>8. CacheIsRecent'
  <2> SUFFICES ASSUME NEW a \in Apis, NEW j \in Keys, cache[a][j].left > 0
               PROVE  \E d \in 0..(CacheTTL - cache[a][j].left) :
                         cache[a][j].value \in recent'[j][d]
    BY <1>1 DEF CacheIsRecent
  <2>1. PICK d \in 0..(CacheTTL - cache[a][j].left) : cache[a][j].value \in recent[j][d]
    BY DEF IInv, CacheIsRecent
  <2>2. d \in Ages
    BY LimitFacts DEF IInv, TypeOK, Ages
  <2> QED
    BY <1>3, <2>1, <2>2
<1>9. ASSUME NEW r \in Requests PROVE RequestOK(r)'
  <2> SUFFICES ASSUME req[r].at # "idle" PROVE Covered(r)' /\ Holds(r)' /\ Loading(r)'
    BY <1>1 DEF RequestOK
  <2>0. Covered(r) /\ Holds(r) /\ Loading(r)
    BY DEF IInv, RequestOK
  <2>1. Covered(r)'
    BY <1>2, <1>4, <2>0 DEF Covered
  <2>2. /\ req[r].action \in Actions /\ key(r) \in Keys /\ req[r].waited \in Ages
        /\ req[r].step \in 1..PolicyLength(req[r].action)
    BY RequestTypes DEF IInv
  <2>3. Holds(r)'
    <3>1. \A i \in 1..Known(r) : policy(req[r].action)[i] \in Keys
      BY <2>2, PolicyFacts DEF Known
    <3>2. Known(r)' = Known(r)
      BY <1>1 DEF Known
    <3> QED
      BY <1>1, <1>4, <2>0, <3>1, <3>2 DEF Holds
  <2>4. Loading(r)'
    <3>1. key(r)' = key(r)
      BY <1>1 DEF key
    <3>2. \A d \in 0..req[r].waited : d \in Ages
      BY <2>2, LimitFacts DEF Ages
    <3> QED
      BY <1>1, <1>3, <1>4, <2>0, <2>2, <3>1, <3>2 DEF Loading
  <2> QED
    BY <2>1, <2>3, <2>4
<1>10. Windows'
  BY <1>1 DEF IInv, Windows
<1> QED
  BY <1>6, <1>7, <1>8, <1>9, <1>10 DEF IInv

LEMMA TickOK == ASSUME IInv, Tick PROVE IInv'
<1>1. /\ recent' = [k \in Keys |-> [d \in Ages |->
                       IF d = 0 THEN {get_int(setting[k])} ELSE recent[k][d - 1]]]
      /\ cache' = [a \in Apis |-> [k \in Keys |->
                      [cache[a][k] EXCEPT !.left = Less(cache[a][k].left)]]]
      /\ ttl' = [k \in Keys |-> Less(ttl[k])]
      /\ count' = [k \in Keys |-> IF ttl[k] <= 1 THEN 0 ELSE count[k]]
      /\ passed' = [k \in Keys |-> IF ttl[k] <= 1 THEN 0 ELSE passed[k]]
      /\ top' = [k \in Keys |-> IF ttl[k] <= 1 THEN 0 ELSE top[k]]
      /\ UNCHANGED <<setting, seen, patches>>
  BY DEF Tick
<1>2. \A n \in Nat : Less(n) \in Nat /\ Less(n) <= n /\ (Less(n) > 0 => Less(n) = n - 1)
  BY DEF Less
<1>3. \A d \in Ages : d # 0 => d - 1 \in Ages
  BY LimitFacts DEF Ages
<1>4. \A k \in Keys : get_int(setting[k]) \in Limits
  BY LimitFacts DEF IInv, TypeOK
<1>5. /\ recent' \in [Keys -> [Ages -> SUBSET Limits]]
      /\ \A k \in Keys : recent'[k][0] = {get_int(setting[k])}
      /\ \A k \in Keys, d \in Ages : d # 0 => recent'[k][d] = recent[k][d - 1]
  <2>1. 0 \in Ages
    BY LimitFacts DEF Ages
  <2> QED
    BY <1>1, <1>3, <1>4, <2>1 DEF IInv, TypeOK
<1>6. ASSUME NEW a \in Apis, NEW k \in Keys
      PROVE  /\ cache'[a][k] \in [value : Limits, left : Ages]
             /\ cache'[a][k].value = cache[a][k].value
             /\ cache'[a][k].left = Less(cache[a][k].left)
  <2>1. cache[a][k] \in [value : Limits, left : Ages]
    BY DEF IInv, TypeOK
  <2>2. Less(cache[a][k].left) \in Ages
    BY <1>2, <2>1, LimitFacts DEF Ages
  <2>3. cache'[a][k] = [cache[a][k] EXCEPT !.left = Less(cache[a][k].left)]
    BY <1>1
  <2> QED
    BY <2>1, <2>2, <2>3
<1>7. ASSUME NEW r \in Requests
      PROVE  /\ req'[r] \in ReqStates
             /\ req'[r].at = req[r].at /\ req'[r].action = req[r].action
             /\ req'[r].step = req[r].step /\ req'[r].limit = req[r].limit
             /\ req'[r].got = req[r].got
             /\ \/ req'[r].waited = req[r].waited
                   /\ ~(req[r].at = "loaded" /\ req[r].waited < CacheTTL)
                \/ req'[r].waited = req[r].waited + 1
  <2>1. req[r] \in ReqStates /\ req[r].waited \in Ages
    BY RequestTypes DEF IInv
  <2>2. CASE req[r].at \in {"loading", "loaded"} /\ req[r].waited < CacheTTL
    <3>1. req'[r] = [req[r] EXCEPT !.waited = req[r].waited + 1]
      BY <2>2 DEF Tick
    <3>2. req[r].waited + 1 \in Ages
      BY <2>1, <2>2, LimitFacts DEF Ages
    <3> QED
      BY <2>1, <3>1, <3>2 DEF ReqStates
  <2>3. CASE ~(req[r].at \in {"loading", "loaded"} /\ req[r].waited < CacheTTL)
    <3>1. req'[r] = req[r]
      BY <2>3 DEF Tick
    <3> QED
      BY <2>1, <2>3, <3>1
  <2> QED
    BY <2>2, <2>3
<1>8. TypeOK'
  <2>1. cache' \in [Apis -> [Keys -> [value : Limits, left : Ages]]]
    <3>1. \A a \in Apis : cache'[a] \in [Keys -> [value : Limits, left : Ages]]
      BY <1>1, <1>6
    <3> QED
      BY <1>1, <3>1
  <2>2. req' \in [Requests -> ReqStates]
    BY <1>7 DEF Tick
  <2>3. \A r \in Requests : req'[r].step <= PolicyLength(req'[r].action)
    BY <1>7 DEF IInv, TypeOK
  <2>4. /\ count' \in [Keys -> Nat] /\ passed' \in [Keys -> Nat]
        /\ top' \in [Keys -> Nat] /\ ttl' \in [Keys -> Nat]
    BY <1>1, <1>2 DEF IInv, TypeOK
  <2> QED
    BY <1>1, <1>5, <2>1, <2>2, <2>3, <2>4 DEF IInv, TypeOK
<1>9. SettingIsRecent'
  BY <1>1, <1>5 DEF SettingIsRecent
<1>10. CacheIsRecent'
  <2> SUFFICES ASSUME NEW a \in Apis, NEW k \in Keys, cache'[a][k].left > 0
               PROVE  \E d \in 0..(CacheTTL - cache'[a][k].left) :
                         cache'[a][k].value \in recent'[k][d]
    BY DEF CacheIsRecent
  <2>1. /\ cache[a][k].left \in Ages /\ cache[a][k].left > 0
        /\ cache'[a][k].left = cache[a][k].left - 1
    BY <1>2, <1>6, LimitFacts DEF IInv, TypeOK, Ages, Less
  <2>2. PICK d \in 0..(CacheTTL - cache[a][k].left) : cache[a][k].value \in recent[k][d]
    BY <2>1 DEF IInv, CacheIsRecent
  <2>3. PICK e \in Ages : e # 0 /\ e - 1 = d /\ e \in 0..(CacheTTL - cache'[a][k].left)
    <3>1. /\ d + 1 \in Ages /\ d + 1 # 0 /\ (d + 1) - 1 = d
          /\ d + 1 \in 0..(CacheTTL - cache'[a][k].left)
      BY <2>1, LimitFacts DEF Ages
    <3> QED
      BY <3>1
  <2>4. recent'[k][e] = recent[k][e - 1]
    BY <1>5, <2>3
  <2> QED
    BY <1>6, <2>2, <2>3, <2>4
<1>11. ASSUME NEW r \in Requests PROVE RequestOK(r)'
  <2> SUFFICES ASSUME req[r].at # "idle" PROVE Covered(r)' /\ Holds(r)' /\ Loading(r)'
    BY <1>7 DEF RequestOK
  <2>0. Covered(r) /\ Holds(r) /\ Loading(r)
    BY DEF IInv, RequestOK
  <2>1. Covered(r)'
    <3> SUFFICES ASSUME NEW k \in Keys, NEW d \in Ages
                 PROVE  recent'[k][d] \subseteq seen[r][k]
      BY <1>1 DEF Covered
    <3>1. CASE d = 0
      <4>1. get_int(setting[k]) \in seen[r][k]
        BY <2>0, <3>1 DEF IInv, SettingIsRecent, Covered
      <4> QED
        BY <1>5, <3>1, <4>1
    <3>2. CASE d # 0
      BY <1>3, <1>5, <2>0, <3>2 DEF Covered
    <3> QED
      BY <3>1, <3>2
  <2>2. Holds(r)'
    BY <1>1, <1>7, <2>0 DEF Holds, Known
  <2>3. Loading(r)'
    <3> SUFFICES ASSUME req[r].at = "loaded" PROVE Loading(r)'
      BY <1>7 DEF Loading
    <3>1. key(r)' = key(r) /\ key(r) \in Keys /\ req[r].waited \in Ages
      BY <1>7, RequestTypes DEF IInv, key
    <3>2. ASSUME req'[r].waited < CacheTTL
          PROVE  \E d \in 0..req'[r].waited : req[r].got \in recent'[key(r)][d]
      <4>1. req'[r].waited = req[r].waited + 1 /\ req[r].waited < CacheTTL
        BY <1>7, <3>1, <3>2, LimitFacts DEF Ages
      <4>2. PICK d \in 0..req[r].waited : req[r].got \in recent[key(r)][d]
        BY <2>0, <4>1 DEF Loading
      <4>3. PICK e \in Ages : e # 0 /\ e - 1 = d /\ e \in 0..req'[r].waited
        <5>1. /\ d + 1 \in Ages /\ d + 1 # 0 /\ (d + 1) - 1 = d
              /\ d + 1 \in 0..req'[r].waited
          BY <3>1, <4>1, LimitFacts DEF Ages
        <5> QED
          BY <5>1
      <4>4. recent'[key(r)][e] = recent[key(r)][e - 1]
        BY <1>5, <3>1, <4>3
      <4> QED
        BY <4>2, <4>3, <4>4
    <3> QED
      BY <1>1, <1>7, <2>0, <3>1, <3>2 DEF Loading
  <2> QED
    BY <2>1, <2>2, <2>3
<1>12. Windows'
  BY <1>1 DEF IInv, TypeOK, Windows
<1> QED
  BY <1>8, <1>9, <1>10, <1>11, <1>12 DEF IInv

LEMMA Inductive == IInv /\ [Next]_vars => IInv'
<1> SUFFICES ASSUME IInv, [Next]_vars PROVE IInv'
  OBVIOUS
<1>1. CASE UNCHANGED vars
  BY <1>1 DEF vars, IInv, TypeOK, SettingIsRecent, CacheIsRecent, Windows, RequestOK,
              Covered, Holds, Known, Loading, key
<1>2. CASE Next
  <2>1. ASSUME NEW r \in Requests, NEW a \in Apis, NEW action \in Traffic,
               Arrive(r, a, action)
        PROVE  IInv'
    BY <2>1, ArriveOK, TrafficAssumption DEF Actions
  <2>2. ASSUME NEW r \in Requests,
               \/ Lookup(r) \/ ReadSetting(r) \/ StoreCache(r) \/ Consume(r)
               \/ Unreachable(r)
        PROVE  IInv'
    BY <2>2, LookupOK, ReadSettingOK, StoreCacheOK, ConsumeOK, UnreachableOK
  <2>3. ASSUME NEW k \in Keys, NEW v \in Stored, PatchSetting(k, v) PROVE IInv'
    BY <2>3, PatchOK
  <2>4. CASE Tick
    BY <2>4, TickOK
  <2> QED
    BY <1>2, <2>1, <2>2, <2>3, <2>4 DEF Next
<1> QED
  BY <1>1, <1>2

LEMMA Implies == IInv => FreshLimits /\ WithinWindow
<1> SUFFICES ASSUME IInv PROVE FreshLimits /\ WithinWindow
  OBVIOUS
<1>1. ASSUME NEW r \in Requests, req[r].at = "consume",
             NEW i \in req[r].step..PolicyLength(req[r].action)
      PROVE  req[r].limit[policy(req[r].action)[i]] \in seen[r][policy(req[r].action)[i]]
  <2>1. req[r].step \in 1..PolicyLength(req[r].action) /\ PolicyLength(req[r].action) \in 1..2
    BY RequestTypes, PolicyFacts DEF IInv
  <2>2. i \in 1..Known(r)
    BY <1>1, <2>1 DEF Known
  <2> QED
    BY <1>1, <2>2 DEF IInv, RequestOK, Holds
<1>2. FreshLimits
  BY <1>1 DEF FreshLimits
<1>3. WithinWindow
  BY DEF IInv, Windows, WithinWindow
<1> QED
  BY <1>2, <1>3

(* Every request is judged by limits that were in force at most CacheTTL   *)
(* before it came in (_get_int_cached), whatever interleaving of loads,    *)
(* cache writes and settings changes happens.                              *)
THEOREM LimitsStayFresh == Spec => []FreshLimits
BY InitOK, Inductive, Implies, PTL DEF Spec

(* No window lets more requests through than the highest limit used in it  *)
(* (the Lua script of services/rate_limit.py).                             *)
THEOREM WindowsHold == Spec => []WithinWindow
BY InitOK, Inductive, Implies, PTL DEF Spec

=============================================================================
