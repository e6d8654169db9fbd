------------------------------ MODULE RateLimit ------------------------------
(***************************************************************************)
(* The rate limiter for one client address: fixed windows counted in Redis *)
(* by a Lua script, shared by all api processes, with limits that every    *)
(* process caches from the settings table for a few seconds.  Time is a    *)
(* tick that lowers every remaining lifetime by one.                       *)
(***************************************************************************)
EXTENDS Integers

CONSTANTS
    Apis,         \* api processes, each with a cache of its own
    Requests,     \* concurrent requests of the client
    Traffic,      \* the actions it asks for, some or all of Actions
    Values,       \* what an administrator may store as a limit
    Unset,        \* no such row, or a value that is not a number, null too
    Default,      \* _DEFAULT_UPLOAD_HOURLY and its like
    CacheTTL,     \* cache_ttl_seconds
    HourWindow,   \* 3600
    DayWindow,    \* 86400
    MaxHits,      \* where the counter stops, above every limit
    MaxPatches    \* bound on changes of the settings

ASSUME ValuesAssumption == Default \in Nat /\ Values \subseteq Nat /\ Unset \notin Values
ASSUME TrafficAssumption == Traffic \subseteq {"upload", "download"}
ASSUME TimesAssumption == {CacheTTL, HourWindow, DayWindow} \subseteq Nat \ {0}
ASSUME BoundsAssumption ==
    /\ MaxHits \in Nat \ {0, 1} /\ MaxPatches \in Nat
    /\ \A v \in Values \cup {Default} : v < MaxHits

VARIABLES
    setting,      \* the settings table: a limit, or Unset
    recent,       \* history: the limits in force 0, 1, ..., CacheTTL ticks ago
    cache,        \* _cache of each process: the value and how long it lasts
    count,        \* the counter rl:*:{ip} in Redis, 0 when there is no key
    ttl,          \* its remaining lifetime
    req,          \* each request: its action, where it is, the limits it holds
    seen,         \* history: the limits in force since CacheTTL before it came
    passed,       \* history: requests let through by the counter in its window
    top,          \* history: the highest limit used in its window
    patches       \* changes of the settings so far

vars == <<setting, recent, cache, count, ttl, req, seen, passed, top, patches>>

Keys    == {"upload_hourly", "upload_daily", "download_hourly"}
Actions == {"upload", "download"}
Stored  == Values \cup {Unset}
Limits  == Values \cup {Default}
Ages    == 0..CacheTTL

(***************************************************************************)
(* The keys a request is counted on, in this order.                        *)
(***************************************************************************)
policy(action) == IF action = "upload" THEN <<"upload_hourly", "upload_daily">>
                                       ELSE <<"download_hourly">>

PolicyLength(action) == IF action = "upload" THEN 2 ELSE 1

Window(k) == IF k = "upload_daily" THEN DayWindow ELSE HourWindow

(***************************************************************************)
(* SettingsService.get_int: what is not a number counts as the default.    *)
(***************************************************************************)
get_int(v) == IF v = Unset THEN Default ELSE v

ReqStates ==
    [at : {"idle", "lookup", "loading", "loaded", "consume", "no_db", "no_redis"}, action : Actions,
     api : Apis, step : 1..2, got : Limits, waited : Ages, limit : [Keys -> Limits]]

TypeOK ==
    /\ setting \in [Keys -> Stored]
    /\ recent \in [Keys -> [Ages -> SUBSET Limits]]
    /\ cache \in [Apis -> [Keys -> [value : Limits, left : Ages]]]
    /\ count \in [Keys -> Nat]
    /\ ttl \in [Keys -> Nat]
    /\ req \in [Requests -> ReqStates]
    /\ seen \in [Requests -> [Keys -> SUBSET Limits]]
    /\ passed \in [Keys -> Nat]
    /\ top \in [Keys -> Nat]
    /\ patches \in Nat
    /\ \A r \in Requests : req[r].step <= PolicyLength(req[r].action)

NoRequest(a) == [at |-> "idle", action |-> "download", api |-> a, step |-> 1,
                 got |-> Default, waited |-> 0, limit |-> [k \in Keys |-> Default]]

NotSeen == [k \in Keys |-> {}]

Init ==
    /\ setting = [k \in Keys |-> Unset]
    /\ recent = [k \in Keys |-> [d \in Ages |-> {Default}]]
    /\ cache = [a \in Apis |-> [k \in Keys |-> [value |-> Default, left |-> 0]]]
    /\ count = [k \in Keys |-> 0]
    /\ ttl = [k \in Keys |-> 0]
    /\ \E a \in Apis : req = [r \in Requests |-> NoRequest(a)]
    /\ seen = [r \in Requests |-> NotSeen]
    /\ passed = [k \in Keys |-> 0]
    /\ top = [k \in Keys |-> 0]
    /\ patches = 0

-----------------------------------------------------------------------------
(* The request asks for the limit of this key, or is counted on it. *)
key(r) == policy(req[r].action)[req[r].step]

(***************************************************************************)
(* _classify: a request to one of the limited paths comes in.              *)
(***************************************************************************)
Arrive(r, a, action) ==
    /\ req[r].at \in {"idle", "no_db", "no_redis"}
    /\ req' = [req EXCEPT ![r] = [NoRequest(a) EXCEPT !.at = "lookup",
                                                      !.action = action]]
    /\ seen' = [seen EXCEPT ![r] = [k \in Keys |-> UNION {recent[k][d] : d \in Ages}]]
    /\ UNCHANGED <<setting, recent, cache, count, ttl, passed, top, patches>>

(***************************************************************************)
(* The limit is known: ask for the next one, or go on to the counters.     *)
(***************************************************************************)
HaveLimit(q, k, v) ==
    LET more == q.step < PolicyLength(q.action)
    IN  [q EXCEPT !.at = IF more THEN "lookup" ELSE "consume",
                  !.step = IF more THEN q.step + 1 ELSE 1,
                  !.limit = [q.limit EXCEPT ![k] = v],
                  !.got = Default, !.waited = 0]

(* Mutant: a cached value never expires. *)
Fresh_Forever(c) == TRUE

(***************************************************************************)
(* cached[1] > now.                                                        *)
(***************************************************************************)
Fresh(c) == c.left > 0

(***************************************************************************)
(* _get_int_cached: a fresh entry is used; else the table is asked, and    *)
(* the entry's lifetime counts from now.                                   *)
(***************************************************************************)
Lookup(r) ==
    LET c == cache[req[r].api][key(r)]
    IN  /\ req[r].at = "lookup"
        /\ req' = [req EXCEPT ![r] =
                      IF Fresh(c) THEN HaveLimit(req[r], key(r), c.value)
                                  ELSE [req[r] EXCEPT !.at = "loading"]]
        /\ UNCHANGED <<setting, recent, cache, count, ttl, seen, passed, top, patches>>

ReadSetting(r) ==
    /\ req[r].at = "loading"
    /\ req' = [req EXCEPT ![r] = [req[r] EXCEPT !.at = "loaded",
                                                !.got = get_int(setting[key(r)])]]
    /\ UNCHANGED <<setting, recent, cache, count, ttl, seen, passed, top, patches>>

(***************************************************************************)
(* The answer is cached, over a newer one perhaps, and used.               *)
(***************************************************************************)
StoreCache(r) ==
    /\ req[r].at = "loaded"
    /\ cache' = [cache EXCEPT ![req[r].api] =
                    [cache[req[r].api] EXCEPT ![key(r)] =
                        [value |-> req[r].got, left |-> CacheTTL - req[r].waited]]]
    /\ req' = [req EXCEPT ![r] = HaveLimit(req[r], key(r), req[r].got)]
    /\ UNCHANGED <<setting, recent, count, ttl, seen, passed, top, patches>>

(* Mutant: the last permitted request is one too many. *)
Exceeds_OneMore(c, limit) == c > limit + 1

(* c > tonumber(ARGV[1]) *)
Exceeds(c, limit) == c > limit

(* Mutant: every request prolongs the window. *)
WindowAfter_Sliding(c, left, w) == w

(***************************************************************************)
(* EXPIRE only by the request that creates the key.                        *)
(***************************************************************************)
WindowAfter(c, left, w) == IF c = 1 THEN w ELSE left

INCR(n) == IF n < MaxHits THEN n + 1 ELSE n

(***************************************************************************)
(* The Lua script.  A refusal ends the request (429) before it is counted  *)
(* on the next key; when all keys let it pass, the application gets it.    *)
(***************************************************************************)
Consume(r) ==
    LET k     == key(r)
        limit == req[r].limit[k]
        c     == INCR(count[k])
        last  == req[r].step = PolicyLength(req[r].action)
    IN  /\ req[r].at = "consume"
        /\ count' = [count EXCEPT ![k] = c]
        /\ ttl' = [ttl EXCEPT ![k] = WindowAfter(c, ttl[k], Window(k))]
        /\ passed' = [passed EXCEPT ![k] = IF Exceeds(c, limit) THEN @ ELSE @ + 1]
        /\ top' = [top EXCEPT ![k] = IF limit > @ THEN limit ELSE @]
        /\ req' = [req EXCEPT ![r] =
                      IF Exceeds(c, limit) \/ last THEN NoRequest(req[r].api)
                      ELSE [req[r] EXCEPT !.step = req[r].step + 1]]
        /\ seen' = [seen EXCEPT ![r] = IF req'[r].at = "idle" THEN NotSeen ELSE @]
        /\ UNCHANGED <<setting, recent, cache, patches>>

(***************************************************************************)
(* The database or Redis does not answer: the exception is caught nowhere  *)
(* in the middleware, and the request ends with a 500.                     *)
(***************************************************************************)
Unreachable(r) ==
    /\ req[r].at \in {"loading", "consume"}
    /\ req' = [req EXCEPT ![r] = [NoRequest(req[r].api) EXCEPT
                  !.at = IF req[r].at = "loading" THEN "no_db" ELSE "no_redis"]]
    /\ UNCHANGED <<setting, recent, cache, count, ttl, seen, passed, top, patches>>

(***************************************************************************)
(* PATCH /api/admin/settings commits another limit, or a null.             *)
(***************************************************************************)
PatchSetting(k, v) ==
    /\ patches < MaxPatches
    /\ setting' = [setting EXCEPT ![k] = v]
    /\ recent' = [recent EXCEPT ![k] = [recent[k] EXCEPT ![0] = @ \cup {get_int(v)}]]
    /\ seen' = [r \in Requests |-> IF req[r].at = "idle" THEN seen[r]
                                   ELSE [seen[r] EXCEPT ![k] = @ \cup {get_int(v)}]]
    /\ patches' = patches + 1
    /\ UNCHANGED <<cache, count, ttl, req, passed, top>>

Less(n) == IF n > 0 THEN n - 1 ELSE 0

(***************************************************************************)
(* Time passes: entries and keys expire.  Redis drops a key with its       *)
(* counter.                                                                *)
(***************************************************************************)
Tick ==
    /\ recent' = [k \in Keys |-> [d \in Ages |->
                     IF d = 0 THEN {get_int(setting[k])} ELSE recent[k][d - 1]]]
    /\ cache' = [a \in Apis |-> [k \in Keys |->
                    [cache[a][k] EXCEPT !.left = Less(cache[a][k].left)]]]
    /\ ttl' = [k \in Keys |-> Less(ttl[k])]
    /\ count' = [k \in Keys |-> IF ttl[k] <= 1 THEN 0 ELSE count[k]]
    /\ passed' = [k \in Keys |-> IF ttl[k] <= 1 THEN 0 ELSE passed[k]]
    /\ top' = [k \in Keys |-> IF ttl[k] <= 1 THEN 0 ELSE top[k]]
    /\ req' = [r \in Requests |->
                  IF req[r].at \in {"loading", "loaded"} /\ req[r].waited < CacheTTL
                    THEN [req[r] EXCEPT !.waited = req[r].waited + 1] ELSE req[r]]
    /\ UNCHANGED <<setting, seen, patches>>

Next ==
    \/ \E r \in Requests :
        \/ \E a \in Apis, action \in Traffic : Arrive(r, a, action)
        \/ Lookup(r)
        \/ ReadSetting(r)
        \/ StoreCache(r)
        \/ Consume(r)
        \/ Unreachable(r)
    \/ \E k \in Keys, v \in Stored : PatchSetting(k, v)
    \/ Tick

Spec == Init /\ [][Next]_vars

(***************************************************************************)
(* Time goes on; clients and administrators owe nothing.                   *)
(***************************************************************************)
FairSpec == Spec /\ WF_vars(Tick)

-----------------------------------------------------------------------------
(* A request is judged by limits that were in force at most CacheTTL       *)
(* before it came in, whatever the order in which concurrent loads fill    *)
(* the cache (rate_limit.py:3: changes take effect without a restart).     *)
FreshLimits ==
    \A r \in Requests : req[r].at = "consume" =>
        \A i \in req[r].step..PolicyLength(req[r].action) :
            LET k == policy(req[r].action)[i] IN req[r].limit[k] \in seen[r][k]

(* Within one window no more requests pass a counter than the highest      *)
(* limit that was used in it.                                              *)
WithinWindow == \A k \in Keys : passed[k] <= top[k]

(* Without Redis the limiter lets requests pass (docs/CHAOS_PLAN.md:64:    *)
(* "Rate-limit middleware fails open").                                    *)
FailsOpen == \A r \in Requests : req[r].at # "no_redis"

(* A client that has used up its requests is let in again by the mere      *)
(* passing of time, also when it keeps trying.                             *)
BlockIsTemporary == \A k \in Keys : count[k] > 0 ~> count[k] = 0

=============================================================================
