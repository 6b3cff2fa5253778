----------------------------- MODULE AnalyticsApi -----------------------------
(***************************************************************************)
(* The analytics service: concurrent requests that share a pool of         *)
(* database connections and Redis, where responses are cached and requests *)
(* are counted.  The worker goes on writing the tables they read.  Redis   *)
(* may fail and come back, and the service may crash between two calls.    *)
(*                                                                         *)
(* Abstractions: the eight cached metrics are one endpoint; what a query   *)
(* returns is the set of tenants its rows belong to and how many of the    *)
(* tenant's writes they show.                                              *)
(***************************************************************************)
EXTENDS Access, Sequences, FiniteSets

CONSTANTS
    Calls,      \* requests that may be in progress at once
    Conns,      \* connections of the pool
    Tenants,
    Requests,   \* what clients send
    Request,    \* the credential, endpoint and tenant of each
    NoRequest,
    Offers,     \* bounds: what one behaviour sends, and its calls, ticks, writes and faults
    Limit,      \* rate_limit_requests_per_minute
    RateTTL,    \* life of a counter, in ticks
    CacheTTL,   \* life of a cache entry, in ticks
    Flight,     \* ticks from a query's snapshot to the cache write
    NoTenant,   \* no app.tenant_id in a session
    NoCall      \* a connection in the pool

Never == 1000       \* the expiry of a key without TTL: no behaviour gets there

ASSUME ApiAssumption ==
    /\ {Limit, RateTTL, CacheTTL, Flight} \subseteq Nat \ {0}
    /\ \A o \in Offers :
          /\ o.requests \subseteq Requests
          /\ {o.calls, o.ticks, o.writes, o.faults} \subseteq Nat /\ o.ticks < Never
    /\ \A r \in Requests :
          Request[r].tenant \in Tenants /\ Request[r].cred.kind \in CredentialKinds
    /\ NoCall \notin Calls

VARIABLES
    offered,    \* what the clients of this behaviour send
    now,        \* the clock
    written,    \* per tenant, when the worker wrote its rows
    redisUp,
    counter,    \* per limited caller and path: count and expiry
    entry,      \* per cache key: payload and expiry
    call,       \* the requests in progress
    conn,       \* per connection: who holds it and its app.tenant_id
    passed,     \* per caller and path, when requests whose count came back got through
    calls, faults

redis == <<redisUp, counter, entry>>
apiVars == <<offered, now, written, redis, call, conn, passed, calls, faults>>

Limited == {"metric", "alerts"}
CachedPaths == {"metric"}
Catalogue == {"tenants"}

NoPayload == [tenants |-> {}, size |-> 0, at |-> 0]
Idle == [step |-> "idle", req |-> NoRequest, payload |-> NoPayload, answered |-> 0]

Path(req) == Request[req].path
Tenant(req) == Request[req].tenant
PrincipalOf(req) == Principal(Request[req].cred)
CacheKeys == CachedPaths \X Tenants
Absent == [count |-> 0, expires |-> Never]
NoEntry == [payload |-> NoPayload, expires |-> 0]

\* enforce_rate_limit: per tenant, user and path.
RateKey(req) == <<PrincipalOf(req).tenant, PrincipalOf(req).user, Path(req)>>
RateKeys == {RateKey(r) : r \in {q \in Requests : Path(q) \in Limited}}

\* Mutant: one entry for the tenants.
SharedKey(req) == <<Path(req), CHOOSE t \in Tenants : TRUE>>

\* stable_cache_key: the tenant is part of the key.
CacheKey(req) == <<Path(req), Tenant(req)>>

-------------------------------------------------------------------------------
Init ==
    /\ offered \in Offers
    /\ now = 0 /\ calls = 0 /\ faults = 0
    /\ written = [t \in Tenants |-> <<>>]
    /\ redisUp = TRUE
    /\ counter = [k \in RateKeys |-> Absent]
    /\ entry = [k \in CacheKeys |-> NoEntry]
    /\ call = [c \in Calls |-> Idle]
    /\ conn = [k \in Conns |-> [holder |-> NoCall, tenant |-> NoTenant]]
    /\ passed = [k \in RateKeys |-> <<>>]

Goto(c, step) == call' = [call EXCEPT ![c].step = step]
Finish(c) == call' = [call EXCEPT ![c] = Idle]

\* The response of a handler is logged and sent; its payload is taken now.
Answer(c, payload) ==
    call' = [call EXCEPT ![c].step = "log", ![c].payload = payload, ![c].answered = now]

AfterLimit(req) == IF Path(req) \in CachedPaths THEN "get" ELSE "acquire"

\* assert_tenant_scope, and the admin check of /tenants.
InScope(req) ==
    LET p == PrincipalOf(req) IN
    IF Path(req) \in Catalogue THEN IsPlatformAdmin(p) ELSE CanAccess(p, Tenant(req))

\* A request arrives: get_principal, then the scope check.  An exception
\* that is no HTTPException passes through the usage log's middleware.
Receive(c, req) ==
    /\ call[c].step = "idle" /\ calls < offered.calls
    /\ calls' = calls + 1
    /\ LET outcome == Authenticated(Request[req].cred, now) IN
       CASE outcome = 500 -> UNCHANGED call
         [] outcome = 401 \/ (outcome = 200 /\ ~InScope(req)) ->
                call' = [call EXCEPT ![c] = [Idle EXCEPT !.req = req, !.step = "log"]]
         [] OTHER ->
                call' = [call EXCEPT ![c] = [Idle EXCEPT !.req = req,
                            !.step = IF Path(req) \in Limited THEN "limit" ELSE "acquire"]]
    /\ UNCHANGED <<offered, now, written, redis, conn, passed, faults>>

\* Mutant: the count before this request is compared.
OneTooMany(n) == n - 1 > Limit

OverLimit(n) == n > Limit

\* incr_rate_limit: INCR.  Without Redis the request goes on uncounted.
Incr(c) ==
    /\ call[c].step = "limit"
    /\ LET k == RateKey(call[c].req)
           n == counter[k].count + 1
       IN  IF ~redisUp THEN Goto(c, AfterLimit(call[c].req)) /\ UNCHANGED <<counter, passed>>
           ELSE /\ counter' = [counter EXCEPT ![k].count = n]
                /\ passed' = IF OverLimit(n) THEN passed ELSE [passed EXCEPT ![k] = Append(@, now)]
                /\ Goto(c, IF n = 1 THEN "expire"
                           ELSE IF OverLimit(n) THEN "log"
                           ELSE AfterLimit(call[c].req))
    /\ UNCHANGED <<offered, now, written, redisUp, entry, conn, calls, faults>>

\* Redis counts, but its answer is lost: the request goes on unlimited, and
\* EXPIRE is not sent.
IncrUnanswered(c) ==
    /\ call[c].step = "limit" /\ redisUp /\ faults < offered.faults
    /\ faults' = faults + 1
    /\ counter' = [counter EXCEPT ![RateKey(call[c].req)].count = @ + 1]
    /\ Goto(c, AfterLimit(call[c].req))
    /\ UNCHANGED <<offered, now, written, redisUp, entry, conn, passed, calls>>

\* EXPIRE, after the first INCR only; when it fails the key keeps no TTL.
Expire(c) ==
    /\ call[c].step = "expire"
    /\ LET k == RateKey(call[c].req) IN
       counter' = IF redisUp /\ counter[k].count > 0
                  THEN [counter EXCEPT ![k].expires = now + RateTTL]
                  ELSE counter
    /\ Goto(c, AfterLimit(call[c].req))
    /\ UNCHANGED <<offered, now, written, redisUp, entry, conn, passed, calls, faults>>

\* get_json: a hit is the answer, a miss or an outage leads to the loader.
GetJson(c) ==
    /\ call[c].step = "get"
    /\ LET found == entry[CacheKey(call[c].req)] IN
       IF redisUp /\ found # NoEntry THEN Answer(c, found.payload)
       ELSE Goto(c, "acquire")
    /\ UNCHANGED <<offered, now, written, redis, conn, passed, calls, faults>>

-------------------------------------------------------------------------------
(* platform_shared.database: the pool.                                     *)

Free == {k \in Conns : conn[k].holder = NoCall}
Held(c) == {k \in Conns : conn[k].holder = c}

\* fetch_scoped: a connection, a transaction, set_config.  The catalogue of
\* tenants is read by a plain fetch.
Acquire(c) ==
    /\ call[c].step = "acquire"
    /\ \E k \in Free :
        conn' = [conn EXCEPT ![k].holder = c,
                             ![k].tenant = IF Path(call[c].req) \in Catalogue THEN @
                                           ELSE Tenant(call[c].req)]
    /\ Goto(c, "query")
    /\ UNCHANGED <<offered, now, written, redis, passed, calls, faults>>

\* The policies of tenant_rls.sql: a session sees the rows of its tenant.
Visible(k) == {conn[k].tenant} \cap Tenants

\* The rows of a statement: its where clause names the tenant asked for, and
\* the catalogue's tables hold no tenant's rows.
RowsSeen(k, req) ==
    IF Path(req) \in Catalogue THEN {} ELSE Visible(k) \cap {Tenant(req)}

Fetch(c) ==
    /\ call[c].step = "query"
    /\ \E k \in Held(c) :
        LET req == call[c].req
            rows == RowsSeen(k, req)
        IN  call' = [call EXCEPT ![c].step = "release",
                        ![c].payload = [tenants |-> rows, at |-> now,
                            size |-> IF rows = {} THEN 0 ELSE Len(written[Tenant(req)])]]
    /\ UNCHANGED <<offered, now, written, redis, conn, passed, calls, faults>>

\* Mutant: set_config(..., false), for the session.
SessionLocal(k) == [holder |-> NoCall, tenant |-> conn[k].tenant]

\* A transaction-local setting ends with its transaction.
Returned(k) == [holder |-> NoCall, tenant |-> NoTenant]

\* Mutant: /system/status reads the pipeline runs inside the first block.
KeepForRuns(c) == IF Path(call[c].req) = "status" THEN {} ELSE Held(c)

\* The connections given back when the scoped query is over.
GivenBack(c) == Held(c)

\* The transaction ends and the connection returns to the pool.
Release(c) ==
    /\ call[c].step = "release"
    /\ conn' = [k \in Conns |-> IF k \in GivenBack(c) THEN Returned(k) ELSE conn[k]]
    /\ CASE Path(call[c].req) \in CachedPaths -> Goto(c, "set")
         [] Path(call[c].req) = "status" -> Goto(c, "runs")
         [] OTHER -> Answer(c, call[c].payload)
    /\ UNCHANGED <<offered, now, written, redis, passed, calls, faults>>

\* No connection, or a statement raises: rollback, and a 500 without a usage row.
FetchFails(c) ==
    /\ call[c].step \in {"acquire", "query", "runs"} /\ faults < offered.faults
    /\ faults' = faults + 1
    /\ conn' = [k \in Conns |-> IF k \in Held(c) THEN Returned(k) ELSE conn[k]]
    /\ Finish(c)
    /\ UNCHANGED <<offered, now, written, redis, passed, calls>>

\* /system/status: the pipeline runs, on any connection of the pool.
FetchRuns(c) ==
    /\ call[c].step = "runs" /\ Free # {}
    /\ Answer(c, call[c].payload)
    /\ conn' = [k \in Conns |-> IF k \in Held(c) THEN Returned(k) ELSE conn[k]]
    /\ UNCHANGED <<offered, now, written, redis, passed, calls, faults>>

\* Mutant: an entry that does not expire.
NoExpiry(payload) == [payload |-> payload, expires |-> Never]

CacheEntry(payload) == [payload |-> payload, expires |-> now + CacheTTL]

\* set_json; during an outage the response is sent all the same.
SetJson(c) ==
    /\ call[c].step = "set"
    /\ entry' = IF ~redisUp THEN entry
                ELSE [entry EXCEPT ![CacheKey(call[c].req)] = CacheEntry(call[c].payload)]
    /\ Answer(c, call[c].payload)
    /\ UNCHANGED <<offered, now, written, redisUp, counter, conn, passed, calls, faults>>

\* api_usage_logging, after the handler; its failure is swallowed.
LogUsage(c) ==
    /\ call[c].step = "log" /\ Free # {}
    /\ Finish(c)
    /\ UNCHANGED <<offered, now, written, redis, conn, passed, calls, faults>>

-------------------------------------------------------------------------------
(* The surroundings.                                                       *)

\* The processing service counts another event of a tenant.
WorkerWrites(t) ==
    /\ \A u \in Tenants : Len(written[u]) < offered.writes
    /\ written' = [written EXCEPT ![t] = Append(@, now)]
    /\ UNCHANGED <<offered, now, redis, call, conn, passed, calls, faults>>

\* command_timeout and the socket timeouts bound the time from a snapshot to
\* its cache write: a call that is at the bound ends before time goes on.
TimeoutsHold ==
    \A c \in Calls : call[c].step \in {"release", "set"} => now - call[c].payload.at < Flight

\* Time passes; Redis drops what has expired.
Tick ==
    /\ now < offered.ticks
    /\ TimeoutsHold
    /\ now' = now + 1
    /\ counter' = [k \in RateKeys |-> IF counter[k].expires <= now + 1 THEN Absent ELSE counter[k]]
    /\ entry' = [k \in CacheKeys |-> IF entry[k].expires <= now + 1 THEN NoEntry ELSE entry[k]]
    /\ UNCHANGED <<offered, written, redisUp, call, conn, passed, calls, faults>>

\* Redis is lost to the service; its volume keeps the keys.
RedisFails ==
    /\ redisUp /\ faults < offered.faults
    /\ redisUp' = FALSE /\ faults' = faults + 1
    /\ UNCHANGED <<offered, now, written, counter, entry, call, conn, passed, calls>>

RedisReturns ==
    /\ ~redisUp
    /\ redisUp' = TRUE
    /\ UNCHANGED <<offered, now, written, counter, entry, call, conn, passed, calls, faults>>

\* The service dies and starts again with a new pool.
Crash ==
    /\ faults < offered.faults /\ \E c \in Calls : call[c].step # "idle"
    /\ faults' = faults + 1
    /\ call' = [c \in Calls |-> Idle]
    /\ conn' = [k \in Conns |-> [holder |-> NoCall, tenant |-> NoTenant]]
    /\ UNCHANGED <<offered, now, written, redis, passed, calls>>

Handle(c) ==
    \/ Incr(c) \/ Expire(c) \/ GetJson(c) \/ Acquire(c) \/ Fetch(c)
    \/ Release(c) \/ FetchRuns(c) \/ SetJson(c) \/ LogUsage(c)

Next ==
    \/ \E c \in Calls : Handle(c) \/ IncrUnanswered(c) \/ FetchFails(c)
    \/ \E c \in Calls, req \in offered.requests : Receive(c, req)
    \/ \E t \in {Tenant(r) : r \in offered.requests} : WorkerWrites(t)
    \/ Tick \/ RedisFails \/ RedisReturns \/ Crash

\* The event loop runs every coroutine, and the pool serves its waiters in
\* the order they came.
Fairness == \A c \in Calls : WF_apiVars(Handle(c))

Spec == Init /\ [][Next]_apiVars /\ Fairness

-------------------------------------------------------------------------------
(* Properties.                                                             *)

Answered == {c \in Calls : call[c].step = "log"}

\* A response holds rows of the tenant asked for only, and of a tenant the
\* caller may access, whatever the cache held and whoever filled it.
OwnDataOnly ==
    \A c \in Answered :
        /\ call[c].payload.tenants \subseteq {Tenant(call[c].req)}
        /\ \A t \in call[c].payload.tenants : CanAccess(PrincipalOf(call[c].req), t)

\* A connection in the pool carries no tenant of an earlier request
\* (database.py: the setting is gone before the connection is given back).
ContextEndsWithTransaction ==
    \A k \in Conns :
        /\ conn[k].holder = NoCall => conn[k].tenant = NoTenant
        /\ conn[k].holder # NoCall =>
              conn[k].tenant \in {NoTenant, Tenant(call[conn[k].holder].req)}

\* A metric shows every write that is older than the life of a cache
\* entry and the time a loader takes, although a slow loader may replace a
\* newer entry by an older one.
FreshEnough ==
    \A c \in {d \in Answered : Path(call[d].req) \in CachedPaths} :
        LET times == written[Tenant(call[c].req)]
            old == {i \in 1..Len(times) : times[i] + CacheTTL + Flight <= call[c].answered}
        IN  call[c].payload # NoPayload => Cardinality(old) <= call[c].payload.size

\* The limit is per fixed window, so however windows fall no caller gets
\* more than twice the limit through in any interval of a window's length,
\* requests that an outage lets through unlimited apart.
LimitHolds ==
    \A k \in RateKeys : \A from \in 0..now :
        Cardinality({i \in 1..Len(passed[k]) :
                        passed[k][i] \in from .. from + RateTTL - 1}) <= 2 * Limit

\* Every request ends although requests wait for connections of one pool.
EveryCallEnds == \A c \in Calls : call[c].step # "idle" ~> call[c].step = "idle"
===============================================================================
