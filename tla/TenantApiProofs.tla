--------------------------- MODULE TenantApiProofs ----------------------------
(***************************************************************************)
(* Of the analytics service, for any number of requests, connections and   *)
(* tenants, with any outages and crashes: tenant isolation, how old a      *)
(* cached metric may be, and how many requests get through the rate limit. *)
(* Of the metadata service: that no exchange of tokens for tokens leads    *)
(* out of a tenant.                                                        *)
(***************************************************************************)
EXTENDS AnalyticsApi, TokenIssuer, FiniteSetTheorems, WellFoundedInduction, TLAPS

-------------------------------------------------------------------------------
(* The inductive invariant.                                                *)

Steps == {"idle", "limit", "expire", "get", "acquire", "query", "release", "runs", "set", "log"}
Payloads == [tenants : SUBSET Tenants, size : Nat, at : Nat]

\* Type correctness, of what the proofs look at.
ApiTypeOK ==
    /\ offered \in Offers
    /\ now \in Nat
    /\ written \in [Tenants -> Seq(Nat)]
    /\ entry \in [CacheKeys -> [payload : Payloads, expires : Nat]]
    /\ call \in [Calls -> [step : Steps, req : Requests \cup {NoRequest},
                           payload : Payloads, answered : Nat]]
    /\ conn \in [Conns -> [holder : Calls \cup {NoCall}, tenant : Tenants \cup {NoTenant}]]

\* An entry of the cache holds rows of the tenant of its key.
EntriesAreOwn == \A key \in CacheKeys : entry[key].payload.tenants \subseteq {key[2]}

\* A request past the scope check is in scope, and so is one that has rows.
RequestOk(r) ==
    r.step # "idle" =>
        /\ r.req \in Requests
        /\ r.payload.tenants \subseteq {Tenant(r.req)}
        /\ r.step # "log" \/ r.payload.tenants # {} => InScope(r.req)
        /\ r.step \in {"get", "set"} => Path(r.req) \in CachedPaths

RequestsAreOwn == \A c \in Calls : RequestOk(call[c])

\* Only requests between Acquire and Release hold connections.
HoldersRun ==
    \A k \in Conns : conn[k].holder # NoCall => call[conn[k].holder].step \in {"query", "release"}

ApiInv == ApiTypeOK /\ EntriesAreOwn /\ RequestsAreOwn /\ HoldersRun /\ ContextEndsWithTransaction

\* The part of the invariant that steps of other parts leave alone.
lookedAt == <<offered, now, written, entry, call, conn>>

LEMMA PayloadTypes == NoPayload \in Payloads /\ NoPayload.tenants = {}
BY DEF NoPayload, Payloads

LEMMA IdleType == Idle \in [step : Steps, req : Requests \cup {NoRequest},
                            payload : Payloads, answered : Nat] /\ Idle.step = "idle"
BY PayloadTypes DEF Idle, Steps

LEMMA ApiInvInitially == Init => ApiInv
<1> SUFFICES ASSUME Init PROVE ApiInv
    OBVIOUS
<1> USE DEF Init
<1>1. ApiTypeOK
    BY PayloadTypes, IdleType DEF ApiTypeOK, NoEntry
<1>2. EntriesAreOwn
    BY PayloadTypes DEF EntriesAreOwn, NoEntry
<1>3. RequestsAreOwn
    BY IdleType DEF RequestsAreOwn, RequestOk
<1>4. HoldersRun /\ ContextEndsWithTransaction
    BY DEF HoldersRun, ContextEndsWithTransaction
<1> QED BY <1>1, <1>2, <1>3, <1>4 DEF ApiInv

\* A request that takes a step of its own and neither takes nor gives back
\* a connection.
LEMMA OneRequestMoves ==
    ASSUME ApiInv, NEW c \in Calls, NEW r,
           r \in [step : Steps, req : Requests \cup {NoRequest}, payload : Payloads, answered : Nat],
           RequestOk(r), r.step \notin {"query", "release"} => call[c].step \notin {"query", "release"},
           call[c].step \in {"query", "release"} => r.req = call[c].req,
           call' = [call EXCEPT ![c] = r],
           UNCHANGED <<offered, now, written, entry, conn>>
    PROVE  ApiInv'
<1> USE DEF ApiInv
<1>1. ApiTypeOK'
    BY DEF ApiTypeOK
<1>2. EntriesAreOwn'
    BY DEF EntriesAreOwn
<1>3. RequestsAreOwn'
    BY DEF ApiTypeOK, RequestsAreOwn, RequestOk, InScope, PrincipalOf, Principal, Path, Tenant
<1>4. HoldersRun'
    BY DEF ApiTypeOK, HoldersRun
<1>5. ContextEndsWithTransaction'
    BY DEF ApiTypeOK, HoldersRun, ContextEndsWithTransaction, Tenant
<1> QED BY <1>1, <1>2, <1>3, <1>4, <1>5

\* A request that gives back what it holds.
LEMMA OneRequestReleases ==
    ASSUME ApiInv, NEW c \in Calls, NEW r,
           r \in [step : Steps, req : Requests \cup {NoRequest}, payload : Payloads, answered : Nat],
           RequestOk(r),
           call' = [call EXCEPT ![c] = r],
           conn' = [k \in Conns |-> IF k \in Held(c) THEN Returned(k) ELSE conn[k]],
           UNCHANGED <<offered, now, written, entry>>
    PROVE  ApiInv'
<1> USE ApiAssumption DEF ApiInv
<1>1. ApiTypeOK'
    BY DEF ApiTypeOK, Returned
<1>2. EntriesAreOwn'
    BY DEF EntriesAreOwn
<1>3. RequestsAreOwn'
    BY DEF ApiTypeOK, RequestsAreOwn, RequestOk, InScope, PrincipalOf, Principal, Path, Tenant
<1>4. ASSUME NEW k \in Conns
      PROVE  /\ conn'[k] = conn[k] \/ (conn'[k].holder = NoCall /\ conn'[k].tenant = NoTenant)
             /\ conn'[k].holder # c
    <2>1. conn'[k] = IF k \in Held(c) THEN Returned(k) ELSE conn[k]
        OBVIOUS
    <2>2. c # NoCall
        BY DEF ApiAssumption
    <2> QED BY <2>1, <2>2 DEF Held, Returned
<1>5. HoldersRun'
    BY <1>4 DEF ApiTypeOK, HoldersRun
<1>6. ContextEndsWithTransaction'
    BY <1>4 DEF ApiTypeOK, HoldersRun, ContextEndsWithTransaction, Tenant
<1> QED BY <1>1, <1>2, <1>3, <1>5, <1>6

CallRecords == [step : Steps, req : Requests \cup {NoRequest}, payload : Payloads, answered : Nat]

LEMMA ApiInvIsKept == ApiInv /\ [Next]_apiVars => ApiInv'
<1> SUFFICES ASSUME ApiInv, [Next]_apiVars PROVE ApiInv'
    OBVIOUS
<1> USE ApiAssumption
<1>a. \A c \in Calls : /\ call[c] \in CallRecords
                       /\ RequestOk(call[c])
    BY DEF ApiInv, ApiTypeOK, RequestsAreOwn, CallRecords
<1>b. now \in Nat /\ call = [c \in Calls |-> call[c]]
    BY DEF ApiInv, ApiTypeOK
<1>1. ASSUME NEW c \in Calls, NEW req \in offered.requests, Receive(c, req) PROVE ApiInv'
    <2>1. req \in Requests
        BY DEF ApiInv, ApiTypeOK
    <2>2. CASE UNCHANGED call
        BY <1>1, <2>2 DEF Receive, ApiInv, ApiTypeOK, EntriesAreOwn, RequestsAreOwn, RequestOk, InScope,
           PrincipalOf, Principal, Path, Tenant, HoldersRun, ContextEndsWithTransaction, redis
    <2>3. ASSUME NEW s \in {"log", "limit", "acquire"}, s # "log" => InScope(req),
                 call' = [call EXCEPT ![c] = [Idle EXCEPT !.req = req, !.step = s]]
          PROVE  ApiInv'
        <3> DEFINE r == [Idle EXCEPT !.req = req, !.step = s]
        <3>1. r \in CallRecords /\ r.req = req /\ r.step = s /\ r.payload = NoPayload
            BY <2>1, <2>3, IdleType DEF CallRecords, Steps, Idle
        <3>2. RequestOk(r)
            BY <2>1, <2>3, <3>1, PayloadTypes DEF RequestOk
        <3>3. call[c].step \notin {"query", "release"}
            BY <1>1 DEF Receive
        <3> HIDE DEF r
        <3> QED BY <1>1, <2>3, <3>1, <3>2, <3>3, OneRequestMoves DEF Receive, redis, CallRecords, r
    <2>4. CASE call' = [call EXCEPT ![c] = [Idle EXCEPT !.req = req, !.step = "log"]]
        BY <2>3, <2>4
    <2>5. CASE /\ Authenticated(Request[req].cred, now) = 200 /\ InScope(req)
               /\ call' = [call EXCEPT ![c] = [Idle EXCEPT !.req = req,
                            !.step = IF Path(req) \in Limited THEN "limit" ELSE "acquire"]]
        BY <2>3, <2>5
    <2>6. Authenticated(Request[req].cred, now) \in {200, 401, 500}
        BY <2>1 DEF Authenticated, CredentialKinds
    <2> QED BY <1>1, <2>2, <2>4, <2>5, <2>6 DEF Receive
<1>2. ASSUME NEW c \in Calls, NEW s \in Steps, Goto(c, s), call[c].step \notin {"idle", "log"},
             s \in {"query", "release"} \/ call[c].step \notin {"query", "release"},
             s \in {"get", "set"} => Path(call[c].req) \in CachedPaths,
             UNCHANGED <<offered, now, written, entry, conn>>
      PROVE  ApiInv'
    <2> DEFINE r == [call[c] EXCEPT !.step = s]
    <2>1. r \in CallRecords /\ r.req = call[c].req /\ r.step = s /\ r.payload = call[c].payload
        BY <1>a DEF CallRecords
    <2>2. RequestOk(r)
        BY <1>2, <1>a, <2>1 DEF RequestOk
    <2>3. call' = [call EXCEPT ![c] = r]
        BY <1>2 DEF Goto
    <2> HIDE DEF r
    <2> QED BY <1>2, <2>1, <2>2, <2>3, OneRequestMoves DEF CallRecords
<1>3. ASSUME NEW c \in Calls, Incr(c) \/ IncrUnanswered(c) PROVE ApiInv'
    <2>1. PICK t \in {"expire", "log", AfterLimit(call[c].req)} : Goto(c, t)
        BY <1>3 DEF Incr, IncrUnanswered
    <2>2. t \in Steps /\ (t \in {"get", "set"} => Path(call[c].req) \in CachedPaths)
        BY DEF AfterLimit, Steps
    <2> QED BY <1>2, <1>3, <2>1, <2>2 DEF Incr, IncrUnanswered
<1>4. ASSUME NEW c \in Calls, Expire(c) PROVE ApiInv'
    BY <1>2, <1>4 DEF Expire, AfterLimit, Steps
<1>5. ASSUME NEW c \in Calls, NEW p \in Payloads, Answer(c, p),
             p.tenants \subseteq {Tenant(call[c].req)}, InScope(call[c].req),
             call[c].step \notin {"idle", "query", "release"},
             UNCHANGED <<offered, now, written, entry, conn>>
      PROVE  ApiInv'
    <2> DEFINE r == [call[c] EXCEPT !.step = "log", !.payload = p, !.answered = now]
    <2>1. r \in CallRecords /\ r.req = call[c].req /\ r.step = "log" /\ r.payload = p
        BY <1>a, <1>b DEF CallRecords, Steps
    <2>2. RequestOk(r)
        BY <1>5, <1>a, <2>1 DEF RequestOk
    <2>3. call' = [call EXCEPT ![c] = r]
        BY <1>5 DEF Answer
    <2> HIDE DEF r
    <2> QED BY <1>5, <2>1, <2>2, <2>3, OneRequestMoves DEF CallRecords
<1>6. ASSUME NEW c \in Calls, GetJson(c) PROVE ApiInv'
    <2> DEFINE key == CacheKey(call[c].req)
    <2>1. call[c].req \in Requests /\ InScope(call[c].req) /\ Path(call[c].req) \in CachedPaths
        BY <1>6, <1>a DEF GetJson, RequestOk
    <2>2. key \in CacheKeys /\ key[2] = Tenant(call[c].req)
        BY <2>1 DEF CacheKey, CacheKeys, Tenant
    <2>3. entry[key].payload \in Payloads /\ entry[key].payload.tenants \subseteq {Tenant(call[c].req)}
        BY <2>2 DEF ApiInv, ApiTypeOK, EntriesAreOwn
    <2>4. CASE Answer(c, entry[key].payload)
        BY <1>5, <1>6, <2>1, <2>3, <2>4 DEF GetJson, redis
    <2>5. CASE Goto(c, "acquire")
        BY <1>2, <1>6, <2>5 DEF GetJson, redis, Steps
    <2> QED BY <1>6, <2>4, <2>5 DEF GetJson
<1>7. ASSUME NEW c \in Calls, Acquire(c) PROVE ApiInv'
    <2>1. PICK k \in Free :
              conn' = [conn EXCEPT ![k].holder = c,
                                   ![k].tenant = IF Path(call[c].req) \in Catalogue THEN @
                                                 ELSE Tenant(call[c].req)]
        BY <1>7 DEF Acquire
    <2> DEFINE r == [call[c] EXCEPT !.step = "query"]
    <2>2. r \in CallRecords /\ r.req = call[c].req /\ r.step = "query" /\ r.payload = call[c].payload
        BY <1>a DEF CallRecords, Steps
    <2>3. call' = [call EXCEPT ![c] = r]
        BY <1>7 DEF Acquire, Goto
    <2>4. call[c].step = "acquire" /\ call[c].req \in Requests /\ RequestOk(r)
        BY <1>7, <1>a, <2>2 DEF Acquire, RequestOk
    <2> HIDE DEF r
    <2> USE <1>7 DEF Acquire, ApiInv, redis
    <2>5. k \in Conns /\ conn[k].holder = NoCall /\ conn[k].tenant = NoTenant
        BY <2>1 DEF Free, ContextEndsWithTransaction
    <2>6. /\ conn' \in [Conns -> [holder : Calls \cup {NoCall}, tenant : Tenants \cup {NoTenant}]]
          /\ conn'[k].holder = c /\ conn'[k].tenant \in {NoTenant, Tenant(call[c].req)}
          /\ \A x \in Conns \ {k} : conn'[x] = conn[x]
        BY <2>1, <2>4, <2>5 DEF ApiTypeOK, Tenant
    <2>7. call' \in [Calls -> CallRecords] /\ call'[c] = r /\ \A d \in Calls \ {c} : call'[d] = call[d]
        BY <2>2, <2>3, <1>a, <1>b
    <2>8. ApiTypeOK'
        BY <2>6, <2>7 DEF ApiTypeOK, CallRecords
    <2>9. EntriesAreOwn'
        BY DEF EntriesAreOwn
    <2>10. RequestsAreOwn'
        BY <2>4, <2>7 DEF RequestsAreOwn, RequestOk, InScope, PrincipalOf, Principal, Path, Tenant
    <2>11. \A x \in Conns \ {k} : conn[x].holder # c
        BY <2>4 DEF HoldersRun
    <2>12. HoldersRun'
        BY <2>2, <2>6, <2>7, <2>11 DEF ApiTypeOK, HoldersRun
    <2>13. ContextEndsWithTransaction'
        <3>1. ASSUME NEW x \in Conns \ {k}
              PROVE  /\ conn'[x] = conn[x]
                     /\ conn[x].holder # NoCall => call'[conn[x].holder] = call[conn[x].holder]
            BY <2>6, <2>7, <2>11 DEF ApiTypeOK
        <3>2. ASSUME NEW x \in Conns
              PROVE  /\ conn'[x].holder = NoCall => conn'[x].tenant = NoTenant
                     /\ conn'[x].holder # NoCall =>
                           conn'[x].tenant \in {NoTenant, Tenant(call'[conn'[x].holder].req)}
            <4>1. CASE x = k
                BY <2>2, <2>6, <2>7, <4>1 DEF ApiAssumption
            <4>2. CASE x # k
                BY <3>1, <4>2 DEF ContextEndsWithTransaction
            <4> QED BY <4>1, <4>2
        <3> QED BY <3>2 DEF ContextEndsWithTransaction, Tenant
    <2> QED BY <2>8, <2>9, <2>10, <2>12, <2>13
<1>8. ASSUME NEW c \in Calls, Fetch(c) PROVE ApiInv'
    <2>1. PICK k \in Held(c) : call' = [call EXCEPT ![c].step = "release",
                ![c].payload = [tenants |-> RowsSeen(k, call[c].req), at |-> now,
                    size |-> IF RowsSeen(k, call[c].req) = {} THEN 0
                             ELSE Len(written[Tenant(call[c].req)])]]
        BY <1>8 DEF Fetch
    <2> DEFINE p == [tenants |-> RowsSeen(k, call[c].req), at |-> now,
                     size |-> IF RowsSeen(k, call[c].req) = {} THEN 0
                              ELSE Len(written[Tenant(call[c].req)])]
               r == [call[c] EXCEPT !.step = "release", !.payload = p]
    <2>2. call[c].req \in Requests /\ InScope(call[c].req) /\ call[c].step = "query"
        BY <1>8, <1>a DEF Fetch, RequestOk
    <2>3. RowsSeen(k, call[c].req) \subseteq Tenants \cap {Tenant(call[c].req)}
        BY DEF RowsSeen, Visible
    <2>4. p \in Payloads /\ p.tenants \subseteq {Tenant(call[c].req)}
        <3>1. Len(written[Tenant(call[c].req)]) \in Nat
            BY <2>2 DEF ApiInv, ApiTypeOK, Tenant
        <3> QED BY <1>b, <2>3, <3>1 DEF Payloads
    <2> HIDE DEF p
    <2>5. r \in CallRecords /\ r.req = call[c].req /\ r.step = "release" /\ r.payload = p
        BY <1>a, <2>4 DEF CallRecords, Steps
    <2>6. RequestOk(r)
        BY <2>2, <2>4, <2>5 DEF RequestOk
    <2>7. call' = [call EXCEPT ![c] = r]
        BY <2>1 DEF p
    <2> HIDE DEF r
    <2> QED BY <1>8, <2>2, <2>5, <2>6, <2>7, OneRequestMoves DEF Fetch, CallRecords, redis
<1>9. ASSUME NEW c \in Calls, Release(c) PROVE ApiInv'
    <2>1. call[c].req \in Requests /\ InScope(call[c].req) /\ call[c].step = "release"
        BY <1>9, <1>a DEF Release, RequestOk
    <2>2. ASSUME NEW s \in {"set", "runs"}, Goto(c, s), s = "set" => Path(call[c].req) \in CachedPaths
          PROVE  ApiInv'
        <3> DEFINE r == [call[c] EXCEPT !.step = s]
        <3>1. r \in CallRecords /\ r.req = call[c].req /\ r.step = s /\ r.payload = call[c].payload
            BY <1>a DEF CallRecords, Steps
        <3>2. RequestOk(r)
            BY <1>a, <2>1, <2>2, <3>1 DEF RequestOk
        <3>3. call' = [call EXCEPT ![c] = r]
            BY <2>2 DEF Goto
        <3> HIDE DEF r
        <3> QED BY <1>9, <3>1, <3>2, <3>3, OneRequestReleases DEF Release, GivenBack, CallRecords, redis
    <2>3. CASE Answer(c, call[c].payload)
        <3> DEFINE r == [call[c] EXCEPT !.step = "log", !.payload = call[c].payload, !.answered = now]
        <3>1. r \in CallRecords /\ r.req = call[c].req /\ r.step = "log" /\ r.payload = call[c].payload
            BY <1>a, <1>b DEF CallRecords, Steps
        <3>2. RequestOk(r)
            BY <1>a, <2>1, <3>1 DEF RequestOk
        <3>3. call' = [call EXCEPT ![c] = r]
            BY <2>3 DEF Answer
        <3> HIDE DEF r
        <3> QED BY <1>9, <3>1, <3>2, <3>3, OneRequestReleases DEF Release, GivenBack, CallRecords, redis
    <2> QED BY <1>9, <2>2, <2>3 DEF Release
<1>10. ASSUME NEW c \in Calls, FetchFails(c) PROVE ApiInv'
    <2>1. Idle \in CallRecords /\ RequestOk(Idle)
        BY IdleType DEF CallRecords, RequestOk
    <2> QED BY <1>10, <2>1, OneRequestReleases DEF FetchFails, Finish, CallRecords, redis
<1>11. ASSUME NEW c \in Calls, FetchRuns(c) PROVE ApiInv'
    <2> DEFINE r == [call[c] EXCEPT !.step = "log", !.payload = call[c].payload, !.answered = now]
    <2>1. r \in CallRecords /\ r.req = call[c].req /\ r.step = "log" /\ r.payload = call[c].payload
        BY <1>a, <1>b DEF CallRecords, Steps
    <2>2. RequestOk(r)
        BY <1>11, <1>a, <2>1 DEF FetchRuns, RequestOk
    <2>3. call' = [call EXCEPT ![c] = r]
        BY <1>11 DEF FetchRuns, Answer
    <2> HIDE DEF r
    <2> QED BY <1>11, <2>1, <2>2, <2>3, OneRequestReleases DEF FetchRuns, CallRecords, redis
<1>12. ASSUME NEW c \in Calls, SetJson(c) PROVE ApiInv'
    <2> DEFINE key == CacheKey(call[c].req)
               p == call[c].payload
               r == [call[c] EXCEPT !.step = "log", !.payload = p, !.answered = now]
    <2>1. /\ call[c].step = "set" /\ call[c].req \in Requests /\ InScope(call[c].req)
          /\ Path(call[c].req) \in CachedPaths
          /\ p \in Payloads /\ p.tenants \subseteq {Tenant(call[c].req)}
        BY <1>12, <1>a DEF SetJson, RequestOk, CallRecords
    <2>2. key \in CacheKeys /\ key[2] = Tenant(call[c].req)
        BY <2>1 DEF CacheKey, CacheKeys, Tenant
    <2>3. r \in CallRecords /\ r.req = call[c].req /\ r.step = "log" /\ r.payload = p
        BY <1>a, <1>b DEF CallRecords, Steps
    <2>4. RequestOk(r)
        BY <2>1, <2>3 DEF RequestOk
    <2>5. call' = [call EXCEPT ![c] = r]
        BY <1>12 DEF SetJson, Answer
    <2>6. CacheEntry(p) \in [payload : Payloads, expires : Nat] /\ CacheEntry(p).payload = p
        BY <1>b, <2>1 DEF CacheEntry
    <2>7. entry' \in {entry, [entry EXCEPT ![key] = CacheEntry(p)]}
        BY <1>12 DEF SetJson
    <2> HIDE DEF r, key, p
    <2> USE <1>12 DEF SetJson, ApiInv
    <2>8. call' \in [Calls -> CallRecords] /\ call'[c] = r /\ \A d \in Calls \ {c} : call'[d] = call[d]
        BY <2>3, <2>5, <1>a, <1>b
    <2>9. ApiTypeOK'
        BY <2>2, <2>6, <2>7, <2>8 DEF ApiTypeOK, CallRecords
    <2>10. EntriesAreOwn'
        BY <2>1, <2>2, <2>6, <2>7 DEF ApiTypeOK, EntriesAreOwn
    <2>11. RequestsAreOwn'
        BY <2>4, <2>8 DEF RequestsAreOwn, RequestOk, InScope, PrincipalOf, Principal, Path, Tenant
    <2>12. \A k \in Conns : conn[k].holder # c
        BY <2>1 DEF HoldersRun
    <2>13. HoldersRun' /\ ContextEndsWithTransaction'
        BY <2>8, <2>12 DEF ApiTypeOK, HoldersRun, ContextEndsWithTransaction, Tenant
    <2> QED BY <2>9, <2>10, <2>11, <2>13
<1>13. ASSUME NEW c \in Calls, LogUsage(c) PROVE ApiInv'
    <2>1. Idle \in CallRecords /\ RequestOk(Idle)
        BY IdleType DEF CallRecords, RequestOk
    <2> QED BY <1>13, <2>1, OneRequestMoves DEF LogUsage, Finish, CallRecords, redis
<1>14. ASSUME NEW t, WorkerWrites(t) PROVE ApiInv'
    <2>1. written' \in [Tenants -> Seq(Nat)]
        <3>1. written' = [written EXCEPT ![t] = Append(written[t], now)]
            BY <1>14 DEF WorkerWrites
        <3>2. t \in Tenants => Append(written[t], now) \in Seq(Nat)
            BY <1>b DEF ApiInv, ApiTypeOK
        <3> QED BY <3>1, <3>2 DEF ApiInv, ApiTypeOK
    <2> QED
        BY <1>14, <2>1 DEF WorkerWrites, redis, ApiInv, ApiTypeOK, EntriesAreOwn, RequestsAreOwn, RequestOk,
           InScope, PrincipalOf, Principal, Path, Tenant, HoldersRun, ContextEndsWithTransaction
<1>15. CASE Tick
    <2>1. ASSUME NEW key \in CacheKeys PROVE entry'[key] \in {entry[key], NoEntry}
        BY <1>15 DEF Tick
    <2>2. NoEntry \in [payload : Payloads, expires : Nat] /\ NoEntry.payload.tenants = {}
        BY PayloadTypes DEF NoEntry
    <2>3. ApiTypeOK'
        BY <1>15, <1>b, <2>1, <2>2 DEF Tick, ApiInv, ApiTypeOK
    <2>4. EntriesAreOwn'
        BY <2>1, <2>2 DEF ApiInv, EntriesAreOwn
    <2> QED
        BY <1>15, <2>3, <2>4 DEF Tick, ApiInv, RequestsAreOwn, RequestOk, InScope, PrincipalOf, Principal,
           Path, Tenant, HoldersRun, ContextEndsWithTransaction
<1>16. CASE Crash
    <2>1. Idle \in CallRecords /\ Idle.step = "idle"
        BY IdleType DEF CallRecords
    <2>2. ApiTypeOK'
        BY <1>16, <2>1 DEF Crash, ApiInv, ApiTypeOK, redis, CallRecords
    <2>3. RequestsAreOwn' /\ HoldersRun' /\ ContextEndsWithTransaction'
        BY <1>16, <2>1 DEF Crash, RequestsAreOwn, RequestOk, HoldersRun, ContextEndsWithTransaction
    <2> QED BY <1>16, <2>2, <2>3 DEF Crash, redis, ApiInv, EntriesAreOwn
<1>17. ASSUME UNCHANGED lookedAt PROVE ApiInv'
    BY <1>17 DEF lookedAt, ApiInv, ApiTypeOK, EntriesAreOwn, RequestsAreOwn, RequestOk, InScope,
       PrincipalOf, Principal, Path, Tenant, HoldersRun, ContextEndsWithTransaction
<1>18. CASE RedisFails \/ RedisReturns \/ UNCHANGED apiVars
    BY <1>17, <1>18 DEF RedisFails, RedisReturns, apiVars, redis, lookedAt
<1> QED
    BY <1>1, <1>3, <1>4, <1>6, <1>7, <1>8, <1>9, <1>10, <1>11, <1>12, <1>13, <1>14, <1>15, <1>16, <1>18
    DEF Next, Handle

LEMMA ApiInvAlways == Spec => []ApiInv
BY ApiInvInitially, ApiInvIsKept, PTL DEF Spec

-------------------------------------------------------------------------------

\* For any clients, tenants, pool and cache life, with Redis and the service
\* failing at any point: a response holds rows of the tenant asked for only,
\* and only if the caller may access it.
THEOREM ResponsesAreOwn == Spec => []OwnDataOnly
<1>1. ApiInv => OwnDataOnly
    <2> SUFFICES ASSUME ApiInv, NEW c \in Answered, NEW t \in call[c].payload.tenants
                 PROVE  /\ call[c].payload.tenants \subseteq {Tenant(call[c].req)}
                        /\ CanAccess(PrincipalOf(call[c].req), t)
        <3>1. ASSUME NEW c \in Answered, call[c].payload.tenants = {}
              PROVE  call[c].payload.tenants \subseteq {Tenant(call[c].req)}
            BY <3>1
        <3> QED BY <3>1 DEF OwnDataOnly
    <2>1. call[c].payload.tenants \subseteq {Tenant(call[c].req)} /\ InScope(call[c].req)
        BY DEF ApiInv, RequestsAreOwn, RequestOk, Answered
    <2> QED BY <2>1 DEF InScope, CanAccess
<1> QED BY ApiInvAlways, <1>1, PTL

\* However requests, failures and crashes follow each other on a connection,
\* its tenant setting never outlives the transaction that made it.
THEOREM PoolForgetsTenants == Spec => []ContextEndsWithTransaction
<1>1. ApiInv => ContextEndsWithTransaction
    BY DEF ApiInv
<1> QED BY ApiInvAlways, <1>1, PTL

-------------------------------------------------------------------------------
(* How old an answer from the cache may be.  The invariant follows a       *)
(* payload from its snapshot over the cache to the answer.                 *)

\* A request that is past Acquire reads with the tenant it asks for.
HoldersAreScoped ==
    \A k \in Conns :
        conn[k].holder # NoCall /\ Path(call[conn[k].holder].req) \notin Catalogue =>
            conn[k].tenant = Tenant(call[conn[k].holder].req)

\* A payload shows the writes older than its snapshot, of a tenant's writes
\* ws at time t.
Shows(p, ws, t) ==
    /\ p.at <= t /\ p.size <= Len(ws)
    /\ \A i \in 1..Len(ws) : i > p.size => p.at <= ws[i]

\* An entry is alive, and was set at most Flight ticks after its snapshot.
EntryIsYoung(e, ws, t) ==
    /\ Shows(e.payload, ws, t)
    /\ e # NoEntry => t < e.expires /\ e.expires <= e.payload.at + Flight + CacheTTL

Unloaded == {"limit", "expire", "get", "acquire", "query"}

\* What a request for a metric has loaded.
LoadIsYoung(r, ws, t) ==
    /\ Shows(r.payload, ws, t)
    /\ r.step # "runs"
    /\ r.step \in Unloaded => r.payload = NoPayload
    /\ r.step \in {"release", "set"} => t <= r.payload.at + Flight
    /\ r.step = "log" /\ r.payload # NoPayload => r.answered < r.payload.at + Flight + CacheTTL

WritesArePast == \A t \in Tenants : \A i \in 1..Len(written[t]) : written[t][i] <= now

EntriesAreYoung == \A key \in CacheKeys : EntryIsYoung(entry[key], written[key[2]], now)

IsLoad(r) == r.step # "idle" /\ Path(r.req) \in CachedPaths

LoadsAreYoung ==
    \A c \in Calls : IsLoad(call[c]) => LoadIsYoung(call[c], written[Tenant(call[c].req)], now)

FreshInv == HoldersAreScoped /\ WritesArePast /\ EntriesAreYoung /\ LoadsAreYoung

-------------------------------------------------------------------------------
LEMMA ScopeIsKept == ApiInv /\ HoldersAreScoped /\ [Next]_apiVars => HoldersAreScoped'
<1> SUFFICES ASSUME ApiInv, HoldersAreScoped, [Next]_apiVars PROVE HoldersAreScoped'
    OBVIOUS
<1> USE ApiAssumption
<1>a. /\ conn \in [Conns -> [holder : Calls \cup {NoCall}, tenant : Tenants \cup {NoTenant}]]
      /\ call \in [Calls -> CallRecords]
    BY DEF ApiInv, ApiTypeOK, CallRecords
\* A step that gives no connection to a request.
<1>b. ASSUME \A k \in Conns :
                \/ conn'[k].holder = NoCall
                \/ conn'[k] = conn[k] /\ (conn[k].holder # NoCall =>
                                             call'[conn[k].holder].req = call[conn[k].holder].req)
      PROVE  HoldersAreScoped'
    BY <1>b DEF HoldersAreScoped, Path, Tenant
\* A request that holds no connection, and one that stays the same request.
<1>c. ASSUME NEW c \in Calls, NEW r, call' = [call EXCEPT ![c] = r], UNCHANGED conn,
             r.req = call[c].req \/ call[c].step \notin {"query", "release"}
      PROVE  HoldersAreScoped'
    <2>1. ASSUME NEW k \in Conns, conn[k].holder # NoCall
          PROVE  call'[conn[k].holder].req = call[conn[k].holder].req
        <3>1. conn[k].holder \in Calls /\ call[conn[k].holder].step \in {"query", "release"}
            BY <1>a, <2>1 DEF ApiInv, HoldersRun
        <3> QED BY <1>a, <1>c, <3>1
    <2> QED BY <1>b, <1>c, <2>1
<1>d. ASSUME NEW c \in Calls, NEW r, call' = [call EXCEPT ![c] = r],
             conn' = [k \in Conns |-> IF k \in Held(c) THEN Returned(k) ELSE conn[k]]
      PROVE  HoldersAreScoped'
    <2>1. ASSUME NEW k \in Conns
          PROVE  \/ conn'[k].holder = NoCall
                 \/ conn'[k] = conn[k] /\ call'[conn[k].holder].req = call[conn[k].holder].req
        <3>1. CASE k \in Held(c)
            BY <1>d, <3>1 DEF Returned
        <3>2. CASE k \notin Held(c)
            <4>1. conn'[k] = conn[k] /\ conn[k].holder # c
                BY <1>d, <3>2 DEF Held
            <4>2. CASE conn[k].holder = NoCall
                BY <4>1, <4>2
            <4>3. CASE conn[k].holder # NoCall
                BY <1>a, <1>d, <4>1, <4>3
            <4> QED BY <4>2, <4>3
        <3> QED BY <3>1, <3>2
    <2> QED BY <1>b, <2>1
<1>1. ASSUME NEW c \in Calls, NEW req, Receive(c, req) PROVE HoldersAreScoped'
    <2>1. PICK r : call' = [call EXCEPT ![c] = r]
        <3>1. UNCHANGED call => call' = [call EXCEPT ![c] = call[c]]
            BY <1>a
        <3> QED BY <1>1, <3>1 DEF Receive
    <2> QED BY <1>1, <1>c, <2>1 DEF Receive
<1>2. ASSUME NEW c \in Calls, NEW s, Goto(c, s), UNCHANGED conn PROVE HoldersAreScoped'
    <2>1. call' = [call EXCEPT ![c] = [call[c] EXCEPT !.step = s]]
        BY <1>2 DEF Goto
    <2>2. [call[c] EXCEPT !.step = s].req = call[c].req
        BY <1>a DEF CallRecords
    <2> QED BY <1>2, <1>c, <2>1, <2>2
<1>3. ASSUME NEW c \in Calls, NEW p, Answer(c, p), UNCHANGED conn PROVE HoldersAreScoped'
    <2> DEFINE r == [call[c] EXCEPT !.step = "log", !.payload = p, !.answered = now]
    <2>1. call' = [call EXCEPT ![c] = r]
        BY <1>3 DEF Answer
    <2>2. r.req = call[c].req
        BY <1>a DEF CallRecords
    <2> QED BY <1>3, <1>c, <2>1, <2>2
<1>4. ASSUME NEW c \in Calls, Incr(c) \/ IncrUnanswered(c) \/ Expire(c) \/ GetJson(c) \/ SetJson(c)
      PROVE  HoldersAreScoped'
    BY <1>2, <1>3, <1>4 DEF Incr, IncrUnanswered, Expire, GetJson, SetJson
<1>5. ASSUME NEW c \in Calls, Acquire(c) PROVE HoldersAreScoped'
    <2>1. PICK k \in Free :
              conn' = [conn EXCEPT ![k].holder = c,
                                   ![k].tenant = IF Path(call[c].req) \in Catalogue THEN @
                                                 ELSE Tenant(call[c].req)]
        BY <1>5 DEF Acquire
    <2>2. /\ call[c].step = "acquire" /\ call'[c].req = call[c].req
          /\ \A d \in Calls \ {c} : call'[d] = call[d]
        BY <1>5, <1>a DEF Acquire, Goto, CallRecords
    <2>3. /\ conn'[k].holder = c
          /\ Path(call[c].req) \notin Catalogue => conn'[k].tenant = Tenant(call[c].req)
          /\ \A x \in Conns \ {k} : conn'[x] = conn[x]
        BY <1>a, <2>1 DEF Free
    <2>4. ASSUME NEW x \in Conns, conn'[x].holder # NoCall, Path(call'[conn'[x].holder].req) \notin Catalogue
          PROVE  conn'[x].tenant = Tenant(call'[conn'[x].holder].req)
        <3>1. CASE x = k
            BY <2>2, <2>3, <2>4, <3>1
        <3>2. CASE x # k
            <4>1. conn'[x] = conn[x] /\ conn[x].holder \in Calls
                BY <1>a, <2>3, <2>4, <3>2
            <4>2. call'[conn[x].holder].req = call[conn[x].holder].req
                BY <2>2, <4>1
            <4> QED BY <2>4, <4>1, <4>2 DEF HoldersAreScoped
        <3> QED BY <3>1, <3>2
    <2> QED BY <2>4 DEF HoldersAreScoped, Path, Tenant
<1>6. ASSUME NEW c \in Calls, Fetch(c) PROVE HoldersAreScoped'
    <2>1. PICK p : call' = [call EXCEPT ![c] = [call[c] EXCEPT !.step = "release", !.payload = p]]
        BY <1>6 DEF Fetch
    <2>2. [call[c] EXCEPT !.step = "release", !.payload = p].req = call[c].req
        BY <1>a DEF CallRecords
    <2> QED BY <1>6, <1>c, <2>1, <2>2 DEF Fetch
<1>7. ASSUME NEW c \in Calls, Release(c) \/ FetchFails(c) \/ FetchRuns(c) PROVE HoldersAreScoped'
    <2>1. \E r : call' = [call EXCEPT ![c] = r]
        BY <1>7 DEF Release, FetchFails, FetchRuns, Goto, Answer, Finish
    <2>2. conn' = [k \in Conns |-> IF k \in Held(c) THEN Returned(k) ELSE conn[k]]
        BY <1>7 DEF Release, FetchFails, FetchRuns, GivenBack
    <2> QED BY <1>d, <2>1, <2>2
<1>8. ASSUME NEW c \in Calls, LogUsage(c) PROVE HoldersAreScoped'
    BY <1>8, <1>c DEF LogUsage, Finish
<1>9. ASSUME UNCHANGED <<call, conn>> PROVE HoldersAreScoped'
    BY <1>9, <1>b
<1>10. CASE Crash
    BY <1>10, <1>b DEF Crash
<1> QED
    BY <1>1, <1>4, <1>5, <1>6, <1>7, <1>8, <1>9, <1>10
    DEF Next, Handle, WorkerWrites, Tick, RedisFails, RedisReturns, apiVars
-------------------------------------------------------------------------------
\* Loads and entries keep their age when rows are written and time passes.
LEMMA NothingIsShown == ASSUME NEW ws \in Seq(Nat), NEW t \in Nat PROVE Shows(NoPayload, ws, t)
BY DEF Shows, NoPayload

LEMMA ShowsMore ==
    ASSUME NEW p \in Payloads, NEW ws \in Seq(Nat), NEW t \in Nat, Shows(p, ws, t)
    PROVE  Shows(p, Append(ws, t), t)
BY DEF Shows, Payloads

LEMMA ShowsLater ==
    ASSUME NEW p \in Payloads, NEW ws \in Seq(Nat), NEW t \in Nat, Shows(p, ws, t)
    PROVE  Shows(p, ws, t + 1)
BY DEF Shows, Payloads

LEMMA FreshInitially == Init => FreshInv
<1> SUFFICES ASSUME Init PROVE FreshInv
    OBVIOUS
<1>1. HoldersAreScoped /\ WritesArePast
    BY DEF Init, HoldersAreScoped, WritesArePast
<1>2. EntriesAreYoung
    <2> SUFFICES ASSUME NEW key \in CacheKeys PROVE EntryIsYoung(entry[key], written[key[2]], now)
        BY DEF EntriesAreYoung
    <2>1. entry[key] = NoEntry /\ written[key[2]] = <<>> /\ now = 0
        BY DEF Init, CacheKeys
    <2>2. Shows(NoPayload, <<>>, 0)
        BY DEF Shows, NoPayload
    <2>3. NoEntry.payload = NoPayload
        BY DEF NoEntry
    <2> QED BY <2>1, <2>2, <2>3 DEF EntryIsYoung
<1>3. LoadsAreYoung
    BY IdleType DEF Init, LoadsAreYoung, IsLoad
<1> QED BY <1>1, <1>2, <1>3 DEF FreshInv

\* A step that moves one request and leaves the clock, the tables and the
\* entries alone.
LEMMA OneLoadMoves ==
    ASSUME ApiInv, FreshInv, HoldersAreScoped', NEW c \in Calls, NEW r,
           call' = [call EXCEPT ![c] = r],
           IsLoad(r) => LoadIsYoung(r, written[Tenant(r.req)], now),
           UNCHANGED <<now, written, entry>>
    PROVE  FreshInv'
<1>1. WritesArePast' /\ EntriesAreYoung'
    BY DEF FreshInv, WritesArePast, EntriesAreYoung
<1>2. ASSUME NEW d \in Calls, IsLoad(call'[d])
      PROVE  LoadIsYoung(call'[d], written[Tenant(call'[d].req)], now)
    BY <1>2 DEF ApiInv, ApiTypeOK, FreshInv, LoadsAreYoung
<1>3. LoadsAreYoung'
    BY <1>2 DEF LoadsAreYoung, IsLoad, Path, Tenant
<1> QED BY <1>1, <1>3 DEF FreshInv

LEMMA FreshIsKept == ApiInv /\ FreshInv /\ [Next]_apiVars => FreshInv'
<1> SUFFICES ASSUME ApiInv, FreshInv, [Next]_apiVars PROVE FreshInv'
    OBVIOUS
<1> USE ApiAssumption
<1>a. /\ call = [c \in Calls |-> call[c]] /\ \A c \in Calls : call[c] \in CallRecords
      /\ now \in Nat /\ written \in [Tenants -> Seq(Nat)]
      /\ entry \in [CacheKeys -> [payload : Payloads, expires : Nat]]
    BY DEF ApiInv, ApiTypeOK, CallRecords
<1>b. HoldersAreScoped'
    BY ScopeIsKept DEF FreshInv
<1>c. ASSUME NEW c \in Calls, call[c].step # "idle"
      PROVE  /\ call[c].req \in Requests /\ written[Tenant(call[c].req)] \in Seq(Nat)
             /\ IsLoad(call[c]) => LoadIsYoung(call[c], written[Tenant(call[c].req)], now)
             /\ call[c].step \in {"get", "set"} => IsLoad(call[c])
    <2>1. RequestOk(call[c])
        BY DEF ApiInv, RequestsAreOwn
    <2> QED BY <1>a, <1>c, <2>1 DEF RequestOk, Tenant, FreshInv, LoadsAreYoung, IsLoad
<1>d. ASSUME NEW key \in CacheKeys
      PROVE  /\ entry[key].payload \in Payloads /\ written[key[2]] \in Seq(Nat)
             /\ EntryIsYoung(entry[key], written[key[2]], now)
    BY <1>a DEF FreshInv, EntriesAreYoung, CacheKeys
<1>1. ASSUME NEW c \in Calls, NEW req \in offered.requests, Receive(c, req) PROVE FreshInv'
    <2>1. req \in Requests
        BY DEF ApiInv, ApiTypeOK
    <2>2. ASSUME NEW s, call' = [call EXCEPT ![c] = [Idle EXCEPT !.req = req, !.step = s]],
                 s \notin {"release", "set", "runs"}
          PROVE  FreshInv'
        <3> DEFINE r == [Idle EXCEPT !.req = req, !.step = s]
        <3>1. r.step = s /\ r.req = req /\ r.payload = NoPayload
            BY DEF Idle
        <3>2. written[Tenant(req)] \in Seq(Nat)
            BY <1>a, <2>1 DEF Tenant
        <3>3. LoadIsYoung(r, written[Tenant(r.req)], now)
            BY <1>a, <2>2, <3>1, <3>2, NothingIsShown DEF LoadIsYoung
        <3> HIDE DEF r
        <3> QED BY <1>1, <1>b, <2>2, <3>3, OneLoadMoves DEF Receive, redis, r
    <2>3. CASE UNCHANGED call
        <3>1. call' = [call EXCEPT ![c] = call[c]]
            BY <1>a, <2>3
        <3>2. IsLoad(call[c]) => LoadIsYoung(call[c], written[Tenant(call[c].req)], now)
            BY DEF FreshInv, LoadsAreYoung
        <3> QED BY <1>1, <1>b, <3>1, <3>2, OneLoadMoves DEF Receive, redis
    <2>4. CASE call' = [call EXCEPT ![c] = [Idle EXCEPT !.req = req, !.step = "log"]]
        <3>1. "log" \notin {"release", "set", "runs"}
            OBVIOUS
        <3> QED BY ONLY <2>2, <2>4, <3>1
    <2>5. CASE call' = [call EXCEPT ![c] = [Idle EXCEPT !.req = req,
                            !.step = IF Path(req) \in Limited THEN "limit" ELSE "acquire"]]
        <3>1. (IF Path(req) \in Limited THEN "limit" ELSE "acquire") \notin {"release", "set", "runs"}
            OBVIOUS
        <3> QED BY ONLY <2>2, <2>5, <3>1
    <2>6. Authenticated(Request[req].cred, now) \in {200, 401, 500}
        BY <2>1 DEF Authenticated, CredentialKinds
    <2> QED BY <1>1, <2>3, <2>4, <2>5, <2>6 DEF Receive
\* Steps that carry the load on, and those that have none yet.
<1>2. ASSUME NEW c \in Calls, NEW s, Goto(c, s), UNCHANGED <<now, written, entry>>,
             call[c].step # "idle",
             \/ call[c].step \in Unloaded /\ s \notin {"release", "set", "runs"}
             \/ call[c].step = "release" /\ s = "set"
             \/ Path(call[c].req) \notin CachedPaths
      PROVE  FreshInv'
    <2> DEFINE r == [call[c] EXCEPT !.step = s]
    <2>1. r.step = s /\ r.req = call[c].req /\ r.payload = call[c].payload /\ r.answered = call[c].answered
        BY <1>a DEF CallRecords
    <2>2. IsLoad(r) => LoadIsYoung(r, written[Tenant(r.req)], now)
        BY <1>2, <1>c, <2>1 DEF IsLoad, LoadIsYoung, Unloaded
    <2>3. call' = [call EXCEPT ![c] = r]
        BY <1>2 DEF Goto
    <2> HIDE DEF r
    <2> QED BY <1>2, <1>b, <2>2, <2>3, OneLoadMoves
<1>3. ASSUME NEW c \in Calls, Incr(c) \/ IncrUnanswered(c) \/ Expire(c) PROVE FreshInv'
    <2>1. PICK s \in {"expire", "log", "get", "acquire"} : Goto(c, s)
        BY <1>3 DEF Incr, IncrUnanswered, Expire, AfterLimit
    <2>2. call[c].step \in {"limit", "expire"} /\ UNCHANGED <<now, written, entry>>
        BY <1>3 DEF Incr, IncrUnanswered, Expire
    <2> QED BY <1>2, <2>1, <2>2 DEF Unloaded
<1>4. ASSUME NEW c \in Calls, NEW p \in Payloads, Answer(c, p), UNCHANGED <<now, written, entry>>,
             call[c].step # "idle",
             IsLoad(call[c]) => /\ Shows(p, written[Tenant(call[c].req)], now)
                                /\ now < p.at + Flight + CacheTTL
      PROVE  FreshInv'
    <2> DEFINE r == [call[c] EXCEPT !.step = "log", !.payload = p, !.answered = now]
    <2>1. r.step = "log" /\ r.req = call[c].req /\ r.payload = p /\ r.answered = now
        BY <1>a DEF CallRecords
    <2>2. IsLoad(r) => LoadIsYoung(r, written[Tenant(r.req)], now)
        BY <1>4, <2>1 DEF IsLoad, LoadIsYoung, Unloaded
    <2>3. call' = [call EXCEPT ![c] = r]
        BY <1>4 DEF Answer
    <2> HIDE DEF r
    <2> QED BY <1>4, <1>b, <2>2, <2>3, OneLoadMoves
<1>5. ASSUME NEW c \in Calls, GetJson(c) PROVE FreshInv'
    <2> DEFINE key == CacheKey(call[c].req)
    <2>1. call[c].step = "get" /\ IsLoad(call[c]) /\ UNCHANGED <<now, written, entry>>
        BY <1>5, <1>c DEF GetJson, redis
    <2>2. key \in CacheKeys /\ key[2] = Tenant(call[c].req)
        BY <1>c, <2>1 DEF CacheKey, CacheKeys, Tenant, IsLoad
    <2>3. CASE Answer(c, entry[key].payload) /\ entry[key] # NoEntry
        <3>1. EntryIsYoung(entry[key], written[Tenant(call[c].req)], now) /\ entry[key].payload \in Payloads
            BY <1>d, <2>2
        <3>2. now < entry[key].payload.at + Flight + CacheTTL
            <4>1. entry[key].expires \in Nat /\ entry[key].payload.at \in Nat
                BY <1>a, <2>2 DEF Payloads
            <4> QED BY <1>a, <2>3, <3>1, <4>1 DEF EntryIsYoung
        <3> QED BY <1>4, <2>1, <2>3, <3>1, <3>2 DEF EntryIsYoung
    <2>4. CASE Goto(c, "acquire")
        BY <1>2, <2>1, <2>4 DEF Unloaded
    <2> QED BY <1>5, <2>3, <2>4 DEF GetJson
<1>6. ASSUME NEW c \in Calls, Acquire(c) PROVE FreshInv'
    BY <1>2, <1>6 DEF Acquire, redis, Unloaded
<1>7. ASSUME NEW c \in Calls, Fetch(c) PROVE FreshInv'
    <2> DEFINE req == call[c].req
               ws == written[Tenant(req)]
    <2>1. PICK k \in Held(c) : call' = [call EXCEPT ![c].step = "release",
                ![c].payload = [tenants |-> RowsSeen(k, req), at |-> now,
                    size |-> IF RowsSeen(k, req) = {} THEN 0 ELSE Len(ws)]]
        BY <1>7 DEF Fetch
    <2> DEFINE p == [tenants |-> RowsSeen(k, req), at |-> now,
                     size |-> IF RowsSeen(k, req) = {} THEN 0 ELSE Len(ws)]
               r == [call[c] EXCEPT !.step = "release", !.payload = p]
    <2>2. call[c].step = "query" /\ req \in Requests /\ ws \in Seq(Nat)
        BY <1>7, <1>c DEF Fetch
    <2>3. r.step = "release" /\ r.req = req /\ r.payload = p
        BY <1>a DEF CallRecords
    <2>4. Path(req) \in CachedPaths => RowsSeen(k, req) # {}
        <3>1. Path(req) \in CachedPaths => Path(req) \notin Catalogue
            BY DEF CachedPaths, Catalogue
        <3>2. k \in Conns /\ conn[k].holder = c /\ c # NoCall
            BY DEF Held, ApiAssumption
        <3>3. Path(req) \notin Catalogue => conn[k].tenant = Tenant(req)
            BY <3>2 DEF FreshInv, HoldersAreScoped
        <3>4. Tenant(req) \in Tenants
            BY <2>2 DEF Tenant
        <3> QED BY <3>1, <3>3, <3>4 DEF RowsSeen, Visible
    <2>5. IsLoad(r) => LoadIsYoung(r, written[Tenant(r.req)], now)
        <3>1. Path(req) \in CachedPaths => Shows(p, ws, now)
            BY <1>a, <2>2, <2>4 DEF Shows
        <3> QED BY <1>a, <2>3, <3>1 DEF IsLoad, LoadIsYoung, Unloaded
    <2>6. call' = [call EXCEPT ![c] = r]
        BY <2>1
    <2> HIDE DEF r
    <2> QED BY <1>7, <1>b, <2>5, <2>6, OneLoadMoves DEF Fetch, redis
<1>8. ASSUME NEW c \in Calls, Release(c) PROVE FreshInv'
    <2>1. call[c].step = "release" /\ UNCHANGED <<now, written, entry>>
        BY <1>8 DEF Release, redis
    <2>2. CASE Path(call[c].req) \in CachedPaths
        <3>1. Path(call[c].req) # "status"
            BY <2>2 DEF CachedPaths
        <3>2. Goto(c, "set")
            BY <1>8, <2>2, <3>1 DEF Release
        <3> QED BY <1>2, <2>1, <3>2
    <2>3. CASE Path(call[c].req) \notin CachedPaths
        <3>1. Goto(c, "runs") \/ Answer(c, call[c].payload)
            BY <1>8, <2>3 DEF Release
        <3>2. call[c].payload \in Payloads /\ ~IsLoad(call[c])
            BY <1>a, <2>3 DEF CallRecords, IsLoad
        <3> QED BY <1>2, <1>4, <2>1, <2>3, <3>1, <3>2
    <2> QED BY <2>2, <2>3
<1>9. ASSUME NEW c \in Calls, FetchRuns(c) PROVE FreshInv'
    <2>1. call[c].step = "runs" /\ Answer(c, call[c].payload) /\ UNCHANGED <<now, written, entry>>
        BY <1>9 DEF FetchRuns, redis
    <2>2. ~IsLoad(call[c]) /\ call[c].payload \in Payloads
        BY <1>a, <1>c, <2>1 DEF LoadIsYoung, CallRecords
    <2> QED BY <1>4, <2>1, <2>2
<1>10. ASSUME NEW c \in Calls, SetJson(c) PROVE FreshInv'
    <2> DEFINE key == CacheKey(call[c].req)
               p == call[c].payload
               ws == written[Tenant(call[c].req)]
               r == [call[c] EXCEPT !.step = "log", !.payload = p, !.answered = now]
    <2>1. /\ call[c].step = "set" /\ IsLoad(call[c]) /\ UNCHANGED <<now, written>>
          /\ call' = [call EXCEPT ![c] = r] /\ entry' \in {entry, [entry EXCEPT ![key] = CacheEntry(p)]}
        BY <1>10, <1>c DEF SetJson, Answer
    <2>2. key \in CacheKeys /\ key[2] = Tenant(call[c].req)
        BY <1>c, <2>1 DEF CacheKey, CacheKeys, Tenant, IsLoad
    <2>3. p \in Payloads /\ Shows(p, ws, now) /\ now <= p.at + Flight
        BY <1>a, <1>c, <2>1 DEF LoadIsYoung, CallRecords
    <2>4. now + CacheTTL <= p.at + Flight + CacheTTL /\ now < p.at + Flight + CacheTTL /\ now < now + CacheTTL
        <3>1. p.at \in Nat /\ CacheTTL \in Nat \ {0} /\ Flight \in Nat
            BY <2>3 DEF Payloads, ApiAssumption
        <3> HIDE DEF p
        <3> QED BY <1>a, <2>3, <3>1
    <2>5. r.step = "log" /\ r.req = call[c].req /\ r.payload = p /\ r.answered = now
        BY <1>a DEF CallRecords
    <2>6. IsLoad(r) => LoadIsYoung(r, written[Tenant(r.req)], now)
        BY <2>3, <2>4, <2>5 DEF LoadIsYoung, Unloaded
    <2> HIDE DEF r
    <2>7. EntryIsYoung(CacheEntry(p), ws, now)
        BY <2>3, <2>4 DEF EntryIsYoung, CacheEntry
    <2>8. ASSUME NEW x \in CacheKeys PROVE EntryIsYoung(entry'[x], written[x[2]], now)
        BY <1>a, <1>d, <2>1, <2>2, <2>7
    <2>9. ASSUME NEW d \in Calls, IsLoad(call'[d])
          PROVE  LoadIsYoung(call'[d], written[Tenant(call'[d].req)], now)
        <3>1. CASE d = c
            BY <1>a, <2>1, <2>6, <2>9, <3>1
        <3>2. CASE d # c
            BY <1>a, <2>1, <2>9, <3>2 DEF FreshInv, LoadsAreYoung
        <3> QED BY <3>1, <3>2
    <2>10. WritesArePast' /\ EntriesAreYoung'
        BY <2>1, <2>8 DEF FreshInv, WritesArePast, EntriesAreYoung
    <2>11. LoadsAreYoung'
        BY <2>1, <2>9 DEF LoadsAreYoung, IsLoad, Path, Tenant
    <2> QED BY <1>b, <2>10, <2>11 DEF FreshInv
<1>11. ASSUME NEW c \in Calls, LogUsage(c) \/ FetchFails(c) PROVE FreshInv'
    <2>1. ~IsLoad(Idle)
        BY IdleType DEF IsLoad
    <2> QED BY <1>11, <1>b, <2>1, OneLoadMoves DEF LogUsage, FetchFails, Finish, redis
\* Steps that leave the requests and entries and only add to the tables, or
\* only to the clock.
<1>12. ASSUME NEW t \in Tenants, WorkerWrites(t) PROVE FreshInv'
    <2>1. /\ \A u \in Tenants : written'[u] = IF u = t THEN Append(written[u], now) ELSE written[u]
          /\ UNCHANGED <<now, entry, call>>
        BY <1>12, <1>a DEF WorkerWrites, redis
    <2>2. ASSUME NEW u \in Tenants, NEW p \in Payloads, Shows(p, written[u], now)
          PROVE  Shows(p, written'[u], now)
        <3>1. written[u] \in Seq(Nat)
            BY <1>a
        <3> QED BY <1>a, <2>1, <2>2, <3>1, ShowsMore
    <2>3. WritesArePast'
        <3> SUFFICES ASSUME NEW u \in Tenants, NEW i \in 1..Len(written'[u]) PROVE written'[u][i] <= now
            BY <2>1 DEF WritesArePast
        <3>1. written[u] \in Seq(Nat) /\ \A j \in 1..Len(written[u]) : written[u][j] <= now
            BY <1>a DEF FreshInv, WritesArePast
        <3>2. CASE u # t
            BY <2>1, <3>1, <3>2
        <3>3. CASE u = t
            <4>1. written'[u] = Append(written[u], now)
                BY <2>1, <3>3
            <4>2. Len(written'[u]) = Len(written[u]) + 1
                BY <3>1, <4>1
            <4>3. CASE i = Len(written[u]) + 1
                BY <1>a, <3>1, <4>1, <4>3
            <4>4. CASE i # Len(written[u]) + 1
                <5>1. i \in 1..Len(written[u]) /\ written'[u][i] = written[u][i]
                    BY <3>1, <4>1, <4>2, <4>4
                <5> QED BY <3>1, <5>1
            <4> QED BY <4>3, <4>4
        <3> QED BY <3>2, <3>3
    <2>4. EntriesAreYoung'
        <3> SUFFICES ASSUME NEW key \in CacheKeys PROVE EntryIsYoung(entry[key], written'[key[2]], now)
            BY <2>1 DEF EntriesAreYoung
        <3>1. key[2] \in Tenants
            BY DEF CacheKeys
        <3> QED BY <1>d, <2>2, <3>1 DEF EntryIsYoung
    <2>5. ASSUME NEW c \in Calls, IsLoad(call[c])
          PROVE  LoadIsYoung(call[c], written'[Tenant(call[c].req)], now)
        <3>1. call[c].payload \in Payloads /\ Tenant(call[c].req) \in Tenants
            BY <1>a, <1>c, <2>5 DEF CallRecords, IsLoad, Tenant
        <3> QED BY <1>c, <2>2, <2>5, <3>1 DEF LoadIsYoung, IsLoad
    <2>6. LoadsAreYoung'
        BY <2>1, <2>5 DEF LoadsAreYoung, IsLoad, Path, Tenant
    <2> QED BY <1>b, <2>3, <2>4, <2>6 DEF FreshInv
<1>13. CASE Tick
    <2>1. now' = now + 1 /\ UNCHANGED <<written, call>>
        BY <1>13 DEF Tick
    <2>2. WritesArePast'
        <3> SUFFICES ASSUME NEW u \in Tenants, NEW i \in 1..Len(written[u]) PROVE written[u][i] <= now + 1
            BY <2>1 DEF WritesArePast
        <3>1. written[u] \in Seq(Nat) /\ written[u][i] <= now
            BY <1>a DEF FreshInv, WritesArePast
        <3> QED BY <1>a, <3>1
    <2>3. EntriesAreYoung'
        <3> SUFFICES ASSUME NEW key \in CacheKeys PROVE EntryIsYoung(entry'[key], written[key[2]], now + 1)
            BY <2>1 DEF EntriesAreYoung
        <3>1. entry'[key] = IF entry[key].expires <= now + 1 THEN NoEntry ELSE entry[key]
            BY <1>13 DEF Tick
        <3>2. CASE entry[key].expires <= now + 1
            BY <1>a, <1>d, <3>1, <3>2, NothingIsShown DEF EntryIsYoung, NoEntry
        <3>3. CASE ~(entry[key].expires <= now + 1)
            <4>1. entry[key].expires \in Nat
                BY <1>a
            <4>2. Shows(entry[key].payload, written[key[2]], now + 1)
                BY <1>a, <1>d, ShowsLater DEF EntryIsYoung
            <4> QED BY <1>a, <1>d, <3>1, <3>3, <4>1, <4>2 DEF EntryIsYoung
        <3> QED BY <3>2, <3>3
    <2>4. ASSUME NEW c \in Calls, IsLoad(call[c])
          PROVE  LoadIsYoung(call[c], written[Tenant(call[c].req)], now + 1)
        <3>1. /\ call[c].payload \in Payloads /\ written[Tenant(call[c].req)] \in Seq(Nat)
              /\ LoadIsYoung(call[c], written[Tenant(call[c].req)], now)
            BY <1>a, <1>c, <2>4 DEF CallRecords, IsLoad
        <3>2. Shows(call[c].payload, written[Tenant(call[c].req)], now + 1)
            BY <1>a, <3>1, ShowsLater DEF LoadIsYoung
        <3>3. call[c].step \in {"release", "set"} => now + 1 <= call[c].payload.at + Flight
            <4>1. call[c].step \in {"release", "set"} => now - call[c].payload.at < Flight
                BY <1>13 DEF Tick, TimeoutsHold
            <4>2. call[c].payload.at \in Nat /\ Flight \in Nat
                BY <3>1 DEF Payloads, ApiAssumption
            <4> QED BY <1>a, <4>1, <4>2
        <3> QED BY <3>1, <3>2, <3>3 DEF LoadIsYoung
    <2>5. LoadsAreYoung'
        BY <2>1, <2>4 DEF LoadsAreYoung, IsLoad, Path, Tenant
    <2> QED BY <1>b, <2>2, <2>3, <2>5 DEF FreshInv
<1>14. CASE Crash
    <2>1. \A c \in Calls : ~IsLoad(call'[c])
        BY <1>14, IdleType DEF Crash, IsLoad
    <2>2. LoadsAreYoung'
        BY <2>1 DEF LoadsAreYoung, IsLoad, Path
    <2> QED BY <1>14, <1>b, <2>2 DEF Crash, redis, FreshInv, WritesArePast, EntriesAreYoung
<1>15. ASSUME UNCHANGED <<now, written, entry, call>> PROVE FreshInv'
    BY <1>15, <1>b DEF FreshInv, WritesArePast, EntriesAreYoung, LoadsAreYoung, IsLoad, Path, Tenant
<1>16. ASSUME NEW t \in {Tenant(r) : r \in offered.requests} PROVE t \in Tenants
    BY DEF ApiInv, ApiTypeOK, Tenant
<1> QED
    BY <1>1, <1>3, <1>5, <1>6, <1>7, <1>8, <1>9, <1>10, <1>11, <1>12, <1>13, <1>14, <1>15, <1>16
    DEF Next, Handle, RedisFails, RedisReturns, apiVars, redis
-------------------------------------------------------------------------------

\* For any clients, tenants, cache life and time of flight: a metric shows
\* every write that is older than the two together, although a slow loader
\* may put an older payload over a newer one.
THEOREM MetricsAreFresh == Spec => []FreshEnough
<1>1. ApiInv /\ FreshInv => FreshEnough
    <2> SUFFICES ASSUME ApiInv, FreshInv, NEW c \in Answered, Path(call[c].req) \in CachedPaths,
                        call[c].payload # NoPayload
                 PROVE  LET times == written[Tenant(call[c].req)]
                            old == {i \in 1..Len(times) :
                                       times[i] + CacheTTL + Flight <= call[c].answered}
                        IN  Cardinality(old) <= call[c].payload.size
        BY DEF FreshEnough
    <2> DEFINE p == call[c].payload
               times == written[Tenant(call[c].req)]
               old == {i \in 1..Len(times) : times[i] + CacheTTL + Flight <= call[c].answered}
    <2>1. /\ c \in Calls /\ IsLoad(call[c]) /\ call[c].step = "log"
          /\ call[c].req \in Requests
        BY DEF Answered, IsLoad, ApiInv, RequestsAreOwn, RequestOk
    <2>2. times \in Seq(Nat) /\ p.at \in Nat /\ p.size \in Nat /\ call[c].answered \in Nat
        BY <2>1, ApiAssumption DEF ApiInv, ApiTypeOK, Payloads, ApiAssumption, Tenant
    <2>3. Shows(p, times, now) /\ call[c].answered < p.at + Flight + CacheTTL
        BY <2>1 DEF FreshInv, LoadsAreYoung, LoadIsYoung
    <2>4. old \subseteq 1..p.size
        <3> SUFFICES ASSUME NEW i \in 1..Len(times), times[i] + CacheTTL + Flight <= call[c].answered,
                            ~(i <= p.size)
                     PROVE  FALSE
            BY <2>2
        <3> HIDE DEF p, times
        <3>1. p.at <= times[i] /\ times[i] \in Nat
            BY <2>2, <2>3 DEF Shows
        <3>2. Flight \in Nat /\ CacheTTL \in Nat
            BY ApiAssumption DEF ApiAssumption
        <3> QED BY ONLY <2>2, <2>3, <3>1, <3>2, times[i] + CacheTTL + Flight <= call[c].answered
    <2>5. IsFiniteSet(1..p.size) /\ Cardinality(1..p.size) = p.size
        <3> DEFINE n == p.size
        <3>1. n \in Nat /\ n \in Int /\ 1 \in Int
            BY <2>2
        <3> HIDE DEF n
        <3>2. IsFiniteSet(1..n) /\ Cardinality(1..n) = IF 1 > n THEN 0 ELSE n - 1 + 1
            BY <3>1, FS_Interval
        <3>3. (IF 1 > n THEN 0 ELSE n - 1 + 1) = n
            BY <3>1
        <3> QED BY <3>2, <3>3 DEF n
    <2> HIDE DEF p, old
    <2>6. Cardinality(old) <= p.size
        BY <2>4, <2>5, FS_Subset
    <2> QED BY <2>6 DEF old, p
<1>2. Spec => [](ApiInv /\ FreshInv)
    BY ApiInvInitially, ApiInvIsKept, FreshInitially, FreshIsKept, PTL DEF Spec
<1> QED BY <1>1, <1>2, PTL

-------------------------------------------------------------------------------
(* The rate limit.  The invariant relates the counter of a caller to the   *)
(* times at which its requests got through.                                *)

\* Of one caller and path at time t, ps in order: m got through in the
\* present window, and whoever got through Limit places before those did so
\* in a window before it.
Spaced(m, ps, t) ==
    /\ m <= Len(ps)
    /\ \A i \in 1..Len(ps) : ps[i] <= t
    /\ \A i, j \in 1..Len(ps) : i <= j => ps[i] <= ps[j]
    /\ \A j \in 1..Len(ps) : j + m + Limit <= Len(ps) =>
          /\ ps[j] + RateTTL <= t
          /\ \A i \in 1..Len(ps) : i > Len(ps) - m => ps[j] + RateTTL <= ps[i]
    /\ \A i, j \in 1..Len(ps) : i + 2 * Limit <= j => ps[i] + RateTTL <= ps[j]

\* m of those the counter counted got through, and it outlives the windows
\* of all who got through before.
WindowIs(m, cnt, ps, t) ==
    /\ m <= cnt.count /\ m <= Limit
    /\ Spaced(m, ps, t)
    /\ \/ cnt.expires = Never
       \/ \A j \in 1..Len(ps) : j + m <= Len(ps) => ps[j] + RateTTL <= cnt.expires

WindowOk(cnt, ps, t) == \E m \in Nat : WindowIs(m, cnt, ps, t)

RateTypeOK ==
    /\ counter \in [RateKeys -> [count : Nat, expires : Nat]]
    /\ passed \in [RateKeys -> Seq(Nat)]

LimitedSteps ==
    \A c \in Calls : call[c].step \in {"limit", "expire"} =>
        call[c].req \in Requests /\ Path(call[c].req) \in Limited

WindowsOk == \A k \in RateKeys : WindowOk(counter[k], passed[k], now)

RateInv == RateTypeOK /\ LimitedSteps /\ now <= offered.ticks /\ WindowsOk

Counters == [count : Nat, expires : Nat]

-------------------------------------------------------------------------------
(* What the steps do to one counter.                                       *)

LEMMA LimitType == Limit \in Nat /\ Limit >= 1 /\ RateTTL \in Nat /\ RateTTL >= 1
BY ApiAssumption DEF ApiAssumption

LEMMA FreshWindow ==
    ASSUME NEW t \in Nat
    PROVE  WindowOk(Absent, <<>>, t)
<1>1. WindowIs(0, Absent, <<>>, t)
    BY LimitType DEF WindowIs, Spaced, Absent
<1> QED BY <1>1 DEF WindowOk

LEMMA WindowLater ==
    ASSUME NEW cnt \in Counters, NEW ps \in Seq(Nat), NEW t \in Nat, WindowOk(cnt, ps, t)
    PROVE  WindowOk(cnt, ps, t + 1)
<1>1. PICK m \in Nat : WindowIs(m, cnt, ps, t)
    BY DEF WindowOk
<1>2. Spaced(m, ps, t + 1)
    <2>1. \A i \in 1..Len(ps) : ps[i] \in Nat
        OBVIOUS
    <2>2. \A i \in 1..Len(ps) : ps[i] <= t + 1
        BY <1>1, <2>1 DEF WindowIs, Spaced
    <2>3. \A j \in 1..Len(ps) : j + m + Limit <= Len(ps) => ps[j] + RateTTL <= t + 1
        BY <1>1, <2>1, LimitType DEF WindowIs, Spaced
    <2> QED BY <1>1, <2>2, <2>3 DEF WindowIs, Spaced
<1>3. WindowIs(m, cnt, ps, t + 1)
    BY <1>1, <1>2 DEF WindowIs
<1> QED BY <1>3 DEF WindowOk

\* EXPIRE moves the end of the window forward.
LEMMA WindowEnds ==
    ASSUME NEW cnt \in Counters, NEW ps \in Seq(Nat), NEW t \in Nat, WindowOk(cnt, ps, t)
    PROVE  WindowOk([cnt EXCEPT !.expires = t + RateTTL], ps, t)
<1> DEFINE new == [cnt EXCEPT !.expires = t + RateTTL]
<1>1. new.count = cnt.count /\ new.expires = t + RateTTL
    BY DEF Counters
<1> HIDE DEF new
<1>2. PICK m \in Nat : WindowIs(m, cnt, ps, t)
    BY DEF WindowOk
<1>3. \A j \in 1..Len(ps) : ps[j] \in Nat /\ ps[j] <= t
    BY <1>2 DEF WindowIs, Spaced
<1>4. \A j \in 1..Len(ps) : ps[j] + RateTTL <= t + RateTTL
    BY <1>3, LimitType
<1>5. WindowIs(m, new, ps, t)
    BY <1>1, <1>2, <1>4 DEF WindowIs
<1> QED BY <1>5 DEF WindowOk, new

\* A request that is counted only: it is over the limit, or its answer is lost.
LEMMA WindowCounts ==
    ASSUME NEW cnt \in Counters, NEW ps \in Seq(Nat), NEW t \in Nat, WindowOk(cnt, ps, t)
    PROVE  WindowOk([cnt EXCEPT !.count = cnt.count + 1], ps, t)
<1> DEFINE new == [cnt EXCEPT !.count = cnt.count + 1]
<1>1. new.count = cnt.count + 1 /\ new.expires = cnt.expires /\ cnt.count \in Nat
    BY DEF Counters
<1> HIDE DEF new
<1>2. PICK m \in Nat : WindowIs(m, cnt, ps, t)
    BY DEF WindowOk
<1>3. m <= new.count
    BY <1>1, <1>2 DEF WindowIs
<1>4. WindowIs(m, new, ps, t)
    BY <1>1, <1>2, <1>3 DEF WindowIs
<1> QED BY <1>4 DEF WindowOk, new

\* A request within the limit.
LEMMA WindowPasses ==
    ASSUME NEW cnt \in Counters, NEW ps \in Seq(Nat), NEW t \in Nat, WindowOk(cnt, ps, t),
           cnt.count < Limit
    PROVE  WindowOk([cnt EXCEPT !.count = cnt.count + 1], Append(ps, t), t)
<1> DEFINE new == [cnt EXCEPT !.count = cnt.count + 1]
           qs == Append(ps, t)
           n == Len(ps)
<1>a. PICK m \in Nat : WindowIs(m, cnt, ps, t)
    BY DEF WindowOk
<1>1. /\ new.count = cnt.count + 1 /\ new.expires = cnt.expires /\ cnt.count \in Nat
      /\ m <= cnt.count /\ m < Limit /\ n \in Nat /\ m <= n
    BY <1>a, LimitType DEF Counters, WindowIs, Spaced
<1>2. /\ Len(qs) = n + 1 /\ qs[n + 1] = t /\ qs \in Seq(Nat)
      /\ \A i \in 1..n : qs[i] = ps[i] /\ ps[i] \in Nat /\ ps[i] <= t
    BY <1>a DEF WindowIs, Spaced
<1> HIDE DEF new, qs, n
<1>3. ASSUME NEW i \in 1..(n + 1) PROVE qs[i] <= t
    <2>1. CASE i = n + 1
        BY <1>2, <2>1
    <2>2. CASE i # n + 1
        <3>1. i \in 1..n
            BY <1>1, <2>2
        <3> QED BY <1>2, <3>1
    <2> QED BY <2>1, <2>2
<1>4. \A i, j \in 1..(n + 1) : i <= j => qs[i] <= qs[j]
    <2> SUFFICES ASSUME NEW i \in 1..(n + 1), NEW j \in 1..(n + 1), i <= j PROVE qs[i] <= qs[j]
        OBVIOUS
    <2>1. CASE j = n + 1
        BY <1>2, <1>3, <2>1
    <2>2. CASE j # n + 1
        <3>1. i \in 1..n /\ j \in 1..n
            BY <1>1, <2>2
        <3> QED BY <1>a, <1>2, <3>1 DEF WindowIs, Spaced, n
    <2> QED BY <2>1, <2>2
<1>5. \/ new.expires = Never
      \/ \A j \in 1..(n + 1) : j + (m + 1) <= n + 1 => qs[j] + RateTTL <= new.expires
    <2>1. ASSUME NEW j \in 1..(n + 1), j + (m + 1) <= n + 1, cnt.expires # Never
          PROVE  qs[j] + RateTTL <= cnt.expires
        <3>1. j \in 1..n /\ j + m <= n
            BY <1>1, <2>1
        <3> QED BY <1>a, <1>2, <2>1, <3>1 DEF WindowIs, n
    <2> QED BY <1>1, <2>1
<1>6. ASSUME NEW j \in 1..(n + 1), j + (m + 1) + Limit <= n + 1
      PROVE  /\ qs[j] + RateTTL <= t
             /\ \A i \in 1..(n + 1) : i > n + 1 - (m + 1) => qs[j] + RateTTL <= qs[i]
    <2>1. j \in 1..n /\ j + m + Limit <= n
        BY <1>1, <1>6, LimitType
    <2>2. /\ ps[j] + RateTTL <= t
          /\ \A i \in 1..n : i > n - m => ps[j] + RateTTL <= ps[i]
        BY <1>a, <2>1 DEF WindowIs, Spaced, n
    <2>3. ASSUME NEW i \in 1..(n + 1), i > n + 1 - (m + 1) PROVE qs[j] + RateTTL <= qs[i]
        <3>1. CASE i = n + 1
            BY <1>2, <2>1, <2>2, <3>1
        <3>2. CASE i # n + 1
            <4>1. i \in 1..n /\ i > n - m
                BY <1>1, <2>3, <3>2
            <4> QED BY <1>2, <2>1, <2>2, <4>1
        <3> QED BY <3>1, <3>2
    <2> QED BY <1>2, <2>1, <2>2, <2>3
<1>7. ASSUME NEW i \in 1..(n + 1), NEW j \in 1..(n + 1), i + 2 * Limit <= j
      PROVE  qs[i] + RateTTL <= qs[j]
    <2>1. CASE j = n + 1
        <3>1. i + (m + 1) + Limit <= n + 1
            BY <1>1, <1>7, <2>1, LimitType
        <3> QED BY <1>2, <1>6, <2>1, <3>1
    <2>2. CASE j # n + 1
        <3>1. i \in 1..n /\ j \in 1..n
            BY <1>1, <1>7, <2>2, LimitType
        <3>2. ps[i] + RateTTL <= ps[j]
            BY <1>a, <1>7, <3>1 DEF WindowIs, Spaced, n
        <3> QED BY <1>2, <3>1, <3>2
    <2> QED BY <2>1, <2>2
<1>8. m + 1 <= n + 1
    BY <1>1
<1>9. Spaced(m + 1, qs, t)
    <2>1. ASSUME NEW j \in 1..Len(qs), j + (m + 1) + Limit <= Len(qs)
          PROVE  /\ qs[j] + RateTTL <= t
                 /\ \A i \in 1..Len(qs) : i > Len(qs) - (m + 1) => qs[j] + RateTTL <= qs[i]
        <3>1. j \in 1..(n + 1) /\ j + (m + 1) + Limit <= n + 1
            BY <1>2, <2>1
        <3>2. /\ qs[j] + RateTTL <= t
              /\ \A i \in 1..(n + 1) : i > n + 1 - (m + 1) => qs[j] + RateTTL <= qs[i]
            BY <1>6, <3>1
        <3>3. n + 1 - (m + 1) = Len(qs) - (m + 1)
            BY <1>1, <1>2
        <3> QED BY <1>2, <3>2, <3>3
    <2>2. \A i, j \in 1..Len(qs) : i + 2 * Limit <= j => qs[i] + RateTTL <= qs[j]
        BY <1>2, <1>7
    <2>3. /\ m + 1 <= Len(qs) /\ \A i \in 1..Len(qs) : qs[i] <= t
          /\ \A i, j \in 1..Len(qs) : i <= j => qs[i] <= qs[j]
        BY <1>2, <1>3, <1>4, <1>8
    <2> QED BY <2>1, <2>2, <2>3 DEF Spaced
<1>10. WindowIs(m + 1, new, qs, t)
    BY <1>1, <1>2, <1>5, <1>9, LimitType DEF WindowIs
<1> QED BY <1>10 DEF new, qs, WindowOk

\* Redis drops the counter when its window is over.
LEMMA WindowDrops ==
    ASSUME NEW cnt \in Counters, NEW ps \in Seq(Nat), NEW t \in Nat, WindowOk(cnt, ps, t),
           cnt.expires <= t, cnt.expires # Never
    PROVE  WindowOk(Absent, ps, t)
<1> DEFINE n == Len(ps)
<1>1. PICK m \in Nat : WindowIs(m, cnt, ps, t)
    BY DEF WindowOk
<1>2. m <= Limit /\ n \in Nat
    BY <1>1 DEF WindowIs
<1> HIDE DEF n
<1>3. ASSUME NEW j \in 1..n, j + Limit <= n PROVE ps[j] + RateTTL <= t
    <2>1. j + m <= n
        BY <1>2, <1>3, LimitType
    <2>2. ps[j] + RateTTL <= cnt.expires
        BY <1>1, <2>1 DEF WindowIs, n
    <2>3. ps[j] \in Nat /\ cnt.expires \in Nat
        BY DEF n, Counters
    <2> QED BY <2>2, <2>3, LimitType
<1>4. ASSUME NEW j \in 1..n, j + 0 + Limit <= n
      PROVE  ps[j] + RateTTL <= t /\ \A i \in 1..n : i > n - 0 => ps[j] + RateTTL <= ps[i]
    BY <1>2, <1>3, <1>4, LimitType
<1>5. Spaced(0, ps, t)
    BY <1>1, <1>2, <1>4 DEF WindowIs, Spaced, n
<1>6. WindowIs(0, Absent, ps, t)
    BY <1>5, LimitType DEF WindowIs, Absent
<1> QED BY <1>6 DEF WindowOk
-------------------------------------------------------------------------------
LEMMA RateInitially == Init => RateInv
<1> SUFFICES ASSUME Init PROVE RateInv
    OBVIOUS
<1>1. offered.ticks \in Nat
    BY ApiAssumption DEF Init, ApiAssumption
<1>2. \A k \in RateKeys : counter[k] = Absent /\ passed[k] = <<>> /\ now = 0
    BY DEF Init
<1>3. WindowsOk
    BY <1>2, FreshWindow DEF WindowsOk
<1>4. RateTypeOK
    BY DEF Init, RateTypeOK, Absent, Never
<1>5. LimitedSteps
    BY IdleType DEF Init, LimitedSteps
<1> QED BY <1>1, <1>3, <1>4, <1>5 DEF RateInv, Init

\* Only a first step brings a request to the counter.
LEMMA LimitedStepsAreKept == ApiInv /\ LimitedSteps /\ [Next]_apiVars => LimitedSteps'
<1> SUFFICES ASSUME ApiInv, LimitedSteps, [Next]_apiVars PROVE LimitedSteps'
    OBVIOUS
<1>a. call \in [Calls -> CallRecords]
    BY DEF ApiInv, ApiTypeOK, CallRecords
<1>b. ASSUME NEW c \in Calls, NEW r, call' = [call EXCEPT ![c] = r],
             r.step \in {"limit", "expire"} => r.req \in Requests /\ Path(r.req) \in Limited
      PROVE  LimitedSteps'
    BY <1>a, <1>b DEF LimitedSteps, Path
<1>1. ASSUME NEW c \in Calls, NEW req \in offered.requests, Receive(c, req) PROVE LimitedSteps'
    <2>1. req \in Requests
        BY ApiAssumption DEF ApiInv, ApiTypeOK, ApiAssumption
    <2>2. ASSUME NEW s, call' = [call EXCEPT ![c] = [Idle EXCEPT !.req = req, !.step = s]],
                 s \in {"limit", "expire"} => Path(req) \in Limited
          PROVE  LimitedSteps'
        <3> DEFINE r == [Idle EXCEPT !.req = req, !.step = s]
        <3>1. r.step = s /\ r.req = req
            BY DEF Idle
        <3> HIDE DEF r
        <3> QED BY <1>b, <2>1, <2>2, <3>1 DEF r
    <2>3. CASE UNCHANGED call
        BY <2>3 DEF LimitedSteps, Path
    <2>4. CASE call' = [call EXCEPT ![c] = [Idle EXCEPT !.req = req, !.step = "log"]]
        <3>1. "log" \notin {"limit", "expire"}
            OBVIOUS
        <3> QED BY ONLY <2>2, <2>4, <3>1
    <2>5. CASE call' = [call EXCEPT ![c] = [Idle EXCEPT !.req = req,
                            !.step = IF Path(req) \in Limited THEN "limit" ELSE "acquire"]]
        <3>1. (IF Path(req) \in Limited THEN "limit" ELSE "acquire") \in {"limit", "expire"}
                => Path(req) \in Limited
            OBVIOUS
        <3> QED BY ONLY <2>2, <2>5, <3>1
    <2>6. Authenticated(Request[req].cred, now) \in {200, 401, 500}
        BY <2>1, ApiAssumption DEF Authenticated, CredentialKinds, ApiAssumption
    <2> QED BY <1>1, <2>3, <2>4, <2>5, <2>6 DEF Receive
<1>2. ASSUME NEW c \in Calls, NEW s, Goto(c, s), s = "expire" => call[c].step = "limit", s # "limit"
      PROVE  LimitedSteps'
    <2> DEFINE r == [call[c] EXCEPT !.step = s]
    <2>1. r.step = s /\ r.req = call[c].req
        BY <1>a DEF CallRecords
    <2>2. r.step \in {"limit", "expire"} => r.req \in Requests /\ Path(r.req) \in Limited
        BY <1>2, <2>1 DEF LimitedSteps
    <2> HIDE DEF r
    <2> QED BY <1>2, <1>b, <2>2 DEF Goto, r
<1>3. ASSUME NEW c \in Calls, NEW r, call' = [call EXCEPT ![c] = r], r.step \notin {"limit", "expire"}
      PROVE  LimitedSteps'
    BY <1>3, <1>b
<1>4. ASSUME NEW c \in Calls, NEW p, Answer(c, p) PROVE LimitedSteps'
    <2>1. [call[c] EXCEPT !.step = "log", !.payload = p, !.answered = now].step = "log"
        BY <1>a DEF CallRecords
    <2>2. call' = [call EXCEPT ![c] = [call[c] EXCEPT !.step = "log", !.payload = p, !.answered = now]]
        BY <1>4 DEF Answer
    <2> QED BY <1>3, <2>1, <2>2
<1>5. ASSUME NEW c \in Calls, Incr(c) \/ IncrUnanswered(c) PROVE LimitedSteps'
    <2>1. PICK s \in {"expire", "log", "get", "acquire"} : Goto(c, s)
        BY <1>5 DEF Incr, IncrUnanswered, AfterLimit
    <2> QED BY <1>2, <1>5, <2>1 DEF Incr, IncrUnanswered
<1>6. ASSUME NEW c \in Calls, Expire(c) \/ Acquire(c) PROVE LimitedSteps'
    BY <1>2, <1>6 DEF Expire, Acquire, AfterLimit
<1>7. ASSUME NEW c \in Calls, GetJson(c) \/ SetJson(c) \/ FetchRuns(c) PROVE LimitedSteps'
    BY <1>2, <1>4, <1>7 DEF GetJson, SetJson, FetchRuns
<1>8. ASSUME NEW c \in Calls, Release(c) PROVE LimitedSteps'
    <2>1. Goto(c, "set") \/ Goto(c, "runs") \/ Answer(c, call[c].payload)
        BY <1>8 DEF Release
    <2> QED BY <1>2, <1>4, <2>1
<1>9. ASSUME NEW c \in Calls, Fetch(c) PROVE LimitedSteps'
    <2>1. PICK p : call' = [call EXCEPT ![c] = [call[c] EXCEPT !.step = "release", !.payload = p]]
        BY <1>9 DEF Fetch
    <2>2. [call[c] EXCEPT !.step = "release", !.payload = p].step = "release"
        BY <1>a DEF CallRecords
    <2> QED BY <1>3, <2>1, <2>2
<1>10. ASSUME NEW c \in Calls, LogUsage(c) \/ FetchFails(c) PROVE LimitedSteps'
    BY <1>3, <1>10, IdleType DEF LogUsage, FetchFails, Finish
<1>11. CASE Crash
    BY <1>11, IdleType DEF Crash, LimitedSteps
<1>12. ASSUME UNCHANGED call PROVE LimitedSteps'
    BY <1>12 DEF LimitedSteps, Path
<1> QED
    BY <1>1, <1>5, <1>6, <1>7, <1>8, <1>9, <1>10, <1>11, <1>12
    DEF Next, Handle, WorkerWrites, Tick, RedisFails, RedisReturns, apiVars
LEMMA RateIsKept == ApiInv /\ RateInv /\ [Next]_apiVars => RateInv'
<1> SUFFICES ASSUME ApiInv, RateInv, [Next]_apiVars PROVE RateInv'
    OBVIOUS
<1>a. LimitedSteps'
    BY LimitedStepsAreKept DEF RateInv
<1>b. /\ now \in Nat /\ offered \in Offers /\ offered.ticks \in Nat /\ offered.ticks < Never
      /\ now <= offered.ticks
    BY ApiAssumption DEF ApiInv, ApiTypeOK, ApiAssumption, RateInv
<1>c. /\ counter \in [RateKeys -> Counters] /\ passed \in [RateKeys -> Seq(Nat)]
      /\ \A k \in RateKeys : WindowOk(counter[k], passed[k], now)
    BY DEF RateInv, RateTypeOK, Counters, WindowsOk
\* A step on one counter.
<1>d. ASSUME NEW k \in RateKeys, NEW cnt \in Counters, NEW ps \in Seq(Nat), WindowOk(cnt, ps, now),
             counter' = [counter EXCEPT ![k] = cnt], passed' = [passed EXCEPT ![k] = ps],
             UNCHANGED <<now, offered>>
      PROVE  RateInv'
    <2>1. RateTypeOK'
        BY <1>c, <1>d DEF RateTypeOK, Counters, RateKeys, RateKey, PrincipalOf, Principal, Path
    <2>2. WindowsOk'
        BY <1>c, <1>d DEF WindowsOk, RateKeys, RateKey, PrincipalOf, Principal, Path
    <2> QED BY <1>a, <1>b, <1>d, <2>1, <2>2 DEF RateInv
<1>e. ASSUME UNCHANGED <<now, offered, counter, passed>> PROVE RateInv'
    BY <1>a, <1>e DEF RateInv, RateTypeOK, WindowsOk, RateKeys, RateKey, PrincipalOf, Principal, Path
<1>f. ASSUME NEW c \in Calls, call[c].step \in {"limit", "expire"} PROVE RateKey(call[c].req) \in RateKeys
    BY <1>f DEF RateInv, LimitedSteps, RateKeys
<1>1. ASSUME NEW c \in Calls, Incr(c) \/ IncrUnanswered(c) PROVE RateInv'
    <2> DEFINE k == RateKey(call[c].req)
               old == counter[k]
               new == [old EXCEPT !.count = old.count + 1]
    <2>1. k \in RateKeys
        BY <1>1, <1>f DEF Incr, IncrUnanswered
    <2>2. old \in Counters /\ old.count \in Nat /\ old.expires \in Nat
        BY <1>c, <2>1 DEF Counters
    <2>9. new \in Counters
        BY <2>2 DEF Counters
    <2>3. CASE UNCHANGED <<counter, passed>>
        BY <1>1, <1>e, <2>3 DEF Incr, IncrUnanswered
    <2>4. CASE counter' = [counter EXCEPT ![k] = new] /\ UNCHANGED passed
        <3>1. UNCHANGED <<now, offered>>
            BY <1>1 DEF Incr, IncrUnanswered
        <3>2. passed' = [passed EXCEPT ![k] = passed[k]] /\ passed[k] \in Seq(Nat)
            BY <1>c, <2>1, <2>4
        <3>3. WindowOk(new, passed[k], now)
            BY <1>b, <1>c, <2>1, <2>2, WindowCounts
        <3> HIDE DEF k, new
        <3> QED BY <1>d, <2>1, <2>9, <2>4, <3>1, <3>2, <3>3
    <2>5. CASE /\ counter' = [counter EXCEPT ![k] = new] /\ ~OverLimit(old.count + 1)
               /\ passed' = [passed EXCEPT ![k] = Append(passed[k], now)]
        <3>1. UNCHANGED <<now, offered>>
            BY <1>1 DEF Incr, IncrUnanswered
        <3>2. old.count < Limit
            BY <2>2, <2>5, LimitType DEF OverLimit
        <3>3. WindowOk(new, Append(passed[k], now), now)
            BY <1>b, <1>c, <2>1, <2>2, <3>2, WindowPasses
        <3>4. Append(passed[k], now) \in Seq(Nat)
            BY <1>b, <1>c, <2>1
        <3> HIDE DEF k, new
        <3> QED BY <1>d, <2>1, <2>9, <2>5, <3>1, <3>3, <3>4
    <2>6. CASE Incr(c) /\ redisUp
        <3>1. counter' = [counter EXCEPT ![k] = new]
            BY <2>6 DEF Incr
        <3>2. UNCHANGED passed \/ /\ ~OverLimit(old.count + 1)
                                  /\ passed' = [passed EXCEPT ![k] = Append(passed[k], now)]
            BY <2>6 DEF Incr
        <3> QED BY <2>4, <2>5, <3>1, <3>2
    <2>7. CASE IncrUnanswered(c)
        BY <2>4, <2>7 DEF IncrUnanswered
    <2>8. CASE Incr(c) /\ ~redisUp
        BY <2>3, <2>8 DEF Incr
    <2> QED BY <1>1, <2>6, <2>7, <2>8
<1>2. ASSUME NEW c \in Calls, Expire(c) PROVE RateInv'
    <2> DEFINE k == RateKey(call[c].req)
               old == counter[k]
               new == [old EXCEPT !.expires = now + RateTTL]
    <2>1. k \in RateKeys /\ UNCHANGED <<now, offered, passed>>
        BY <1>2, <1>f DEF Expire
    <2>2. CASE UNCHANGED counter
        BY <1>e, <2>1, <2>2
    <2>3. CASE old.count > 0 /\ counter' = [counter EXCEPT ![k].expires = now + RateTTL]
        <3>0. old \in Counters /\ old.count \in Nat
            BY <1>c, <2>1 DEF Counters
        <3>1. new \in Counters
            BY <1>b, <3>0, LimitType DEF Counters
        <3>2. WindowOk(new, passed[k], now)
            BY <1>b, <1>c, <2>1, <2>3, WindowEnds
        <3>3. counter' = [counter EXCEPT ![k] = new]
            BY <2>3
        <3>4. passed' = [passed EXCEPT ![k] = passed[k]] /\ passed[k] \in Seq(Nat)
            BY <1>c, <2>1
        <3> HIDE DEF k, new
        <3> QED BY <1>d, <2>1, <3>1, <3>2, <3>3, <3>4
    <2> QED BY <1>2, <2>2, <2>3 DEF Expire
<1>3. CASE Tick
    <2>1. /\ now' = now + 1 /\ now + 1 <= offered.ticks /\ UNCHANGED <<offered, passed>>
          /\ counter' = [k \in RateKeys |-> IF counter[k].expires <= now + 1 THEN Absent ELSE counter[k]]
        BY <1>3, <1>b DEF Tick
    <2>2. Absent \in Counters
        BY DEF Absent, Counters, Never
    <2>3. RateTypeOK'
        <3>1. counter' \in [RateKeys -> Counters]
            BY <1>c, <2>1, <2>2
        <3> QED
            BY <1>c, <2>1, <3>1
            DEF RateTypeOK, Counters, RateKeys, RateKey, PrincipalOf, Principal, Path
    <2>4. ASSUME NEW k \in RateKeys PROVE WindowOk(counter'[k], passed[k], now + 1)
        <3>1. WindowOk(counter[k], passed[k], now + 1)
            BY <1>b, <1>c, WindowLater
        <3>2. CASE counter[k].expires <= now + 1
            <4>1. counter[k].expires # Never
                BY <1>b, <1>c, <2>1, <3>2 DEF Counters, Never
            <4>2. WindowOk(Absent, passed[k], now + 1)
                <5>1. now + 1 \in Nat
                    BY <1>b
                <5> QED BY <1>c, <3>1, <3>2, <4>1, <5>1, WindowDrops
            <4> QED BY <2>1, <3>2, <4>2
        <3>3. CASE ~(counter[k].expires <= now + 1)
            BY <2>1, <3>1, <3>3
        <3> QED BY <3>2, <3>3
    <2>5. WindowsOk'
        BY <2>1, <2>4 DEF WindowsOk, RateKeys, RateKey, PrincipalOf, Principal, Path
    <2> QED BY <1>a, <2>1, <2>3, <2>5 DEF RateInv
<1>4. ASSUME NEW c \in Calls, NEW req, Receive(c, req) PROVE RateInv'
    BY <1>4, <1>e DEF Receive, redis
<1>5. ASSUME NEW c \in Calls, GetJson(c) \/ Acquire(c) \/ Fetch(c) \/ Release(c) \/ FetchRuns(c) \/ SetJson(c)
                              \/ LogUsage(c) \/ FetchFails(c)
      PROVE  RateInv'
    BY <1>5, <1>e DEF GetJson, Acquire, Fetch, Release, FetchRuns, SetJson, LogUsage, FetchFails, redis
<1>6. ASSUME NEW t, WorkerWrites(t) PROVE RateInv'
    BY <1>6, <1>e DEF WorkerWrites, redis
<1>7. CASE RedisFails \/ RedisReturns \/ Crash \/ UNCHANGED apiVars
    BY <1>7, <1>e DEF RedisFails, RedisReturns, Crash, apiVars, redis
<1> QED BY <1>1, <1>2, <1>3, <1>4, <1>5, <1>6, <1>7 DEF Next, Handle
-------------------------------------------------------------------------------

\* A set of naturals that is not empty has a least element.
LEMMA LeastElement ==
    ASSUME NEW S \in SUBSET Nat, S # {}
    PROVE  \E x \in S : \A y \in S : x <= y
<1>1. PICK x \in S : \A y \in S : ~(<<y, x>> \in OpToRel(<, Nat))
    BY NatLessThanWellFounded, WFMin
<1>2. \A y \in S : ~(y < x)
    BY <1>1 DEF OpToRel
<1> QED BY <1>2

\* For any limit, life of a counter, callers and outages, with requests
\* between INCR and EXPIRE when the service dies and answers that are lost:
\* no caller gets more than twice the limit through in any interval as long
\* as a window, of the requests whose count came back.
THEOREM LimitIsKept == Spec => []LimitHolds
<1>1. RateInv => LimitHolds
    <2> SUFFICES ASSUME RateInv, NEW k \in RateKeys, NEW from \in 0..now
                 PROVE  Cardinality({i \in 1..Len(passed[k]) :
                                        passed[k][i] \in from .. from + RateTTL - 1}) <= 2 * Limit
        BY DEF LimitHolds
    <2> DEFINE ps == passed[k]
               S == {i \in 1..Len(ps) : ps[i] \in from .. from + RateTTL - 1}
    <2>1. ps \in Seq(Nat) /\ \A i, j \in 1..Len(ps) : i + 2 * Limit <= j => ps[i] + RateTTL <= ps[j]
        BY DEF RateInv, RateTypeOK, WindowsOk, WindowOk, WindowIs, Spaced
    <2> HIDE DEF ps
    <2>2. CASE S = {}
        <3>1. Cardinality(S) = 0
            BY <2>2, FS_EmptySet
        <3>2. 0 <= 2 * Limit
            BY LimitType
        <3> QED BY <3>1, <3>2 DEF ps
    <2>3. CASE S # {}
        <3>1. PICK lo \in S : \A i \in S : lo <= i
            <4>1. S \in SUBSET Nat
                BY <2>1
            <4> QED BY <2>3, <4>1, LeastElement
        <3>2. S \subseteq lo .. lo + 2 * Limit - 1
            <4> SUFFICES ASSUME NEW i \in S, lo + 2 * Limit <= i PROVE FALSE
                BY <2>1, <3>1, LimitType
            <4>1. ps[lo] + RateTTL <= ps[i]
                BY <2>1
            <4>2. ps[lo] \in Nat /\ ps[i] \in Nat /\ from <= ps[lo] /\ ps[i] <= from + RateTTL - 1
                BY <2>1
            <4>3. from \in Int
                OBVIOUS
            <4> QED BY <4>1, <4>2, <4>3, LimitType
        <3>3. /\ IsFiniteSet(lo .. lo + 2 * Limit - 1)
              /\ Cardinality(lo .. lo + 2 * Limit - 1) = 2 * Limit
            <4> DEFINE a == lo
                       b == lo + 2 * Limit - 1
            <4>1. a \in Int /\ b \in Int /\ ~(a > b) /\ b - a + 1 = 2 * Limit
                BY <2>1, LimitType
            <4> HIDE DEF a, b
            <4>2. IsFiniteSet(a..b) /\ Cardinality(a..b) = 2 * Limit
                BY <4>1, FS_Interval
            <4> QED BY <4>2 DEF a, b
        <3> HIDE DEF S
        <3>4. Cardinality(S) <= 2 * Limit
            BY <3>2, <3>3, FS_Subset
        <3> QED BY <3>4 DEF S, ps
    <2> QED BY <2>2, <2>3
<1>2. Spec => [](ApiInv /\ RateInv)
    BY ApiInvInitially, ApiInvIsKept, RateInitially, RateIsKept, PTL DEF Spec
<1> QED BY <1>1, <1>2, PTL

-------------------------------------------------------------------------------
(* Tokens for tokens.                                                      *)

\* What the service knows of each token it accepts: it is one of its own.
BearerTokens == \A token \in tokens : token.kind = "token"

TokenInv == BearerTokens /\ ChainStaysInTenant

\* The check of issue_token covers every role: whoever may issue a token has
\* all the access that the token gives.
LEMMA IssuedWithinAccess ==
    ASSUME NEW p, NEW claims, NEW t,
           claims.role \in AllowedRoles, MayIssue(p, claims), CanAccess(claims, t)
    PROVE  CanAccess(p, t)
<1>1. CASE claims.role = "platform_admin"
    BY <1>1 DEF MayIssue, CanAccess
<1>2. CASE claims.role # "platform_admin"
    <2>1. ~IsPlatformAdmin(claims)
        BY <1>2 DEF IsPlatformAdmin, RoleKey
    <2>2. claims.tenant = t
        BY <2>1 DEF CanAccess
    <2> QED BY <1>2, <2>2 DEF MayIssue
<1> QED BY <1>1, <1>2

LEMMA TokenInvInitially == TokensInit => TokenInv
BY DEF TokensInit, TokenInv, BearerTokens, ChainStaysInTenant, Token

LEMMA TokenInvIsKept == TokenInv /\ [TokensNext]_tokenVars => TokenInv'
<1> SUFFICES ASSUME TokenInv, [TokensNext]_tokenVars PROVE TokenInv'
    OBVIOUS
<1>1. ASSUME NEW cred \in tokens, NEW claims \in TokenRequests, IssueToken(cred, claims)
      PROVE  TokenInv'
    <2> DEFINE new == Token(claims, time + Lifetime, cred.root)
    <2>1. tokens' = tokens \cup {new}
        BY <1>1 DEF IssueToken
    <2>2. BearerTokens'
        BY <2>1 DEF TokenInv, BearerTokens, Token
    <2>3. Principal(cred) = cred.claims
        BY DEF TokenInv, BearerTokens, Principal
    <2>4. ASSUME NEW t \in Places, CanAccess(new.claims, t)
          PROVE  CanAccess(new.root, t)
        <3>1. CanAccess(claims, t)
            BY <2>4 DEF Token
        <3>2. CanAccess(cred.claims, t)
            BY <1>1, <2>3, <3>1, IssuedWithinAccess DEF IssueToken
        <3>3. CanAccess(cred.root, t)
            BY <3>2 DEF TokenInv, ChainStaysInTenant
        <3> QED BY <3>3 DEF Token
    <2>5. ChainStaysInTenant'
        BY <2>1, <2>4 DEF TokenInv, ChainStaysInTenant, CanAccess, IsPlatformAdmin
    <2> QED BY <2>2, <2>5 DEF TokenInv
<1>2. ASSUME UNCHANGED tokens PROVE TokenInv'
    BY <1>2 DEF TokenInv, BearerTokens, ChainStaysInTenant, CanAccess, IsPlatformAdmin
<1> QED
    BY <1>1, <1>2 DEF TokensNext, tokenVars, UpsertTenant, UpsertUser, Elapse

\* For any first tokens, requests and lifetimes: whatever chain of issue_token
\* calls a token comes from, it opens no tenant that its first token did not.
THEOREM ChainsStayInTenant == TokensSpec => []ChainStaysInTenant
<1>1. TokenInv => ChainStaysInTenant
    BY DEF TokenInv
<1> QED
    BY TokenInvInitially, TokenInvIsKept, <1>1, PTL DEF TokensSpec
===============================================================================
