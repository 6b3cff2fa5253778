----------------------------- MODULE SigningKeys ------------------------------
(***************************************************************************)
(* JWKSClient: the identity provider's keys, kept by key id.  get_principal*)
(* runs in FastAPI's thread pool, so several threads use the one client    *)
(* without a lock; the provider changes its keys meanwhile.                *)
(***************************************************************************)
EXTENDS Naturals

CONSTANTS
    Threads, Kids,
    NoKeys,         \* _keys_by_kid is None
    CacheSeconds,   \* cache_ttl_seconds, in ticks
    CallTime,       \* bound: ticks that a call of get_key takes
    MaxClock,       \* bound: ticks
    MaxRotations    \* bound: changes of the provider's keys

ASSUME KeysAssumption ==
    /\ {CacheSeconds, CallTime, MaxClock, MaxRotations} \subseteq Nat
    /\ Kids # {} /\ \A ks \in SUBSET Kids : ks # NoKeys

VARIABLES
    clock,
    published,  \* the provider's keys
    rotations,
    withdrawn,  \* per key id, when the provider last withdrew it
    keys,       \* _keys_by_kid
    fetchedAt,  \* _fetched_at
    thread,     \* the calls of get_key
    trusted     \* the key that a call has just returned

keysVars == <<clock, published, rotations, withdrawn, keys, fetchedAt, thread, trusted>>

Waiting == [step |-> "idle", kid |-> CHOOSE k \in Kids : TRUE, got |-> {}, since |-> 0, lookups |-> 0]

KeysInit ==
    /\ clock = 0
    /\ published \in SUBSET Kids /\ published # {}
    /\ rotations = 0
    /\ withdrawn = [k \in Kids |-> 0]
    /\ keys = NoKeys /\ fetchedAt = 0
    /\ thread = [th \in Threads |-> Waiting]
    /\ trusted = {}

Move(th, step) == thread' = [thread EXCEPT ![th].step = step]
Raise(th) == thread' = [thread EXCEPT ![th] = Waiting]

\* Mutant: a key once found is kept.
OnlyMissing == keys = NoKeys

CacheIsStale == keys = NoKeys \/ clock - fetchedAt > CacheSeconds

\* get_key: the first test.
GetKey(th, k) ==
    /\ thread[th].step = "idle"
    /\ thread' = [thread EXCEPT ![th] =
                    [Waiting EXCEPT !.step = IF CacheIsStale THEN "fetch" ELSE "lookup",
                                    !.kid = k, !.since = clock]]
    /\ UNCHANGED <<clock, published, rotations, withdrawn, keys, fetchedAt, trusted>>

\* _fetch: what the provider answers; an error or an empty set raises.
FetchKeys(th) ==
    /\ thread[th].step = "fetch"
    /\ \/ published # {} /\ thread' = [thread EXCEPT ![th].step = "store", ![th].got = published]
       \/ Raise(th)
    /\ UNCHANGED <<clock, published, rotations, withdrawn, keys, fetchedAt, trusted>>

\* refresh assigns the keys, then the time.
StoreKeys(th) ==
    /\ thread[th].step = "store"
    /\ keys' = thread[th].got
    /\ thread' = [thread EXCEPT ![th].step = "stamp", ![th].got = {}]
    /\ UNCHANGED <<clock, published, rotations, withdrawn, fetchedAt, trusted>>

StampKeys(th) ==
    /\ thread[th].step = "stamp"
    /\ fetchedAt' = clock
    /\ Move(th, "lookup")
    /\ UNCHANGED <<clock, published, rotations, withdrawn, keys, trusted>>

\* The two membership tests; a miss refreshes once.
Lookup(th) ==
    /\ thread[th].step = "lookup"
    /\ IF thread[th].lookups = 0
       THEN thread' = [thread EXCEPT ![th].lookups = 1,
                        ![th].step = IF thread[th].kid \in keys THEN "lookup" ELSE "fetch"]
       ELSE IF thread[th].kid \in keys THEN Move(th, "return") ELSE Raise(th)
    /\ UNCHANGED <<clock, published, rotations, withdrawn, keys, fetchedAt, trusted>>

\* The key is taken from the dictionary as it is now, or a KeyError.
ReturnKey(th) ==
    /\ thread[th].step = "return"
    /\ trusted' = IF thread[th].kid \in keys THEN {thread[th].kid} ELSE {}
    /\ Raise(th)
    /\ UNCHANGED <<clock, published, rotations, withdrawn, keys, fetchedAt>>

\* The provider adds or withdraws a key.
Rotate(k) ==
    /\ rotations < MaxRotations
    /\ rotations' = rotations + 1
    /\ IF k \in published
       THEN published' = published \ {k} /\ withdrawn' = [withdrawn EXCEPT ![k] = clock]
       ELSE published' = published \cup {k} /\ UNCHANGED withdrawn
    /\ UNCHANGED <<clock, keys, fetchedAt, thread, trusted>>

Pass ==
    /\ clock < MaxClock
    /\ \A th \in Threads : thread[th].step # "idle" => clock - thread[th].since < CallTime
    /\ clock' = clock + 1
    /\ trusted' = {}
    /\ UNCHANGED <<published, rotations, withdrawn, keys, fetchedAt, thread>>

KeysNext ==
    \/ \E th \in Threads :
        \/ \E k \in Kids : GetKey(th, k)
        \/ FetchKeys(th) \/ StoreKeys(th) \/ StampKeys(th) \/ Lookup(th) \/ ReturnKey(th)
    \/ \E k \in Kids : Rotate(k)
    \/ Pass

KeysSpec == KeysInit /\ [][KeysNext]_keysVars

\* A withdrawn key verifies tokens no longer than the cache lives and three
\* calls take: one that read the provider before the withdrawal and stored
\* late, one whose time stamp made those keys look fresh, and the one that
\* used them.
WithdrawnKeyExpires ==
    \A k \in trusted :
        k \in published \/ clock <= withdrawn[k] + CacheSeconds + 3 * CallTime
===============================================================================
