----------------------------- MODULE TokenIssuer ------------------------------
(***************************************************************************)
(* The metadata service: tenants, their users, and tokens issued on the    *)
(* strength of other tokens.  The operators' first tokens come from        *)
(* outside.                                                                *)
(***************************************************************************)
EXTENDS Access, FiniteSets

CONSTANTS
    FirstTokens,    \* the claims of the tokens handed out by the operators
    TokenRequests,  \* the claims asked for
    Lifetime,       \* expires_in_seconds, in ticks
    Places,         \* tenant ids
    MaxTokens,      \* bound: tokens
    LastTime        \* bound: ticks

ASSUME TokenAssumption == {Lifetime, MaxTokens, LastTime} \subseteq Nat

VARIABLES
    tokens,     \* each with the claims its chain of issuers began with
    tenants,    \* tenant_config: the active flag
    users,      \* tenant_users: the stored role
    time

tokenVars == <<tokens, tenants, users, time>>

Token(claims, expires, root) ==
    [kind |-> "token", kid |-> FALSE, signer |-> "local",
     claims |-> claims, expires |-> expires, root |-> root]

TokensInit ==
    /\ time = 0
    /\ tokens = {Token(c, Lifetime, c) : c \in FirstTokens}
    /\ tenants = [t \in Places |-> "absent"]
    /\ users = [t \in Places |-> "absent"]

\* Mutant: the admin check is an alternative to the tenant check.
EitherCheck(p, claims) == CanAccess(p, claims.tenant) \/ claims.role \in AllowedRoles

\* issue_token: the role platform_admin asks for an admin, any other role
\* for access to the tenant; the scopes are as asked.
MayIssue(p, claims) ==
    IF claims.role = "platform_admin" THEN IsPlatformAdmin(p) ELSE CanAccess(p, claims.tenant)

\* Of the answers 401, 500, 403 and 400 only the success changes anything.
IssueToken(cred, claims) ==
    /\ Cardinality(tokens) < MaxTokens
    /\ Authenticated(cred, time) = 200
    /\ MayIssue(Principal(cred), claims)
    /\ claims.role \in AllowedRoles
    /\ tokens' = tokens \cup {Token(claims, time + Lifetime, cred.root)}
    /\ UNCHANGED <<tenants, users, time>>

\* on conflict do update: the last writer's values.
StoreTenant(t, active) == tenants' = [tenants EXCEPT ![t] = active]
StoreUser(t, role) == users' = [users EXCEPT ![t] = role]

UpsertTenant(cred, t, active) ==
    /\ Authenticated(cred, time) = 200
    /\ IsPlatformAdmin(Principal(cred))
    /\ StoreTenant(t, active)
    /\ UNCHANGED <<tokens, users, time>>

\* The role of a user is stored unchecked.
UpsertUser(cred, t, role) ==
    /\ Authenticated(cred, time) = 200
    /\ IsPlatformAdmin(Principal(cred))
    /\ StoreUser(t, role)
    /\ UNCHANGED <<tokens, tenants, time>>

Elapse == time < LastTime /\ time' = time + 1 /\ UNCHANGED <<tokens, tenants, users>>

TokensNext ==
    \/ \E cred \in tokens :
        \/ \E claims \in TokenRequests : IssueToken(cred, claims)
        \/ \E t \in Places :
            \/ \E active \in {"active", "inactive"} : UpsertTenant(cred, t, active)
            \/ \E role \in {"analyst", "unknown"} : UpsertUser(cred, t, role)
    \/ Elapse

TokensSpec == TokensInit /\ [][TokensNext]_tokenVars

\* However tokens are exchanged for tokens, a chain that began within a
\* tenant never reaches another tenant nor the platform.
ChainStaysInTenant ==
    \A token \in tokens : \A t \in Places :
        CanAccess(token.claims, t) => CanAccess(token.root, t)
===============================================================================
