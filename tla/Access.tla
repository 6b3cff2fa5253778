-------------------------------- MODULE Access --------------------------------
(* Who a caller is and what it may see: platform_shared.auth, used by      *)
(* every HTTP service.                                                     *)
EXTENDS Naturals

CONSTANTS
    AuthMode,       \* "strict" or "dev_compat"
    NoTenantClaim,  \* claims that lack the tenant (or, in a local token, the subject)
    Anonymous,      \* the user, tenant and role of a request without headers
    OidcIssuer      \* whether OIDC_JWKS_URL and OIDC_ISSUER are set

\* Any other AUTH_MODE is refused by _auth_mode.
AuthModes == {"strict", "dev_compat"}

ASSUME AuthModeAssumption == AuthMode \in AuthModes /\ OidcIssuer \in BOOLEAN

AllowedRoles == {"platform_admin", "tenant_admin", "analyst", "viewer",
                 "service_account", "tenant_analyst"}

RoleKey(role) == IF role = "tenant_analyst" THEN "analyst" ELSE role

\* A principal is a record of user, tenant, role and scopes.
IsPlatformAdmin(p) == RoleKey(p.role) = "platform_admin"
CanAccess(p, t) == IsPlatformAdmin(p) \/ p.tenant = t

(***************************************************************************)
(* A credential is what a request carries: nothing, the X- headers, an     *)
(* Authorization header that is no bearer token, or a token with its       *)
(* claims, its signer and whether its header has a key id.                 *)
(***************************************************************************)

CredentialKinds == {"none", "headers", "malformed", "token"}

\* Tokens with a key id are the identity provider's, when one is configured;
\* all others are verified with the platform's own secret.
Verifier(cred) == IF OidcIssuer /\ cred.kid THEN "oidc" ELSE "local"

Verified(cred, time) == cred.signer = Verifier(cred) /\ time < cred.expires

\* principal_from_token indexes the claims: a KeyError when one is missing.
Readable(cred) == Verifier(cred) = "local" => cred.claims.tenant # NoTenantClaim

\* TenantPrincipal checks the role, and OIDC claims need a tenant.
ClaimsAccepted(cred) ==
    /\ cred.claims.role \in AllowedRoles
    /\ Verifier(cred) = "oidc" => cred.claims.tenant # NoTenantClaim

\* principal_from_authorization under get_principal: only a ValueError is
\* turned into a 401, and those of PyJWT, of JWKSClient and of a missing claim are none.
Authenticated(cred, time) ==
    CASE cred.kind = "malformed" -> 401
      [] cred.kind = "none" -> IF AuthMode = "strict" THEN 401 ELSE 200
      [] cred.kind = "headers" ->
            IF AuthMode = "dev_compat" /\ cred.claims.role \in AllowedRoles THEN 200 ELSE 401
      [] cred.kind = "token" ->
            IF ~Verified(cred, time) \/ ~Readable(cred) THEN 500
            ELSE IF ClaimsAccepted(cred) THEN 200 ELSE 401

Principal(cred) == IF cred.kind \in {"token", "headers"} THEN cred.claims ELSE Anonymous
===============================================================================
