------------------------------ MODULE MCServices ------------------------------
(* The HTTP services and the tools beside them: events on their way into   *)
(* the topics (the SDK and the ingestion service, the outbox, replays from *)
(* the dead-letter topic), the analytics API under concurrency, faults and *)
(* time, and the tokens the metadata service issues.  They share nothing   *)
(* but the topics, so a behaviour runs one of them.                        *)
EXTENDS Ingestion, Outbox, DlqTool, AnalyticsApi, TokenIssuer

CONSTANTS a, b, keyed, random, invalid, malformed, forbidden

VARIABLE scene

-------------------------------------------------------------------------------
(* Ingestion, outbox and replays.                                          *)

\* Random ids are positive.
MCGivenId == [e \in Events |-> CASE e = a -> -1 [] e = b -> -2 [] OTHER -> NoId]
MCKey == [e \in Events |-> IF e = keyed THEN -3 ELSE NoId]
MCPrograms == {<<>>, <<<<a>>, <<b>>>>, <<<<keyed, invalid, random>>>>, <<<<invalid>>>>,
               <<<<malformed>>>>, <<<<keyed, malformed>>>>, <<<<forbidden>>>>, <<<<random>>>>,
               <<<<forbidden, forbidden>>>>, <<<<a, a, a, a>>>>, <<<<random, random, random, random>>>>}
MCDemos == {<<random>>, <<forbidden, forbidden>>, <<random, random, random, random>>}
MCBatches == {<<keyed, invalid, random>>, <<keyed, malformed>>, <<a, a, a, a>>} \cup MCDemos

\* A letter of each shape, one of them twice, in two partitions.
Letter(e, part, shape) == [event |-> e, part |-> part, shape |-> shape]
MCLetters == <<Letter("p", 0, "wrapped"), Letter("q", 1, "bare"), Letter("p", 0, "raw"),
               Letter("r", 1, "raw"), Letter("s", 0, "broken")>>

Command(only, max, dry, newId, audited) ==
    [only |-> only, max |-> max, dry |-> dry, newId |-> newId, audited |-> audited]
MCCommands ==
    {Command(NoEvent, 4, FALSE, NoEvent, TRUE), Command("r", 1, FALSE, "n", TRUE),
     Command("p", 2, TRUE, NoEvent, TRUE), Command("p", 2, FALSE, NoEvent, FALSE),
     Command(NoEvent, 9, FALSE, NoEvent, TRUE)}

-------------------------------------------------------------------------------
(* The analytics API and the tokens.                                       *)

Person(user, tenant, role) == [user |-> user, tenant |-> tenant, role |-> role, scopes |-> {}]
ann == Person("ann", "t1", "analyst")
bob == Person("bob", "t2", "tenant_analyst")
root == Person("root", "t2", "platform_admin")
odd == Person("odd", "t1", "unknown")

MCAnonymous == Person("local-dev-user", "tenant_demo", "tenant_analyst")

Bearer(claims, kid, signer, expires) ==
    [kind |-> "token", kid |-> kid, signer |-> signer, claims |-> claims, expires |-> expires]
Ask(cred, path, tenant) == [cred |-> cred, path |-> path, tenant |-> tenant]
Valid(claims) == Bearer(claims, FALSE, "local", 99)
FromProvider(claims) == Bearer(claims, TRUE, "oidc", 99)

MCRequest == [
    annMetric |-> Ask(Valid(ann), "metric", "t1"),
    rootMetric |-> Ask(Valid(root), "metric", "t1"),
    bobMetric |-> Ask(Valid(bob), "metric", "t2"),
    annAlerts |-> Ask(Valid(ann), "alerts", "t1"),
    annStatus |-> Ask(Valid(ann), "status", "t1"),
    rootTenants |-> Ask(Valid(root), "tenants", "t2"),
    bobScore |-> Ask(Valid(bob), "health_score", "t2"),
    annElsewhere |-> Ask(Valid(ann), "status", "t2"),
    bobTenants |-> Ask(Valid(bob), "tenants", "t2"),
    rootStatus |-> Ask(Valid(root), "status", "t1"),
    forged |-> Ask(Bearer(ann, FALSE, "nobody", 99), "status", "t1"),
    expiring |-> Ask(Bearer(ann, FALSE, "local", 1), "status", "t1"),
    provided |-> Ask(FromProvider(ann), "status", "t1"),
    localWithKid |-> Ask(Bearer(ann, TRUE, "local", 99), "status", "t1"),
    noTenant |-> Ask(FromProvider(Person("nil", "", "analyst")), "status", "t1"),
    noClaims |-> Ask(Valid(Person("nil", "", "analyst")), "status", "t1"),
    oddRole |-> Ask(Valid(odd), "status", "t1"),
    noHeader |-> Ask([kind |-> "none"], "status", "t1"),
    headers |-> Ask([kind |-> "headers", claims |-> ann], "status", "t1"),
    malformed |-> Ask([kind |-> "malformed"], "status", "t1")]
MCRequests == DOMAIN MCRequest

FillOffer == {"annMetric", "rootMetric"}
CacheOffer == {"annMetric", "bobMetric"}
PoolOffer == {"annStatus", "rootTenants", "bobScore"}
RefusedOffer == MCRequests \ (FillOffer \cup CacheOffer \cup PoolOffer \cup {"annAlerts"})

Offer(n, ticks, writes, errors, requests) ==
    [calls |-> n, ticks |-> ticks, writes |-> writes, faults |-> errors, requests |-> requests]
MCOffers ==
    {Offer(3, 2, 1, 0, {"annMetric"}), Offer(2, 2, 1, 0, FillOffer), Offer(2, 1, 0, 1, CacheOffer),
     Offer(4, 3, 0, 1, {"annAlerts"}), Offer(2, 0, 0, 1, PoolOffer), Offer(2, 1, 0, 0, RefusedOffer)}
MCFirstTokens == {ann, root}
MCTokenRequests ==
    {ann, root, odd, Person("eve", "t1", "tenant_admin"), Person("eve", "t1", "platform_admin"),
     Person("bob", "t2", "viewer")}

-------------------------------------------------------------------------------
deliveryVars == <<vars, outboxVars, dlqVars>>
accessVars == <<apiVars, tokenVars>>
MCVars == <<deliveryVars, accessVars, scene>>

\* The parts that do not run have one initial state, in which no step that
\* is fair is enabled.
MCInit ==
    /\ IngestionInit /\ OutboxInit /\ DlqInit /\ Init /\ TokensInit
    /\ scene \in {"ingestion", "outbox", "dlq", "api", "tokens"}
    /\ scene # "ingestion" => program = <<>>
    /\ scene # "api" => offered.calls = 4

MCNext ==
    /\ UNCHANGED scene
    /\ \/ scene = "ingestion" /\ IngestionNext /\ UNCHANGED <<outboxVars, dlqVars, accessVars>>
       \/ scene = "outbox" /\ OutboxNext /\ UNCHANGED <<vars, dlqVars, accessVars>>
       \/ scene = "dlq" /\ DlqNext /\ UNCHANGED <<vars, outboxVars, accessVars>>
       \/ scene = "api" /\ Next /\ UNCHANGED <<deliveryVars, tokenVars>>
       \/ scene = "tokens" /\ TokensNext /\ UNCHANGED <<deliveryVars, apiVars>>

MCSpec == MCInit /\ [][MCNext]_MCVars /\ IngestionFairness /\ Fairness
===============================================================================
