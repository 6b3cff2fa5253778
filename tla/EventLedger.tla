----------------------------- MODULE EventLedger -----------------------------
(***************************************************************************)
(* What the processing service promises about the additive effects of an   *)
(* event, whatever the number of workers, deliveries, failures and         *)
(* crashes: an event id is claimed once, by one envelope; that envelope    *)
(* raises its alert, is added to its hourly row and then to its daily row, *)
(* each at most once and in this order; and the claim is closed only when  *)
(* all of it has happened.  There are no workers and no Kafka here.        *)
(***************************************************************************)
EXTENDS Naturals

CONSTANTS
    Envelopes,   \* the envelopes that may be delivered
    Ids,         \* event ids
    EventId,     \* the event id of each envelope
    Risky,       \* the payment failures with risk_score >= 0.85
    NoRow        \* no envelope has claimed the id

VARIABLES
    claim,       \* the envelope whose inbox row holds the id, or NoRow
    alerts,      \* how many alerts name the envelope as their source
    hourly,      \* how many times its delta is in its hourly row
    daily,       \* how many times its delta is in its daily row
    closed       \* the ids marked processed

vars == <<claim, alerts, hourly, daily, closed>>

Init ==
    /\ claim = [i \in Ids |-> NoRow]
    /\ alerts = [e \in Envelopes |-> 0]
    /\ hourly = [e \in Envelopes |-> 0]
    /\ daily = [e \in Envelopes |-> 0]
    /\ closed = {}

Claim(e) ==
    /\ claim[EventId[e]] = NoRow
    /\ claim' = [claim EXCEPT ![EventId[e]] = e]
    /\ UNCHANGED <<alerts, hourly, daily, closed>>

RaiseAlert(e) ==
    /\ claim[EventId[e]] = e
    /\ e \in Risky
    /\ alerts[e] = 0
    /\ hourly[e] = 0
    /\ alerts' = [alerts EXCEPT ![e] = 1]
    /\ UNCHANGED <<claim, hourly, daily, closed>>

CountHourly(e) ==
    /\ claim[EventId[e]] = e
    /\ e \in Risky => alerts[e] = 1
    /\ hourly[e] = 0
    /\ hourly' = [hourly EXCEPT ![e] = 1]
    /\ UNCHANGED <<claim, alerts, daily, closed>>

CountDaily(e) ==
    /\ claim[EventId[e]] = e
    /\ hourly[e] = 1
    /\ daily[e] = 0
    /\ daily' = [daily EXCEPT ![e] = 1]
    /\ UNCHANGED <<claim, alerts, hourly, closed>>

Close(e) ==
    /\ claim[EventId[e]] = e
    /\ daily[e] = 1
    /\ closed' = closed \cup {EventId[e]}
    /\ UNCHANGED <<claim, alerts, hourly, daily>>

Next ==
    \E e \in Envelopes :
        Claim(e) \/ RaiseAlert(e) \/ CountHourly(e) \/ CountDaily(e) \/ Close(e)

Spec == Init /\ [][Next]_vars
==============================================================================
