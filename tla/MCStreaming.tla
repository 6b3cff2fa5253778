------------------------------ MODULE MCStreaming ------------------------------
(* A small instance of StreamingJob: an event that is late when the job    *)
(* reads it, a copy of it with a later timestamp, an event from the        *)
(* future, and text that is not JSON.                                      *)
EXTENDS StreamingJob

CONSTANTS old, again, ahead, garbled

MCFlaws == [r \in Records |-> IF r = garbled THEN {"malformed_json"} ELSE {}]
MCEventKey == [r \in Records |-> IF r = again THEN old ELSE r]
MCTenant == [r \in Records |-> IF r = ahead THEN "t1" ELSE "t2"]
MCEventTime == [r \in Records |-> CASE r = again -> 1 [] r = ahead -> 2 [] OTHER -> 0]
\* The aggregating query shares no table with the others.
MCActive == {{"aggregates"}, {"dlq", "dedup-audit"}, {"dlq", "late-accepted-audit"},
             {"dedup-audit", "late-accepted-audit"}}
MCWindowOf == [r \in Records |-> IF r = again THEN "w2" ELSE "w1"]

\* Two events, none of which is ever from the future.
MCOwnKey == [r \in Records |-> r]
MCPastTime == [r \in Records |-> IF r = again THEN 0 ELSE -1]
===============================================================================
