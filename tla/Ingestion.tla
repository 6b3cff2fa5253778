------------------------------- MODULE Ingestion -------------------------------
(***************************************************************************)
(* A program that uses the producer SDK, the ingestion service it calls,   *)
(* and the KafkaEventProducer the service publishes with.  Every attempt   *)
(* of a request is handled by a handler of its own, which goes on after    *)
(* the client has timed out; every send of the producer may land although  *)
(* future.get gave up on it.                                               *)
(*                                                                         *)
(* Abstractions: one topic partition, whose producer keeps the order of    *)
(* its sends (one request in flight), so a send that outlives its future   *)
(* lands before the next one; an event is a model value; a payload that    *)
(* the SDK itself would reject never reaches the service, so the invalid   *)
(* ones come from plain HTTP callers.                                      *)
(***************************************************************************)
EXTENDS Integers, Sequences, SequencesExt, FiniteSets

CONSTANTS
    Events,      \* the events callers hand over
    Programs,    \* sequences of requests; one is a sequence of events
    BatchRequest,  \* the requests that go to /events/batch
    DemoRequest,   \* those among them that /generate/demo makes up
    GivenId,     \* event_id of the request, or NoId
    Key,         \* idempotency key with tenant, type and source; or NoId
    NoId,
    Forbidden,   \* events of a tenant the principal has no access to
    Invalid,     \* events whose envelope fails validation
    Malformed,   \* events that fail the validation of the request's body
    MaxBatch,    \* max_length of BatchIngestRequest
    MaxRetries,  \* PlatformProducerClient.max_retries
    Sends,       \* KafkaEventProducer.retries
    None

VARIABLES
    program,     \* what the caller does
    pos,         \* its current request
    attempt,     \* attempts of it made so far
    client,      \* "ready" or "waiting"
    outcome,     \* per request, what the SDK returned or raised
    handler,     \* per attempt, the service's handler
    fresh,       \* how many random event ids have been drawn
    topic        \* the domain topic: records with the event and its event_id

caller == <<program, pos, attempt, client, outcome>>
service == <<handler, fresh>>
vars == <<caller, service, topic>>

CallerRequests == UNION {Range(p) : p \in Programs}

\* _demo_event gives neither an id nor a key, and makes valid payloads.
DemoEvents == {e \in Events \ (Invalid \cup Malformed) : GivenId[e] = NoId /\ Key[e] = NoId}

ASSUME IngestionAssumption ==
    /\ {MaxBatch, MaxRetries, Sends} \subseteq Nat \ {0}
    /\ BatchRequest \subseteq CallerRequests
    /\ \A r \in CallerRequests : r \in BatchRequest \/ Len(r) = 1
    /\ Programs \subseteq Seq(Seq(Events)) /\ \E p \in Programs : \A q \in Programs : Len(q) <= Len(p)
    /\ GivenId \in [Events -> Int] /\ Key \in [Events -> Int] /\ NoId = 0 /\ None \notin Int
    /\ DemoRequest \subseteq BatchRequest
    \* of one tenant
    /\ \A r \in DemoRequest :
        Range(r) \subseteq DemoEvents /\ (Range(r) \subseteq Forbidden \/ Range(r) \cap Forbidden = {})

\* The id that the caller's choices alone determine, or NoId.
FixedId(e) == IF GivenId[e] # NoId THEN GivenId[e] ELSE Key[e]

\* Two events have no such id in common, and no random id is one of them.
ASSUME IdAssumption ==
    \A e, f \in Events :
        /\ FixedId(e) <= NoId
        /\ FixedId(e) = FixedId(f) => FixedId(e) = NoId \/ e = f

MaxRequests == CHOOSE n \in {Len(p) : p \in Programs} :
                 \A p \in Programs : Len(p) <= n

Tries == (1..MaxRequests) \X (1..MaxRetries)

RequestOf(c) == program[c[1]]

Running(c) == handler[c] # None /\ handler[c].reply = "none"

\* The event the handler has in hand.
Current(c) == RequestOf(c)[Len(handler[c].results) + 1]

Done(c) == Len(handler[c].results) = Len(RequestOf(c))

IngestionInit ==
    /\ program \in Programs
    /\ pos = 1
    /\ attempt = 0
    /\ client = "ready"
    /\ outcome = <<>>
    /\ handler = [c \in Tries |-> None]
    /\ fresh = 0
    /\ topic = <<>>

-------------------------------------------------------------------------------
(* The SDK.                                                                *)

\* One attempt; the request may be lost on its way to the service.
SendRequest(arrives) ==
    /\ client = "ready"
    /\ pos <= Len(program)
    /\ client' = "waiting"
    /\ attempt' = attempt + 1
    /\ handler' = [handler EXCEPT ![<<pos, attempt + 1>>] =
          IF arrives THEN [results |-> <<>>, id |-> None, sent |-> 0, reply |-> "none"]
          ELSE None]
    /\ UNCHANGED <<program, pos, outcome, fresh, topic>>

NextRequest(result) ==
    /\ outcome' = Append(outcome, result)
    /\ pos' = pos + 1
    /\ attempt' = 0
    /\ client' = "ready"
    /\ UNCHANGED program

\* Retry unless this was the last attempt; then the error is raised.
RetryOrRaise ==
    IF attempt = MaxRetries
    THEN NextRequest("raised")
    ELSE client' = "ready" /\ UNCHANGED <<program, pos, attempt, outcome>>

\* Mutant: a loop that does not count its attempts.
RetryForEver ==
    client' = "ready" /\ attempt' = attempt - 1 /\ UNCHANGED <<program, pos, outcome>>

\* Mutant: a timeout after the request was sent counts as success.
AssumeSent == NextRequest("returned")

AfterError == RetryOrRaise

\* A 2xx is returned, a 4xx raised at once, a 5xx retried.
ReceiveReply ==
    /\ client = "waiting"
    /\ handler[<<pos, attempt>>] # None
    /\ LET reply == handler[<<pos, attempt>>].reply IN
          CASE reply = "202" -> NextRequest("returned")
            [] reply \in {"403", "422"} -> NextRequest(reply)
            [] reply = "500" -> AfterError
            [] OTHER -> FALSE
    /\ UNCHANGED <<service, topic>>

\* The timeout, or a broken connection: also when the reply is on its way.
TransportError ==
    /\ client = "waiting"
    /\ AfterError
    /\ UNCHANGED <<service, topic>>

-------------------------------------------------------------------------------
(* The service.                                                            *)

\* The 4xx and 5xx of ingest_event; ingest_batch collects the failures.
EndEvent(c, result) ==
    IF RequestOf(c) \in BatchRequest
    THEN handler' = [handler EXCEPT ![c].results = Append(@, result),
                                    ![c].id = None, ![c].sent = 0]
    ELSE handler' = [handler EXCEPT ![c].reply = result.status,
                                    ![c].results = <<result>>]

Result(status, id) == [status |-> status, id |-> id]

\* Mutant: a random id for every envelope.
RandomId(e, n) == n

\* _build_envelope: the id given, else derived from the key, else random.
EventIdOf(e, n) == IF FixedId(e) # NoId THEN FixedId(e) ELSE n

\* A batch that is too long, or that has one malformed event, fails as a whole and
\* before anything is published.
BodyIsValid(c) == Len(RequestOf(c)) <= MaxBatch /\ Range(RequestOf(c)) \cap Malformed = {}

\* In the validation of the body; or in generate_demo_events, which lets a caller
\* ask for more.  (A caller without a credential gets a 401 as early; the SDK
\* raises both at once.)
RefuseBody(c) ==
    /\ Running(c) /\ ~BodyIsValid(c)
    /\ handler' = [handler EXCEPT ![c].reply =
          IF RequestOf(c) \notin DemoRequest THEN "422"
          ELSE IF Range(RequestOf(c)) \subseteq Forbidden THEN "403" ELSE "500"]
    /\ UNCHANGED <<caller, fresh, topic>>

Refuse(c) ==
    /\ Running(c) /\ ~Done(c) /\ BodyIsValid(c)
    /\ handler[c].id = None
    /\ \/ Current(c) \in Forbidden /\ RequestOf(c) \notin DemoRequest /\ EndEvent(c, Result("403", None))
       \/ Current(c) \in Invalid \ Forbidden /\ EndEvent(c, Result("422", None))
    /\ UNCHANGED <<caller, fresh, topic>>

\* generate_demo_events refuses a foreign tenant as a whole.
RefuseDemo(c) ==
    /\ Running(c) /\ RequestOf(c) \in DemoRequest /\ Range(RequestOf(c)) \subseteq Forbidden
    /\ handler' = [handler EXCEPT ![c].reply = "403"]
    /\ UNCHANGED <<caller, fresh, topic>>

Admits(c) == Current(c) \notin Forbidden \cup Invalid

BuildEnvelope(c) ==
    /\ Running(c) /\ ~Done(c) /\ BodyIsValid(c)
    /\ handler[c].id = None
    /\ Admits(c)
    /\ handler' = [handler EXCEPT ![c].id = EventIdOf(Current(c), fresh + 1)]
    /\ fresh' = fresh + 1
    /\ UNCHANGED <<caller, topic>>

\* KafkaEventProducer.publish: one send and its future.
InTopic(c) == topic' = Append(topic, [event |-> Current(c), id |-> handler[c].id])

\* Mutant: an answer as soon as the record is handed to the producer.
FireAndForget(c) == InTopic(c) \/ UNCHANGED topic

Acknowledged(c) == InTopic(c)

SendSucceeds(c) ==
    /\ Running(c) /\ ~Done(c)
    /\ handler[c].id # None
    /\ Acknowledged(c)
    /\ EndEvent(c, Result("202", handler[c].id))
    /\ UNCHANGED <<caller, fresh>>

SendFails(c) ==
    /\ Running(c) /\ ~Done(c)
    /\ handler[c].id # None
    /\ InTopic(c) \/ UNCHANGED topic
    /\ IF handler[c].sent + 1 = Sends
       THEN EndEvent(c, Result("500", None))
       ELSE handler' = [handler EXCEPT ![c].sent = @ + 1]
    /\ UNCHANGED <<caller, fresh>>

ReplyToBatch(c) ==
    /\ Running(c) /\ Done(c)
    /\ handler' = [handler EXCEPT ![c].reply = "202"]
    /\ UNCHANGED <<caller, fresh, topic>>

HandlerStep(c) ==
    \/ RefuseBody(c) \/ Refuse(c) \/ RefuseDemo(c) \/ BuildEnvelope(c)
    \/ SendSucceeds(c) \/ SendFails(c) \/ ReplyToBatch(c)

Call == (\E arrives \in BOOLEAN : SendRequest(arrives)) \/ ReceiveReply \/ TransportError

IngestionNext == Call \/ \E c \in Tries : HandlerStep(c)

\* The caller runs, and so does every handler the service has started.
IngestionFairness == WF_vars(Call) /\ \A c \in Tries : WF_vars(HandlerStep(c))

IngestionSpec == IngestionInit /\ [][IngestionNext]_vars /\ IngestionFairness

-------------------------------------------------------------------------------
(* Properties.                                                             *)

IdsInTopic == {topic[i].id : i \in DOMAIN topic}

\* Everything an answer calls accepted is in the topic, batch items included:
\* the caller may forget the event.
AcceptedIsInTopic ==
    \A c \in Tries : handler[c] # None =>
        \A i \in DOMAIN handler[c].results :
            LET r == handler[c].results[i] IN
            r.status = "202" =>
                \E k \in DOMAIN topic : topic[k] = [event |-> RequestOf(c)[i], id |-> r.id]

\* However often an event is sent, by the SDK or by the producer, its copies carry
\* one id, and no two events share an id: consumers can tell a copy from news.
CopiesShareTheirId ==
    \A i, j \in DOMAIN topic :
        /\ topic[i].id = topic[j].id => topic[i].event = topic[j].event
        /\ /\ topic[i].event = topic[j].event
           /\ FixedId(topic[i].event) # NoId
           => topic[i].id = topic[j].id

\* A consumer that skips copies meets d before e.
MetFirst(d, e) ==
    \E k \in DOMAIN topic :
        topic[k].event = d /\ \A j \in 1..k : topic[j].event # e

EventsIn(requests) == UNION {Range(program[i]) : i \in requests}

\* Once the SDK has returned for an event, a consumer that skips copies meets
\* it before whatever is new in later requests, although handlers of attempts
\* that timed out still publish.
FirstCopiesInOrder ==
    \A m \in DOMAIN outcome :
        outcome[m] = "returned" /\ program[m] \notin BatchRequest =>
            \A e \in EventsIn(m + 1 .. Len(program)) \ EventsIn(1..m) : MetFirst(program[m][1], e)

\* Every request comes to an end for the caller, lost ones included.
EveryRequestEnds == <>(pos > Len(program))
===============================================================================
