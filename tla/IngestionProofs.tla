--------------------------- MODULE IngestionProofs ----------------------------
(* What the ingestion service promises of an answer and of an id, for any  *)
(* programs, batches, retries and interleavings of handlers.               *)
EXTENDS Ingestion, TLAPS

-------------------------------------------------------------------------------
(* The inductive invariant.                                                *)

Statuses == {"202", "403", "422", "500"}
Results == [status : Statuses, id : Int \cup {None}]
Handlers == [results : Seq(Results), id : Int \cup {None}, sent : Nat,
             reply : Statuses \cup {"none"}]
Records == [event : Events, id : Int]

\* Type correctness.
IngestionTypeOK ==
    /\ program \in Programs
    /\ pos \in Nat \ {0}
    /\ handler \in [Tries -> Handlers \cup {None}]
    /\ fresh \in Nat
    /\ topic \in Seq(Records)

\* A handler works on a request of the program, and a single event has no result
\* before its reply.
HandlerOk(c) ==
    handler[c] # None =>
        /\ handler[c] \in Handlers
        /\ c[1] \in DOMAIN program
        /\ Len(handler[c].results) <= Len(RequestOf(c))
        /\ handler[c].reply = "none" /\ RequestOf(c) \notin BatchRequest => handler[c].results = <<>>

\* The event that a handler has given an id to.
HasEnvelope(c) == handler[c] # None /\ Running(c) /\ ~Done(c) /\ handler[c].id # None

\* Ids in use, in the topic or in the hands of handlers: each is the event's own
\* or has been drawn before, and belongs to one event.
InUse(e, n) ==
    \/ \E i \in DOMAIN topic : topic[i] = [event |-> e, id |-> n]
    \/ \E c \in Tries : HasEnvelope(c) /\ Current(c) = e /\ handler[c].id = n

IdsAreOwn ==
    \A e, f \in Events, n \in Int :
        /\ InUse(e, n) => IF FixedId(e) # NoId THEN n = FixedId(e) ELSE n \in 1..fresh
        /\ InUse(e, n) /\ InUse(f, n) => e = f

IngestionInv ==
    /\ IngestionTypeOK
    /\ \A c \in Tries : HandlerOk(c)
    /\ AcceptedIsInTopic
    /\ IdsAreOwn

-------------------------------------------------------------------------------
LEMMA IngestionInvInitially == IngestionInit => IngestionInv
<1> SUFFICES ASSUME IngestionInit PROVE IngestionInv
    OBVIOUS
<1> USE DEF IngestionInit
<1>1. IngestionTypeOK
    BY DEF IngestionTypeOK
<1>2. \A c \in Tries : HandlerOk(c)
    BY DEF HandlerOk
<1>3. AcceptedIsInTopic
    BY DEF AcceptedIsInTopic
<1>4. IdsAreOwn
    BY DEF IdsAreOwn, InUse, HasEnvelope
<1> QED BY <1>1, <1>2, <1>3, <1>4 DEF IngestionInv

\* Facts about the event in a handler's hand.
LEMMA CurrentEvent ==
    ASSUME IngestionInv, NEW c \in Tries, Running(c), ~Done(c)
    PROVE  /\ handler[c] \in Handlers /\ handler[c].reply = "none"
           /\ Current(c) \in Events
           /\ Len(handler[c].results) + 1 \in DOMAIN RequestOf(c)
<1>1. handler[c] \in Handlers /\ c[1] \in DOMAIN program /\ handler[c].reply = "none"
     /\ Len(handler[c].results) <= Len(RequestOf(c))
    BY DEF IngestionInv, HandlerOk, Running
<1>2. RequestOf(c) \in Seq(Events)
    BY <1>1, IngestionAssumption DEF IngestionInv, IngestionTypeOK, RequestOf
<1> QED BY <1>1, <1>2 DEF Current, Done, Handlers

TopicGrows ==
    \A k \in DOMAIN topic : k \in DOMAIN topic' /\ topic'[k] = topic[k]

LEMMA AppendGrows ==
    ASSUME IngestionInv, NEW rec, topic' = Append(topic, rec)
    PROVE  TopicGrows /\ \E k \in DOMAIN topic' : topic'[k] = rec
<1>1. topic \in Seq(Records)
    BY DEF IngestionInv, IngestionTypeOK
<1>2. Len(topic) + 1 \in DOMAIN topic' /\ topic'[Len(topic) + 1] = rec
    BY <1>1
<1> QED BY <1>1, <1>2 DEF TopicGrows

\* A handler is done with the event in its hand: its result is recorded, and the
\* envelope is no longer in use.
LEMMA EndOfEvent ==
    ASSUME IngestionInv, NEW c \in Tries, Running(c), ~Done(c), NEW res \in Results,
           EndEvent(c, res), TopicGrows, UNCHANGED program,
           res.status = "202" =>
               \E k \in DOMAIN topic' : topic'[k] = [event |-> Current(c), id |-> res.id]
    PROVE  /\ handler' \in [Tries -> Handlers \cup {None}]
           /\ \A d \in Tries : HandlerOk(d)'
           /\ AcceptedIsInTopic'
           /\ ~HasEnvelope(c)'
           /\ \A d \in Tries \ {c} : handler'[d] = handler[d]
<1> DEFINE h == handler[c]
           results == IF RequestOf(c) \in BatchRequest THEN Append(h.results, res) ELSE <<res>>
           g == IF RequestOf(c) \in BatchRequest
                THEN [h EXCEPT !.results = results, !.id = None, !.sent = 0]
                ELSE [h EXCEPT !.reply = res.status, !.results = results]
<1>1. /\ h \in Handlers /\ h.reply = "none" /\ c[1] \in DOMAIN program
      /\ Len(h.results) + 1 \in DOMAIN RequestOf(c) /\ RequestOf(c) \in Seq(Events)
      /\ Len(h.results) <= Len(RequestOf(c))
      /\ RequestOf(c) \notin BatchRequest => h.results = <<>>
    <2>1. h \in Handlers /\ h.reply = "none" /\ Len(h.results) + 1 \in DOMAIN RequestOf(c)
        BY CurrentEvent
    <2>2. h # None
        BY DEF Running
    <2>3. c[1] \in DOMAIN program
        BY <2>2 DEF IngestionInv, HandlerOk
    <2>4. RequestOf(c) \in Seq(Events)
        BY <2>3, IngestionAssumption DEF IngestionInv, IngestionTypeOK, RequestOf
    <2> QED BY <2>1, <2>2, <2>3, <2>4 DEF IngestionInv, HandlerOk
<1>2. handler \in [Tries -> Handlers \cup {None}]
    BY DEF IngestionInv, IngestionTypeOK
<1>3. handler' = [handler EXCEPT ![c] = g]
    BY DEF EndEvent
<1>4. /\ results \in Seq(Results) /\ Len(results) = Len(h.results) + 1
      /\ results[Len(results)] = res
      /\ \A i \in 1..Len(h.results) : results[i] = h.results[i]
    BY <1>1 DEF Handlers
<1>5. g \in Handlers /\ g.results = results
    BY <1>1, <1>4 DEF Handlers, Results
<1>6. RequestOf(c) \notin BatchRequest => g.reply # "none"
    BY <1>1 DEF Handlers, Results, Statuses
<1>7. RequestOf(c) \in BatchRequest => g.id = None
    BY <1>1 DEF Handlers
<1> HIDE DEF g, results
<1>8. handler'[c] = g /\ \A d \in Tries \ {c} : handler'[d] = handler[d]
    BY <1>2, <1>3
<1>9. handler' \in [Tries -> Handlers \cup {None}]
    BY <1>2, <1>3, <1>5
<1>10. \A d \in Tries : HandlerOk(d)'
    <2>1. HandlerOk(c)'
        BY <1>1, <1>4, <1>5, <1>6, <1>8 DEF HandlerOk, RequestOf
    <2>2. ASSUME NEW d \in Tries \ {c} PROVE HandlerOk(d)'
        BY <1>8 DEF IngestionInv, HandlerOk, RequestOf
    <2> QED BY <2>1, <2>2
<1>11. AcceptedIsInTopic'
    <2>1. ASSUME NEW d \in Tries, handler[d] # None, NEW i \in DOMAIN handler[d].results,
                 handler[d].results[i].status = "202"
          PROVE  \E k \in DOMAIN topic' :
                    topic'[k] = [event |-> RequestOf(d)[i], id |-> handler[d].results[i].id]
        BY <2>1 DEF IngestionInv, AcceptedIsInTopic, TopicGrows
    <2>2. ASSUME NEW i \in DOMAIN results, results[i].status = "202"
          PROVE  \E k \in DOMAIN topic' :
                    topic'[k] = [event |-> RequestOf(c)[i], id |-> results[i].id]
        <3>1. CASE i = Len(results)
            BY <1>1, <1>4, <2>2, <3>1 DEF Current
        <3>2. CASE i # Len(results)
            <4>1. i \in DOMAIN h.results /\ results[i] = h.results[i]
                BY <1>1, <1>4, <3>2 DEF Handlers
            <4> QED BY <2>1, <2>2, <4>1 DEF Running
        <3> QED BY <3>1, <3>2
    <2> QED BY <1>5, <1>8, <2>1, <2>2 DEF AcceptedIsInTopic, RequestOf
<1>12. ~HasEnvelope(c)'
    BY <1>6, <1>7, <1>8 DEF HasEnvelope, Running
<1> QED BY <1>8, <1>9, <1>10, <1>11, <1>12

\* Ids stay own when no step but the drawing of a new one adds a use.
LEMMA NoNewUse ==
    ASSUME IngestionInv, UNCHANGED fresh, \A e \in Events, n \in Int : InUse(e, n)' => InUse(e, n)
    PROVE  IdsAreOwn'
BY DEF IngestionInv, IdsAreOwn, FixedId

\* The envelopes of other handlers.
LEMMA OtherEnvelopes ==
    ASSUME NEW d \in Tries, UNCHANGED program, handler'[d] = handler[d]
    PROVE  HasEnvelope(d)' => HasEnvelope(d) /\ Current(d)' = Current(d)
BY DEF HasEnvelope, Running, Done, Current, RequestOf

-------------------------------------------------------------------------------
LEMMA IngestionInvIsKept == IngestionInv /\ [IngestionNext]_vars => IngestionInv'
<1> SUFFICES ASSUME IngestionInv, [IngestionNext]_vars PROVE IngestionInv'
    OBVIOUS
<1>a. IngestionTypeOK /\ AcceptedIsInTopic /\ IdsAreOwn /\ \A c \in Tries : HandlerOk(c)
    BY DEF IngestionInv
<1>1. ASSUME UNCHANGED <<program, handler, fresh, topic>>, pos' \in Nat \ {0} PROVE IngestionInv'
    <2>1. IngestionTypeOK' /\ AcceptedIsInTopic'
        BY <1>1, <1>a DEF IngestionTypeOK, AcceptedIsInTopic, RequestOf
    <2>2. \A c \in Tries : HandlerOk(c)'
        BY <1>1, <1>a DEF HandlerOk, RequestOf
    <2>3. IdsAreOwn'
        BY <1>1, <1>a, OtherEnvelopes, NoNewUse DEF InUse
    <2> QED BY <2>1, <2>2, <2>3 DEF IngestionInv
<1>2. ASSUME NEW arrives \in BOOLEAN, SendRequest(arrives) PROVE IngestionInv'
    <2> DEFINE c == <<pos, attempt + 1>>
               h == IF arrives THEN [results |-> <<>>, id |-> None, sent |-> 0, reply |-> "none"] ELSE None
    <2>1. handler' = [handler EXCEPT ![c] = h] /\ UNCHANGED <<program, pos, fresh, topic>>
        BY <1>2 DEF SendRequest
    <2>2. h # None => h \in Handlers /\ h.results = <<>> /\ h.id = None
        BY DEF Handlers
    <2>3. pos \in DOMAIN program
        BY <1>2, <1>a, IngestionAssumption DEF SendRequest, IngestionTypeOK
    <2> HIDE DEF h
    <2>4. handler \in [Tries -> Handlers \cup {None}]
        BY <1>a DEF IngestionTypeOK
    <2>5. ASSUME NEW d \in Tries PROVE handler'[d] = handler[d] \/ (d = c /\ handler'[d] = h)
        BY <2>1, <2>4
    <2>6. h \in Handlers \cup {None}
        BY <2>2
    <2>7. handler' \in [Tries -> Handlers \cup {None}]
        BY <2>1, <2>4, <2>6
    <2>8. IngestionTypeOK'
        BY <1>a, <2>1, <2>7 DEF IngestionTypeOK
    <2>9. ASSUME NEW d \in Tries PROVE HandlerOk(d)'
        <3>1. CASE handler'[d] = handler[d]
            BY <1>a, <2>1, <3>1 DEF HandlerOk, RequestOf
        <3>2. CASE d = c /\ handler'[d] = h
            <4>1. RequestOf(d)' \in Seq(Events) /\ d[1] \in DOMAIN program'
                BY <1>a, <2>1, <2>3, <3>2, IngestionAssumption DEF IngestionTypeOK, RequestOf
            <4> QED BY <2>2, <3>2, <4>1 DEF HandlerOk
        <3> QED BY <2>5, <3>1, <3>2
    <2>10. AcceptedIsInTopic'
        <3>1. ASSUME NEW d \in Tries, handler'[d] # None, NEW i \in DOMAIN handler'[d].results
              PROVE  handler'[d] = handler[d]
            BY <2>2, <2>5, <3>1
        <3> QED BY <1>a, <2>1, <3>1 DEF AcceptedIsInTopic, RequestOf
    <2>11. IdsAreOwn'
        <3>1. ASSUME NEW d \in Tries, HasEnvelope(d)' PROVE handler'[d] = handler[d]
            BY <2>2, <2>5, <3>1 DEF HasEnvelope
        <3>2. ASSUME NEW d \in Tries, HasEnvelope(d)'
              PROVE  HasEnvelope(d) /\ Current(d)' = Current(d) /\ handler'[d] = handler[d]
            BY <2>1, <3>1, <3>2, OtherEnvelopes
        <3> QED BY <2>1, <3>2, NoNewUse DEF InUse
    <2> QED BY <2>8, <2>9, <2>10, <2>11 DEF IngestionInv
<1>3. ASSUME NextRequest("returned") \/ NextRequest("raised") \/ NextRequest("403") \/ NextRequest("422")
             \/ RetryOrRaise,
             UNCHANGED <<service, topic>>
      PROVE  IngestionInv'
    BY <1>1, <1>3, <1>a DEF NextRequest, RetryOrRaise, service, IngestionTypeOK
<1>4. CASE ReceiveReply
    BY <1>3, <1>4 DEF ReceiveReply, AfterError
<1>5. CASE TransportError
    BY <1>3, <1>5 DEF TransportError, AfterError
\* What ends an event, whatever the result.
<1>6. ASSUME NEW c \in Tries, Running(c), ~Done(c), NEW res \in Results, EndEvent(c, res),
             \/ UNCHANGED topic /\ res.status # "202"
             \/ /\ handler[c].id # None
                /\ topic' = Append(topic, [event |-> Current(c), id |-> handler[c].id])
                /\ res.status = "202" => res.id = handler[c].id,
             UNCHANGED <<caller, fresh>>
      PROVE  IngestionInv'
    <2> DEFINE rec == [event |-> Current(c), id |-> handler[c].id]
    <2>1. TopicGrows /\ (res.status = "202" =>
              \E k \in DOMAIN topic' : topic'[k] = [event |-> Current(c), id |-> res.id])
        BY <1>6, AppendGrows DEF TopicGrows
    <2>2. /\ handler' \in [Tries -> Handlers \cup {None}]
          /\ \A d \in Tries : HandlerOk(d)'
          /\ AcceptedIsInTopic'
          /\ ~HasEnvelope(c)'
          /\ \A d \in Tries \ {c} : handler'[d] = handler[d]
        BY <1>6, <2>1, EndOfEvent DEF caller
    <2>3. Current(c) \in Events /\ handler[c] \in Handlers
        BY <1>6, CurrentEvent
    <2>4. topic' \in Seq(Records)
        <3>1. handler[c].id # None => rec \in Records
            BY <2>3 DEF Handlers, Records
        <3> QED BY <1>6, <1>a, <3>1 DEF IngestionTypeOK
    <2>5. IngestionTypeOK'
        BY <1>6, <1>a, <2>2, <2>4 DEF IngestionTypeOK, caller
    <2>6. ASSUME NEW e \in Events, NEW n \in Int, InUse(e, n)' PROVE InUse(e, n)
        <3>1. ASSUME NEW d \in Tries, HasEnvelope(d)'
              PROVE  HasEnvelope(d) /\ Current(d)' = Current(d) /\ handler'[d] = handler[d]
            BY <1>6, <2>2, <3>1, OtherEnvelopes DEF caller
        <3>2. ASSUME NEW i \in DOMAIN topic'
              PROVE  (i \in DOMAIN topic /\ topic'[i] = topic[i]) \/ (HasEnvelope(c) /\ topic'[i] = rec)
            BY <1>6, <1>a DEF IngestionTypeOK, HasEnvelope, Running
        <3>3. CASE \E i \in DOMAIN topic' : topic'[i] = [event |-> e, id |-> n]
            BY <3>2, <3>3 DEF InUse
        <3>4. CASE \E d \in Tries : HasEnvelope(d)' /\ Current(d)' = e /\ handler'[d].id = n
            BY <3>1, <3>4 DEF InUse
        <3> QED BY <2>6, <3>3, <3>4 DEF InUse
    <2>7. IdsAreOwn'
        BY <1>6, <2>6, NoNewUse
    <2> QED BY <2>2, <2>5, <2>7 DEF IngestionInv
<1>7. ASSUME NEW c \in Tries, Refuse(c) PROVE IngestionInv'
    <2>1. Result("403", None) \in Results /\ Result("422", None) \in Results
        BY DEF Result, Results, Statuses
    <2>2. Result("403", None).status # "202" /\ Result("422", None).status # "202"
        BY DEF Result
    <2> QED BY <1>6, <1>7, <2>1, <2>2 DEF Refuse
<1>8. ASSUME NEW c \in Tries, SendSucceeds(c) PROVE IngestionInv'
    <2> DEFINE res == Result("202", handler[c].id)
    <2>1. handler[c].id \in Int \cup {None}
        BY <1>8, CurrentEvent DEF SendSucceeds, Handlers
    <2>2. res \in Results /\ res.status = "202" /\ res.id = handler[c].id
        BY <2>1 DEF Result, Results, Statuses
    <2>3. topic' = Append(topic, [event |-> Current(c), id |-> handler[c].id])
        BY <1>8 DEF SendSucceeds, Acknowledged, InTopic
    <2> QED BY <1>6, <1>8, <2>2, <2>3 DEF SendSucceeds
\* A step that leaves a handler with the event, its results and its reply.
<1>9. ASSUME NEW c \in Tries, Running(c), NEW h \in Handlers,
             handler' = [handler EXCEPT ![c] = h], h.results = handler[c].results,
             h.reply = handler[c].reply \/ h.reply # "none",
             topic' \in Seq(Records), TopicGrows, fresh' \in Nat, UNCHANGED caller
      PROVE  /\ IngestionTypeOK' /\ AcceptedIsInTopic' /\ \A d \in Tries : HandlerOk(d)'
             /\ handler'[c] = h /\ \A d \in Tries \ {c} : handler'[d] = handler[d]
    <2> USE <1>9 DEF caller
    <2>1. handler' \in [Tries -> Handlers \cup {None}] /\ handler'[c] = h
          /\ \A d \in Tries \ {c} : handler'[d] = handler[d]
        BY <1>a DEF IngestionTypeOK
    <2>2. IngestionTypeOK'
        BY <1>a, <2>1 DEF IngestionTypeOK
    <2>3. handler[c] # None
        BY DEF Running
    <2>4. \A d \in Tries : HandlerOk(d)'
        BY <1>a, <2>1, <2>3 DEF HandlerOk, RequestOf
    <2>5. \A d \in Tries : handler'[d] # None => handler[d] # None /\ handler'[d].results = handler[d].results
        BY <2>1, <2>3
    <2>6. AcceptedIsInTopic'
        BY <1>a, <2>5 DEF AcceptedIsInTopic, TopicGrows, RequestOf
    <2> QED BY <2>1, <2>2, <2>4, <2>6
<1>10. ASSUME NEW c \in Tries, RefuseBody(c) \/ RefuseDemo(c) \/ ReplyToBatch(c) PROVE IngestionInv'
    <2>1. PICK s \in Statuses : handler' = [handler EXCEPT ![c].reply = s]
        BY <1>10 DEF RefuseBody, RefuseDemo, ReplyToBatch, Statuses
    <2>2. Running(c) /\ UNCHANGED <<caller, fresh, topic>>
        BY <1>10 DEF RefuseBody, RefuseDemo, ReplyToBatch
    <2>3. handler[c] \in Handlers
        BY <1>a, <2>2 DEF HandlerOk, Running
    <2> DEFINE h == [handler[c] EXCEPT !.reply = s]
    <2>4. h \in Handlers /\ h.results = handler[c].results /\ h.reply = s
        BY <2>3 DEF Handlers, Statuses
    <2>5. handler' = [handler EXCEPT ![c] = h]
        BY <2>1
    <2>6. s # "none"
        BY DEF Statuses
    <2> HIDE DEF h
    <2>7. topic' \in Seq(Records) /\ TopicGrows /\ fresh' \in Nat
        BY <1>a, <2>2 DEF IngestionTypeOK, TopicGrows
    <2>8. /\ IngestionTypeOK' /\ AcceptedIsInTopic' /\ \A d \in Tries : HandlerOk(d)'
          /\ handler'[c] = h /\ \A d \in Tries \ {c} : handler'[d] = handler[d]
        BY <1>9, <2>2, <2>4, <2>5, <2>6, <2>7
    <2>9. ASSUME NEW d \in Tries, HasEnvelope(d)'
          PROVE  HasEnvelope(d) /\ Current(d)' = Current(d) /\ handler'[d] = handler[d]
        BY <2>2, <2>4, <2>6, <2>8, <2>9, OtherEnvelopes DEF HasEnvelope, Running, caller
    <2>10. IdsAreOwn'
        BY <2>2, <2>9, NoNewUse DEF InUse
    <2> QED BY <2>8, <2>10 DEF IngestionInv
<1>11. ASSUME NEW c \in Tries, SendFails(c) PROVE IngestionInv'
    <2> DEFINE rec == [event |-> Current(c), id |-> handler[c].id]
    <2>1. Running(c) /\ ~Done(c) /\ handler[c].id # None /\ UNCHANGED <<caller, fresh>>
          /\ (topic' = Append(topic, rec) \/ UNCHANGED topic)
        BY <1>11 DEF SendFails, InTopic
    <2>2. CASE EndEvent(c, Result("500", None))
        <3>1. Result("500", None) \in Results /\ Result("500", None).status # "202"
            BY DEF Result, Results, Statuses
        <3> QED BY <1>6, <2>1, <2>2, <3>1
    <2>3. CASE handler' = [handler EXCEPT ![c].sent = @ + 1]
        <3> DEFINE h == [handler[c] EXCEPT !.sent = @ + 1]
        <3>1. handler[c] \in Handlers /\ Current(c) \in Events
            BY <2>1, CurrentEvent
        <3>2. h \in Handlers /\ h.results = handler[c].results /\ h.reply = handler[c].reply
              /\ h.id = handler[c].id
            BY <3>1 DEF Handlers
        <3>3. handler' = [handler EXCEPT ![c] = h]
            BY <2>3
        <3> HIDE DEF h
        <3>4. rec \in Records
            BY <2>1, <3>1 DEF Handlers, Records
        <3>5. topic' \in Seq(Records) /\ TopicGrows /\ fresh' \in Nat
            BY <1>a, <2>1, <3>4, AppendGrows DEF IngestionTypeOK, TopicGrows
        <3>6. /\ IngestionTypeOK' /\ AcceptedIsInTopic' /\ \A d \in Tries : HandlerOk(d)'
              /\ handler'[c] = h /\ \A d \in Tries \ {c} : handler'[d] = handler[d]
            BY <1>9, <2>1, <3>2, <3>3, <3>5
        <3>7. ASSUME NEW d \in Tries, HasEnvelope(d)'
              PROVE  HasEnvelope(d) /\ Current(d)' = Current(d) /\ handler'[d].id = handler[d].id
            <4>1. CASE d = c
                BY <2>1, <3>2, <3>6, <4>1 DEF HasEnvelope, Current, RequestOf, Running, caller
            <4>2. CASE d # c
                BY <2>1, <3>6, <3>7, <4>2, OtherEnvelopes DEF caller
            <4> QED BY <4>1, <4>2
        <3>8. ASSUME NEW i \in DOMAIN topic'
              PROVE  (i \in DOMAIN topic /\ topic'[i] = topic[i]) \/ (HasEnvelope(c) /\ topic'[i] = rec)
            BY <2>1, <1>a DEF IngestionTypeOK, HasEnvelope, Running
        <3>9. ASSUME NEW e \in Events, NEW n \in Int, InUse(e, n)' PROVE InUse(e, n)
            <4>1. CASE \E i \in DOMAIN topic' : topic'[i] = [event |-> e, id |-> n]
                BY <3>8, <4>1 DEF InUse
            <4>2. CASE \E d \in Tries : HasEnvelope(d)' /\ Current(d)' = e /\ handler'[d].id = n
                BY <3>7, <4>2 DEF InUse
            <4> QED BY <3>9, <4>1, <4>2 DEF InUse
        <3>10. IdsAreOwn'
            BY <2>1, <3>9, NoNewUse
        <3> QED BY <3>6, <3>10 DEF IngestionInv
    <2> QED BY <1>11, <2>2, <2>3 DEF SendFails
<1>12. ASSUME NEW c \in Tries, BuildEnvelope(c) PROVE IngestionInv'
    <2> DEFINE n == EventIdOf(Current(c), fresh + 1)
               h == [handler[c] EXCEPT !.id = n]
    <2>1. Running(c) /\ ~Done(c) /\ handler[c].id = None /\ fresh' = fresh + 1
          /\ UNCHANGED <<caller, topic>>
        BY <1>12 DEF BuildEnvelope
    <2>2. handler[c] \in Handlers /\ Current(c) \in Events /\ fresh \in Nat
        BY <1>a, <2>1, CurrentEvent DEF IngestionTypeOK
    <2>3. /\ n \in Int
          /\ IF FixedId(Current(c)) # NoId THEN n = FixedId(Current(c)) ELSE n = fresh + 1
        BY <2>2, IngestionAssumption DEF EventIdOf, FixedId
    <2>4. handler' = [handler EXCEPT ![c] = h]
        BY <1>12 DEF BuildEnvelope
    <2> HIDE DEF n
    <2>5. h \in Handlers /\ h.results = handler[c].results /\ h.reply = handler[c].reply /\ h.id = n
        BY <2>2, <2>3 DEF Handlers
    <2> HIDE DEF h
    <2>6. topic' \in Seq(Records) /\ TopicGrows /\ fresh' \in Nat
        BY <1>a, <2>1, <2>2 DEF IngestionTypeOK, TopicGrows
    <2>7. /\ IngestionTypeOK' /\ AcceptedIsInTopic' /\ \A d \in Tries : HandlerOk(d)'
          /\ handler'[c] = h /\ \A d \in Tries \ {c} : handler'[d] = handler[d]
        BY <1>9, <2>1, <2>4, <2>5, <2>6
    \* The only new use is the one drawn here.
    <2>8. ASSUME NEW e \in Events, NEW m \in Int, InUse(e, m)'
          PROVE  InUse(e, m) \/ (e = Current(c) /\ m = n)
        <3>1. Current(c)' = Current(c)
            BY <2>1, <2>5, <2>7 DEF Current, RequestOf, caller
        <3>2. ASSUME NEW d \in Tries, HasEnvelope(d)', d # c
              PROVE  HasEnvelope(d) /\ Current(d)' = Current(d) /\ handler'[d] = handler[d]
            BY <2>1, <2>7, <3>2, OtherEnvelopes DEF caller
        <3>3. CASE \E i \in DOMAIN topic' : topic'[i] = [event |-> e, id |-> m]
            BY <2>1, <3>3 DEF InUse
        <3>4. CASE \E d \in Tries : HasEnvelope(d)' /\ Current(d)' = e /\ handler'[d].id = m
            BY <2>5, <2>7, <3>1, <3>2, <3>4 DEF InUse
        <3> QED BY <2>8, <3>3, <3>4 DEF InUse
    <2>9. ASSUME NEW e \in Events, NEW m \in Int, InUse(e, m)'
          PROVE  IF FixedId(e) # NoId THEN m = FixedId(e) ELSE m \in 1..fresh'
        <3>1. CASE InUse(e, m)
            BY <1>a, <2>1, <2>2, <3>1 DEF IdsAreOwn
        <3>2. CASE e = Current(c) /\ m = n
            BY <2>1, <2>2, <2>3, <3>2
        <3> QED BY <2>8, <2>9, <3>1, <3>2
    <2>10. ASSUME NEW e \in Events, NEW f \in Events, NEW m \in Int, InUse(e, m), InUse(f, m)' PROVE e = f
        <3>1. CASE InUse(f, m)
            BY <1>a, <2>10, <3>1 DEF IdsAreOwn
        <3>2. CASE f = Current(c) /\ m = n
            <4>1. IF FixedId(e) # NoId THEN m = FixedId(e) ELSE m \in 1..fresh
                BY <1>a, <2>10 DEF IdsAreOwn
            <4>2. FixedId(e) \in Int /\ FixedId(f) \in Int /\ NoId = 0
                BY IngestionAssumption DEF FixedId
            <4>3. FixedId(e) <= NoId /\ FixedId(f) <= NoId
                  /\ (FixedId(e) = FixedId(f) => FixedId(e) = NoId \/ e = f)
                BY IdAssumption
            <4> QED BY <2>2, <2>3, <3>2, <4>1, <4>2, <4>3
        <3> QED BY <2>8, <2>10, <3>1, <3>2
    <2>11. ASSUME NEW e \in Events, NEW f \in Events, NEW m \in Int, InUse(e, m)', InUse(f, m)' PROVE e = f
        BY <2>8, <2>10, <2>11
    <2>12. IdsAreOwn'
        <3>1. \A e \in Events : FixedId(e)' = FixedId(e)
            BY DEF FixedId
        <3> QED BY <2>9, <2>11, <3>1 DEF IdsAreOwn
    <2> QED BY <2>7, <2>12 DEF IngestionInv
<1>13. CASE UNCHANGED vars
    BY <1>1, <1>13, <1>a DEF vars, caller, service, IngestionTypeOK
<1> QED
    BY <1>2, <1>4, <1>5, <1>7, <1>8, <1>10, <1>11, <1>12, <1>13 DEF IngestionNext, Call, HandlerStep

LEMMA IngestionInvAlways == IngestionSpec => []IngestionInv
BY IngestionInvInitially, IngestionInvIsKept, PTL DEF IngestionSpec

-------------------------------------------------------------------------------
\* Whatever the batches, the failures of sends and the attempts that overlap, an
\* event that an answer of ingest_event or ingest_batch calls accepted is in the
\* topic with the id the answer gives.
THEOREM AcceptedStaysInTopic == IngestionSpec => []AcceptedIsInTopic
BY IngestionInvAlways, PTL DEF IngestionInv

\* For every program, number of retries and number of sends: two records of one
\* id are of one event, and the copies of an event with an id or an idempotency
\* key, made by retries of the SDK or by the producer, carry one id.
THEOREM CopiesAreRecognisable == IngestionSpec => []CopiesShareTheirId
<1>1. IngestionInv => CopiesShareTheirId
    <2> SUFFICES ASSUME IngestionInv, NEW i \in DOMAIN topic, NEW j \in DOMAIN topic
                 PROVE  /\ topic[i].id = topic[j].id => topic[i].event = topic[j].event
                        /\ /\ topic[i].event = topic[j].event
                           /\ FixedId(topic[i].event) # NoId
                           => topic[i].id = topic[j].id
        BY DEF CopiesShareTheirId
    <2>1. topic[i] \in Records /\ topic[j] \in Records
        BY DEF IngestionInv, IngestionTypeOK
    <2>2. /\ topic[i].event \in Events /\ topic[i].id \in Int
          /\ topic[j].event \in Events /\ topic[j].id \in Int
          /\ topic[i] = [event |-> topic[i].event, id |-> topic[i].id]
          /\ topic[j] = [event |-> topic[j].event, id |-> topic[j].id]
        BY <2>1 DEF Records
    <2>3. InUse(topic[i].event, topic[i].id) /\ InUse(topic[j].event, topic[j].id)
        BY <2>2 DEF InUse
    <2> QED BY <2>2, <2>3 DEF IngestionInv, IdsAreOwn
<1> QED BY <1>1, IngestionInvAlways, PTL

-------------------------------------------------------------------------------
(* The order of first copies.                                              *)

\* Where the caller is in its program, and that no handler is ahead of it.
CallerOk ==
    /\ outcome \in Seq({"returned", "raised", "403", "422"}) /\ pos = Len(outcome) + 1
    /\ attempt \in 0..MaxRetries
    /\ client = "ready" => attempt # MaxRetries
    /\ client # "ready" => attempt # 0 /\ pos \in DOMAIN program
    /\ \A c \in Tries : handler[c] # None => c[1] <= pos

\* The answer to a single event is the result of that event.
SingleAnswers ==
    \A c \in Tries :
        handler[c] # None /\ RequestOf(c) \notin BatchRequest /\ handler[c].reply = "202" =>
            1 \in DOMAIN handler[c].results /\ handler[c].results[1].status = "202"

\* The topic holds events of the requests made so far.
TopicIsPast == \A k \in DOMAIN topic : topic[k].event \in EventsIn((1..pos) \cap DOMAIN program)

\* What was returned for is in the topic, and all before it is of requests up
\* to that one.
ReturnedIsIn ==
    \A m \in DOMAIN outcome :
        outcome[m] = "returned" /\ program[m] \notin BatchRequest =>
            \E k \in DOMAIN topic :
                /\ topic[k].event = program[m][1]
                /\ \A j \in 1..k : topic[j].event \in EventsIn(1..m)

OrderInv == CallerOk /\ SingleAnswers /\ TopicIsPast /\ ReturnedIsIn

LEMMA CallIsKnown ==
    ASSUME IngestionTypeOK, CallerOk, client # "ready"
    PROVE  <<pos, attempt>> \in Tries
<1>1. \E n \in {Len(p) : p \in Programs} : \A p \in Programs : Len(p) <= n
    BY IngestionAssumption
<1>2. MaxRequests \in {Len(p) : p \in Programs} /\ \A p \in Programs : Len(p) <= MaxRequests
    BY <1>1 DEF MaxRequests
<1>3. program \in Seq(Seq(Events)) /\ MaxRequests \in Nat /\ Len(program) <= MaxRequests
    BY <1>2, IngestionAssumption DEF IngestionTypeOK
<1>4. pos \in 1..MaxRequests
    BY <1>3 DEF CallerOk
<1>5. attempt \in 1..MaxRetries
    BY IngestionAssumption DEF CallerOk
<1> QED BY <1>4, <1>5 DEF Tries

LEMMA OrderInitially == IngestionInit => OrderInv
BY IngestionAssumption DEF IngestionInit, OrderInv, CallerOk, SingleAnswers, TopicIsPast, ReturnedIsIn

\* What the topic says of the past is not changed by new records of requests
\* made by now.
LEMMA TopicIsExtended ==
    ASSUME IngestionInv, OrderInv, UNCHANGED <<program, pos, outcome>>,
           \/ UNCHANGED topic
           \/ \E rec \in Records : /\ rec.event \in EventsIn((1..pos) \cap DOMAIN program)
                                   /\ topic' = Append(topic, rec)
    PROVE  TopicIsPast' /\ ReturnedIsIn'
<1>1. topic \in Seq(Records)
    BY DEF IngestionInv, IngestionTypeOK
<1>2. ASSUME NEW S PROVE EventsIn(S)' = EventsIn(S)
    BY DEF EventsIn
<1>3. ASSUME NEW k \in DOMAIN topic' PROVE topic'[k].event \in EventsIn((1..pos) \cap DOMAIN program)
    <2>1. \A i \in DOMAIN topic : topic[i].event \in EventsIn((1..pos) \cap DOMAIN program)
        BY DEF OrderInv, TopicIsPast
    <2>2. CASE UNCHANGED topic
        BY <2>1, <2>2
    <2>3. ASSUME NEW rec \in Records, rec.event \in EventsIn((1..pos) \cap DOMAIN program),
                 topic' = Append(topic, rec)
          PROVE  topic'[k].event \in EventsIn((1..pos) \cap DOMAIN program)
        <3>1. topic'[k] = rec \/ (k \in DOMAIN topic /\ topic'[k] = topic[k])
            BY <1>1, <2>3
        <3> QED BY <2>1, <2>3, <3>1
    <2> QED BY <2>2, <2>3
<1>4. TopicIsPast'
    BY <1>3 DEF TopicIsPast, EventsIn
<1>5. \A k \in DOMAIN topic : k \in DOMAIN topic' /\ topic'[k] = topic[k] /\ \A j \in 1..k : j \in DOMAIN topic
    BY <1>1
<1>6. ReturnedIsIn'
    <2> SUFFICES ASSUME NEW m \in DOMAIN outcome, outcome[m] = "returned", program[m] \notin BatchRequest
                 PROVE  \E k \in DOMAIN topic' :
                            /\ topic'[k].event = program[m][1]
                            /\ \A j \in 1..k : topic'[j].event \in EventsIn(1..m)
        BY <1>2 DEF ReturnedIsIn
    <2>1. PICK k \in DOMAIN topic : /\ topic[k].event = program[m][1]
                                    /\ \A j \in 1..k : topic[j].event \in EventsIn(1..m)
        BY DEF OrderInv, ReturnedIsIn
    <2> QED BY <1>5, <2>1
<1> QED BY <1>4, <1>6

\* A handler's step.
LEMMA HandlerKeepsOrder ==
    ASSUME IngestionInv, OrderInv, UNCHANGED caller, NEW c \in Tries, Running(c),
           NEW h \in Handlers, handler' = [handler EXCEPT ![c] = h],
           RequestOf(c) \notin BatchRequest /\ h.reply = "202" =>
                1 \in DOMAIN h.results /\ h.results[1].status = "202",
           \/ UNCHANGED topic
           \/ ~Done(c) /\ handler[c].id # None /\ InTopic(c)
    PROVE  OrderInv'
<1> USE DEF caller
<1>1. handler[c] # None /\ c[1] <= pos /\ c[1] \in DOMAIN program /\ program \in Seq(Seq(Events))
    BY IngestionAssumption DEF Running, OrderInv, CallerOk, IngestionInv, HandlerOk, IngestionTypeOK
<1>2. handler'[c] = h /\ \A d \in Tries \ {c} : handler'[d] = handler[d]
    BY DEF IngestionInv, IngestionTypeOK
<1>3. CallerOk'
    BY <1>1, <1>2 DEF OrderInv, CallerOk
<1>4. SingleAnswers'
    BY <1>2 DEF OrderInv, SingleAnswers, RequestOf
<1>5. CASE UNCHANGED topic
    BY <1>3, <1>4, <1>5, TopicIsExtended DEF OrderInv
<1>6. CASE ~Done(c) /\ handler[c].id # None /\ InTopic(c)
    <2> DEFINE rec == [event |-> Current(c), id |-> handler[c].id]
    <2>1. Current(c) \in Events /\ handler[c] \in Handlers /\ Len(handler[c].results) + 1 \in DOMAIN RequestOf(c)
        BY <1>6, CurrentEvent
    <2>2. rec \in Records
        BY <1>6, <2>1 DEF Handlers, Records
    <2>3. c[1] \in (1..pos) \cap DOMAIN program
        BY <1>1
    <2>4. Current(c) \in EventsIn((1..pos) \cap DOMAIN program)
        BY <2>1, <2>3 DEF Current, RequestOf, EventsIn, Range
    <2>5. topic' = Append(topic, rec)
        BY <1>6 DEF InTopic
    <2> HIDE DEF rec
    <2>6. rec.event = Current(c)
        BY DEF rec
    <2>7. TopicIsPast' /\ ReturnedIsIn'
        BY <2>2, <2>4, <2>5, <2>6, TopicIsExtended
    <2> QED BY <1>3, <1>4, <2>7 DEF OrderInv
<1> QED BY <1>5, <1>6

LEMMA OrderIsKept == IngestionInv /\ OrderInv /\ [IngestionNext]_vars => OrderInv'
<1> SUFFICES ASSUME IngestionInv, OrderInv, [IngestionNext]_vars PROVE OrderInv'
    OBVIOUS
<1>a. /\ handler \in [Tries -> Handlers \cup {None}] /\ topic \in Seq(Records)
      /\ program \in Seq(Seq(Events)) /\ pos \in Nat \ {0}
      /\ pos = Len(outcome) + 1 /\ outcome \in Seq({"returned", "raised", "403", "422"})
      /\ MaxRetries \in Nat \ {0}
    BY IngestionAssumption DEF IngestionInv, IngestionTypeOK, OrderInv, CallerOk
<1>1. ASSUME NEW arrives \in BOOLEAN, SendRequest(arrives) PROVE OrderInv'
    <2> DEFINE c == <<pos, attempt + 1>>
               h == IF arrives THEN [results |-> <<>>, id |-> None, sent |-> 0, reply |-> "none"] ELSE None
    <2>1. /\ handler' = [handler EXCEPT ![c] = h] /\ UNCHANGED <<program, pos, outcome, topic>>
          /\ client = "ready" /\ client' = "waiting" /\ attempt' = attempt + 1 /\ pos <= Len(program)
        BY <1>1 DEF SendRequest
    <2>2. h # None => h.reply = "none"
        OBVIOUS
    <2> HIDE DEF h
    <2>3. ASSUME NEW d \in Tries PROVE handler'[d] = handler[d] \/ (d[1] = pos /\ handler'[d] = h)
        BY <1>a, <2>1
    <2>4. \A d \in Tries : handler'[d] # None => d[1] <= pos
        BY <1>a, <2>3 DEF OrderInv, CallerOk
    <2>5. attempt' \in 0..MaxRetries /\ attempt' # 0
        BY <1>a, <2>1 DEF OrderInv, CallerOk
    <2>6. CallerOk'
        BY <1>a, <2>1, <2>4, <2>5 DEF CallerOk
    <2>7. SingleAnswers'
        BY <2>1, <2>2, <2>3 DEF OrderInv, SingleAnswers, RequestOf
    <2> QED BY <2>1, <2>6, <2>7, TopicIsExtended DEF OrderInv
\* The caller goes on to its next request.
<1>2. ASSUME NEW s \in {"returned", "raised", "403", "422"}, NextRequest(s), client # "ready",
             UNCHANGED <<service, topic>>,
             s = "returned" => handler[<<pos, attempt>>] # None /\ handler[<<pos, attempt>>].reply = "202"
      PROVE  OrderInv'
    <2>1. /\ outcome' = Append(outcome, s) /\ pos' = pos + 1 /\ attempt' = 0 /\ client' = "ready"
          /\ UNCHANGED <<program, handler, topic>>
        BY <1>2 DEF NextRequest, service
    <2>2. CallerOk'
        <3>1. outcome' \in Seq({"returned", "raised", "403", "422"}) /\ pos' = Len(outcome') + 1
            BY <1>a, <2>1
        <3>2. \A c \in Tries : handler[c] # None => c[1] <= pos + 1
            BY <1>a DEF OrderInv, CallerOk, Tries
        <3> QED BY <1>a, <2>1, <3>1, <3>2 DEF CallerOk
    <2>3. SingleAnswers'
        BY <2>1 DEF OrderInv, SingleAnswers, RequestOf
    <2>4. (1..pos) \cap DOMAIN program = 1..pos /\ pos \in DOMAIN program
        BY <1>2, <1>a DEF OrderInv, CallerOk
    <2>5. \A k \in DOMAIN topic : topic[k].event \in EventsIn(1..pos)
        BY <2>4 DEF OrderInv, TopicIsPast
    <2>6. TopicIsPast'
        <3>1. (1..pos) \cap DOMAIN program \subseteq (1..(pos + 1)) \cap DOMAIN program
            BY <1>a
        <3>2. EventsIn((1..pos) \cap DOMAIN program) \subseteq EventsIn((1..(pos + 1)) \cap DOMAIN program)
            BY <3>1 DEF EventsIn
        <3> QED BY <2>1, <3>2 DEF OrderInv, TopicIsPast, EventsIn
    <2>7. ASSUME s = "returned", program[pos] \notin BatchRequest
          PROVE  \E k \in DOMAIN topic : /\ topic[k].event = program[pos][1]
                                         /\ \A j \in 1..k : topic[j].event \in EventsIn(1..pos)
        <3> DEFINE c == <<pos, attempt>>
        <3>1. c \in Tries /\ handler[c] # None /\ handler[c].reply = "202" /\ RequestOf(c) = program[pos]
            BY <1>2, <2>7, CallIsKnown DEF RequestOf, IngestionInv, OrderInv
        <3>2. 1 \in DOMAIN handler[c].results /\ handler[c].results[1].status = "202"
            BY <2>7, <3>1 DEF OrderInv, SingleAnswers
        <3>3. PICK k \in DOMAIN topic : topic[k] = [event |-> RequestOf(c)[1], id |-> handler[c].results[1].id]
            BY <3>1, <3>2 DEF IngestionInv, AcceptedIsInTopic
        <3>4. \A j \in 1..k : j \in DOMAIN topic
            BY <1>a
        <3> QED BY <2>5, <3>1, <3>3, <3>4
    <2>8. ReturnedIsIn'
        <3> SUFFICES ASSUME NEW m \in DOMAIN outcome', outcome'[m] = "returned", program[m] \notin BatchRequest
                     PROVE  \E k \in DOMAIN topic :
                                /\ topic[k].event = program[m][1]
                                /\ \A j \in 1..k : topic[j].event \in EventsIn(1..m)
            BY <2>1 DEF ReturnedIsIn, EventsIn
        <3>1. CASE m = pos
            <4>1. s = "returned"
                BY <1>a, <2>1, <3>1
            <4> QED BY <2>7, <3>1, <4>1
        <3>2. CASE m # pos
            <4>1. m \in DOMAIN outcome /\ outcome[m] = "returned"
                BY <1>a, <2>1, <3>2
            <4> QED BY <4>1 DEF OrderInv, ReturnedIsIn
        <3> QED BY <3>1, <3>2
    <2> QED BY <2>2, <2>3, <2>6, <2>8 DEF OrderInv
<1>3. ASSUME RetryOrRaise, client # "ready", UNCHANGED <<service, topic>> PROVE OrderInv'
    <2>1. CASE attempt = MaxRetries
        BY <1>2, <1>3, <2>1 DEF RetryOrRaise
    <2>2. CASE attempt # MaxRetries
        <3>1. client' = "ready" /\ UNCHANGED <<program, pos, attempt, outcome, handler, topic>>
            BY <1>3, <2>2 DEF RetryOrRaise, service
        <3>2. CallerOk' /\ SingleAnswers'
            BY <2>2, <3>1 DEF OrderInv, CallerOk, SingleAnswers, RequestOf
        <3> QED BY <3>1, <3>2, TopicIsExtended DEF OrderInv
    <2> QED BY <2>1, <2>2
<1>4. CASE ReceiveReply
    <2> DEFINE reply == handler[<<pos, attempt>>].reply
    <2>1. client # "ready" /\ handler[<<pos, attempt>>] # None /\ UNCHANGED <<service, topic>>
        BY <1>4 DEF ReceiveReply
    <2>2. \/ reply = "202" /\ NextRequest("returned")
          \/ NextRequest("403") \/ NextRequest("422")
          \/ RetryOrRaise
        BY <1>4 DEF ReceiveReply, AfterError
    <2> QED BY <1>2, <1>3, <2>1, <2>2
<1>5. CASE TransportError
    BY <1>3, <1>5 DEF TransportError, AfterError
<1>6. ASSUME NEW c \in Tries, Running(c), ~Done(c), NEW res \in Results, EndEvent(c, res), UNCHANGED caller,
             \/ UNCHANGED topic
             \/ handler[c].id # None /\ InTopic(c)
      PROVE  OrderInv'
    <2> DEFINE h == IF RequestOf(c) \in BatchRequest
                    THEN [handler[c] EXCEPT !.results = Append(@, res), !.id = None, !.sent = 0]
                    ELSE [handler[c] EXCEPT !.reply = res.status, !.results = <<res>>]
    <2>1. handler' = [handler EXCEPT ![c] = h]
        BY <1>6 DEF EndEvent
    <2>2. handler[c] \in Handlers
        BY <1>6, CurrentEvent
    <2>3. h \in Handlers
        <3>1. Append(handler[c].results, res) \in Seq(Results) /\ <<res>> \in Seq(Results) /\ res.status \in Statuses
            BY <2>2 DEF Handlers, Results
        <3> QED BY <2>2, <3>1 DEF Handlers
    <2>4. RequestOf(c) \notin BatchRequest =>
              h.results = <<res>> /\ h.reply = res.status /\ 1 \in DOMAIN h.results /\ h.results[1] = res
        BY <2>2 DEF Handlers
    <2> HIDE DEF h
    <2> QED BY <1>6, <2>1, <2>3, <2>4, HandlerKeepsOrder
<1>7. ASSUME NEW c \in Tries, Refuse(c) \/ SendSucceeds(c) PROVE OrderInv'
    <2>1. Result("403", None) \in Results /\ Result("422", None) \in Results
        BY DEF Result, Results, Statuses
    <2>2. CASE Refuse(c)
        BY <1>6, <2>1, <2>2 DEF Refuse, caller
    <2>3. CASE SendSucceeds(c)
        <3>1. Result("202", handler[c].id) \in Results
            BY <2>3, CurrentEvent DEF SendSucceeds, Handlers, Result, Results, Statuses
        <3> QED BY <1>6, <2>3, <3>1 DEF SendSucceeds, Acknowledged
    <2> QED BY <1>7, <2>2, <2>3
<1>8. ASSUME NEW c \in Tries, SendFails(c) PROVE OrderInv'
    <2>1. /\ Running(c) /\ ~Done(c) /\ handler[c].id # None /\ UNCHANGED caller
          /\ InTopic(c) \/ UNCHANGED topic
        BY <1>8 DEF SendFails
    <2>2. CASE EndEvent(c, Result("500", None))
        <3>1. Result("500", None) \in Results
            BY DEF Result, Results, Statuses
        <3> QED BY <1>6, <2>1, <2>2, <3>1
    <2>3. CASE handler' = [handler EXCEPT ![c].sent = @ + 1]
        <3> DEFINE h == [handler[c] EXCEPT !.sent = @ + 1]
        <3>1. handler[c] \in Handlers /\ handler[c].reply = "none"
            BY <2>1, CurrentEvent
        <3>2. h \in Handlers /\ h.reply = "none"
            BY <3>1 DEF Handlers
        <3>3. handler' = [handler EXCEPT ![c] = h]
            BY <2>3
        <3> HIDE DEF h
        <3> QED BY <2>1, <3>2, <3>3, HandlerKeepsOrder
    <2> QED BY <1>8, <2>2, <2>3 DEF SendFails
<1>9. ASSUME NEW c \in Tries, BuildEnvelope(c) PROVE OrderInv'
    <2> DEFINE n == EventIdOf(Current(c), fresh + 1)
               h == [handler[c] EXCEPT !.id = n]
    <2>1. Running(c) /\ ~Done(c) /\ UNCHANGED <<caller, topic>> /\ handler' = [handler EXCEPT ![c] = h]
        BY <1>9 DEF BuildEnvelope
    <2>2. handler[c] \in Handlers /\ handler[c].reply = "none" /\ Current(c) \in Events /\ fresh \in Nat
        BY <2>1, CurrentEvent DEF IngestionInv, IngestionTypeOK
    <2>3. n \in Int
        BY <2>2, IngestionAssumption DEF EventIdOf, FixedId
    <2> HIDE DEF n
    <2>4. h \in Handlers /\ h.reply = "none"
        BY <2>2, <2>3 DEF Handlers
    <2> HIDE DEF h
    <2> QED BY <2>1, <2>4, HandlerKeepsOrder
<1>10. ASSUME NEW c \in Tries, RefuseBody(c) \/ RefuseDemo(c) \/ ReplyToBatch(c) PROVE OrderInv'
    <2>1. PICK s \in Statuses : handler' = [handler EXCEPT ![c].reply = s] /\ (s = "202" => ReplyToBatch(c))
        BY <1>10 DEF RefuseBody, RefuseDemo, ReplyToBatch, Statuses
    <2>2. Running(c) /\ UNCHANGED <<caller, topic>>
        BY <1>10 DEF RefuseBody, RefuseDemo, ReplyToBatch
    <2>3. /\ handler[c] \in Handlers /\ handler[c].reply = "none" /\ handler[c] # None
          /\ RequestOf(c) \notin BatchRequest => handler[c].results = <<>>
        BY <2>2 DEF IngestionInv, HandlerOk, Running
    <2>4. ReplyToBatch(c) => RequestOf(c) \in BatchRequest
        <3>1. RequestOf(c) \in CallerRequests
            <4>1. c[1] \in DOMAIN program /\ program \in Programs
                BY <2>3 DEF IngestionInv, HandlerOk, IngestionTypeOK
            <4> QED BY <4>1 DEF CallerRequests, RequestOf, Range
        <3>2. RequestOf(c) \notin BatchRequest => Len(RequestOf(c)) = 1
            <4>1. \A r \in CallerRequests : r \in BatchRequest \/ Len(r) = 1
                BY IngestionAssumption
            <4> QED BY <3>1, <4>1
        <3>3. ReplyToBatch(c) => Len(handler[c].results) = Len(RequestOf(c))
            BY DEF ReplyToBatch, Done
        <3>4. handler[c].results = <<>> => Len(handler[c].results) = 0
            OBVIOUS
        <3> QED BY <2>3, <3>2, <3>3, <3>4
    <2> DEFINE h == [handler[c] EXCEPT !.reply = s]
    <2>5. h \in Handlers /\ h.reply = s /\ handler' = [handler EXCEPT ![c] = h]
        BY <2>1, <2>3 DEF Handlers
    <2> HIDE DEF h
    <2> QED BY <2>1, <2>2, <2>4, <2>5, HandlerKeepsOrder
<1>11. CASE UNCHANGED vars
    <2>1. CallerOk' /\ SingleAnswers'
        BY <1>11 DEF vars, caller, service, OrderInv, CallerOk, SingleAnswers, RequestOf
    <2> QED BY <1>11, <2>1, TopicIsExtended DEF OrderInv, vars, caller
<1> QED
    BY <1>1, <1>4, <1>5, <1>7, <1>8, <1>9, <1>10, <1>11 DEF IngestionNext, Call, HandlerStep

\* For any programs of single events and batches, retries and handlers that
\* outlive their client: what the SDK returned for stands in the topic before
\* the first copy of whatever is new in a later request.
THEOREM ReturnsAreInOrder == IngestionSpec => []FirstCopiesInOrder
<1>1. IngestionInv /\ OrderInv => FirstCopiesInOrder
    <2> SUFFICES ASSUME IngestionInv, OrderInv, NEW m \in DOMAIN outcome,
                        outcome[m] = "returned", program[m] \notin BatchRequest,
                        NEW e \in EventsIn(m + 1 .. Len(program)) \ EventsIn(1..m)
                 PROVE  MetFirst(program[m][1], e)
        BY DEF FirstCopiesInOrder
    <2>1. PICK k \in DOMAIN topic : /\ topic[k].event = program[m][1]
                                    /\ \A j \in 1..k : topic[j].event \in EventsIn(1..m)
        BY DEF OrderInv, ReturnedIsIn
    <2> QED BY <2>1 DEF MetFirst
<1>2. IngestionSpec => [](IngestionInv /\ OrderInv)
    BY IngestionInvInitially, IngestionInvIsKept, OrderInitially, OrderIsKept, PTL DEF IngestionSpec
<1> QED BY <1>1, <1>2, PTL
===============================================================================
