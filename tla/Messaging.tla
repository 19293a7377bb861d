------------------------------- MODULE Messaging -------------------------------
(***************************************************************************)
(* Message clients (pinpoint/instrumentations/_kafka.py, _amqp.py, kafka,  *)
(* confluent_kafka, aiokafka, pika, aio_pika, celery): the root span of a  *)
(* delivery and who closes it, and the trace headers of what is published. *)
(*                                                                         *)
(* A pull consumer hands out one record per call, and nothing brackets     *)
(* what its caller does with it: the span stays current until the caller   *)
(* comes back, and its scope rides on the consumer.  A push consumer calls *)
(* a handler, which the span brackets.  Workers are threads or tasks, each *)
(* with a context of its own.                                              *)
(***************************************************************************)
EXTENDS Integers, FiniteSets

CONSTANTS
  Workers,
  Serving,      \* those that handle requests of the application too
  Pulled,       \* KafkaConsumer as an iterator, Consumer.poll, getone, and
                \* pika's consume() generator
  Pushed,       \* basic_consume and Queue.consume callbacks, Celery workers
  Shared,       \* pull consumers that several workers may fetch from at once
  Fetchers,     \* the methods in use, of Fetcher
  Publishers,   \* the publishers in use, of Publisher
  Messages

-----------------------------------------------------------------------------
(* The methods that hand out a record.  `lasts`: its span lasts until the  *)
(* next call; otherwise it has ended already.  `asks`: when the wrapper    *)
(* looks whether the agent is enabled: before each wait, after it, or once *)
(* for all.                                                                *)
(* `closes`: it ends the scope that the consumer holds; there is none      *)
(* where there is nothing to hold it.                                      *)
KafkaNext        == [lasts |-> TRUE,  asks |-> "before", closes |-> TRUE]
KafkaPoll        == [lasts |-> FALSE, asks |-> "before", closes |-> TRUE]
ConfluentPoll    == [lasts |-> TRUE,  asks |-> "after",  closes |-> TRUE]
ConfluentConsume == [lasts |-> FALSE, asks |-> "after",  closes |-> TRUE]
AiokafkaGetone   == ConfluentPoll
AiokafkaGetmany  == ConfluentConsume
(* consume() asks when it makes the generator, which goes on tracing after *)
(* that and closes the scope of a delivery when it is resumed.             *)
PikaConsume      == [lasts |-> TRUE,  asks |-> "once",   closes |-> TRUE]
PikaBasicGet     == [lasts |-> FALSE, asks |-> "after",  closes |-> FALSE]
AioPikaAnext     == PikaBasicGet

Fetcher == [kafka_next |-> KafkaNext, kafka_poll |-> KafkaPoll,
            poll |-> ConfluentPoll, consume |-> ConfluentConsume,
            getone |-> AiokafkaGetone, getmany |-> AiokafkaGetmany,
            generator |-> PikaConsume, basic_get |-> PikaBasicGet,
            anext |-> AioPikaAnext]

(* The methods that publish.  `replaces`: the headers of an earlier hop    *)
(* are dropped; the others write over them.  `carries`: FALSE when the     *)
(* message format has no headers.                                          *)
KafkaSend        == [replaces |-> TRUE,  carries |-> BOOLEAN]
ConfluentProduce == [replaces |-> TRUE,  carries |-> {TRUE}]
AiokafkaSend     == ConfluentProduce
PikaPublish      == [replaces |-> FALSE, carries |-> {TRUE}]
AioPikaPublish   == PikaPublish
CeleryApplyAsync == PikaPublish

Publisher == [kafka |-> KafkaSend, confluent |-> ConfluentProduce,
              aiokafka |-> AiokafkaSend, pika |-> PikaPublish,
              aio_pika |-> AioPikaPublish, celery |-> CeleryApplyAsync]

Consumers == Pulled \cup Pushed

Nobody   == "none"
App      == "app"        \* the span of a request that the worker handles
Template == "template"   \* a message object that the user publishes again
Upstream == "upstream"   \* an event of another process

ASSUME MessagingAssumption ==
  /\ Serving \subseteq Workers /\ Shared \subseteq Pulled /\ Pulled \cap Pushed = {}
  /\ Fetchers \subseteq DOMAIN Fetcher /\ Publishers \subseteq DOMAIN Publisher
  /\ {Nobody, App, Template} \cap Messages = {}

(* What a carrier holds: the event its context names, and the drop marker. *)
Header(t, s) == [trace |-> t, s0 |-> s]
NoHeader     == Header(Nobody, FALSE)

Scope(m, w, old) == [msg |-> m, worker |-> w, restores |-> old]
NoScope == Scope(Nobody, Nobody, Nobody)

(* `sure`: it asked before its wait, or before all, and the agent was      *)
(* enabled.                                                                *)
NoSurface == [lasts |-> FALSE, sure |-> FALSE]

VARIABLES
  ctx,        \* per worker: _current_span
  at,         \* per worker: free, fetching, handling, sending
  surface,    \* per worker: the method it fetches with
  with,       \* per worker: the consumer it fetches from, the message it
              \* handles or sends
  outer,      \* per worker: the handler around its send
  scope,      \* per worker: the scope of its handler
  request,    \* per worker: inside a request of the application
  before,     \* per worker: what the request's token restores
  event,      \* per worker: its producer event is open
  held,       \* per pull consumer: its _pinpoint_consume_scope
  finalizers, \* per pull consumer: the scopes whose finalizer is alive
  life,       \* per consumer: live, closed, dropped, collected
  place,      \* per message: new, wire, buffered, taken
  from,       \* per message: the consumer that delivered it
  span,       \* per message: the root span of its delivery
  opened,     \* per message: root spans opened for it
  header,     \* per message: the headers on the wire
  carrier,    \* per message object of the user: its headers
  sent,       \* per message: the object it was published from, and by what
  enabled     \* the agent is

workers       == <<ctx, at, surface, with, outer, scope, request, before, event>>
consumers     == <<held, finalizers, life>>
messages      == <<place, from, span, opened, header, carrier, sent>>
messagingVars == <<workers, consumers, messages, enabled>>

MessagingInit ==
  /\ ctx = [w \in Workers |-> Nobody] /\ at = [w \in Workers |-> "free"]
  /\ surface = [w \in Workers |-> NoSurface]
  /\ with = [w \in Workers |-> Nobody] /\ outer = [w \in Workers |-> Nobody]
  /\ scope = [w \in Workers |-> NoScope]
  /\ request = [w \in Workers |-> FALSE] /\ before = [w \in Workers |-> Nobody]
  /\ event = [w \in Workers |-> FALSE]
  /\ held = [c \in Pulled |-> NoScope] /\ finalizers = [c \in Pulled |-> {}]
  /\ life = [c \in Consumers |-> "live"]
  /\ place = [m \in Messages |-> "new"] /\ from = [m \in Messages |-> Nobody]
  /\ span = [m \in Messages |-> "none"] /\ opened = [m \in Messages |-> 0]
  /\ header = [m \in Messages |-> NoHeader]
  /\ carrier = [o \in Messages \cup {Template} |-> NoHeader]
  /\ sent = [m \in Messages |-> [object |-> Nobody, by |-> Nobody]]
  /\ enabled = TRUE

-----------------------------------------------------------------------------
(* Spans and scopes *)

(* current_span() is not None: an ended span is none, but end() of a null  *)
(* span does nothing.                                                      *)
Visible(w) ==
  \/ ctx[w] = App /\ request[w]
  \/ ctx[w] \in Messages /\ span[ctx[w]] \in {"open", "unsampled", "null"}

Ended(s) == IF s \in {"open", "unsampled"} THEN "ended" ELSE s

(* reset_quietly: a token of another context raises, which is swallowed.   *)
AfterReset(w, sc) ==
  IF sc.worker = w THEN [ctx EXCEPT ![w] = sc.restores] ELSE ctx

EndsIfReset(w, sc) ==                                  \* mutant
  IF sc.worker = w THEN [span EXCEPT ![sc.msg] = Ended(@)] ELSE span
SpansAfter(w, sc) == [span EXCEPT ![sc.msg] = Ended(@)]

(* close_span_scope, on worker w: the span ends even if the reset fails.   *)
CloseSpanScope(w, sc) ==
  IF sc = NoScope THEN UNCHANGED <<ctx, span>>
  ELSE ctx' = AfterReset(w, sc) /\ span' = SpansAfter(w, sc)

(* agent.new_span: the drop marker upstream makes it unsampled, and it is  *)
(* a null span when native refuses it.                                     *)
NewSpan(m) == IF ~enabled THEN {"null"}
              ELSE {"null", IF header[m].s0 THEN "unsampled" ELSE "open"}

Count(m) == opened' = [opened EXCEPT ![m] = @ + 1]

AsideOrNot(w) == TRUE                                  \* mutant
(* A scope that lasts through the caller's own code steps aside when the   *)
(* delivery came inside somebody else's trace.                             *)
MayHold(w) == ~Visible(w)

-----------------------------------------------------------------------------
(* The application around the clients *)

EnterRequest(w) ==
  /\ w \in Serving /\ at[w] = "free" /\ ~request[w] /\ ~Visible(w)
  /\ request' = [request EXCEPT ![w] = TRUE]
  /\ before' = [before EXCEPT ![w] = ctx[w]]
  /\ ctx' = [ctx EXCEPT ![w] = App]
  /\ UNCHANGED <<at, surface, with, outer, scope, event, consumers, messages, enabled>>

LeaveRequest(w) ==
  /\ at[w] = "free" /\ request[w]
  /\ request' = [request EXCEPT ![w] = FALSE]
  /\ ctx' = [ctx EXCEPT ![w] = before[w]]
  /\ before' = [before EXCEPT ![w] = Nobody]
  /\ UNCHANGED <<at, surface, with, outer, scope, event, consumers, messages, enabled>>

Disable ==
  /\ enabled /\ enabled' = FALSE
  /\ UNCHANGED <<workers, consumers, messages>>

(* A message of another process, of a trace or with the drop marker; one   *)
(* without either is what a publisher outside of any trace sends.          *)
Arrive(m) ==
  /\ place[m] = "new" /\ \A w \in Workers : with[w] # m
  /\ place' = [place EXCEPT ![m] = "wire"]
  /\ \E h \in {Header(Upstream, FALSE), Header(Nobody, TRUE)} :
       header' = [header EXCEPT ![m] = h]
  /\ UNCHANGED <<workers, consumers, from, span, opened, carrier, sent, enabled>>

-----------------------------------------------------------------------------
(* Plumbing inside a client: the poll(update_offsets=False) that drives    *)
(* KafkaConsumer.__next__, the sink of a BlockingChannel, on_message of a  *)
(* queue iterator.  It passes through the same hooks as the surface that   *)
(* hands the message to the user, and is recognised there.                 *)
BasicConsumeWraps(callback) == callback \notin {"none", "ours", "sink"}
QueueConsumeWraps(callback) == callback \notin {"none", "ours", "iterator"}
PollTraces(update_offsets)  == update_offsets

TracesAnyHook == TRUE                                  \* mutant
TracesPlumbing ==
  BasicConsumeWraps("sink") \/ QueueConsumeWraps("iterator") \/ PollTraces(FALSE)

Buffer(m) ==
  /\ place[m] = "wire"
  /\ place' = [place EXCEPT ![m] = "buffered"]
  /\ IF TracesPlumbing /\ enabled
     THEN Count(m) /\ span' = [span EXCEPT ![m] = "ended"]
     ELSE UNCHANGED <<opened, span>>
  /\ UNCHANGED <<workers, consumers, from, header, carrier, sent, enabled>>

(* The message reaches the user, who may publish it again as it is. *)
Takes(c, m) ==
  /\ place[m] \in {"wire", "buffered"}
  /\ place' = [place EXCEPT ![m] = "taken"]
  /\ from' = [from EXCEPT ![m] = c]
  /\ carrier' = [carrier EXCEPT ![m] = header[m]]

-----------------------------------------------------------------------------
(* Pull consumers *)

KeepsScope(c) == NoScope                               \* mutant
(* close_consumer_scope takes the attribute, whoever fetches or closes.    *)
TakenScope(c) == held[c]

CloseConsumerScope(w, c) ==
  /\ held' = [held EXCEPT ![c] = NoScope]
  /\ finalizers' = [finalizers EXCEPT ![c] = @ \ {held[c]}]
  /\ CloseSpanScope(w, TakenScope(c))

MayFetch(w, c) ==
  /\ at[w] = "free" /\ life[c] = "live"
  /\ c \in Shared \/ \A v \in Workers : at[v] = "fetching" => with[v] # c

(* What a method knows when its wait begins: a generator may have been     *)
(* made while the agent was still enabled.                                 *)
Knows(s) == CASE s.asks = "before" -> {enabled}
              [] s.asks = "after"  -> {FALSE}
              [] s.asks = "once"   -> {enabled, TRUE}

(* The previous record is done, and its scope closes before the wait,      *)
(* whether the agent is enabled or not.                                    *)
Fetch(w, c, s) ==
  /\ MayFetch(w, c)
  /\ IF s.closes THEN CloseConsumerScope(w, c)
     ELSE held[c] = NoScope /\ UNCHANGED <<ctx, span, held, finalizers>>
  /\ at' = [at EXCEPT ![w] = "fetching"] /\ with' = [with EXCEPT ![w] = c]
  /\ \E known \in Knows(s) :
       surface' = [surface EXCEPT ![w] = [lasts |-> s.lasts, sure |-> known]]
  /\ UNCHANGED <<outer, scope, request, before, event, life, place, from,
                 opened, header, carrier, sent, enabled>>

Returns(w) ==
  /\ at' = [at EXCEPT ![w] = "free"] /\ with' = [with EXCEPT ![w] = Nobody]
  /\ surface' = [surface EXCEPT ![w] = NoSurface]

(* An agent that was disabled stays disabled. *)
Asked(w) == surface[w].sure \/ enabled

(* Nothing, an error record, or an exception. *)
FetchEnds(w) ==
  /\ at[w] = "fetching" /\ Returns(w)
  /\ UNCHANGED <<ctx, outer, scope, request, before, event, consumers, messages,
                 enabled>>

(* The scope is stored on the consumer, with a finalizer as safety net; on *)
(* a type without the slot it is closed at once.                           *)
Advance(w, c, m, s) ==
  LET sc == Scope(m, w, ctx[w]) IN
  /\ Count(m)
  /\ \/ /\ finalizers' = [finalizers EXCEPT ![c] = @ \cup {sc}]
        /\ held' = [held EXCEPT ![c] = sc]
        /\ ctx' = [ctx EXCEPT ![w] = m]
        /\ span' = [span EXCEPT ![m] = s]
     \/ /\ span' = [span EXCEPT ![m] = Ended(s)]
        /\ UNCHANGED <<held, finalizers, ctx>>

(* open_consume_scope: setup may fail with or without a span, which ends.  *)
SetUpFails(m) ==
  /\ \/ Count(m) /\ span' = [span EXCEPT ![m] = "ended"]
     \/ UNCHANGED <<opened, span>>
  /\ UNCHANGED ctx

(* advance_consume_scope; pika opens its scope for the generator alike.    *)
Record(w, m) ==
  LET c == with[w] IN
  /\ at[w] = "fetching" /\ surface[w].lasts /\ Takes(c, m) /\ Returns(w)
  /\ \/ /\ ~MayHold(w) \/ ~Asked(w)
        /\ UNCHANGED <<ctx, span, opened, held, finalizers>>
     \/ /\ MayHold(w) /\ Asked(w)
        /\ \/ \E s \in NewSpan(m) : Advance(w, c, m, s)
           \/ SetUpFails(m) /\ UNCHANGED <<held, finalizers>>
  /\ UNCHANGED <<outer, scope, request, before, event, life, header, sent,
                 enabled>>

(* open_consume_span, for each record of a batch: a span that has ended    *)
(* when the caller gets the record, in whatever trace it is.  One record   *)
(* that fails does not keep the others from it.                            *)
Deliver(w, m) ==
  /\ at[w] = "fetching" /\ ~surface[w].lasts /\ Takes(with[w], m)
  /\ \/ Asked(w) /\ Count(m) /\ span' = [span EXCEPT ![m] = "ended"]
     \/ UNCHANGED <<opened, span>>
  /\ UNCHANGED <<workers, consumers, header, sent, enabled>>

(* close() or stop(), by any worker. *)
Close(w, c) ==
  /\ at[w] = "free" /\ c \in Pulled /\ life[c] = "live"
  /\ \A v \in Workers : with[v] # c
  /\ CloseConsumerScope(w, c)
  /\ life' = [life EXCEPT ![c] = "closed"]
  /\ UNCHANGED <<at, surface, with, outer, scope, request, before, event, place, from,
                 opened, header, carrier, sent, enabled>>

(* The application loses its last reference. *)
Drop(c) ==
  /\ c \in Pulled /\ life[c] \in {"live", "closed"}
  /\ \A v \in Workers : with[v] # c
  /\ life' = [life EXCEPT ![c] = "dropped"]
  /\ UNCHANGED <<workers, held, finalizers, messages, enabled>>

(* The finalizers run, on whichever worker collects. *)
Collect(w, c) ==
  /\ life[c] = "dropped"
  /\ IF finalizers[c] = {}
     THEN life' = [life EXCEPT ![c] = "collected"]
          /\ UNCHANGED <<ctx, span, finalizers>>
     ELSE \E sc \in finalizers[c] :
            /\ finalizers' = [finalizers EXCEPT ![c] = @ \ {sc}]
            /\ CloseSpanScope(w, sc)
            /\ UNCHANGED life
  /\ UNCHANGED <<at, surface, with, outer, scope, request, before, event, held, place,
                 from, opened, header, carrier, sent, enabled>>

-----------------------------------------------------------------------------
(* Push consumers *)

OpensScope(w, m) ==
  \E s \in NewSpan(m) :
    /\ Count(m)
    /\ scope' = [scope EXCEPT ![w] = Scope(m, w, ctx[w])]
    /\ ctx' = [ctx EXCEPT ![w] = m]
    /\ span' = [span EXCEPT ![m] = s]

(* open_consumer_scope, in the wrapped callback. *)
OpenConsumerScope(w, m) ==
  \/ OpensScope(w, m)
  \/ SetUpFails(m) /\ UNCHANGED scope

(* task_prerun: the scope rides on the task's request.  Where it cannot be *)
(* kept there the span ends, and is left in the context.                   *)
OnPrerun(w, m) ==
  \/ OpenConsumerScope(w, m)
  \/ /\ Count(m) /\ ctx' = [ctx EXCEPT ![w] = m]
     /\ \E s \in NewSpan(m) : span' = [span EXCEPT ![m] = Ended(s)]
     /\ UNCHANGED scope

(* The handler, or the task, runs in any case. *)
Dispatch(w, c, m) ==
  /\ at[w] = "free" /\ c \in Pushed /\ Takes(c, m)
  /\ at' = [at EXCEPT ![w] = "handling"] /\ with' = [with EXCEPT ![w] = m]
  /\ \/ /\ ~MayHold(w) \/ ~enabled
        /\ UNCHANGED <<ctx, span, opened, scope>>
     \/ MayHold(w) /\ enabled /\ (OpenConsumerScope(w, m) \/ OnPrerun(w, m))
  /\ UNCHANGED <<surface, outer, request, before, event, consumers, header, sent,
                 enabled>>

(* It returns or raises: the finally of the callback, or task_postrun.     *)
HandlerEnds(w) ==
  /\ at[w] = "handling"
  /\ CloseSpanScope(w, scope[w])
  /\ scope' = [scope EXCEPT ![w] = NoScope]
  /\ Returns(w)
  /\ UNCHANGED <<outer, request, before, event, consumers, place, from, opened,
                 header, carrier, sent, enabled>>

-----------------------------------------------------------------------------
(* Publishing *)

(* The span that a producer wrapper finds, and what it injects.            *)
Sender(w) == IF ~Visible(w) THEN "nobody"
             ELSE IF ctx[w] = App THEN "sampled"
             ELSE CASE span[ctx[w]] = "open"      -> "sampled"
                    [] span[ctx[w]] = "unsampled" -> "unsampled"
                    [] span[ctx[w]] = "null"      -> "nobody"

(* inject_trace_headers of a publisher, over the headers of the object.    *)
Injected(m, by, old, replaces) ==
  CASE by = "nobody"    -> old
    [] by = "sampled"   -> Header(m, old.s0 /\ ~replaces)
    [] by = "unsampled" -> Header(IF replaces THEN Nobody ELSE old.trace, TRUE)

InPlace(o, h) == [carrier EXCEPT ![o] = h]             \* mutant
(* The headers go into a copy of the arguments, the properties or the      *)
(* message.                                                                *)
UserObjects(o, h) == carrier

(* The event is opened before the injection, so that the headers name it.  *)
(* Setup that fails ends it and sends what the user gave; annotation that  *)
(* fails ends it and sends the injected headers.  A publisher whose format *)
(* has no headers traces its send and injects nothing.                     *)
Prepare(w, m, o, p) ==
  LET by == Sender(w) IN
  /\ at[w] \in {"free", "handling"} /\ place[m] = "new"
  /\ \A v \in Workers : with[v] # m
  /\ o \in {Template} \cup {n \in Messages : place[n] = "taken"}
  /\ at' = [at EXCEPT ![w] = "sending"] /\ with' = [with EXCEPT ![w] = m]
  /\ outer' = [outer EXCEPT ![w] = with[w]]
  /\ \/ /\ TRUE \in Publisher[p].carries
        /\ LET h == Injected(m, by, carrier[o], Publisher[p].replaces)
           IN header' = [header EXCEPT ![m] = h] /\ carrier' = UserObjects(o, h)
        /\ sent' = [sent EXCEPT ![m] = [object |-> o, by |-> by]]
        /\ \E annotated \in BOOLEAN :
             event' = [event EXCEPT ![w] = annotated /\ by = "sampled"]
     \/ /\ by = "sampled"
        /\ header' = [header EXCEPT ![m] = carrier[o]]
        /\ sent' = [sent EXCEPT ![m] = [object |-> o, by |-> "nobody"]]
        /\ event' = [event EXCEPT ![w] = FALSE \in Publisher[p].carries]
        /\ UNCHANGED carrier
  /\ UNCHANGED <<ctx, surface, scope, request, before, consumers, place, from, span,
                 opened, enabled>>

EventAfter(w)  == FALSE

(* The call returns, or it raises or is cancelled and nothing was sent.    *)
Send(w) ==
  /\ at[w] = "sending"
  /\ \E p \in {"wire", "lost"} : place' = [place EXCEPT ![with[w]] = p]
  /\ event' = [event EXCEPT ![w] = EventAfter(w)]
  /\ at' = [at EXCEPT ![w] = IF outer[w] = Nobody THEN "free" ELSE "handling"]
  /\ with' = [with EXCEPT ![w] = outer[w]]
  /\ outer' = [outer EXCEPT ![w] = Nobody]
  /\ UNCHANGED <<ctx, surface, scope, request, before, consumers, from, span, opened,
                 header, carrier, sent, enabled>>

-----------------------------------------------------------------------------
MessagingNext ==
  \/ \E w \in Workers :
       \/ EnterRequest(w) \/ LeaveRequest(w) \/ FetchEnds(w) \/ HandlerEnds(w)
       \/ Send(w)
       \/ \E c \in Pulled : Close(w, c) \/ Collect(w, c)
       \/ \E c \in Pulled, s \in Fetchers : Fetch(w, c, Fetcher[s])
       \/ \E m \in Messages :
            \/ Record(w, m) \/ Deliver(w, m)
            \/ \E c \in Pushed : Dispatch(w, c, m)
            \/ \E o \in Messages \cup {Template}, p \in Publishers : Prepare(w, m, o, p)
  \/ \E c \in Pulled : Drop(c)
  \/ \E m \in Messages : Arrive(m) \/ Buffer(m)
  \/ Disable

MessagingSpec == MessagingInit /\ [][MessagingNext]_messagingVars

(* Handlers, fetches and sends return, an application does not keep a      *)
(* consumer for ever, and what it dropped is collected.                    *)
Fairness ==
  /\ \A w \in Workers : /\ WF_messagingVars(FetchEnds(w))
                        /\ WF_messagingVars(HandlerEnds(w) \/ Send(w))
  /\ \A c \in Pulled : /\ SF_messagingVars(Drop(c))
                       /\ WF_messagingVars(\E w \in Workers : Collect(w, c))

FairSpec == MessagingSpec /\ Fairness

-----------------------------------------------------------------------------
(* Properties *)

Recording == {"open", "unsampled"}

(* Every variable has its type. *)
MessagingTypeOK ==
  /\ ctx \in [Workers -> Messages \cup {Nobody, App}]
  /\ at \in [Workers -> {"free", "fetching", "handling", "sending"}]
  /\ held \in [Pulled -> [msg : Messages, worker : Workers,
                          restores : Messages \cup {Nobody}] \cup {NoScope}]
  /\ life \in [Consumers -> {"live", "closed", "dropped", "collected"}]
  /\ place \in [Messages -> {"new", "wire", "buffered", "taken", "lost"}]
  /\ span \in [Messages -> Recording \cup {"none", "null", "ended"}]
  /\ event \in [Workers -> BOOLEAN] /\ enabled \in BOOLEAN

(* Somebody will close the span of message m, which is current on worker   *)
(* w: its handler, its consumer, or the finalizer of a consumer that       *)
(* nobody refers to any more.                                              *)
HasCloser(w, m) ==
  LET c == from[m] IN
  \/ scope[w].msg = m
  \/ c \in Pulled /\ IF life[c] = "dropped"
                     THEN \E sc \in finalizers[c] : sc.msg = m
                     ELSE held[c].msg = m

(* "leave this span current on its thread forever [...], which suppresses  *)
(* every later root span there" (_kafka.py 429-431): a delivery span that  *)
(* is current has somebody who closes it; "so the span never covers the    *)
(* fetch's own blocking wait" (415): nor is one open while its consumer    *)
(* fetches; and no producer event outlives its send.                       *)
ScopeFollowsRecord ==
  MessagingTypeOK /\ \A w \in Workers :
    /\ ctx[w] \in Messages /\ span[ctx[w]] \in Recording => HasCloser(w, ctx[w])
    /\ at[w] = "fetching" => \A m \in Messages :
                               from[m] = with[w] => span[m] \notin Recording
    /\ at[w] # "sending" => ~event[w]

(* One root span per delivered message, whatever layers of the client it   *)
(* passes ("tracing here too would double-count", kafka/__init__.py 145).  *)
OneSpanPerDelivery == \A m \in Messages : opened[m] <= 1

(* "making ours current would re-parent the rest of that request under     *)
(* this record" (_kafka.py 364-370): a request keeps its own span current  *)
(* whatever it fetches, and whoever closes or collects consumers.          *)
RequestKeepsItsSpan == \A w \in Workers : request[w] => ctx[w] = App

Original(o) == IF o = Template THEN NoHeader ELSE header[o]

(* A message names the event that sent it, not that of an earlier hop or   *)
(* of another publish of the same object; one that is sent outside of any  *)
(* trace carries what the user gave (pika/__init__.py 147-153, aio_pika    *)
(* 96-104).                                                                *)
MessagesCarryContext ==
  \A m \in Messages :
    sent[m].object # Nobody =>
      /\ sent[m].by = "nobody"    => header[m] = Original(sent[m].object)
      /\ sent[m].by = "sampled"   => header[m].trace = m
      /\ sent[m].by = "unsampled" => header[m].s0

(* A delivery span ends, also when its consumer is dropped between two     *)
(* fetches and collected on a thread whose context does not hold it.       *)
SpansEnd == \A m \in Messages : span[m] \in Recording ~> span[m] = "ended"
=============================================================================
