-------------------------------- MODULE Clients --------------------------------
(***************************************************************************)
(* Outbound clients (pinpoint/instrumentations: dbapi and the drivers on   *)
(* it, asyncpg, sqlalchemy, cassandra, pymongo, redis, pymemcache,         *)
(* elasticsearch, requests, urllib3, httpx, the clients of aiohttp and     *)
(* grpc, and the parts of _util.py they share).                            *)
(*                                                                         *)
(* Clients are stacked: an ORM drives a driver, Elasticsearch drives       *)
(* requests, requests drives urllib3, and each layer is wrapped.  A layer  *)
(* that traces raises a flag in its context, at which the layers below     *)
(* leave the exchange to it.  Callers are threads, or tasks of one event   *)
(* loop, each with a context and a request, hence a span, of its own; they *)
(* share request objects and the table of MongoDB commands in flight.      *)
(***************************************************************************)
EXTENDS Integers, Sequences, FiniteSets, SequencesExt

CONSTANTS
  Callers,
  Sharing,      \* those that call only what shares an object with others
  RequestIds,   \* of MongoDB commands
  MaxInflight,  \* _MAX_INFLIGHT
  MaxDepth,     \* bound on calls inside calls
  MaxAbandoned  \* bound on calls of one request whose end the agent misses

ASSUME ClientsAssumption ==
  /\ Sharing \subseteq Callers /\ MaxInflight \in Nat \ {0} /\ MaxDepth \in Nat \ {0}
  /\ MaxAbandoned \in Nat

None == "none"

-----------------------------------------------------------------------------
(* The wrapped methods.  `yields`: the flags at which a layer runs         *)
(* untraced; `raises`, `unsampled`, `failed`, `spanless`: the flags up     *)
(* while its target runs when it traces, when the span is not sampled,     *)
(* when its setup fails and when there is no span; `below`: what the       *)
(* target may call; `http`: it puts a request on the wire.                 *)
Layer == [yields |-> {}, raises |-> {}, unsampled |-> {}, failed |-> {},
          spanless |-> {}, below |-> {}, http |-> FALSE]

(* _in_executemany and _in_sqlalchemy. *)
DriverFlags == {"many", "orm"}

CursorExecute == [Layer EXCEPT !.yields = DriverFlags]
AsyncCursorExecute == CursorExecute
(* executemany and callproc go through execute() row by row.               *)
MultiStatement == [CursorExecute EXCEPT !.raises = {"many"}, !.below = {"execute"}]
AsyncpgFetch == [Layer EXCEPT !.yields = DriverFlags]
(* The listeners of an Engine: the flag goes up whatever the sampling, and *)
(* comes down again when the setup fails.                                  *)
EngineExecute ==
  [Layer EXCEPT !.raises = {"orm"}, !.unsampled = {"orm"}, !.spanless = {"orm"},
                !.below = {"execute", "async_cursor", "executemany", "fetch"}]
SessionExecute == [Layer EXCEPT !.raises = {"cql"}, !.below = {"execute_async"}]
SessionExecuteAsync == [Layer EXCEPT !.yields = {"cql"}]
RedisCommand == Layer
RedisPipeline == Layer
AsyncRedisCommand == Layer
AsyncRedisPipeline == Layer
MemcachedCommand == Layer
(* Held across the whole call, the unsampled one and the fallback too.     *)
PerformRequest ==
  [Layer EXCEPT !.raises = {"http"}, !.unsampled = {"http"}, !.failed = {"http"},
                !.below = {"send", "urlopen"}]
AsyncPerformRequest ==
  [PerformRequest EXCEPT !.below = {"async_httpx", "_request"}]
SessionSend ==
  [Layer EXCEPT !.yields = {"http"}, !.raises = {"http"}, !.unsampled = {"http"},
                !.failed = {"http"}, !.below = {"urlopen"}, !.http = TRUE]
(* urlopen() calls itself for a redirect or a retry: a new exchange.       *)
Urlopen == [Layer EXCEPT !.yields = {"http"}, !.below = {"urlopen"}, !.http = TRUE]
HttpxSend == [Layer EXCEPT !.yields = {"http"}, !.http = TRUE]
AsyncHttpxSend == HttpxSend
AiohttpRequest == [Layer EXCEPT !.yields = {"http"}, !.http = TRUE]
(* Dispatch-scoped: the event ends on the calling thread although a future *)
(* or a stream is still running.                                           *)
GrpcCall == [Layer EXCEPT !.http = TRUE]
MongoCommand == Layer

Surface == [
  execute |-> CursorExecute, async_cursor |-> AsyncCursorExecute,
  executemany |-> MultiStatement, fetch |-> AsyncpgFetch,
  before_cursor_execute |-> EngineExecute,
  cassandra |-> SessionExecute, execute_async |-> SessionExecuteAsync,
  redis |-> RedisCommand, pipeline |-> RedisPipeline,
  async_redis |-> AsyncRedisCommand, async_pipeline |-> AsyncRedisPipeline,
  memcached |-> MemcachedCommand, perform_request |-> PerformRequest,
  async_perform |-> AsyncPerformRequest, send |-> SessionSend, urlopen |-> Urlopen,
  grpc |-> GrpcCall, httpx |-> HttpxSend, async_httpx |-> AsyncHttpxSend, _request |-> AiohttpRequest,
  mongo |-> MongoCommand]

Called(w) == IF w \in Sharing THEN {"send", "mongo"} ELSE DOMAIN Surface

-----------------------------------------------------------------------------
VARIABLES
  loop,       \* the callers that are tasks of one event loop, on one thread
  root,       \* per caller: its span is none, sampled or unsampled
  calls,      \* per caller: the wrapped calls in progress, outermost first
  flags,      \* per caller: the suppression flags of its context
  events,     \* per caller: the event stack of its span
  abandoned,  \* per caller: events whose terminal hook never ran
  stale,      \* per caller: the flag of such a statement is still up
  shared,     \* the headers of a request object that everybody sends
  inflight    \* MongoDB commands: (request id, thread) -> an event and its
              \* caller

vars == <<loop, root, calls, flags, events, abandoned, stale, shared, inflight>>

Init ==
  /\ loop \in {s \in SUBSET Callers : Cardinality(s) # 1}
  /\ root = [w \in Callers |-> "none"] /\ calls = [w \in Callers |-> <<>>]
  /\ flags = [w \in Callers |-> {}] /\ events = [w \in Callers |-> <<>>]
  /\ abandoned = [w \in Callers |-> {}] /\ stale = [w \in Callers |-> FALSE]
  /\ shared = None /\ inflight = <<>>

Open(w) == ToSet(events[w])

(* A name for a new event of caller w that nothing refers to. *)
Fresh(w) ==
  LET used == Open(w) \cup {calls[w][i].event : i \in DOMAIN calls[w]}
                      \cup {x.event : x \in {y \in Range(inflight) : y.of = w}}
  IN CHOOSE n \in 1..(Cardinality(used) + 1) : n \notin used

(* Ending an event ends those opened after it (Span._finish_span_event);   *)
(* one that has ended, or whose span has, is left alone.                   *)
Without(stack, e) ==
  IF e \in ToSet(stack)
  THEN SubSeq(stack, 1, (CHOOSE i \in DOMAIN stack : stack[i] = e) - 1)
  ELSE stack

(* What is left of the abandoned events and of those added now. *)
Abandons(w, added) ==
  abandoned' = [v \in Callers |->
                  (abandoned[v] \cup IF v = w THEN added ELSE {}) \cap ToSet(events'[v])]

Context(w, e) == IF root[w] = "unsampled" THEN "s0" ELSE <<w, e>>

-----------------------------------------------------------------------------
(* A call enters a wrapper *)

MayCall(w, s) ==
  /\ Cardinality(abandoned[w]) <= MaxAbandoned
  /\ IF calls[w] = <<>> THEN s \in Called(w)
     ELSE /\ s \in Surface[Last(calls[w]).surface].below
          /\ Len(calls[w]) < MaxDepth

NeverYields(w, s) == FALSE                             \* mutant
Yields(w, s) == Surface[s].yields \cap flags[w] # {}

(* What the caller gives: the shared request, or that of the layer above.  *)
Given(w, s) == IF ~Surface[s].http THEN None
               ELSE IF calls[w] = <<>> THEN shared ELSE Last(calls[w]).carries

(* The flag that a statement lost is cleared before a new one is raised,   *)
(* so that the token does not restore it (enter_sqlalchemy_execute).       *)
RestoresAll(w, s) == flags[w]                          \* mutant
Restored(w, s) ==
  IF s = "before_cursor_execute" THEN flags[w] \ {"orm"} ELSE flags[w]

Frame(w, s, e, carries) ==
  [surface |-> s, event |-> e, restores |-> Restored(w, s), carries |-> carries,
   rid |-> None, again |-> FALSE, clash |-> FALSE]

Enters(w, s, e, up, carries) ==
  /\ calls' = [calls EXCEPT ![w] = Append(@, Frame(w, s, e, carries))]
  /\ flags' = [flags EXCEPT ![w] = Restored(w, s) \cup up]
  /\ stale' = [stale EXCEPT ![w] = @ /\ s # "before_cursor_execute"]

(* Suppressed, or outside of any trace: the target runs as it was called.  *)
CallUntraced(w, s) ==
  /\ MayCall(w, s) /\ s # "mongo"
  /\ Yields(w, s) \/ root[w] = "none"
  /\ Enters(w, s, 0, IF Yields(w, s) THEN {} ELSE Surface[s].spanless,
            Given(w, s))
  /\ UNCHANGED <<loop, root, events, abandoned, shared, inflight>>

(* Headers are written even when the span is not sampled. *)
CallUnsampled(w, s) ==
  /\ MayCall(w, s) /\ s # "mongo" /\ root[w] = "unsampled" /\ ~Yields(w, s)
  /\ Enters(w, s, 0, Surface[s].unsampled,
            IF Surface[s].http THEN "s0" ELSE None)
  /\ UNCHANGED <<loop, root, events, abandoned, shared, inflight>>

WritesRequest(h) == h                                  \* mutant
(* request_with_trace_headers: the headers go into a copy of the request.  *)
RequestAfter(h) == shared

(* The event is opened before the injection, so that the headers name it.  *)
CallTraced(w, s) ==
  LET e == Fresh(w) IN
  /\ MayCall(w, s) /\ s # "mongo" /\ root[w] = "sampled" /\ ~Yields(w, s)
  /\ events' = [events EXCEPT ![w] = Append(@, e)]
  /\ \/ /\ Surface[s].http
        /\ Enters(w, s, e, Surface[s].raises, Context(w, e))
        /\ shared' = RequestAfter(Context(w, e))
     \/ \* the request cannot be copied: it is sent as it is
        /\ s \in {"send", "httpx", "async_httpx", "grpc"} \/ ~Surface[s].http
        /\ Enters(w, s, e, Surface[s].raises, Given(w, s))
        /\ UNCHANGED shared
  /\ UNCHANGED <<loop, root, abandoned, inflight>>

(* end_quietly on the setup path. *)
AfterFailure(w, e) == Without(Append(events[w], e), e)

(* The setup raises: the target runs untraced, under suppression where the *)
(* layer below would otherwise open the event that this one failed to.     *)
CallSetUpFails(w, s) ==
  /\ MayCall(w, s) /\ s # "mongo" /\ root[w] = "sampled" /\ ~Yields(w, s)
  /\ Enters(w, s, 0, Surface[s].failed, Given(w, s))
  /\ events' = [events EXCEPT ![w] = AfterFailure(w, Fresh(w))]
  /\ UNCHANGED <<loop, root, abandoned, shared, inflight>>

(* The target returns, raises or is cancelled: span_event_scope ends the   *)
(* event, and the token restores the flags.                                *)
LeavesCall(w, f) ==
  /\ calls' = [calls EXCEPT ![w] = Front(@)]
  /\ flags' = [flags EXCEPT ![w] = f.restores]
  /\ events' = [events EXCEPT ![w] = Without(@, f.event)]
  /\ Abandons(w, {})
  /\ UNCHANGED <<loop, root, stale, shared, inflight>>

Leave(w) ==
  /\ calls[w] # <<>>
  /\ Last(calls[w]).surface \notin {"mongo", "before_cursor_execute"}
  /\ LeavesCall(w, Last(calls[w]))

(* _after or _on_error. *)
StatementEnds(w) ==
  /\ calls[w] # <<>> /\ Last(calls[w]).surface = "before_cursor_execute"
  /\ LeavesCall(w, Last(calls[w]))

(* SQLAlchemy before 1.4.40 does not route a BaseException to its hooks:   *)
(* neither _after nor _on_error runs.                                      *)
LoseStatement(w) ==
  LET f == Last(calls[w]) IN
  /\ calls[w] # <<>> /\ f.surface = "before_cursor_execute"
  /\ calls' = [calls EXCEPT ![w] = Front(@)]
  /\ stale' = [stale EXCEPT ![w] = "orm" \in flags[w]]
  /\ UNCHANGED <<loop, root, flags, events, shared, inflight>>
  /\ Abandons(w, {f.event})

-----------------------------------------------------------------------------
(* MongoDB commands: one listener for the process *)

(* The executor identity of a caller: that of its thread.                  *)
Ident(w) == IF w \in loop THEN loop ELSE {w}

KeyOfAnyThread(w, r) == <<r, Callers>>                 \* mutant
KeyOf(w, r) == <<r, Ident(w)>>

Closed(stacks, x) == [stacks EXCEPT ![x.of] = Without(@, x.event)]

IsOpen(x) == x.event \in Open(x.of)

(* The calls when w ends the event of x: those of another task of its      *)
(* thread may lose theirs with it.                                         *)
CallsAfter(w, x) ==
  IF x.of # w /\ Ident(x.of) = Ident(w) /\ IsOpen(x)
  THEN [calls EXCEPT ![x.of] =
          [i \in DOMAIN calls[x.of] |-> [calls[x.of][i] EXCEPT !.clash = TRUE]]]
  ELSE calls

(* The entry of a command, with the oldest of the others dropped, and not  *)
(* ended, over the cap.                                                    *)
Stashes(k, entry) ==
  LET rest == DOMAIN inflight \ {k} IN
  \E kept \in SUBSET rest :
    /\ IF Cardinality(rest) < MaxInflight THEN kept = rest
       ELSE Cardinality(kept) = Cardinality(rest) - 1
    /\ inflight' = [j \in kept \cup {k} |-> IF j = k THEN entry ELSE inflight[j]]

(* An old command of the same key ends, which ends what was opened after   *)
(* it as well: the new command, when it is of the same caller.             *)
StartsTracked(w, r) ==
  LET e      == Fresh(w)
      k      == KeyOf(w, r)
      found  == k \in DOMAIN inflight
      again  == found /\ inflight[k].of = w /\ IsOpen(inflight[k])
      opened == [events EXCEPT ![w] = Append(@, e)]
      others == IF found THEN CallsAfter(w, inflight[k]) ELSE calls
  IN
  /\ calls' = [others EXCEPT ![w] = Append(@, [Frame(w, "mongo", e, None)
                                               EXCEPT !.rid = r, !.again = again])]
  /\ events' = IF found THEN Closed(opened, inflight[k]) ELSE opened
  /\ Stashes(k, [of |-> w, event |-> e])
  /\ UNCHANGED <<flags, stale>>

CommandStarted(w, r) ==
  /\ MayCall(w, "mongo")
  /\ \/ /\ root[w] # "sampled"
        /\ Enters(w, "mongo", 0, {}, None) /\ UNCHANGED <<events, inflight>>
     \/ \* no request id to find it by: the event ends at once
        /\ root[w] = "sampled"
        /\ Enters(w, "mongo", 0, {}, None)
        /\ events' = [events EXCEPT ![w] = AfterFailure(w, Fresh(w))]
        /\ UNCHANGED inflight
     \/ root[w] = "sampled" /\ StartsTracked(w, r)
  /\ Abandons(w, {})
  /\ UNCHANGED <<loop, root, shared>>

(* succeeded() or failed(), on the thread of the command.  It ends the     *)
(* event that it finds under its key.  An event whose entry another call   *)
(* took or dropped waits for the end of its span.                          *)
CommandEnds(w) ==
  LET f == Last(calls[w])
      k == KeyOf(w, f.rid)
  IN
  /\ calls[w] # <<>> /\ f.surface = "mongo"
  /\ IF f.rid # None /\ k \in DOMAIN inflight
     THEN /\ inflight' = [j \in DOMAIN inflight \ {k} |-> inflight[j]]
          /\ events' = Closed(events, inflight[k])
          /\ calls' = [CallsAfter(w, inflight[k]) EXCEPT ![w] = Front(@)]
     ELSE /\ UNCHANGED <<inflight, events>>
          /\ calls' = [calls EXCEPT ![w] = Front(@)]
  /\ Abandons(w, {f.event})
  /\ UNCHANGED <<loop, root, flags, stale, shared>>

(* The terminal callback never comes. *)
LoseCommand(w) ==
  LET f == Last(calls[w]) IN
  /\ calls[w] # <<>> /\ f.surface = "mongo"
  /\ calls' = [calls EXCEPT ![w] = Front(@)]
  /\ UNCHANGED <<loop, root, flags, events, stale, shared, inflight>>
  /\ Abandons(w, {f.event})

-----------------------------------------------------------------------------
(* The request that the caller handles; its root drains the stack.         *)
BeginRequest(w) ==
  /\ calls[w] = <<>> /\ root[w] = "none"
  /\ \E s \in {"sampled", "unsampled"} : root' = [root EXCEPT ![w] = s]
  /\ UNCHANGED <<loop, calls, flags, events, abandoned, stale, shared, inflight>>

EndRequest(w) ==
  /\ calls[w] = <<>> /\ root[w] # "none"
  /\ root' = [root EXCEPT ![w] = "none"]
  /\ events' = [events EXCEPT ![w] = <<>>]
  /\ abandoned' = [abandoned EXCEPT ![w] = {}]
  /\ UNCHANGED <<loop, calls, flags, stale, shared, inflight>>

Next ==
  \E w \in Callers :
    \/ \E s \in DOMAIN Surface :
         CallUntraced(w, s) \/ CallUnsampled(w, s) \/ CallTraced(w, s)
           \/ CallSetUpFails(w, s)
    \/ Leave(w) \/ StatementEnds(w) \/ LoseStatement(w)
    \/ \E r \in RequestIds : CommandStarted(w, r)
    \/ CommandEnds(w) \/ LoseCommand(w)
    \/ BeginRequest(w) \/ EndRequest(w)

Spec == Init /\ [][Next]_vars

-----------------------------------------------------------------------------
(* Properties *)

(* Every variable has its type. *)
TypeOK ==
  /\ root \in [Callers -> {"none", "sampled", "unsampled"}]
  /\ flags \in [Callers -> SUBSET {"http", "many", "orm", "cql"}]
  /\ stale \in [Callers -> BOOLEAN]
  /\ \A w \in Callers :
       /\ \A i \in DOMAIN calls[w] : calls[w][i].surface \in DOMAIN Surface
       /\ abandoned[w] \cup Open(w) \subseteq Nat
  /\ loop \subseteq Callers /\ DOMAIN inflight \subseteq RequestIds \X SUBSET Callers

Traced(f) == f.event # 0

(* "don't emit a duplicate generic event underneath it" (httpx 58-59,      *)
(* aiohttp 497-498), "every sync query emits two nested events"            *)
(* (cassandra 67-69), "trace a statement twice" (dbapi 74-82): of the    *)
(* layers that serve one exchange only one has an event.                   *)
OneEventPerExchange ==
  TypeOK /\ \A w \in Callers : \A i, j \in DOMAIN calls[w] :
    i < j /\ Traced(calls[w][i]) /\ Traced(calls[w][j])
      => calls[w][i].surface = "urlopen" /\ calls[w][j].surface = "urlopen"

(* "pin suppression on the context for the life of the worker" (dbapi      *)
(* 99-106): no flag survives the call that raised it, but for a statement  *)
(* whose hooks were lost, and that one not longer than the next statement. *)
SuppressionEnds ==
  \A w \in Callers :
    calls[w] = <<>> => flags[w] = IF stale[w] THEN {"orm"} ELSE {}

(* "it stays the innermost entry on the span's event stack, so later       *)
(* outbound injection rides the wrong event" (_util.py 795-798), "without  *)
(* ever ending another thread's span event" (pymongo 26-28): the events    *)
(* open on a span are those of the traced calls in progress, in their      *)
(* order, and those whose hook never came, whatever the other threads do,  *)
(* but in two cases.  A command that starts under the key of an earlier    *)
(* one of its own caller, whose end was missed and whose event is open,    *)
(* ends its own event with that one's (`again`; pymongo 167-172, tracer    *)
(* 1041-1049).  And a task's calls may lose their events when another task *)
(* of its thread starts or ends a command under the key of one of its      *)
(* commands (`clash`): "the ident proves this thread owns the stale event" *)
(* (168-171), but not that this request does.                              *)
EventsFollowCalls ==
  \A w \in Callers :
    LET traced == {i \in DOMAIN calls[w] : Traced(calls[w][i]) /\ ~calls[w][i].again}
        mine   == {i \in traced : ~calls[w][i].clash}
    IN /\ {calls[w][i].event : i \in mine} \subseteq Open(w) \ abandoned[w]
       /\ Open(w) \ abandoned[w] \subseteq {calls[w][i].event : i \in traced}
       /\ \A i, j \in mine :
            i < j => \E k, l \in DOMAIN events[w] :
                       /\ k < l /\ events[w][k] = calls[w][i].event
                       /\ events[w][l] = calls[w][j].event
       /\ \A k, l \in DOMAIN events[w] : events[w][k] = events[w][l] => k = l
       /\ w \notin loop => \A i \in DOMAIN calls[w] : ~calls[w][i].clash

(* "mutating the user's request and restoring it races when one request is *)
(* sent concurrently" (_util.py 558-559): what a layer sends names the     *)
(* innermost event around it that is an HTTP call, or nothing.             *)
CarriesOwnContext ==
  \A w \in Callers : \A i \in DOMAIN calls[w] :
    calls[w][i].carries # None =>
      \/ root[w] = "unsampled" /\ calls[w][i].carries = "s0"
      \/ \E j \in 1..i :
           /\ Traced(calls[w][j]) /\ calls[w][i].carries = <<w, calls[w][j].event>>
           /\ \A k \in (j + 1)..i : ~Traced(calls[w][k])

=============================================================================
