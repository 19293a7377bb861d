# Formal models of the Pinpoint Python agent

TLA+ specifications of the agent in `pinpoint/` and `src/_native.cpp`, the TLC
configurations that check them on small instances, and proofs that TLAPS
checks for every value of the constants. Paths below are relative to the
repository.

- [Running](#running)
- [The system](#the-system): inventory of components
- [Modules](#modules): what models what
- [Runs](#runs): what is checked, bounds, fairness
- [Proofs](#proofs)
- [Where the code and its documents differ](#where-the-code-and-its-documents-differ)
- [Assumptions and limits](#assumptions-and-limits)
- [Not modelled](#not-modelled)
- [Plan](#plan)

## Running

    tlc -workers 2 -config MCSpan.cfg MCSpan
    tlc -workers 2 -config MCHttpTransaction.cfg MCHttpTransaction
    tlc -workers 2 -config NativeLogQueue.cfg NativeLogQueue
    tlapm SpanProofs.tla
    tlapm HttpTransactionProofs.tla

and so on for the other runs and for the modules named `...Proofs`.

`PROJECT.json` lists the runs with their properties, the source lines each
definition models, the hazards the properties are aimed at, and for each
property a mutant: a definition as a plausible bug would have it (marked
"mutant" in the modules), under which TLC finds the property violated.

## The system

The agent runs inside a Python application. Instrumentations wrap library
entry points and drive spans; spans buffer their events in Python and hand them
in batches to a native (C++) agent that sends them to a collector.

| component | state | operations | hard behaviour | what makes it correct |
|---|---|---|---|---|
| Span, SpanEvent (`tracer.py`) | open-event stack, next sequence and depth, buffer of finished records, link ids, batched error verdicts, `_ended` | `new_span_event`, `SpanEvent.end`, `set_error`, `inject_context_items`, `new_async_span`, `end` | scopes end out of order, twice, late or never, past two limits, from several threads; native calls fail | the call tree is recoverable from positions; each event recorded once; links on the right record; no verdict lost |
| Current span (`context.py`, `Span._fork_for_async_task`) | a `ContextVar` of bindings (span, thread, weak task), a latch and timer per implicit task span | `current_span`, `_adopt_current_span`, fork, `_finish` | contexts are copied to tasks and threads; tasks get lost; timer against done callback | one context at a time drives a span; implicit spans end |
| Agent lifecycle (`agent.py`) | `_instance`, `_lock`, registration flags, `Agent._shutdown`, the SIGTERM handler | `init`, `shutdown`, `Agent.shutdown`, atexit/SIGTERM drain, after-fork hook | threads, signals on top of calls, forks at any time | one native agent, reachable, drained before death, never an inherited one; calls return |
| Native log queue (`src/_native.cpp`) | ring of cells with sequence numbers, two positions, byte and drop counters | `enqueue`, `try_dequeue`, `deactivate` | lock-free, preemption anywhere, lapping, two limits | a lossy FIFO channel that loses only when full |
| Native log consumer (`_native_log.py`) | thread, stop event, drop count | `_run`, `_drain_once`, `_report_drops`, `stop`, `dropped` | teardown races producers; handlers hang, raise, or call `shutdown()` | nothing stranded, order kept, drops counted, shutdown returns |
| Error verdicts, cause chains (`tracer.py`, `errors.py`, `callstack.py`) | error fields of an event, verdicts kept by an unsampled span | `set_error`, ignore rules, the native error policy | cyclic chains, ignored wrappers, more verdicts than are kept | an error that is not ignored fails the transaction |
| Unsampled and null spans (`tracer.py`, `agent.py`) | ended flag, verdicts, URL statistics | as Span, recording nothing | children and background work outlive the request | nothing recorded, verdicts counted, the decision passed on |
| Propagation (`propagator.py`, `http_helper.py`, `Agent.new_span`) | headers in four kinds of carrier | extract, inject | repeated, malformed or partial headers; objects that are sent again | a child continues exactly the trace it was given |
| Configuration, reload (`config.py`, `Agent.reload_config`) | native generation, cached snapshot, the snapshot pinned per span | resolve, hot reload, refresh at admission | reloads race with admissions on several threads | a span sees one generation, its own |
| Instrumentor, autoload (`instrumentor.py`, `autoload.py`, `bootstrap/`) | class-keyed registry, wrapper targets, import hooks | `instrument`, `uninstrument`, deferred hooks | failure half way; hooks after uninstall; other libraries' wrappers | all or nothing; originals and foreign wrappers kept |
| Wrapping helpers (`instrumentations/_util.py`) | activation tokens, hand-off latch | `wrap`, `safe_wrapper`, event scopes, `mint_async_child`, `claim_handoff` | failures before, in and after the wrapped call; dispatcher and worker race | the call is transparent; a child driven once, ended once |
| WSGI servers (`wsgi`, `flask`, `pyramid`, `falcon`, `django`) | request span, response body, latch | enter, stream, close, abandon, reap | streaming on other threads, collection, exit | the root ends once, with the response's status |
| Asynchronous servers (`asgi`, `starlette`, `fastapi`, `asgiref`, `aiohttp`, `tornado`, `grpc`) | mark on the request, root, events, hand-offs | enter, route, hand over, stream, cancel | stacked wrappers, leaked contexts, cancellation, abandoned streams | one root per request; context restored; each span ends |
| Clients (databases, caches, HTTP, `grpc`) | suppression flags, event stack, commands in flight | before and after a call | stacked layers, lost hooks, shared objects, callbacks on other threads | one event per exchange; events balanced |
| Messaging (kafka, amqp, celery) | consumer scope, finalizer, message headers | fetch, handle, send, close, drop | a scope ends with the next fetch, on whatever thread, or by collection | one span per delivery, ended; headers of the right event |
| HTTP helper (`http_helper.py`) | header reader of one request | lookups, address, cookies, recording | the reader changes its strategy on the way | what is recorded is what the request said |
| Log enrichment (`logging_ext`) | record factory, guard | install, remove | chains of factories with other libraries | records end, foreign factories kept where they can be |

How they interact: instrumentations find the current span through `context.py`
and call Span; Span and the agent call the native extension, which releases the
GIL; native threads log into the queue, which the consumer drains into Python
logging; `shutdown()` stops native and the consumer; fork duplicates all of it
except threads. The native agent admits a transaction (sampling, URL filters,
the configuration generation), and every span carries that verdict to what it
starts: events, children, outbound headers.

## Modules

| module | models | notes |
|---|---|---|
| `Span` | `Span` and `SpanEvent` in `tracer.py`, and `replay_marshalled_events` | one step per operation: each holds `_native_lock` |
| `MCSpan` | constants for TLC | span ids as model values |
| `SpanProofs` | theorems about `Span` | |
| `LogChannel` | abstract: what the native log bridge promises | a lossy FIFO with two limits |
| `NativeLogQueue` | `NativeLogQueue` in `src/_native.cpp` | one step per access to a shared atomic; implements `LogChannel` |
| `NativeLogConsumer` | `_native_log.py` with the shutdown path of `agent.py` | uses the channel, not the ring |
| `NativeLogProofs` | theorems about `NativeLogQueue`, the refinement among them, and `NativeLogConsumer` | |
| `SpanContext` | `context.py`, `_fork_for_async_task` | one step between two awaits; spans are reduced to who opened their events |
| `SpanContextProofs` | theorems about `SpanContext` | |
| `WsgiRequest` | `instrumentations/wsgi`, with the parts of `context.py` and `_util.py` it uses | one step per stretch between two places where the application, the server or the collector runs |
| `AgentLifecycle` | `agent.py`: init, shutdown, signals, fork | one step per stretch of code between two lock operations or module assignments |
| `AgentLifecycleProofs` | theorems about `AgentLifecycle` | |
| `AsyncRequest` | `asgi`, `starlette`, `fastapi`, `asgiref`, `aiohttp`, `tornado`, `grpc` servers and the hand-offs of `_util.py` | one step per stretch between two awaits, yields or pulls; servers are records of what tells them apart |
| `RequestProofs` | theorems about `AsyncRequest` and `WsgiRequest` | |
| `HttpHeaders` | the header readers of `http_helper.py` and the extraction of `propagator.py` | operators only |
| `ViewCall` | `safe_wrapper`, `span_event_scope`, exception classification and the view wrappers of eight frameworks | one step per place where user code or the native side may fail |
| `HttpTransaction` | `Agent.new_span`, reload and snapshots, unsampled and null spans, `annotate_server_request`, `end_server_span` | composes `HttpHeaders` and `ViewCall` |
| `HttpTransactionProofs` | theorems about `HttpTransaction` with `HttpHeaders` and `ViewCall` | |
| `MCHttpTransaction` | constants for TLC | three generations of settings, ten header lists |
| `Clients` | the database, cache, search, HTTP and gRPC clients | one step per entry, exit or hook of a layer |
| `Messaging` | `_kafka.py`, `_amqp.py`, the Kafka and AMQP clients, Celery | one step per call into or out of the client library |
| `ClientProofs` | theorems about `Clients` and `Messaging` | |
| `Instrumentation` | `instrumentor.py`, `wrap`/`unwrap` of `_util.py`, and what five instrumentations patch by hand | one step per patched slot |
| `InstrumentationProofs` | theorems about `Instrumentation` | |
| `MCInstrumentation` | constants for TLC | symmetry of instances and of threads |

**Span.** `events` are the wrappers ever handed out (user code may hold any of
them), `stack` is `_active_events`, `sequence` and `depth` are
`_event_sequence` and `_event_depth`, `finished` is `_finished_events`,
`batches` what native has taken and `lost` what a failing replay dropped. Each
wrapper keeps the `parent` that was innermost when it started; the code has no
such field, it is what the collector has to find out. A placeholder
(`seq = NoPosition`) is handed out past a limit. `EndEvent(e)` is `end()` of
any wrapper: it pops the stack down to `e`, finalizing what is nested in it,
then flushes a full chunk in the same step, as the code does. `asyncRoot` says
that the span is an async child, with a root above it that `RootEnds` ends before or
after it. `Mark` is the native side applying verdicts to that root: each on its own, so
that one it fails on (`unfit`) costs no other, and none once the root was ended
(`sealed`). `End` may fail as a whole; then nothing it holds crosses.

**NativeLogQueue.** `pc` walks a producer through `enqueue`: reserve bytes, load
the position, look at the cell's sequence, claim by compare-exchange, fill,
publish. The copy into a cell lasts from `ClaimCell` to `PublishCell`, the copy
out from `TakeCell` to `FreeCell`, so an overlap is a state. `LogChannel`
says what remains of this when the ring is forgotten; the refinement mapping
reads the queue out of the positions between `dequeuePos` and `enqueuePos`.

**NativeLogConsumer.** `at` is where `_run` is and `phase` whether it polls or
is in the drain after the stop. Every caller of `shutdown()` or
`Agent.shutdown()` walks through `call`: lock, claim the `_shutdown` flag,
native shutdown, `deactivate`, set the stop event, join with a timeout, unlock.
The consumer itself is a caller, when a log handler calls `shutdown()`.

**SpanContext.** A binding is `_SpanBinding`; `ctx` gives each task, thread and
the main code the binding its context copy holds. `current_span()` is split into
`Reachable` (span not ended, same thread), `Claim` (become the owner task) and
`Fork` (another task's span: fork an implicit one). `MadeFor(p, s)` says whose
request a span is: `p` entered it or it was forked for `p`, and only then may a
framework have a child of `p` adopt it. `LeaveBlocks` is what a task does to its
`with` blocks when it ends, is cancelled or is lost. `latch`, `armed` and `grace` are
the closure of `_finish`.

**WsgiRequest.** `ctx` is what `_current_span` holds in each thread's own context;
`Visible` is `current_span() is not None`, `Records` says that it is the live
span and not a foreign thread's view. `token` is the token of the call a thread
is in. `Begin` is the set-up; `AppRaises`, `ReturnsBuffered` and `ReturnsStream`
are the three exits of `_trace_wsgi_request`, each on the thread that opened the
root. A streamed `body` is a `_ClosingIterable`, which any server thread may
`PullBody` and `Close`: `done` and `armed` are its latch and its reaper, `late` says
which `end_span` it was given. `EnterScope` and `LeaveScope` are a `with span:`
in the generator, around a yield: its token belongs to the thread that entered
it, and `Collect` leaves it on whatever thread the collector runs on.

**AgentLifecycle.** `at` is where each thread of each process is; the drain of
SIGTERM and atexit is an activity of its own on top of the main thread.
`instance` is `_instance`: none, null, pending (prefork) or live. `claimed` is
`Agent._shutdown`. After the drain the SIGTERM handler ends the process (`Die`), or calls
the handler that the program had before, and when that returns what the signal
interrupted goes on (`HandlerReturns`). `Fork` copies the module and runs `_after_fork_reinit` in
the child when it was registered.

**AsyncRequest.** A connection is an execution context that serves requests in
turn; `ambient` is what it held before the agent saw it, which may be somebody
else's span. `Arrive` brings a request and the number of wrappers stacked on it,
`PassThrough`, `TraceRequest` and `SetUpFails` are the three ways through one of
them, `RunHandler` is the route wrapper and `Leave` the way out, innermost first.
`roots`, `events` and `current` are what the request's spans, event stack and
context variable hold. A hand-off in `works` is the child of
`mint_async_child`; `latch` is the list with one element, `Returns` and `Raises`
are the dispatcher's two ways out of its `await`, `WorkerStarts` and `WorkerEnds`
the callable in the pool. `limbo` counts the generators of streaming RPCs that
were abandoned and are still to be finalized. The servers and the pools differ
in a few facts, which `Server` and `Pool` record.

**HttpTransaction, HttpHeaders, ViewCall.** One request after the other: `Receive`,
`NewSpan` with the native verdict over the headers read by `Inbound`,
`CompareRevision` and `Refresh` (the cached snapshot against the generation the
span was admitted under), `AnnotateServerRequest`, the views, `EndServerSpan` with
the URL statistics and the verdicts. `HotReload`, `ReloadFetches`/`ReloadStores` and
`OtherAdmitted`/`OtherRefreshes` are the configuration moving meanwhile, on other
threads. `HttpHeaders` gives each carrier its reader: the raw ASGI pairs scan from
the end for two lookups and are decoded at the third. `ViewCall` walks one
wrapped call through its steps: the precheck, the body before the target, the
target, the scope's exit, the guard around all of it. A framework is a sequence of
wrappers, a wrapper a record of who guards it, how it classifies and when it
knows its route.

**Clients.** `calls` is the stack of wrapped calls in progress of each caller,
`flags` the suppression flags of its context, `events` the event stack of its
span. A `Surface` record says which flags a method yields to and which it raises.
`inflight` is PyMongo's table of commands, keyed by request id and thread; `loop` are
the callers that are tasks of one thread, and so have one key for one request id. The
connection, the third part of the key, is taken as part of the request id. A command
without a request id ends its event at once; a stale entry under the key of a new command
is ended first, which may take the new event with it.

**Messaging.** `held` is the scope that rides on a pull consumer, `finalizers` what
`weakref.finalize` keeps for one that is dropped, `ctx` the current span of a
worker. `Fetch` closes the held scope first, `FetchEnds` opens the next one;
`Collect` runs a finalizer on any worker. `header` is what a message object carries,
and `UserObjects` says that the caller's own objects are left alone.

**Instrumentation.** `chain` is a patched attribute as the wrappers around the
original, ours or another library's, `registry` is `_global_installed`, `targets`
an instance's `_wrapper_targets`, `work` the operations under `_global_lock`, which
import hooks may nest. `cache` and `given` are psycopg2's cursor classes.

## Runs

| run | question | bounds | why enough |
|---|---|---|---|
| `span` (`MCSpan.cfg`) | can the tree be rebuilt, and is each record, link and verdict accounted for, whatever the order of ends? | root span or async child, 4 wrappers, 2 levels, 3 sequences, chunks of 2, 1 id, 2 children, 2 errors, 1 kept verdict | both limits, the stack cap and the flush in the middle of an unwinding; an id drawn twice, two children, an event replayed while a child lives; a full batch and one error more, either of which native may fail on; the root ended before, between and after them (larger batches, failing in part, are left to the theorem) |
| `log_queue` | does the ring implement the channel? | 2 producers x 2 records, 2 cells, 4 bytes | positions lap the ring twice; both limits are hit; a producer sleeps between any two steps |
| `log_consumer` | is nothing stranded at shutdown, does it return? | 3 records, capacity 2, batches of 1, 2 shutdown calls, 1 read | full queue, failed drain, re-drain, handler calling shutdown against a second caller |
| `context` | do two contexts ever share a span? | 3 tasks, 1 worker, 2 spans, 2 open events | owner, sibling and grandchild; adoption beside a fork; a lost owner |
| `lifecycle` | one drained, reachable agent per process; calls return | parent and child, 2 threads, 2 agents, 2 calls each | restart, two shutdowns, a drain on top that ends the process or lets the call go on, fork at each of them |
| `lifecycle_early_fork` | is the module lock of a child always free or owned by one of its threads? | as above, one agent | TLC gives the behaviour that the document excludes |
| `request` | is a server thread clean after each call, and does each span end once, wherever the body goes? | 2 server threads and a mounted one, 2 requests, 2 pulls each | a scope entered at one pull and left at the next on the other thread, or on a thread that serves the other request; reaper against `_finalize` |
| `async_request` | has each request its one root, and each worker's span one owner? | 1 connection of each server, 2 stacked wrappers, 2 hand-offs, 1 streamed item or hand-off per request | a leaked span under and over a request, a request after the other on a kept connection, a cancelled dispatch before and after a late start |
| `transaction` | does what the native side decided reach everything the request records and sends? | 3 generations, 2 children, 2 kept verdicts, 10 header lists, 4 carriers, 8 frameworks | a reload between admission and use, a child of a child, one verdict more than is kept, each wrapper failing at each step |
| `clients` | one event per exchange, balanced, with its own context? | 2 callers, on two threads or on one loop, calls 3 deep, 1 lost hook, 1 request id | an ORM over a driver over itself, a search client over an HTTP client over urllib3, two threads on one request object and one request id, two tasks on one command key |
| `messaging` | has each delivery one span, that somebody ends? | 2 workers, a pull and a push consumer, 2 messages, four ways to fetch and two to publish | a consumer dropped with its scope and collected by the other worker, a fetch inside a request, a record relayed |
| `instrumentation` | are the patches what the registry says, among other libraries'? | 5 classes, 2 instances, 2 foreign wrappers per slot, 2 threads, 2 bases | removal under a foreign wrapper, install again on top, roll-back at every step, both threads missing the cache, a full cache |

The runs of the larger modules check their invariants as one conjunction, whose
parts are named in the module: `RecordedOnce` (`EachEventOnce`, `LinksRecorded`),
`RingIsSound` (`NoTornRecord`, `ByteBudget`, `ProducerOrder`), `NothingLost`
(`NothingStranded`, `HandledInOrder`, `DropsNotOverstated`), `SpansAreOwned`
(`ScopesDoNotCross`, `OneOwner`, `LatchOwnsTaskSpan`), `OneDrainedAgent`
(`OneNativeAgent`, `RunningIsReachable`, `DrainedBeforeDeath`,
`InheritedNeverTouched`), `RequestsStayApart` (`IdleIsClean`, `OneRoot`,
`SeesOwnSpan`, `CountedOnce`). All but the first contain their module's `TypeOK`,
which for `Span` is a theorem; the other modules have it in their first property.

Bounds are the constants named `Max...`: wrappers, children and errors of a
span, records, offers, shutdown calls, reads, spans and open events of a
context, agents and calls of the lifecycle, hand-offs of a request, generations,
depth of calls and foreign wrappers. Each appears in a guard and limits how long a
behaviour is, never what a step does. A drain that the program survives counts as a
call, and may be one more than `MaxCalls`, so that no call is left interrupted for want
of a bound. `MaxVerdicts`, `MaxInflight` and `MaxCache`
are limits of the code itself, made small.

Deadlock is checked in `transaction`, where the next request can always come. The
other runs say `CHECK_DEADLOCK FALSE`: a span that ended, a process that exited, an
agent that was shut down and clients that nobody calls do nothing more, and that
is the program's normal end. That calls do return is a liveness property where it
matters.

**Fairness.**

- `log_queue`: a native thread inside `enqueue` is scheduled again, and the
  consumer polls while it lives. No thread has to log.
- `log_consumer`: the consumer's own code and the shutdown calls go on; a
  native callback copies and returns. Log handlers are *not* fair: one may hang
  for ever, and `ShutdownReturns` holds nevertheless because the join has a
  timeout. `ConsumerEnds` adds the assumption it needs, that handlers return,
  as its antecedent.
- `context`: the event loop runs its timers and time passes. No task has to
  end, nor to be collected.
- `request`: applications and bodies return (a step may still be any of raise,
  stop and yield), a server does not hold a response iterable for ever, and what
  nobody refers to is collected. No server has to drain or to close a body.
- `async_request`: the loop and the pools run what is ready, applications and
  workers end (in any of their ways), a streaming client goes on pulling or
  cancels, and an abandoned generator is finalized at last. Nothing else arrives.
- `messaging`: a fetch returns, a handler or a send ends, and a pull consumer is
  closed or dropped in the end, and then collected. No worker has to fetch again.
- `lifecycle`: a thread inside a call goes on and takes `_lock` when it stays
  free; native start and shutdown return; the drain is not abandoned.

## Proofs

Every theorem is of the form `Spec => []Property` (one is a refinement), is proved
from an inductive invariant that TLC checked first on the run's instance, and holds
for every value of the constants. Each proof module begins with that invariant, has
one lemma per action or per conjunct, and ends with the theorems. They assume what
the modules assume of their constants, and nothing else but where it is said here.
Every safety invariant of a passing run is the conclusion of a theorem. Where one proof
module extends two models, the definitions of one of them are named after it
(`ConsumerSpec`, `MessagingSpec`).

| module | theorems | property of a run |
|---|---|---|
| `SpanProofs` | `PositionsAreSound`, `TypeCorrect`, `PlaceholdersEndNoRealEvent` | |
| | `TreeIsReconstructible`, `CapAlwaysHasPlaceholder`, `VerdictsReachTheRoot`, `EachEventIsRecordedOnce` | `TreeReconstructible`, `CapHasPlaceholder`, `VerdictsReachRoot`, `RecordedOnce` |
| `NativeLogProofs` | `QueueInvariant`, `RingStaysSound`, `QueueImplementsChannel` | `RingIsSound`, `ImplementsChannel` |
| | `ConsumerInvariant`, `NothingIsLost` | `NothingLost` |
| `SpanContextProofs` | `ContextInvariant`, `SpansHaveOneOwner` | `SpansAreOwned` |
| `AgentLifecycleProofs` | `LifecycleInvariant`, `AgentIsOneAndDrained`, `LockHasAnOwner` | `OneDrainedAgent`, `LockOwnerExists` |
| `RequestProofs` | `HandoffsAreOwned`, `RequestsHaveTheirRoot`, `RequestsAreApart` | `HandoffHasOneOwner`, `RequestHasItsRoot`, `RequestsStayApart` |
| `HttpTransactionProofs` | `TransactionInvariant`, `CallersDecisionTravels`, `OneGenerationPerSpan`, `RecordsAreTrue`, `RealErrorFails` | `DecisionTravels`, `AdmittedUnderOneConfig`, `RecordedFromTheRequest`, `FailureReachesNative` |
| | `TemplateIsKnown`, `WrappersAreTransparent`, `EventsTellFailures` | `RouteIsKnown`, `CallIsTransparent`, `ErrorsAreFailures` |
| `ClientProofs` | `OneLayerTraces`, `FlagsComeDown`, `StackFollowsCalls`, `RequestsNameTheirCaller` | `OneEventPerExchange`, `SuppressionEnds`, `EventsFollowCalls`, `CarriesOwnContext` |
| | `DeliveriesHaveOneSpan`, `RequestsKeepTheirSpan`, `MessagesNameTheirSender`, `ScopesFollowRecords` | `OneSpanPerDelivery`, `RequestKeepsItsSpan`, `MessagesCarryContext`, `ScopeFollowsRecord` |
| `InstrumentationProofs` | `InstrumentationInvariant`, `RegistryIsTrue`, `WrappersStayApart`, `ForeignLayersStay` | `RegistryTellsTruth`, `WrappersNeverStack`, `ForeignLayersKept` |
| | `FactoryTerminates`, `ClassIsStable` | `RecordsEnd`, `OneTracedClass` |

**Span.** Neither `TypeOK` nor `TreeReconstructible` is inductive: `depth` could be any
number in range, and an event could end up under a parent of the wrong level.
What makes them so (`PositionInv`) is

- `StackShape`: the open real events are the lower part of the stack, one per
  level, slot `i` at depth `BaseDepth + i - 1`; above them are only
  placeholders, and only while a limit is hit; slots are in creation order;
- `SequenceOrder`: sequences follow creation order, below the counter;
- `OpenScopes`: whatever started while a scope is open is deeper than it.

The last one says why the collector's rule works: the latest event one level up
that started before `e` is the scope that was open, as anything later would be
deeper. The proof first states what a push, an unwinding and a stamping of ids do
to positions (`PushEffect`, `UnwindEffect`, `SamePositions`), shows each effect
preserves the invariant, and then that each action has one of these effects.

`VerdictsReachRoot` compares the errors that were accepted with those that marked the
root, at the moment native ends it. Until then, as `VerdictInv` says, an error is in the
batch, on the root, or native failed on it, and an async child never has a batch. So it
does not matter which of child and root ends first, nor on how many of a batch native
fails. A root span is sealed in the step that hands its batch over.

`RecordedOnce` rests on the same positions (`RecordInv`): the record of a numbered event
is in exactly one place, to come (it is on the stack), buffered, in one batch or lost
(`PlacedOnce`); it is that of the event as it is now (`RecordsOfEvents`), because ids are
only stamped on the innermost open event, which no place but the stack has; and an async
id is one event's (`Stamps`). Every step that closes events has the effect of a drain
(`DrainEffect`), which moves a record from one place to the next.

**Queue.** The properties talk of producers, cells and records; the argument goes
through the `Line`: the record of every position claimed so far, whether it is still
being copied in, waits in its cell or has been handed over. `Window` says a lap never
catches up with the one before, `CellsTell` that the sequence of a cell tells whether
it is free, claimed or published, `ClaimsApart` that a claimed position is one
producer's, `LineInOrder` that each producer's records are in order in the line and
what it has in hand comes after them. A claim appends to the line, a delivery
only moves the boundary in it: that is why the ring's accesses are the channel's
`Reserve`, `Claim`, `Publish`, `Take`, `Free` and `Release`, or one of its two losses, and
loads of positions and sequences change nothing in it (`Channels`). The byte
counter is a sum over the records reserved; sums over finite sets come
from a minimal counterexample (`WFMin`), since a proof by induction over a predicate
is out of reach. Any capacity of at least two cells will do, as the code demands.

**Consumer.** `NothingLost` is about the end, when the sink is off and the thread has
exited; before that, records are in one of five places. `OrderKept` says they are in
order in each and across them, `AllHeld` that their number and the drops add up to
what was logged, `StopInOrder` that one call shuts native down and everything about
stopping follows it, and `EmptyStaysEmpty` that once native let go of the sink what the
thread found empty stays so, which is why one last drain and one last reading of the
drop counter are enough.

**Context.** `current_span()` gives a task what its binding names, and a span can have
several bindings. `SecondIsAdopted` says where the second comes from: the task whose
request it is had a child adopt it, and waits for that child, or the child goes on
after it. `OpenersHold` says that the task a live span was made for still holds it, so
that nobody else can claim it; only the span of a lost task is left, to its timer.
`ScopesAreOwned` and `ScopesNest` put the event scopes on the same line: an event above
another unit's is that of a task it awaits. An earlier form of the model let any
task have a child adopt; the proof did not go through, and four tasks show why (see
[Assumptions](#assumptions-and-limits)).

**Lifecycle.** Said of one process at a time, since a step changes one process and
`fork()` the child it makes. `LockInv` is who holds `_lock`, twice only when the drain
came on top of the main thread; `Settling` is how far the holder is from a state in
which `Shown` holds again: what runs is what `_instance` shows. A drain that the program
survives may have shut down the agent of the call it interrupted, which then goes on:
`Settling` claims no more of that call than is left to it, `OnTop` says where the drain
can have found it, and `ThreadsDoNotNest` that nobody but a drain comes on top. `HookInv` is the window
between the assignment of `_instance` and the registration of the after-fork hook. The
three theorems have the hypothesis `~ForkAnywhere`: `fork()` waits for the hook or for
a free lock. Without it `LockOwnerExists` is false, and the run `lifecycle_early_fork`
is the counterexample.

**Hand-offs.** Each side of a hand-off looks at the latch alone, and the property does
not say why that is enough. `Settling` does:

- a child in the latch is open, nobody drives it, and its task still waits;
- a worker that runs has emptied the latch, if its callable claims at all;
- a child out of the latch is the running worker's, or is ended;
- a task that does not reclaim on every way out gave out a callable that claims
  (`PoolFacts`). `run_in_threadpool` reclaims only when the call fails, so this is
  what keeps a normal return from leaving the child open.

No action but the five that touch a hand-off disturbs it. It needs no assumption
on the constants; what the proof needs of the three pools is in their records.

**Requests.** `RequestHasItsRoot` speaks of the moments when the application runs and
when nothing does; between them the wrappers are entered and left one by one, and an
error, a cancellation or a disconnection may come at any of them. `RequestInv` finds for
each connection how many wrappers are entered, and whether a handler is, and says

- `Stacked`: the frames are those of the entered wrappers and then the handler's; only
  entered wrappers have an open root, and each frame puts back what the
  wrappers around it left current (`Held`);
- `EventsOpen`: the open events are those of the same frames in the same order, which is
  why ending the innermost one ends the frame's own;
- `Phase`: what is current and how many wrappers are still to enter, by where the
  request is;
- `Marked`: where the request can carry a mark, it has been marked by the first wrapper
  that opened a root, and so no other does;
- `WaitsOnce`: a task waits for one hand-off at a time.

The only assumption is `ServingAssumption`, that the servers that run are among those
described. The proof reads two facts off their descriptions that a new server has to
respect: where a response streams, the context does not outlive the request, and the call
meets one wrapper.

**WSGI.** A value of `_current_span` is `Spent` when `current_span()` makes nothing of it:
none, or the binding of an ended span. What is spent stays spent, also where a token puts it
back later, and this carries the proof. `WsgiInv` says

- of a thread (`ThreadInv`): at the server its context is spent; in a call the token is
  spent; in the body the context has the child's binding of this very thread, or that of a
  span the body entered on this thread, or it was lost to a collected body and is spent;
- of a request, by its stage, which spans are open, and how often its status was counted.
  `Streams` is the state from the return of the iterable to its last span: the child is
  open as long as the latch is not taken, and whoever took it and did not end the child yet
  is a thread about to;
- of a scope that a body has open (`ScopeInv`): its token restores that child's
  binding on the thread that entered it, or what is spent; a thread that collects the body does no
  more harm than to make its own context spent;
- that one thread at a time works for a request (`OneWorker`).

Every step touches one thread and one request (`Touches`), so a lemma per step looks at
those two and `LocalStep` does the rest. The assumption is that no thread and no
request is `Nobody`, the owner of an empty binding.

**Transaction.** Four arguments that share an invariant:

- *Headers.* `GetIs`: a reader gives what the carrier holds, whatever its strategy
  and however many lookups came before. The ASGI reader scans from the end twice and
  then decodes the whole message into a dict, a fold; that the fold keeps the last value
  of each name is proved on its partial results (`DecodedDecodes`, `DecodesIsUnique`),
  once more by a minimal counterexample. `InboundIs` and `AddressIs` follow, and with
  them `Undecided` and `RecordedFromTheRequest`.
- *Settings.* `OneConfig`: until the span is opened it has recorded nothing; after
  that all it recorded is of its snapshot, which is of the admitted generation.
- *Errors and children.* `ErrorsKept`: until the end every error is in one of two
  places; `KindPasses`: a child is of its root's kind.
- *Calls.* `CallInv` says of every step of a wrapper how often the target ran, what it
  did, and what may have been made of that (`PassedOn`, `EventTells`). It needs to know a
  few facts of the twelve wrappers (`WrapperFacts`: only a wrapper with a sentinel has
  code after its target, only Starlette's calls from inside a guard, only aiohttp's
  holds its event by hand), which are read off their records, so the proof says what a new
  wrapper has to respect. `RouteInv` does the same for the template of a matched
  route. The targets, their outcomes and the failures are all of `ViewCall`'s; what the
  theorem adds to the run is every message, setting, generation and child.

**Clients.** Each layer looks at the flags and at nothing else, so the invariant says
what the flags tell of the calls around it. `ClientsInv` says of each caller

- `DrivenBelow`: a call in progress is one that each call around it may make, at once or
  through others;
- `FlagsNest`: a call restores the flags that were up when it was entered, and what a
  traced one raised is up as long as it lasts;
- `HeadersAreOwn`: what an HTTP call carries names its own event, or that of the traced
  call just around it when it is not traced itself;
- `EventsAreSound`: the open events are those of the traced calls, in their order, and
  the abandoned ones; only a command that ended with a stale one (`again`), and calls
  that were in progress when another task of the thread ended one of their events
  (`clash`), may miss theirs;
- `TableIsSound`: the entry under the key of a command in progress is that command's,
  or that of another task of its thread.

The step that matters is the entry of a layer under a traced one. `DrivenIs` reads off the
layers' records what it rests on: whatever a layer drives, also through others,
yields to a flag that the driver raises. The one exception is `urlopen` under itself, by
which urllib3 follows a redirect or tries again: that is a new exchange. So a new
instrumentation has to respect two facts: it yields to a flag of whatever drives it,
and a layer that may find its request impossible to copy, and then sends it as it is, is not
driven by one that already put headers on it.
Any number of callers, requests and keys will do, and calls as deep as one likes.

**Messages and scopes.** Three parts that hardly touch. `WireInv`: a message object that
has not been sent has headers only while its one sender is about to send it, so what is
on the wire is the sender's. `ScopeInv`: a delivery span that still records has a
scope, which its handler holds, or its consumer through a finalizer; as long as that
scope goes on its span is current on the worker that opened it; and what it restores at
the end is nothing, or a span that has ended. So it does no harm that another worker,
which collects the consumer, ends the scope and leaves the span current where it was.
`RestInv`: which scope a pull consumer holds, by where its fetch is. `ScopesFollowRecords` has the hypothesis
`Shared = {}`, that no two workers fetch from one consumer at once, as the libraries
demand: otherwise the second record replaces the attribute that holds the first one's
scope. The other three theorems hold without it. The assumption on the constants is that
the names for no message, for the application's span and for a template are not messages.

Two things had to change before these proofs went through. `Injected` and `Sender` of
`Messaging` and `Given` of `Clients` had `CASE` arms that overlap, where TLA+ leaves the
choice open and TLC takes the first: the arms are now disjoint. `EventsFollowCalls` now
relates the events to the calls by position, where it filtered a sequence before.

**Instrumentation.** Whoever takes a step, a slot sees one of a few things (`ChainStep`):
one of ours is put around it while the outermost is not ours, the first of ours is taken
out, another library's layer is put around it or taken off the top, or the record factory
is reset. What each of these does to a list of layers is a lemma about lists, and from it
follow, with no further invariant,

- `Apart`: two of ours are never neighbours. An installation looks at the outermost
  layer alone, and that is enough; `instrument()` inside `instrument()` changes nothing;
- `KeepsInOrder`: there is an order-preserving map from the layers other libraries put to
  the layers that are there, which misses none but ours. Each effect shifts that map.

`Guarded` (the factory has its guard up as soon as two of ours are on it) and `OneClass`
(while the cache has room, it holds all that connections got) are inductive
as they stand. `RegistryTellsTruth` is not, because it speaks of the moments
when nothing runs. `Working` says how far an installation or its undoing is: a slot of ours is
written down, in the targets of the instance until `_uninstrument()` is over and in the
list that is being restored after that (`WrittenDown`), it has one of ours at
most, and what is still to be patched has none. `Resting` is what that comes to at
the end. Both are said of slots where no foreign wrapper refused to let go, and only as
long as `instrument()` has not run inside itself: then the outer instance registers over the
inner one, whose wrappers its `uninstrument()` leaves behind (TLC finds that behaviour, in
nine steps, when the condition is dropped). Any number of instances, of
layers, of threads and of cursor classes will do, and any cache size. The one assumption beside the classes'
names is `NamesAssumption`, that an instance is not a foreign wrapper.

Model-checked only:

- liveness under fairness (`log_queue`, `log_consumer`, `context`, `request`,
  `async_request`, `messaging`, `lifecycle`), which TLAPS does not do;
- what recursive functions compute for every input. None is needed: folds are used
  where the code loops, and their results are stated by cases.

## Where the code and its documents differ

One is a run of its own:

- `lifecycle_early_fork`: the after-fork hook says it replaces the module lock
  before any use. It is registered at the end of the first `init()`, so a child
  forked by another thread during that call keeps the lock and not its owner.

The others were met while modelling. The properties leave them out, each where
its comment says so:

- `native_log_dropped` is documented as cumulative (`docs/api_contracts.md:330`). It
  is the sum of two counters read one after the other while the consumer moves
  drops from one to the other (`_native_log.py:67`): a later read can be smaller.
- An implicit task span is documented to wait for open event scopes
  (`docs/api_contracts.md:206`). It waits at most a grace period (`tracer.py:1168`).
- The SIGTERM handler promises to drain the agent first (`agent.py:853`). While
  another thread is inside `Agent.shutdown()` its own call returns at once
  (`agent.py:470`), and the process dies before the native shutdown is over.
- A comment in `_ClosingIterable.close()` says the span is activated again so that
  teardown attaches to it (`wsgi/__init__.py:386`). When the body was drained,
  `__next__` has ended the span by then.
- "The fallback must never re-run user code" (`_util.py:117`): Starlette's route
  wrapper calls a route that has no endpoint name from inside its own
  `try/except Exception`, and calls it again when it raises
  (`starlette/__init__.py:150`).
- aiohttp's handler wrapper calls its classifier unguarded: what that raises takes
  the place of the handler's exception.
- "A sub-500 one is normal control flow, not a failure" (`_util.py:968`). The wrappers
  of Starlette's `Route.handle` and of FastAPI's `run_endpoint_function` pass no classifier,
  and so record an `HTTPException` below 500 as an error of the endpoint's event.
  `ErrorsAreFailures` names them as an exception.
- An `instrument()` that an import hook calls inside `instrument()` of the same
  class, by another instance, passes the guard (`instrumentor.py:21`, 25): the outer
  one's patches are then not the registry's.
- Removed beneath a foreign wrapper that does not let go, a wrapper of ours stays;
  installed again, there are two of ours with the foreign one in between. The
  record factory, removed under a foreign one, forgets the predecessor it had
  (`logging_ext/__init__.py:90`).
- Publishing through AMQP or Celery writes over the headers of an earlier hop but
  does not take away that hop's drop marker.
- "The ident proves this thread owns the stale event" (`pymongo/__init__.py:169`), but
  not that its request does: two tasks of one event loop have one ident, and where their
  commands share a key the callback of one ends the event of the other. And ending a
  stale event of one's own request ends what is above it on the stack, which is the
  event just opened for the new command: that is closed at its start. `EventsFollowCalls`
  names both.
- The flag that enables proxy headers is read from the Python Config, not from the
  span's snapshot. `CIMultiDict.get` answers with the first of repeated headers,
  where the other readers give the last one.

## Assumptions and limits

- **Span.** One operation is one step because each holds `_native_lock`; the
  unlocked fast path of `SpanEvent.end` only skips ends that would do nothing.
  With `MaxDepth = 0` (and a sequence limit of at most one) the stack cap can be
  reached by a span with no placeholder open, and the code's defensive
  `_NULL_SPAN_EVENT` is handed out; the native agent resolves larger limits.
  Annotations, SQL text, start times and exceptions are left out: positions and
  links do not depend on them.
- **Queue.** Memory is sequentially consistent: the code orders the copies by
  release stores and acquire loads of a cell's sequence, and the only relaxed
  accesses are to counters nobody decides a copy on.
- **Consumer.** Native calls its sink under one mutex, and native shutdown waits
  out a callback in progress, as `src/_native.cpp` and `agent.py` rely on;
  both are outside this repository. When native shutdown raises, the sink may
  stay, and `NothingStranded` claims nothing.
- **Context.** asyncio as the code uses it: synchronous code around
  `asyncio.run()` does nothing while tasks live, and a task does nothing while it
  awaits. A server refers to the task of a request, and a handler to the child it
  awaits, as Django's ASGI handler does: neither is collected meanwhile. If they
  could be, the owner of a span would be gone while its parent goes on, and a third
  task could claim the span: TLC shows it when `KeptBy` is dropped, and a comment
  in `context.py` names the risk. A framework adopts for a child of the task whose
  request it is, not for a child of any task that looked at the span: the proof
  found the behaviour of four tasks that says why (one claims the span of a lost
  owner, has it adopted, and a parent and a stranger hold it). The worker gets one job.
- **Request.** Each thread has one context and each request one environ. A body is
  used by one thread at a time, is closed once, and is not pulled after it stopped,
  as PEP 3333 has servers do; `Drop` is the server that does not. When the
  collector finds an abandoned body it runs the reaper before it closes the
  generator, as CPython does: `IdleIsClean` rests on it, since the binding that
  the generator's scope then puts back is of a span that has ended. A scope under
  a null response span (an event past the limits) is excluded, because such a span
  never counts as ended. A thread that collects another request's open scope in
  the middle of a call loses its own span until it returns: `lost` marks the
  request, `OneRoot` and `SeesOwnSpan` except it, and `IdleIsClean` still holds.
  Statuses are those the middleware captures before a span ends; a generator app
  of an unsampled request sets its status after the root has ended, and no URL
  statistic is reported for it. Events and annotations of the request are left
  out, as are the frameworks' own hooks.
- **Lifecycle.** Threads of a process, processes and signals interleave
  freely, one step per lock operation or assignment. `OneNativeAgent` and
  `RunningIsReachable` are claimed of processes that only use `shutdown()` of the
  module: `Agent.shutdown()` called directly takes no lock, and a `shutdown()` that
  finds the flag set clears `_instance` while native shutdown still runs.
  `DrainedBeforeDeath` is claimed of processes where the signal finds the main
  thread outside agent calls: in the middle of a re-initialisation it can come
  between the native start and the assignment of `_instance`. The current span of
  a forking thread (`_detach_inherited_span`) is not part of the model, as there
  are no spans in it.
- **AsyncRequest.** A request that cannot carry the mark (it forbids item
  assignment) may have one root per stacked wrapper, and one whose setup failed has
  none: `RequestHasItsRoot` excepts both. Django's ASGI handler opens its span in
  the entry that `asgi` shares; its tasks are in `SpanContext`. A gRPC server runs an
  RPC in a context of its own, as grpc does.
- **Transaction.** One request at a time: what requests share is the configuration,
  which moves on other threads. Requests of the frameworks come without headers,
  reloads, children or errors of their own, and only a bare application has those
  (`MovesWith`): the wrappers read neither the headers nor the settings, so that
  the two halves do not need each other's product. The native side's answer is
  any of those that the headers allow, as sampling and filters are native. A fetch
  of the snapshot may fail. Header names carry no case, and a value is its list of
  parts; cookies are an annotation beside the recorded headers. A header may be listed
  twice in the real-ip option: the first place that names an address counts. Both
  were stated less exactly until the proof failed on them.
- **Clients.** Each caller has a span of its own; what two callers share is a request
  object and the command table, and, as tasks of one loop, the thread. Only those calls
  of the second caller are in the run that share something. Of `EventsFollowCalls` PyMongo's
  commands are excepted in the two cases [above](#where-the-code-and-its-documents-differ);
  between threads one of them remains, which concerns a caller's own commands.
- **Messaging.** Each consumer hands out a record to one worker at a time, as its
  library demands; `Shared` may relax that, and is empty in the run and in
  `ScopesFollowRecords`. A dropped
  consumer is collected once no worker is inside it.
- **Instrumentation.** Five classes stand for the five ways of patching: `wrap()`
  alone with a deferred import, receivers, a function slot, a class slot, and
  `wrap()` with classes made on demand. Other libraries take back only what is
  outermost. Wrappers do not carry our mark by `functools.wraps`, as a foreign
  handler of aiohttp may.
- **Examined and not claimed.** A warm-fork child that drops its inherited agent
  could run the native destructor; the code keeps a reference on purpose, and a
  property about it would say nothing more than `InheritedNeverTouched`.

## Not modelled

- Conversions: SQL text and binds, marshalling of annotations and configuration,
  argument rendering, proxy header values, query parameters, log formatting,
  call stacks. They keep no state, and no property here tells their results apart.
- `config.py`: options are read once, in straight lines; its generations and
  their reload are in `HttpTransaction`.
- `autoload.py` and `bootstrap/`: they run once, before the application, and call
  `instrument()`, which is modelled.
- Ignore rules and cause chains (`errors.py`): an error is ignored or not.
- Annotation buffers, which take appends without a lock: what races the end of
  an event may be kept or lost, and the code promises neither.
- Spans across a fork: `_detach_inherited_span` is an assignment in a hook that
  takes no lock, and the span modules have one process.

## Plan

Done: every module of the [table](#modules) with its run, and a theorem for each safety
invariant of a passing run.

Next, in this order:

1. `ErrorRules`: ignore rules and cause chains as operators, checked against a
   reference definition on bounded inputs; proxy headers and recorded parameters
   where a property tells them apart.
2. Django's middleware and its asynchronous handlers with `SpanContext`, so that a
   hand-off and an adoption meet in one model.
