----------------------------- MODULE AsyncRequest -----------------------------
(***************************************************************************)
(* Requests of the asynchronous and gRPC servers                           *)
(* (pinpoint/instrumentations: asgi, starlette, fastapi, aiohttp, tornado, *)
(* grpc) and their hand-offs to worker threads (asgiref, starlette,        *)
(* fastapi, and mint_async_child/claim_handoff/reclaim_handoff of          *)
(* _util.py).                                                              *)
(*                                                                         *)
(* A connection serves one request after the other in one execution        *)
(* context, which may come with the span of somebody else (it "leaked"     *)
(* in).  A request enters one wrapper or, when wrappers are stacked, two;  *)
(* the one that finds no mark on the request opens its root span.  The     *)
(* application then runs, may give synchronous work to a thread and wait   *)
(* for it, and returns, raises or is cancelled.  A worker and the task     *)
(* that waits for it settle by a one-element list, the latch, which of     *)
(* them ends the worker's span.                                            *)
(***************************************************************************)
EXTENDS Integers, Sequences, FiniteSets, SequencesExt

CONSTANTS
  Connections,
  Serving,     \* the servers that are instantiated
  Slots,       \* hand-offs that exist at a time
  MaxWork      \* bound on hand-offs and streamed items of one request

ASSUME AsyncRequestAssumption == Slots # {} /\ MaxWork \in Nat

None == "none"

(* What a context holds. *)
NoSpan == <<"none", 0>>
Leaked == <<"leaked", 0>>
Root(i) == <<"root", i>>

-----------------------------------------------------------------------------
(* The servers.  `marks`: whether the mark can be put on the request;      *)
(* `entry`: the wrapper opens an event around the application, "setup"     *)
(* when it is part of the guarded setup; `handlers`: the wrappers met on   *)
(* the way to the handler; `stacks`: the request may meet two wrappers;    *)
(* `keeps`: the connection's context outlives the request; `owns`: a       *)
(* request has an empty context of its own.                                *)
Asgi == [marks |-> {TRUE}, entry |-> "own", handlers |-> {}, stacks |-> TRUE,
         streams |-> FALSE, keeps |-> FALSE, owns |-> FALSE]
(* build_middleware_stack: entry_event=False.  A request that no route     *)
(* takes records its fallback event as it ends.                            *)
Starlette == [Asgi EXCEPT !.entry = "no", !.handlers = {"route"}]
FastAPI == [Asgi EXCEPT !.entry = "no", !.handlers = {"route", "api_route"}]
(* A request that forbids item assignment carries no mark.                 *)
Aiohttp == [marks |-> BOOLEAN, entry |-> "no", handlers |-> {"route", "system"},
            stacks |-> TRUE, streams |-> FALSE, keeps |-> TRUE, owns |-> FALSE]
Tornado == [Aiohttp EXCEPT !.entry = "setup", !.handlers = {}]
(* No mark: grpc.server() is given one interceptor, and each RPC runs in a *)
(* context of its own.                                                     *)
GrpcUnary == [marks |-> {FALSE}, entry |-> "own", handlers |-> {}, stacks |-> FALSE,
              streams |-> FALSE, keeps |-> FALSE, owns |-> TRUE]
GrpcStream == [GrpcUnary EXCEPT !.streams = TRUE]

Server == [asgi |-> Asgi, starlette |-> Starlette, fastapi |-> FastAPI,
           aiohttp |-> Aiohttp, tornado |-> Tornado, grpc |-> GrpcUnary,
           grpc_stream |-> GrpcStream]

ASSUME ServingAssumption == Serving \subseteq DOMAIN Server

(* The hand-offs.  `shapes`: whether the callable that the pool runs is    *)
(* one that claims, which asgiref's runner and arguments may not allow;    *)
(* `always`: the waiting side reclaims however its wait ends.              *)
SyncToAsync == [shapes |-> BOOLEAN, always |-> TRUE]
(* It does not return before its callable ran.                             *)
RunInThreadpool == [shapes |-> {TRUE}, always |-> FALSE]
(* prepare_exit, __exit__ on the worker, and reclaim_exit.                 *)
ContextmanagerExit == [shapes |-> {TRUE}, always |-> TRUE]

Pool == [sync_to_async |-> SyncToAsync, run_in_threadpool |-> RunInThreadpool,
         contextmanager_exit |-> ContextmanagerExit]

(* Where an asgi, a Starlette and a FastAPI application hand work over.    *)
Pools(server) ==
  CASE server = "asgi"      -> {"sync_to_async"}
    [] server = "starlette" -> {"run_in_threadpool"}
    [] server = "fastapi"   -> {"run_in_threadpool", "contextmanager_exit"}
    [] OTHER                -> {}

-----------------------------------------------------------------------------
VARIABLES
  served,   \* per connection: its server
  ambient,  \* per connection: what its context held before any request
  pc,       \* per connection: what its request is doing
  kind,     \* per connection: whether its request is one to be traced
  markable, \* per connection: whether its request can carry the mark
  todo,     \* per connection: wrappers yet to be entered
  marker,   \* per connection: the mark on its request
  current,  \* per connection: the span its context holds
  frames,   \* per connection: the wrappers entered and not left
  roots,    \* per connection: the roots of its request, by wrapper
  events,   \* per connection: the open events of the request's root
  failed,   \* per connection: a setup of the request failed
  left,     \* per connection: the work that the request may still do
  limbo,    \* per connection: generators that a cancelled RPC left suspended
  works     \* the hand-offs

vars == <<served, ambient, pc, kind, markable, todo, marker, current, frames,
          roots, events, failed, left, limbo, works>>

(* `latch`: the child is in it; `takes`: the callable claims it; `holds`:  *)
(* the worker took it; `users`: who has used the child since.              *)
NoWork == [of |-> None, pool |-> None, latch |-> FALSE, takes |-> FALSE,
           worker |-> "gone", holds |-> FALSE, child |-> None, users |-> {},
           awaited |-> FALSE]

Init ==
  /\ served \in [Connections -> Serving]
  /\ ambient \in [Connections -> {NoSpan, Leaked}]
  /\ \A c \in Connections : Server[served[c]].owns => ambient[c] = NoSpan
  /\ pc = [c \in Connections |-> "idle"] /\ kind = [c \in Connections |-> "http"]
  /\ markable = [c \in Connections |-> TRUE] /\ todo = [c \in Connections |-> 0]
  /\ marker = [c \in Connections |-> FALSE] /\ current = ambient
  /\ frames = [c \in Connections |-> <<>>] /\ roots = [c \in Connections |-> <<>>]
  /\ events = [c \in Connections |-> <<>>] /\ failed = [c \in Connections |-> FALSE]
  /\ left = [c \in Connections |-> 0] /\ limbo = [c \in Connections |-> 0]
  /\ works = [s \in Slots |-> NoWork]

Of(c) == Server[served[c]]

-----------------------------------------------------------------------------
(* Arrival and the wrappers *)

(* "other": a websocket, a lifespan scope, or a request under a disabled   *)
(* agent.                                                                  *)
Arrive(c, k, m, n) ==
  /\ pc[c] = "idle" /\ m \in Of(c).marks /\ (n = 2 => Of(c).stacks)
  /\ pc' = [pc EXCEPT ![c] = "entering"] /\ kind' = [kind EXCEPT ![c] = k]
  /\ markable' = [markable EXCEPT ![c] = m] /\ todo' = [todo EXCEPT ![c] = n]
  /\ roots' = [roots EXCEPT ![c] = [i \in 1..n |-> None]]
  /\ current' = [current EXCEPT ![c] =
                   IF Of(c).keeps THEN @ ELSE ambient[c]]
  /\ left' = [left EXCEPT ![c] = MaxWork]
  /\ UNCHANGED <<served, ambient, marker, failed, frames, events, limbo, works>>

ActiveIfCurrent(c) == current[c] # NoSpan                \* mutant
RootSpanActive(c) == marker[c]

Frame(root, restores, event, handler) ==
  [root |-> root, restores |-> restores, event |-> event, handler |-> handler]

Entered(c, root, restores, event) ==
  /\ frames' = [frames EXCEPT ![c] = Append(@, Frame(root, restores, event, FALSE))]
  /\ todo' = [todo EXCEPT ![c] = @ - 1]
  /\ pc' = [pc EXCEPT ![c] = IF todo'[c] = 0 THEN "app" ELSE "entering"]

Passes(c) == kind[c] = "other" \/ RootSpanActive(c)

PassThrough(c) ==
  /\ pc[c] = "entering" /\ Passes(c)
  /\ Entered(c, 0, NoSpan, FALSE)
  /\ UNCHANGED <<served, ambient, kind, markable, marker, current, roots, events,
                 failed, left, limbo, works>>

(* A span that leaked in is overridden, and put back by the token.  The    *)
(* entry event, where it is not part of the setup, may fail alone.         *)
TraceRequest(c) ==
  LET i == Len(frames[c]) + 1 IN
  /\ pc[c] = "entering" /\ ~Passes(c)
  /\ roots' = [roots EXCEPT ![c][i] = "open"]
  /\ marker' = [marker EXCEPT ![c] = markable[c]]
  /\ current' = [current EXCEPT ![c] = Root(i)]
  /\ \E e \in CASE Of(c).entry = "no"  -> {FALSE}
                [] Of(c).entry = "own" -> BOOLEAN
                [] OTHER               -> {TRUE} :
       /\ Entered(c, i, current[c], e)
       /\ events' = [events EXCEPT ![c] = IF e THEN Append(@, <<"entry", i>>) ELSE @]
  /\ UNCHANGED <<served, ambient, kind, markable, failed, left, limbo, works>>

(* `had`: the value before the token, `held`: what the context holds.      *)
ResetQuietly(had, held) == had

(* Where a setup may raise: before the span, before the mark or after it,  *)
(* and in tornado's with the span already current.  A failure is whether   *)
(* the span was made, the request marked and the context set.              *)
Failures(c) ==
  {f \in BOOLEAN \X BOOLEAN \X BOOLEAN :
     (f[2] => f[1]) /\ (f[3] => f[2] /\ Of(c).entry = "setup")}
(* A gRPC server's fails before there is a span.                           *)
OpenServerSpan(c) == {<<FALSE, FALSE, FALSE>>}

(* The span is ended, the token reset, and the application runs once,      *)
(* untraced by this wrapper.                                               *)
SetUpFails(c) ==
  LET i == Len(frames[c]) + 1 IN
  /\ pc[c] = "entering" /\ ~Passes(c)
  /\ \E f \in IF Of(c).owns THEN OpenServerSpan(c) ELSE Failures(c) :
       /\ roots' = [roots EXCEPT ![c][i] = IF f[1] THEN "ended" ELSE None]
       /\ marker' = [marker EXCEPT ![c] = f[2] /\ markable[c]]
       /\ current' = [current EXCEPT ![c] =
                        IF f[3] THEN ResetQuietly(@, Root(i)) ELSE @]
  /\ failed' = [failed EXCEPT ![c] = TRUE]
  /\ Entered(c, 0, NoSpan, FALSE)
  /\ UNCHANGED <<served, ambient, kind, markable, events, left, limbo, works>>

-----------------------------------------------------------------------------
(* The application *)

OwnRoot(c) == \E i \in DOMAIN roots[c] : current[c] = Root(i) /\ roots[c][i] = "open"

(* Which wrapper gives the handler of a route its event: Route.handle      *)
(* leaves FastAPI's APIRoute to run_endpoint_function, and aiohttp wraps   *)
(* every handler but that of its SystemRoute, which answers 404 and 405.   *)
RouteHandle(c, h) == ~Of(c).keeps /\ h = "route"
RunEndpoint(c, h) == ~Of(c).keeps /\ h = "api_route"
Traced(c, h) == Of(c).keeps /\ h = "route"

HandlerEvent == <<"handler", 0>>

(* The handler of a route of kind h runs: under an event, unless opening   *)
(* it fails.                                                               *)
RunHandler(c, h) ==
  /\ pc[c] = "app" /\ h \in Of(c).handlers
  /\ ~\E i \in DOMAIN frames[c] : frames[c][i].handler
  /\ \E opens \in IF OwnRoot(c) THEN BOOLEAN ELSE {FALSE} :
       LET by == <<RouteHandle(c, h), RunEndpoint(c, h), Traced(c, h)>>
           times == Cardinality({w \in DOMAIN by : by[w] /\ opens})
       IN /\ events' = [events EXCEPT ![c] = @ \o [i \in 1..times |-> HandlerEvent]]
          /\ frames' = [frames EXCEPT ![c] =
                          Append(@, Frame(0, NoSpan, times > 0, TRUE))]
  /\ UNCHANGED <<served, ambient, pc, kind, markable, todo, marker, current, roots,
                 failed, left, limbo, works>>

(* The application returns, raises or is cancelled; wrappers treat the     *)
(* three alike but for the error and the status they record.               *)
AppEnds(c) ==
  /\ pc[c] = "app" /\ pc' = [pc EXCEPT ![c] = "leaving"]
  /\ UNCHANGED <<served, ambient, kind, markable, todo, marker, current, frames,
                 roots, events, failed, left, limbo, works>>

(* Ending an event, or a span, ends what it left open. *)
Without(stack, e) ==
  IF \E i \in DOMAIN stack : stack[i] = e
  THEN SubSeq(stack, 1, (CHOOSE i \in DOMAIN stack : stack[i] = e) - 1)
  ELSE stack

(* What the request object held goes with it. *)
RequestGone(c) ==
  /\ pc' = [pc EXCEPT ![c] = "idle"] /\ kind' = [kind EXCEPT ![c] = "http"]
  /\ markable' = [markable EXCEPT ![c] = TRUE]
  /\ marker' = [marker EXCEPT ![c] = FALSE] /\ failed' = [failed EXCEPT ![c] = FALSE]
  /\ left' = [left EXCEPT ![c] = 0]

(* The innermost wrapper is left: its event ends, the context is put back  *)
(* and its root ends, whatever the outcome.                                *)
Leave(c) ==
  LET f == Last(frames[c]) IN
  /\ pc[c] = "leaving" /\ frames[c] # <<>>
  /\ frames' = [frames EXCEPT ![c] = Front(@)]
  /\ IF f.root = 0
     THEN /\ events' = [events EXCEPT ![c] =
                          IF f.event THEN Without(@, HandlerEvent) ELSE @]
          /\ UNCHANGED <<current, roots>>
     ELSE /\ events' = [events EXCEPT ![c] =
                          IF f.event THEN Without(@, <<"entry", f.root>>) ELSE @]
          /\ current' = [current EXCEPT ![c] = f.restores]
          /\ roots' = [roots EXCEPT ![c][f.root] = "ended"]
  /\ IF frames'[c] = <<>> THEN RequestGone(c)
     ELSE UNCHANGED <<pc, kind, markable, marker, failed, left>>
  /\ UNCHANGED <<served, ambient, todo, limbo, works>>

-----------------------------------------------------------------------------
(* Streaming RPCs: the wrapper is a generator, entered at the first pull   *)

CancelBeforePull(c) ==
  /\ pc[c] = "entering" /\ Of(c).streams /\ RequestGone(c)
  /\ todo' = [todo EXCEPT ![c] = 0]
  /\ UNCHANGED <<served, ambient, current, frames, roots, events, limbo, works>>

Yield(c) ==
  /\ pc[c] = "app" /\ Of(c).streams /\ left[c] > 0
  /\ pc' = [pc EXCEPT ![c] = "suspended"] /\ left' = [left EXCEPT ![c] = @ - 1]
  /\ UNCHANGED <<served, ambient, kind, markable, todo, marker, current, frames,
                 roots, events, failed, limbo, works>>

Pull(c) ==
  /\ pc[c] = "suspended" /\ pc' = [pc EXCEPT ![c] = "app"]
  /\ UNCHANGED <<served, ambient, kind, markable, todo, marker, current, frames,
                 roots, events, failed, left, limbo, works>>

(* The client cancels: grpc drops the generator without closing it, and    *)
(* the serving thread goes on to the next RPC.                             *)
Abandon(c) ==
  /\ pc[c] = "suspended" /\ RequestGone(c)
  /\ limbo' = [limbo EXCEPT ![c] = @ + IF OwnRoot(c) THEN 1 ELSE 0]
  /\ limbo'[c] <= 1
  /\ frames' = [frames EXCEPT ![c] = <<>>] /\ events' = [events EXCEPT ![c] = <<>>]
  /\ roots' = [roots EXCEPT ![c] = <<>>]
  /\ UNCHANGED <<served, ambient, todo, current, works>>

(* The generator is finalized, at once or by a later collection, on any    *)
(* thread: its event and span end; its token belongs to a context that no  *)
(* RPC uses any more, and the reset fails quietly there.                   *)
Finalize(c) ==
  /\ limbo[c] > 0 /\ limbo' = [limbo EXCEPT ![c] = @ - 1]
  /\ UNCHANGED <<served, ambient, pc, kind, markable, todo, marker, current, frames,
                 roots, events, failed, left, works>>

-----------------------------------------------------------------------------
(* Hand-offs to worker threads *)

Free(s) == works[s].worker \in {"gone", "done"} /\ ~works[s].awaited

(* The child is minted by the thread of the span, inside an event that     *)
(* ends there; an unsampled span, or a mint that fails, leaves the work    *)
(* untraced.                                                               *)
MintAsyncChild(c) == IF OwnRoot(c) THEN {"open", None} ELSE {None}

Dispatch(c, pool, s) ==
  /\ pc[c] = "app" /\ pool \in Pools(served[c]) /\ left[c] > 0
  /\ Free(s) /\ s = CHOOSE t \in Slots : Free(t)
  /\ \E child \in MintAsyncChild(c), takes \in Pool[pool].shapes :
       works' = [works EXCEPT ![s] =
                   [NoWork EXCEPT !.of = c, !.pool = pool, !.child = child,
                                  !.latch = (child = "open"), !.takes = takes,
                                  !.worker = "queued", !.awaited = TRUE]]
  /\ pc' = [pc EXCEPT ![c] = "waiting"] /\ left' = [left EXCEPT ![c] = @ - 1]
  /\ UNCHANGED <<served, ambient, kind, markable, todo, marker, current, frames,
                 roots, events, failed, limbo>>

(* A hand-off that is over keeps what became of the child. *)
Over(w) == IF w.worker \in {"gone", "done"} /\ ~w.awaited
           THEN [w EXCEPT !.of = None, !.pool = None, !.takes = FALSE,
                          !.holds = FALSE, !.worker = "gone"]
           ELSE w

ServerVars == <<served, ambient, kind, markable, todo, marker, current, frames,
                roots, events, failed, limbo, left>>

EndedOnce(child) == IF child = "open" THEN "ended" ELSE "ended twice"

TakesRegardless(w, who) ==                             \* mutant
  [w EXCEPT !.child = EndedOnce(@), !.users = @ \cup {who}]
(* reclaim_handoff: the side that pops the child ends it.                  *)
ReclaimHandoff(w, who) ==
  IF w.latch THEN [w EXCEPT !.latch = FALSE, !.child = EndedOnce(@),
                            !.users = @ \cup {who}]
  ELSE w

(* claim_handoff on the worker: when the latch is empty the callable runs  *)
(* untraced.                                                               *)
ClaimHandoff(w) ==
  IF w.takes /\ w.latch
  THEN [w EXCEPT !.worker = "running", !.latch = FALSE, !.holds = TRUE,
                 !.users = @ \cup {"worker"}]
  ELSE [w EXCEPT !.worker = "running"]

WorkerStarts(s) ==
  /\ works[s].worker = "queued"
  /\ works' = [works EXCEPT ![s] = ClaimHandoff(@)]
  /\ UNCHANGED <<ServerVars, pc>>

(* `with claimed:` ends the child, whether or not anybody still waits.     *)
LeaveClaimed(w) ==
  IF w.holds THEN [w EXCEPT !.worker = "done", !.child = EndedOnce(@)]
  ELSE [w EXCEPT !.worker = "done"]

WorkerEnds(s) ==
  /\ works[s].worker = "running"
  /\ works' = [works EXCEPT ![s] = Over(LeaveClaimed(@))]
  /\ UNCHANGED <<ServerVars, pc>>

ReclaimsOnReturn(pool, returns) == returns             \* mutant
Reclaims(pool, returns) == Pool[pool].always \/ ~returns

Settled(w, returns) ==
  [IF Reclaims(w.pool, returns) THEN ReclaimHandoff(w, "owner") ELSE w
     EXCEPT !.awaited = FALSE]

(* The task stops waiting: the work is done, it could not be dispatched,   *)
(* or the task is cancelled, which neither stops a running worker nor      *)
(* always withdraws a queued one.                                          *)
Returns(c, s) ==
  /\ pc[c] = "waiting" /\ works[s].awaited /\ works[s].of = c
  /\ works[s].worker = "done"
  /\ works' = [works EXCEPT ![s] = Over(Settled(@, TRUE))]
  /\ pc' = [pc EXCEPT ![c] = "app"]
  /\ UNCHANGED ServerVars

Raises(c, s) ==
  /\ pc[c] = "waiting" /\ works[s].awaited /\ works[s].of = c
  /\ \E worker \in IF works[s].worker = "queued" THEN {"queued", "gone"}
                   ELSE {works[s].worker} :
       works' = [works EXCEPT ![s] = 
                   Over([Settled(@, FALSE) EXCEPT !.worker = worker])]
  /\ pc' \in {[pc EXCEPT ![c] = "app"], [pc EXCEPT ![c] = "leaving"]}
  /\ UNCHANGED ServerVars

-----------------------------------------------------------------------------
Next ==
  \/ \E c \in Connections :
       \/ \E k \in {"http", "other"}, m \in BOOLEAN, n \in 1..2 : Arrive(c, k, m, n)
       \/ PassThrough(c) \/ TraceRequest(c) \/ SetUpFails(c)
       \/ \E h \in {"route", "api_route", "system"} : RunHandler(c, h)
       \/ AppEnds(c) \/ Leave(c)
       \/ CancelBeforePull(c) \/ Yield(c) \/ Pull(c) \/ Abandon(c) \/ Finalize(c)
       \/ \E s \in Slots :
            \/ \E p \in UNION {Pools(served[d]) : d \in Connections} : Dispatch(c, p, s)
            \/ Returns(c, s) \/ Raises(c, s)
  \/ \E s \in Slots : WorkerStarts(s) \/ WorkerEnds(s)

(* The loop and the pools run what is ready, applications and workers end, *)
(* a client goes on pulling or cancels, and generators are collected.      *)
Fairness ==
  /\ \A c \in Connections :
       /\ WF_vars(PassThrough(c) \/ TraceRequest(c) \/ SetUpFails(c))
       /\ WF_vars(AppEnds(c)) /\ WF_vars(Leave(c)) /\ WF_vars(Finalize(c))
       /\ WF_vars(Pull(c) \/ Abandon(c))
       /\ \A s \in Slots : WF_vars(Returns(c, s) \/ Raises(c, s))
  /\ \A s \in Slots : WF_vars(WorkerStarts(s)) /\ WF_vars(WorkerEnds(s))

Spec == Init /\ [][Next]_vars /\ Fairness

-----------------------------------------------------------------------------
(* Properties *)

TypeOK ==
  /\ \A c \in Connections :
       /\ served[c] \in Serving /\ ambient[c] \in {NoSpan, Leaked}
       /\ pc[c] \in {"idle", "entering", "app", "waiting", "suspended", "leaving"}
       /\ kind[c] \in {"http", "other"} /\ {markable[c], marker[c], failed[c]} \subseteq BOOLEAN
       /\ current[c] \in {NoSpan, Leaked, Root(1), Root(2)}
       /\ todo[c] + Cardinality({i \in DOMAIN frames[c] : ~frames[c][i].handler}) <= 2
       /\ \A i \in DOMAIN roots[c] : roots[c][i] \in {None, "open", "ended"}
       /\ left[c] \in 0..MaxWork /\ limbo[c] \in 0..1
  /\ \A s \in Slots :
       /\ works[s].of \in Connections \cup {None}
       /\ works[s].worker \in {"gone", "queued", "running", "done"}
       /\ works[s].users \subseteq {"owner", "worker"}
       /\ works[s].awaited => pc[works[s].of] = "waiting"

OpenRoots(c) == {i \in DOMAIN roots[c] : roots[c][i] = "open"}
InnermostRoot(c) == CHOOSE i \in OpenRoots(c) : \A j \in OpenRoots(c) : j <= i

(* A request has exactly one root span while its application runs, under   *)
(* however many wrappers and whatever span leaked into its context ("Keyed *)
(* on the Request, not current_span(), so an ambient/leaked context span   *)
(* can't disable tracing for every request", aiohttp/__init__.py:84), and  *)
(* that root is the current span.  A request that carries no mark may have *)
(* one per wrapper, and one whose setup failed none.  The handler has one  *)
(* event ("wrapping here too would double-emit the same logical span",     *)
(* starlette/__init__.py:135).  Afterwards the context is as it was.       *)
RequestHasItsRoot == TypeOK /\ \A c \in Connections :
  /\ pc[c] \in {"app", "waiting", "suspended"} =>
       /\ (kind[c] = "http" /\ ~failed[c]) => OpenRoots(c) # {}
       /\ (markable[c] \/ kind[c] = "other") => Cardinality(OpenRoots(c)) <= 1
       /\ OpenRoots(c) # {} => current[c] = Root(InnermostRoot(c))
       /\ OpenRoots(c) = {} => current[c] = ambient[c] /\ events[c] = <<>>
  /\ Cardinality({i \in DOMAIN events[c] : events[c][i] = HandlerEvent}) <= 1
  /\ pc[c] = "idle" => /\ OpenRoots(c) = {} /\ events[c] = <<>>
                       /\ Of(c).streams \/ current[c] = ambient[c]

(* "exactly one of {worker, dispatcher cleanup} wins and the child is      *)
(* never driven by two threads" (_util.py:852), whichever of a             *)
(* cancellation and a late start comes first; and as long as it is open    *)
(* there is somebody who will end it: the task that still waits, or the    *)
(* worker that took it.                                                    *)
HandoffHasOneOwner == \A s \in Slots :
  LET w == works[s] IN
  /\ Cardinality(w.users) <= 1 /\ w.child # "ended twice"
  /\ w.child = "open" => \/ w.latch /\ w.awaited
                         \/ w.holds /\ w.worker = "running"

(* Every root, every child and every abandoned stream's span ends. *)
SpansEnd ==
  /\ \A c \in Connections :
       /\ OpenRoots(c) # {} ~> OpenRoots(c) = {}
       /\ limbo[c] > 0 ~> limbo[c] = 0
  /\ \A s \in Slots : works[s].child = "open" ~> works[s].child # "open"
=============================================================================
