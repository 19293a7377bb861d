---------------------------- MODULE HttpTransaction ----------------------------
(***************************************************************************)
(* One HTTP server transaction at a time, from its headers to its end:     *)
(* Agent.new_span, the spans it may answer with (sampled, unsampled, null  *)
(* and the children of those) and the settings a span is admitted under    *)
(* (pinpoint/agent.py); what the transports do with such a span            *)
(* (instrumentations/_util.py, http_helper.py); the calls of the views in  *)
(* between (ViewCall).                                                     *)
(*                                                                         *)
(* Around it the native agent reloads its configuration and other threads  *)
(* open spans of their own.  The native side is external: it decides about *)
(* the sampling, and knows the settings of each of its generations.        *)
(***************************************************************************)
EXTENDS HttpHeaders, ViewCall

CONSTANTS
  Messages,     \* the header lists a client may send
  Children,     \* names of the handles background work may hold
  MaxRevision,  \* bound on configuration generations
  MaxVerdicts   \* _MAX_ERROR_VERDICTS

(* No header has the value that stands for no header.                      *)
ASSUME HttpTransactionAssumption ==
  /\ MaxRevision \in Nat \ {0} /\ MaxVerdicts \in Nat \ {0}
  /\ 0..MaxRevision \subseteq DOMAIN Configs
  /\ \A m \in Messages : /\ m \in Seq(ToSet(m))
                         /\ \A i \in DOMAIN m : m[i].value # Absent
  /\ \A g \in DOMAIN Configs : Configs[g].realIp \in Seq(ToSet(Configs[g].realIp))

(* A bare application runs no wrapped view; it is the one that gets the    *)
(* messages, starts background work and meets reloads.                     *)
Bare == "bare"
Apps == DOMAIN Frameworks \cup {Bare}

VARIABLES
  phase,     \* idle, received, admitted, refresh, opened, annotated, serving,
             \* answered, over
  app,       \* which application serves the request
  todo,      \* wrapped methods it has still to call
  collects,  \* Agent._collect_url_stat
  carrier,   \* how the transport holds the headers
  raw,       \* the headers, until the request is annotated
  span,      \* the root: none, null, unsampled, sampled
  trace,     \* the trace it continues, or new
  revision,  \* of the native configuration
  cached,    \* Agent._span_config: a generation, 0: none
  reloading, \* what reload_config() fetched and is about to store
  other,     \* the generation another thread's span was admitted under
  admitted,  \* the generation this one was
  snapshot,  \* the generation its Span carries, 0: none
  used,      \* (what it recorded, the generation whose settings decided it)
  address,   \* its remote address, until the application runs
  recorded,  \* the headers and the cookies recorded, until then
  children,  \* handle -> what it is
  ended,     \* end() has run
  verdicts,  \* errors an unsampled root keeps for the native policy
  marked,    \* those handed over at once
  erred,     \* errors recorded on it
  failed,    \* what the native policy made of them
  status,    \* of the response, 0: none
  urlStat    \* what the native side was told, or NoStat

requestVars == <<app, todo, collects, carrier, raw, span, trace>>
configVars == <<revision, cached, reloading, other, admitted, snapshot, used>>
spanVars == <<address, recorded, children, ended, verdicts, marked, erred, failed, status, urlStat>>
vars == <<phase, requestVars, configVars, spanVars, callVars, routeVars>>

NoStat == [pattern |-> None, status |-> 0]

(* Cookies are an annotation of their own. *)
NothingRecorded == [headers |-> {}, cookies |-> {}]

Fresh ==
  /\ phase = "idle" /\ app = None /\ todo = <<>> /\ carrier = None /\ raw = <<>>
  /\ span = None /\ trace = Absent /\ admitted = 0 /\ snapshot = 0 /\ used = {}
  /\ address = None /\ recorded = NothingRecorded /\ children = [c \in Children |-> None] /\ ended = FALSE
  /\ verdicts = <<>> /\ marked = {} /\ erred = {} /\ failed = FALSE
  /\ status = 0 /\ urlStat = NoStat

(* The first snapshot is fetched with the agent, or the fetch fails.       *)
Init ==
  /\ Fresh /\ CallInit /\ collects \in BOOLEAN
  /\ revision = 1 /\ cached \in {0, 1} /\ reloading = 0 /\ other = 0

-----------------------------------------------------------------------------
(* Admission. *)

Receive ==
  /\ phase = "idle" /\ phase' = "received"
  /\ \E a \in Apps, c \in Carriers, m \in Messages :
       /\ (a # Bare => m = <<>> /\ c = "environ")
       /\ (c = "environ" => \A i, j \in DOMAIN m : i # j => m[i].name # m[j].name)
       /\ app' = a /\ carrier' = c /\ raw' = m
       /\ todo' = IF a = Bare THEN <<>> ELSE Frameworks[a]
  /\ UNCHANGED <<collects, span, trace, configVars, spanVars, callVars, routeVars>>

(* The native verdict: s0 is binding, a trace with its span ids is         *)
(* continued; what a filter excludes, and every request of an agent that   *)
(* is off, is a noop.                                                      *)
NativeNewSpan(h) ==
  IF h[Sampled] = <<"s0">> THEN {"unsampled", "null"} ELSE {"sampled", "unsampled", "null"}

ContinuedContext(h) == \A n \in ToSet(PinpointHeaders) \ {Sampled} : h[n] # Absent

(* Agent.new_span: span id 0 is a noop, which gets no wrapper of its own.  *)
NewSpan ==
  /\ phase = "received"
  /\ LET h == Inbound(carrier, raw)
     IN \E s \in NativeNewSpan(h) :
          /\ span' = s /\ admitted' = revision
          /\ trace' = IF s = "sampled" /\ ContinuedContext(h) THEN h[TraceID] ELSE Absent
          /\ phase' = IF s = "sampled" THEN "admitted" ELSE "opened"
  /\ UNCHANGED <<app, todo, collects, carrier, raw, revision, cached, reloading, other,
                 snapshot, used, spanVars, callVars, routeVars>>

(* No agent, or one that is not enabled: the transport traces nothing.     *)
AgentDisabled ==
  /\ phase = "received" /\ phase' = "opened"
  /\ UNCHANGED <<requestVars, configVars, spanVars, callVars, routeVars>>

(* The cached tuple is read once. *)
CompareRevision ==
  /\ phase = "admitted"
  /\ IF cached = admitted THEN phase' = "opened" /\ snapshot' = cached
     ELSE phase' = "refresh" /\ snapshot' = snapshot
  /\ UNCHANGED <<requestVars, revision, cached, reloading, other, admitted, used,
                 spanVars, callVars, routeVars>>

(* mutant: the agent's snapshot, in place of the span's *)
LoadCurrent == revision

(* The native span kept the generation it was admitted under.              *)
LoadSpanConfig == admitted

(* A fetch that fails leaves no snapshot, on the span and in the cache.    *)
Refresh ==
  /\ phase = "refresh" /\ phase' = "opened"
  /\ \E g \in {0, LoadSpanConfig} : snapshot' = g /\ cached' = g
  /\ UNCHANGED <<requestVars, revision, reloading, other, admitted, used,
                 spanVars, callVars, routeVars>>

-----------------------------------------------------------------------------
(* The configuration moves. *)

MovesWith == app \in {None, Bare}

(* The native watcher, or reload_config() in the native agent.             *)
HotReload ==
  /\ MovesWith /\ revision < MaxRevision /\ revision' = revision + 1
  /\ UNCHANGED <<phase, requestVars, cached, reloading, other, admitted, snapshot, used,
                 spanVars, callVars, routeVars>>

(* reload_config() goes on to fetch the snapshot, and stores it later.     *)
ReloadFetches ==
  /\ MovesWith /\ reloading = 0 /\ revision > 1 /\ reloading' = revision
  /\ UNCHANGED <<phase, requestVars, revision, cached, other, admitted, snapshot, used,
                 spanVars, callVars, routeVars>>

(* A fetch that failed keeps the old tuple. *)
ReloadStores ==
  /\ reloading # 0 /\ reloading' = 0
  /\ cached' \in {cached, reloading}
  /\ UNCHANGED <<phase, requestVars, revision, other, admitted, snapshot, used,
                 spanVars, callVars, routeVars>>

(* Another thread in new_span(): it compares and, unless the cache was of  *)
(* its own generation, fetches and stores.                                 *)
OtherAdmitted ==
  /\ MovesWith /\ other = 0 /\ other' = revision
  /\ UNCHANGED <<phase, requestVars, revision, cached, reloading, admitted, snapshot, used,
                 spanVars, callVars, routeVars>>

OtherRefreshes ==
  /\ other # 0 /\ other' = 0 /\ cached' \in {cached, other, 0}
  /\ UNCHANGED <<phase, requestVars, revision, reloading, admitted, snapshot, used,
                 spanVars, callVars, routeVars>>

-----------------------------------------------------------------------------
(* What a sampled span records. *)

(* _snapshot_gate, _header_recording_config and _real_ip_config: the       *)
(* span's snapshot, or the Python Config.                                  *)
Settings == snapshot

(* Cookies are looked up first, under two spellings, if they are wanted;   *)
(* then the address, three proxy headers and the allow-list.               *)
AnnotateServerRequest ==
  /\ phase = "opened" /\ span = "sampled" /\ phase' = "annotated"
  /\ used' = used \cup {<<"request", Settings>>}
  /\ LET config == Configs[Settings]
         cookie == Get(carrier, raw, "Cookie", ProbesOfInbound(carrier, raw) + 1)
         probes == ProbesOfInbound(carrier, raw)
                   + (CASE ~config.cookies -> 0
                        [] config.cookies /\ cookie # Absent -> 1
                        [] config.cookies /\ cookie = Absent -> 2)
     IN /\ address' = ResolveRemoteAddr(carrier, raw, config, probes)
        /\ recorded' =
             [headers |-> RecordHeader(carrier, raw, config.requestHeaders,
                                       probes + Len(config.realIp) + 3),
              cookies |-> IF config.cookies /\ cookie # Absent
                          THEN {ParseCookieHeader(cookie)} ELSE {}]
  /\ UNCHANGED <<requestVars, revision, cached, reloading, other, admitted, snapshot,
                 children, ended, verdicts, marked, erred, failed, status, urlStat,
                 callVars, routeVars>>

(* The application runs; the reader is gone. *)
Serve ==
  /\ phase = "annotated" \/ (phase = "opened" /\ span # "sampled")
  /\ phase' = "serving" /\ raw' = <<>> /\ carrier' = None /\ trace' = Absent
  /\ address' = None /\ recorded' = NothingRecorded
  /\ UNCHANGED <<app, todo, collects, span, configVars, children, ended, verdicts,
                 marked, erred, failed, status, urlStat, callVars, routeVars>>

(* trace_http_client_request and _response: on an open event only, which   *)
(* the null event is not.                                                  *)
ClientRequest ==
  /\ phase = "serving" /\ app = Bare /\ span = "sampled"
  /\ <<"client", Settings>> \notin used
  /\ used' = used \cup {<<"client", Settings>>}
  /\ UNCHANGED <<phase, requestVars, revision, cached, reloading, other, admitted,
                 snapshot, spanVars, callVars, routeVars>>

-----------------------------------------------------------------------------
(* The views. *)

CallView ==
  /\ phase = "serving" /\ todo # <<>>
  /\ Call(Head(todo)) /\ todo' = Tail(todo)
  /\ UNCHANGED <<phase, app, collects, carrier, raw, span, trace, configVars, spanVars>>

InView ==
  /\ phase = "serving" /\ CallNext(span, collects)
  /\ UNCHANGED <<phase, requestVars, configVars, spanVars>>

(* The framework's answer to what its view did. *)
StatusOf(result) ==
  CASE result \in {"returns", "finish"} -> 200
    [] result = "abort"               -> 404
    [] result = "interrupt"           -> 0
    [] OTHER                          -> 500

ViewDone ==
  /\ phase = "serving" /\ Forget
  /\ IF seen = "returns" /\ todo # <<>> THEN phase' = phase /\ status' = status /\ todo' = todo
     ELSE phase' = "answered" /\ status' = StatusOf(seen) /\ todo' = <<>>
  /\ UNCHANGED <<app, collects, carrier, raw, span, trace, configVars, address, recorded,
                 children, ended, verdicts, marked, erred, failed, urlStat, routeVars>>

(* A bare application answers, fails, or the connection is lost first.     *)
Answer ==
  /\ phase = "serving" /\ app = Bare
  /\ phase' = "answered" /\ status' \in {0, 200, 500}
  /\ UNCHANGED <<requestVars, configVars, address, recorded, children, ended, verdicts,
                 marked, erred, failed, urlStat, callVars, routeVars>>

-----------------------------------------------------------------------------
(* The span that does not record. *)

(* mutant: what does not fit is dropped *)
KeptOrDropped(e) ==
  /\ verdicts' = IF Len(verdicts) >= MaxVerdicts THEN verdicts ELSE Append(verdicts, e)
  /\ marked' = marked

(* Past the limit the native span is told at once.                         *)
RecordErrorVerdict(e) ==
  IF Len(verdicts) >= MaxVerdicts THEN marked' = marked \cup {e} /\ verdicts' = verdicts
  ELSE verdicts' = Append(verdicts, e) /\ marked' = marked

(* Errors the native policy ignores, and those it does not.                *)
SetError ==
  /\ phase \in {"serving", "answered"} /\ app = Bare /\ span = "unsampled" /\ ~ended
  /\ \E e \in {"ignored", "real"} : erred' = erred \cup {e} /\ RecordErrorVerdict(e)
  /\ UNCHANGED <<phase, requestVars, configVars, address, recorded, children, ended, failed,
                 status, urlStat, callVars, routeVars>>

(* mutant: an async child of any span that does not record is a null span *)
ChildrenAreNull(kind) == IF kind \in {"sampled", "sampled_child"} THEN {"sampled_child", "null"}
                         ELSE {"null"}

(* new_async_span, the fork for a task and the detached view.  A sampled   *)
(* span has a null child where it is over, has no open event or stands for *)
(* another thread's; a null one shares itself.                             *)
ChildOf(kind) ==
  CASE kind \in {"sampled", "sampled_child"}     -> {"sampled_child", "null"}
    [] kind \in {"unsampled", "unsampled_child"} -> {"unsampled_child"}
    [] kind = "null"                             -> {"null"}

(* Background work takes one, while the request runs or after it.          *)
TakeChild ==
  /\ app = Bare /\ phase \in {"serving", "answered", "over"} /\ span # None
  /\ \E c \in Children :
       /\ children[c] = None
       /\ \E from \in ({span} \cup {children[d] : d \in Children}) \ {None} :
            \E kind \in ChildOf(from) : children' = [children EXCEPT ![c] = kind]
  /\ UNCHANGED <<phase, requestVars, configVars, address, recorded, ended, verdicts, marked,
                 erred, failed, status, urlStat, callVars, routeVars>>

(* inject_context_items: what an outbound call made under a handle carries.*)
Injected(kind, over) ==
  CASE kind = "sampled"         -> IF over THEN "nothing" ELSE "trace"
    [] kind = "unsampled"       -> IF over THEN "nothing" ELSE "s0"
    [] kind = "sampled_child"   -> "trace"
    [] kind = "unsampled_child" -> "s0"
    [] kind \in {"null", None}  -> "nothing"

-----------------------------------------------------------------------------
(* The end. *)

(* The template where one was stashed, else the path; nothing for a        *)
(* response without a status.                                              *)
UrlStat ==
  IF collects /\ status # 0 /\ span \in {"sampled", "unsampled"}
  THEN [pattern |-> IF stashed THEN "route" ELSE "path", status |-> status] ELSE NoStat

EndServerSpan ==
  /\ phase = "answered" /\ phase' = "over" /\ ended' = TRUE
  /\ urlStat' = UrlStat
  /\ used' = IF span = "sampled" THEN used \cup {<<"response", Settings>>} ELSE used
  /\ failed' = ("real" \in ToSet(verdicts) \cup marked)
  /\ verdicts' = <<>> /\ marked' = {}
  /\ UNCHANGED <<requestVars, revision, cached, reloading, other, admitted, snapshot,
                 address, recorded, children, erred, status, callVars, routeVars>>

(* The next request of the worker. *)
NextRequest ==
  /\ phase = "over" /\ phase' = "idle"
  /\ app' = None /\ todo' = <<>> /\ carrier' = None /\ raw' = <<>> /\ span' = None
  /\ trace' = Absent /\ admitted' = 0 /\ snapshot' = 0 /\ used' = {}
  /\ address' = None /\ recorded' = NothingRecorded /\ children' = [c \in Children |-> None]
  /\ ended' = FALSE /\ verdicts' = <<>> /\ marked' = {} /\ erred' = {} /\ failed' = FALSE
  /\ status' = 0 /\ urlStat' = NoStat /\ matched' = FALSE /\ stashed' = FALSE
  /\ UNCHANGED <<collects, revision, cached, reloading, other, callVars>>

Next ==
  \/ Receive \/ NewSpan \/ AgentDisabled \/ CompareRevision \/ Refresh
  \/ HotReload \/ ReloadFetches \/ ReloadStores \/ OtherAdmitted \/ OtherRefreshes
  \/ AnnotateServerRequest \/ Serve \/ ClientRequest \/ CallView \/ InView \/ ViewDone
  \/ Answer \/ SetError \/ TakeChild \/ EndServerSpan \/ NextRequest

Spec == Init /\ [][Next]_vars

-----------------------------------------------------------------------------
(* Properties. *)

Generations == 0..MaxRevision

TypeOK ==
  /\ phase \in {"idle", "received", "admitted", "refresh", "opened", "annotated",
               "serving", "answered", "over"}
  /\ app \in Apps \cup {None} /\ ToSet(todo) \subseteq DOMAIN Wrappers
  /\ carrier \in Carriers \cup {None} /\ raw \in Messages \cup {<<>>}
  /\ span \in {None, "null", "unsampled", "sampled"}
  /\ revision \in 1..MaxRevision 
  /\ used \subseteq {"request", "client", "response"} \X Generations
  /\ {cached, reloading, other, admitted, snapshot} \subseteq 0..revision
  /\ children \in [Children -> {None, "null", "sampled_child", "unsampled_child"}]
  /\ {collects, ended, failed, broken, matched, stashed} \subseteq BOOLEAN
  /\ Len(verdicts) <= MaxVerdicts /\ ToSet(verdicts) \cup marked \subseteq erred
  /\ status \in {0, 200, 404, 500} /\ urlStat.status \in {0, status}
  /\ wrapper \in DOMAIN Wrappers \cup {None}
  /\ step \in {"idle", "precheck", "body", "target", "leave", "guard", "over"}
  /\ mode \in {None, "traced", "plain", "inner", "untraced", "raw"}
  /\ event \in {None, "open", "clean", "failed"}
  /\ {outcome, seen} \subseteq Outcomes \cup {None, "ours", "classifier"}

(* What a carrier holds under a name: the last of its headers, or what a   *)
(* multidict says.                                                         *)
Claimed(name) ==
  IF Named(raw, name) = {} THEN Absent
  ELSE raw[IF carrier = "mapping" THEN Min(Named(raw, name)) ELSE Max(Named(raw, name))].value

(* A caller's decision holds for the whole tree below it: its s0 is never  *)
(* sampled here, its trace is the one continued, and everything an         *)
(* unsampled request starts, its background work and that one's, sends s0, *)
(* during the request and after it ("The unsampled decision travels with   *)
(* every child", agent.py:1324).                                           *)
DecisionTravels ==
  /\ phase \in {"admitted", "refresh", "opened"} /\ span = "sampled" =>
       /\ Claimed(Sampled) # <<"s0">>
       /\ (\A n \in ToSet(PinpointHeaders) \ {Sampled} : Claimed(n) # Absent)
            => trace = Claimed(TraceID)
  /\ \A c \in Children : children[c] # None =>
       /\ (span = "unsampled") = (Injected(children[c], ended) = "s0")
       /\ span = "null" => Injected(children[c], ended) = "nothing"

(* A span lives under the generation of settings it was admitted under,    *)
(* however the configuration moves and whoever refreshes the cache: all    *)
(* that it recorded was decided by that one, or, where no snapshot could   *)
(* be fetched, by the Python Config ("the same generation the span was     *)
(* admitted under", http_helper.py:594).                                   *)
AdmittedUnderOneConfig ==
  /\ \A u \in used : u[2] = snapshot
  /\ phase \in {"opened", "annotated", "serving", "answered", "over"} /\ span = "sampled" =>
       snapshot \in {admitted, 0}

(* The address is the first hop of the first trusted header that names     *)
(* one, else the peer's, and every recorded header has the value the       *)
(* request gives it, wherever the reader stood in its lookups ("last-      *)
(* occurrence-wins semantics", http_helper.py:272).                        *)
RecordedFromTheRequest ==
  phase = "annotated" =>
    LET config == Configs[snapshot]
        names == {n \in ToSet(config.realIp) :
                    Claimed(n) \notin {Absent, <<>>} /\ Usable(Head(Claimed(n)), config)}
    IN /\ IF names = {} THEN address = SocketAddress
          ELSE \E i \in DOMAIN config.realIp :
                 /\ config.realIp[i] \in names /\ address = Head(Claimed(config.realIp[i]))
                 /\ \A j \in DOMAIN config.realIp : config.realIp[j] \in names => i <= j
       /\ config.requestHeaders # HeadersAll =>
            \A n \in ToSet(config.requestHeaders) : \A v \in {r[2] : r \in
                 {q \in recorded.headers : q[1] = n}} : v = Claimed(n)

(* The statistics of a request are kept under the route that the framework *)
(* matched, sampled or not and however the view ended, and never under a   *)
(* status nobody sent ("URL-stat aggregation buckets per route template,   *)
(* not per concrete path", flask/__init__.py:75).  A call whose event      *)
(* could not be opened may lose the template.                              *)
RouteIsKnown ==
  /\ step = "over" /\ mode \in {"traced", "plain", "inner"} /\ matched
       /\ (span = "sampled" \/ (span = "unsampled" /\ collects)) => stashed
  /\ phase = "over" /\ collects /\ span \in {"sampled", "unsampled"} =>
       /\ (urlStat = NoStat) = (status = 0)
       /\ (urlStat # NoStat /\ stashed => urlStat.pattern = "route")

(* An error that is not ignored fails the transaction, however many        *)
(* ignored ones came before it ("without letting a run of ignored errors   *)
(* hide a later non-ignored one", agent.py:1280).                          *)
FailureReachesNative ==
  TypeOK /\ (phase = "over" /\ span = "unsampled" => (failed = ("real" \in erred)))

=============================================================================
