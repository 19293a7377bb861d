------------------------------ MODULE WsgiRequest ------------------------------
(***************************************************************************)
(* One root span per WSGI request (pinpoint/instrumentations/wsgi): the    *)
(* middleware on the threads of a server, the linked child that follows a  *)
(* streamed body from thread to thread (_ClosingIterable), and the reaper  *)
(* of a body that the server abandons.                                     *)
(*                                                                         *)
(* Each thread has a context of its own, whose _current_span outlives the  *)
(* request: what a request leaves behind there hides the root spans of all *)
(* later requests of that thread.  Code of the application that runs while *)
(* a body is pulled may enter a span of its own and leave it at a later    *)
(* pull, on another thread, or when the body is collected.                 *)
(*                                                                         *)
(* URL statistics are on, and no request is one that native refuses to     *)
(* trace at all (a null root span).                                        *)
(***************************************************************************)
EXTENDS Integers, FiniteSets

CONSTANTS
  Threads,      \* threads of the server
  Mounted,      \* those of a pool that run in a context copied from a traced
                \* ASGI request
  Requests,
  MaxPulls      \* bound: __next__ calls of a body

Nobody    == "nobody"
Elsewhere == "elsewhere"       \* the thread that owns a copied binding

ASSUME RequestAssumption ==
  /\ Mounted \subseteq Threads
  /\ MaxPulls \in Nat
  /\ Nobody \notin Threads \cup Requests

Binding(kind, r, t) == [span |-> kind, of |-> r, thread |-> t]
NoBinding == Binding("none", Nobody, Nobody)
NoScope   == [thread |-> Nobody, restores |-> NoBinding]

VARIABLES
  ctx,        \* per thread: _current_span
  at,         \* per thread: where in the middleware or the body it is
  job,        \* per thread: the request it works for
  token,      \* per thread: what the token of the present call restores
  stage,      \* per request: new, call, body (the server holds the iterable),
              \* dropped, over
  opened,     \* per request: root spans opened for it
  marked,     \* per request: the marker in its environ
  root,       \* per request: its root span
  child,      \* per request: its response span
  status,     \* per request: state[0] is set
  counted,    \* per request: spans that were sent with a URL statistic
  body,       \* per request: its _ClosingIterable
  scope,      \* per request: the token of a span its body has entered
  lost,       \* per request: its thread collected another body's scope
  exiting     \* the interpreter runs its exit hooks

spans    == <<opened, marked, root, child, status, counted>>
threads  == <<ctx, at, job, token>>
wsgiVars == <<threads, stage, spans, body, scope, lost, exiting>>

-----------------------------------------------------------------------------
(* pinpoint/context.py, without asyncio *)

Ended(b) == \/ b.span = "root" /\ root[b.of] = "ended"
            \/ b.span = "child" /\ child[b.of] = "ended"

(* current_span() is not None; on another thread than the binding's, it is *)
(* a view that records nothing.                                            *)
Visible(t) == ctx[t] # NoBinding /\ ~Ended(ctx[t])
Records(t) == Visible(t) /\ ctx[t].thread = t

(* The value after reset_current_span: in another context than the token's *)
(* it raises and changes nothing.                                          *)
AfterReset(t, tok) == IF tok.thread = t THEN tok.restores ELSE ctx[t]

Inherited(t) == IF t \in Mounted THEN Binding("server", Nobody, Elsewhere)
                                 ELSE NoBinding

NoBody == [late    |-> FALSE,     \* its end_span reports the status
           done    |-> FALSE,
           armed   |-> FALSE,     \* its _reaper is alive
           pulls   |-> 0,
           closed  |-> FALSE]

WsgiInit ==
  /\ ctx = [t \in Threads |-> Inherited(t)]
  /\ at = [t \in Threads |-> "idle"]
  /\ job = [t \in Threads |-> Nobody]
  /\ token = [t \in Threads |-> NoBinding]
  /\ stage = [r \in Requests |-> "new"]
  /\ opened = [r \in Requests |-> 0]
  /\ marked = [r \in Requests |-> FALSE]
  /\ root = [r \in Requests |-> "none"]
  /\ child = [r \in Requests |-> "none"]
  /\ status = [r \in Requests |-> FALSE]
  /\ counted = [r \in Requests |-> 0]
  /\ body = [r \in Requests |-> NoBody]
  /\ scope = [r \in Requests |-> NoScope]
  /\ lost = [r \in Requests |-> FALSE]
  /\ exiting = FALSE

-----------------------------------------------------------------------------
One(p) == IF p THEN 1 ELSE 0

Goes(t, p)    == at' = [at EXCEPT ![t] = p]
Stage(r, s)   == stage' = [stage EXCEPT ![r] = s]

(* The thread returns to the server. *)
Leaves(t) ==
  /\ Goes(t, "idle")
  /\ job' = [job EXCEPT ![t] = Nobody]
  /\ token' = [token EXCEPT ![t] = NoBinding]

ResetsToken(t) == ctx' = [ctx EXCEPT ![t] = token[t]]

(* The two signals of a nested layer: the marker in the shared environ and *)
(* a span in the context.                                                  *)
IsNested(t, has) == has \/ Visible(t)

(* A nested layer runs the app as it is. *)
WsgiPassThrough(t, r) ==
  /\ at[t] = "idle" /\ stage[r] = "new" /\ ~exiting
  /\ IsNested(t, marked[r])
  /\ Stage(r, "over")
  /\ UNCHANGED <<threads, spans, body, scope, lost, exiting>>

(* Anything in the set-up raises: a span that was made is ended without a  *)
(* report, and the app runs untraced.                                      *)
WsgiSetUpFails(t, r) ==
  /\ at[t] = "idle" /\ stage[r] = "new" /\ ~exiting
  /\ ~IsNested(t, marked[r])
  /\ Stage(r, "over")
  /\ \E made \in BOOLEAN :
       /\ root' = [root EXCEPT ![r] = IF made THEN "ended" ELSE "none"]
       /\ opened' = [opened EXCEPT ![r] = One(made)]
  /\ UNCHANGED <<threads, marked, child, status, counted, body, scope, lost,
                 exiting>>

Begin(t, r) ==
  /\ at[t] = "idle" /\ stage[r] = "new" /\ ~exiting
  /\ ~IsNested(t, marked[r])
  /\ Stage(r, "call")
  /\ root' = [root EXCEPT ![r] = "open"]
  /\ opened' = [opened EXCEPT ![r] = @ + 1]
  /\ marked' = [marked EXCEPT ![r] = TRUE]
  /\ token' = [token EXCEPT ![t] = ctx[t]]
  /\ ctx' = [ctx EXCEPT ![t] = Binding("root", r, t)]
  /\ Goes(t, "app")
  /\ job' = [job EXCEPT ![t] = r]
  /\ UNCHANGED <<child, status, counted, body, scope, lost, exiting>>

-----------------------------------------------------------------------------
(* The application, called or pulled *)

(* start_response through the wrapper, which may be as late as a pull. *)
StartResponse(t) ==
  /\ at[t] \in {"app", "step"} /\ ~status[job[t]]
  /\ status' = [status EXCEPT ![job[t]] = TRUE]
  /\ UNCHANGED <<threads, stage, opened, marked, root, child, counted,
                 body, scope, lost, exiting>>

(* It calls an app that is wrapped too, with the same environ or, as a     *)
(* mount does, with a fresh one.  Bound: no third root.                    *)
CallInner(t) ==
  /\ at[t] \in {"app", "step"} /\ ~exiting /\ opened[job[t]] < 2
  /\ \E same \in BOOLEAN :
       opened' = [opened EXCEPT ![job[t]] =
                    @ + One(~IsNested(t, same /\ marked[job[t]]))]
  /\ UNCHANGED <<threads, stage, marked, root, child, status, counted,
                 body, scope, lost, exiting>>

(* with another_span: in a generator, around a yield. *)
EnterScope(t) ==
  LET r == job[t] IN
  /\ at[t] = "step" /\ scope[r] = NoScope /\ child[r] = "open"
  /\ scope' = [scope EXCEPT ![r] = [thread |-> t, restores |-> ctx[t]]]
  /\ ctx' = [ctx EXCEPT ![t] = Binding("user", r, t)]
  /\ UNCHANGED <<at, job, token, stage, spans, body, lost, exiting>>

LeaveScope(t) ==
  LET r == job[t] IN
  /\ at[t] \in {"step", "close"} /\ scope[r] # NoScope
  /\ ctx' = [ctx EXCEPT ![t] = AfterReset(t, scope[r])]
  /\ scope' = [scope EXCEPT ![r] = NoScope]
  /\ UNCHANGED <<at, job, token, stage, spans, body, lost, exiting>>

-----------------------------------------------------------------------------
(* The call returns to the middleware, on the thread that opened the root *)

EndsRoot(r, reports) ==
  /\ root' = [root EXCEPT ![r] = "ended"]
  /\ counted' = [counted EXCEPT ![r] = @ + One(reports)]

(* An exception that reaches the server is a 500; other BaseExceptions are *)
(* reported only with the status that the app had set.                     *)
AppRaises(t) ==
  LET r == job[t] IN
  /\ at[t] = "app"
  /\ ResetsToken(t)
  /\ \E error \in BOOLEAN : EndsRoot(r, status[r] \/ error)
  /\ Stage(r, "over")
  /\ Leaves(t)
  /\ UNCHANGED <<opened, marked, child, status, body, scope, lost,
                 exiting>>

(* A list, a file wrapper or a buffered body: nothing is left to trace.    *)
(* So with any body of an unsampled request.                               *)
ReturnsBuffered(t) ==
  LET r == job[t] IN
  /\ at[t] = "app"
  /\ ResetsToken(t)
  /\ EndsRoot(r, status[r])
  /\ Stage(r, "over")
  /\ Leaves(t)
  /\ UNCHANGED <<opened, marked, child, status, body, scope, lost,
                 exiting>>

(* Which end_span the body gets. *)
ChildReports(r) == ~status[r]

NewBody(r) == [NoBody EXCEPT !.late = ChildReports(r), !.armed = TRUE]

(* Any other iterable of a sampled request gets a linked child, minted     *)
(* while the root goes on.  Minting may fail, which leaves the body alone, *)
(* or give a null span, whose end() does nothing; and what the app         *)
(* returned may turn out not to be iterable.                               *)
ReturnsStream(t) ==
  LET r == job[t] IN
  /\ at[t] = "app"
  /\ ResetsToken(t)
  /\ EndsRoot(r, status[r])
  /\ \/ \E c \in {"none", "ended"} : child' = [child EXCEPT ![r] = c]
        /\ Stage(r, "over")
        /\ UNCHANGED body
     \/ \E c \in {"open", "null"} : child' = [child EXCEPT ![r] = c]
        /\ Stage(r, "body")
        /\ body' = [body EXCEPT ![r] = NewBody(r)]
  /\ Leaves(t)
  /\ UNCHANGED <<opened, marked, status, scope, lost, exiting>>

-----------------------------------------------------------------------------
(* The server drains the body, on any of its threads but on one at a time *)

Unused(r) == \A t \in Threads : job[t] # r
Serves(t) == at[t] = "idle" /\ t \notin Mounted

FirstPullOnly(t, r) ==                                 \* mutant
  IF body[r].pulls = 0 THEN Binding("child", r, t) ELSE ctx[t]

(* SpanActivation.set: its binding is used again on the same thread, and   *)
(* made anew on another one.                                               *)
Activation(t, r) == Binding("child", r, t)

Activates(t, r) ==
  /\ token' = [token EXCEPT ![t] = ctx[t]]
  /\ ctx' = [ctx EXCEPT ![t] = Activation(t, r)]
  /\ job' = [job EXCEPT ![t] = r]

(* __next__; a body that is done is not pulled again. *)
PullBody(t, r) ==
  /\ Serves(t) /\ stage[r] = "body" /\ Unused(r)
  /\ ~body[r].done /\ ~body[r].closed /\ body[r].pulls < MaxPulls
  /\ Activates(t, r)
  /\ body' = [body EXCEPT ![r].pulls = @ + 1]
  /\ Goes(t, "step")
  /\ UNCHANGED <<stage, spans, scope, lost, exiting>>

Yields(t) ==
  /\ at[t] = "step"
  /\ ResetsToken(t)
  /\ Leaves(t)
  /\ UNCHANGED <<stage, spans, body, scope, lost, exiting>>

(* StopIteration or an error; a generator has left its scopes by then. *)
Stops(t) ==
  /\ at[t] = "step" /\ scope[job[t]] = NoScope
  /\ Goes(t, "finalize")
  /\ UNCHANGED <<ctx, job, token, stage, spans, body, scope, lost, exiting>>

Close(t, r) ==
  /\ Serves(t) /\ stage[r] = "body" /\ Unused(r) /\ ~body[r].closed
  /\ Activates(t, r)
  /\ body' = [body EXCEPT ![r].closed = TRUE]
  /\ Goes(t, "close")
  /\ UNCHANGED <<stage, spans, scope, lost, exiting>>

(* The inner close() returns or raises. *)
Closed(t) ==
  /\ at[t] = "close" /\ scope[job[t]] = NoScope
  /\ Goes(t, "finalize")
  /\ UNCHANGED <<ctx, job, token, stage, spans, body, scope, lost, exiting>>

-----------------------------------------------------------------------------
(* _finalize: the latch, then end_span *)

FinalizeBody(t) ==
  LET r == job[t] IN
  /\ at[t] = "finalize"
  /\ IF body[r].done
     THEN ResetsToken(t) /\ Leaves(t) /\ UNCHANGED body
     ELSE /\ body' = [body EXCEPT ![r].done = TRUE, ![r].armed = FALSE]
          /\ Goes(t, "end")
          /\ UNCHANGED <<ctx, job, token>>
  /\ UNCHANGED <<stage, spans, scope, lost, exiting>>

(* end_span: with or without the status, and nothing on an ended span. *)
EndsChild(r) ==
  /\ child' = [child EXCEPT ![r] = IF @ = "open" THEN "ended" ELSE @]
  /\ counted' = [counted EXCEPT ![r] =
                   @ + One(body[r].late /\ status[r] /\ child[r] = "open")]

(* The span ends, and the context is reset. *)
End(t) ==
  /\ at[t] = "end"
  /\ EndsChild(job[t])
  /\ ResetsToken(t)
  /\ Leaves(t)
  /\ UNCHANGED <<stage, opened, marked, root, status, body, scope, lost, exiting>>

-----------------------------------------------------------------------------
(* Abandoned bodies *)

Drop(r) ==
  /\ stage[r] = "body" /\ Unused(r)
  /\ Stage(r, "dropped")
  /\ UNCHANGED <<threads, spans, body, scope, lost, exiting>>

NeverReaps(r) == FALSE                                 \* mutant
Reaps(r) == body[r].armed

(* The reaper comes first; then the generator leaves its scope, on the     *)
(* thread that happens to collect it.                                      *)
Collect(t, r) ==
  /\ stage[r] = "dropped"
  /\ Stage(r, "over")
  /\ IF Reaps(r) THEN EndsChild(r) ELSE UNCHANGED <<child, counted>>
  /\ body' = [body EXCEPT ![r] = NoBody]
  /\ IF scope[r] = NoScope THEN UNCHANGED <<ctx, lost>>
     ELSE /\ ctx' = [ctx EXCEPT ![t] = AfterReset(t, scope[r])]
          /\ lost' = [q \in Requests |-> lost[q] \/ q = job[t]]
  /\ scope' = [scope EXCEPT ![r] = NoScope]
  /\ UNCHANGED <<at, job, token, opened, marked, root, status, exiting>>

Exit ==
  /\ ~exiting
  /\ exiting' = TRUE
  /\ UNCHANGED <<threads, stage, spans, body, scope, lost>>

(* weakref.finalize runs the reapers that are left while other threads go  *)
(* on.                                                                     *)
ReapAtExit(r) ==
  /\ exiting /\ body[r].armed
  /\ body' = [body EXCEPT ![r].armed = FALSE]
  /\ EndsChild(r)
  /\ UNCHANGED <<threads, stage, opened, marked, root, status, scope,
                 lost, exiting>>

-----------------------------------------------------------------------------
InCall(t) ==
  \/ AppRaises(t) \/ ReturnsBuffered(t) \/ ReturnsStream(t)
  \/ Yields(t) \/ Stops(t) \/ Closed(t)
  \/ FinalizeBody(t) \/ End(t)

WsgiNext ==
  \/ \E t \in Threads :
       \/ InCall(t) \/ StartResponse(t) \/ CallInner(t)
       \/ EnterScope(t) \/ LeaveScope(t)
       \/ \E r \in Requests : \/ WsgiPassThrough(t, r) \/ WsgiSetUpFails(t, r)
                              \/ Begin(t, r) \/ PullBody(t, r) \/ Close(t, r)
                              \/ Collect(t, r)
  \/ \E r \in Requests : Drop(r) \/ ReapAtExit(r)
  \/ Exit

WsgiSpec == WsgiInit /\ [][WsgiNext]_wsgiVars

(* The app and its body return, a server does not hold an iterable for     *)
(* ever, and what nobody refers to is collected.                           *)
WsgiFairness ==
  /\ \A t \in Threads : /\ WF_wsgiVars(InCall(t))
                        /\ WF_wsgiVars(at[t] = "close" /\ LeaveScope(t))
  /\ \A r \in Requests : /\ WF_wsgiVars(Drop(r))
                         /\ WF_wsgiVars(\E t \in Threads : Collect(t, r))

WsgiFairSpec == WsgiSpec /\ WsgiFairness

-----------------------------------------------------------------------------
(* Properties *)

Bindings == [span : {"root", "child", "user"}, of : Requests, thread : Threads]
              \cup {NoBinding, Binding("server", Nobody, Elsewhere)}

(* Every variable has its type, and a thread works for a request exactly   *)
(* while it is in a call.                                                  *)
WsgiTypeOK ==
  /\ ctx \in [Threads -> Bindings] /\ token \in [Threads -> Bindings]
  /\ at \in [Threads -> {"idle", "app", "step", "close", "finalize", "end"}]
  /\ job \in [Threads -> Requests \cup {Nobody}]
  /\ \A t \in Threads : at[t] = "idle" <=> job[t] = Nobody
  /\ stage \in [Requests -> {"new", "call", "body", "dropped", "over"}]
  /\ opened \in [Requests -> 0..2] /\ counted \in [Requests -> 0..2]
  /\ root \in [Requests -> {"none", "open", "ended"}]
  /\ child \in [Requests -> {"none", "open", "null", "ended"}]
  /\ \A p \in {marked, status, lost} : p \in [Requests -> BOOLEAN]
  /\ body \in [Requests -> [late : BOOLEAN, done : BOOLEAN,
                            armed : BOOLEAN,
                            pulls : 0..MaxPulls, closed : BOOLEAN]]
  /\ scope \in [Requests -> [thread : Threads, restores : Bindings]
                              \cup {NoScope}]
  /\ exiting \in BOOLEAN

(* "a span leaked without a reset on a threaded worker [...] would         *)
(* suppress root spans for every later request there" (wsgi/__init__.py    *)
(* 126-128): on a thread that is back at the server current_span() is      *)
(* None, however bodies migrated, failed, were abandoned, or were          *)
(* collected with a scope open.                                            *)
IdleIsClean ==
  \A t \in Threads \ Mounted : at[t] = "idle" => ~Visible(t)

(* A request has one root span, whatever wrapped layers it goes through;   *)
(* unless its thread collected a body with an open scope meanwhile.        *)
OneRoot == \A r \in Requests : opened[r] <= 1 \/ lost[r]

(* Code that runs for a request never sees another request's span, and     *)
(* while a streamed body is pulled it records into a span of its own on    *)
(* this thread (_ClosingIterable.__next__, SpanActivation.set).            *)
SeesOwnSpan ==
  \A t \in Threads :
    /\ at[t] # "idle" /\ Visible(t) => ctx[t].of = job[t]
    /\ at[t] = "step" /\ child[job[t]] = "open" /\ ~lost[job[t]] => Records(t)

(* A status that the middleware has captured is counted in the URL         *)
(* statistics once, by the root or by its child (the choice of end_span):  *)
(* not twice, and not never once the request is over.                      *)
CountedOnce ==
  \A r \in Requests :
    /\ counted[r] <= 1
    /\ stage[r] = "over" /\ status[r] /\ child[r] # "null" /\ ~exiting
         => counted[r] = 1

(* A body that streams over several threads leaves each of them clean, and *)
(* its request has its own spans, one root and one count.                  *)
RequestsStayApart ==
  WsgiTypeOK /\ IdleIsClean /\ OneRoot /\ SeesOwnSpan /\ CountedOnce

(* No native span stays open for ever: the root ends, and its child too,   *)
(* also when the server neither drains nor closes the body.                *)
WsgiSpansEnd ==
  \A r \in Requests : (root[r] = "open" \/ child[r] = "open")
                       ~> (root[r] # "open" /\ child[r] # "open")

=============================================================================
