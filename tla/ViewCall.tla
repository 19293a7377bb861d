-------------------------------- MODULE ViewCall --------------------------------
(***************************************************************************)
(* One call of a framework's view, or of the routing around it, through    *)
(* the wrapper installed on it (the view wrappers of flask, pyramid,       *)
(* django, falcon, starlette, fastapi and aiohttp; safe_wrapper,           *)
(* span_event_scope and the classifiers of instrumentations/_util.py).     *)
(*                                                                         *)
(* Any statement of a wrapper may fail: its set-up before the target runs, *)
(* what it does with the target's result, its classifier of exceptions.    *)
(* The target may return, raise, or be interrupted by what is not an       *)
(* Exception (cancellation, KeyboardInterrupt).                            *)
(***************************************************************************)
EXTENDS Naturals

None == "none"

-----------------------------------------------------------------------------
(* Exceptions of a target.  `own`: the class is named like one with which  *)
(* the framework answers and comes from the framework's package; `named`:  *)
(* it only shares the name.  Status 0: no readable one.                    *)
Exceptions == [
  abort     |-> [own |-> TRUE,  named |-> TRUE,  status |-> 404],
  finish    |-> [own |-> TRUE,  named |-> TRUE,  status |-> 0],
  server    |-> [own |-> TRUE,  named |-> TRUE,  status |-> 500],
  namesake  |-> [own |-> FALSE, named |-> TRUE,  status |-> 404],
  error     |-> [own |-> FALSE, named |-> FALSE, status |-> 0]]

Outcomes == DOMAIN Exceptions \cup {"returns", "interrupt"}

Raised(o) == o # "returns"
IsException(o) == o \in DOMAIN Exceptions

MroHas(o) == Exceptions[o].named /\ Exceptions[o].own

(* mutant: the class name alone *)
StatusByName(o) == IF Exceptions[o].named THEN {Exceptions[o].status} ELSE {}

(* The status it answers with, if it is one of the framework's.            *)
HttpExceptionStatus(o) == IF MroHas(o) THEN {Exceptions[o].status} ELSE {}

ControlFlowPredicate(o) == \E status \in HttpExceptionStatus(o) : status < 500

(* Http404 of Django carries no status. *)
DjangoControlFlow(o) == o = "abort" /\ MroHas(o)

(* classify: how a wrapper tells control flow from a failure.              *)
ControlFlow(classify, o) ==
  \/ classify = "status" /\ IsException(o) /\ ControlFlowPredicate(o)
  \/ classify = "django" /\ IsException(o) /\ DjangoControlFlow(o)

-----------------------------------------------------------------------------
(* The wrappers.  guard: who catches a failing set-up, the sentinel of     *)
(* safe_wrapper or the body itself (of an async body safe_wrapper sees     *)
(* only the creation; a closure in a responder's place has no              *)
(* safe_wrapper).  route: when the matched template is left for the root,  *)
(* and always: whatever the span.  post: code after the target may fail.   *)
(* scope: the event is held by span_event_scope.  inner: a view without a  *)
(* name is called from inside the body's own guard.                        *)
Wrapper == [guard |-> "sentinel", precheck |-> FALSE, opens |-> TRUE, scope |-> TRUE,
            classify |-> "status", route |-> "never", always |-> FALSE, post |-> FALSE,
            inner |-> FALSE]

FlaskDispatch == [Wrapper EXCEPT !.route = "before"]
(* Marks a body that is there already; the root reads that.                *)
FlaskFinalize == [Wrapper EXCEPT !.precheck = TRUE, !.opens = FALSE]
PyramidView == [Wrapper EXCEPT !.route = "before"]
(* Django resolves inside the target. *)
DjangoView == [Wrapper EXCEPT !.classify = "django", !.route = "after"]
DjangoAsyncView == [DjangoView EXCEPT !.guard = "local"]
FalconGetResponder ==
  [Wrapper EXCEPT !.opens = FALSE, !.route = "returned", !.always = TRUE, !.post = TRUE]
FalconResponder == [Wrapper EXCEPT !.guard = "local"]
StarletteRoute ==
  [Wrapper EXCEPT !.guard = "local", !.classify = None, !.route = "before",
                  !.always = TRUE, !.inner = TRUE]
(* FastAPI's own routes: the event belongs to the endpoint.                *)
FastAPIRoute == [StarletteRoute EXCEPT !.opens = FALSE]
FastAPIEndpoint == [Wrapper EXCEPT !.guard = "local", !.classify = None]
AiohttpResolve == [FalconGetResponder EXCEPT !.guard = "local", !.post = FALSE]
(* Its event is held by hand. *)
AiohttpHandler == [Wrapper EXCEPT !.guard = "local", !.scope = FALSE]

Wrappers == [
  dispatch |-> FlaskDispatch, finalize |-> FlaskFinalize, call_view |-> PyramidView,
  get_response |-> DjangoView, get_response_async |-> DjangoAsyncView,
  get_responder |-> FalconGetResponder, responder |-> FalconResponder,
  handle |-> StarletteRoute, fastapi_handle |-> FastAPIRoute,
  run_endpoint |-> FastAPIEndpoint,
  resolve |-> AiohttpResolve, traced |-> AiohttpHandler]

(* What a framework calls for one request, in order.                       *)
Frameworks == [
  flask |-> <<"dispatch", "finalize">>, pyramid |-> <<"call_view">>,
  django |-> <<"get_response">>, django_asgi |-> <<"get_response_async">>,
  falcon |-> <<"get_responder", "responder">>, starlette |-> <<"handle">>,
  fastapi |-> <<"fastapi_handle", "run_endpoint">>,
  aiohttp |-> <<"resolve", "traced">>]

(* Those that only route: they do not run the view.                        *)
Routing == {"finalize", "get_responder", "fastapi_handle", "resolve"}

-----------------------------------------------------------------------------
VARIABLES
  wrapper,  \* the wrapper in call, or none
  step,     \* idle, precheck, body, target, leave, guard, over
  mode,     \* how the target is called: traced, plain, inner, untraced, raw
  event,    \* the span event of the call: none, open, clean, failed
  ran,      \* how often the target ran
  outcome,  \* what it did the last time
  seen,     \* what leaves the wrapper's body, at last what the caller sees
  broken,   \* the classifier failed
  matched,  \* the framework has matched a route for this request
  stashed   \* ... and the wrapper has left its template for the root

callVars == <<wrapper, step, mode, event, ran, outcome, seen, broken>>
routeVars == <<matched, stashed>>

CallInit ==
  /\ wrapper = None /\ step = "idle" /\ mode = None /\ event = None /\ ran = 0
  /\ outcome = None /\ seen = None /\ broken = FALSE
  /\ matched = FALSE /\ stashed = FALSE

W == Wrappers[wrapper]

Call(w) ==
  /\ step = "idle"
  /\ wrapper' = w /\ step' = "precheck"
  /\ UNCHANGED <<mode, event, ran, outcome, seen, broken, routeVars>>

(* Only the check itself is guarded: one that raises sends the call        *)
(* through the wrapper, and what the target raises goes to the caller.     *)
Precheck(span) ==
  /\ step = "precheck"
  /\ \/ W.precheck /\ span = None /\ step' = "target" /\ mode' = "raw"
     \/ step' = "body" /\ mode' = mode
  /\ UNCHANGED <<wrapper, event, ran, outcome, seen, broken, routeVars>>

(* mutant: on the sampled path only *)
StashesIfSampled(span, collects) == span = "sampled"

(* An unsampled root wants the template for URL statistics alone.          *)
Stashes(span, collects) ==
  \/ span = "sampled"
  \/ span = "unsampled" /\ collects
  \/ span # None /\ W.always

(* The routing done before the wrapper came in. *)
StashBefore(span, collects) ==
  \/ W.route = "before" /\ matched' = TRUE /\ stashed' = (stashed \/ Stashes(span, collects))
  \/ UNCHANGED routeVars

(* No span, one that records nothing, or a handler without a name.         *)
BodyPlain(span, collects) ==
  /\ step = "body" /\ (span # "sampled" \/ ~W.opens \/ W.route = "before")
  /\ StashBefore(span, collects)
  /\ mode' = (IF span = "sampled" /\ W.inner /\ W.opens THEN "inner" ELSE "plain")
  /\ step' = "target"
  /\ UNCHANGED <<wrapper, event, ran, outcome, seen, broken>>

BodyOpens(span, collects) ==
  /\ step = "body" /\ span = "sampled" /\ W.opens
  /\ StashBefore(span, collects)
  /\ mode' = "traced" /\ step' = "target" /\ event' = "open"
  /\ UNCHANGED <<wrapper, ran, outcome, seen, broken>>

(* new_span_event() fails.  A local guard has not reached the target yet.  *)
SetUpFails(span, collects) ==
  /\ step = "body" /\ span = "sampled" /\ W.opens
  /\ StashBefore(span, collects)
  /\ IF W.guard = "local" THEN mode' = "untraced" /\ step' = "target" /\ seen' = seen
     ELSE mode' = "traced" /\ step' = "guard" /\ seen' = "ours"
  /\ UNCHANGED <<wrapper, event, ran, outcome, broken>>

(* Before the target, what is no Exception is nobody's to catch.           *)
Interrupted ==
  /\ step = "body" /\ step' = "guard" /\ seen' = "interrupt"
  /\ UNCHANGED <<wrapper, mode, event, ran, outcome, broken, routeVars>>

Target ==
  /\ step = "target"
  /\ ran' = ran + 1 /\ step' = "leave"
  /\ \E o \in Outcomes :
       /\ outcome' = o
       /\ \/ W.route = "after" /\ matched' = TRUE
          \/ W.route = "returned" /\ ~Raised(o) /\ matched' = TRUE
          \/ matched' = matched
  /\ UNCHANGED <<wrapper, mode, event, seen, broken, stashed>>

(* After the target: Django's in a finally, the others with a result.      *)
StashAfter(span, collects) ==
  /\ W.route = "after" \/ (W.route = "returned" /\ outcome = "returns")
  /\ matched /\ mode \in {"traced", "plain"} /\ Stashes(span, collects)

(* record_exception_on_event: an ordinary exception, unless it is          *)
(* classified; a classifier that fails has classified nothing.             *)
Records(fails) == IsException(outcome) /\ (fails \/ ~ControlFlow(W.classify, outcome))

(* The scope of the event.  aiohttp's own calls its classifier unguarded:  *)
(* what that raises takes the place of the target's exception.             *)
LeaveScope(span, collects) ==
  /\ step = "leave" /\ mode = "traced" /\ step' = "guard"
  /\ stashed' = (stashed \/ StashAfter(span, collects))
  /\ \E fails \in {FALSE} \cup {W.classify # None /\ IsException(outcome)} :
       /\ broken' = fails
       /\ event' = IF Records(fails) /\ (W.scope \/ ~fails) THEN "failed" ELSE "clean"
       /\ seen' = IF fails /\ ~W.scope THEN "classifier" ELSE outcome
  /\ UNCHANGED <<wrapper, mode, ran, outcome, matched>>

(* Without an event; "ours": what the wrapper does next with the result    *)
(* fails.                                                                  *)
LeavePlain(span, collects) ==
  /\ step = "leave" /\ mode # "traced" /\ step' = "guard"
  /\ stashed' = (stashed \/ StashAfter(span, collects))
  /\ \/ seen' = outcome
     \/ W.post /\ mode = "plain" /\ ~Raised(outcome) /\ seen' = "ours"
  /\ UNCHANGED <<wrapper, mode, event, ran, outcome, broken, matched>>

(* mutant: whatever ordinary exception comes out, the target is called *)
CallsAgain(exc) == IF exc = "interrupt" THEN "raise" ELSE "call"

(* What safe_wrapper makes of an exception, by what its sentinel saw.      *)
Verdict(exc) ==
  CASE exc = "interrupt"                             -> "raise"
    [] exc # "interrupt" /\ outcome = "returns"      -> "keep"
    [] exc # "interrupt" /\ outcome \notin {"returns", None} -> "raise"
    [] exc # "interrupt" /\ outcome = None           -> "call"

(* The end of the call, or the target after all.  Starlette's guard takes  *)
(* what a view without a name raises for a failure of its own.             *)
Guard ==
  LET judged == W.guard = "sentinel" /\ mode \in {"traced", "plain"} /\ Raised(seen)
      again == \/ judged /\ Verdict(seen) = "call"
               \/ mode = "inner" /\ IsException(seen)
  IN /\ step = "guard"
     /\ step' = IF again THEN "target" ELSE "over"
     /\ mode' = IF again THEN "untraced" ELSE mode
     /\ seen' = IF judged /\ Verdict(seen) = "keep" THEN outcome ELSE seen
     /\ UNCHANGED <<wrapper, event, ran, outcome, broken, routeVars>>

(* The frames are gone. *)
Forget ==
  /\ step = "over"
  /\ wrapper' = None /\ step' = "idle" /\ mode' = None /\ event' = None /\ ran' = 0
  /\ outcome' = None /\ seen' = None /\ broken' = FALSE

CallNext(span, collects) ==
  \/ Precheck(span) \/ BodyPlain(span, collects) \/ BodyOpens(span, collects)
  \/ SetUpFails(span, collects) \/ Interrupted \/ Target
  \/ LeaveScope(span, collects) \/ LeavePlain(span, collects) \/ Guard

-----------------------------------------------------------------------------
(* Properties. *)

(* The view runs exactly once, and its caller sees what the view did,      *)
(* whatever fails in the wrapper around it ("The fallback must never       *)
(* re-run user code", _util.py:117; "it must never break the user's call", *)
(* _util.py:90).  An interrupt may stop a call before its target.  Two     *)
(* exceptions: the failure of aiohttp's classifier reaches the caller, and *)
(* a Starlette route without an endpoint runs again when it raises.        *)
CallIsTransparent ==
  /\ ran <= 1 \/ (ran = 2 /\ wrapper = "handle" /\ mode = "untraced")
  /\ step = "over" =>
       \/ ran > 0 /\ seen = outcome
       \/ ran = 0 /\ seen = "interrupt"
       \/ ran = 1 /\ seen = "classifier" /\ broken /\ ~W.scope

(* The answers below 500 a framework gives with an exception (Django: only *)
(* Http404), and the wrappers that pass no classifier for them: Starlette's *)
(* Route.handle and FastAPI's run_endpoint_function.                       *)
Answers(w) ==
  IF w \in {"get_response", "get_response_async"} THEN {"abort"} ELSE {"abort", "finish"}

Unclassified == {"handle", "run_endpoint"}

(* The span event of a call is closed with it, and tells whether the view  *)
(* failed.  It is failed by every other ordinary exception, one of another *)
(* library that shares the name of the framework's included, never by an   *)
(* interrupt, and not by an answer the framework gave with an exception    *)
(* below 500 ("A sub-500 one is normal control flow, not a failure",       *)
(* _util.py:968).  The code has three exceptions to that.  Starlette's     *)
(* and FastAPI's wrapper record every exception, so such an answer does    *)
(* fail their event; so it does wherever the classifier itself fails; and  *)
(* where aiohttp's fails, which is called by hand, nothing is recorded.    *)
ErrorsAreFailures ==
  step = "over" /\ mode = "traced" /\ ran = 1 =>
    LET answered == outcome \in Answers(wrapper)
        unrecorded == broken /\ wrapper = "traced"
    IN /\ event \in {"clean", "failed"}
       /\ event = "failed" <=>
            /\ IsException(outcome) /\ ~unrecorded
            /\ answered => broken \/ wrapper \in Unclassified

=============================================================================
