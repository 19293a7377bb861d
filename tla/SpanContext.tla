------------------------------ MODULE SpanContext ------------------------------
(***************************************************************************)
(* Which execution context may use which span (pinpoint/context.py), and   *)
(* the life of the spans that asyncio tasks fork implicitly                *)
(* (Span._fork_for_async_task in pinpoint/tracer.py).                      *)
(*                                                                         *)
(* A ContextVar holds a binding, which tasks and worker threads inherit by *)
(* copying; all copies share the binding object.  A span has one event     *)
(* stack, so at any time only one of the contexts may work on it.          *)
(*                                                                         *)
(* Everything but the worker runs on the event loop's thread, one step     *)
(* between two awaits at a time.  Bindings are created with their span,    *)
(* except by the adoption of a framework's child task.                     *)
(***************************************************************************)
EXTENDS Integers, Sequences, FiniteSets

CONSTANTS
  Tasks,        \* asyncio tasks
  Main,         \* synchronous code around asyncio.run()
  Worker,       \* a thread that runs in a copied context
  MaxSpans,     \* bound: spans created
  MaxOpen       \* bound: open events of a span

Units == Tasks \cup {Main, Worker}
LoopThread == "loop"
ThreadOf(u) == IF u = Worker THEN "worker" ELSE LoopThread

NoBinding == 0
NoTask    == "none"

ASSUME ContextAssumption ==
  /\ Main \notin Tasks /\ Worker \notin Tasks /\ Main # Worker
  /\ NoTask \notin Units
  /\ MaxSpans \in Nat /\ MaxOpen \in Nat

VARIABLES
  task,       \* per task: unborn, alive, done (callbacks pending), over, collected
  waitsFor,   \* per task: the child that adopted its span
  bindings,   \* the _SpanBinding objects: [span, thread, owner]
  ctx,        \* _current_span, per unit
  ended,      \* per span: Span._ended
  stack,      \* per span: who opened its open events, innermost last
  latch,      \* per span: owned_span of its _finish, non-empty
  armed,      \* per span: its lifetime timer is pending
  grace,      \* per span: grace_deadline: unset, running or over
  forkedBy,   \* per span: the task it was forked for
  enteredBy   \* per span: the unit whose with-block it is

life == <<ended, latch, armed, grace>>
made == <<forkedBy, enteredBy>>
vars == <<task, waitsFor, bindings, ctx, stack, made, life>>

Spans == DOMAIN ended

Init ==
  /\ task = [t \in Tasks |-> "unborn"]
  /\ waitsFor = [t \in Tasks |-> NoTask]
  /\ bindings = <<>> /\ ctx = [u \in Units |-> NoBinding]
  /\ ended = <<>> /\ stack = <<>> /\ latch = <<>> /\ armed = <<>>
  /\ grace = <<>> /\ forkedBy = <<>> /\ enteredBy = <<>>

-----------------------------------------------------------------------------
(* asyncio, as the code relies on it: the loop runs inside Main, and a     *)
(* task does nothing while it awaits another one.                          *)
LoopRuns == \E t \in Tasks : task[t] = "alive"

(* An adopted child is awaited to its end. *)
Suspended(p) == waitsFor[p] \in {t \in Tasks : task[t] = "alive"}

MayRun(u) ==
  CASE u = Main   -> ~LoopRuns
    [] u = Worker -> TRUE
    [] OTHER      -> task[u] = "alive" /\ ~Suspended(u)

-----------------------------------------------------------------------------
(* current_span() *)

Binding(u)   == bindings[ctx[u]]
SpanOf(u)    == Binding(u).span
TaskOf(u)    == IF u \in Tasks THEN u ELSE NoTask

SameThread(u) == Binding(u).thread = ThreadOf(u)

(* The binding is there, its span goes on and belongs to this thread:      *)
(* anything else is None or a detached view that records nothing.          *)
Reachable(u) == ctx[u] # NoBinding /\ ~ended[SpanOf(u)] /\ SameThread(u)

(* The weak reference to the owner: none yet, or dead. *)
Unowned(b) == b.owner \in {NoTask} \cup {t \in Tasks : task[t] = "collected"}

SharedByTasks(u) == Reachable(u)                       \* mutant
Usable(u) == Reachable(u) /\ (u \notin Tasks \/ Binding(u).owner = u)

OwnerTaken(u) == [bindings EXCEPT ![ctx[u]].owner = u]

(* The first task to look, or one that looks after the owner is gone,      *)
(* becomes the owner, in all copies of the context.                        *)
Claim(u) ==
  /\ u \in Tasks /\ MayRun(u) /\ Reachable(u) /\ Unowned(Binding(u))
  /\ bindings' = OwnerTaken(u)
  /\ UNCHANGED <<task, waitsFor, ctx, stack, made, life>>

-----------------------------------------------------------------------------
NewSpan(u, for) ==
  /\ Len(ended) < MaxSpans
  /\ ended' = Append(ended, FALSE)
  /\ stack' = Append(stack, <<>>)
  /\ grace' = Append(grace, "unset")
  /\ forkedBy' = Append(forkedBy, for)
  /\ enteredBy' = Append(enteredBy, IF for = NoTask THEN u ELSE NoTask)
  /\ bindings' = Append(bindings, [span   |-> Len(ended) + 1,
                                   thread |-> ThreadOf(u),
                                   owner  |-> TaskOf(u)])
  /\ ctx' = [ctx EXCEPT ![u] = Len(bindings) + 1]

(* with agent.new_span(...): a server entry point. *)
EnterRoot(u) ==
  /\ u # Worker /\ MayRun(u) /\ ctx[u] = NoBinding
  /\ NewSpan(u, NoTask)
  /\ latch' = Append(latch, FALSE) /\ armed' = Append(armed, FALSE)
  /\ UNCHANGED <<task, waitsFor>>

(* call_later() of the lifetime timer. *)
WithoutTimer == FALSE                                  \* mutant
StartsTimer == TRUE

(* Any other task forks a span of its own: the linking event is opened and *)
(* closed within the step.  A fork that fails leaves the task untraced.    *)
Fork(u) ==
  /\ u \in Tasks /\ MayRun(u) /\ Reachable(u)
  /\ ~Unowned(Binding(u)) /\ Binding(u).owner # u
  /\ NewSpan(u, u)
  /\ latch' = Append(latch, TRUE) /\ armed' = Append(armed, StartsTimer)
  /\ UNCHANGED <<task, waitsFor>>

(* The request is p's: it entered the span, or the span was forked for it. *)
MadeFor(p, s) == p \in {enteredBy[s], forkedBy[s]}

(* _adopt_current_span: a framework's child task continues the request     *)
(* while its parent p awaits it (as in Django's ASGI handler).             *)
Adopt(p, t) ==
  /\ p # t /\ MayRun(t) /\ MayRun(p) /\ waitsFor[p] = NoTask
  /\ ctx[t] # NoBinding /\ ctx[t] = ctx[p] /\ SameThread(t) /\ MadeFor(p, SpanOf(p))
  /\ Len(bindings) < 2 * MaxSpans
  /\ bindings' = Append(bindings, [span |-> SpanOf(t), thread |-> LoopThread,
                                   owner |-> t])
  /\ ctx' = [ctx EXCEPT ![t] = Len(bindings) + 1]
  /\ waitsFor' = [waitsFor EXCEPT ![p] = t]
  /\ UNCHANGED <<task, stack, made, life>>

-----------------------------------------------------------------------------
(* Event scopes (with span.new_span_event(...), open across awaits) *)

OpenEvent(u) ==
  /\ MayRun(u) /\ Usable(u)
  /\ Len(stack[SpanOf(u)]) < MaxOpen
  /\ stack' = [stack EXCEPT ![SpanOf(u)] = Append(@, u)]
  /\ UNCHANGED <<task, waitsFor, bindings, ctx, made, life>>

(* Closing u's innermost event on s finishes what is nested above it. *)
Above(q, u) == SubSeq(q, 1, (CHOOSE i \in DOMAIN q :
                               q[i] = u /\ \A j \in DOMAIN q : q[j] = u => j <= i) - 1)
HasOpen(u, s) == \E i \in DOMAIN stack[s] : stack[s][i] = u

CloseEvent(u, s) ==
  /\ MayRun(u) /\ HasOpen(u, s)
  /\ stack' = [stack EXCEPT ![s] = Above(@, u)]
  /\ UNCHANGED <<task, waitsFor, bindings, ctx, made, life>>

(* The exit of `with root:` resets the context and ends the span, which    *)
(* drains what other contexts left open on it.                             *)
ExitRoot(u) ==
  /\ MayRun(u) /\ ctx[u] # NoBinding /\ enteredBy[SpanOf(u)] = u
  /\ \A s \in Spans : ~HasOpen(u, s)
  /\ ctx' = [ctx EXCEPT ![u] = NoBinding]
  /\ ended' = [ended EXCEPT ![SpanOf(u)] = TRUE]
  /\ stack' = [stack EXCEPT ![SpanOf(u)] = <<>>]
  /\ waitsFor' = [t \in Tasks |-> IF t = u THEN NoTask ELSE waitsFor[t]]
  /\ UNCHANGED <<task, bindings, latch, armed, grace, made>>

-----------------------------------------------------------------------------
(* Tasks and threads inherit a copy of the context *)

CreateTasks(u, ts) ==
  /\ u # Worker /\ MayRun(u) /\ ts # {} /\ \A t \in ts : task[t] = "unborn"
  /\ task' = [t \in Tasks |-> IF t \in ts THEN "alive" ELSE task[t]]
  /\ ctx' = [v \in Units |-> IF v \in ts THEN ctx[u] ELSE ctx[v]]
  /\ UNCHANGED <<waitsFor, bindings, stack, made, life>>

(* Bound: the worker gets one job, from within the first span. *)
RunInThread(u) ==
  /\ u # Worker /\ MayRun(u) /\ ctx[u] = 1 /\ ctx[Worker] = NoBinding
  /\ ctx' = [ctx EXCEPT ![Worker] = ctx[u]]
  /\ UNCHANGED <<task, waitsFor, bindings, stack, made, life>>

(* A task leaves its with-blocks: its root spans end, its events on other  *)
(* spans are closed, with what is nested in them.                          *)
LeaveBlocks(t) ==
  /\ ended' = [s \in Spans |-> ended[s] \/ enteredBy[s] = t]
  /\ stack' = [s \in Spans |->
                 CASE enteredBy[s] = t -> <<>>
                   [] enteredBy[s] # t /\ HasOpen(t, s) ->
                        SubSeq(stack[s], 1,
                               (CHOOSE i \in DOMAIN stack[s] :
                                  stack[s][i] = t
                                    /\ \A j \in 1..(i - 1) : stack[s][j] # t) - 1)
                   [] OTHER -> stack[s]]
  /\ UNCHANGED <<latch, armed, grace>>

(* It returns, fails or is cancelled; later its callbacks run, and then it *)
(* may be collected, unless a parent that awaited it keeps it.             *)
FinishTask(t) ==
  /\ task[t] = "alive" /\ ~Suspended(t)
  /\ task' = [task EXCEPT ![t] = "done"]
  /\ LeaveBlocks(t)
  /\ UNCHANGED <<waitsFor, bindings, ctx, made>>

KeptBy(p) == IF task[p] = "alive" THEN waitsFor[p] ELSE NoTask

Collect(t) ==
  /\ task[t] = "over" /\ \A p \in Tasks : KeptBy(p) # t
  /\ task' = [task EXCEPT ![t] = "collected"]
  /\ UNCHANGED <<waitsFor, bindings, ctx, stack, made, life>>

(* Nobody refers to a pending task: it is collected, its with-blocks are   *)
(* left, and no done callback runs.  A server refers to the task of a      *)
(* request, and the handler in it to the child it awaits.                  *)
LoseTask(t) ==
  /\ task[t] = "alive" /\ waitsFor[t] = NoTask /\ \A p \in Tasks : waitsFor[p] # t
  /\ task' = [task EXCEPT ![t] = "collected"]
  /\ LeaveBlocks(t)
  /\ UNCHANGED <<waitsFor, bindings, ctx, made>>

-----------------------------------------------------------------------------
(* _finish, run by the lifetime timer and by the task's done callback;     *)
(* the first one that takes the latch ends the span.                       *)
Reap(s) ==
  /\ latch' = [latch EXCEPT ![s] = FALSE]
  /\ armed' = [armed EXCEPT ![s] = FALSE]
  /\ ended' = [ended EXCEPT ![s] = TRUE]
  /\ stack' = [stack EXCEPT ![s] = <<>>]

Defers(s) == stack[s] # <<>> /\ grace[s] # "over"

(* The timer looks again later while event scopes are open, for the length *)
(* of a grace period that starts when it first defers.                     *)
TimerFires(s) ==
  /\ armed[s]
  /\ IF latch[s] /\ ~Defers(s)
     THEN Reap(s) /\ UNCHANGED grace
     ELSE /\ armed' = [armed EXCEPT ![s] = latch[s]]
          /\ grace' = [grace EXCEPT ![s] = IF @ = "unset" /\ latch[s]
                                           THEN "running" ELSE @]
          /\ UNCHANGED <<ended, latch, stack>>
  /\ UNCHANGED <<task, waitsFor, bindings, ctx, made>>

GracePasses(s) ==
  /\ grace[s] = "running"
  /\ grace' = [grace EXCEPT ![s] = "over"]
  /\ UNCHANGED <<task, waitsFor, bindings, ctx, stack, made, ended, latch, armed>>

(* The done callback never defers: no code of the task remains.            *)
TimersCancelled(mine) == [s \in Spans |-> armed[s] /\ s \notin mine]

DoneCallback(t) ==
  /\ task[t] = "done"
  /\ task' = [task EXCEPT ![t] = "over"]
  /\ LET mine == {s \in Spans : forkedBy[s] = t /\ latch[s]}
     IN  /\ latch' = [s \in Spans |-> latch[s] /\ s \notin mine]
         /\ armed' = TimersCancelled(mine)
         /\ ended' = [s \in Spans |-> ended[s] \/ s \in mine]
         /\ stack' = [s \in Spans |-> IF s \in mine THEN <<>> ELSE stack[s]]
  /\ UNCHANGED <<waitsFor, bindings, ctx, grace, made>>

-----------------------------------------------------------------------------
Next ==
  \/ \E u \in Units : \/ EnterRoot(u) \/ ExitRoot(u) \/ OpenEvent(u)
                      \/ RunInThread(u) \/ Claim(u) \/ Fork(u)
                      \/ \E s \in Spans : CloseEvent(u, s)
                      \/ \E ts \in SUBSET Tasks : CreateTasks(u, ts)
  \/ \E t \in Tasks : \/ FinishTask(t) \/ DoneCallback(t)
                      \/ Collect(t) \/ LoseTask(t)
                      \/ \E p \in Tasks : Adopt(p, t)
  \/ \E s \in Spans : TimerFires(s) \/ GracePasses(s)

Spec == Init /\ [][Next]_vars

(* The loop keeps running its timers and time passes; no task has to end.  *)
Fairness ==
  \A s \in 1..MaxSpans :
    /\ WF_vars(s \in Spans /\ TimerFires(s))
    /\ WF_vars(s \in Spans /\ GracePasses(s))

FairSpec == Spec /\ Fairness

-----------------------------------------------------------------------------
(* Properties *)

(* Every variable has its type. *)
TypeOK ==
  /\ task \in [Tasks -> {"unborn", "alive", "done", "over", "collected"}]
  /\ waitsFor \in [Tasks -> Tasks \cup {NoTask}]
  /\ bindings \in Seq([span : Spans, thread : {LoopThread},
                       owner : Tasks \cup {NoTask}])
  /\ ctx \in [Units -> 0..Len(bindings)]
  /\ ended \in Seq(BOOLEAN) /\ stack \in Seq(Seq(Units))
  /\ latch \in Seq(BOOLEAN) /\ armed \in Seq(BOOLEAN)
  /\ grace \in Seq({"unset", "running", "over"})
  /\ forkedBy \in Seq(Tasks \cup {NoTask}) /\ enteredBy \in Seq(Units \cup {NoTask})

(* "A Span Is Single-Threaded" (docs/api_contracts.md, section 1): however *)
(* contexts are copied into tasks and threads, two of them never have      *)
(* events open on one span, unless the outer one is suspended meanwhile;   *)
(* so no context ever finishes another one's event.                        *)
ScopesDoNotCross ==
  \A s \in Spans : \A i, j \in DOMAIN stack[s] :
    i < j /\ stack[s][i] # stack[s][j] => ~MayRun(stack[s][i])

(* Two tasks that are not done never both have current_span() give them    *)
(* the same span, unless one awaits the other.                             *)
OneOwner ==
  \A t, u \in Tasks :
    t # u /\ MayRun(t) /\ MayRun(u) /\ Usable(t) /\ Usable(u)
      => SpanOf(t) # SpanOf(u)

(* The span of an implicit task lives as long as the latch says: it is     *)
(* ended by exactly the callback that empties it, and a timer never        *)
(* outlives it, so nothing pins a span that was sent.                      *)
LatchOwnsTaskSpan ==
  \A s \in Spans : forkedBy[s] # NoTask => /\ latch[s] = ~ended[s]
                                           /\ latch[s] = armed[s]

(* However contexts are copied and claimed, one of them at a time drives a  *)
(* span's event stack, and an implicit span is ended by one callback        *)
(* (current_span, _fork_for_async_task).                                    *)
SpansAreOwned == TypeOK /\ ScopesDoNotCross /\ OneOwner /\ LatchOwnsTaskSpan

(* Fire-and-forget work cannot pin a native span: the span a task forked   *)
(* ends even if the task never completes, is lost, or never closes its     *)
(* event.                                                                  *)
TaskSpanEnds ==
  \A s \in 1..MaxSpans :
    (s \in Spans /\ forkedBy[s] # NoTask) ~> (s \in Spans /\ ended[s])
===============================================================================
