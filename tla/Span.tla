--------------------------------- MODULE Span ---------------------------------
(***************************************************************************)
(* One sampled span of the agent (pinpoint/tracer.py, class Span) and the  *)
(* SpanEvent scopes it hands out.                                          *)
(*                                                                         *)
(* Span events are managed entirely in Python: the span keeps the open     *)
(* ones on a stack, numbers them, buffers the finished ones and replays    *)
(* them to the native agent in batches.  A collector sees only (sequence,  *)
(* depth) pairs and rebuilds the call tree from them, so positions are     *)
(* what this module is about.                                              *)
(*                                                                         *)
(* Every operation below runs under Span._native_lock, which its native    *)
(* calls keep although they release the GIL: an operation is one step, and *)
(* operations of several threads interleave in any order, on any event     *)
(* wrapper ever handed out (ends may come out of order, twice, or late).   *)
(***************************************************************************)
EXTENDS Integers, Sequences, FiniteSets

CONSTANTS
  MaxDepth,       \* span_max_event_depth, as resolved by the native agent
  MaxSequence,    \* span_max_event_sequence
  ChunkSize,      \* span_event_chunk_size, 0 = replay only at end()
  MaxVerdicts,    \* _MAX_ERROR_VERDICTS
  SpanIds,        \* the 64-bit ids inject_context_items may draw
  OwnId,          \* this span's id ...
  ParentId,       \* ... and its parent's: never injected downstream
  MaxEvents,      \* bound: event wrappers created in a behaviour
  MaxAsync,       \* bound: new_async_span calls in a behaviour
  MaxErrors       \* bound: set_error calls on overflow placeholders

NoPosition == -1        \* SpanEvent._sequence is None: overflow placeholder
NoId       == 0         \* _next_span_id never injected, _async_id never set
NoEvent    == 0         \* no wrapper: the stack is empty
NotSealed  == -1        \* the shared root has not been ended yet

ASSUME LimitsAssumption ==
  /\ MaxDepth \in Nat /\ MaxSequence \in Nat /\ ChunkSize \in Nat
  /\ MaxVerdicts \in Nat
  /\ MaxEvents \in Nat /\ MaxAsync \in Nat /\ MaxErrors \in Nat

ASSUME IdsAssumption == NoId \notin SpanIds

VARIABLES
  asyncRoot,  \* _async_root: made by new_async_span, below another span's root
  events,     \* the wrappers created so far, numbered in creation order
  stack,      \* _active_events, innermost scope last
  sequence,   \* _event_sequence: the next event's sequence
  depth,      \* _event_depth: the next event's depth
  finished,   \* _finished_events: records waiting for a replay
  ended,      \* _ended (and _native = None: both change under one lock hold)
  verdicts,   \* _error_verdicts: overflow errors kept for end_span_with_data
  batches,    \* what native recorded: one set of records per replay call
  lost,       \* records of a replay that native rejected or failed on
  links,      \* <<event, async id, async sequence>> of every async child
  asyncIds,   \* how many async ids the process-wide generator issued
  injected,   \* history: per event, the span id last sent downstream from it
  raised,     \* history: overflow errors accepted so far, named 1..raised
  unfit,      \* history: those native fails on, whenever it is given them
  marked,     \* those that marked the transaction's root while that was open
  sealed      \* errors accepted when native ended the root, or NotSealed

verdictVars == <<verdicts, raised, unfit, marked, sealed>>

vars == <<asyncRoot, events, stack, sequence, depth, finished, ended,
          batches, lost, links, asyncIds, injected, verdictVars>>

(* An async child's native side already holds its root event at 0 / 1. *)
BaseSequence == IF asyncRoot THEN 1 ELSE 0
BaseDepth    == IF asyncRoot THEN 2 ELSE 1

IsPlaceholder(e) == events[e].seq = NoPosition
Real             == {e \in DOMAIN events : ~IsPlaceholder(e)}
OpenEvents       == {stack[i] : i \in DOMAIN stack}
Top              == IF stack = <<>> THEN NoEvent ELSE stack[Len(stack)]

(* The record _finalize appends: the collector never sees parent, which is *)
(* kept here to say what the tree really was.                              *)
Record(e) == [seq     |-> events[e].seq,     depth   |-> events[e].depth,
              next    |-> events[e].next,    asyncId |-> events[e].asyncId]

NewEvent(seq) == [seq |-> seq, depth |-> depth, parent |-> Top, ended |-> FALSE,
                  next |-> NoId, asyncId |-> NoId, asyncSeq |-> 0]

Init ==
  /\ asyncRoot \in BOOLEAN
  /\ events = <<>> /\ stack = <<>>
  /\ sequence = BaseSequence /\ depth = BaseDepth
  /\ finished = {} /\ batches = <<>> /\ lost = {}
  /\ ended = FALSE
  /\ verdicts = {} /\ raised = 0 /\ unfit = {} /\ marked = {}
  /\ sealed = NotSealed
  /\ links = {} /\ asyncIds = 0 /\ injected = <<>>

-----------------------------------------------------------------------------
(* Opening events *)

Overflows == depth - 1 > MaxDepth \/ sequence >= MaxSequence

StackCapByDepth == MaxDepth                       \* mutant
StackCap == MaxSequence + MaxDepth

Push(seq) ==
  /\ Len(events) < MaxEvents
  /\ events' = Append(events, NewEvent(seq))
  /\ stack' = Append(stack, Len(events) + 1)
  /\ injected' = Append(injected, NoId)

NewSpanEvent ==
  /\ ~ended /\ ~Overflows
  /\ Push(sequence)
  /\ sequence' = sequence + 1
  /\ depth' = depth + 1
  /\ UNCHANGED <<asyncRoot, finished, ended, batches, lost, links, asyncIds,
                 verdictVars>>

(* Past a limit a placeholder keeps nesting and injection working.  At the *)
(* stack cap the innermost placeholder is handed out again, and an ended   *)
(* span hands out a shared no-op event: neither changes any state.         *)
NewPlaceholder ==
  /\ ~ended /\ Overflows
  /\ Len(stack) < StackCap
  /\ Push(NoPosition)
  /\ UNCHANGED <<asyncRoot, sequence, depth, finished, ended, batches, lost,
                 links, asyncIds, verdictVars>>

-----------------------------------------------------------------------------
(* Finishing events *)

(* One replay call: native contains failures per record, and the wrapper   *)
(* contains a failure of the whole call (bad = recs); nothing is retried.  *)
Replay(recs) ==
  \E bad \in SUBSET recs :
    /\ batches' = Append(batches, recs \ bad)
    /\ lost' = lost \cup bad

(* _flush_finished_events_locked on the buffer recs. *)
FlushFinished(recs) ==
  IF ChunkSize = 0 \/ Cardinality(recs) < ChunkSize
  THEN finished' = recs /\ UNCHANGED <<batches, lost>>
  ELSE finished' = {} /\ Replay(recs)

Popped(i) == i..Len(stack)

RealFrom(i) == {j \in Popped(i) : ~IsPlaceholder(stack[j])}
RecordsFrom(i) == {Record(stack[j]) : j \in RealFrom(i)}

ReleasedByOne(i) == 1                             \* mutant
Released(i) == Cardinality(RealFrom(i))

(* Pop the stack down to and including slot i, finalizing what is popped. *)
Unwind(i) ==
  /\ events' = [e \in 1..Len(events) |->
                  IF \E j \in Popped(i) : stack[j] = e
                  THEN [events[e] EXCEPT !.ended = TRUE] ELSE events[e]]
  /\ stack' = SubSeq(stack, 1, i - 1)
  /\ depth' = depth - Released(i)

(* SpanEvent.end(), whose unlocked fast path only skips a call that would  *)
(* find the event ended under the lock.  An event that is neither ended    *)
(* nor on the stack would be dropped.                                      *)
EndEvent(e) ==
  /\ ~events[e].ended
  /\ IF ~ended /\ e \in OpenEvents
     THEN \E i \in DOMAIN stack :
            /\ stack[i] = e
            /\ Unwind(i)
            /\ FlushFinished(finished \cup RecordsFrom(i))
     ELSE /\ events' = [events EXCEPT ![e].ended = TRUE]
          /\ UNCHANGED <<stack, depth, finished, batches, lost>>
  /\ UNCHANGED <<asyncRoot, sequence, ended, links, asyncIds, injected,
                 verdictVars>>

(* native marks the root for one verdict after another: one it cannot read *)
(* or fails on is passed over, and a root that was ended takes no mark.    *)
Mark(errors) ==
  marked' = IF sealed = NotSealed THEN marked \cup (errors \ unfit') ELSE marked

(* Span.end(): latch, null the native handle, drain what user code left    *)
(* open and hand everything to end_span_with_data, which ends the root     *)
(* last.  One-shot: where this fails as a whole, nothing of it crosses and *)
(* the native span stays un-ended for good.                                *)
End ==
  /\ ~ended
  /\ ended' = TRUE
  /\ Unwind(1)
  /\ finished' = {} /\ verdicts' = {}
  /\ Replay(finished \cup RecordsFrom(1))
  /\ UNCHANGED <<asyncRoot, sequence, links, asyncIds, injected, raised, unfit>>
  /\ \/ Mark(verdicts) /\ sealed' = IF asyncRoot THEN sealed ELSE raised
     \/ /\ lost' = lost \cup finished \cup RecordsFrom(1)
        /\ UNCHANGED <<marked, sealed>>

(* The root above an async child is ended when its own request is, before  *)
(* or after the child.                                                     *)
RootEnds ==
  /\ asyncRoot /\ sealed = NotSealed
  /\ sealed' = raised
  /\ UNCHANGED <<asyncRoot, events, stack, sequence, depth, finished, ended,
                 batches, lost, links, asyncIds, injected,
                 verdicts, raised, unfit, marked>>

-----------------------------------------------------------------------------
(* What is recorded against the innermost open event *)

(* inject_context_items: a fresh child span id for an outbound call. *)
Inject ==
  /\ ~ended /\ stack # <<>>
  /\ \E id \in SpanIds \ {OwnId, ParentId, events[Top].next} :
       /\ events' = [events EXCEPT ![Top].next = id]
       /\ injected' = [injected EXCEPT ![Top] = id]
  /\ UNCHANGED <<asyncRoot, stack, sequence, depth, finished, ended,
                 batches, lost, links, asyncIds, verdictVars>>

CanLinkAnyEvent == stack # <<>>                   \* mutant
CanLink == stack # <<>> /\ ~IsPlaceholder(Top)

(* What each event counts of its calls of new_async_span, failed ones too. *)
AsyncCalls ==
  {call \in (DOMAIN events) \X (1..MaxAsync) : call[2] <= events[call[1]].asyncSeq}

(* new_async_span: the link ids are stamped on the event before the native *)
(* call, which may fail and then leaves no child.                          *)
NewAsyncSpan ==
  /\ ~ended /\ CanLink
  /\ Cardinality(AsyncCalls) < MaxAsync
  /\ asyncIds < MaxAsync \/ events[Top].asyncId # NoId
  /\ LET fresh == events[Top].asyncId = NoId
         id    == IF fresh THEN asyncIds + 1 ELSE events[Top].asyncId
         seq   == events[Top].asyncSeq + 1
     IN  /\ events' = [events EXCEPT ![Top].asyncId = id, ![Top].asyncSeq = seq]
         /\ asyncIds' = IF fresh THEN asyncIds + 1 ELSE asyncIds
         /\ seq <= MaxAsync
         /\ links' \in {links, links \cup {<<Top, id, seq>>}}
  /\ UNCHANGED <<asyncRoot, stack, sequence, depth, finished, ended,
                 batches, lost, injected, verdictVars>>

CrossesAtCap == Cardinality(verdicts) >= MaxVerdicts    \* mutant
CrossesNow == asyncRoot \/ Cardinality(verdicts) >= MaxVerdicts

(* SpanEvent.set_error on an overflow placeholder keeps only the verdict:  *)
(* batched by a root span up to a cap, marked at once by an async child    *)
(* ("a child can end after the shared root it must mark").  A mark_error   *)
(* that fails is not tried again.                                          *)
SetErrorOnPlaceholder(e) ==
  /\ IsPlaceholder(e) /\ ~events[e].ended /\ ~ended
  /\ raised < MaxErrors
  /\ raised' = raised + 1
  /\ unfit' \in {unfit, unfit \cup {raised'}}
  /\ IF CrossesNow
     THEN Mark({raised'}) /\ UNCHANGED verdicts
     ELSE verdicts' = verdicts \cup {raised'} /\ UNCHANGED marked
  /\ UNCHANGED <<asyncRoot, events, stack, sequence, depth, finished, ended,
                 batches, lost, links, asyncIds, injected, sealed>>

Next ==
  \/ NewSpanEvent \/ NewPlaceholder
  \/ \E e \in DOMAIN events : EndEvent(e) \/ SetErrorOnPlaceholder(e)
  \/ End \/ RootEnds \/ Inject \/ NewAsyncSpan

Spec == Init /\ [][Next]_vars

-----------------------------------------------------------------------------
(* Properties *)

EventType == [seq      : {NoPosition} \cup (0..MaxSequence),
              depth    : 1..(MaxDepth + 2),
              parent   : 0..MaxEvents,
              ended    : BOOLEAN,
              next     : SpanIds \cup {NoId},
              asyncId  : 0..MaxAsync,
              asyncSeq : 0..MaxAsync]

RecordType == [seq     : 0..MaxSequence,            depth   : 1..(MaxDepth + 2),
               next    : SpanIds \cup {NoId},       asyncId : 0..MaxAsync]

(* Every variable has its type; positions stay within the two limits       *)
(* (Span.new_span_event).                                                  *)
TypeOK ==
  /\ events \in Seq(EventType) /\ Len(events) <= MaxEvents
  /\ stack \in Seq(1..Len(events))
  /\ sequence \in Nat
  /\ sequence <= MaxSequence \/ sequence = BaseSequence
  /\ depth \in BaseDepth..(MaxDepth + 2)
  /\ finished \subseteq RecordType /\ lost \subseteq RecordType
  /\ batches \in Seq(SUBSET RecordType)
  /\ ended \in BOOLEAN
  /\ asyncRoot \in BOOLEAN
  /\ raised \in Nat /\ sealed \in {NotSealed} \cup Nat
  /\ verdicts \subseteq 1..raised /\ unfit \subseteq 1..raised
  /\ marked \subseteq 1..raised
  /\ links \subseteq (1..Len(events)) \X (1..MaxAsync) \X (1..MaxAsync)
  /\ asyncIds \in 0..MaxAsync
  /\ injected \in Seq(SpanIds \cup {NoId}) /\ Len(injected) = Len(events)

(* The collector rebuilds the call tree from positions alone: an event's   *)
(* parent is the latest earlier event one level up.  However scopes were   *)
(* ended (out of order, past the limits, never), that is the event that    *)
(* really was the innermost open one when this event started.              *)
CandidateParents(e) ==
  {p \in Real : /\ events[p].seq < events[e].seq
                /\ events[p].depth = events[e].depth - 1}

TreeReconstructible ==
  \A e \in Real :
    LET p == events[e].parent
    IN  IF p = NoEvent
        THEN CandidateParents(e) = {}
        ELSE /\ p \in CandidateParents(e)
             /\ \A c \in CandidateParents(e) : events[c].seq <= events[p].seq

(* Where the step of event e is: open on the stack, in the buffer, lost in *)
(* a failed replay, or in the k-th batch that native took.                 *)
Holds(recs, e) == \E r \in recs : r.seq = events[e].seq

Holders(e) ==
  {k \in DOMAIN batches : Holds(batches[k], e)}
    \cup (IF e \in OpenEvents   THEN {0}  ELSE {})
    \cup (IF Holds(finished, e) THEN {-1} ELSE {})
    \cup (IF Holds(lost, e)     THEN {-2} ELSE {})

(* No event is recorded twice or forgotten: at every moment each numbered  *)
(* event is in exactly one place, and once the span ended that place is    *)
(* native (or a replay that failed).                                       *)
EachEventOnce ==
  \A e \in Real :
    \E h \in (-2)..Len(batches) :
      Holders(e) = {h} /\ (ended => h \notin {0, -1})

(* new_span_event's comment at the stack cap: "reaching the cap implies at *)
(* least one placeholder", so the process-wide no-op event is never handed *)
(* out for a live span.  (With MaxDepth = 0 it can be: see README.)        *)
CapHasPlaceholder ==
  ~ended /\ Overflows /\ Len(stack) >= StackCap
    => \E e \in OpenEvents : IsPlaceholder(e)

(* At the cap several scopes share one placeholder.  Whoever ends it first *)
(* unwinds the stack down to it, and that never finishes a real event: the *)
(* positions of the open events do not move.                               *)
PlaceholderEndsNoRealEvent ==
  [][LET k == Len(stack') + 1
     IN  k <= Len(stack) /\ IsPlaceholder(stack[k]) => depth' = depth]_vars

(* What was handed out against an event is on the record the collector     *)
(* gets for it: every async child hangs from a recorded event that carries *)
(* its async id, an async id belongs to one event, and the span id last    *)
(* injected downstream is the record's nextSpanId.                         *)
AllRecords == finished \cup lost \cup UNION {batches[k] : k \in DOMAIN batches}

LinksRecorded ==
  /\ \A l \in links : ~IsPlaceholder(l[1]) /\ events[l[1]].asyncId = l[2]
  /\ \A l, m \in links : l[2] = m[2] => l[1] = m[1]
  /\ \A r \in AllRecords, e \in Real :
       r.seq = events[e].seq => /\ r.asyncId = events[e].asyncId
                                /\ r.next = injected[e]

(* The collector gets each event once, with all that was handed out on it. *)
RecordedOnce == EachEventOnce /\ LinksRecorded

(* Every overflow error that a span accepted before its transaction's root *)
(* was ended has marked that root by then, however far the batch was, in   *)
(* whatever order the span and a root above it end, and however many other *)
(* verdicts native failed on; only those it failed on themselves are not   *)
(* on it.  A verdict crosses once, and the batch ends with the span and    *)
(* never passes its cap.  (Nothing is said of a root whose end failed as a *)
(* whole: native never ended it.)                                          *)
VerdictsReachRoot ==
  /\ sealed # NotSealed => 1..sealed \subseteq marked \cup unfit
  /\ verdicts \cap marked = {}
  /\ Cardinality(verdicts) <= MaxVerdicts
  /\ ended => verdicts = {}

-----------------------------------------------------------------------------
(* The inductive invariant behind the properties above *)

OpenReal == depth - BaseDepth       \* real events on the stack

(* The real events are the lower part of the stack, one per level, with    *)
(* placeholders above them only while a limit is hit; scopes are stacked   *)
(* in creation order.                                                      *)
StackShape ==
  /\ OpenReal \in 0..Len(stack)
  /\ OpenReal <= sequence - BaseSequence
  /\ OpenReal < Len(stack) => Overflows
  /\ \A i \in 1..Len(stack) :
       /\ i <= OpenReal => /\ events[stack[i]].seq # NoPosition
                           /\ events[stack[i]].depth = BaseDepth + i - 1
       /\ i > OpenReal => events[stack[i]].seq = NoPosition
  /\ \A i, j \in 1..Len(stack) : i < j => stack[i] < stack[j]

(* Sequences follow the creation order and stay below the counter.         *)
SequenceOrder ==
  /\ \A e \in 1..Len(events) : events[e].seq # NoPosition =>
       /\ BaseSequence <= events[e].seq /\ events[e].seq < sequence
       /\ BaseDepth <= events[e].depth
  /\ \A e, f \in 1..Len(events) :
       events[e].seq # NoPosition /\ events[f].seq # NoPosition /\ e < f
         => events[e].seq < events[f].seq

(* Whatever started inside an open scope is deeper than it.                *)
OpenScopes ==
  \A i \in 1..Len(stack), f \in 1..Len(events) :
    i <= OpenReal /\ stack[i] < f /\ events[f].seq # NoPosition
      => events[stack[i]].depth < events[f].depth

PositionInv == TypeOK /\ StackShape /\ SequenceOrder /\ OpenScopes
                 /\ TreeReconstructible
===============================================================================
