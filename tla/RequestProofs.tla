---------------------------- MODULE RequestProofs ----------------------------
(***************************************************************************)
(* Proofs that a request stays whole, on the servers that hand it to other *)
(* tasks and threads and on the one that streams its body over several.    *)
(*                                                                         *)
(* A hand-off has one owner.  Each side of it looks at the latch alone.    *)
(* What makes that enough is said by Settling: the child is in the latch   *)
(* only while the task still waits; a worker that runs has emptied it if   *)
(* its callable claims at all; and a task that does not reclaim on return  *)
(* has given out a callable that claims.                                   *)
(*                                                                         *)
(* A request has its root.  It says little of itself but where it is:      *)
(* RequestInv finds how many wrappers are entered and whether a handler    *)
(* is, and relates to that number the roots that are open, the spans the   *)
(* frames put back, and the events still to end.                           *)
(*                                                                         *)
(* WSGI requests stay apart.  WsgiInv says of a thread what it finds in    *)
(* its context where it is, and of a request which of its spans are open   *)
(* at its stage; every step touches one thread and one request (Touches),  *)
(* and a value of _current_span that is spent stays spent.                 *)
(***************************************************************************)
EXTENDS AsyncRequest, WsgiRequest, FiniteSetTheorems, SequenceTheorems, TLAPS

-----------------------------------------------------------------------------
(* Hand-offs: AsyncRequest *)

PoolNames == {"sync_to_async", "run_in_threadpool", "contextmanager_exit"}

WorkType == [of : Connections \cup {None}, pool : PoolNames \cup {None},
             latch : BOOLEAN, takes : BOOLEAN,
             worker : {"gone", "queued", "running", "done"}, holds : BOOLEAN,
             child : {None, "open", "ended", "ended twice"},
             users : {{}, {"owner"}, {"worker"}}, awaited : BOOLEAN]

(* The child is in the latch, untouched, and its owner is waiting. *)
InLatch(w) == /\ w.child = "open" /\ w.users = {} /\ w.awaited /\ ~w.holds
              /\ w.worker \in {"running", "done"} => ~w.takes

(* The worker took it, and it is open as long as that one runs. *)
WithWorker(w) == /\ w.users = {"worker"}
                 /\ \/ w.worker = "running" /\ w.child = "open"
                    \/ w.worker = "done" /\ w.child = "ended"

Settling(w) ==
  /\ w.latch => InLatch(w)
  /\ w.holds => ~w.latch /\ WithWorker(w)
  /\ ~w.latch /\ ~w.holds => w.child \in {None, "ended"}
  /\ w.awaited => /\ w.pool \in PoolNames
                  /\ Pool[w.pool].always \/ w.takes

HandoffInv == /\ works \in [Slots -> WorkType]
              /\ \A s \in Slots : Settling(works[s])

-----------------------------------------------------------------------------
(* What the pools are: one that does not reclaim on return runs a callable *)
(* that claims.                                                            *)
LEMMA PoolFacts ==
  ASSUME NEW p \in PoolNames
  PROVE  /\ Pool[p].shapes \subseteq BOOLEAN
         /\ Pool[p].always \in BOOLEAN
         /\ ~Pool[p].always => Pool[p].shapes = {TRUE}
  <1>1. CASE p = "sync_to_async"
    BY <1>1 DEF Pool, SyncToAsync
  <1>2. CASE p = "run_in_threadpool"
    BY <1>2 DEF Pool, RunInThreadpool
  <1>3. CASE p = "contextmanager_exit"
    BY <1>3 DEF Pool, ContextmanagerExit
  <1> QED BY <1>1, <1>2, <1>3 DEF PoolNames

(* Reclaiming ends a child that is in the latch, and leaves any other      *)
(* hand-off as it was.                                                     *)
LEMMA ReclaimSettles ==
  ASSUME NEW w \in WorkType, Settling(w)
  PROVE  /\ ReclaimHandoff(w, "owner") \in WorkType
         /\ Settling(ReclaimHandoff(w, "owner"))
         /\ ~ReclaimHandoff(w, "owner").latch
         /\ ReclaimHandoff(w, "owner").worker = w.worker
         /\ ReclaimHandoff(w, "owner").holds = w.holds
  <1>1. CASE w.latch
    <2>1. InLatch(w)
      BY <1>1 DEF Settling
    <2> DEFINE r == ReclaimHandoff(w, "owner")
    <2>2. /\ r \in WorkType /\ ~r.latch /\ ~r.holds /\ r.child = "ended"
          /\ r.worker = w.worker /\ r.holds = w.holds
          /\ r.awaited = w.awaited /\ r.pool = w.pool /\ r.takes = w.takes
      BY <1>1, <2>1 DEF WorkType, InLatch, ReclaimHandoff, EndedOnce, None
    <2> HIDE DEF r
    <2>3. Settling(r)
      BY <2>2 DEF Settling
    <2> QED BY <2>2, <2>3 DEF r
  <1>2. CASE ~w.latch
    <2>1. ReclaimHandoff(w, "owner") = w
      BY <1>2 DEF ReclaimHandoff
    <2> QED BY <1>2, <2>1
  <1> QED BY <1>1, <1>2 DEF WorkType

(* Once the task has stopped waiting the latch is empty, also when it did  *)
(* not reclaim: it does so unless the callable, which claims, has run.     *)
LEMMA SettledIsSound ==
  ASSUME NEW w \in WorkType, Settling(w), w.awaited,
         NEW returns \in BOOLEAN, returns => w.worker = "done"
  PROVE  /\ Settled(w, returns) \in WorkType
         /\ Settling(Settled(w, returns))
         /\ ~Settled(w, returns).latch /\ ~Settled(w, returns).awaited
         /\ Settled(w, returns).worker = w.worker
         /\ Settled(w, returns).holds = w.holds
  <1>1. CASE Reclaims(w.pool, returns)
    <2> DEFINE r == ReclaimHandoff(w, "owner")
    <2>1. /\ r \in WorkType /\ Settling(r) /\ ~r.latch
          /\ r.worker = w.worker /\ r.holds = w.holds
      BY ReclaimSettles
    <2>2. Settled(w, returns) = [r EXCEPT !.awaited = FALSE]
      BY <1>1 DEF Settled
    <2> HIDE DEF r
    <2>3. /\ Settled(w, returns) \in WorkType
          /\ ~Settled(w, returns).latch /\ ~Settled(w, returns).awaited
          /\ Settled(w, returns).worker = w.worker
          /\ Settled(w, returns).holds = w.holds
          /\ Settled(w, returns).child = r.child
          /\ Settled(w, returns).users = r.users
      BY <2>1, <2>2 DEF WorkType
    <2>4. r.holds => WithWorker(r)
      BY <2>1 DEF Settling
    <2>5. ~r.holds => r.child \in {None, "ended"}
      BY <2>1 DEF Settling
    <2> QED BY <2>1, <2>3, <2>4, <2>5 DEF Settling, WithWorker
  <1>2. CASE ~Reclaims(w.pool, returns)
    <2>1. ~Pool[w.pool].always /\ returns
      BY <1>2 DEF Reclaims
    <2>2. w.takes /\ w.worker = "done"
      BY <2>1 DEF Settling
    <2>3. ~w.latch
      BY <2>2 DEF Settling, InLatch
    <2>4. Settled(w, returns) = [w EXCEPT !.awaited = FALSE]
      BY <1>2 DEF Settled
    <2> QED BY <2>3, <2>4 DEF WorkType, Settling, WithWorker
  <1> QED BY <1>1, <1>2

(* Forgetting a hand-off that is over. *)
LEMMA OverIsSound ==
  ASSUME NEW w \in WorkType, Settling(w)
  PROVE  Over(w) \in WorkType /\ Settling(Over(w))
  <1>1. CASE w.worker \in {"gone", "done"} /\ ~w.awaited
    <2>1. ~w.latch
      BY <1>1 DEF Settling, InLatch
    <2>2. /\ Over(w) \in WorkType /\ ~Over(w).holds /\ ~Over(w).awaited
          /\ Over(w).latch = w.latch /\ Over(w).child = w.child
      BY <1>1 DEF Over, WorkType, None
    <2>3. w.child \in {None, "ended"}
      BY <1>1, <2>1 DEF Settling, WithWorker
    <2> QED BY <2>1, <2>2, <2>3 DEF Settling
  <1>2. CASE ~(w.worker \in {"gone", "done"} /\ ~w.awaited)
    BY <1>2 DEF Over
  <1> QED BY <1>1, <1>2

-----------------------------------------------------------------------------
(* A step that settles one hand-off soundly keeps the invariant. *)
LEMMA OneSlotChanges ==
  ASSUME HandoffInv, NEW s \in Slots, NEW w \in WorkType, Settling(w),
         works' = [works EXCEPT ![s] = w]
  PROVE  HandoffInv'
  <1>1. works' \in [Slots -> WorkType]
    BY DEF HandoffInv
  <1>2. ASSUME NEW t \in Slots PROVE Settling(works'[t])
    <2>1. works'[t] = IF t = s THEN w ELSE works[t]
      BY DEF HandoffInv
    <2> QED BY <2>1 DEF HandoffInv
  <1>3. \A t \in Slots : Settling(works'[t])
    BY <1>2
  <1> QED BY <1>1, <1>3 DEF HandoffInv, Settling, InLatch, WithWorker

LEMMA InitSettles == Init => HandoffInv
  <1> SUFFICES ASSUME Init PROVE HandoffInv
    OBVIOUS
  <1>1. NoWork \in WorkType /\ Settling(NoWork)
    BY DEF NoWork, WorkType, Settling, InLatch, WithWorker, None
  <1>2. works = [s \in Slots |-> NoWork]
    BY DEF Init
  <1> QED BY <1>1, <1>2 DEF HandoffInv

LEMMA DispatchSettles ==
  ASSUME HandoffInv, NEW c \in Connections, NEW p, NEW s \in Slots,
         Dispatch(c, p, s)
  PROVE  HandoffInv'
  <1>1. p \in PoolNames
    BY DEF Dispatch, Pools, PoolNames
  <1>2. PICK minted \in MintAsyncChild(c), takes \in Pool[p].shapes :
          works' = [works EXCEPT ![s] =
                      [NoWork EXCEPT !.of = c, !.pool = p, !.child = minted,
                                     !.latch = (minted = "open"), !.takes = takes,
                                     !.worker = "queued", !.awaited = TRUE]]
    BY DEF Dispatch
  <1> DEFINE w == [NoWork EXCEPT !.of = c, !.pool = p, !.child = minted,
                                 !.latch = (minted = "open"), !.takes = takes,
                                 !.worker = "queued", !.awaited = TRUE]
  <1>3. minted \in {"open", None} /\ takes \in BOOLEAN
    BY <1>1, PoolFacts DEF MintAsyncChild
  <1>4. Pool[p].always \/ takes
    BY <1>1, PoolFacts
  <1>5. w \in WorkType
    BY <1>1, <1>3 DEF NoWork, WorkType, None
  <1>6. Settling(w)
    BY <1>1, <1>3, <1>4 DEF NoWork, Settling, InLatch, WithWorker, None
  <1>7. works' = [works EXCEPT ![s] = w]
    BY <1>2
  <1> HIDE DEF w
  <1> QED BY <1>5, <1>6, <1>7, OneSlotChanges

LEMMA WorkerStartsSettles ==
  ASSUME HandoffInv, NEW s \in Slots, WorkerStarts(s)
  PROVE  HandoffInv'
  <1> DEFINE v == works[s]
  <1>1. v \in WorkType /\ Settling(v) /\ v.worker = "queued"
    BY DEF HandoffInv, WorkerStarts
  <1>2. works' = [works EXCEPT ![s] = ClaimHandoff(v)]
    BY DEF WorkerStarts
  <1> HIDE DEF v
  <1>3. ~v.holds
    BY <1>1 DEF Settling, WithWorker
  <1>4. ClaimHandoff(v) \in WorkType /\ Settling(ClaimHandoff(v))
    BY <1>1, <1>3 DEF ClaimHandoff, WorkType, Settling, InLatch, WithWorker
  <1> QED BY <1>2, <1>4, OneSlotChanges

LEMMA WorkerEndsSettles ==
  ASSUME HandoffInv, NEW s \in Slots, WorkerEnds(s)
  PROVE  HandoffInv'
  <1> DEFINE v == works[s]
             w == LeaveClaimed(v)
  <1>1. v \in WorkType /\ Settling(v) /\ v.worker = "running"
    BY DEF HandoffInv, WorkerEnds
  <1>2. works' = [works EXCEPT ![s] = Over(w)]
    BY DEF WorkerEnds
  <1> HIDE DEF v
  <1>3. w \in WorkType /\ Settling(w)
    BY <1>1 DEF LeaveClaimed, WorkType, Settling, InLatch, WithWorker, EndedOnce
  <1> HIDE DEF w
  <1>4. Over(w) \in WorkType /\ Settling(Over(w))
    BY <1>3, OverIsSound
  <1> QED BY <1>2, <1>4, OneSlotChanges

LEMMA ReturnsSettles ==
  ASSUME HandoffInv, NEW c \in Connections, NEW s \in Slots, Returns(c, s)
  PROVE  HandoffInv'
  <1>1. works[s] \in WorkType /\ Settling(works[s])
    BY DEF HandoffInv
  <1>2. works[s].awaited /\ works[s].worker = "done"
    BY DEF Returns
  <1>3. /\ Settled(works[s], TRUE) \in WorkType
        /\ Settling(Settled(works[s], TRUE))
    BY <1>1, <1>2, SettledIsSound
  <1>4. /\ Over(Settled(works[s], TRUE)) \in WorkType
        /\ Settling(Over(Settled(works[s], TRUE)))
    BY <1>3, OverIsSound
  <1>5. works' = [works EXCEPT ![s] = Over(Settled(works[s], TRUE))]
    BY DEF Returns, HandoffInv
  <1> QED BY <1>4, <1>5, OneSlotChanges

LEMMA RaisesSettles ==
  ASSUME HandoffInv, NEW c \in Connections, NEW s \in Slots, Raises(c, s)
  PROVE  HandoffInv'
  <1> DEFINE r == Settled(works[s], FALSE)
  <1>1. works[s] \in WorkType /\ Settling(works[s]) /\ works[s].awaited
    BY DEF HandoffInv, Raises
  <1>2. /\ r \in WorkType /\ Settling(r) /\ ~r.latch /\ ~r.awaited
        /\ r.worker = works[s].worker
    BY <1>1, SettledIsSound
  <1>3. PICK worker \in IF works[s].worker = "queued" THEN {"queued", "gone"}
                        ELSE {works[s].worker} :
          works' = [works EXCEPT ![s] = Over([r EXCEPT !.worker = worker])]
    BY DEF Raises, HandoffInv
  <1> HIDE DEF r
  <1> DEFINE w == [r EXCEPT !.worker = worker]
  <1>4. w \in WorkType /\ Settling(w)
    <2>1. CASE works[s].worker = "queued"
      <3>1. worker \in {"queued", "gone"} /\ ~r.holds
        BY <1>2, <2>1 DEF Settling, WithWorker
      <3> QED BY <1>2, <3>1 DEF WorkType, Settling
    <2>2. CASE works[s].worker # "queued"
      <3>1. w = r
        BY <1>2, <2>2 DEF WorkType
      <3> QED BY <1>2, <3>1
    <2> QED BY <2>1, <2>2
  <1>5. works' = [works EXCEPT ![s] = Over(w)]
    BY <1>3
  <1> HIDE DEF w
  <1>6. Over(w) \in WorkType /\ Settling(Over(w))
    BY <1>4, OverIsSound
  <1> QED BY <1>5, <1>6, OneSlotChanges

(* The steps of a request that touch no hand-off. *)
LEMMA RequestStepKeeps ==
  ASSUME HandoffInv, UNCHANGED works
  PROVE  HandoffInv'
  BY DEF HandoffInv, Settling, InLatch, WithWorker

LEMMA NextSettles == HandoffInv /\ [Next]_vars => HandoffInv'
  <1> SUFFICES ASSUME HandoffInv, [Next]_vars PROVE HandoffInv'
    OBVIOUS
  <1>1. ASSUME NEW c \in Connections, NEW k, NEW m, NEW n, Arrive(c, k, m, n)
        PROVE  HandoffInv'
    BY <1>1, RequestStepKeeps DEF Arrive
  <1>2. ASSUME NEW c \in Connections, PassThrough(c) \/ TraceRequest(c) \/ SetUpFails(c)
        PROVE  HandoffInv'
    BY <1>2, RequestStepKeeps DEF PassThrough, TraceRequest, SetUpFails
  <1>3. ASSUME NEW c \in Connections, NEW h, RunHandler(c, h)
        PROVE  HandoffInv'
    BY <1>3, RequestStepKeeps DEF RunHandler
  <1>4. ASSUME NEW c \in Connections, AppEnds(c) \/ Leave(c)
        PROVE  HandoffInv'
    BY <1>4, RequestStepKeeps DEF AppEnds, Leave
  <1>5. ASSUME NEW c \in Connections,
               CancelBeforePull(c) \/ Yield(c) \/ Pull(c) \/ Abandon(c) \/ Finalize(c)
        PROVE  HandoffInv'
    BY <1>5, RequestStepKeeps DEF CancelBeforePull, Yield, Pull, Abandon, Finalize
  <1>6. ASSUME NEW c \in Connections, NEW s \in Slots, NEW p, Dispatch(c, p, s)
        PROVE  HandoffInv'
    BY <1>6, DispatchSettles
  <1>7. ASSUME NEW c \in Connections, NEW s \in Slots, Returns(c, s) \/ Raises(c, s)
        PROVE  HandoffInv'
    BY <1>7, ReturnsSettles, RaisesSettles
  <1>8. ASSUME NEW s \in Slots, WorkerStarts(s) \/ WorkerEnds(s)
        PROVE  HandoffInv'
    BY <1>8, WorkerStartsSettles, WorkerEndsSettles
  <1>9. CASE UNCHANGED vars
    BY <1>9, RequestStepKeeps DEF vars
  <1> QED BY <1>1, <1>2, <1>3, <1>4, <1>5, <1>6, <1>7, <1>8, <1>9 DEF Next

-----------------------------------------------------------------------------
(* Exactly one of the worker and the dispatcher's cleanup drives the child *)
(* and ends it, and as long as it is open one of them will                 *)
(* (claim_handoff and reclaim_handoff of _util.py), however many hand-offs *)
(* there are and whatever connections do meanwhile.                        *)
THEOREM HandoffsAreOwned == Spec => []HandoffHasOneOwner
  <1>1. HandoffInv => HandoffHasOneOwner
    <2> SUFFICES ASSUME HandoffInv, NEW s \in Slots
                 PROVE  LET w == works[s] IN
                        /\ Cardinality(w.users) <= 1 /\ w.child # "ended twice"
                        /\ w.child = "open" => \/ w.latch /\ w.awaited
                                               \/ w.holds /\ w.worker = "running"
      BY DEF HandoffHasOneOwner
    <2> DEFINE w == works[s]
    <2>1. w \in WorkType /\ Settling(w)
      BY DEF HandoffInv
    <2> HIDE DEF w
    <2>2. Cardinality(w.users) <= 1
      <3>1. w.users \in {{}, {"owner"}, {"worker"}}
        BY <2>1 DEF WorkType
      <3>2. Cardinality({}) = 0 /\ Cardinality({"owner"}) = 1 /\ Cardinality({"worker"}) = 1
        BY FS_EmptySet, FS_Singleton
      <3> QED BY <3>1, <3>2
    <2>3. w.child # "ended twice"
      BY <2>1 DEF Settling, InLatch, WithWorker, None
    <2>4. w.child = "open" => \/ w.latch /\ w.awaited
                              \/ w.holds /\ w.worker = "running"
      BY <2>1 DEF Settling, InLatch, WithWorker, None
    <2> QED BY <2>2, <2>3, <2>4 DEF w
  <1> QED BY <1>1, InitSettles, NextSettles, PTL DEF Spec

-----------------------------------------------------------------------------
(* The root of a request *)

(* The span that the wrappers up to the d-th have made current.            *)
Held(c, d) ==
  IF d = 2 /\ roots[c][2] = "open" THEN Root(2)
  ELSE IF d >= 1 /\ roots[c][1] = "open" THEN Root(1)
  ELSE ambient[c]

IsOpen(c) == \E i \in 1..Len(roots[c]) : roots[c][i] = "open"

(* The open events: a of the first wrapper, b of the second, then k of the *)
(* handler.                                                                *)
EventNames == {<<"entry", 1>>, <<"entry", 2>>, HandlerEvent}

EventsAre(stack, a, b, k) ==
  /\ stack \in Seq(EventNames) /\ Len(stack) = a + b + k
  /\ a = 1 => stack[1] = <<"entry", 1>>
  /\ b = 1 => stack[a + 1] = <<"entry", 2>>
  /\ k = 1 => stack[a + b + 1] = HandlerEvent

(* The i-th wrapper opened the i-th root or none; what it puts back is     *)
(* what the wrappers around it hold.                                       *)
WrapperFrame(c, i) ==
  LET f == frames[c][i] IN
  /\ ~f.handler
  /\ \/ f.root = i /\ roots[c][i] = "open" /\ f.restores = Held(c, i - 1)
     \/ f.root = 0 /\ roots[c][i] # "open" /\ ~f.event

HandlerFrame(c, i) ==
  LET f == frames[c][i] IN f.handler /\ f.root = 0 /\ (f.event => IsOpen(c))

(* d wrappers have been entered and not left, and h handlers.              *)
Stacked(c, d, h) ==
  /\ Len(frames[c]) = d + h
  /\ Len(roots[c]) \in 0..2 /\ d <= Len(roots[c])
  /\ \A i \in 1..Len(roots[c]) :
       roots[c][i] \in {None, "open", "ended"} /\ (i > d => roots[c][i] # "open")
  /\ \A i \in 1..d : WrapperFrame(c, i)
  /\ h = 1 => HandlerFrame(c, d + 1)

EventsOpen(c, d, h) ==
  \E a, b, k \in 0..1 :
    /\ EventsAre(events[c], a, b, k)
    /\ a = 1 <=> d >= 1 /\ frames[c][1].event
    /\ b = 1 <=> d = 2 /\ frames[c][2].event
    /\ k = 1 <=> h = 1 /\ frames[c][d + 1].event

Calling == {"app", "waiting", "suspended"}

(* Where the request is. *)
Phase(c, d, h) ==
  /\ pc[c] = "idle" => d = 0 /\ h = 0 /\ todo[c] = 0 /\ ~marker[c] /\ ~failed[c]
  /\ pc[c] = "entering" => h = 0 /\ todo[c] >= 1 /\ d + todo[c] = Len(roots[c])
  /\ pc[c] \in Calling => d >= 1 /\ todo[c] = 0 /\ d = Len(roots[c])
  /\ pc[c] = "suspended" => Of(c).streams
  /\ pc[c] = "leaving" => d >= 1 /\ todo[c] = 0
  /\ \/ current[c] = Held(c, d)
     \/ pc[c] = "idle" /\ Of(c).streams

(* What the mark on the request says. *)
Marked(c, d) ==
  /\ Len(roots[c]) = 2 => Of(c).stacks
  /\ pc[c] \in {"entering"} \cup Calling =>
       /\ marker[c] => kind[c] = "http" /\ markable[c] /\ (failed[c] \/ IsOpen(c))
       /\ kind[c] = "http" /\ ~failed[c] /\ d >= 1 => IsOpen(c)
       /\ kind[c] = "other" => ~IsOpen(c)
       /\ markable[c] /\ IsOpen(c) => marker[c]
       /\ markable[c] /\ Len(roots[c]) = 2 =>
            ~(roots[c][1] = "open" /\ roots[c][2] = "open")

RequestInv(c) ==
  \E d \in 0..2, h \in 0..1 :
    Stacked(c, d, h) /\ EventsOpen(c, d, h) /\ Phase(c, d, h) /\ Marked(c, d)

(* A task that waits waits for one hand-off. *)
WaitsOnce ==
  /\ \A s \in Slots : works[s].awaited =>
       works[s].of \in Connections /\ pc[works[s].of] = "waiting"
  /\ \A s, t \in Slots :
       works[s].awaited /\ works[t].awaited /\ works[s].of = works[t].of => s = t

Contexts == {NoSpan, Leaked, Root(1), Root(2)}
RootStates == {None, "open", "ended"}
PcNames == {"idle", "entering", "leaving"} \cup Calling
FrameType == [root : 0..2, restores : Contexts, event : BOOLEAN, handler : BOOLEAN]

(* The types of the variables of connections. *)
Fields ==
  /\ served \in [Connections -> Serving]
  /\ ambient \in [Connections -> {NoSpan, Leaked}]
  /\ pc \in [Connections -> PcNames]
  /\ kind \in [Connections -> {"http", "other"}]
  /\ markable \in [Connections -> BOOLEAN] /\ marker \in [Connections -> BOOLEAN]
  /\ failed \in [Connections -> BOOLEAN] /\ todo \in [Connections -> Int]
  /\ current \in [Connections -> Contexts]
  /\ frames \in [Connections -> Seq(FrameType)]
  /\ roots \in [Connections -> Seq(RootStates)]
  /\ events \in [Connections -> Seq(EventNames)]
  /\ left \in [Connections -> 0..MaxWork] /\ limbo \in [Connections -> 0..1]

RequestFields == \A c \in Connections : RequestInv(c)

RootInv == Fields /\ RequestFields /\ WaitsOnce /\ HandoffInv

-----------------------------------------------------------------------------
(* What the servers are: one that keeps its context does not stream, and   *)
(* a streamed RPC meets one wrapper.                                       *)
LEMMA ServerFacts ==
  ASSUME NEW n \in Serving
  PROVE  /\ Server[n].marks \subseteq BOOLEAN
         /\ Server[n].entry \in {"no", "own", "setup"}
         /\ Server[n].keeps \in BOOLEAN /\ Server[n].streams \in BOOLEAN
         /\ Server[n].stacks \in BOOLEAN
         /\ Server[n].streams => ~Server[n].keeps /\ ~Server[n].stacks
  <1> USE DEF Server, Asgi, Starlette, FastAPI, Aiohttp, Tornado, GrpcUnary, GrpcStream
  <1>1. n \in {"asgi", "starlette", "fastapi", "aiohttp", "tornado", "grpc",
               "grpc_stream"}
    BY ServingAssumption
  <1>2. CASE n = "asgi"
    BY <1>2
  <1>3. CASE n = "starlette"
    BY <1>3
  <1>4. CASE n = "fastapi"
    BY <1>4
  <1>5. CASE n = "aiohttp"
    BY <1>5
  <1>6. CASE n = "tornado"
    BY <1>6
  <1>7. CASE n = "grpc"
    BY <1>7
  <1>8. CASE n = "grpc_stream"
    BY <1>8
  <1> QED BY <1>1, <1>2, <1>3, <1>4, <1>5, <1>6, <1>7, <1>8

(* What opening an event leaves. *)
LEMMA EventOpens ==
  ASSUME NEW a \in 0..1, NEW b \in 0..1, NEW k \in 0..1, k = 0,
         NEW one \in 0..1, one = 1, NEW s, EventsAre(s, a, b, k)
  PROVE  /\ a = 0 /\ b = 0 => EventsAre(Append(s, <<"entry", 1>>), one, b, k)
         /\ b = 0 => EventsAre(Append(s, <<"entry", 2>>), a, one, k)
         /\ EventsAre(Append(s, HandlerEvent), a, b, one)
  <1>1. s \in Seq(EventNames) /\ Len(s) = a + b
    BY DEF EventsAre
  <1>2. ASSUME NEW e \in EventNames
        PROVE  /\ Append(s, e) \in Seq(EventNames) /\ Len(Append(s, e)) = a + b + 1
               /\ Append(s, e)[a + b + 1] = e
               /\ \A i \in 1..(a + b) : Append(s, e)[i] = s[i]
    BY <1>1, AppendProperties
  <1>3. /\ <<"entry", 1>> \in EventNames /\ <<"entry", 2>> \in EventNames
        /\ HandlerEvent \in EventNames
    BY DEF EventNames
  <1>4. a = 0 /\ b = 0 => EventsAre(Append(s, <<"entry", 1>>), one, b, k)
    BY <1>2, <1>3 DEF EventsAre
  <1>5. b = 0 => EventsAre(Append(s, <<"entry", 2>>), a, one, k)
    BY <1>2, <1>3 DEF EventsAre
  <1>6. EventsAre(Append(s, HandlerEvent), a, b, one)
    BY <1>2, <1>3 DEF EventsAre
  <1> QED BY <1>4, <1>5, <1>6

(* Ending an event that is the innermost one drops it alone. *)
LEMMA EndsInnermost ==
  ASSUME NEW s \in Seq(EventNames), NEW e, Len(s) > 0, s[Len(s)] = e,
         \A i \in 1..(Len(s) - 1) : s[i] # e
  PROVE  /\ Without(s, e) \in Seq(EventNames) /\ Len(Without(s, e)) = Len(s) - 1
         /\ \A i \in 1..(Len(s) - 1) : Without(s, e)[i] = s[i]
  <1>1. Len(s) \in Nat /\ DOMAIN s = 1..Len(s) /\ Len(s) \in 1..Len(s)
    OBVIOUS
  <1>2. \A i \in DOMAIN s : s[i] = e <=> i = Len(s)
    BY <1>1
  <1>3. (CHOOSE i \in DOMAIN s : s[i] = e) = Len(s)
    BY <1>1, <1>2
  <1>4. Without(s, e) = SubSeq(s, 1, Len(s) - 1)
    BY <1>1, <1>2, <1>3 DEF Without
  <1>5. \A i \in 1..(Len(s) - 1) : s[i] \in EventNames
    BY <1>1
  <1> QED BY <1>1, <1>4, <1>5, SubSeqProperties

(* Below the handler's event are those of the wrappers. *)
LEMMA EntriesFirst ==
  ASSUME NEW a \in 0..1, NEW b \in 0..1, NEW k \in 0..1, NEW s, EventsAre(s, a, b, k)
  PROVE  /\ \A i \in 1..(a + b) :
              s[i] = IF a = 1 /\ i = 1 THEN <<"entry", 1>> ELSE <<"entry", 2>>
         /\ HandlerEvent # <<"entry", 1>> /\ HandlerEvent # <<"entry", 2>>
         /\ <<"entry", 1>> # <<"entry", 2>>
  <1>1. \A i \in 1..(a + b) :
          s[i] = IF a = 1 /\ i = 1 THEN <<"entry", 1>> ELSE <<"entry", 2>>
    <2> TAKE i \in 1..(a + b)
    <2>1. CASE a = 1 /\ i = 1
      BY <2>1 DEF EventsAre
    <2>2. CASE ~(a = 1 /\ i = 1)
      <3>1. b = 1 /\ i = a + 1
        BY <2>2
      <3> QED BY <2>2, <3>1 DEF EventsAre
    <2> QED BY <2>1, <2>2
  <1> QED BY <1>1 DEF HandlerEvent

(* What ending the innermost event leaves. *)
LEMMA EventEnds ==
  ASSUME NEW a \in 0..1, NEW b \in 0..1, NEW k \in 0..1, NEW zero \in 0..1, zero = 0,
         NEW s, EventsAre(s, a, b, k)
  PROVE  /\ k = 1 => EventsAre(Without(s, HandlerEvent), a, b, zero)
         /\ b = 1 /\ k = 0 => EventsAre(Without(s, <<"entry", 2>>), a, zero, k)
         /\ a = 1 /\ b = 0 /\ k = 0 => EventsAre(Without(s, <<"entry", 1>>), zero, b, k)
  <1>1. s \in Seq(EventNames) /\ Len(s) = a + b + k
    BY DEF EventsAre
  <1>2. /\ HandlerEvent # <<"entry", 1>> /\ HandlerEvent # <<"entry", 2>>
        /\ <<"entry", 1>> # <<"entry", 2>>
        /\ \A i \in 1..(a + b) :
             s[i] = IF a = 1 /\ i = 1 THEN <<"entry", 1>> ELSE <<"entry", 2>>
    BY EntriesFirst
  <1>3. ASSUME NEW e, Len(s) > 0, s[Len(s)] = e, \A i \in 1..(Len(s) - 1) : s[i] # e
        PROVE  /\ Without(s, e) \in Seq(EventNames) /\ Len(Without(s, e)) = Len(s) - 1
               /\ \A i \in 1..(Len(s) - 1) : Without(s, e)[i] = s[i]
    BY <1>1, <1>3, EndsInnermost
  <1>4. ASSUME k = 1
        PROVE  EventsAre(Without(s, HandlerEvent), a, b, zero)
    <2>1. Len(s) = a + b + 1 /\ s[Len(s)] = HandlerEvent
      BY <1>1, <1>4 DEF EventsAre
    <2>2. Len(s) > 0 /\ \A i \in 1..(Len(s) - 1) : s[i] # HandlerEvent
      <3>1. Len(s) > 0 /\ Len(s) - 1 = a + b
        BY <2>1
      <3>2. \A i \in 1..(a + b) : s[i] # HandlerEvent
        BY <1>2
      <3> QED BY <3>1, <3>2
    <2>3. /\ Without(s, HandlerEvent) \in Seq(EventNames)
          /\ Len(Without(s, HandlerEvent)) = Len(s) - 1
          /\ \A i \in 1..(Len(s) - 1) : Without(s, HandlerEvent)[i] = s[i]
      BY <1>3, <2>1, <2>2
    <2> QED BY <2>1, <2>3 DEF EventsAre
  <1>5. ASSUME b = 1, k = 0
        PROVE  EventsAre(Without(s, <<"entry", 2>>), a, zero, k)
    <2>1. Len(s) = a + 1 /\ s[Len(s)] = <<"entry", 2>>
      BY <1>1, <1>5 DEF EventsAre
    <2>2. Len(s) > 0 /\ \A i \in 1..(Len(s) - 1) : s[i] # <<"entry", 2>>
      BY <1>2, <2>1, <1>5
    <2>3. /\ Without(s, <<"entry", 2>>) \in Seq(EventNames)
          /\ Len(Without(s, <<"entry", 2>>)) = Len(s) - 1
          /\ \A i \in 1..(Len(s) - 1) : Without(s, <<"entry", 2>>)[i] = s[i]
      BY <1>3, <2>1, <2>2
    <2> QED BY <1>5, <2>1, <2>3 DEF EventsAre
  <1>6. ASSUME a = 1, b = 0, k = 0
        PROVE  EventsAre(Without(s, <<"entry", 1>>), zero, b, k)
    <2>1. Len(s) = 1 /\ s[Len(s)] = <<"entry", 1>>
      BY <1>1, <1>6 DEF EventsAre
    <2>2. Len(s) > 0 /\ \A i \in 1..(Len(s) - 1) : s[i] # <<"entry", 1>>
      BY <2>1
    <2>3. /\ Without(s, <<"entry", 1>>) \in Seq(EventNames)
          /\ Len(Without(s, <<"entry", 1>>)) = Len(s) - 1
      BY <1>3, <2>1, <2>2
    <2> QED BY <1>6, <2>1, <2>3 DEF EventsAre
  <1> QED BY <1>4, <1>5, <1>6

(* The handler has one event at most. *)
LEMMA OneHandlerEvent ==
  ASSUME NEW a \in 0..1, NEW b \in 0..1, NEW k \in 0..1, NEW s, EventsAre(s, a, b, k)
  PROVE  Cardinality({i \in DOMAIN s : s[i] = HandlerEvent}) <= 1
  <1>1. /\ HandlerEvent # <<"entry", 1>> /\ HandlerEvent # <<"entry", 2>>
        /\ \A i \in 1..(a + b) :
             s[i] = IF a = 1 /\ i = 1 THEN <<"entry", 1>> ELSE <<"entry", 2>>
    BY EntriesFirst
  <1>2. DOMAIN s = 1..(a + b + k)
    BY DEF EventsAre
  <1> DEFINE T == {i \in DOMAIN s : s[i] = HandlerEvent}
             n == a + b + 1
  <1>3. T \subseteq {n}
    BY <1>1, <1>2
  <1> HIDE DEF T, n
  <1>4. CASE T = {}
    BY <1>4, FS_EmptySet DEF T
  <1>5. CASE T = {n}
    <2>1. Cardinality(T) = 1
      BY <1>5, FS_Singleton
    <2> QED BY <2>1 DEF T
  <1> QED BY <1>3, <1>4, <1>5

-----------------------------------------------------------------------------
(* A step of one connection *)

Same(x) ==
  /\ served'[x] = served[x] /\ ambient'[x] = ambient[x] /\ pc'[x] = pc[x]
  /\ kind'[x] = kind[x] /\ markable'[x] = markable[x] /\ todo'[x] = todo[x]
  /\ marker'[x] = marker[x] /\ current'[x] = current[x] /\ frames'[x] = frames[x]
  /\ roots'[x] = roots[x] /\ events'[x] = events[x] /\ failed'[x] = failed[x]

Others(c) == \A x \in Connections \ {c} : Same(x)

(* What a request has entered does not depend on where it is. *)
LEMMA SameStack ==
  ASSUME NEW c \in Connections, NEW d \in 0..2, NEW h \in 0..1,
         Stacked(c, d, h), EventsOpen(c, d, h),
         frames'[c] = frames[c], roots'[c] = roots[c], events'[c] = events[c],
         ambient'[c] = ambient[c]
  PROVE  /\ Stacked(c, d, h)' /\ EventsOpen(c, d, h)'
         /\ \A e \in 0..2 : Held(c, e)' = Held(c, e)
         /\ IsOpen(c)' <=> IsOpen(c)
  <1>1. \A e \in 0..2 : Held(c, e)' = Held(c, e)
    BY DEF Held
  <1>2. IsOpen(c)' <=> IsOpen(c)
    BY DEF IsOpen
  <1>3. \A i \in 1..d : WrapperFrame(c, i)'
    <2> TAKE i \in 1..d
    <2>1. WrapperFrame(c, i)
      BY DEF Stacked
    <2>2. i - 1 \in 0..2
      OBVIOUS
    <2>3. Held(c, i - 1)' = Held(c, i - 1)
      BY <1>1, <2>2
    <2> QED BY <2>1, <2>3 DEF WrapperFrame
  <1>4. h = 1 => HandlerFrame(c, d + 1)'
    BY <1>2 DEF Stacked, HandlerFrame
  <1>5. Stacked(c, d, h)'
    BY <1>3, <1>4 DEF Stacked
  <1>6. EventsOpen(c, d, h)'
    BY DEF EventsOpen
  <1> QED BY <1>1, <1>2, <1>5, <1>6

(* What a request is does not depend on the other connections. *)
LEMMA SameKeeps ==
  ASSUME NEW x \in Connections, RequestInv(x), Same(x)
  PROVE  RequestInv(x)'
  <1>1. PICK d \in 0..2, h \in 0..1 :
          Stacked(x, d, h) /\ EventsOpen(x, d, h) /\ Phase(x, d, h) /\ Marked(x, d)
    BY DEF RequestInv
  <1>2. /\ Stacked(x, d, h)' /\ EventsOpen(x, d, h)'
        /\ \A e \in 0..2 : Held(x, e)' = Held(x, e)
        /\ IsOpen(x)' <=> IsOpen(x)
    BY <1>1, SameStack DEF Same
  <1>3. Phase(x, d, h)'
    BY <1>1, <1>2 DEF Phase, Of, Same
  <1>4. Marked(x, d)'
    BY <1>1, <1>2 DEF Marked, Of, Same
  <1> QED BY <1>2, <1>3, <1>4 DEF RequestInv

LEMMA OneServes ==
  ASSUME RequestFields, NEW c \in Connections, Others(c), RequestInv(c)'
  PROVE  RequestFields'
  <1> SUFFICES ASSUME NEW x \in Connections PROVE RequestInv(x)'
    BY DEF RequestFields
  <1>1. CASE x = c
    BY <1>1
  <1>2. CASE x # c
    BY <1>2, SameKeeps DEF RequestFields, Others
  <1> QED BY <1>1, <1>2

LEMMA ArriveSound ==
  ASSUME Fields, NEW c \in Connections, RequestInv(c),
         NEW k \in {"http", "other"}, NEW m \in BOOLEAN, NEW n \in 1..2,
         Arrive(c, k, m, n)
  PROVE  Fields' /\ Others(c) /\ RequestInv(c)'
  <1>1. PICK d \in 0..2, h \in 0..1 :
          Stacked(c, d, h) /\ EventsOpen(c, d, h) /\ Phase(c, d, h) /\ Marked(c, d)
    BY DEF RequestInv
  <1>2. d = 0 /\ h = 0 /\ ~marker[c] /\ ~failed[c]
    BY <1>1 DEF Phase, Arrive
  <1>3. Fields' /\ Others(c)
    <2>1. /\ current' \in [Connections -> Contexts]
          /\ left' \in [Connections -> 0..MaxWork]
      BY AsyncRequestAssumption DEF Arrive, Fields, Contexts
    <2> DEFINE r == [i \in 1..n |-> None]
    <2>2. r \in Seq(RootStates)
      BY DEF RootStates
    <2>3. roots' = [roots EXCEPT ![c] = r]
      BY DEF Arrive
    <2> HIDE DEF r
    <2>4. roots' \in [Connections -> Seq(RootStates)]
      BY <2>2, <2>3 DEF Fields
    <2>5. /\ pc' \in [Connections -> PcNames]
          /\ kind' \in [Connections -> {"http", "other"}]
          /\ markable' \in [Connections -> BOOLEAN] /\ todo' \in [Connections -> Int]
      BY DEF Arrive, Fields, PcNames
    <2>6. UNCHANGED <<served, ambient, marker, failed, frames, events, limbo, works>>
      BY DEF Arrive
    <2>7. Others(c)
      BY DEF Arrive, Fields, Others, Same
    <2> QED BY <2>1, <2>4, <2>5, <2>6, <2>7 DEF Fields
  <1>4. /\ pc'[c] = "entering" /\ kind'[c] = k /\ markable'[c] = m /\ todo'[c] = n
        /\ roots'[c] = [i \in 1..n |-> None]
        /\ current'[c] = IF Of(c).keeps THEN current[c] ELSE ambient[c]
        /\ UNCHANGED <<served, ambient, marker, failed, frames, events>>
        /\ n = 2 => Of(c).stacks
    BY DEF Arrive, Fields
  <1>5. Len(roots'[c]) = n /\ \A i \in 1..n : roots'[c][i] = None
    BY <1>4
  <1>6. current'[c] = ambient[c]
    <2>1. Of(c).keeps => ~Of(c).streams
      BY ServerFacts DEF Of, Fields
    <2>2. Held(c, d) = ambient[c]
      BY <1>2 DEF Held
    <2> QED BY <1>1, <1>4, <2>1, <2>2 DEF Phase
  <1>7. Stacked(c, d, h)' /\ EventsOpen(c, d, h)'
    <2>1. Stacked(c, d, h)'
      BY <1>1, <1>2, <1>4, <1>5 DEF Stacked, None
    <2>2. EventsOpen(c, d, h)'
      BY <1>1, <1>4 DEF EventsOpen
    <2> QED BY <2>1, <2>2
  <1>8. Phase(c, d, h)'
    BY <1>2, <1>4, <1>5, <1>6 DEF Phase, Calling, Held
  <1>9. Marked(c, d)'
    BY <1>2, <1>4, <1>5 DEF Marked, Calling, IsOpen, None, Of
  <1> QED BY <1>3, <1>7, <1>8, <1>9 DEF RequestInv

(* A frame of a wrapper or of a handler. *)
LEMMA FrameFacts ==
  ASSUME NEW own \in 0..2, NEW restores \in Contexts, NEW event \in BOOLEAN,
         NEW handler \in BOOLEAN
  PROVE  /\ Frame(own, restores, event, handler) \in FrameType
         /\ Frame(own, restores, event, handler).root = own
         /\ Frame(own, restores, event, handler).restores = restores
         /\ Frame(own, restores, event, handler).event <=> event
         /\ Frame(own, restores, event, handler).handler <=> handler
  BY DEF Frame, FrameType

(* A wrapper is entered, with frame f. *)
Enters(c, f) ==
  /\ frames' = [frames EXCEPT ![c] = Append(@, f)]
  /\ todo' = [todo EXCEPT ![c] = @ - 1]
  /\ pc' = [pc EXCEPT ![c] = IF todo'[c] = 0 THEN "app" ELSE "entering"]

LEMMA EnteredSteps ==
  ASSUME Fields, NEW c \in Connections, NEW f \in FrameType, Enters(c, f)
  PROVE  /\ frames'[c] \in Seq(FrameType) /\ Len(frames'[c]) = Len(frames[c]) + 1
         /\ \A i \in 1..Len(frames[c]) : frames'[c][i] = frames[c][i]
         /\ frames'[c][Len(frames[c]) + 1] = f
         /\ todo'[c] = todo[c] - 1
         /\ pc'[c] = IF todo[c] = 1 THEN "app" ELSE "entering"
         /\ frames' \in [Connections -> Seq(FrameType)]
         /\ todo' \in [Connections -> Int]
         /\ pc' \in [Connections -> PcNames]
         /\ \A x \in Connections \ {c} : /\ frames'[x] = frames[x]
                                         /\ todo'[x] = todo[x] /\ pc'[x] = pc[x]
  <1>1. frames[c] \in Seq(FrameType) /\ Len(frames[c]) \in Nat
    BY DEF Fields
  <1>2. frames'[c] = Append(frames[c], f) /\ todo'[c] = todo[c] - 1
    BY DEF Enters, Fields
  <1>3. todo[c] \in Int
    BY DEF Fields
  <1>4. pc'[c] = IF todo[c] = 1 THEN "app" ELSE "entering"
    BY <1>2, <1>3 DEF Enters, Fields
  <1>5. /\ Append(frames[c], f) \in Seq(FrameType)
        /\ Len(Append(frames[c], f)) = Len(frames[c]) + 1
        /\ \A i \in 1..Len(frames[c]) : Append(frames[c], f)[i] = frames[c][i]
        /\ Append(frames[c], f)[Len(frames[c]) + 1] = f
    BY <1>1, AppendProperties
  <1>6. frames' \in [Connections -> Seq(FrameType)]
    BY <1>5 DEF Fields, Enters
  <1>7. /\ todo' \in [Connections -> Int] /\ pc' \in [Connections -> PcNames]
    BY DEF Enters, Fields, PcNames, Calling
  <1>8. \A x \in Connections \ {c} : /\ frames'[x] = frames[x]
                                     /\ todo'[x] = todo[x] /\ pc'[x] = pc[x]
    BY DEF Enters, Fields
  <1> QED BY <1>2, <1>4, <1>5, <1>6, <1>7, <1>8

(* Nothing but the e-th root of the request changes. *)
Writes(c, e) ==
  /\ Len(roots'[c]) = Len(roots[c])
  /\ \A i \in 1..Len(roots[c]) : /\ i # e => roots'[c][i] = roots[c][i]
                                 /\ roots'[c][i] \in {None, "open", "ended"}

(* The wrapper e has been entered, and opened root e or none. *)
LEMMA EnteredStacks ==
  ASSUME Fields, NEW c \in Connections, NEW d \in 0..1, NEW e \in 1..2, e = d + 1,
         NEW h \in 0..1, h = 0, Stacked(c, d, h), EventsOpen(c, d, h), e <= Len(roots[c]),
         NEW f \in FrameType, ~f.handler, Enters(c, f),
         ambient'[c] = ambient[c], Writes(c, e),
         \/ f.root = 0 /\ roots'[c][e] # "open" /\ ~f.event
         \/ f.root = e /\ roots'[c][e] = "open" /\ f.restores = Held(c, d),
         events'[c] = IF f.event THEN Append(events[c], <<"entry", e>>) ELSE events[c]
  PROVE  Stacked(c, e, h)' /\ EventsOpen(c, e, h)' /\ Held(c, d)' = Held(c, d)
  <1> USE DEF Writes
  <1>1. Len(frames[c]) = d
    BY DEF Stacked
  <1>2. /\ Len(frames'[c]) = e /\ frames'[c][e] = f
        /\ \A i \in 1..d : frames'[c][i] = frames[c][i]
    <2>1. /\ Len(frames'[c]) = Len(frames[c]) + 1
          /\ frames'[c][Len(frames[c]) + 1] = f
          /\ \A i \in 1..Len(frames[c]) : frames'[c][i] = frames[c][i]
      BY EnteredSteps
    <2> QED BY <1>1, <2>1
  <1>3. Len(roots[c]) \in 1..2 /\ 1 \in 1..Len(roots[c])
    BY DEF Stacked
  <1>4. /\ Held(c, 0)' = Held(c, 0)
        /\ d = 1 => Held(c, 1)' = Held(c, 1)
    BY <1>3 DEF Held
  <1>5. Held(c, d)' = Held(c, d)
    BY <1>4
  <1>6. ASSUME NEW i \in 1..e PROVE WrapperFrame(c, i)'
    <2>1. CASE i = e
      <3>1. Held(c, i - 1)' = Held(c, d)
        BY <1>5, <2>1
      <3> QED BY <1>2, <2>1, <3>1 DEF WrapperFrame
    <2>2. CASE i # e
      <3>1. i = 1 /\ d = 1
        BY <2>2
      <3>2. WrapperFrame(c, 1)
        BY <3>1 DEF Stacked
      <3>3. frames'[c][1] = frames[c][1] /\ roots'[c][1] = roots[c][1]
        BY <1>2, <1>3, <3>1
      <3>4. WrapperFrame(c, 1)'
        BY <1>4, <3>2, <3>3 DEF WrapperFrame
      <3> QED BY <3>1, <3>4
    <2> QED BY <2>1, <2>2
  <1>7. \A i \in 1..Len(roots'[c]) :
          /\ roots'[c][i] \in {None, "open", "ended"}
          /\ i > e => roots'[c][i] # "open"
    BY <1>3 DEF Stacked
  <1>8. Stacked(c, e, h)'
    BY <1>2, <1>3, <1>6, <1>7 DEF Stacked
  <1>9. EventsOpen(c, e, h)'
    <2>1. PICK a \in 0..1, b \in 0..1, k \in 0..1 :
            /\ EventsAre(events[c], a, b, k)
            /\ a = 1 <=> d >= 1 /\ frames[c][1].event
            /\ b = 1 <=> d = 2 /\ frames[c][2].event
            /\ k = 1 <=> h = 1 /\ frames[c][d + 1].event
      BY DEF EventsOpen
    <2>2. b = 0 /\ k = 0 /\ (d = 0 => a = 0)
      BY <2>1
    <2>3. PICK one \in 0..1 : one = 1
      OBVIOUS
    <2>4. CASE ~f.event
      <3>1. EventsAre(events'[c], a, b, k)
        BY <2>1, <2>4
      <3>2. a = 1 <=> e >= 1 /\ frames'[c][1].event
        BY <1>2, <2>1, <2>4
      <3>3. b = 1 <=> e = 2 /\ frames'[c][2].event
        BY <1>2, <2>2, <2>4
      <3> QED BY <2>2, <3>1, <3>2, <3>3 DEF EventsOpen
    <2>5. CASE f.event /\ d = 0
      <3>1. EventsAre(events'[c], one, b, k)
        BY <2>1, <2>2, <2>3, <2>5, EventOpens
      <3>2. one = 1 <=> e >= 1 /\ frames'[c][1].event
        BY <1>2, <2>3, <2>5
      <3>3. b = 1 <=> e = 2 /\ frames'[c][2].event
        BY <2>2, <2>5
      <3> QED BY <2>2, <3>1, <3>2, <3>3 DEF EventsOpen
    <2>6. CASE f.event /\ d = 1
      <3>1. EventsAre(events'[c], a, one, k)
        BY <2>1, <2>2, <2>3, <2>6, EventOpens
      <3>2. a = 1 <=> e >= 1 /\ frames'[c][1].event
        BY <1>2, <2>1, <2>6
      <3>3. one = 1 <=> e = 2 /\ frames'[c][2].event
        BY <1>2, <2>3, <2>6
      <3> QED BY <2>2, <3>1, <3>2, <3>3 DEF EventsOpen
    <2> QED BY <2>4, <2>5, <2>6
  <1> QED BY <1>5, <1>8, <1>9

(* How many wrappers are entered while a request still enters them. *)
LEMMA Entering ==
  ASSUME Fields, NEW c \in Connections, RequestInv(c), pc[c] = "entering"
  PROVE  \E d \in 0..1, e \in 1..2, h \in 0..1 :
           /\ e = d + 1 /\ h = 0 /\ Stacked(c, d, h) /\ EventsOpen(c, d, h)
           /\ Phase(c, d, h) /\ Marked(c, d)
           /\ d + todo[c] = Len(roots[c]) /\ e <= Len(roots[c])
           /\ current[c] = Held(c, d) /\ Len(frames[c]) = d
           /\ Len(roots[c]) \in 0..2 /\ todo[c] \in Int
           /\ \A i \in 1..Len(roots[c]) : roots[c][i] \in {None, "open", "ended"}
           /\ \A i \in 1..Len(roots[c]) : i >= e => roots[c][i] # "open"
  <1>1. PICK d \in 0..2, h \in 0..1 :
          Stacked(c, d, h) /\ EventsOpen(c, d, h) /\ Phase(c, d, h) /\ Marked(c, d)
    BY DEF RequestInv
  <1>2. h = 0 /\ todo[c] >= 1 /\ d + todo[c] = Len(roots[c]) /\ todo[c] \in Int
    BY <1>1 DEF Phase, Fields
  <1>3. /\ Len(roots[c]) \in 0..2 /\ Len(frames[c]) = d
        /\ \A i \in 1..Len(roots[c]) : /\ roots[c][i] \in {None, "open", "ended"}
                                       /\ i > d => roots[c][i] # "open"
    <2>1. Stacked(c, d, h)
      BY <1>1
    <2>2. Len(roots[c]) \in 0..2 /\ Len(frames[c]) = d + h
      BY <2>1 DEF Stacked
    <2>3. \A i \in 1..Len(roots[c]) : /\ roots[c][i] \in {None, "open", "ended"}
                                      /\ i > d => roots[c][i] # "open"
      BY <2>1 DEF Stacked
    <2> QED BY <1>2, <2>2, <2>3
  <1>4. current[c] = Held(c, d)
    BY <1>1 DEF Phase
  <1>5. d \in 0..1 /\ d + todo[c] = Len(roots[c]) /\ d + 1 <= Len(roots[c])
    <2>1. PICK n \in 0..2 : n = Len(roots[c])
      BY <1>3
    <2>2. PICK k \in Int : k = todo[c]
      BY <1>2
    <2>3. k >= 1 /\ d + k = n
      BY <1>2, <2>1, <2>2
    <2>4. d \in 0..1 /\ d + 1 <= n
      BY <2>3
    <2> QED BY <2>1, <2>2, <2>3, <2>4
  <1>6. PICK e \in 1..2 : e = d + 1
    BY <1>5
  <1>7. e <= Len(roots[c]) /\ \A i \in 1..Len(roots[c]) : i >= e => roots[c][i] # "open"
    BY <1>3, <1>5, <1>6
  <1> QED BY <1>1, <1>2, <1>3, <1>4, <1>5, <1>6, <1>7

(* Where a request is once one more wrapper has been entered. *)
LEMMA EntersPhase ==
  ASSUME NEW c \in Connections, NEW d \in 0..1, NEW e \in 1..2, e = d + 1,
         NEW h \in 0..1, h = 0, todo[c] \in Int, Len(roots[c]) \in 0..2,
         d + todo[c] = Len(roots[c]), e <= Len(roots[c]),
         todo'[c] = todo[c] - 1,
         pc'[c] = IF todo[c] = 1 THEN "app" ELSE "entering",
         Len(roots'[c]) = Len(roots[c]), current'[c] = Held(c, e)'
  PROVE  Phase(c, e, h)'
  <1>1. PICK n \in 0..2, t \in Int : n = Len(roots[c]) /\ t = todo[c]
    OBVIOUS
  <1>2. d + t = n /\ t >= 1
    BY <1>1
  <1>3. todo'[c] = t - 1 /\ Len(roots'[c]) = n
    BY <1>1
  <1>4. CASE t = 1
    <2>1. pc'[c] = "app" /\ todo'[c] = 0 /\ e = Len(roots'[c]) /\ e >= 1
      BY <1>1, <1>2, <1>3, <1>4
    <2> QED BY <2>1 DEF Phase, Calling
  <1>5. CASE t # 1
    <2>1. pc'[c] = "entering" /\ todo'[c] >= 1 /\ e + todo'[c] = Len(roots'[c])
      BY <1>1, <1>2, <1>3, <1>5
    <2> QED BY <2>1 DEF Phase, Calling
  <1> QED BY <1>4, <1>5

(* The frame of a wrapper that opens no span. *)
LEMMA PassFrame ==
  ASSUME NEW c \in Connections, Entered(c, 0, NoSpan, FALSE)
  PROVE  \E f \in FrameType : ~f.handler /\ ~f.event /\ f.root = 0 /\ Enters(c, f)
  <1>1. 0 \in 0..2 /\ NoSpan \in Contexts
    BY DEF Contexts
  <1> DEFINE f == Frame(0, NoSpan, FALSE, FALSE)
  <1>2. f \in FrameType /\ ~f.handler /\ ~f.event /\ f.root = 0
    BY <1>1 DEF Frame, FrameType
  <1>3. Enters(c, f)
    BY DEF Entered, Enters
  <1> QED BY <1>2, <1>3

LEMMA PassThroughSound ==
  ASSUME Fields, NEW c \in Connections, RequestInv(c), PassThrough(c)
  PROVE  Fields' /\ Others(c) /\ RequestInv(c)'
  <1>1. pc[c] = "entering" /\ Passes(c) /\ Entered(c, 0, NoSpan, FALSE)
    BY DEF PassThrough
  <1>2. PICK d \in 0..1, e \in 1..2, h \in 0..1 :
          /\ e = d + 1 /\ h = 0 /\ Stacked(c, d, h) /\ EventsOpen(c, d, h)
          /\ Phase(c, d, h) /\ Marked(c, d)
          /\ d + todo[c] = Len(roots[c]) /\ e <= Len(roots[c])
          /\ current[c] = Held(c, d) /\ Len(frames[c]) = d
          /\ Len(roots[c]) \in 0..2 /\ todo[c] \in Int
          /\ \A i \in 1..Len(roots[c]) : roots[c][i] \in {None, "open", "ended"}
          /\ \A i \in 1..Len(roots[c]) : i >= e => roots[c][i] # "open"
    BY <1>1, Entering
  <1>3. PICK f \in FrameType : ~f.handler /\ ~f.event /\ f.root = 0 /\ Enters(c, f)
    BY <1>1, PassFrame
  <1>4. /\ todo'[c] = todo[c] - 1
        /\ pc'[c] = IF todo[c] = 1 THEN "app" ELSE "entering"
        /\ frames' \in [Connections -> Seq(FrameType)]
        /\ todo' \in [Connections -> Int]
        /\ pc' \in [Connections -> PcNames]
        /\ \A x \in Connections \ {c} : /\ frames'[x] = frames[x]
                                        /\ todo'[x] = todo[x] /\ pc'[x] = pc[x]
    BY <1>3, EnteredSteps
  <1>5. UNCHANGED <<served, ambient, kind, markable, marker, current, roots, events,
                    failed, left, limbo, works>>
    BY DEF PassThrough
  <1>6. Fields' /\ Others(c)
    BY <1>4, <1>5 DEF Fields, Others, Same
  <1>7. e \in 1..Len(roots[c]) /\ roots[c][e] # "open" /\ Writes(c, e)
    BY <1>2, <1>5 DEF Writes
  <1>8. Stacked(c, e, h)' /\ EventsOpen(c, e, h)' /\ Held(c, d)' = Held(c, d)
    BY <1>2, <1>3, <1>5, <1>7, EnteredStacks
  <1>9. Held(c, e)' = Held(c, d)
    BY <1>2, <1>5, <1>7 DEF Held
  <1>10. Phase(c, e, h)'
    BY <1>2, <1>4, <1>5, <1>9, EntersPhase
  <1>11. Marked(c, e)'
    <2>1. kind[c] = "other" \/ marker[c]
      BY <1>1 DEF Passes, RootSpanActive
    <2> QED BY <1>1, <1>2, <1>5, <2>1 DEF Marked, IsOpen, Of
  <1>12. e \in 0..2
    OBVIOUS
  <1> QED BY <1>6, <1>8, <1>10, <1>11, <1>12 DEF RequestInv

(* Writing one root of a request. *)
LEMMA RootWritten ==
  ASSUME Fields, NEW c \in Connections, NEW e \in 1..2, e <= Len(roots[c]),
         Len(roots[c]) \in 0..2, NEW v \in RootStates,
         roots' = [roots EXCEPT ![c][e] = v],
         \A i \in 1..Len(roots[c]) : roots[c][i] \in {None, "open", "ended"}
  PROVE  /\ roots' \in [Connections -> Seq(RootStates)]
         /\ Writes(c, e) /\ roots'[c][e] = v
         /\ \A x \in Connections \ {c} : roots'[x] = roots[x]
  <1>1. roots[c] \in Seq(RootStates)
    BY DEF Fields
  <1> DEFINE r == [roots[c] EXCEPT ![e] = v]
  <1>2. /\ r \in Seq(RootStates) /\ Len(r) = Len(roots[c]) /\ r[e] = v
        /\ \A i \in 1..Len(roots[c]) : i # e => r[i] = roots[c][i]
    BY <1>1, ExceptSeq
  <1>3. roots' = [roots EXCEPT ![c] = r]
    OBVIOUS
  <1> HIDE DEF r
  <1>4. /\ roots'[c] = r /\ roots' \in [Connections -> Seq(RootStates)]
        /\ \A x \in Connections \ {c} : roots'[x] = roots[x]
    BY <1>2, <1>3 DEF Fields
  <1>5. \A i \in 1..Len(roots[c]) : r[i] \in {None, "open", "ended"}
    BY <1>2 DEF RootStates
  <1> QED BY <1>2, <1>4, <1>5 DEF Writes

LEMMA TraceRequestSound ==
  ASSUME Fields, NEW c \in Connections, RequestInv(c), TraceRequest(c)
  PROVE  Fields' /\ Others(c) /\ RequestInv(c)'
  <1>1. pc[c] = "entering" /\ ~Passes(c)
    BY DEF TraceRequest
  <1>2. PICK d \in 0..1, e \in 1..2, h \in 0..1 :
          /\ e = d + 1 /\ h = 0 /\ Stacked(c, d, h) /\ EventsOpen(c, d, h)
          /\ Phase(c, d, h) /\ Marked(c, d)
          /\ d + todo[c] = Len(roots[c]) /\ e <= Len(roots[c])
          /\ current[c] = Held(c, d) /\ Len(frames[c]) = d
          /\ Len(roots[c]) \in 0..2 /\ todo[c] \in Int
          /\ \A i \in 1..Len(roots[c]) : roots[c][i] \in {None, "open", "ended"}
          /\ \A i \in 1..Len(roots[c]) : i >= e => roots[c][i] # "open"
    BY <1>1, Entering
  <1>3. Len(frames[c]) + 1 = e /\ e \in 0..2
    BY <1>2
  <1>4. PICK f \in FrameType :
          /\ ~f.handler /\ f.root = e /\ f.restores = current[c] /\ Enters(c, f)
          /\ events' = [events EXCEPT ![c] =
                          IF f.event THEN Append(@, <<"entry", e>>) ELSE @]
    <2>1. PICK event : /\ Entered(c, e, current[c], event) /\ event \in BOOLEAN
                       /\ events' = [events EXCEPT ![c] =
                            IF event THEN Append(@, <<"entry", e>>) ELSE @]
      <3>1. Of(c).entry \in {"no", "own", "setup"}
        BY ServerFacts DEF Of, Fields
      <3>2. (CASE Of(c).entry = "no"  -> {FALSE}
               [] Of(c).entry = "own" -> BOOLEAN
               [] OTHER               -> {TRUE}) \subseteq BOOLEAN
        BY <3>1
      <3> QED BY <1>3, <3>2 DEF TraceRequest
    <2> DEFINE f == Frame(e, current[c], event, FALSE)
    <2>2. current[c] \in Contexts
      BY DEF Fields
    <2>3. /\ f \in FrameType /\ ~f.handler /\ f.root = e /\ f.restores = current[c]
          /\ f.event = event
      BY <1>3, <2>1, <2>2 DEF Frame, FrameType
    <2>4. Enters(c, f)
      BY <2>1 DEF Entered, Enters
    <2> HIDE DEF f
    <2> QED BY <2>1, <2>3, <2>4
  <1>5. /\ roots' = [roots EXCEPT ![c][e] = "open"]
        /\ marker' = [marker EXCEPT ![c] = markable[c]]
        /\ current' = [current EXCEPT ![c] = Root(e)]
        /\ UNCHANGED <<served, ambient, kind, markable, failed, left, limbo, works>>
    BY <1>3 DEF TraceRequest
  <1>6. /\ todo'[c] = todo[c] - 1
        /\ pc'[c] = IF todo[c] = 1 THEN "app" ELSE "entering"
        /\ frames' \in [Connections -> Seq(FrameType)]
        /\ todo' \in [Connections -> Int]
        /\ pc' \in [Connections -> PcNames]
        /\ \A x \in Connections \ {c} : /\ frames'[x] = frames[x]
                                        /\ todo'[x] = todo[x] /\ pc'[x] = pc[x]
    BY <1>4, EnteredSteps
  <1>7. /\ roots' \in [Connections -> Seq(RootStates)]
        /\ Writes(c, e) /\ roots'[c][e] = "open"
        /\ \A x \in Connections \ {c} : roots'[x] = roots[x]
    <2>1. PICK v \in RootStates : v = "open"
      BY DEF RootStates
    <2>2. roots' = [roots EXCEPT ![c][e] = v]
      BY <1>5, <2>1
    <2>3. e <= Len(roots[c]) /\ Len(roots[c]) \in 0..2
          /\ \A i \in 1..Len(roots[c]) : roots[c][i] \in {None, "open", "ended"}
      BY <1>2
    <2> QED BY <2>1, <2>2, <2>3, RootWritten
  <1>8. /\ events' \in [Connections -> Seq(EventNames)]
        /\ events'[c] = IF f.event THEN Append(events[c], <<"entry", e>>) ELSE events[c]
    <2>1. <<"entry", e>> \in EventNames
      <3>1. e = 1 \/ e = 2
        OBVIOUS
      <3> QED BY <3>1 DEF EventNames
    <2>2. events[c] \in Seq(EventNames)
      BY DEF Fields
    <2>3. Append(events[c], <<"entry", e>>) \in Seq(EventNames)
      BY <2>1, <2>2, AppendProperties
    <2> QED BY <1>4, <2>2, <2>3 DEF Fields
  <1>9. /\ marker' \in [Connections -> BOOLEAN] /\ current' \in [Connections -> Contexts]
        /\ \A x \in Connections \ {c} :
             /\ marker'[x] = marker[x] /\ current'[x] = current[x]
             /\ events'[x] = events[x]
    <2>1. Root(e) \in Contexts
      <3>1. e = 1 \/ e = 2
        OBVIOUS
      <3> QED BY <3>1 DEF Contexts
    <2> QED BY <1>4, <1>5, <2>1 DEF Fields
  <1>10. Fields' /\ Others(c)
    BY <1>5, <1>6, <1>7, <1>8, <1>9 DEF Fields, Others, Same
  <1>11. Stacked(c, e, h)' /\ EventsOpen(c, e, h)' /\ Held(c, d)' = Held(c, d)
    <2>1. f.root = e /\ roots'[c][e] = "open" /\ f.restores = Held(c, d)
      BY <1>2, <1>4, <1>7
    <2>2. ambient'[c] = ambient[c]
      BY <1>5
    <2> QED BY <1>2, <1>4, <1>7, <1>8, <2>1, <2>2, EnteredStacks
  <1>12. Held(c, e)' = Root(e) /\ current'[c] = Root(e)
    <2>1. current'[c] = Root(e)
      BY <1>5 DEF Fields
    <2> QED BY <1>2, <1>7, <2>1 DEF Held, Writes
  <1>13. Phase(c, e, h)'
    BY <1>2, <1>6, <1>7, <1>12, EntersPhase DEF Writes
  <1>14. Marked(c, e)'
    <2>1. kind[c] = "http" /\ ~marker[c]
      BY <1>1 DEF Passes, RootSpanActive, Fields
    <2>2. markable[c] => ~IsOpen(c)
      BY <1>1, <1>2, <2>1 DEF Marked
    <2>3. marker'[c] = markable[c] /\ markable'[c] = markable[c]
          /\ kind'[c] = kind[c] /\ Len(roots'[c]) = Len(roots[c])
      BY <1>5, <1>7 DEF Fields, Writes
    <2>4. IsOpen(c)'
      BY <1>2, <1>7 DEF IsOpen, Writes
    <2>5. Len(roots[c]) = 2 => Of(c)'.stacks
      BY <1>2, <1>5 DEF Marked, Of
    <2>6. markable[c] /\ Len(roots[c]) = 2 =>
            ~(roots'[c][1] = "open" /\ roots'[c][2] = "open")
      BY <1>7, <2>2 DEF IsOpen, Writes
    <2> QED BY <2>1, <2>3, <2>4, <2>5, <2>6 DEF Marked, Calling
  <1> QED BY <1>3, <1>10, <1>11, <1>13, <1>14 DEF RequestInv

LEMMA SetUpFailsSound ==
  ASSUME Fields, NEW c \in Connections, RequestInv(c), SetUpFails(c)
  PROVE  Fields' /\ Others(c) /\ RequestInv(c)'
  <1>1. pc[c] = "entering" /\ ~Passes(c) /\ Entered(c, 0, NoSpan, FALSE)
    BY DEF SetUpFails
  <1>2. PICK d \in 0..1, e \in 1..2, h \in 0..1 :
          /\ e = d + 1 /\ h = 0 /\ Stacked(c, d, h) /\ EventsOpen(c, d, h)
          /\ Phase(c, d, h) /\ Marked(c, d)
          /\ d + todo[c] = Len(roots[c]) /\ e <= Len(roots[c])
          /\ current[c] = Held(c, d) /\ Len(frames[c]) = d
          /\ Len(roots[c]) \in 0..2 /\ todo[c] \in Int
          /\ \A i \in 1..Len(roots[c]) : roots[c][i] \in {None, "open", "ended"}
          /\ \A i \in 1..Len(roots[c]) : i >= e => roots[c][i] # "open"
    BY <1>1, Entering
  <1>3. Len(frames[c]) + 1 = e /\ e \in 0..2
    BY <1>2
  <1>4. PICK f \in FrameType : ~f.handler /\ ~f.event /\ f.root = 0 /\ Enters(c, f)
    BY <1>1, PassFrame
  <1>5. PICK v \in RootStates : v # "open" /\ roots' = [roots EXCEPT ![c][e] = v]
    BY <1>3 DEF SetUpFails, RootStates, None
  <1>6. /\ marker' \in [Connections -> BOOLEAN] /\ (marker'[c] => markable[c])
        /\ \A x \in Connections \ {c} : marker'[x] = marker[x]
    <2>1. PICK m \in BOOLEAN : marker' = [marker EXCEPT ![c] = m /\ markable[c]]
      BY DEF SetUpFails, Failures, OpenServerSpan
    <2> QED BY <2>1 DEF Fields
  <1>7. current' = current
    BY DEF SetUpFails, ResetQuietly, Fields
  <1>8. /\ failed' = [failed EXCEPT ![c] = TRUE]
        /\ UNCHANGED <<served, ambient, kind, markable, events, left, limbo, works>>
    BY DEF SetUpFails
  <1>9. /\ todo'[c] = todo[c] - 1
        /\ pc'[c] = IF todo[c] = 1 THEN "app" ELSE "entering"
        /\ frames' \in [Connections -> Seq(FrameType)]
        /\ todo' \in [Connections -> Int]
        /\ pc' \in [Connections -> PcNames]
        /\ \A x \in Connections \ {c} : /\ frames'[x] = frames[x]
                                        /\ todo'[x] = todo[x] /\ pc'[x] = pc[x]
    BY <1>4, EnteredSteps
  <1>10. /\ roots' \in [Connections -> Seq(RootStates)]
         /\ Writes(c, e) /\ roots'[c][e] = v /\ v # "open"
         /\ \A x \in Connections \ {c} : roots'[x] = roots[x]
    <2>1. e <= Len(roots[c]) /\ Len(roots[c]) \in 0..2
          /\ \A i \in 1..Len(roots[c]) : roots[c][i] \in {None, "open", "ended"}
      BY <1>2
    <2>2. roots' = [roots EXCEPT ![c][e] = v] /\ v # "open"
      BY <1>5
    <2> QED BY <2>1, <2>2, RootWritten
  <1>11. Fields' /\ Others(c)
    BY <1>6, <1>7, <1>8, <1>9, <1>10 DEF Fields, Others, Same
  <1>12. Stacked(c, e, h)' /\ EventsOpen(c, e, h)' /\ Held(c, d)' = Held(c, d)
    BY <1>2, <1>4, <1>8, <1>10, EnteredStacks
  <1>13. Held(c, e)' = Held(c, d)
    <2>1. Held(c, e)' = Held(c, d)'
      BY <1>2, <1>10 DEF Held, Writes
    <2> QED BY <1>12, <2>1
  <1>14. Phase(c, e, h)'
    <2>1. current'[c] = Held(c, e)'
      BY <1>2, <1>7, <1>13
    <2> QED BY <1>2, <1>9, <1>10, <2>1, EntersPhase DEF Writes
  <1>15. Marked(c, e)'
    <2>1. kind[c] = "http" /\ ~marker[c]
      BY <1>1 DEF Passes, RootSpanActive, Fields
    <2>2. /\ markable[c] => ~IsOpen(c)
          /\ Len(roots[c]) = 2 => Of(c).stacks
      BY <1>1, <1>2, <2>1 DEF Marked
    <2>3. IsOpen(c)' => IsOpen(c)
      BY <1>10 DEF IsOpen, Writes
    <2>4. failed'[c] /\ kind'[c] = kind[c] /\ markable'[c] = markable[c]
          /\ (Of(c)' = Of(c)) /\ Len(roots'[c]) = Len(roots[c])
      BY <1>8, <1>10 DEF Fields, Of, Writes
    <2>5. Len(roots[c]) = 2 => ~(roots'[c][1] = "open" /\ roots'[c][2] = "open")
      BY <1>10 DEF Writes
    <2> QED BY <1>6, <2>1, <2>2, <2>3, <2>4, <2>5 DEF Marked
  <1> QED BY <1>3, <1>11, <1>12, <1>14, <1>15 DEF RequestInv

-----------------------------------------------------------------------------
(* The application, and leaving the wrappers *)

(* At most one wrapper gives a handler its event. *)
LEMMA HandlerWrappedOnce ==
  ASSUME NEW c \in Connections, NEW h, NEW opens \in BOOLEAN
  PROVE  LET by == <<RouteHandle(c, h), RunEndpoint(c, h), Traced(c, h)>>
             times == Cardinality({w \in DOMAIN by : by[w] /\ opens})
         IN times \in 0..1 /\ (times = 1 => opens)
  <1> DEFINE by == <<RouteHandle(c, h), RunEndpoint(c, h), Traced(c, h)>>
             W == {w \in DOMAIN by : by[w] /\ opens}
  <1>1. /\ by[1] => ~by[2] /\ ~by[3]
        /\ by[2] => ~by[3]
        /\ DOMAIN by = 1..3
    <2>1. /\ RouteHandle(c, h) => ~RunEndpoint(c, h) /\ ~Traced(c, h)
          /\ RunEndpoint(c, h) => ~Traced(c, h)
      BY DEF RouteHandle, RunEndpoint, Traced
    <2>2. /\ by[1] = RouteHandle(c, h) /\ by[2] = RunEndpoint(c, h)
          /\ by[3] = Traced(c, h)
      OBVIOUS
    <2>3. DOMAIN by = 1..3
      OBVIOUS
    <2> HIDE DEF by
    <2> QED BY <2>1, <2>2, <2>3
  <1> HIDE DEF by
  <1>2. W \subseteq 1..3 /\ \A v, w \in W : v = w
    BY <1>1
  <1>3. W # {} => opens
    OBVIOUS
  <1> HIDE DEF W
  <1>4. CASE W = {}
    <2>1. Cardinality(W) = 0
      BY <1>4, FS_EmptySet
    <2> QED BY <2>1 DEF W, by
  <1>5. CASE W # {}
    <2>1. PICK w \in W : TRUE
      BY <1>5
    <2>2. W = {w}
      BY <1>2, <2>1
    <2>3. Cardinality(W) = 1
      BY <2>2, FS_Singleton
    <2> QED BY <1>3, <1>5, <2>3 DEF W, by
  <1> QED BY <1>4, <1>5

(* Opening that many events of the handler. *)
LEMMA HandlerOpens ==
  ASSUME NEW s \in Seq(EventNames), NEW n \in 0..1
  PROVE  s \o [i \in 1..n |-> HandlerEvent] =
           IF n = 1 THEN Append(s, HandlerEvent) ELSE s
  <1>1. CASE n = 1
    <2>1. [i \in 1..n |-> HandlerEvent] = <<HandlerEvent>>
      BY <1>1
    <2>2. HandlerEvent \in EventNames
      BY DEF EventNames
    <2> QED BY <1>1, <2>1, <2>2, AppendIsConcat
  <1>2. CASE n = 0
    <2>1. [i \in 1..n |-> HandlerEvent] = <<>>
      BY <1>2
    <2> QED BY <1>2, <2>1, ConcatEmptySeq
  <1> QED BY <1>1, <1>2

LEMMA HandlersFrame ==
  ASSUME NEW n \in 0..1
  PROVE  /\ Frame(0, NoSpan, n > 0, TRUE) \in FrameType
         /\ Frame(0, NoSpan, n > 0, TRUE).handler
         /\ Frame(0, NoSpan, n > 0, TRUE).root = 0
         /\ Frame(0, NoSpan, n > 0, TRUE).event <=> n = 1
  <1>1. NoSpan \in Contexts /\ (n = 0 \/ n = 1)
    BY DEF Contexts
  <1>2. CASE n = 1
    <2>1. (n > 0) = TRUE
      BY <1>2
    <2>2. Frame(0, NoSpan, n > 0, TRUE) = Frame(0, NoSpan, TRUE, TRUE)
      BY <2>1, Zenon
    <2>3. /\ Frame(0, NoSpan, TRUE, TRUE) \in FrameType
          /\ Frame(0, NoSpan, TRUE, TRUE).handler
          /\ Frame(0, NoSpan, TRUE, TRUE).root = 0
          /\ Frame(0, NoSpan, TRUE, TRUE).event
      BY <1>1 DEF Frame, FrameType
    <2> QED BY <1>2, <2>2, <2>3, Zenon
  <1>3. CASE n = 0
    <2>1. (n > 0) = FALSE /\ n # 1
      BY <1>3
    <2>2. Frame(0, NoSpan, n > 0, TRUE) = Frame(0, NoSpan, FALSE, TRUE)
      BY <2>1, Zenon
    <2>3. /\ Frame(0, NoSpan, FALSE, TRUE) \in FrameType
          /\ Frame(0, NoSpan, FALSE, TRUE).handler
          /\ Frame(0, NoSpan, FALSE, TRUE).root = 0
          /\ ~Frame(0, NoSpan, FALSE, TRUE).event
      BY <1>1 DEF Frame, FrameType
    <2> QED BY <2>1, <2>2, <2>3, Zenon
  <1> QED BY <1>1, <1>2, <1>3

LEMMA RunHandlerSound ==
  ASSUME Fields, NEW c \in Connections, RequestInv(c), NEW r, RunHandler(c, r)
  PROVE  Fields' /\ Others(c) /\ RequestInv(c)'
  <1>1. PICK d \in 0..2, h \in 0..1 :
          Stacked(c, d, h) /\ EventsOpen(c, d, h) /\ Phase(c, d, h) /\ Marked(c, d)
    BY DEF RequestInv
  <1>2. /\ pc[c] = "app"
        /\ UNCHANGED <<served, ambient, pc, kind, markable, todo, marker, current,
                       roots, failed, left, limbo, works>>
    BY DEF RunHandler
  <1>3. frames[c] \in Seq(FrameType) /\ DOMAIN frames[c] = 1..Len(frames[c])
    BY DEF Fields
  <1>4. h = 0 /\ Len(frames[c]) = d
    <2>1. CASE h = 1
      <3>1. frames[c][d + 1].handler /\ d + 1 \in DOMAIN frames[c]
        BY <1>1, <1>3, <2>1 DEF Stacked, HandlerFrame
      <3> QED BY <3>1 DEF RunHandler
    <2>2. CASE h = 0
      BY <1>1, <2>2 DEF Stacked
    <2> QED BY <2>1, <2>2
  <1>5. PICK one \in 0..1 : one = 1
    OBVIOUS
  <1>6. PICK n \in 0..1, f \in FrameType :
          /\ n = 1 => OwnRoot(c)
          /\ events' = [events EXCEPT ![c] = @ \o [i \in 1..n |-> HandlerEvent]]
          /\ frames' = [frames EXCEPT ![c] = Append(@, f)]
          /\ f.handler /\ f.root = 0 /\ (f.event <=> n = 1)
    <2> DEFINE by == <<RouteHandle(c, r), RunEndpoint(c, r), Traced(c, r)>>
               times(opens) == Cardinality({w \in DOMAIN by : by[w] /\ opens})
    <2>1. PICK opens \in BOOLEAN :
            /\ opens => OwnRoot(c)
            /\ events' = [events EXCEPT ![c] =
                            @ \o [i \in 1..times(opens) |-> HandlerEvent]]
            /\ frames' = [frames EXCEPT ![c] =
                            Append(@, Frame(0, NoSpan, times(opens) > 0, TRUE))]
      BY DEF RunHandler
    <2>2. times(opens) \in 0..1 /\ (times(opens) = 1 => opens)
      BY HandlerWrappedOnce
    <2> HIDE DEF times
    <2>3. PICK n \in 0..1 : n = times(opens)
      BY <2>2
    <2> DEFINE f == Frame(0, NoSpan, n > 0, TRUE)
    <2>4. f \in FrameType /\ f.handler /\ f.root = 0 /\ (f.event <=> n = 1)
      BY HandlersFrame
    <2>5. frames' = [frames EXCEPT ![c] = Append(@, f)]
      BY <2>1, <2>3
    <2>6. events' = [events EXCEPT ![c] = @ \o [i \in 1..n |-> HandlerEvent]]
      BY <2>1, <2>3
    <2> HIDE DEF f
    <2> QED BY <2>1, <2>2, <2>3, <2>4, <2>5, <2>6
  <1>7. /\ Append(frames[c], f) \in Seq(FrameType) /\ Len(Append(frames[c], f)) = d + 1
        /\ \A i \in 1..d : Append(frames[c], f)[i] = frames[c][i]
        /\ Append(frames[c], f)[d + 1] = f
    BY <1>3, <1>4, AppendProperties
  <1>8. /\ frames' \in [Connections -> Seq(FrameType)]
        /\ frames'[c] = Append(frames[c], f)
        /\ \A x \in Connections \ {c} : frames'[x] = frames[x]
    BY <1>6, <1>7 DEF Fields
  <1>9. /\ events' \in [Connections -> Seq(EventNames)]
        /\ events'[c] = IF n = 1 THEN Append(events[c], HandlerEvent) ELSE events[c]
        /\ \A x \in Connections \ {c} : events'[x] = events[x]
    <2>1. events[c] \in Seq(EventNames)
      BY DEF Fields
    <2> DEFINE t == events[c] \o [i \in 1..n |-> HandlerEvent]
    <2>2. t = IF n = 1 THEN Append(events[c], HandlerEvent) ELSE events[c]
      BY <2>1, HandlerOpens
    <2>3. events' = [events EXCEPT ![c] = t]
      BY <1>6
    <2> HIDE DEF t
    <2>4. Append(events[c], HandlerEvent) \in Seq(EventNames)
      BY <2>1, AppendProperties DEF EventNames
    <2>5. t \in Seq(EventNames)
      BY <2>1, <2>2, <2>4
    <2>6. events'[c] = t /\ events' \in [Connections -> Seq(EventNames)]
          /\ \A x \in Connections \ {c} : events'[x] = events[x]
      BY <2>3, <2>5 DEF Fields
    <2> QED BY <2>2, <2>6
  <1>10. Fields' /\ Others(c)
    BY <1>2, <1>8, <1>9 DEF Fields, Others, Same
  <1>11. /\ \A e \in 0..2 : Held(c, e)' = Held(c, e)
         /\ IsOpen(c)' <=> IsOpen(c)
    BY <1>2 DEF Held, IsOpen
  <1>12. Stacked(c, d, one)'
    <2>1. \A i \in 1..d : WrapperFrame(c, i)'
      <3> TAKE i \in 1..d
      <3>1. WrapperFrame(c, i) /\ i - 1 \in 0..2
        BY <1>1 DEF Stacked
      <3>2. frames'[c][i] = frames[c][i] /\ Held(c, i - 1)' = Held(c, i - 1)
        BY <1>7, <1>8, <1>11, <3>1
      <3> QED BY <1>2, <3>1, <3>2 DEF WrapperFrame
    <2>2. OwnRoot(c) => IsOpen(c)
      <3>1. DOMAIN roots[c] = 1..Len(roots[c])
        BY DEF Fields
      <3> QED BY <3>1 DEF OwnRoot, IsOpen
    <2>3. HandlerFrame(c, d + 1)'
      BY <1>6, <1>7, <1>8, <1>11, <2>2 DEF HandlerFrame
    <2> QED BY <1>1, <1>2, <1>5, <1>7, <1>8, <2>1, <2>3 DEF Stacked
  <1>13. EventsOpen(c, d, one)'
    <2>1. PICK a \in 0..1, b \in 0..1, k \in 0..1 :
            /\ EventsAre(events[c], a, b, k)
            /\ a = 1 <=> d >= 1 /\ frames[c][1].event
            /\ b = 1 <=> d = 2 /\ frames[c][2].event
            /\ k = 1 <=> h = 1 /\ frames[c][d + 1].event
      BY <1>1 DEF EventsOpen
    <2>2. k = 0
      BY <1>4, <2>1
    <2>3. EventsAre(events'[c], a, b, n)
      <3>1. CASE n = 1
        <4>1. EventsAre(Append(events[c], HandlerEvent), a, b, one)
          BY <1>5, <2>1, <2>2, EventOpens
        <4> QED BY <1>5, <1>9, <3>1, <4>1
      <3>2. CASE n = 0
        <4>1. n = k
          BY <2>2, <3>2
        <4> QED BY <1>9, <2>1, <3>2, <4>1
      <3> QED BY <3>1, <3>2
    <2>4. /\ a = 1 <=> d >= 1 /\ frames'[c][1].event
          /\ b = 1 <=> d = 2 /\ frames'[c][2].event
      BY <1>7, <1>8, <2>1
    <2>5. n = 1 <=> one = 1 /\ frames'[c][d + 1].event
      BY <1>5, <1>6, <1>7, <1>8
    <2> QED BY <2>3, <2>4, <2>5 DEF EventsOpen
  <1>14. Phase(c, d, one)'
    BY <1>1, <1>2, <1>11 DEF Phase, Of
  <1>15. Marked(c, d)'
    BY <1>1, <1>2, <1>11 DEF Marked, Of
  <1> QED BY <1>10, <1>12, <1>13, <1>14, <1>15 DEF RequestInv

(* Steps that only move a request on between application and leaving. *)
LEMMA MovesOn ==
  ASSUME Fields, NEW c \in Connections, RequestInv(c), pc[c] \in Calling,
         NEW q \in Calling \cup {"leaving"}, pc' = [pc EXCEPT ![c] = q],
         q = "suspended" => Of(c).streams,
         UNCHANGED <<served, ambient, kind, markable, todo, marker, current, frames,
                     roots, events, failed, limbo>>,
         left' \in [Connections -> 0..MaxWork]
  PROVE  Fields' /\ Others(c) /\ RequestInv(c)'
  <1>1. PICK d \in 0..2, h \in 0..1 :
          Stacked(c, d, h) /\ EventsOpen(c, d, h) /\ Phase(c, d, h) /\ Marked(c, d)
    BY DEF RequestInv
  <1>2. pc'[c] = q /\ pc' \in [Connections -> PcNames]
        /\ \A x \in Connections \ {c} : pc'[x] = pc[x]
    BY DEF Fields, PcNames
  <1>3. Fields' /\ Others(c)
    BY <1>2 DEF Fields, Others, Same
  <1>4. /\ Stacked(c, d, h)' /\ EventsOpen(c, d, h)'
        /\ \A e \in 0..2 : Held(c, e)' = Held(c, e)
        /\ IsOpen(c)' <=> IsOpen(c)
    BY <1>1, SameStack
  <1>5. Phase(c, d, h)'
    BY <1>1, <1>2, <1>4 DEF Phase, Calling, Of
  <1>6. Marked(c, d)'
    BY <1>1, <1>2, <1>4 DEF Marked, Calling, Of
  <1> QED BY <1>3, <1>4, <1>5, <1>6 DEF RequestInv

(* Every frame but the innermost stays. *)
LEMMA FrontFrames ==
  ASSUME Fields, NEW c \in Connections, Len(frames[c]) >= 1,
         frames' = [frames EXCEPT ![c] = Front(@)]
  PROVE  /\ frames' \in [Connections -> Seq(FrameType)]
         /\ Len(frames'[c]) = Len(frames[c]) - 1
         /\ \A i \in 1..(Len(frames[c]) - 1) : frames'[c][i] = frames[c][i]
         /\ frames'[c] = <<>> <=> Len(frames[c]) = 1
         /\ \A x \in Connections \ {c} : frames'[x] = frames[x]
         /\ Last(frames[c]) = frames[c][Len(frames[c])]
         /\ Last(frames[c]) \in FrameType
  <1>1. frames[c] \in Seq(FrameType) /\ Len(frames[c]) \in Nat
    BY DEF Fields
  <1> DEFINE n == Len(frames[c])
             t == SubSeq(frames[c], 1, n - 1)
  <1>2. \A i \in 1..(n - 1) : frames[c][i] \in FrameType
    BY <1>1
  <1>3. /\ t \in Seq(FrameType) /\ Len(t) = n - 1
        /\ \A i \in 1..(n - 1) : t[i] = frames[c][i]
    BY <1>1, <1>2, SubSeqProperties
  <1>4. frames' = [frames EXCEPT ![c] = t]
    BY DEF Front
  <1> HIDE DEF t
  <1>5. /\ frames'[c] = t /\ frames' \in [Connections -> Seq(FrameType)]
        /\ \A x \in Connections \ {c} : frames'[x] = frames[x]
    BY <1>3, <1>4 DEF Fields
  <1>6. t = <<>> <=> Len(t) = 0
    BY <1>3, EmptySeq
  <1>7. Last(frames[c]) = frames[c][n] /\ frames[c][n] \in FrameType
    BY <1>1 DEF Last
  <1> QED BY <1>1, <1>3, <1>5, <1>6, <1>7

(* The wrapper d has been left. *)
LEMMA LeftStacks ==
  ASSUME Fields, NEW c \in Connections, NEW d \in 1..2, NEW e \in 0..1, d = e + 1,
         NEW h \in 0..1, h = 0, Stacked(c, d, h), EventsOpen(c, d, h),
         frames' = [frames EXCEPT ![c] = Front(@)],
         ambient'[c] = ambient[c], Writes(c, d), roots'[c][d] # "open",
         events'[c] = IF frames[c][d].event THEN Without(events[c], <<"entry", d>>)
                      ELSE events[c]
  PROVE  Stacked(c, e, h)' /\ EventsOpen(c, e, h)' /\ Held(c, e)' = Held(c, e)
  <1> USE DEF Writes
  <1>1. Len(frames[c]) = d
    BY DEF Stacked
  <1>2. Len(frames'[c]) = e /\ \A i \in 1..e : frames'[c][i] = frames[c][i]
    <2>1. /\ Len(frames'[c]) = Len(frames[c]) - 1
          /\ \A i \in 1..(Len(frames[c]) - 1) : frames'[c][i] = frames[c][i]
      <3>1. Len(frames[c]) >= 1
        BY <1>1
      <3> QED BY <3>1, FrontFrames
    <2>2. Len(frames[c]) - 1 = e
      BY <1>1
    <2> QED BY <2>1, <2>2
  <1>3. Len(roots[c]) \in 1..2 /\ 1 \in 1..Len(roots[c]) /\ d <= Len(roots[c])
    BY DEF Stacked
  <1>4. /\ Held(c, 0)' = Held(c, 0)
        /\ e = 1 => Held(c, 1)' = Held(c, 1)
    BY <1>3 DEF Held
  <1>5. Held(c, e)' = Held(c, e)
    BY <1>4
  <1>6. ASSUME NEW i \in 1..e PROVE WrapperFrame(c, i)'
    <2>1. i = 1 /\ e = 1
      OBVIOUS
    <2>2. WrapperFrame(c, 1)
      BY <2>1 DEF Stacked
    <2>3. frames'[c][1] = frames[c][1] /\ roots'[c][1] = roots[c][1]
      BY <1>2, <1>3, <2>1
    <2>4. WrapperFrame(c, 1)'
      BY <1>4, <2>2, <2>3 DEF WrapperFrame
    <2> QED BY <2>1, <2>4
  <1>7. \A i \in 1..Len(roots'[c]) :
          /\ roots'[c][i] \in {None, "open", "ended"}
          /\ i > e => roots'[c][i] # "open"
    <2> SUFFICES ASSUME NEW i \in 1..Len(roots'[c])
                 PROVE  /\ roots'[c][i] \in {None, "open", "ended"}
                        /\ i > e => roots'[c][i] # "open"
      OBVIOUS
    <2>1. i \in 1..Len(roots[c])
      OBVIOUS
    <2>2. CASE i = d
      BY <2>1, <2>2
    <2>3. CASE i # d
      BY <2>1, <2>3 DEF Stacked
    <2> QED BY <2>2, <2>3
  <1>8. Stacked(c, e, h)'
    BY <1>2, <1>3, <1>6, <1>7 DEF Stacked
  <1>9. EventsOpen(c, e, h)'
    <2>1. PICK a \in 0..1, b \in 0..1, k \in 0..1 :
            /\ EventsAre(events[c], a, b, k)
            /\ a = 1 <=> d >= 1 /\ frames[c][1].event
            /\ b = 1 <=> d = 2 /\ frames[c][2].event
            /\ k = 1 <=> h = 1 /\ frames[c][d + 1].event
      BY DEF EventsOpen
    <2>2. k = 0 /\ (d = 1 => b = 0)
      BY <2>1
    <2>3. PICK zero \in 0..1 : zero = 0
      OBVIOUS
    <2>4. CASE d = 1
      <3>1. EventsAre(events'[c], zero, b, k)
        <4>1. CASE a = 1
          <5>1. EventsAre(Without(events[c], <<"entry", 1>>), zero, b, k)
            BY <2>1, <2>2, <2>3, <2>4, <4>1, EventEnds
          <5> QED BY <2>1, <2>4, <4>1, <5>1
        <4>2. CASE a = 0
          <5>1. a = zero
            BY <2>3, <4>2
          <5> QED BY <2>1, <2>4, <4>2, <5>1
        <4> QED BY <4>1, <4>2
      <3>2. /\ zero = 1 <=> e >= 1 /\ frames'[c][1].event
            /\ b = 1 <=> e = 2 /\ frames'[c][2].event
            /\ k = 1 <=> h = 1 /\ frames'[c][e + 1].event
        BY <2>2, <2>3, <2>4
      <3> QED BY <3>1, <3>2 DEF EventsOpen
    <2>5. CASE d = 2
      <3>1. EventsAre(events'[c], a, zero, k)
        <4>1. CASE b = 1
          <5>1. EventsAre(Without(events[c], <<"entry", 2>>), a, zero, k)
            BY <2>1, <2>2, <2>3, <4>1, EventEnds
          <5> QED BY <2>1, <2>5, <4>1, <5>1
        <4>2. CASE b = 0
          <5>1. b = zero
            BY <2>3, <4>2
          <5> QED BY <2>1, <2>5, <4>2, <5>1
        <4> QED BY <4>1, <4>2
      <3>2. /\ a = 1 <=> e >= 1 /\ frames'[c][1].event
            /\ zero = 1 <=> e = 2 /\ frames'[c][2].event
            /\ k = 1 <=> h = 1 /\ frames'[c][e + 1].event
        BY <1>2, <2>1, <2>2, <2>3, <2>5
      <3> QED BY <3>1, <3>2 DEF EventsOpen
    <2> QED BY <2>4, <2>5
  <1> QED BY <1>5, <1>8, <1>9

(* The handler has been left. *)
LEMMA HandlerLeft ==
  ASSUME Fields, NEW c \in Connections, NEW d \in 0..2, NEW h \in 0..1, h = 1,
         NEW zero \in 0..1, zero = 0, Stacked(c, d, h), EventsOpen(c, d, h),
         frames' = [frames EXCEPT ![c] = Front(@)],
         ambient'[c] = ambient[c], roots'[c] = roots[c],
         events'[c] = IF frames[c][d + 1].event THEN Without(events[c], HandlerEvent)
                      ELSE events[c]
  PROVE  /\ Stacked(c, d, zero)' /\ EventsOpen(c, d, zero)'
         /\ \A e \in 0..2 : Held(c, e)' = Held(c, e)
  <1>1. Len(frames[c]) = d + 1
    BY DEF Stacked
  <1>2. Len(frames'[c]) = d /\ \A i \in 1..d : frames'[c][i] = frames[c][i]
    <2>1. /\ Len(frames'[c]) = Len(frames[c]) - 1
          /\ \A i \in 1..(Len(frames[c]) - 1) : frames'[c][i] = frames[c][i]
      <3>1. Len(frames[c]) >= 1
        BY <1>1
      <3> QED BY <3>1, FrontFrames
    <2>2. Len(frames[c]) - 1 = d
      BY <1>1
    <2> QED BY <2>1, <2>2
  <1>3. \A e \in 0..2 : Held(c, e)' = Held(c, e)
    BY DEF Held
  <1>4. \A i \in 1..d : WrapperFrame(c, i)'
    <2> TAKE i \in 1..d
    <2>1. WrapperFrame(c, i) /\ i - 1 \in 0..2
      BY DEF Stacked
    <2>2. frames'[c][i] = frames[c][i] /\ Held(c, i - 1)' = Held(c, i - 1)
      BY <1>2, <1>3, <2>1
    <2> QED BY <2>1, <2>2 DEF WrapperFrame
  <1>5. Stacked(c, d, zero)'
    BY <1>2, <1>4 DEF Stacked
  <1>6. EventsOpen(c, d, zero)'
    <2>1. PICK a \in 0..1, b \in 0..1, k \in 0..1 :
            /\ EventsAre(events[c], a, b, k)
            /\ a = 1 <=> d >= 1 /\ frames[c][1].event
            /\ b = 1 <=> d = 2 /\ frames[c][2].event
            /\ k = 1 <=> h = 1 /\ frames[c][d + 1].event
      BY DEF EventsOpen
    <2>2. EventsAre(events'[c], a, b, zero)
      <3>1. CASE k = 1
        <4>1. EventsAre(Without(events[c], HandlerEvent), a, b, zero)
          BY <2>1, <3>1, EventEnds
        <4> QED BY <2>1, <3>1, <4>1
      <3>2. CASE k = 0
        <4>1. k = zero
          BY <3>2
        <4> QED BY <2>1, <3>2, <4>1
      <3> QED BY <3>1, <3>2
    <2>3. /\ a = 1 <=> d >= 1 /\ frames'[c][1].event
          /\ b = 1 <=> d = 2 /\ frames'[c][2].event
          /\ zero = 1 <=> zero = 1 /\ frames'[c][d + 1].event
      BY <1>2, <2>1
    <2> QED BY <2>2, <2>3 DEF EventsOpen
  <1> QED BY <1>3, <1>5, <1>6

(* The request, and what its object held, is gone. *)
LEMMA GoneFields ==
  ASSUME Fields, NEW c \in Connections, RequestGone(c)
  PROVE  /\ pc' \in [Connections -> PcNames] /\ pc'[c] = "idle"
         /\ kind' \in [Connections -> {"http", "other"}]
         /\ markable' \in [Connections -> BOOLEAN]
         /\ marker' \in [Connections -> BOOLEAN] /\ ~marker'[c]
         /\ failed' \in [Connections -> BOOLEAN] /\ ~failed'[c]
         /\ left' \in [Connections -> 0..MaxWork]
         /\ \A x \in Connections \ {c} :
              /\ pc'[x] = pc[x] /\ kind'[x] = kind[x] /\ markable'[x] = markable[x]
              /\ marker'[x] = marker[x] /\ failed'[x] = failed[x]
  BY AsyncRequestAssumption DEF RequestGone, Fields, PcNames

(* Without one, an idle request is as it was before it arrived. *)
LEMMA IdleIsSound ==
  ASSUME NEW c \in Connections, NEW d \in 0..2, NEW h \in 0..1, d = 0, h = 0,
         pc'[c] = "idle", todo'[c] = 0, ~marker'[c], ~failed'[c],
         Stacked(c, d, h)', EventsOpen(c, d, h)',
         current'[c] = Held(c, d)' \/ Of(c)'.streams,
         Len(roots'[c]) = 2 => Of(c)'.stacks
  PROVE  RequestInv(c)'
  <1>1. Phase(c, d, h)'
    BY DEF Phase, Calling
  <1>2. Marked(c, d)'
    BY DEF Marked, Calling
  <1> QED BY <1>1, <1>2 DEF RequestInv

(* The handler is left. *)
LEMMA LeaveHandlerSound ==
  ASSUME Fields, NEW c \in Connections, Leave(c), NEW d \in 0..2, NEW h \in 0..1,
         h = 1, Stacked(c, d, h), EventsOpen(c, d, h), Phase(c, d, h), Marked(c, d)
  PROVE  Fields' /\ Others(c) /\ RequestInv(c)'
  <1>1. /\ pc[c] = "leaving" /\ frames' = [frames EXCEPT ![c] = Front(@)]
        /\ UNCHANGED <<served, ambient, todo, limbo, works>>
    BY DEF Leave
  <1>2. Len(frames[c]) = d + 1 /\ HandlerFrame(c, d + 1) /\ d >= 1
    BY <1>1 DEF Stacked, Phase
  <1>3. /\ frames' \in [Connections -> Seq(FrameType)]
        /\ Len(frames'[c]) = Len(frames[c]) - 1
        /\ frames'[c] = <<>> <=> Len(frames[c]) = 1
        /\ \A x \in Connections \ {c} : frames'[x] = frames[x]
        /\ Last(frames[c]) = frames[c][Len(frames[c])]
    <2>1. Len(frames[c]) >= 1
      BY <1>2
    <2> QED BY <1>1, <2>1, FrontFrames
  <1>4. Last(frames[c]) = frames[c][d + 1] /\ frames'[c] # <<>>
    BY <1>2, <1>3
  <1>5. frames[c][d + 1].root = 0
    BY <1>2 DEF HandlerFrame
  <1>6. /\ events' = [events EXCEPT ![c] = IF frames[c][d + 1].event
                                           THEN Without(@, HandlerEvent) ELSE @]
        /\ UNCHANGED <<current, roots>>
        /\ UNCHANGED <<pc, kind, markable, marker, failed, left>>
    BY <1>4, <1>5 DEF Leave
  <1>7. events'[c] = IF frames[c][d + 1].event THEN Without(events[c], HandlerEvent)
                     ELSE events[c]
    BY <1>6 DEF Fields
  <1>8. PICK zero \in 0..1 : zero = 0
    OBVIOUS
  <1>9. /\ Stacked(c, d, zero)' /\ EventsOpen(c, d, zero)'
        /\ \A e \in 0..2 : Held(c, e)' = Held(c, e)
    BY <1>1, <1>6, <1>7, <1>8, HandlerLeft
  <1>10. events' \in [Connections -> Seq(EventNames)]
    <2>1. events'[c] \in Seq(EventNames)
      BY <1>9 DEF EventsOpen, EventsAre
    <2> QED BY <1>6, <1>7, <2>1 DEF Fields
  <1>11. Fields' /\ Others(c)
    BY <1>1, <1>3, <1>6, <1>10 DEF Fields, Others, Same
  <1>12. Phase(c, d, zero)'
    BY <1>1, <1>6, <1>8, <1>9 DEF Phase, Calling
  <1>13. Marked(c, d)'
    BY <1>1, <1>6 DEF Marked, Calling, Of
  <1> QED BY <1>9, <1>11, <1>12, <1>13 DEF RequestInv

(* What leaving a wrapper does to its span and its event. *)
LEMMA LeaveWrapper ==
  ASSUME Fields, NEW c \in Connections, Leave(c), NEW d \in 1..2, NEW h \in 0..1,
         h = 0, Stacked(c, d, h), EventsOpen(c, d, h), Phase(c, d, h)
  PROVE  /\ Writes(c, d) /\ roots'[c][d] # "open"
         /\ roots' \in [Connections -> Seq(RootStates)]
         /\ current'[c] = Held(c, d - 1) /\ current' \in [Connections -> Contexts]
         /\ events'[c] = IF frames[c][d].event THEN Without(events[c], <<"entry", d>>)
                         ELSE events[c]
         /\ \A x \in Connections \ {c} : /\ roots'[x] = roots[x]
                                         /\ current'[x] = current[x]
                                         /\ events'[x] = events[x]
  <1>1. /\ Len(frames[c]) = d /\ WrapperFrame(c, d)
        /\ d <= Len(roots[c]) /\ Len(roots[c]) \in 0..2
        /\ \A i \in 1..Len(roots[c]) : roots[c][i] \in {None, "open", "ended"}
    BY DEF Stacked
  <1>2. Last(frames[c]) = frames[c][d] /\ frames[c][d] \in FrameType
    <2>1. Len(frames[c]) >= 1 /\ frames' = [frames EXCEPT ![c] = Front(@)]
      BY <1>1 DEF Leave
    <2> QED BY <1>1, <2>1, FrontFrames
  <1>3. current[c] = Held(c, d)
    BY DEF Phase, Leave
  <1>4. CASE frames[c][d].root = 0
    <2>1. UNCHANGED <<current, roots>> /\ ~frames[c][d].event /\ roots[c][d] # "open"
          /\ events' = events
      <3>1. ~frames[c][d].event /\ roots[c][d] # "open"
        BY <1>1, <1>4 DEF WrapperFrame
      <3>2. /\ UNCHANGED <<current, roots>>
            /\ events' = [events EXCEPT ![c] = IF frames[c][d].event
                                               THEN Without(@, HandlerEvent) ELSE @]
        BY <1>2, <1>4 DEF Leave
      <3>3. events' = [events EXCEPT ![c] = events[c]]
        BY <3>1, <3>2
      <3>4. events' = events
        BY <3>3 DEF Fields
      <3> QED BY <3>1, <3>2, <3>4
    <2>2. Held(c, d) = Held(c, d - 1)
      BY <2>1 DEF Held
    <2>3. Writes(c, d)
      BY <1>1, <2>1 DEF Writes
    <2> QED BY <1>3, <2>1, <2>2, <2>3 DEF Fields
  <1>5. CASE frames[c][d].root = d
    <2>1. d # 0 /\ frames[c][d].restores = Held(c, d - 1)
      BY <1>1, <1>5 DEF WrapperFrame
    <2>2. /\ events' = [events EXCEPT ![c] = IF frames[c][d].event
                                             THEN Without(@, <<"entry", d>>) ELSE @]
          /\ current' = [current EXCEPT ![c] = frames[c][d].restores]
          /\ roots' = [roots EXCEPT ![c][d] = "ended"]
      BY <1>2, <1>5, <2>1 DEF Leave
    <2>3. PICK v \in RootStates : v = "ended"
      BY DEF RootStates
    <2>4. /\ Writes(c, d) /\ roots'[c][d] = v
          /\ roots' \in [Connections -> Seq(RootStates)]
          /\ \A x \in Connections \ {c} : roots'[x] = roots[x]
      <3>1. roots' = [roots EXCEPT ![c][d] = v]
        BY <2>2, <2>3
      <3>2. d <= Len(roots[c]) /\ Len(roots[c]) \in 0..2
            /\ \A i \in 1..Len(roots[c]) : roots[c][i] \in {None, "open", "ended"}
        BY <1>1
      <3> QED BY <3>1, <3>2, RootWritten
    <2>5. frames[c][d].restores \in Contexts
      BY <1>2 DEF FrameType
    <2>6. /\ current'[c] = Held(c, d - 1) /\ current' \in [Connections -> Contexts]
          /\ \A x \in Connections \ {c} : current'[x] = current[x]
      BY <2>1, <2>2, <2>5 DEF Fields
    <2>7. /\ events'[c] = IF frames[c][d].event THEN Without(events[c], <<"entry", d>>)
                          ELSE events[c]
          /\ \A x \in Connections \ {c} : events'[x] = events[x]
      BY <2>2 DEF Fields
    <2> QED BY <2>3, <2>4, <2>6, <2>7
  <1> QED BY <1>1, <1>4, <1>5 DEF WrapperFrame

LEMMA LeaveWrapperSound ==
  ASSUME Fields, NEW c \in Connections, Leave(c), NEW d \in 1..2, NEW h \in 0..1,
         h = 0, Stacked(c, d, h), EventsOpen(c, d, h), Phase(c, d, h), Marked(c, d)
  PROVE  Fields' /\ Others(c) /\ RequestInv(c)'
  <1>1. /\ pc[c] = "leaving" /\ frames' = [frames EXCEPT ![c] = Front(@)]
        /\ UNCHANGED <<served, ambient, todo, limbo, works>>
    BY DEF Leave
  <1>2. PICK e \in 0..1 : d = e + 1
    OBVIOUS
  <1>3. /\ Writes(c, d) /\ roots'[c][d] # "open"
        /\ roots' \in [Connections -> Seq(RootStates)]
        /\ current'[c] = Held(c, d - 1) /\ current' \in [Connections -> Contexts]
        /\ events'[c] = IF frames[c][d].event THEN Without(events[c], <<"entry", d>>)
                        ELSE events[c]
        /\ \A x \in Connections \ {c} : /\ roots'[x] = roots[x]
                                        /\ current'[x] = current[x]
                                        /\ events'[x] = events[x]
    BY LeaveWrapper
  <1>4. Stacked(c, e, h)' /\ EventsOpen(c, e, h)' /\ Held(c, e)' = Held(c, e)
    BY <1>1, <1>2, <1>3, LeftStacks
  <1>5. current'[c] = Held(c, e)'
    <2>1. d - 1 = e
      BY <1>2
    <2> QED BY <1>3, <1>4, <2>1
  <1>6. /\ frames' \in [Connections -> Seq(FrameType)]
        /\ frames'[c] = <<>> <=> d = 1
        /\ \A x \in Connections \ {c} : frames'[x] = frames[x]
    <2>1. Len(frames[c]) = d /\ Len(frames[c]) >= 1
      BY DEF Stacked
    <2> QED BY <1>1, <2>1, FrontFrames
  <1>7. events' \in [Connections -> Seq(EventNames)]
    <2>1. events'[c] \in Seq(EventNames)
      BY <1>4 DEF EventsOpen, EventsAre
    <2>2. DOMAIN events' = Connections /\ events' = [x \in DOMAIN events' |-> events'[x]]
      BY DEF Leave, Fields
    <2> QED BY <1>3, <2>1, <2>2 DEF Fields
  <1>8. todo'[c] = 0 /\ (Len(roots'[c]) = 2 => Of(c)'.stacks) /\ e \in 0..2
    BY <1>1, <1>3 DEF Phase, Marked, Of, Writes
  <1>9. CASE d = 1
    <2>1. RequestGone(c)
      BY <1>6, <1>9 DEF Leave
    <2>2. /\ pc' \in [Connections -> PcNames] /\ pc'[c] = "idle"
          /\ kind' \in [Connections -> {"http", "other"}]
          /\ markable' \in [Connections -> BOOLEAN]
          /\ marker' \in [Connections -> BOOLEAN] /\ ~marker'[c]
          /\ failed' \in [Connections -> BOOLEAN] /\ ~failed'[c]
          /\ left' \in [Connections -> 0..MaxWork]
          /\ \A x \in Connections \ {c} :
               /\ pc'[x] = pc[x] /\ kind'[x] = kind[x] /\ markable'[x] = markable[x]
               /\ marker'[x] = marker[x] /\ failed'[x] = failed[x]
      BY <2>1, GoneFields
    <2>3. Fields' /\ Others(c)
      BY <1>1, <1>3, <1>6, <1>7, <2>2 DEF Fields, Others, Same
    <2>4. e = 0
      BY <1>2, <1>9
    <2> QED BY <1>4, <1>5, <1>8, <2>2, <2>3, <2>4, IdleIsSound
  <1>10. CASE d = 2
    <2>1. UNCHANGED <<pc, kind, markable, marker, failed, left>>
      BY <1>6, <1>10 DEF Leave
    <2>2. Fields' /\ Others(c)
      BY <1>1, <1>3, <1>6, <1>7, <2>1 DEF Fields, Others, Same
    <2>3. Phase(c, e, h)'
      BY <1>1, <1>2, <1>5, <1>8, <1>10, <2>1 DEF Phase, Calling
    <2>4. Marked(c, e)'
      BY <1>1, <1>8, <2>1 DEF Marked, Calling
    <2> QED BY <1>4, <1>8, <2>2, <2>3, <2>4 DEF RequestInv
  <1> QED BY <1>9, <1>10

LEMMA LeaveSound ==
  ASSUME Fields, NEW c \in Connections, RequestInv(c), Leave(c)
  PROVE  Fields' /\ Others(c) /\ RequestInv(c)'
  <1>1. PICK d \in 0..2, h \in 0..1 :
          Stacked(c, d, h) /\ EventsOpen(c, d, h) /\ Phase(c, d, h) /\ Marked(c, d)
    BY DEF RequestInv
  <1>2. CASE h = 1
    BY <1>1, <1>2, LeaveHandlerSound
  <1>3. CASE h = 0
    <2>1. d >= 1
      BY <1>1 DEF Phase, Leave
    <2>2. PICK n \in 1..2 : n = d
      BY <2>1
    <2> QED BY <1>1, <1>3, <2>2, LeaveWrapperSound
  <1> QED BY <1>2, <1>3

LEMMA CancelBeforePullSound ==
  ASSUME Fields, NEW c \in Connections, RequestInv(c), CancelBeforePull(c)
  PROVE  Fields' /\ Others(c) /\ RequestInv(c)'
  <1>1. /\ pc[c] = "entering" /\ Of(c).streams /\ RequestGone(c)
        /\ todo' = [todo EXCEPT ![c] = 0]
        /\ UNCHANGED <<served, ambient, current, frames, roots, events, limbo, works>>
    BY DEF CancelBeforePull
  <1>2. PICK d \in 0..2, h \in 0..1 :
          Stacked(c, d, h) /\ EventsOpen(c, d, h) /\ Phase(c, d, h) /\ Marked(c, d)
    BY DEF RequestInv
  <1>3. ~Of(c).stacks
    BY <1>1, ServerFacts DEF Of, Fields
  <1>4. d = 0 /\ h = 0 /\ Len(roots[c]) # 2
    <2>1. Len(roots[c]) \in 0..2 /\ Len(roots[c]) # 2
      BY <1>2, <1>3 DEF Stacked, Marked
    <2>2. PICK n \in 0..1 : n = Len(roots[c])
      BY <2>1
    <2>3. h = 0 /\ todo[c] >= 1 /\ d + todo[c] = n /\ todo[c] \in Int
      BY <1>1, <1>2, <2>2 DEF Phase, Fields
    <2>4. d = 0
      BY <2>3
    <2> QED BY <2>1, <2>3, <2>4
  <1>5. /\ pc' \in [Connections -> PcNames] /\ pc'[c] = "idle"
        /\ kind' \in [Connections -> {"http", "other"}]
        /\ markable' \in [Connections -> BOOLEAN]
        /\ marker' \in [Connections -> BOOLEAN] /\ ~marker'[c]
        /\ failed' \in [Connections -> BOOLEAN] /\ ~failed'[c]
        /\ left' \in [Connections -> 0..MaxWork]
        /\ \A x \in Connections \ {c} :
             /\ pc'[x] = pc[x] /\ kind'[x] = kind[x] /\ markable'[x] = markable[x]
             /\ marker'[x] = marker[x] /\ failed'[x] = failed[x]
    BY <1>1, GoneFields
  <1>6. Fields' /\ Others(c) /\ todo'[c] = 0
    <2>1. /\ todo' \in [Connections -> Int] /\ todo'[c] = 0
          /\ \A x \in Connections \ {c} : todo'[x] = todo[x]
      BY <1>1 DEF Fields
    <2> QED BY <1>1, <1>5, <2>1 DEF Fields, Others, Same
  <1>7. Stacked(c, d, h)' /\ EventsOpen(c, d, h)'
    BY <1>1, <1>2, SameStack
  <1>8. Of(c)'.streams /\ Len(roots'[c]) # 2
    BY <1>1, <1>4 DEF Of
  <1> QED BY <1>4, <1>5, <1>6, <1>7, <1>8, IdleIsSound

LEMMA AbandonSound ==
  ASSUME Fields, NEW c \in Connections, RequestInv(c), Abandon(c)
  PROVE  Fields' /\ Others(c) /\ RequestInv(c)'
  <1>1. /\ pc[c] = "suspended" /\ RequestGone(c)
        /\ limbo' = [limbo EXCEPT ![c] = @ + IF OwnRoot(c) THEN 1 ELSE 0]
        /\ limbo'[c] <= 1
        /\ frames' = [frames EXCEPT ![c] = <<>>] /\ events' = [events EXCEPT ![c] = <<>>]
        /\ roots' = [roots EXCEPT ![c] = <<>>]
        /\ UNCHANGED <<served, ambient, todo, current, works>>
    BY DEF Abandon
  <1>2. PICK d \in 0..2, h \in 0..1 : Phase(c, d, h)
    BY DEF RequestInv
  <1>3. todo[c] = 0 /\ Of(c).streams
    BY <1>1, <1>2 DEF Phase, Calling
  <1>4. /\ pc' \in [Connections -> PcNames] /\ pc'[c] = "idle"
        /\ kind' \in [Connections -> {"http", "other"}]
        /\ markable' \in [Connections -> BOOLEAN]
        /\ marker' \in [Connections -> BOOLEAN] /\ ~marker'[c]
        /\ failed' \in [Connections -> BOOLEAN] /\ ~failed'[c]
        /\ left' \in [Connections -> 0..MaxWork]
        /\ \A x \in Connections \ {c} :
             /\ pc'[x] = pc[x] /\ kind'[x] = kind[x] /\ markable'[x] = markable[x]
             /\ marker'[x] = marker[x] /\ failed'[x] = failed[x]
    BY <1>1, GoneFields
  <1>5. limbo' \in [Connections -> 0..1]
    <2>1. limbo[c] \in 0..1
      BY DEF Fields
    <2>2. limbo'[c] \in 0..1
      BY <1>1, <2>1 DEF Fields
    <2> QED BY <1>1, <2>2 DEF Fields
  <1>6. /\ frames' \in [Connections -> Seq(FrameType)]
        /\ roots' \in [Connections -> Seq(RootStates)]
        /\ events' \in [Connections -> Seq(EventNames)]
        /\ frames'[c] = <<>> /\ roots'[c] = <<>> /\ events'[c] = <<>>
        /\ \A x \in Connections \ {c} :
             frames'[x] = frames[x] /\ roots'[x] = roots[x] /\ events'[x] = events[x]
    <2>1. <<>> \in Seq(FrameType) /\ <<>> \in Seq(RootStates) /\ <<>> \in Seq(EventNames)
      BY EmptySeq
    <2> QED BY <1>1, <2>1 DEF Fields
  <1>7. Fields' /\ Others(c)
    BY <1>1, <1>4, <1>5, <1>6 DEF Fields, Others, Same
  <1>8. PICK zero \in 0..1 : zero = 0
    OBVIOUS
  <1>9. Len(frames'[c]) = 0 /\ Len(roots'[c]) = 0 /\ Len(events'[c]) = 0
    BY <1>6
  <1>10. Stacked(c, zero, zero)'
    BY <1>8, <1>9 DEF Stacked
  <1>11. EventsOpen(c, zero, zero)'
    <2>1. events'[c] \in Seq(EventNames)
      BY <1>7 DEF Fields
    <2>2. EventsAre(events'[c], zero, zero, zero)
      BY <1>8, <1>9, <2>1 DEF EventsAre
    <2> QED BY <1>8, <2>2 DEF EventsOpen
  <1>12. todo'[c] = 0 /\ Of(c)'.streams /\ Len(roots'[c]) # 2 /\ zero \in 0..2
    BY <1>1, <1>3, <1>8, <1>9 DEF Of
  <1> QED BY <1>4, <1>7, <1>8, <1>10, <1>11, <1>12, IdleIsSound

LEMMA FinalizeSound ==
  ASSUME Fields, NEW c \in Connections, RequestInv(c), Finalize(c)
  PROVE  Fields' /\ Others(c) /\ RequestInv(c)'
  <1>1. /\ limbo[c] > 0 /\ limbo' = [limbo EXCEPT ![c] = @ - 1]
        /\ UNCHANGED <<served, ambient, pc, kind, markable, todo, marker, current,
                       frames, roots, events, failed, left, works>>
    BY DEF Finalize
  <1>2. limbo' \in [Connections -> 0..1]
    BY <1>1 DEF Fields
  <1>3. Fields' /\ Others(c) /\ Same(c)
    BY <1>1, <1>2 DEF Fields, Others, Same
  <1> QED BY <1>3, SameKeeps

-----------------------------------------------------------------------------
(* Waiting for a hand-off *)

(* A step that touches no hand-off leaves those who wait waiting. *)
LEMMA WaitsKeep ==
  ASSUME WaitsOnce, works' = works,
         \A x \in Connections : pc[x] = "waiting" => pc'[x] = "waiting"
  PROVE  WaitsOnce'
  BY DEF WaitsOnce

(* Nor does one that changes a hand-off as long as it is awaited. *)
LEMMA WaitsSettle ==
  ASSUME WaitsOnce, HandoffInv, NEW s \in Slots, NEW w,
         works' = [works EXCEPT ![s] = w],
         w.awaited => works[s].awaited /\ w.of = works[s].of,
         \A x \in Connections : pc[x] = "waiting" =>
           \/ pc'[x] = "waiting"
           \/ works[s].awaited /\ works[s].of = x /\ ~w.awaited
  PROVE  WaitsOnce'
  <1>1. works'[s] = w /\ \A t \in Slots : t # s => works'[t] = works[t]
    BY DEF HandoffInv
  <1>2. \A t \in Slots : works'[t].awaited =>
          works[t].awaited /\ works'[t].of = works[t].of
    BY <1>1
  <1>3. ASSUME NEW t \in Slots, works'[t].awaited
        PROVE  works'[t].of \in Connections /\ pc'[works'[t].of] = "waiting"
    <2>1. /\ works[t].awaited /\ works'[t].of = works[t].of
          /\ works[t].of \in Connections /\ pc[works[t].of] = "waiting"
      BY <1>2, <1>3 DEF WaitsOnce
    <2>2. ~(works[s].awaited /\ works[s].of = works[t].of /\ ~w.awaited)
      BY <1>1, <1>3, <2>1 DEF WaitsOnce
    <2> QED BY <2>1, <2>2
  <1>4. ASSUME NEW t \in Slots, NEW u \in Slots, works'[t].awaited, works'[u].awaited,
               works'[t].of = works'[u].of
        PROVE  t = u
    BY <1>2, <1>4 DEF WaitsOnce
  <1> QED BY <1>3, <1>4 DEF WaitsOnce

(* What a step of a connection that touches no hand-off shows. *)
LEMMA RequestStep ==
  ASSUME RootInv, NEW c \in Connections, Fields' /\ Others(c) /\ RequestInv(c)',
         works' = works, pc[c] # "waiting" \/ pc' = pc
  PROVE  RootInv'
  <1>1. WaitsOnce'
    <2>1. \A x \in Connections : pc[x] = "waiting" => pc'[x] = "waiting"
      BY DEF Others, Same
    <2> QED BY <2>1, WaitsKeep DEF RootInv
  <1>2. HandoffInv'
    BY RequestStepKeeps DEF RootInv
  <1>3. RequestFields'
    BY OneServes DEF RootInv
  <1> QED BY <1>1, <1>2, <1>3 DEF RootInv

LEMMA DispatchSound ==
  ASSUME RootInv, NEW c \in Connections, NEW p, NEW s \in Slots, Dispatch(c, p, s)
  PROVE  RootInv'
  <1>1. HandoffInv'
    BY DispatchSettles DEF RootInv
  <1>2. Fields' /\ Others(c) /\ RequestInv(c)'
    <2>1. /\ pc[c] \in Calling /\ pc' = [pc EXCEPT ![c] = "waiting"]
          /\ "waiting" \in Calling \cup {"leaving"}
          /\ UNCHANGED <<served, ambient, kind, markable, todo, marker, current,
                         frames, roots, events, failed, limbo>>
      BY DEF Dispatch, Calling
    <2>2. left' \in [Connections -> 0..MaxWork]
      BY AsyncRequestAssumption DEF Dispatch, RootInv, Fields
    <2> QED BY <2>1, <2>2, MovesOn DEF RootInv, RequestFields
  <1>3. RequestFields'
    BY <1>2, OneServes DEF RootInv
  <1>4. PICK w : /\ works' = [works EXCEPT ![s] = w]
                 /\ w.of = c /\ w.awaited
    <2>1. PICK minted \in MintAsyncChild(c), takes \in Pool[p].shapes :
            works' = [works EXCEPT ![s] =
                        [NoWork EXCEPT !.of = c, !.pool = p, !.child = minted,
                                       !.latch = (minted = "open"), !.takes = takes,
                                       !.worker = "queued", !.awaited = TRUE]]
      BY DEF Dispatch
    <2> DEFINE w == [NoWork EXCEPT !.of = c, !.pool = p, !.child = minted,
                                   !.latch = (minted = "open"), !.takes = takes,
                                   !.worker = "queued", !.awaited = TRUE]
    <2>2. w.of = c /\ w.awaited
      BY DEF NoWork
    <2>3. works' = [works EXCEPT ![s] = w]
      BY <2>1
    <2> HIDE DEF w
    <2> QED BY <2>2, <2>3
  <1>5. works'[s] = w /\ \A t \in Slots : t # s => works'[t] = works[t]
    BY <1>4 DEF RootInv, HandoffInv
  <1>6. /\ pc[c] = "app" /\ pc'[c] = "waiting"
        /\ \A x \in Connections : x # c => pc'[x] = pc[x]
    BY DEF Dispatch, RootInv, Fields
  <1>7. \A t \in Slots : t # s /\ works'[t].awaited =>
          /\ works'[t].of \in Connections /\ works'[t].of # c
          /\ pc'[works'[t].of] = "waiting"
    BY <1>5, <1>6 DEF RootInv, WaitsOnce
  <1>8. WaitsOnce'
    <2>1. ASSUME NEW t \in Slots, works'[t].awaited
          PROVE  works'[t].of \in Connections /\ pc'[works'[t].of] = "waiting"
      BY <1>4, <1>5, <1>6, <1>7, <2>1
    <2>2. ASSUME NEW t \in Slots, NEW u \in Slots, works'[t].awaited,
                 works'[u].awaited, works'[t].of = works'[u].of
          PROVE  t = u
      <3>1. CASE t = s \/ u = s
        BY <1>4, <1>5, <1>7, <2>2, <3>1
      <3>2. CASE t # s /\ u # s
        BY <1>5, <2>2, <3>2 DEF RootInv, WaitsOnce
      <3> QED BY <3>1, <3>2
    <2> QED BY <2>1, <2>2 DEF WaitsOnce
  <1> QED BY <1>1, <1>2, <1>3, <1>8 DEF RootInv

(* What is over is not awaited, and what is awaited is not over. *)
LEMMA OverWaits ==
  ASSUME NEW v \in WorkType
  PROVE  /\ Over(v).awaited <=> v.awaited
         /\ v.awaited => Over(v).of = v.of
  BY DEF Over, WorkType

(* The task stops waiting. *)
LEMMA StopsWaiting ==
  ASSUME RootInv, NEW c \in Connections, NEW s \in Slots, Returns(c, s) \/ Raises(c, s)
  PROVE  RootInv'
  <1>1. HandoffInv'
    BY ReturnsSettles, RaisesSettles DEF RootInv
  <1>2. PICK q \in {"app", "leaving"} : pc' = [pc EXCEPT ![c] = q]
    BY DEF Returns, Raises
  <1>3. /\ pc[c] = "waiting" /\ works[s].awaited /\ works[s].of = c
        /\ UNCHANGED ServerVars
    BY DEF Returns, Raises
  <1>4. Fields' /\ Others(c) /\ RequestInv(c)'
    <2>1. /\ pc[c] \in Calling /\ q \in Calling \cup {"leaving"} /\ q # "suspended"
          /\ UNCHANGED <<served, ambient, kind, markable, todo, marker, current,
                         frames, roots, events, failed, limbo>>
          /\ left' \in [Connections -> 0..MaxWork]
      BY <1>3 DEF Calling, ServerVars, RootInv, Fields
    <2> QED BY <1>2, <2>1, MovesOn DEF RootInv, RequestFields
  <1>5. RequestFields'
    BY <1>4, OneServes DEF RootInv
  <1>6. works[s] \in WorkType /\ Settling(works[s])
    BY DEF RootInv, HandoffInv
  <1>7. PICK w : works' = [works EXCEPT ![s] = w] /\ ~w.awaited
    <2>1. CASE Returns(c, s)
      <3>1. Settled(works[s], TRUE) \in WorkType /\ ~Settled(works[s], TRUE).awaited
        BY <1>3, <1>6, <2>1, SettledIsSound DEF Returns
      <3>2. ~Over(Settled(works[s], TRUE)).awaited
        BY <3>1, OverWaits
      <3>3. works' = [works EXCEPT ![s] = Over(Settled(works[s], TRUE))]
        BY <2>1 DEF Returns
      <3> QED BY <3>2, <3>3
    <2>2. CASE Raises(c, s)
      <3> DEFINE r == Settled(works[s], FALSE)
      <3>1. r \in WorkType /\ ~r.awaited
        BY <1>3, <1>6, SettledIsSound
      <3>2. PICK worker \in {"gone", "queued", "running", "done"} :
              works' = [works EXCEPT ![s] = Over([r EXCEPT !.worker = worker])]
        <4>1. works[s].worker \in {"gone", "queued", "running", "done"}
          BY <1>6 DEF WorkType
        <4> QED BY <2>2, <4>1 DEF Raises
      <3> HIDE DEF r
      <3>3. [r EXCEPT !.worker = worker] \in WorkType
            /\ ~[r EXCEPT !.worker = worker].awaited
        BY <3>1 DEF WorkType
      <3>4. ~Over([r EXCEPT !.worker = worker]).awaited
        BY <3>3, OverWaits
      <3> QED BY <3>2, <3>4
    <2> QED BY <2>1, <2>2
  <1>8. WaitsOnce'
    <2>1. \A x \in Connections : x # c => pc'[x] = pc[x]
      BY <1>2 DEF RootInv, Fields
    <2>2. \A x \in Connections : pc[x] = "waiting" =>
            \/ pc'[x] = "waiting"
            \/ works[s].awaited /\ works[s].of = x /\ ~w.awaited
      BY <1>3, <1>7, <2>1
    <2> QED BY <1>7, <2>2, WaitsSettle DEF RootInv
  <1> QED BY <1>1, <1>4, <1>5, <1>8 DEF RootInv

(* A worker starts or ends. *)
LEMMA WorkerSteps ==
  ASSUME RootInv, NEW s \in Slots, WorkerStarts(s) \/ WorkerEnds(s)
  PROVE  RootInv'
  <1>1. HandoffInv'
    BY WorkerStartsSettles, WorkerEndsSettles DEF RootInv
  <1>2. UNCHANGED <<ServerVars, pc>>
    BY DEF WorkerStarts, WorkerEnds
  <1>3. Fields' /\ \A x \in Connections : Same(x)
    BY <1>2 DEF RootInv, Fields, ServerVars, Same
  <1>4. RequestFields'
    BY <1>3, SameKeeps DEF RootInv, RequestFields
  <1>5. works[s] \in WorkType
    BY DEF RootInv, HandoffInv
  <1>6. PICK w : /\ works' = [works EXCEPT ![s] = w]
                 /\ w.awaited => works[s].awaited /\ w.of = works[s].of
    <2>1. CASE WorkerStarts(s)
      <3>1. works' = [works EXCEPT ![s] = ClaimHandoff(works[s])]
        BY <2>1 DEF WorkerStarts
      <3>2. /\ ClaimHandoff(works[s]).awaited = works[s].awaited
            /\ ClaimHandoff(works[s]).of = works[s].of
        BY <1>5 DEF ClaimHandoff, WorkType
      <3> QED BY <3>1, <3>2
    <2>2. CASE WorkerEnds(s)
      <3> DEFINE v == LeaveClaimed(works[s])
      <3>1. works' = [works EXCEPT ![s] = Over(v)]
        BY <2>2 DEF WorkerEnds
      <3>2. v.awaited = works[s].awaited /\ v.of = works[s].of
        BY <1>5 DEF LeaveClaimed, WorkType
      <3>3. v \in WorkType
        BY <1>5 DEF LeaveClaimed, WorkType, EndedOnce
      <3> HIDE DEF v
      <3>4. /\ Over(v).awaited <=> v.awaited
            /\ v.awaited => Over(v).of = v.of
        BY <3>3, OverWaits
      <3> QED BY <3>1, <3>2, <3>4
    <2> QED BY <2>1, <2>2
  <1>7. WaitsOnce'
    BY <1>2, <1>6, WaitsSettle DEF RootInv
  <1> QED BY <1>1, <1>3, <1>4, <1>7 DEF RootInv

LEMMA NextHasRoots == RootInv /\ [Next]_vars => RootInv'
  <1> SUFFICES ASSUME RootInv, [Next]_vars PROVE RootInv'
    OBVIOUS
  <1> USE DEF RequestFields
  <1>1. ASSUME NEW c \in Connections, NEW k \in {"http", "other"}, NEW m \in BOOLEAN,
               NEW n \in 1..2, Arrive(c, k, m, n)
        PROVE  RootInv'
    <2>1. works' = works /\ pc[c] # "waiting"
      BY <1>1 DEF Arrive
    <2> QED BY <1>1, <2>1, ArriveSound, RequestStep DEF RootInv
  <1>2. ASSUME NEW c \in Connections, PassThrough(c) \/ TraceRequest(c) \/ SetUpFails(c)
        PROVE  RootInv'
    <2>1. works' = works /\ pc[c] # "waiting"
      BY <1>2 DEF PassThrough, TraceRequest, SetUpFails
    <2> QED BY <1>2, <2>1, PassThroughSound, TraceRequestSound, SetUpFailsSound,
               RequestStep DEF RootInv
  <1>3. ASSUME NEW c \in Connections, NEW h, RunHandler(c, h)
        PROVE  RootInv'
    <2>1. works' = works /\ pc[c] # "waiting"
      BY <1>3 DEF RunHandler
    <2> QED BY <1>3, <2>1, RunHandlerSound, RequestStep DEF RootInv
  <1>4. ASSUME NEW c \in Connections, AppEnds(c) \/ Yield(c) \/ Pull(c)
        PROVE  RootInv'
    <2>1. works' = works /\ pc[c] # "waiting" /\ pc[c] \in Calling
      BY <1>4 DEF AppEnds, Yield, Pull, Calling
    <2>2. PICK q \in Calling \cup {"leaving"} :
            pc' = [pc EXCEPT ![c] = q] /\ (q = "suspended" => Of(c).streams)
      BY <1>4 DEF AppEnds, Yield, Pull, Calling
    <2>3. UNCHANGED <<served, ambient, kind, markable, todo, marker, current,
                      frames, roots, events, failed, limbo>>
      BY <1>4 DEF AppEnds, Yield, Pull
    <2>4. left' \in [Connections -> 0..MaxWork]
      <3>1. left \in [Connections -> 0..MaxWork]
        BY DEF RootInv, Fields
      <3>2. CASE left' = left
        BY <3>1, <3>2
      <3>3. CASE left' = [left EXCEPT ![c] = @ - 1] /\ left[c] > 0
        <4>1. left[c] - 1 \in 0..MaxWork
          BY <3>1, <3>3, AsyncRequestAssumption
        <4> QED BY <3>1, <3>3, <4>1
      <3> QED BY <1>4, <3>2, <3>3 DEF AppEnds, Yield, Pull
    <2>5. Fields' /\ Others(c) /\ RequestInv(c)'
      BY <2>1, <2>2, <2>3, <2>4, MovesOn DEF RootInv
    <2> QED BY <2>1, <2>5, RequestStep
  <1>5. ASSUME NEW c \in Connections, Leave(c)
        PROVE  RootInv'
    <2>1. works' = works /\ pc[c] # "waiting"
      BY <1>5 DEF Leave
    <2> QED BY <1>5, <2>1, LeaveSound, RequestStep DEF RootInv
  <1>6. ASSUME NEW c \in Connections, CancelBeforePull(c) \/ Abandon(c)
        PROVE  RootInv'
    <2>1. works' = works /\ pc[c] # "waiting"
      BY <1>6 DEF CancelBeforePull, Abandon
    <2> QED BY <1>6, <2>1, CancelBeforePullSound, AbandonSound, RequestStep DEF RootInv
  <1>7. ASSUME NEW c \in Connections, Finalize(c)
        PROVE  RootInv'
    <2>1. works' = works /\ pc' = pc
      BY <1>7 DEF Finalize
    <2> QED BY <1>7, <2>1, FinalizeSound, RequestStep DEF RootInv
  <1>8. ASSUME NEW c \in Connections, NEW s \in Slots, NEW p, Dispatch(c, p, s)
        PROVE  RootInv'
    BY <1>8, DispatchSound
  <1>9. ASSUME NEW c \in Connections, NEW s \in Slots, Returns(c, s) \/ Raises(c, s)
        PROVE  RootInv'
    BY <1>9, StopsWaiting
  <1>10. ASSUME NEW s \in Slots, WorkerStarts(s) \/ WorkerEnds(s)
         PROVE  RootInv'
    BY <1>10, WorkerSteps
  <1>11. CASE UNCHANGED vars
    <2>1. Fields' /\ \A x \in Connections : Same(x)
      BY <1>11 DEF vars, RootInv, Fields, Same
    <2>2. RequestFields'
      BY <2>1, SameKeeps DEF RootInv
    <2>3. WaitsOnce' /\ HandoffInv'
      BY <1>11, WaitsKeep, RequestStepKeeps DEF vars, RootInv
    <2> QED BY <2>1, <2>2, <2>3 DEF RootInv
  <1> QED BY <1>1, <1>2, <1>3, <1>4, <1>5, <1>6, <1>7, <1>8, <1>9, <1>10, <1>11 DEF Next

LEMMA InitHasRoots == Init => RootInv
  <1> SUFFICES ASSUME Init PROVE RootInv
    OBVIOUS
  <1>1. HandoffInv
    BY InitSettles
  <1>2. WaitsOnce
    BY DEF WaitsOnce, Init, NoWork
  <1>3. <<>> \in Seq(FrameType) /\ <<>> \in Seq(RootStates) /\ <<>> \in Seq(EventNames)
    BY EmptySeq
  <1>4. Fields
    BY <1>3, AsyncRequestAssumption DEF Fields, Init, PcNames, Contexts
  <1>5. ASSUME NEW c \in Connections PROVE RequestInv(c)
    <2>1. PICK zero \in 0..1 : zero = 0
      OBVIOUS
    <2>2. /\ frames[c] = <<>> /\ roots[c] = <<>> /\ events[c] = <<>>
          /\ pc[c] = "idle" /\ todo[c] = 0 /\ marker[c] = FALSE /\ failed[c] = FALSE
          /\ current[c] = ambient[c]
      BY DEF Init
    <2>3. Len(frames[c]) = 0 /\ Len(roots[c]) = 0 /\ Len(events[c]) = 0
      BY <2>2
    <2>4. Stacked(c, zero, zero)
      BY <2>1, <2>3 DEF Stacked
    <2>5. EventsOpen(c, zero, zero)
      <3>1. EventsAre(events[c], zero, zero, zero)
        BY <1>3, <2>1, <2>2, <2>3 DEF EventsAre
      <3> QED BY <2>1, <3>1 DEF EventsOpen
    <2>6. Phase(c, zero, zero) /\ Marked(c, zero)
      BY <2>1, <2>2, <2>3 DEF Phase, Calling, Held, Marked
    <2>7. zero \in 0..2
      OBVIOUS
    <2> QED BY <2>4, <2>5, <2>6, <2>7 DEF RequestInv
  <1> QED BY <1>1, <1>2, <1>4, <1>5 DEF RootInv, RequestFields

(* The wrappers that were entered are the frames that are no handler's. *)
LEMMA WrapperFrames ==
  ASSUME Fields, NEW c \in Connections, NEW d \in 0..2, NEW h \in 0..1, Stacked(c, d, h)
  PROVE  Cardinality({i \in DOMAIN frames[c] : ~frames[c][i].handler}) = d
  <1> DEFINE W == {i \in DOMAIN frames[c] : ~frames[c][i].handler}
  <1>1. DOMAIN frames[c] = 1..(d + h)
    BY DEF Fields, Stacked
  <1>2. \A i \in 1..d : ~frames[c][i].handler
    BY DEF Stacked, WrapperFrame
  <1>3. h = 1 => frames[c][d + 1].handler
    BY DEF Stacked, HandlerFrame
  <1>4. W = 1..d
    BY <1>1, <1>2, <1>3
  <1> HIDE DEF W
  <1>5. Cardinality(1..d) = d
    <2>1. PICK n \in Int : n = d
      OBVIOUS
    <2>2. 1 \in Int /\ Cardinality(1..n) = IF 1 > n THEN 0 ELSE n - 1 + 1
      BY FS_Interval
    <2> QED BY <2>1, <2>2
  <1> QED BY <1>4, <1>5 DEF W

(* TypeOK, as the proof knows it. *)
LEMMA TypesHold == RootInv => TypeOK
  <1> SUFFICES ASSUME RootInv PROVE TypeOK
    OBVIOUS
  <1>1. ASSUME NEW c \in Connections
        PROVE  /\ served[c] \in Serving /\ ambient[c] \in {NoSpan, Leaked}
               /\ pc[c] \in {"idle", "entering", "app", "waiting", "suspended", "leaving"}
               /\ kind[c] \in {"http", "other"}
               /\ {markable[c], marker[c], failed[c]} \subseteq BOOLEAN
               /\ current[c] \in {NoSpan, Leaked, Root(1), Root(2)}
               /\ todo[c] + Cardinality({i \in DOMAIN frames[c] :
                                           ~frames[c][i].handler}) <= 2
               /\ \A i \in DOMAIN roots[c] : roots[c][i] \in {None, "open", "ended"}
               /\ left[c] \in 0..MaxWork /\ limbo[c] \in 0..1
    <2>1. PICK d \in 0..2, h \in 0..1 : Stacked(c, d, h) /\ Phase(c, d, h)
      BY DEF RootInv, RequestFields, RequestInv
    <2>2. Cardinality({i \in DOMAIN frames[c] : ~frames[c][i].handler}) = d
      BY <2>1, WrapperFrames DEF RootInv
    <2>3. todo[c] + d <= 2
      <3>1. PICK n \in 0..2 : n = Len(roots[c]) /\ d <= n
        BY <2>1 DEF Stacked
      <3>2. pc[c] \in PcNames /\ todo[c] \in Int
        BY DEF RootInv, Fields
      <3>3. todo[c] = 0 \/ d + todo[c] = Len(roots[c])
        BY <2>1, <3>2 DEF Phase, PcNames
      <3>4. PICK t \in Int : t = todo[c]
        BY <3>2
      <3>5. t = 0 \/ d + t = n
        <4>1. todo[c] = 0 => t = 0
          BY <3>4
        <4>2. d + todo[c] = Len(roots[c]) => d + t = n
          BY <3>1, <3>4
        <4> QED BY <3>1, <3>3, <4>1, <4>2
      <3>6. d <= n
        BY <3>1
      <3>7. t + d <= 2
        BY <3>5, <3>6
      <3> QED BY <3>4, <3>7
    <2>4. \A i \in DOMAIN roots[c] : roots[c][i] \in {None, "open", "ended"}
      BY DEF RootInv, Fields, RootStates
    <2>5. /\ served[c] \in Serving /\ ambient[c] \in {NoSpan, Leaked}
          /\ pc[c] \in {"idle", "entering", "app", "waiting", "suspended", "leaving"}
          /\ kind[c] \in {"http", "other"}
          /\ current[c] \in {NoSpan, Leaked, Root(1), Root(2)}
          /\ left[c] \in 0..MaxWork /\ limbo[c] \in 0..1
      BY DEF RootInv, Fields, PcNames, Calling, Contexts
    <2>6. markable[c] \in BOOLEAN /\ marker[c] \in BOOLEAN /\ failed[c] \in BOOLEAN
      BY DEF RootInv, Fields
    <2>7. {markable[c], marker[c], failed[c]} \subseteq BOOLEAN
      BY <2>6
    <2> QED BY <2>2, <2>3, <2>4, <2>5, <2>7
  <1>2. ASSUME NEW s \in Slots
        PROVE  /\ works[s].of \in Connections \cup {None}
               /\ works[s].worker \in {"gone", "queued", "running", "done"}
               /\ works[s].users \subseteq {"owner", "worker"}
               /\ works[s].awaited => pc[works[s].of] = "waiting"
    <2>1. works[s] \in WorkType
      BY DEF RootInv, HandoffInv
    <2>2. works[s].awaited => pc[works[s].of] = "waiting"
      BY DEF RootInv, WaitsOnce
    <2> QED BY <2>1, <2>2 DEF WorkType
  <1> QED BY <1>1, <1>2 DEF TypeOK

(* The innermost open root. *)
LEMMA Innermost ==
  ASSUME NEW c \in Connections, NEW i \in OpenRoots(c), OpenRoots(c) \subseteq 1..2,
         \A j \in OpenRoots(c) : j <= i
  PROVE  InnermostRoot(c) = i
  <1>1. \A k \in OpenRoots(c) : (\A j \in OpenRoots(c) : j <= k) => k = i
    <2> TAKE k \in OpenRoots(c)
    <2> HAVE \A j \in OpenRoots(c) : j <= k
    <2>1. i <= k /\ k <= i /\ i \in 1..2 /\ k \in 1..2
      OBVIOUS
    <2> QED BY <2>1
  <1> QED BY <1>1 DEF InnermostRoot

LEMMA RootsFollow ==
  ASSUME RootInv, NEW c \in Connections
  PROVE  /\ pc[c] \in {"app", "waiting", "suspended"} =>
              /\ (kind[c] = "http" /\ ~failed[c]) => OpenRoots(c) # {}
              /\ (markable[c] \/ kind[c] = "other") => Cardinality(OpenRoots(c)) <= 1
              /\ OpenRoots(c) # {} => current[c] = Root(InnermostRoot(c))
              /\ OpenRoots(c) = {} => current[c] = ambient[c] /\ events[c] = <<>>
         /\ Cardinality({i \in DOMAIN events[c] : events[c][i] = HandlerEvent}) <= 1
         /\ pc[c] = "idle" => /\ OpenRoots(c) = {} /\ events[c] = <<>>
                              /\ Of(c).streams \/ current[c] = ambient[c]
  <1>1. PICK d \in 0..2, h \in 0..1 :
          Stacked(c, d, h) /\ EventsOpen(c, d, h) /\ Phase(c, d, h) /\ Marked(c, d)
    BY DEF RootInv, RequestFields, RequestInv
  <1>2. PICK a \in 0..1, b \in 0..1, k \in 0..1 :
          /\ EventsAre(events[c], a, b, k)
          /\ a = 1 <=> d >= 1 /\ frames[c][1].event
          /\ b = 1 <=> d = 2 /\ frames[c][2].event
          /\ k = 1 <=> h = 1 /\ frames[c][d + 1].event
    BY <1>1 DEF EventsOpen
  <1>3. PICK n \in 0..2 : n = Len(roots[c]) /\ d <= n
    BY <1>1 DEF Stacked
  <1>4. /\ \A i \in 1..n : i > d => roots[c][i] # "open"
        /\ \A i \in 1..d : WrapperFrame(c, i)
        /\ h = 1 => HandlerFrame(c, d + 1)
    BY <1>1, <1>3 DEF Stacked
  <1>5. OpenRoots(c) = {i \in 1..n : roots[c][i] = "open"}
    <2>1. DOMAIN roots[c] = 1..n
      BY <1>3 DEF RootInv, Fields
    <2> QED BY <2>1 DEF OpenRoots
  <1>6. IsOpen(c) <=> OpenRoots(c) # {}
    BY <1>3, <1>5 DEF IsOpen
  <1>7. OpenRoots(c) \subseteq 1..2 /\ OpenRoots(c) \subseteq 1..d
    BY <1>3, <1>4, <1>5
  <1>8. ASSUME OpenRoots(c) = {} PROVE events[c] = <<>> /\ Held(c, d) = ambient[c]
    <2>1. a = 0 /\ b = 0 /\ k = 0
      <3>1. \A i \in 1..d : ~frames[c][i].event
        BY <1>3, <1>4, <1>5, <1>8 DEF WrapperFrame
      <3>2. h = 1 => ~frames[c][d + 1].event
        BY <1>4, <1>6, <1>8 DEF HandlerFrame
      <3> QED BY <1>2, <3>1, <3>2
    <2>2. events[c] \in Seq(EventNames) /\ Len(events[c]) = 0
      BY <1>2, <2>1 DEF EventsAre
    <2>3. events[c] = <<>>
      BY <2>2, EmptySeq
    <2>4. Held(c, d) = ambient[c]
      BY <1>3, <1>5, <1>8 DEF Held
    <2> QED BY <2>3, <2>4
  <1>9. ASSUME OpenRoots(c) # {} PROVE Held(c, d) = Root(InnermostRoot(c))
    <2>1. CASE d = 2 /\ 2 \in OpenRoots(c)
      <3>1. InnermostRoot(c) = 2
        BY <1>7, <2>1, Innermost
      <3> QED BY <1>5, <2>1, <3>1 DEF Held
    <2>2. CASE ~(d = 2 /\ 2 \in OpenRoots(c))
      <3>1. 1 \in OpenRoots(c) /\ d >= 1 /\ \A j \in OpenRoots(c) : j <= 1
        BY <1>7, <1>9, <2>2
      <3>2. InnermostRoot(c) = 1
        BY <1>7, <3>1, Innermost
      <3>3. ~(d = 2 /\ roots[c][2] = "open") /\ roots[c][1] = "open"
        BY <1>3, <1>5, <2>2, <3>1
      <3> QED BY <3>1, <3>2, <3>3 DEF Held
    <2> QED BY <2>1, <2>2
  <1>10. ASSUME pc[c] \in Calling, markable[c] \/ kind[c] = "other"
         PROVE  Cardinality(OpenRoots(c)) <= 1
    <2>1. \A i, j \in OpenRoots(c) : i = j
      <3>1. CASE kind[c] = "other"
        BY <1>1, <1>6, <1>10, <3>1 DEF Marked
      <3>2. CASE markable[c]
        <4>1. n = 2 => ~(roots[c][1] = "open" /\ roots[c][2] = "open")
          BY <1>1, <1>3, <1>10, <3>2 DEF Marked
        <4> QED BY <1>5, <4>1
      <3> QED BY <1>10, <3>1, <3>2
    <2>2. CASE OpenRoots(c) = {}
      BY <2>2, FS_EmptySet
    <2>3. CASE OpenRoots(c) # {}
      <3>1. PICK i \in OpenRoots(c) : OpenRoots(c) = {i}
        BY <2>1, <2>3
      <3>2. Cardinality(OpenRoots(c)) = 1
        BY <3>1, FS_Singleton
      <3> QED BY <3>2
    <2> QED BY <2>2, <2>3
  <1>11. ASSUME pc[c] \in Calling
         PROVE  /\ (kind[c] = "http" /\ ~failed[c]) => OpenRoots(c) # {}
                /\ current[c] = Held(c, d)
    BY <1>1, <1>6, <1>11 DEF Marked, Phase, Calling
  <1>12. ASSUME pc[c] = "idle"
         PROVE  /\ OpenRoots(c) = {} /\ events[c] = <<>>
                /\ Of(c).streams \/ current[c] = ambient[c]
    <2>1. d = 0 /\ (current[c] = Held(c, d) \/ Of(c).streams)
      BY <1>1, <1>12 DEF Phase
    <2>2. OpenRoots(c) = {}
      BY <1>7, <2>1
    <2> QED BY <1>8, <2>1, <2>2
  <1>13. Cardinality({i \in DOMAIN events[c] : events[c][i] = HandlerEvent}) <= 1
    BY <1>2, OneHandlerEvent
  <1> QED BY <1>8, <1>9, <1>10, <1>11, <1>12, <1>13 DEF Calling

(* A request has one root span while its application runs, or one per      *)
(* wrapper when it carries no mark, whatever leaked into its context; that *)
(* root is current, its handler has one event, and the context is put back *)
(* (the ASGI, aiohttp, tornado and gRPC wrappers).  For any number of      *)
(* connections, and every set of the servers.                              *)
THEOREM RequestsHaveTheirRoot == Spec => []RequestHasItsRoot
  <1>1. RootInv => RequestHasItsRoot
    BY TypesHold, RootsFollow DEF RequestHasItsRoot
  <1> QED BY <1>1, InitHasRoots, NextHasRoots, PTL DEF Spec
-----------------------------------------------------------------------------
(* Threads, requests and streamed bodies: WsgiRequest *)

(* A value of _current_span under which current_span() is None.            *)
Spent(b) == b = NoBinding \/ Ended(b)

Pulling == {"step", "close", "finalize", "end"}

(* What a request's code finds in its context while the body is pulled:    *)
(* the response span, a span that the body has entered on this very        *)
(* thread, or nothing, after another body was collected here.              *)
Astray(t)   == lost[job[t]] /\ Spent(ctx[t])
OwnChild(t) == ctx[t] = Binding("child", job[t], t)
OwnUser(t)  == /\ ctx[t] = Binding("user", job[t], t)
               /\ scope[job[t]] # NoScope /\ scope[job[t]].thread = t

ThreadInv(t) ==
  /\ t \in Mounted => at[t] = "idle" /\ ctx[t] = Inherited(t)
  /\ t \notin Mounted /\ at[t] = "idle" => Spent(ctx[t])
  /\ at[t] # "idle" => Spent(token[t])
  /\ at[t] = "app" => /\ stage[job[t]] = "call"
                      /\ ctx[t] = Binding("root", job[t], t) \/ Astray(t)
  /\ at[t] \in Pulling => /\ stage[job[t]] = "body"
                          /\ OwnChild(t) \/ OwnUser(t) \/ Astray(t)
  /\ at[t] = "step" => ~body[job[t]].done
  /\ at[t] = "end" => body[job[t]].done

Unserved(r) == /\ root[r] = "none" /\ child[r] = "none" /\ opened[r] = 0
            /\ ~status[r] /\ counted[r] = 0
            /\ body[r] = NoBody /\ scope[r] = NoScope

InTheCall(r) == /\ root[r] = "open" /\ child[r] = "none" /\ counted[r] = 0
                /\ body[r] = NoBody /\ scope[r] = NoScope

(* The child of a streamed body is open until the latch is taken, and a    *)
(* status is counted by the span that end_span was chosen for.             *)
Streams(r) ==
  /\ root[r] = "ended" /\ child[r] \in {"open", "null", "ended"}
  /\ counted[r] <= 1
  /\ ~body[r].late => status[r] /\ counted[r] = 1
  /\ body[r].late /\ child[r] = "open" => counted[r] = 0
  /\ body[r].late /\ child[r] = "ended" /\ status[r] /\ ~exiting
       => counted[r] = 1
  /\ ~body[r].done /\ ~exiting => child[r] # "ended"
  /\ child[r] = "open" /\ ~body[r].armed
       => \E t \in Threads : job[t] = r /\ at[t] = "end"

Finished(r) ==
  /\ counted[r] <= 1
  /\ status[r] /\ child[r] # "null" /\ ~exiting => counted[r] = 1
  /\ body[r] = NoBody /\ scope[r] = NoScope

(* A span that a body has entered gives back the response span, or a value *)
(* that is spent when the context was taken from the request before.       *)
ScopeInv(r) ==
  scope[r] # NoScope =>
    /\ child[r] \in {"open", "ended"}
    /\ scope[r].thread \in Threads \ Mounted
    /\ \/ scope[r].restores = Binding("child", r, scope[r].thread)
       \/ lost[r] /\ Spent(scope[r].restores)

ServedInv(r) ==
  /\ stage[r] = "new" => Unserved(r)
  /\ stage[r] = "call" => InTheCall(r)
  /\ stage[r] \in {"body", "dropped"} => Streams(r)
  /\ stage[r] = "over" => Finished(r)
  /\ ScopeInv(r)
  /\ opened[r] <= 1 \/ lost[r]

(* One thread at a time works for a request. *)
OneWorker == \A t, u \in Threads : at[t] # "idle" /\ job[t] = job[u] => t = u

WsgiInv == /\ WsgiTypeOK /\ OneWorker
           /\ \A t \in Threads : ThreadInv(t)
           /\ \A r \in Requests : ServedInv(r)

-----------------------------------------------------------------------------
(* A step touches one thread and one request, and what it does to the rest *)
(* does not bring an ended span back.                                      *)

SameThread(t) == /\ ctx'[t] = ctx[t] /\ at'[t] = at[t]
                 /\ job'[t] = job[t] /\ token'[t] = token[t]

SameRequest(r) ==
  /\ stage'[r] = stage[r] /\ opened'[r] = opened[r] /\ root'[r] = root[r]
  /\ child'[r] = child[r] /\ status'[r] = status[r]
  /\ counted'[r] = counted[r] /\ body'[r] = body[r] /\ scope'[r] = scope[r]

Monotone ==
  /\ \A q \in Requests : /\ root[q] = "ended" => root'[q] = "ended"
                         /\ child[q] = "ended" => child'[q] = "ended"
                         /\ lost[q] => lost'[q]
  /\ exiting => exiting'

Touches(t, r) ==
  /\ Monotone
  /\ \A u \in Threads : u # t => SameThread(u)
  /\ \A q \in Requests : q # r => SameRequest(q)
  /\ t \in Threads => \/ job[t] \in {Nobody, r}
                      \/ at'[t] = at[t] /\ job'[t] = job[t]

Local(t, r) == /\ Touches(t, r)
               /\ \A u \in Threads : u # t /\ at[u] # "idle" => job[u] # r

LEMMA SpentStays ==
  ASSUME NEW b \in Bindings, WsgiTypeOK, Monotone, Spent(b)
  PROVE  Spent(b)'
  BY DEF Bindings, Spent, Ended, Monotone, Binding, NoBinding, WsgiTypeOK

(* A spent value stays spent where it is copied to. *)
LEMMA StaysSpent ==
  ASSUME NEW t \in Threads, WsgiTypeOK, Monotone
  PROVE  /\ ctx'[t] = ctx[t] /\ Spent(ctx[t]) => Spent(ctx[t])'
         /\ token'[t] = token[t] /\ Spent(token[t]) => Spent(token[t])'
         /\ token'[t] = ctx[t] /\ Spent(ctx[t]) => Spent(token[t])'
         /\ ctx'[t] = token[t] /\ Spent(token[t]) => Spent(ctx[t])'
  <1>1. PICK b \in Bindings, c \in Bindings : b = ctx[t] /\ c = token[t]
    BY DEF WsgiTypeOK
  <1>2. /\ Spent(b) => Spent(b)'
        /\ Spent(c) => Spent(c)'
    BY SpentStays
  <1>3. \A x, y \in Bindings :
          /\ ctx'[t] = x /\ Spent(x)' => Spent(ctx[t])'
          /\ token'[t] = y /\ Spent(y)' => Spent(token[t])'
    OBVIOUS
  <1> QED BY <1>1, <1>2, <1>3

LEMMA ScopeStaysSpent ==
  ASSUME NEW r \in Requests, WsgiTypeOK, Monotone, scope[r] # NoScope,
         scope'[r] = scope[r], Spent(scope[r].restores)
  PROVE  Spent(scope[r].restores)'
  <1>1. PICK b \in Bindings : b = scope[r].restores
    BY DEF WsgiTypeOK
  <1>2. Spent(b)'
    BY <1>1, SpentStays
  <1> QED BY <1>1, <1>2

(* The threads that a step does not touch keep their invariant. *)
LEMMA OtherThreads ==
  ASSUME NEW t, NEW r, WsgiInv, Local(t, r),
         NEW u \in Threads, u # t
  PROVE  ThreadInv(u)'
  <1>1. /\ ThreadInv(u) /\ WsgiTypeOK /\ Monotone /\ SameThread(u)
        /\ ctx[u] \in Bindings /\ token[u] \in Bindings
        /\ at[u] = "idle" <=> job[u] = Nobody
    BY DEF WsgiInv, Local, Touches, WsgiTypeOK
  <1>2. /\ Spent(ctx[u]) => Spent(ctx[u])'
        /\ Spent(token[u]) => Spent(token[u])'
    BY <1>1, StaysSpent DEF SameThread
  <1>3. CASE at[u] = "idle"
    BY <1>1, <1>2, <1>3 DEF ThreadInv, SameThread, Pulling, Inherited
  <1>4. CASE at[u] # "idle"
    <2>1. job[u] \in Requests /\ job[u] # r
      BY <1>1, <1>4 DEF Local, WsgiTypeOK
    <2>2. SameRequest(job[u]) /\ (lost[job[u]] => lost'[job[u]])
      BY <2>1 DEF Local, Touches, Monotone
    <2> QED BY <1>1, <1>2, <1>4, <2>1, <2>2
            DEF ThreadInv, SameThread, SameRequest, Pulling, OwnChild, OwnUser,
                Astray
  <1> QED BY <1>3, <1>4

(* And so do the requests. *)
LEMMA OtherRequests ==
  ASSUME NEW t, NEW r, WsgiInv, Touches(t, r),
         NEW q \in Requests, q # r
  PROVE  ServedInv(q)'
  <1>1. /\ ServedInv(q) /\ WsgiTypeOK /\ Monotone /\ SameRequest(q)
        /\ exiting => exiting'
        /\ lost[q] => lost'[q]
    BY DEF WsgiInv, Touches, Monotone
  <1>2. ScopeInv(q)'
    <2>1. SUFFICES ASSUME scope[q] # NoScope
                   PROVE  ScopeInv(q)'
      BY <1>1 DEF SameRequest, ScopeInv
    <2>2. Spent(scope[q].restores) => Spent(scope[q].restores)'
      BY <1>1, <2>1, ScopeStaysSpent DEF SameRequest
    <2> QED BY <1>1, <2>2 DEF ServedInv, ScopeInv, SameRequest
  <1>3. ASSUME NEW u \in Threads, job[u] = q, at[u] = "end"
        PROVE  job'[u] = q /\ at'[u] = "end"
    BY <1>3, RequestAssumption DEF Touches, SameThread
  <1>4. (\E u \in Threads : job[u] = q /\ at[u] = "end")
           => \E u \in Threads : job'[u] = q /\ at'[u] = "end"
    BY <1>3
  <1>5. /\ Unserved(q) => Unserved(q)'
        /\ InTheCall(q) => InTheCall(q)'
        /\ Finished(q) => Finished(q)'
    BY <1>1 DEF Unserved, InTheCall, Finished, SameRequest
  <1>6. Streams(q) => Streams(q)'
    BY <1>1, <1>4 DEF Streams, SameRequest
  <1> QED BY <1>1, <1>2, <1>5, <1>6 DEF ServedInv, SameRequest

(* So it is enough to look at the thread and the request of the step. *)
LEMMA LocalStep ==
  ASSUME NEW t, NEW r, WsgiInv, Local(t, r), WsgiTypeOK', OneWorker',
         t \in Threads => ThreadInv(t)', r \in Requests => ServedInv(r)'
  PROVE  WsgiInv'
  <1>1. \A u \in Threads : ThreadInv(u)'
    BY OtherThreads
  <1>2. \A q \in Requests : ServedInv(q)'
    BY OtherRequests DEF Local
  <1> QED BY <1>1, <1>2 DEF WsgiInv

-----------------------------------------------------------------------------
(* The middleware before and around the application *)

LEMMA NewIsUnused ==
  ASSUME NEW r \in Requests, WsgiInv, stage[r] \in {"new", "over", "dropped"}
  PROVE  \A u \in Threads : job[u] # r
  <1> SUFFICES ASSUME NEW u \in Threads, job[u] = r
               PROVE  FALSE
    OBVIOUS
  <1>1. WsgiTypeOK /\ ThreadInv(u)
    BY DEF WsgiInv
  <1>2. at[u] \in {"app"} \cup Pulling
    BY <1>1, RequestAssumption DEF WsgiTypeOK, Pulling
  <1>3. stage[r] \in {"call", "body"}
    BY <1>1, <1>2 DEF ThreadInv
  <1> QED BY <1>3

LEMMA PassThroughKeeps ==
  ASSUME NEW t \in Threads, NEW r \in Requests, WsgiInv, WsgiPassThrough(t, r)
  PROVE  WsgiInv'
  <1> USE DEF WsgiPassThrough, threads, spans
  <1>1. WsgiTypeOK /\ ThreadInv(t) /\ ServedInv(r) /\ OneWorker
    BY DEF WsgiInv
  <1>2. WsgiTypeOK'
    BY <1>1 DEF WsgiTypeOK, Stage
  <1>3. \A u \in Threads : job[u] # r
    BY NewIsUnused
  <1>4. Local(t, r)
    BY <1>1, <1>3 DEF Local, Touches, Monotone, SameThread, SameRequest,
           WsgiTypeOK, Stage
  <1>5. OneWorker'
    BY <1>1 DEF OneWorker
  <1>6. ThreadInv(t)'
    BY <1>1 DEF ThreadInv, Pulling, Spent, Ended, Inherited
  <1>7. ServedInv(r)'
    BY <1>1 DEF ServedInv, Unserved, Finished, ScopeInv, Stage, WsgiTypeOK
  <1> QED BY <1>2, <1>4, <1>5, <1>6, <1>7, LocalStep

LEMMA SetUpFailsKeeps ==
  ASSUME NEW t \in Threads, NEW r \in Requests, WsgiInv, WsgiSetUpFails(t, r)
  PROVE  WsgiInv'
  <1> USE DEF WsgiSetUpFails, threads
  <1>1. WsgiTypeOK /\ ThreadInv(t) /\ ServedInv(r) /\ OneWorker
    BY DEF WsgiInv
  <1>2. WsgiTypeOK'
    BY <1>1 DEF WsgiTypeOK, Stage, One
  <1>3. \A u \in Threads : job[u] # r
    BY NewIsUnused
  <1>4. Local(t, r)
    BY <1>1, <1>3 DEF Local, Touches, Monotone, SameThread, SameRequest,
           WsgiTypeOK,
                      Stage, ServedInv, Unserved
  <1>5. OneWorker'
    BY <1>1 DEF OneWorker
  <1>6. ThreadInv(t)'
    <2>1. Spent(ctx[t]) => Spent(ctx[t])'
      BY <1>1, <1>4, StaysSpent DEF Local, Touches
    <2> QED BY <1>1, <2>1 DEF ThreadInv, Pulling, Inherited
  <1>7. ServedInv(r)'
    BY <1>1 DEF ServedInv, Unserved, Finished, ScopeInv, Stage, WsgiTypeOK, One
  <1> QED BY <1>2, <1>4, <1>5, <1>6, <1>7, LocalStep

LEMMA BeginKeeps ==
  ASSUME NEW t \in Threads, NEW r \in Requests, WsgiInv, Begin(t, r)
  PROVE  WsgiInv'
  <1> USE DEF Begin, Stage, Goes
  <1>1. WsgiTypeOK /\ ThreadInv(t) /\ ServedInv(r) /\ OneWorker
    BY DEF WsgiInv
  <1>2. Unserved(r) /\ job[t] = Nobody /\ t \notin Mounted /\ Spent(ctx[t])
    <2>1. t \in Mounted => Visible(t)
      BY <1>1 DEF ThreadInv, Inherited, Visible, Ended, Binding, NoBinding
    <2> QED BY <1>1, <2>1 DEF ServedInv, WsgiTypeOK, ThreadInv, IsNested
  <1>3. WsgiTypeOK'
    BY <1>1, <1>2, RequestAssumption
       DEF WsgiTypeOK, Unserved, Bindings, Binding
  <1>4. \A u \in Threads : job[u] # r
    BY NewIsUnused
  <1>5. Local(t, r)
    BY <1>1, <1>2, <1>4 DEF Local, Touches, Monotone, SameThread, SameRequest,
                            WsgiTypeOK, Unserved
  <1>6. OneWorker'
    BY <1>1, <1>4 DEF OneWorker, WsgiTypeOK
  <1>7. ThreadInv(t)'
    <2>1. token'[t] = ctx[t]
      BY <1>1 DEF WsgiTypeOK
    <2>2. Spent(token[t])'
      BY <1>1, <1>2, <1>5, <2>1, StaysSpent DEF Local, Touches
    <2>3. /\ at'[t] = "app" /\ job'[t] = r /\ stage'[r] = "call"
          /\ ctx'[t] = Binding("root", r, t)
      BY <1>1 DEF WsgiTypeOK
    <2> QED BY <1>2, <2>2, <2>3 DEF ThreadInv, Pulling
  <1>8. ServedInv(r)'
    BY <1>1, <1>2 DEF ServedInv, Unserved, InTheCall, ScopeInv, WsgiTypeOK
  <1> QED BY <1>3, <1>5, <1>6, <1>7, <1>8, LocalStep

-----------------------------------------------------------------------------
(* Code of the application *)

(* What is known of the request of a thread that is in a call. *)
LEMMA InACall ==
  ASSUME NEW t \in Threads, WsgiInv, at[t] # "idle"
  PROVE  /\ job[t] \in Requests /\ t \notin Mounted /\ Spent(token[t])
         /\ \A u \in Threads : u # t => job[u] # job[t]
         /\ at[t] = "app" => /\ stage[job[t]] = "call" /\ InTheCall(job[t])
                             /\ ctx[t] = Binding("root", job[t], t) \/ Astray(t)
         /\ at[t] \in Pulling => /\ stage[job[t]] = "body" /\ Streams(job[t])
                                 /\ OwnChild(t) \/ OwnUser(t) \/ Astray(t)
  <1>1. WsgiTypeOK /\ OneWorker /\ ThreadInv(t)
    BY DEF WsgiInv
  <1>2. job[t] \in Requests
    BY <1>1 DEF WsgiTypeOK
  <1>3. ServedInv(job[t])
    BY <1>2 DEF WsgiInv
  <1> QED BY <1>1, <1>2, <1>3 DEF ThreadInv, OneWorker, ServedInv

LEMMA StartResponseKeeps ==
  ASSUME NEW t \in Threads, WsgiInv, StartResponse(t)
  PROVE  WsgiInv'
  <1> USE DEF StartResponse, threads
  <1>1. PICK r \in Requests : r = job[t]
    BY InACall
  <1>2. WsgiTypeOK /\ ThreadInv(t) /\ ServedInv(r) /\ OneWorker
    BY DEF WsgiInv
  <1>3. WsgiTypeOK'
    BY <1>1, <1>2 DEF WsgiTypeOK
  <1>4. Local(t, r)
    BY <1>1, <1>2, InACall
    DEF Local, Touches, Monotone, SameThread, SameRequest, WsgiTypeOK
  <1>5. OneWorker'
    BY <1>2 DEF OneWorker
  <1>6. ThreadInv(t)'
    <2>1. /\ Spent(ctx[t]) => Spent(ctx[t])'
          /\ Spent(token[t]) => Spent(token[t])'
      BY <1>2, <1>4, StaysSpent DEF Local, Touches
    <2> QED BY <1>2, <2>1
            DEF ThreadInv, Pulling, OwnChild, OwnUser, Astray
  <1>7. ServedInv(r)'
    <2>1. ScopeInv(r)'
      BY <1>2, <1>4, ScopeStaysSpent DEF ServedInv, ScopeInv, Local, Touches
    <2>2. CASE at[t] = "app"
      BY <1>1, <1>2, <2>1, <2>2, InACall DEF ServedInv, InTheCall
    <2>3. CASE at[t] = "step"
      <3>1. ~body[r].done
        BY <1>1, <1>2, <2>3 DEF ThreadInv
      <3>2. Streams(r)'
        BY <1>1, <1>2, <2>3, <3>1, InACall DEF Streams, WsgiTypeOK, Pulling
      <3> QED BY <1>1, <1>2, <2>1, <2>3, <3>2, InACall DEF ServedInv, Pulling
    <2> QED BY <2>2, <2>3
  <1> QED BY <1>3, <1>4, <1>5, <1>6, <1>7, LocalStep

(* Code that runs for a request sees its span, or is known to be astray.   *)
LEMMA SeesItsSpan ==
  ASSUME NEW t \in Threads, WsgiInv, at[t] # "idle"
  PROVE  /\ Visible(t) => ctx[t].of = job[t]
         /\ at[t] = "app" /\ ~lost[job[t]] => Visible(t)
         /\ at[t] = "step" /\ ~exiting /\ ~lost[job[t]] => Visible(t)
         /\ at[t] = "step" /\ child[job[t]] = "open" /\ ~lost[job[t]]
              => Records(t)
  <1>1. ThreadInv(t) /\ WsgiTypeOK
    BY DEF WsgiInv
  <1>2. Astray(t) => ~Visible(t) /\ lost[job[t]]
    BY DEF Astray, Spent, Visible
  <1>3. OwnUser(t) => Visible(t) /\ ctx[t].of = job[t] /\ ctx[t].thread = t
    BY DEF OwnUser, Visible, Binding, NoBinding, Ended
  <1>4. OwnChild(t) => /\ ctx[t].of = job[t] /\ ctx[t].thread = t
                       /\ child[job[t]] # "ended" => Visible(t)
    BY DEF OwnChild, Visible, Binding, NoBinding, Ended
  <1>5. CASE at[t] = "app"
    <2>1. ctx[t] = Binding("root", job[t], t)
             => ctx[t].of = job[t] /\ Visible(t)
      BY <1>5, InACall DEF InTheCall, Visible, Binding, NoBinding, Ended
    <2> QED BY <1>2, <1>5, <2>1, InACall
  <1>6. CASE at[t] \in Pulling
    <2>1. OwnChild(t) \/ OwnUser(t) \/ Astray(t)
      BY <1>6, InACall
    <2>2. at[t] = "step" /\ ~exiting => child[job[t]] # "ended"
      BY <1>1, <1>6, InACall DEF ThreadInv, Streams
    <2> QED BY <1>2, <1>3, <1>4, <1>6, <2>1, <2>2 DEF Records, Pulling
  <1> QED BY <1>1, <1>5, <1>6 DEF WsgiTypeOK, Pulling

(* A layer inside is found to be nested, unless the request lost its span. *)
LEMMA CallInnerKeeps ==
  ASSUME NEW t \in Threads, WsgiInv, CallInner(t)
  PROVE  WsgiInv'
  <1> USE DEF CallInner, threads
  <1>1. PICK r \in Requests : r = job[t]
    BY InACall
  <1>2. WsgiTypeOK /\ ThreadInv(t) /\ ServedInv(r) /\ OneWorker
    BY DEF WsgiInv
  <1>3. PICK n \in 0..2 : /\ opened' = [opened EXCEPT ![r] = n]
                          /\ n <= 1 \/ lost[r]
    <2>1. PICK same \in BOOLEAN :
            opened' = [opened EXCEPT ![r] =
                         @ + One(~IsNested(t, same /\ marked[r]))]
      BY <1>1
    <2>2. opened[r] \in 0..1
      BY <1>1, <1>2 DEF WsgiTypeOK
    <2>3. PICK m \in 0..1 : m = One(~IsNested(t, same /\ marked[r]))
      BY DEF One
    <2>4. ~lost[r] => m = 0
      BY <1>1, <2>3, SeesItsSpan DEF One, IsNested
    <2>5. opened' = [opened EXCEPT ![r] = opened[r] + m]
      BY <2>1, <2>3
    <2> HIDE DEF CallInner
    <2>6. opened[r] + m \in 0..2 /\ (m = 0 => opened[r] + m <= 1)
      BY <2>2
    <2> QED BY <2>4, <2>5, <2>6
  <1>4. WsgiTypeOK'
    BY <1>2, <1>3 DEF WsgiTypeOK
  <1>5. Local(t, r)
    BY <1>1, <1>2, <1>3, InACall
       DEF Local, Touches, Monotone, SameThread, SameRequest,
           WsgiTypeOK
  <1>6. OneWorker'
    BY <1>2 DEF OneWorker
  <1>7. ThreadInv(t)'
    <2>1. /\ Spent(ctx[t]) => Spent(ctx[t])'
          /\ Spent(token[t]) => Spent(token[t])'
      BY <1>2, <1>5, StaysSpent DEF Local, Touches
    <2> QED BY <1>2, <2>1
            DEF ThreadInv, Pulling, OwnChild, OwnUser, Astray
  <1>8. ServedInv(r)'
    <2>4. opened'[r] <= 1 \/ lost[r]
      BY <1>2, <1>3 DEF WsgiTypeOK
    <2>1. ScopeInv(r)'
      BY <1>2, <1>5, ScopeStaysSpent DEF ServedInv, ScopeInv, Local, Touches
    <2>2. stage[r] \in {"call", "body"}
      BY <1>1, InACall DEF Pulling
    <2>3. /\ InTheCall(r) => InTheCall(r)'
          /\ Streams(r) => Streams(r)'
      BY DEF InTheCall, Streams
    <2> QED BY <1>2, <2>1, <2>2, <2>3, <2>4 DEF ServedInv
  <1> QED BY <1>4, <1>5, <1>6, <1>7, <1>8, LocalStep

(* A body enters a span: what it gives back later is the response span, or *)
(* spent.                                                                  *)
LEMMA EnterScopeKeeps ==
  ASSUME NEW t \in Threads, WsgiInv, EnterScope(t)
  PROVE  WsgiInv'
  <1> USE DEF EnterScope, spans
  <1>1. PICK r \in Requests : r = job[t]
    BY InACall
  <1>2. WsgiTypeOK /\ ThreadInv(t) /\ ServedInv(r) /\ OneWorker
    BY DEF WsgiInv
  <1>3. PICK b \in Bindings : b = ctx[t]
    BY <1>2 DEF WsgiTypeOK
  <1>4. /\ scope' = [scope EXCEPT ![r] = [thread |-> t, restores |-> b]]
        /\ ctx' = [ctx EXCEPT ![t] = Binding("user", r, t)]
    BY <1>1, <1>3
  <1>5. t \notin Mounted /\ stage[r] = "body" /\ Streams(r)
    BY <1>1, InACall DEF Pulling
  <1>6. b = Binding("child", r, t) \/ (lost[r] /\ Spent(b))
    BY <1>1, <1>3, InACall DEF Pulling, OwnChild, OwnUser, Astray
  <1>7. WsgiTypeOK'
    <2>1. Binding("user", r, t) \in Bindings
      BY DEF Binding, Bindings
    <2>2. [thread |-> t, restores |-> b]
            \in [thread : Threads, restores : Bindings]
      OBVIOUS
    <2> QED BY <1>2, <1>4, <2>1, <2>2 DEF WsgiTypeOK
  <1>8. Local(t, r)
    BY <1>1, <1>2, InACall
    DEF Local, Touches, Monotone, SameThread, SameRequest, WsgiTypeOK
  <1>9. OneWorker'
    BY <1>2 DEF OneWorker
  <1>10. ThreadInv(t)'
    <2>1. Spent(token[t]) => Spent(token[t])'
      BY <1>2, <1>8, StaysSpent DEF Local, Touches
    <2>2. OwnUser(t)'
      <3>1. scope'[r] = [thread |-> t, restores |-> b]
        BY <1>2, <1>4 DEF WsgiTypeOK
      <3>2. scope'[r] # NoScope
        BY <3>1, RequestAssumption DEF NoScope
      <3> QED BY <1>1, <1>2, <1>4, <3>1, <3>2 DEF OwnUser, WsgiTypeOK
    <2> QED BY <1>1, <1>2, <1>5, <2>1, <2>2 DEF ThreadInv, Pulling
  <1>11. ServedInv(r)'
    <2>1. scope'[r].thread = t /\ scope'[r].restores = b
      BY <1>2, <1>4 DEF WsgiTypeOK
    <2>2. Spent(b) => Spent(b)'
      BY <1>2, <1>8, SpentStays DEF Local, Touches
    <2>3. Spent(b) => Spent(scope[r].restores)'
      BY <2>1, <2>2
    <2>4. ScopeInv(r)'
      BY <1>1, <1>5, <1>6, <2>1, <2>3 DEF ScopeInv, Streams
    <2>5. Streams(r)'
      BY <1>5 DEF Streams
    <2> QED BY <1>2, <1>5, <2>4, <2>5 DEF ServedInv
  <1> QED BY <1>7, <1>8, <1>9, <1>10, <1>11, LocalStep

LEMMA LeaveScopeKeeps ==
  ASSUME NEW t \in Threads, WsgiInv, LeaveScope(t)
  PROVE  WsgiInv'
  <1> USE DEF LeaveScope, spans
  <1>1. PICK r \in Requests : r = job[t]
    BY InACall
  <1>2. WsgiTypeOK /\ ThreadInv(t) /\ ServedInv(r) /\ OneWorker
    BY DEF WsgiInv
  <1>3. PICK b \in Bindings : b = AfterReset(t, scope[r])
    BY <1>1, <1>2 DEF WsgiTypeOK, AfterReset
  <1>4. /\ scope' = [scope EXCEPT ![r] = NoScope]
        /\ ctx' = [ctx EXCEPT ![t] = b]
    BY <1>1, <1>3
  <1>5. t \notin Mounted /\ stage[r] = "body" /\ Streams(r)
    BY <1>1, InACall DEF Pulling
  <1>6. b = Binding("child", r, t) \/ (lost[r] /\ Spent(b))
    <2>1. CASE scope[r].thread = t
      <3>1. b = scope[r].restores
        BY <1>3, <2>1 DEF AfterReset
      <3> QED BY <1>1, <1>2, <2>1, <3>1 DEF ServedInv, ScopeInv
    <2>2. CASE scope[r].thread # t
      <3>1. b = ctx[t]
        BY <1>3, <2>2 DEF AfterReset
      <3> QED BY <1>1, <2>2, <3>1, InACall
              DEF Pulling, OwnChild, OwnUser, Astray
    <2> QED BY <2>1, <2>2
  <1>7. WsgiTypeOK'
    BY <1>2, <1>4 DEF WsgiTypeOK
  <1>8. Local(t, r)
    BY <1>1, <1>2, InACall
    DEF Local, Touches, Monotone, SameThread, SameRequest, WsgiTypeOK
  <1>9. OneWorker'
    BY <1>2 DEF OneWorker
  <1>10. ThreadInv(t)'
    <2>1. Spent(token[t]) => Spent(token[t])'
      BY <1>2, <1>8, StaysSpent DEF Local, Touches
    <2>2. ctx'[t] = b
      BY <1>2, <1>4 DEF WsgiTypeOK
    <2>3. Spent(b) => Spent(b)'
      BY <1>2, <1>8, SpentStays DEF Local, Touches
    <2>4. Spent(b) => Spent(ctx[t])'
      BY <2>2, <2>3
    <2>5. OwnChild(t)' \/ Astray(t)'
      BY <1>1, <1>6, <2>2, <2>4 DEF OwnChild, Astray
    <2> QED BY <1>1, <1>2, <1>5, <2>1, <2>5 DEF ThreadInv, Pulling
  <1>11. ServedInv(r)'
    <2>1. ScopeInv(r)'
      BY <1>2, <1>4 DEF ScopeInv, WsgiTypeOK
    <2>2. Streams(r)'
      BY <1>5 DEF Streams
    <2> QED BY <1>2, <1>5, <2>1, <2>2 DEF ServedInv
  <1> QED BY <1>7, <1>8, <1>9, <1>10, <1>11, LocalStep

-----------------------------------------------------------------------------
(* The call returns *)

(* A thread that returns to the server finds what it had before.           *)
LEMMA LeavingIsClean ==
  ASSUME NEW t \in Threads, WsgiInv, at[t] # "idle", Monotone,
         ResetsToken(t), Leaves(t)
  PROVE  /\ ThreadInv(t)' /\ OneWorker'
         /\ ctx' \in [Threads -> Bindings] /\ token' \in [Threads -> Bindings]
         /\ at' \in [Threads -> {"idle"} \cup {"app"} \cup Pulling]
         /\ job' \in [Threads -> Requests \cup {Nobody}]
         /\ \A u \in Threads : at'[u] = "idle" <=> job'[u] = Nobody
         /\ \A u \in Threads : u # t => SameThread(u)
  <1> USE DEF ResetsToken, Leaves, Goes
  <1>1. WsgiTypeOK /\ ThreadInv(t) /\ OneWorker /\ t \notin Mounted
        /\ Spent(token[t])
    BY InACall DEF WsgiInv
  <1>2. ctx'[t] = token[t] /\ at'[t] = "idle" /\ job'[t] = Nobody
    BY <1>1 DEF WsgiTypeOK
  <1>3. Spent(ctx[t])'
    BY <1>1, <1>2, StaysSpent
  <1>4. ThreadInv(t)'
    BY <1>1, <1>2, <1>3 DEF ThreadInv, Pulling
  <1>5. NoBinding \in Bindings
    BY DEF Bindings
  <1>6. /\ ctx' \in [Threads -> Bindings] /\ token' \in [Threads -> Bindings]
        /\ at' \in [Threads -> {"idle"} \cup {"app"} \cup Pulling]
        /\ job' \in [Threads -> Requests \cup {Nobody}]
        /\ \A u \in Threads : at'[u] = "idle" <=> job'[u] = Nobody
    BY <1>1, <1>5 DEF WsgiTypeOK, Pulling
  <1>7. \A u \in Threads : u # t => SameThread(u)
    BY <1>1 DEF SameThread, WsgiTypeOK
  <1>8. OneWorker'
    BY <1>1 DEF OneWorker, WsgiTypeOK
  <1> QED BY <1>4, <1>6, <1>7, <1>8

LEMMA AppRaisesKeeps ==
  ASSUME NEW t \in Threads, WsgiInv, AppRaises(t)
  PROVE  WsgiInv'
  <1> USE DEF AppRaises, Stage, EndsRoot
  <1>1. PICK r \in Requests : r = job[t]
    BY InACall
  <1>2. WsgiTypeOK /\ ServedInv(r) /\ stage[r] = "call" /\ InTheCall(r)
    BY <1>1, InACall DEF WsgiInv
  <1>3. PICK n \in 0..1 : /\ counted' = [counted EXCEPT ![r] = n]
                          /\ status[r] => n = 1
    <2>1. PICK error \in BOOLEAN :
            counted' = [counted EXCEPT ![r] = @ + One(status[r] \/ error)]
      BY <1>1
    <2>2. PICK n \in 0..1 : n = One(status[r] \/ error)
      BY DEF One
    <2>3. status[r] => n = 1
      BY <2>2 DEF One
    <2>4. counted[r] + One(status[r] \/ error) = n
      BY <1>2, <2>2 DEF InTheCall
    <2> QED BY <2>1, <2>3, <2>4
  <1>4. Monotone
    BY <1>1, <1>2 DEF Monotone, WsgiTypeOK
  <1>5. Local(t, r)
    BY <1>1, <1>2, <1>3, <1>4, InACall, LeavingIsClean
       DEF Local, Touches, SameRequest, WsgiTypeOK
  <1>6. WsgiTypeOK'
    BY <1>1, <1>2, <1>3, <1>4, LeavingIsClean DEF WsgiTypeOK, Pulling
  <1>7. ServedInv(r)'
    BY <1>1, <1>2, <1>3
       DEF ServedInv, InTheCall, Finished, ScopeInv, WsgiTypeOK
  <1> QED BY <1>4, <1>5, <1>6, <1>7, LeavingIsClean, LocalStep

LEMMA ReturnsBufferedKeeps ==
  ASSUME NEW t \in Threads, WsgiInv, ReturnsBuffered(t)
  PROVE  WsgiInv'
  <1> USE DEF ReturnsBuffered, Stage, EndsRoot
  <1>1. PICK r \in Requests : r = job[t]
    BY InACall
  <1>2. WsgiTypeOK /\ ServedInv(r) /\ stage[r] = "call" /\ InTheCall(r)
    BY <1>1, InACall DEF WsgiInv
  <1>3. PICK n \in 0..1 : /\ counted' = [counted EXCEPT ![r] = n]
                          /\ status[r] => n = 1
    <2>1. PICK n \in 0..1 : n = One(status[r])
      BY DEF One
    <2>2. n = 1 <=> status[r]
      BY <2>1 DEF One
    <2>3. counted[r] + One(status[r]) = n
      BY <1>2, <2>1 DEF InTheCall
    <2>4. counted' = [counted EXCEPT ![r] = counted[r] + One(status[r])]
      BY <1>1
    <2> QED BY <2>2, <2>3, <2>4
  <1>4. Monotone
    BY <1>1, <1>2 DEF Monotone, WsgiTypeOK
  <1>5. Local(t, r)
    BY <1>1, <1>2, <1>3, <1>4, InACall, LeavingIsClean
       DEF Local, Touches, SameRequest, WsgiTypeOK
  <1>6. WsgiTypeOK'
    BY <1>1, <1>2, <1>3, <1>4, LeavingIsClean DEF WsgiTypeOK, Pulling
  <1>7. ServedInv(r)'
    BY <1>1, <1>2, <1>3
       DEF ServedInv, InTheCall, Finished, ScopeInv, WsgiTypeOK
  <1> QED BY <1>4, <1>5, <1>6, <1>7, LeavingIsClean, LocalStep

(* The root has counted a status that it knew; the child is told to count  *)
(* only one that it did not.                                               *)
LEMMA ReturnsStreamKeeps ==
  ASSUME NEW t \in Threads, WsgiInv, ReturnsStream(t)
  PROVE  WsgiInv'
  <1> USE DEF ReturnsStream, Stage, EndsRoot
  <1>1. PICK r \in Requests : r = job[t]
    BY InACall
  <1>2. WsgiTypeOK /\ ServedInv(r) /\ stage[r] = "call" /\ InTheCall(r)
    BY <1>1, InACall DEF WsgiInv
  <1>3. PICK n \in 0..1 : /\ counted' = [counted EXCEPT ![r] = n]
                          /\ n = 1 <=> status[r]
    <2>1. PICK n \in 0..1 : n = One(status[r])
      BY DEF One
    <2>2. n = 1 <=> status[r]
      BY <2>1 DEF One
    <2>3. counted[r] + One(status[r]) = n
      BY <1>2, <2>1 DEF InTheCall
    <2>4. counted' = [counted EXCEPT ![r] = counted[r] + One(status[r])]
      BY <1>1
    <2> QED BY <2>2, <2>3, <2>4
  <1>4. PICK b \in [late : BOOLEAN, done : BOOLEAN, armed : BOOLEAN,
                    pulls : 0..MaxPulls, closed : BOOLEAN] :
          /\ b = NewBody(r) /\ b.late = ~status[r]
          /\ b.armed = TRUE /\ b.done = FALSE
    <2>1. PICK l \in BOOLEAN : l = ChildReports(r)
      BY DEF ChildReports
    <2>2. NewBody(r) = [NoBody EXCEPT !.late = l, !.armed = TRUE]
      BY <2>1 DEF NewBody
    <2>3. NewBody(r) = [late |-> l, done |-> FALSE, armed |-> TRUE,
                        pulls |-> 0, closed |-> FALSE]
      BY <2>2 DEF NoBody
    <2>4. 0 \in 0..MaxPulls
      BY RequestAssumption
    <2>5. l = ~status[r]
      BY <2>1 DEF ChildReports
    <2> DEFINE nb == NewBody(r)
    <2>6. /\ nb \in [late : BOOLEAN, done : BOOLEAN, armed : BOOLEAN,
                     pulls : 0..MaxPulls, closed : BOOLEAN]
          /\ nb.late = l /\ nb.armed = TRUE /\ nb.done = FALSE
      BY <2>3, <2>4
    <2> HIDE DEF nb
    <2>7. nb.late = ~status[r]
      BY <2>5, <2>6, <1>2 DEF WsgiTypeOK
    <2>8. nb = NewBody(r)
      BY DEF nb
    <2> QED BY <2>6, <2>7, <2>8
  <1>5. PICK c \in {"none", "ended", "open", "null"} :
          /\ child' = [child EXCEPT ![r] = c]
          /\ \/ /\ c \in {"none", "ended"} /\ body' = body
                /\ stage' = [stage EXCEPT ![r] = "over"]
             \/ /\ c \in {"open", "null"}
                /\ body' = [body EXCEPT ![r] = b]
                /\ stage' = [stage EXCEPT ![r] = "body"]
    BY <1>1, <1>4
  <1>6. Monotone
    BY <1>1, <1>2, <1>5 DEF Monotone, WsgiTypeOK, InTheCall
  <1>7. Local(t, r)
    <2>1. \A q \in Requests : q # r => SameRequest(q)
      BY <1>1, <1>2, <1>3, <1>5 DEF SameRequest, WsgiTypeOK
    <2> QED BY <1>1, <1>2, <1>6, <2>1, InACall, LeavingIsClean
            DEF Local, Touches
  <1>8. WsgiTypeOK'
    <2>1. /\ ctx' \in [Threads -> Bindings] /\ token' \in [Threads -> Bindings]
          /\ at' \in [Threads -> {"idle", "app", "step", "close",
                                  "finalize", "end"}]
          /\ job' \in [Threads -> Requests \cup {Nobody}]
          /\ \A u \in Threads : at'[u] = "idle" <=> job'[u] = Nobody
      BY <1>6, LeavingIsClean DEF Pulling
    <2>2. body' \in [Requests -> [late : BOOLEAN, done : BOOLEAN,
                                  armed : BOOLEAN, pulls : 0..MaxPulls,
                                  closed : BOOLEAN]]
      <3>1. body \in [Requests -> [late : BOOLEAN, done : BOOLEAN,
                                   armed : BOOLEAN, pulls : 0..MaxPulls,
                                   closed : BOOLEAN]]
        BY <1>2 DEF WsgiTypeOK
      <3>2. body' = body \/ body' = [body EXCEPT ![r] = b]
        BY <1>5
      <3> QED BY <3>1, <3>2
    <2>4. /\ stage' \in [Requests -> {"new", "call", "body", "dropped", "over"}]
          /\ child' \in [Requests -> {"none", "open", "null", "ended"}]
      BY <1>2, <1>5 DEF WsgiTypeOK
    <2>3. /\ counted' \in [Requests -> 0..2]
          /\ root' \in [Requests -> {"none", "open", "ended"}]
      BY <1>1, <1>2, <1>3 DEF WsgiTypeOK
    <2> QED BY <1>2, <2>1, <2>2, <2>3, <2>4 DEF WsgiTypeOK
  <1>9. ServedInv(r)'
    <2>1. /\ counted'[r] = n /\ child'[r] = c /\ root'[r] = "ended"
          /\ scope'[r] = NoScope /\ status'[r] = status[r]
          /\ opened'[r] <= 1 \/ lost'[r]
      BY <1>1, <1>2, <1>3, <1>5 DEF ServedInv, InTheCall, WsgiTypeOK
    <2>2. CASE c \in {"none", "ended"}
      <3>1. stage'[r] = "over" /\ body'[r] = NoBody
        BY <1>2, <1>5, <2>2 DEF WsgiTypeOK, InTheCall
      <3>2. Finished(r)'
        BY <1>3, <2>1, <3>1 DEF Finished
      <3> QED BY <2>1, <3>1, <3>2 DEF ServedInv, ScopeInv
    <2>3. CASE c \in {"open", "null"}
      <3>1. stage'[r] = "body" /\ body'[r] = b
        BY <1>2, <1>5, <2>3 DEF WsgiTypeOK
      <3>2. Streams(r)'
        BY <1>3, <1>4, <2>1, <2>3, <3>1 DEF Streams
      <3> QED BY <2>1, <3>1, <3>2 DEF ServedInv, ScopeInv
    <2> QED BY <2>2, <2>3
  <1> QED BY <1>6, <1>7, <1>8, <1>9, LeavingIsClean, LocalStep

-----------------------------------------------------------------------------
(* The server drains the body *)

(* What __next__ and close() find on the thread that they run on.          *)
LEMMA ActivationIsLocal ==
  ASSUME NEW t \in Threads, NEW r \in Requests, WsgiInv, Serves(t),
         Unused(r), stage[r] = "body", Activates(t, r),
         NEW p \in {"step", "close"}, Goes(t, p),
         stage' = stage, scope' = scope, lost' = lost, exiting' = exiting,
         UNCHANGED spans,
         NEW b \in [late : BOOLEAN, done : BOOLEAN, armed : BOOLEAN,
                    pulls : 0..MaxPulls, closed : BOOLEAN],
         body' = [body EXCEPT ![r] = b], b.late = body[r].late,
         b.done = body[r].done, b.armed = body[r].armed,
         p = "step" => ~b.done
  PROVE  WsgiInv'
  <1> USE DEF Serves, Activates, Goes, spans
  <1>1. WsgiTypeOK /\ ThreadInv(t) /\ ServedInv(r) /\ OneWorker
    BY DEF WsgiInv
  <1>2. /\ Streams(r) /\ Spent(ctx[t]) /\ job[t] = Nobody
        /\ \A u \in Threads : job[u] # r
    BY <1>1 DEF ServedInv, ThreadInv, WsgiTypeOK, Unused
  <1>3. /\ Activation(t, r) = Binding("child", r, t)
        /\ Activation(t, r) \in Bindings
    BY DEF Activation, Binding, Bindings
  <1>4. WsgiTypeOK'
    BY <1>1, <1>3, RequestAssumption DEF WsgiTypeOK
  <1>5. Local(t, r)
    BY <1>1, <1>2 DEF Local, Touches, Monotone, SameThread, SameRequest,
           WsgiTypeOK
  <1>6. OneWorker'
    BY <1>1, <1>2 DEF OneWorker, WsgiTypeOK
  <1>7. ThreadInv(t)'
    <2>1. /\ token'[t] = ctx[t] /\ ctx'[t] = Binding("child", r, t)
          /\ job'[t] = r /\ at'[t] = p /\ body'[r] = b
      BY <1>1, <1>3 DEF WsgiTypeOK
    <2>2. Spent(token[t])'
      BY <1>1, <1>2, <1>5, <2>1, StaysSpent DEF Local, Touches
    <2> QED BY <2>1, <2>2 DEF ThreadInv, Pulling, OwnChild
  <1>8. ServedInv(r)'
    <2>1. body'[r] = b
      BY <1>1 DEF WsgiTypeOK
    <2>2. Streams(r)'
      BY <1>2, <2>1 DEF Streams
    <2>3. ScopeInv(r)'
      BY <1>1, <1>5, ScopeStaysSpent DEF ServedInv, ScopeInv, Local, Touches
    <2> QED BY <1>1, <2>2, <2>3 DEF ServedInv
  <1> QED BY <1>4, <1>5, <1>6, <1>7, <1>8, LocalStep

LEMMA PullKeeps ==
  ASSUME NEW t \in Threads, NEW r \in Requests, WsgiInv, PullBody(t, r)
  PROVE  WsgiInv'
  <1>1. body[r] \in [late : BOOLEAN, done : BOOLEAN, armed : BOOLEAN,
                     pulls : 0..MaxPulls, closed : BOOLEAN]
    BY DEF WsgiInv, WsgiTypeOK
  <1>2. PICK b \in [late : BOOLEAN, done : BOOLEAN, armed : BOOLEAN,
                    pulls : 0..MaxPulls, closed : BOOLEAN] :
          b = [body[r] EXCEPT !.pulls = @ + 1]
    <2>1. body[r].pulls + 1 \in 0..MaxPulls
      BY <1>1, RequestAssumption DEF PullBody
    <2> QED BY <1>1, <2>1
  <1>3. /\ b.late = body[r].late /\ b.done = body[r].done
        /\ b.armed = body[r].armed
        /\ body' = [body EXCEPT ![r] = b] /\ ~b.done
    BY <1>1, <1>2 DEF PullBody
  <1>4. PICK p \in {"step", "close"} : p = "step"
    OBVIOUS
  <1>5. /\ Serves(t) /\ Unused(r) /\ stage[r] = "body" /\ Activates(t, r)
        /\ Goes(t, p) /\ stage' = stage /\ scope' = scope /\ lost' = lost
        /\ exiting' = exiting /\ UNCHANGED spans
    BY <1>4 DEF PullBody
  <1> QED BY <1>3, <1>5, ActivationIsLocal

LEMMA CloseKeeps ==
  ASSUME NEW t \in Threads, NEW r \in Requests, WsgiInv, Close(t, r)
  PROVE  WsgiInv'
  <1>1. body[r] \in [late : BOOLEAN, done : BOOLEAN, armed : BOOLEAN,
                     pulls : 0..MaxPulls, closed : BOOLEAN]
    BY DEF WsgiInv, WsgiTypeOK
  <1>2. PICK b \in [late : BOOLEAN, done : BOOLEAN, armed : BOOLEAN,
                    pulls : 0..MaxPulls, closed : BOOLEAN] :
          b = [body[r] EXCEPT !.closed = TRUE]
    BY <1>1
  <1>3. /\ b.late = body[r].late /\ b.done = body[r].done
        /\ b.armed = body[r].armed
        /\ body' = [body EXCEPT ![r] = b]
    BY <1>1, <1>2 DEF Close
  <1>4. PICK p \in {"step", "close"} : p = "close"
    OBVIOUS
  <1>5. /\ Serves(t) /\ Unused(r) /\ stage[r] = "body" /\ Activates(t, r)
        /\ Goes(t, p) /\ stage' = stage /\ scope' = scope /\ lost' = lost
        /\ exiting' = exiting /\ UNCHANGED spans
    BY <1>4 DEF Close
  <1> QED BY <1>3, <1>4, <1>5, ActivationIsLocal

(* The call on the body ends *)

LEMMA YieldsKeeps ==
  ASSUME NEW t \in Threads, WsgiInv, Yields(t)
  PROVE  WsgiInv'
  <1> USE DEF Yields, spans
  <1>1. PICK r \in Requests : r = job[t]
    BY InACall
  <1>2. WsgiTypeOK /\ ServedInv(r) /\ stage[r] = "body" /\ Streams(r)
    BY <1>1, InACall DEF WsgiInv, Pulling
  <1>3. Monotone
    BY DEF Monotone
  <1>4. Local(t, r)
    BY <1>1, <1>3, InACall, LeavingIsClean DEF Local, Touches, SameRequest
  <1>5. WsgiTypeOK'
    BY <1>2, <1>3, LeavingIsClean DEF WsgiTypeOK, Pulling
  <1>6. ServedInv(r)'
    <2>1. \A u \in Threads : at[u] = "end" => at'[u] = at[u] /\ job'[u] = job[u]
      BY <1>4 DEF Local, Touches, SameThread
    <2>2. Streams(r)'
      BY <1>2, <2>1 DEF Streams
    <2>3. ScopeInv(r)'
      BY <1>2, <1>3, ScopeStaysSpent DEF ServedInv, ScopeInv
    <2> QED BY <1>2, <2>2, <2>3 DEF ServedInv
  <1> QED BY <1>3, <1>4, <1>5, <1>6, LeavingIsClean, LocalStep

(* To the end of the call, where no span of the body is entered. *)
LEMMA ToFinalizeKeeps ==
  ASSUME NEW t \in Threads, WsgiInv, at[t] \in {"step", "close"},
         Goes(t, "finalize"), stage' = stage, body' = body, scope' = scope,
         ctx' = ctx, job' = job, token' = token,
         lost' = lost, exiting' = exiting, UNCHANGED spans
  PROVE  WsgiInv'
  <1> USE DEF Goes, spans
  <1>1. PICK r \in Requests : r = job[t]
    BY InACall
  <1>2. /\ WsgiTypeOK /\ ThreadInv(t) /\ ServedInv(r) /\ OneWorker
        /\ stage[r] = "body" /\ Streams(r)
    BY <1>1, InACall DEF WsgiInv, Pulling
  <1>3. Monotone
    BY DEF Monotone
  <1>4. Local(t, r)
    BY <1>1, <1>2, <1>3, InACall
       DEF Local, Touches, SameRequest, SameThread, WsgiTypeOK
  <1>5. WsgiTypeOK'
    BY <1>2 DEF WsgiTypeOK
  <1>6. OneWorker'
    BY <1>2 DEF OneWorker, WsgiTypeOK
  <1>7. ThreadInv(t)'
    <2>1. /\ Spent(ctx[t]) => Spent(ctx[t])'
          /\ Spent(token[t]) => Spent(token[t])'
      BY <1>2, <1>3, StaysSpent
    <2>2. at'[t] = "finalize"
      BY <1>2 DEF WsgiTypeOK
    <2> QED BY <1>2, <2>1, <2>2
            DEF ThreadInv, Pulling, OwnChild, OwnUser, Astray
  <1>8. ServedInv(r)'
    <2>1. \A u \in Threads : at[u] = "end" => at'[u] = at[u] /\ job'[u] = job[u]
      BY <1>2 DEF WsgiTypeOK
    <2>2. Streams(r)'
      BY <1>2, <2>1 DEF Streams
    <2>3. ScopeInv(r)'
      BY <1>2, <1>3, ScopeStaysSpent DEF ServedInv, ScopeInv
    <2> QED BY <1>2, <2>2, <2>3 DEF ServedInv
  <1> QED BY <1>4, <1>5, <1>6, <1>7, <1>8, LocalStep

(* The latch: the first caller goes on to end the span. *)
LEMMA FinalizeBodyKeeps ==
  ASSUME NEW t \in Threads, WsgiInv, FinalizeBody(t)
  PROVE  WsgiInv'
  <1> USE DEF FinalizeBody, spans
  <1>1. PICK r \in Requests : r = job[t]
    BY InACall
  <1>2. /\ WsgiTypeOK /\ ThreadInv(t) /\ ServedInv(r) /\ OneWorker
        /\ stage[r] = "body" /\ Streams(r)
    BY <1>1, InACall DEF WsgiInv, Pulling
  <1>3. Monotone
    BY DEF Monotone
  <1>4. ScopeInv(r)'
    BY <1>2, <1>3, ScopeStaysSpent DEF ServedInv, ScopeInv
  <1>5. CASE body[r].done
    <2>1. ResetsToken(t) /\ Leaves(t) /\ body' = body
      BY <1>1, <1>5
    <2>2. Local(t, r)
      BY <1>1, <1>3, <2>1, InACall, LeavingIsClean
      DEF Local, Touches, SameRequest
    <2>3. WsgiTypeOK'
      BY <1>2, <1>3, <2>1, LeavingIsClean DEF WsgiTypeOK, Pulling
    <2>4. \A u \in Threads : at[u] = "end" => at'[u] = at[u] /\ job'[u] = job[u]
      BY <2>2 DEF Local, Touches, SameThread
    <2>5. Streams(r)'
      BY <1>2, <2>1, <2>4 DEF Streams
    <2>6. ServedInv(r)'
      BY <1>2, <1>4, <2>5 DEF ServedInv
    <2> QED BY <1>3, <2>1, <2>2, <2>3, <2>6, LeavingIsClean, LocalStep
  <1>6. CASE ~body[r].done
    <2>1. /\ body' = [body EXCEPT ![r].done = TRUE, ![r].armed = FALSE]
          /\ Goes(t, "end") /\ ctx' = ctx /\ job' = job /\ token' = token
      BY <1>1, <1>6
    <2> USE DEF Goes
    <2>2. /\ body'[r].late = body[r].late /\ body'[r].done = TRUE
          /\ body'[r].armed = FALSE
          /\ \A q \in Requests : q # r => body'[q] = body[q]
      BY <1>2, <2>1 DEF WsgiTypeOK
    <2>3. Local(t, r)
      BY <1>1, <1>2, <1>3, <2>1, <2>2, InACall
         DEF Local, Touches, SameRequest, SameThread, WsgiTypeOK
    <2>4. WsgiTypeOK'
      <3>1. body \in [Requests -> [late : BOOLEAN, done : BOOLEAN,
                                   armed : BOOLEAN, pulls : 0..MaxPulls,
                                   closed : BOOLEAN]]
        BY <1>2 DEF WsgiTypeOK
      <3>2. body' \in [Requests -> [late : BOOLEAN, done : BOOLEAN,
                                    armed : BOOLEAN, pulls : 0..MaxPulls,
                                    closed : BOOLEAN]]
        <4> HIDE DEF FinalizeBody
        <4> QED BY <2>1, <3>1
      <3> QED BY <1>2, <2>1, <3>2 DEF WsgiTypeOK
    <2>5. OneWorker'
      BY <1>2, <2>1 DEF OneWorker, WsgiTypeOK
    <2>6. ThreadInv(t)'
      <3>1. /\ Spent(ctx[t]) => Spent(ctx[t])'
            /\ Spent(token[t]) => Spent(token[t])'
        BY <1>2, <1>3, <2>1, StaysSpent
      <3>2. at'[t] = "end"
        BY <1>2, <2>1 DEF WsgiTypeOK
      <3> QED BY <1>1, <1>2, <2>1, <2>2, <3>1, <3>2
              DEF ThreadInv, Pulling, OwnChild, OwnUser, Astray
    <2>7. ServedInv(r)'
      <3>1. at'[t] = "end" /\ job'[t] = r
        BY <1>1, <1>2, <2>1 DEF WsgiTypeOK
      <3>2. Streams(r)'
        BY <1>2, <2>2, <3>1 DEF Streams
      <3> QED BY <1>2, <1>4, <3>2 DEF ServedInv
    <2> QED BY <2>3, <2>4, <2>5, <2>6, <2>7, LocalStep
  <1> QED BY <1>5, <1>6

(* Ending the response span counts the status once, if it is to count it.  *)
LEMMA EndingCounts ==
  ASSUME NEW r \in Requests, WsgiTypeOK, Streams(r), EndsChild(r),
         status' = status
  PROVE  /\ child' \in [Requests -> {"none", "open", "null", "ended"}]
         /\ \A q \in Requests : q # r => child'[q] = child[q]
         /\ child[r] \in {"open", "ended"} => child'[r] = "ended"
         /\ child[r] = "null" => child'[r] = "null"
         /\ counted' \in [Requests -> 0..2]
         /\ \A q \in Requests : q # r => counted'[q] = counted[q]
         /\ counted'[r] <= 1 /\ child'[r] \in {"null", "ended"}
         /\ ~body[r].late => status[r] /\ counted'[r] = 1
         /\ body[r].late /\ child'[r] = "ended" /\ status[r] /\ ~exiting
              => counted'[r] = 1
  <1> USE DEF EndsChild
  <1>1. counted[r] \in 0..1
    BY DEF Streams, WsgiTypeOK
  <1>2. PICK n \in 0..1 :
          n = One(body[r].late /\ status[r] /\ child[r] = "open")
    BY DEF One
  <1>3. n = 1 <=> body[r].late /\ status[r] /\ child[r] = "open"
    BY <1>2 DEF One
  <1>4. counted' = [counted EXCEPT ![r] = counted[r] + n]
    BY <1>2
  <1> HIDE DEF EndsChild
  <1>5. counted[r] + n \in 0..1
    BY <1>1, <1>3 DEF Streams
  <1>6. counted'[r] = counted[r] + n /\ counted' \in [Requests -> 0..2]
        /\ \A q \in Requests : q # r => counted'[q] = counted[q]
    BY <1>4, <1>5 DEF WsgiTypeOK
  <1>7. child' = [child EXCEPT ![r] = IF child[r] = "open" THEN "ended"
                                      ELSE child[r]]
    BY DEF EndsChild
  <1>8. /\ child' \in [Requests -> {"none", "open", "null", "ended"}]
        /\ \A q \in Requests : q # r => child'[q] = child[q]
        /\ child[r] \in {"open", "ended"} => child'[r] = "ended"
        /\ child[r] = "null" => child'[r] = "null"
        /\ child'[r] \in {"null", "ended"}
    BY <1>7 DEF Streams, WsgiTypeOK
  <1>9. ~body[r].late => status[r] /\ counted'[r] = 1
    BY <1>1, <1>3, <1>6 DEF Streams
  <1>10. ASSUME body[r].late, child'[r] = "ended", status[r], ~exiting
         PROVE  counted'[r] = 1
    BY <1>1, <1>3, <1>6, <1>7, <1>10 DEF Streams, WsgiTypeOK
  <1> QED BY <1>5, <1>6, <1>8, <1>9, <1>10

LEMMA EndKeeps ==
  ASSUME NEW t \in Threads, WsgiInv, End(t)
  PROVE  WsgiInv'
  <1> USE DEF End
  <1>1. PICK r \in Requests : r = job[t]
    BY InACall
  <1>2. /\ WsgiTypeOK /\ ServedInv(r) /\ stage[r] = "body" /\ Streams(r)
        /\ EndsChild(r)
    BY <1>1, InACall DEF WsgiInv, Pulling
  <1>3. /\ child' \in [Requests -> {"none", "open", "null", "ended"}]
        /\ \A q \in Requests : q # r => child'[q] = child[q]
        /\ child[r] \in {"open", "ended"} => child'[r] = "ended"
        /\ counted' \in [Requests -> 0..2]
        /\ \A q \in Requests : q # r => counted'[q] = counted[q]
        /\ counted'[r] <= 1 /\ child'[r] \in {"null", "ended"}
        /\ ~body[r].late => status[r] /\ counted'[r] = 1
        /\ body[r].late /\ child'[r] = "ended" /\ status[r] /\ ~exiting
             => counted'[r] = 1
    BY <1>2, EndingCounts
  <1>4. Monotone
    BY <1>3 DEF Monotone
  <1>5. Local(t, r)
    <2>1. \A q \in Requests : q # r => SameRequest(q)
      BY <1>3 DEF SameRequest
    <2> QED BY <1>1, <1>4, <2>1, InACall, LeavingIsClean DEF Local, Touches
  <1>6. WsgiTypeOK'
    BY <1>2, <1>3, <1>4, LeavingIsClean DEF WsgiTypeOK, Pulling
  <1>7. ServedInv(r)'
    <2>1. body[r].done
      BY <1>1, InACall, <1>2 DEF WsgiInv, ThreadInv
    <2>2. Streams(r)'
      BY <1>2, <1>3, <2>1 DEF Streams
    <2>3. ScopeInv(r)'
      BY <1>2, <1>3, <1>4, ScopeStaysSpent DEF ServedInv, ScopeInv
    <2> QED BY <1>2, <2>2, <2>3 DEF ServedInv
  <1> QED BY <1>4, <1>5, <1>6, <1>7, LeavingIsClean, LocalStep

-----------------------------------------------------------------------------
(* Bodies that are abandoned, and the exit of the interpreter *)

LEMMA DropKeeps ==
  ASSUME NEW r \in Requests, WsgiInv, Drop(r)
  PROVE  WsgiInv'
  <1> USE DEF Drop, Stage, threads, spans
  <1>1. WsgiTypeOK /\ ServedInv(r) /\ OneWorker /\ Streams(r)
    BY DEF WsgiInv, ServedInv
  <1>2. Local(Nobody, r)
    BY <1>1, RequestAssumption
       DEF Local, Touches, Monotone, SameThread, SameRequest,
           WsgiTypeOK, Unused
  <1>3. WsgiTypeOK' /\ OneWorker'
    BY <1>1 DEF WsgiTypeOK, OneWorker
  <1>4. ServedInv(r)'
    <2>1. Streams(r)'
      BY <1>1 DEF Streams
    <2>2. ScopeInv(r)'
      BY <1>1, <1>2, ScopeStaysSpent
         DEF ServedInv, ScopeInv, Local, Touches
    <2> QED BY <1>1, <2>1, <2>2 DEF ServedInv, WsgiTypeOK
  <1> QED BY <1>2, <1>3, <1>4, RequestAssumption, LocalStep

LEMMA ExitKeeps ==
  ASSUME WsgiInv, Exit
  PROVE  WsgiInv'
  <1> USE DEF Exit, threads, spans
  <1>1. WsgiTypeOK /\ OneWorker
    BY DEF WsgiInv
  <1>2. Local(Nobody, Nobody)
    BY <1>1 DEF Local, Touches, Monotone, SameThread, SameRequest,
           WsgiTypeOK
  <1>3. WsgiTypeOK' /\ OneWorker'
    BY <1>1 DEF WsgiTypeOK, OneWorker
  <1> QED BY <1>2, <1>3, RequestAssumption, LocalStep

(* A reaper that runs at exit may end the span of a body that a thread     *)
(* still pulls.                                                            *)
LEMMA ReapAtExitKeeps ==
  ASSUME NEW r \in Requests, WsgiInv, ReapAtExit(r)
  PROVE  WsgiInv'
  <1> USE DEF ReapAtExit, threads
  <1>1. WsgiTypeOK /\ ServedInv(r) /\ OneWorker
    BY DEF WsgiInv
  <1>2. stage[r] \in {"body", "dropped"} /\ Streams(r)
    BY <1>1 DEF ServedInv, Unserved, InTheCall, Finished, NoBody, WsgiTypeOK
  <1>3. /\ child' \in [Requests -> {"none", "open", "null", "ended"}]
        /\ \A q \in Requests : q # r => child'[q] = child[q]
        /\ child[r] \in {"open", "ended"} => child'[r] = "ended"
        /\ counted' \in [Requests -> 0..2]
        /\ \A q \in Requests : q # r => counted'[q] = counted[q]
        /\ counted'[r] <= 1 /\ child'[r] \in {"null", "ended"}
        /\ ~body[r].late => status[r] /\ counted'[r] = 1
    BY <1>1, <1>2, EndingCounts
  <1>4. /\ body'[r].late = body[r].late /\ body'[r].done = body[r].done
        /\ body'[r].armed = FALSE
        /\ \A q \in Requests : body'[q].done = body[q].done
        /\ \A q \in Requests : q # r => body'[q] = body[q]
    BY <1>1 DEF WsgiTypeOK
  <1>5. Monotone
    BY <1>3 DEF Monotone
  <1>6. Touches(Nobody, r)
    BY <1>3, <1>4, <1>5, RequestAssumption
       DEF Touches, SameThread, SameRequest
  <1>7. WsgiTypeOK' /\ OneWorker'
    <2>1. body' \in [Requests -> [late : BOOLEAN, done : BOOLEAN,
                                  armed : BOOLEAN, pulls : 0..MaxPulls,
                                  closed : BOOLEAN]]
      <3>1. body \in [Requests -> [late : BOOLEAN, done : BOOLEAN,
                                   armed : BOOLEAN, pulls : 0..MaxPulls,
                                   closed : BOOLEAN]]
        BY <1>1 DEF WsgiTypeOK
      <3>2. body' = [body EXCEPT ![r].armed = FALSE]
        OBVIOUS
      <3> HIDE DEF ReapAtExit
      <3> QED BY <3>1, <3>2
    <2> QED BY <1>1, <1>3, <2>1 DEF WsgiTypeOK, OneWorker
  <1>8. ASSUME NEW u \in Threads
        PROVE  ThreadInv(u)'
    <2>1. ThreadInv(u) /\ (at[u] # "idle" => job[u] \in Requests)
      BY InACall DEF WsgiInv
    <2>2. /\ Spent(ctx[u]) => Spent(ctx[u])'
          /\ Spent(token[u]) => Spent(token[u])'
      BY <1>1, <1>5, StaysSpent
    <2> QED BY <1>4, <2>1, <2>2
            DEF ThreadInv, Pulling, OwnChild, OwnUser, Astray, Inherited
  <1>9. ServedInv(r)'
    <2>1. Streams(r)'
      BY <1>2, <1>3, <1>4 DEF Streams
    <2>2. ScopeInv(r)'
      BY <1>1, <1>3, <1>5, ScopeStaysSpent DEF ServedInv, ScopeInv
    <2> QED BY <1>1, <1>2, <2>1, <2>2 DEF ServedInv
  <1>10. \A q \in Requests : q # r => ServedInv(q)'
    BY <1>6, OtherRequests
  <1> QED BY <1>7, <1>8, <1>9, <1>10 DEF WsgiInv

(* The thread that collects a body with an open scope loses its span, if   *)
(* it has one; what it finds instead is spent.                             *)
LEMMA CollectKeeps ==
  ASSUME NEW t \in Threads, NEW r \in Requests, WsgiInv, Collect(t, r)
  PROVE  WsgiInv'
  <1> USE DEF Collect, Stage
  <1>1. WsgiTypeOK /\ ThreadInv(t) /\ ServedInv(r) /\ OneWorker /\ Streams(r)
    BY DEF WsgiInv, ServedInv
  <1>2. \A u \in Threads : job[u] # r
    BY NewIsUnused
  <1>3. /\ child' \in [Requests -> {"none", "open", "null", "ended"}]
        /\ \A q \in Requests : q # r => child'[q] = child[q]
        /\ child[r] \in {"open", "ended"} => child'[r] = "ended"
        /\ counted' \in [Requests -> 0..2]
        /\ \A q \in Requests : q # r => counted'[q] = counted[q]
        /\ counted'[r] <= 1 /\ child'[r] \in {"null", "ended"}
        /\ status[r] /\ child'[r] # "null" /\ ~exiting => counted'[r] = 1
    <2>1. CASE body[r].armed
      <3>1. EndsChild(r)
        BY <2>1 DEF Reaps
      <3>2. body[r].late \in BOOLEAN
        BY <1>1 DEF WsgiTypeOK
      <3> QED BY <1>1, <3>1, <3>2, EndingCounts
    <2>2. CASE ~body[r].armed
      <3>1. child' = child /\ counted' = counted
        BY <2>2 DEF Reaps
      <3>2. child[r] # "open"
        BY <1>1, <1>2, <2>2 DEF Streams
      <3>3. body[r].late \in BOOLEAN
        BY <1>1 DEF WsgiTypeOK
      <3> QED BY <1>1, <3>1, <3>2, <3>3 DEF Streams, WsgiTypeOK
    <2> QED BY <2>1, <2>2
  <1>4. /\ \A q \in Requests :
             q # r => stage'[q] = stage[q] /\ body'[q] = body[q]
                                         /\ scope'[q] = scope[q]
        /\ stage'[r] = "over" /\ body'[r] = NoBody /\ scope'[r] = NoScope
        /\ \A q \in Requests : lost[q] => lost'[q]
        /\ \A u \in Threads : u # t => ctx'[u] = ctx[u]
        /\ lost' \in [Requests -> BOOLEAN]
    <2>1. /\ \A q \in Requests : lost[q] => lost'[q]
          /\ lost' \in [Requests -> BOOLEAN]
      <3>1. lost' = lost \/ lost' = [q \in Requests |-> lost[q] \/ q = job[t]]
        OBVIOUS
      <3>2. lost \in [Requests -> BOOLEAN]
        BY <1>1 DEF WsgiTypeOK
      <3> HIDE DEF Collect
      <3> QED BY <3>1, <3>2
    <2> QED BY <1>1, <2>1 DEF WsgiTypeOK
  <1>5. Monotone
    BY <1>3, <1>4 DEF Monotone
  <1>6. Local(t, r)
    BY <1>2, <1>3, <1>4, <1>5
       DEF Local, Touches, SameThread, SameRequest
  <1>7. \/ ctx' = ctx
        \/ /\ ctx'[t] \in Bindings /\ ctx' = [ctx EXCEPT ![t] = ctx'[t]]
           /\ Spent(ctx[t])' /\ t \notin Mounted
           /\ at[t] # "idle" => lost'[job[t]]
    <2>1. CASE scope[r] = NoScope \/ scope[r].thread # t
      BY <1>1, <2>1 DEF AfterReset, WsgiTypeOK
    <2>2. CASE scope[r] # NoScope /\ scope[r].thread = t
      <3>1. PICK b \in Bindings : b = scope[r].restores
        BY <1>1, <2>2 DEF WsgiTypeOK
      <3>2. ctx' = [ctx EXCEPT ![t] = b] /\ ctx'[t] = b
        BY <1>1, <2>2, <3>1 DEF AfterReset, WsgiTypeOK
      <3>3. /\ t \notin Mounted /\ child[r] \in {"open", "ended"}
            /\ b = Binding("child", r, t) \/ Spent(b)
        BY <1>1, <2>2, <3>1 DEF ServedInv, ScopeInv
      <3>4. Spent(b)'
        <4>1. CASE Spent(b)
          BY <1>1, <1>5, <4>1, SpentStays
        <4>2. CASE b = Binding("child", r, t)
          BY <1>3, <3>3, <4>2 DEF Spent, Ended, Binding
        <4> QED BY <3>3, <4>1, <4>2
      <3>5. Spent(ctx[t])'
        BY <3>2, <3>4
      <3>6. at[t] # "idle" => lost'[job[t]]
        BY <2>2, InACall
      <3> QED BY <3>2, <3>3, <3>5, <3>6
    <2> QED BY <2>1, <2>2
  <1>8. ctx' \in [Threads -> Bindings]
    BY <1>1, <1>7 DEF WsgiTypeOK
  <1>9. WsgiTypeOK' /\ OneWorker'
    <2>1. NoBody \in [late : BOOLEAN, done : BOOLEAN, armed : BOOLEAN,
                      pulls : 0..MaxPulls, closed : BOOLEAN]
      BY RequestAssumption DEF NoBody
    <2>2. body' \in [Requests -> [late : BOOLEAN, done : BOOLEAN,
                                  armed : BOOLEAN, pulls : 0..MaxPulls,
                                  closed : BOOLEAN]]
      BY <1>1, <2>1 DEF WsgiTypeOK
    <2> QED BY <1>1, <1>3, <1>4, <1>8, <2>2 DEF WsgiTypeOK, OneWorker
  <1>10. ThreadInv(t)'
    <2>1. /\ ctx' = ctx /\ Spent(ctx[t]) => Spent(ctx[t])'
          /\ Spent(token[t]) => Spent(token[t])'
      BY <1>1, <1>5, StaysSpent
    <2>2. at[t] # "idle" => job[t] \in Requests /\ job[t] # r
      BY <1>2, InACall
    <2>3. CASE ctx' = ctx
      BY <1>1, <1>4, <2>1, <2>2, <2>3
         DEF ThreadInv, Pulling, OwnChild, OwnUser, Astray, Inherited
    <2>4. CASE Spent(ctx[t])' /\ t \notin Mounted
               /\ (at[t] # "idle" => lost'[job[t]])
      BY <1>1, <1>4, <2>1, <2>2, <2>4 DEF ThreadInv, Pulling, Astray
    <2> QED BY <1>7, <2>3, <2>4
  <1>11. ServedInv(r)'
    BY <1>1, <1>3, <1>4 DEF ServedInv, Finished, ScopeInv
  <1> QED BY <1>6, <1>9, <1>10, <1>11, LocalStep

-----------------------------------------------------------------------------
LEMMA WsgiNextKeeps == WsgiInv /\ [WsgiNext]_wsgiVars => WsgiInv'
  <1> SUFFICES ASSUME WsgiInv, [WsgiNext]_wsgiVars
               PROVE  WsgiInv'
    OBVIOUS
  <1>1. ASSUME NEW t \in Threads, InCall(t)
        PROVE  WsgiInv'
    <2>1. ASSUME Stops(t) \/ Closed(t)
          PROVE  WsgiInv'
      BY <2>1, ToFinalizeKeeps DEF Stops, Closed
    <2> QED BY <1>1, <2>1, AppRaisesKeeps, ReturnsBufferedKeeps,
               ReturnsStreamKeeps, YieldsKeeps, FinalizeBodyKeeps, EndKeeps
            DEF InCall
  <1>2. ASSUME NEW t \in Threads,
               \/ StartResponse(t) \/ CallInner(t)
               \/ EnterScope(t) \/ LeaveScope(t)
        PROVE  WsgiInv'
    BY <1>2, StartResponseKeeps, CallInnerKeeps, EnterScopeKeeps,
       LeaveScopeKeeps
  <1>3. ASSUME NEW t \in Threads, NEW r \in Requests,
               \/ WsgiPassThrough(t, r) \/ WsgiSetUpFails(t, r)
               \/ Begin(t, r) \/ PullBody(t, r) \/ Close(t, r) \/ Collect(t, r)
        PROVE  WsgiInv'
    BY <1>3, PassThroughKeeps, SetUpFailsKeeps, BeginKeeps, PullKeeps,
       CloseKeeps, CollectKeeps
  <1>4. ASSUME NEW r \in Requests, Drop(r) \/ ReapAtExit(r)
        PROVE  WsgiInv'
    BY <1>4, DropKeeps, ReapAtExitKeeps
  <1>5. ASSUME UNCHANGED wsgiVars
        PROVE  WsgiInv'
    <2> USE <1>5 DEF wsgiVars, threads, spans
    <2>1. /\ WsgiTypeOK' <=> WsgiTypeOK
          /\ OneWorker' <=> OneWorker
      BY DEF WsgiTypeOK, OneWorker
    <2>2. \A t \in Threads : ThreadInv(t)' <=> ThreadInv(t)
      BY DEF ThreadInv, Pulling, OwnChild, OwnUser, Astray, Spent, Ended,
             Inherited
    <2>3. \A r \in Requests : ServedInv(r)' <=> ServedInv(r)
      BY DEF ServedInv, Unserved, InTheCall, Streams, Finished, ScopeInv, Spent,
             Ended
    <2> QED BY <2>1, <2>2, <2>3 DEF WsgiInv
  <1> QED BY <1>1, <1>2, <1>3, <1>4, <1>5, ExitKeeps DEF WsgiNext

LEMMA WsgiInitInv == WsgiInit => WsgiInv
  <1> SUFFICES ASSUME WsgiInit
               PROVE  WsgiInv
    OBVIOUS
  <1> USE DEF WsgiInit
  <1>1. \A t \in Threads : Inherited(t) \in Bindings
    BY DEF Inherited, Bindings
  <1>2. NoBinding \in Bindings
    BY DEF Bindings
  <1>3. NoBody \in [late : BOOLEAN, done : BOOLEAN, armed : BOOLEAN,
                    pulls : 0..MaxPulls, closed : BOOLEAN]
    BY RequestAssumption DEF NoBody
  <1>4. /\ ctx \in [Threads -> Bindings] /\ token \in [Threads -> Bindings]
        /\ body \in [Requests -> [late : BOOLEAN, done : BOOLEAN, armed : BOOLEAN,
                                  pulls : 0..MaxPulls, closed : BOOLEAN]]
    BY <1>1, <1>2, <1>3
  <1>7. WsgiTypeOK
    <2>1. /\ marked \in [Requests -> BOOLEAN] /\ status \in [Requests -> BOOLEAN]
          /\ lost \in [Requests -> BOOLEAN]
      OBVIOUS
    <2>2. /\ opened \in [Requests -> 0..2] /\ counted \in [Requests -> 0..2]
          /\ root \in [Requests -> {"none", "open", "ended"}]
          /\ child \in [Requests -> {"none", "open", "null", "ended"}]
          /\ stage \in [Requests -> {"new", "call", "body", "dropped", "over"}]
      OBVIOUS
    <2>3. scope \in [Requests -> [thread : Threads, restores : Bindings]
                                    \cup {NoScope}]
      OBVIOUS
    <2>4. /\ at \in [Threads -> {"idle", "app", "step", "close", "finalize", "end"}]
          /\ job \in [Threads -> Requests \cup {Nobody}]
          /\ \A t \in Threads : at[t] = "idle" <=> job[t] = Nobody
      OBVIOUS
    <2>5. exiting \in BOOLEAN
      OBVIOUS
    <2> HIDE DEF WsgiInit
    <2> QED BY <1>4, <2>1, <2>2, <2>3, <2>4, <2>5 DEF WsgiTypeOK
  <1>8. OneWorker
    BY DEF OneWorker
  <1>5. \A t \in Threads : ThreadInv(t)
    BY DEF ThreadInv, Pulling, Spent, Inherited
  <1>6. \A r \in Requests : ServedInv(r)
    BY DEF ServedInv, Unserved, ScopeInv
  <1> QED BY <1>5, <1>6, <1>7, <1>8 DEF WsgiInv

(* What the invariant says of a thread and of a request is what is         *)
(* promised.                                                               *)
LEMMA WsgiInvSuffices == WsgiInv => RequestsStayApart
  <1> SUFFICES ASSUME WsgiInv
               PROVE  RequestsStayApart
    OBVIOUS
  <1>1. WsgiTypeOK
    BY DEF WsgiInv
  <1>2. IdleIsClean
    BY DEF IdleIsClean, WsgiInv, ThreadInv, Visible, Spent
  <1>3. OneRoot
    BY DEF OneRoot, WsgiInv, ServedInv
  <1>4. SeesOwnSpan
    BY SeesItsSpan DEF SeesOwnSpan
  <1>5. CountedOnce
    <2> SUFFICES ASSUME NEW r \in Requests
                 PROVE  /\ counted[r] <= 1
                        /\ stage[r] = "over" /\ status[r] /\ child[r] # "null"
                             /\ ~exiting => counted[r] = 1
      BY DEF CountedOnce
    <2>1. ServedInv(r)
          /\ stage[r] \in {"new", "call", "body", "dropped", "over"}
      BY DEF WsgiInv, WsgiTypeOK
    <2> QED BY <2>1 DEF ServedInv, Unserved, InTheCall, Streams, Finished
  <1> QED BY <1>1, <1>2, <1>3, <1>4, <1>5 DEF RequestsStayApart

(* A body that streams over several threads leaves each of them clean:     *)
(* nothing that hides a later root span stays in the context of a thread   *)
(* that is back at the server; a request has one root and its own spans,   *)
(* and its status is counted once (pinpoint/instrumentations/wsgi).  For   *)
(* any number of threads and requests, and bodies of any length.           *)
THEOREM RequestsAreApart == WsgiSpec => []RequestsStayApart
  <1> QED BY WsgiInitInv, WsgiNextKeeps, WsgiInvSuffices, PTL DEF WsgiSpec
=============================================================================
