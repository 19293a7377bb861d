--------------------------- MODULE NativeLogConsumer ---------------------------
(***************************************************************************)
(* Delivery of native log records through Python logging and its shutdown: *)
(* the consumer thread of pinpoint/_native_log.py, and the calls of        *)
(* pinpoint.shutdown() / Agent.shutdown() (pinpoint/agent.py) that end it, *)
(* from application threads or from a log handler the consumer runs.       *)
(*                                                                         *)
(* The bridge is the first-in first-out channel of LogChannel with a       *)
(* capacity; native code calls its sink under one mutex, so one record is  *)
(* inside enqueue() at a time.  Threads take turns between any two steps   *)
(* (the GIL may be handed over there; native calls run without it).        *)
(***************************************************************************)
EXTENDS Integers, Sequences, FiniteSets

CONSTANTS
  Threads,      \* application threads that may call shutdown
  Consumer,     \* the pinpoint-native-log thread
  QueueSize,    \* native_log_queue_size
  BatchSize,    \* _DRAIN_BATCH_SIZE
  MaxRecords,   \* bound: records the native agent logs
  MaxCalls,     \* bound: shutdown calls
  MaxReads      \* bound: reads of Agent.native_log_dropped

ASSUME ConsumerAssumption ==
  /\ Consumer \notin Threads
  /\ QueueSize \in Nat \ {0} /\ BatchSize \in Nat \ {0}
  /\ MaxRecords \in Nat /\ MaxCalls \in Nat /\ MaxReads \in Nat

Callers  == Threads \cup {Consumer}
NoNumber == 0
NoOwner  == "none"

VARIABLES
  \* the native side
  sinkOn,        \* native still calls the sink
  bridgeOn,      \* the bridge's active flag
  emitted,       \* records native logged so far; they are numbered
  inFlight,      \* the record inside enqueue(), past the active check
  queue,         \* published records
  nativeDropped, \* the bridge's drop counter
  \* the consumer thread
  at,            \* where it is: wait, drain, deliver, take, add, exited
  phase,         \* poll: the loop; final: the last drain; last: after it
  batch,         \* records of this _drain_once still to be logged
  found,         \* this _drain_once got records
  taken,         \* what take_dropped returned
  counted,       \* NativeLogConsumer._dropped
  stopSet,       \* the _stop event
  finalizing,    \* the interpreter is shutting down
  \* the shutdown calls
  call,          \* per caller: idle, lock, claim, native, deactivate, set, join, unlock
  lock,          \* owner of the module's _lock
  instance,      \* the module's _instance is this agent
  claimed,       \* Agent._shutdown
  calls,         \* shutdown calls made so far
  \* a reader of Agent.native_log_dropped
  first,         \* what it has read so far
  reads,         \* the results it got
  \* history
  handled,       \* records given to the logger, in order
  discarded,     \* records of a drain that failed
  totalDropped,  \* records the bridge rejected
  nativeStops    \* native Shutdown() calls

native   == <<sinkOn, bridgeOn, emitted, inFlight, queue>>
thread   == <<at, phase, batch, found, taken, counted>>
callVars == <<call, lock, instance, claimed, calls, nativeStops>>
reader   == <<first, reads>>
history  == <<handled, discarded, totalDropped>>
flags    == <<stopSet, finalizing>>
vars     == <<native, nativeDropped, thread, callVars, reader, history, flags>>

NotReading == -1

ConsumerInit ==
  /\ sinkOn = TRUE /\ bridgeOn = TRUE /\ emitted = 0 /\ inFlight = NoNumber
  /\ queue = <<>> /\ nativeDropped = 0
  /\ at = "wait" /\ phase = "poll" /\ batch = <<>> /\ found = FALSE
  /\ taken = 0 /\ counted = 0 /\ stopSet = FALSE /\ finalizing = FALSE
  /\ call = [t \in Callers |-> "idle"] /\ lock = NoOwner /\ instance = TRUE
  /\ claimed = FALSE /\ calls = 0
  /\ first = NotReading /\ reads = <<>>
  /\ handled = <<>> /\ discarded = {} /\ totalDropped = 0 /\ nativeStops = 0

-----------------------------------------------------------------------------
(* Native threads: the sink callback, one at a time *)

Emit ==
  /\ sinkOn /\ inFlight = NoNumber /\ emitted < MaxRecords
  /\ emitted' = emitted + 1
  /\ inFlight' = IF bridgeOn THEN emitted + 1 ELSE NoNumber
  /\ UNCHANGED <<sinkOn, bridgeOn, queue, nativeDropped, thread, callVars,
                 reader, history, flags>>

HasRoom == Len(queue) < QueueSize

EnqueueRecord ==
  /\ inFlight # NoNumber
  /\ IF HasRoom
     THEN /\ queue' = Append(queue, inFlight)
          /\ UNCHANGED <<nativeDropped, totalDropped>>
     ELSE /\ nativeDropped' = nativeDropped + 1
          /\ totalDropped' = totalDropped + 1
          /\ UNCHANGED queue
  /\ inFlight' = NoNumber
  /\ UNCHANGED <<sinkOn, bridgeOn, emitted, thread, callVars, reader, handled,
                 discarded, flags>>

-----------------------------------------------------------------------------
(* The consumer thread: _run and _drain_once *)

(* The end of _run, and its finally clause. *)
Exit == at' = "exited" /\ bridgeOn' = FALSE

(* _stop.wait() timed out, or the event is set: the last drain begins. *)
Poll ==
  /\ at = "wait"
  /\ IF ~stopSet /\ finalizing
     THEN Exit /\ UNCHANGED <<phase, found>>
     ELSE /\ at' = "drain" /\ found' = FALSE
          /\ phase' = IF stopSet THEN "final" ELSE "poll"
          /\ UNCHANGED bridgeOn
  /\ UNCHANGED <<sinkOn, emitted, inFlight, queue, nativeDropped, batch, taken,
                 counted, callVars, reader, history, flags>>

(* drain() pops as long as it finds records ... *)
PopOne ==
  /\ at = "drain" /\ queue # <<>> /\ Len(batch) < BatchSize
  /\ batch' = Append(batch, Head(queue))
  /\ queue' = Tail(queue)
  /\ UNCHANGED <<sinkOn, bridgeOn, emitted, inFlight, nativeDropped, at, phase,
                 found, taken, counted, callVars, reader, history, flags>>

PopEnds ==
  /\ at = "drain" /\ (queue = <<>> \/ Len(batch) = BatchSize)
  /\ at' = "deliver" /\ found' = (batch # <<>>)
  /\ UNCHANGED <<native, nativeDropped, phase, batch, taken, counted,
                 callVars, reader, history, flags>>

(* _drain_once returned b: what the loop it was called from does next. *)
StopsAfterOneDrain(b) == FALSE                         \* mutant
DrainsAgain(b) == b

Returns(b) ==
  CASE phase = "poll"  -> at' = "wait" /\ UNCHANGED <<phase, found, bridgeOn>>
    [] phase = "final" -> IF DrainsAgain(b)
                          THEN /\ at' = "drain" /\ found' = FALSE
                               /\ UNCHANGED <<phase, bridgeOn>>
                          ELSE /\ at' = "take" /\ phase' = "last"
                               /\ UNCHANGED <<found, bridgeOn>>
    [] phase = "last"  -> Exit /\ UNCHANGED <<phase, found>>

QueueAfterFailure == queue

(* ... and may fail with what it popped in hand: a record that is not      *)
(* UTF-8, or no memory.  _drain_once then returns False, without a report. *)
DrainFails ==
  /\ at = "drain" /\ batch # <<>>
  /\ discarded' = discarded \cup {batch[k] : k \in DOMAIN batch}
  /\ batch' = <<>>
  /\ queue' = QueueAfterFailure
  /\ Returns(FALSE)
  /\ UNCHANGED <<sinkOn, emitted, inFlight, nativeDropped, taken,
                 counted, callVars, reader, handled, totalDropped, flags>>

(* The handlers return for a record, or raise, which is swallowed.  A      *)
(* handler that calls shutdown() returns after that.                       *)
Deliver ==
  /\ at = "deliver" /\ batch # <<>> /\ call[Consumer] = "idle"
  /\ handled' = Append(handled, Head(batch))
  /\ batch' = Tail(batch)
  /\ UNCHANGED <<native, nativeDropped, at, phase, found, taken, counted,
                 callVars, reader, discarded, totalDropped, flags>>

Delivered ==
  /\ at = "deliver" /\ batch = <<>>
  /\ at' = "take"
  /\ UNCHANGED <<native, nativeDropped, phase, batch, found, taken, counted,
                 callVars, reader, history, flags>>

(* _report_drops: take_dropped() and the addition are two steps; its one   *)
(* warning changes no state that matters here.                             *)
KeptByBridge == 0

TakeDropped ==
  /\ at = "take"
  /\ taken' = nativeDropped
  /\ nativeDropped' = KeptByBridge
  /\ at' = "add"
  /\ UNCHANGED <<native, phase, batch, found, counted, callVars, reader,
                 history, flags>>

AddDropped ==
  /\ at = "add"
  /\ counted' = counted + taken
  /\ taken' = 0
  /\ Returns(found)
  /\ UNCHANGED <<sinkOn, emitted, inFlight, queue, nativeDropped, batch,
                 callVars, reader, history, flags>>

-----------------------------------------------------------------------------
(* shutdown() of the module, which holds _lock throughout, or of an Agent  *)

BeginShutdown(t, step) ==
  /\ call[t] = "idle" /\ calls < MaxCalls
  /\ t = Consumer => at = "deliver" /\ batch # <<>>    \* from a log handler
  /\ step \in {"lock", "claim"}
  /\ call' = [call EXCEPT ![t] = step]
  /\ calls' = calls + 1
  /\ UNCHANGED <<native, nativeDropped, thread, lock, instance, claimed,
                 nativeStops, reader, history, flags>>

AcquireLock(t) ==
  /\ call[t] = "lock" /\ lock = NoOwner
  /\ IF instance
     THEN lock' = t /\ call' = [call EXCEPT ![t] = "claim"]
     ELSE call' = [call EXCEPT ![t] = "idle"] /\ UNCHANGED lock
  /\ UNCHANGED <<native, nativeDropped, thread, instance, claimed, calls,
                 nativeStops, reader, history, flags>>

(* The _shutdown flag, tested and set under the agent's own lock. *)
FirstToShutDown == ~claimed

Claim(t) ==
  /\ call[t] = "claim"
  /\ claimed' = TRUE
  /\ call' = [call EXCEPT ![t] = IF FirstToShutDown THEN "native" ELSE "unlock"]
  /\ UNCHANGED <<native, nativeDropped, thread, lock, instance, calls,
                 nativeStops, reader, history, flags>>

(* Native Shutdown() clears the sink and waits out a callback in progress; *)
(* when it raises, the sink may still be there and stop() goes on.         *)
NativeShutdown(t) ==
  /\ call[t] = "native"
  /\ \/ inFlight = NoNumber /\ sinkOn' = FALSE
     \/ UNCHANGED sinkOn
  /\ nativeStops' = nativeStops + 1
  /\ call' = [call EXCEPT ![t] = "deactivate"]
  /\ UNCHANGED <<bridgeOn, emitted, inFlight, queue, nativeDropped, thread, lock,
                 instance, claimed, calls, reader, history, flags>>

(* NativeLogConsumer.stop() *)
DeactivateBridge(t) ==
  /\ call[t] = "deactivate"
  /\ bridgeOn' = FALSE
  /\ call' = [call EXCEPT ![t] = "set"]
  /\ UNCHANGED <<sinkOn, emitted, inFlight, queue, nativeDropped, thread, lock,
                 instance, claimed, calls, nativeStops, reader, history, flags>>

SetStop(t) ==
  /\ call[t] = "set"
  /\ stopSet' = TRUE
  /\ call' = [call EXCEPT ![t] = IF t = Consumer THEN "unlock" ELSE "join"]
  /\ UNCHANGED <<native, nativeDropped, thread, lock, instance, claimed, calls,
                 nativeStops, reader, history, finalizing>>

(* _JOIN_TIMEOUT_SECONDS may pass wherever the consumer is. *)
JoinsForever == at = "exited"                          \* mutant
JoinReturns == TRUE

Join(t) ==
  /\ call[t] = "join" /\ JoinReturns
  /\ call' = [call EXCEPT ![t] = "unlock"]
  /\ UNCHANGED <<native, nativeDropped, thread, lock, instance, claimed, calls,
                 nativeStops, reader, history, flags>>

Unlock(t) ==
  /\ call[t] = "unlock"
  /\ IF lock = t
     THEN lock' = NoOwner /\ instance' = FALSE
     ELSE UNCHANGED <<lock, instance>>
  /\ call' = [call EXCEPT ![t] = "idle"]
  /\ UNCHANGED <<native, nativeDropped, thread, claimed, calls, nativeStops,
                 reader, history, flags>>

(* Interpreter exit begins after the atexit call of shutdown(). *)
Finalize ==
  /\ ~finalizing /\ calls > 0 /\ \A t \in Threads : call[t] = "idle"
  /\ finalizing' = TRUE
  /\ UNCHANGED <<native, nativeDropped, thread, callVars, reader, history,
                 stopSet>>

-----------------------------------------------------------------------------
(* Agent.native_log_dropped: two counters read one after the other; once   *)
(* the bridge is released the first one is all there is.                   *)
Counters == <<counted, nativeDropped>>

ReadFirst ==
  /\ first = NotReading /\ Len(reads) < MaxReads
  /\ first' = Counters[1]
  /\ UNCHANGED <<native, nativeDropped, thread, callVars, reads, history, flags>>

ReadSecond ==
  /\ first # NotReading
  /\ reads' = Append(reads, IF at = "exited" THEN counted ELSE first + Counters[2])
  /\ first' = NotReading
  /\ UNCHANGED <<native, nativeDropped, thread, callVars, history, flags>>

-----------------------------------------------------------------------------
Producer == Emit \/ EnqueueRecord
Draining == PopOne \/ PopEnds \/ DrainFails \/ Delivered \/ TakeDropped \/ AddDropped
Run      == Poll \/ Draining \/ Deliver
CallStep(t) == \/ AcquireLock(t) \/ Claim(t) \/ NativeShutdown(t)
               \/ DeactivateBridge(t) \/ SetStop(t) \/ Join(t) \/ Unlock(t)
Reading  == ReadFirst \/ ReadSecond

ConsumerNext ==
  \/ Producer \/ Run \/ Reading \/ Finalize
  \/ \E t \in Callers : CallStep(t) \/ (\E s \in {"lock", "claim"} : BeginShutdown(t, s))

ConsumerSpec == ConsumerInit /\ [][ConsumerNext]_vars

(* Threads that can run do, and a native callback copies and returns.  A   *)
(* log handler may hang: there is no fairness of Deliver.                  *)
ConsumerFairness ==
  /\ WF_vars(EnqueueRecord) /\ WF_vars(Poll \/ Draining)
  /\ \A t \in Callers : WF_vars(CallStep(t))

ConsumerFairSpec == ConsumerSpec /\ ConsumerFairness

-----------------------------------------------------------------------------
(* Properties *)

Steps == {"idle", "lock", "claim", "native", "deactivate", "set", "join", "unlock"}

(* Every variable has its type. *)
ConsumerTypeOK ==
  /\ sinkOn \in BOOLEAN /\ bridgeOn \in BOOLEAN /\ emitted \in 0..MaxRecords
  /\ inFlight \in 0..MaxRecords
  /\ queue \in Seq(1..MaxRecords) /\ Len(queue) <= QueueSize
  /\ nativeDropped \in Nat /\ taken \in Nat /\ counted \in Nat
  /\ at \in {"wait", "drain", "deliver", "take", "add", "exited"}
  /\ phase \in {"poll", "final", "last"}
  /\ batch \in Seq(1..MaxRecords) /\ Len(batch) <= BatchSize
  /\ found \in BOOLEAN /\ stopSet \in BOOLEAN /\ finalizing \in BOOLEAN
  /\ call \in [Callers -> Steps] /\ lock \in Callers \cup {NoOwner}
  /\ instance \in BOOLEAN /\ claimed \in BOOLEAN /\ calls \in 0..MaxCalls
  /\ first \in Nat \cup {NotReading} /\ reads \in Seq(Nat)
  /\ handled \in Seq(1..MaxRecords) /\ discarded \subseteq 1..MaxRecords
  /\ totalDropped \in Nat /\ nativeStops \in Nat

(* "shutdown() drains what is queued": when native let go of the sink and  *)
(* every drain worked, the thread that exits on stop leaves no record in   *)
(* the bridge and no drop uncounted (docs/api_contracts.md, section 11).   *)
NothingStranded ==
  at = "exited" /\ phase = "last" /\ ~sinkOn /\ discarded = {}
    => /\ queue = <<>> /\ inFlight = NoNumber
       /\ counted = totalDropped
       /\ Len(handled) + counted = emitted

(* The order in which records were logged is the order they are handled    *)
(* in, across polls, failed drains and the last drain.                     *)
HandledInOrder ==
  \A i, j \in DOMAIN handled : i < j => handled[i] < handled[j]

(* No drop is counted twice between the bridge and the consumer, and no    *)
(* reader of native_log_dropped is told of more drops than there were.     *)
DropsNotOverstated ==
  /\ nativeDropped + taken + counted = totalDropped
  /\ \A i \in DOMAIN reads : reads[i] <= totalDropped

(* Whatever the consumer, native and the callers of shutdown() do, in      *)
(* whatever order: nothing is lost, reordered or miscounted.               *)
NothingLost ==
  ConsumerTypeOK /\ NothingStranded /\ HandledInOrder /\ DropsNotOverstated

(* "a handler that never returns cannot hold up teardown": every shutdown  *)
(* call of an application thread returns, even while the consumer waits    *)
(* for _lock inside a handler, or hangs in one.                            *)
ShutdownReturns == \A t \in Threads : call[t] # "idle" ~> call[t] = "idle"

(* When its handlers return, the consumer thread ends after a stop, also   *)
(* when one of them called shutdown() itself.                              *)
ConsumerEnds == WF_vars(Deliver) => (stopSet ~> at = "exited")

(* The teardown of the log bridge comes to its end on both sides: the call   *)
(* that asks for it returns, and the thread it stops is gone                *)
(* (NativeLogConsumer.stop and _run).                                       *)
TeardownEnds == ShutdownReturns /\ ConsumerEnds
===============================================================================
