---------------------------- MODULE AgentLifecycle ----------------------------
(***************************************************************************)
(* The process-wide agent (pinpoint/agent.py): init() and shutdown() of    *)
(* several threads under the module's re-entrant _lock, Agent.shutdown()   *)
(* without it, the SIGTERM and atexit drain, and fork().                   *)
(*                                                                         *)
(* A forked child has one thread, the one that forked, and a copy of all   *)
(* Python state, locks included; native threads stay in the parent.  The   *)
(* after-in-child hook runs before anything else there.  Native agents are *)
(* numbered as they start; their own life is outside src/.                 *)
(***************************************************************************)
EXTENDS Integers, FiniteSets

CONSTANTS
  Processes, Root,   \* processes, and the first one
  Threads, MainThread,
  MaxAgents,         \* bound: native agents started
  MaxCalls,          \* bound: calls per process; a survived drain counts, even as one more
  DirectCallers,     \* processes whose user code also calls Agent.shutdown()
  Interruptible,     \* processes where SIGTERM may interrupt an agent call
  ForkAnywhere       \* TRUE: fork() may happen during the first init()

NoThread == "none"
NoAgent  == 0
Drain    == "drain"          \* shutdown() as the SIGTERM handler or atexit runs it

ASSUME LifecycleAssumption ==
  /\ Root \in Processes /\ MainThread \in Threads
  /\ NoThread \notin Threads /\ Drain \notin Threads
  /\ MaxAgents \in Nat /\ MaxCalls \in Nat
  /\ DirectCallers \subseteq Processes
  /\ Interruptible \subseteq Processes /\ ForkAnywhere \in BOOLEAN

Activities == Threads \cup {Drain}

VARIABLES
  status,     \* per process: unborn, running, exited
  main,       \* its main thread
  instance,   \* _instance: [kind, agent]
  lock,       \* _lock: [owner, count]
  hook,       \* _fork_hook_registered
  atexit,     \* _atexit_registered
  handler,    \* the SIGTERM handler is installed
  claimed,    \* the agents whose _shutdown flag is set
  at,         \* where each activity is; "absent": no such thread
  using,      \* the agent a call works on
  mode,       \* how it was called: plain, prefork (init) or direct (on the Agent)
  calls,      \* calls made, and drains survived
  running,    \* native agents running in the process
  started,    \* history: all native agents ever started
  lastAgent,  \* number of the last native agent
  due         \* history: the agents running when the drain was asked for

process == <<status, main, due>>
module  == <<instance, hook, atexit, handler, claimed>>
call    == <<at, using, mode>>
natives == <<running, started, lastAgent>>
vars    == <<process, module, lock, call, calls, natives>>

None    == [kind |-> "none", agent |-> NoAgent]
Null    == [kind |-> "null", agent |-> NoAgent]
Pending == [kind |-> "pending", agent |-> NoAgent]
Live(a) == [kind |-> "live", agent |-> a]
Free    == [owner |-> NoThread, count |-> 0]

Init ==
  /\ status = [p \in Processes |-> IF p = Root THEN "running" ELSE "unborn"]
  /\ main = [p \in Processes |-> MainThread]
  /\ instance = [p \in Processes |-> None]
  /\ lock = [p \in Processes |-> Free]
  /\ hook = [p \in Processes |-> FALSE]
  /\ atexit = [p \in Processes |-> FALSE]
  /\ handler = [p \in Processes |-> FALSE]
  /\ claimed = [p \in Processes |-> {}]
  /\ at = [p \in Processes |-> [a \in Activities |->
             IF p = Root /\ a \in Threads THEN "idle" ELSE "absent"]]
  /\ using = [p \in Processes |-> [a \in Activities |-> NoAgent]]
  /\ mode = [p \in Processes |-> [a \in Activities |-> "plain"]]
  /\ calls = [p \in Processes |-> 0]
  /\ running = [p \in Processes |-> {}]
  /\ started = [p \in Processes |-> {}]
  /\ lastAgent = NoAgent
  /\ due = [p \in Processes |-> {}]

-----------------------------------------------------------------------------
(* The drain runs on the main thread, on top of whatever it was doing. *)
ThreadOf(p, a) == IF a = Drain THEN main[p] ELSE a
Interrupted(p, a) == a = main[p] /\ at[p][Drain] # "absent"

Step(p, a, from) ==
  status[p] = "running" /\ at[p][a] = from /\ ~Interrupted(p, a)

Goto(p, a, to) == at' = [at EXCEPT ![p][a] = to]

LockIsFree(p, a) == lock[p].owner = NoThread           \* mutant
LockNotTaken(p, a) == TRUE                             \* mutant
CanLock(p, a) == lock[p].owner \in {NoThread, ThreadOf(p, a)}

Acquire(p, a) ==
  /\ CanLock(p, a)
  /\ lock' = [lock EXCEPT ![p] = [owner |-> ThreadOf(p, a), count |-> @.count + 1]]
Release(p) ==
  lock' = [lock EXCEPT ![p] = IF @.count = 1 THEN Free
                              ELSE [owner |-> @.owner, count |-> @.count - 1]]

BeginCall(p, t, to) ==
  /\ t \in Threads /\ Step(p, t, "idle") /\ calls[p] < MaxCalls
  /\ calls' = [calls EXCEPT ![p] = @ + 1]
  /\ Goto(p, t, to)

(* The end of a call: the drain goes on to end the process. *)
After(a) == IF a = Drain THEN "die" ELSE "idle"
Return(p, a) ==
  /\ Goto(p, a, After(a))
  /\ using' = [using EXCEPT ![p][a] = NoAgent]
  /\ mode' = [mode EXCEPT ![p][a] = "plain"]

-----------------------------------------------------------------------------
(* init() *)

CallInit(p, t) ==
  /\ BeginCall(p, t, "init")
  /\ \E m \in {"plain", "prefork"} : mode' = [mode EXCEPT ![p][t] = m]
  /\ UNCHANGED <<process, module, lock, using, natives>>

(* An agent that is there is returned, also one that is shut down. *)
NotInitialized(p) == instance[p].kind = "none"

EnterInit(p, t) ==
  /\ Step(p, t, "init") /\ CanLock(p, t)
  /\ IF NotInitialized(p)
     THEN Acquire(p, t) /\ Goto(p, t, "start") /\ UNCHANGED <<using, mode>>
     ELSE UNCHANGED lock /\ Return(p, t)
  /\ UNCHANGED <<process, module, calls, natives>>

(* Disabled, or startup failed: nothing is registered. *)
Disable(p, t) ==
  /\ Step(p, t, "start")
  /\ instance' = [instance EXCEPT ![p] = Null]
  /\ Release(p)
  /\ Return(p, t)
  /\ UNCHANGED <<process, hook, atexit, handler, claimed, calls, natives>>

NativeStart(p) ==
  /\ lastAgent < MaxAgents
  /\ lastAgent' = lastAgent + 1
  /\ running' = [running EXCEPT ![p] = @ \cup {lastAgent + 1}]
  /\ started' = [started EXCEPT ![p] = @ \cup {lastAgent + 1}]

Start(p, t) ==
  /\ Step(p, t, "start")
  /\ IF mode[p][t] = "prefork"
     THEN UNCHANGED <<using, natives>>
     ELSE NativeStart(p) /\ using' = [using EXCEPT ![p][t] = lastAgent + 1]
  /\ Goto(p, t, "publish")
  /\ UNCHANGED <<process, module, lock, mode, calls>>

(* _instance is assigned, then atexit and, on the main thread, SIGTERM. *)
Publish(p, t) ==
  /\ Step(p, t, "publish")
  /\ instance' = [instance EXCEPT ![p] =
                    IF mode[p][t] = "prefork" THEN Pending ELSE Live(using[p][t])]
  /\ atexit' = [atexit EXCEPT ![p] = TRUE]
  /\ handler' = [handler EXCEPT ![p] = @ \/ (mode[p][t] # "prefork" /\ t = main[p])]
  /\ Goto(p, t, "hook")
  /\ UNCHANGED <<process, hook, claimed, lock, using, mode, calls, natives>>

RegisterHook(p, t) ==
  /\ Step(p, t, "hook")
  /\ hook' = [hook EXCEPT ![p] = TRUE]
  /\ Release(p)
  /\ Return(p, t)
  /\ UNCHANGED <<process, instance, atexit, handler, claimed, calls, natives>>

-----------------------------------------------------------------------------
(* shutdown() *)

CallShutdown(p, t) ==
  /\ BeginCall(p, t, "shutdown")
  /\ UNCHANGED <<process, module, lock, using, mode, natives>>

(* It keeps _lock from here on; an agent without native part is dropped.   *)
EnterShutdown(p, a) ==
  /\ Step(p, a, "shutdown") /\ CanLock(p, a)
  /\ IF instance[p].kind = "none"
     THEN UNCHANGED lock /\ Return(p, a)
     ELSE /\ Acquire(p, a)
          /\ using' = [using EXCEPT ![p][a] = instance[p].agent]
          /\ Goto(p, a, IF instance[p].kind = "live" THEN "claim" ELSE "drop")
          /\ UNCHANGED mode
  /\ UNCHANGED <<process, module, calls, natives>>

(* Agent.shutdown() on its own; get_agent() takes no lock. *)
CallAgentShutdown(p, t) ==
  /\ p \in DirectCallers /\ instance[p].kind = "live"
  /\ BeginCall(p, t, "claim")
  /\ using' = [using EXCEPT ![p][t] = instance[p].agent]
  /\ mode' = [mode EXCEPT ![p][t] = "direct"]
  /\ UNCHANGED <<process, module, lock, natives>>

(* The _shutdown flag decides who runs native shutdown; others go on.      *)
Claim(p, a) ==
  /\ Step(p, a, "claim")
  /\ claimed' = [claimed EXCEPT ![p] = @ \cup {using[p][a]}]
  /\ Goto(p, a, IF using[p][a] \in claimed[p] THEN "drop" ELSE "native")
  /\ UNCHANGED <<process, instance, hook, atexit, handler, lock, using, mode,
                 calls, natives>>

NativeShutdown(p, a) ==
  /\ Step(p, a, "native")
  /\ running' = [running EXCEPT ![p] = @ \ {using[p][a]}]
  /\ Goto(p, a, "drop")
  /\ UNCHANGED <<process, module, lock, using, mode, calls, started, lastAgent>>

(* Back in shutdown() of the module, or in the caller of Agent.shutdown(). *)
Drop(p, a) ==
  /\ Step(p, a, "drop")
  /\ IF mode[p][a] = "direct"
     THEN UNCHANGED <<lock, instance>>
     ELSE Release(p) /\ instance' = [instance EXCEPT ![p] = None]
  /\ Return(p, a)
  /\ UNCHANGED <<process, hook, atexit, handler, claimed, calls, natives>>

-----------------------------------------------------------------------------
(* The end of a process: SIGTERM with our handler installed, or the end of *)
(* the main thread with atexit registered.                                 *)
AskToDrain(p) ==
  /\ status[p] = "running" /\ at[p][Drain] = "absent"
  /\ \/ at[p][main[p]] = "idle" /\ (handler[p] \/ atexit[p])
     \/ p \in Interruptible /\ handler[p]
  /\ at' = [at EXCEPT ![p][Drain] = "shutdown"]
  /\ due' = [due EXCEPT ![p] = running[p]]
  /\ UNCHANGED <<status, main, module, lock, using, mode, calls, natives>>

Die(p) ==
  /\ Step(p, Drain, "die")
  /\ status' = [status EXCEPT ![p] = "exited"]
  /\ UNCHANGED <<main, due, module, lock, call, calls, natives>>

(* "The user's handler owns the disposition from here": where the program  *)
(* had a handler of its own it is called instead; when that returns, what  *)
(* the signal interrupted goes on.                                         *)
HandlerReturns(p) ==
  /\ Step(p, Drain, "die") /\ handler[p] /\ calls[p] <= MaxCalls
  /\ calls' = [calls EXCEPT ![p] = @ + 1]
  /\ Goto(p, Drain, "absent")
  /\ UNCHANGED <<process, module, lock, using, mode, natives>>

-----------------------------------------------------------------------------
(* fork() by thread t of p, and the hook in the child c *)

DisablesInherited(i) == IF i.kind = "none" THEN None ELSE Null

LockInherited(p) == lock[p]                            \* mutant
LockReplaced(p) == Free

(* A pending agent is started in the worker; a live one is detached,       *)
(* without a call into its native part.                                    *)
Reinit(p, c) ==
  /\ lock' = [lock EXCEPT ![c] = LockReplaced(p)]
  /\ \/ /\ instance[p].kind = "pending"
        /\ NativeStart(c)
        /\ instance' = [instance EXCEPT ![c] = Live(lastAgent + 1)]
        /\ handler' = [handler EXCEPT ![c] = TRUE]
     \/ /\ instance' = [instance EXCEPT ![c] = DisablesInherited(instance[p])]
        /\ handler' = [handler EXCEPT ![c] = handler[p]]
        /\ UNCHANGED natives

CopyModule(p, c) ==
  /\ lock' = [lock EXCEPT ![c] = lock[p]]
  /\ instance' = [instance EXCEPT ![c] = instance[p]]
  /\ handler' = [handler EXCEPT ![c] = handler[p]]
  /\ UNCHANGED natives

Fork(p, c, t) ==
  /\ t \in Threads /\ Step(p, t, "idle") /\ status[c] = "unborn"
  /\ ForkAnywhere \/ hook[p] \/ lock[p] = Free
  /\ status' = [status EXCEPT ![c] = "running"]
  /\ main' = [main EXCEPT ![c] = t]
  /\ at' = [at EXCEPT ![c] = [a \in Activities |-> IF a = t THEN "idle" ELSE "absent"]]
  /\ hook' = [hook EXCEPT ![c] = hook[p]]
  /\ atexit' = [atexit EXCEPT ![c] = atexit[p]]
  /\ claimed' = [claimed EXCEPT ![c] = claimed[p]]
  /\ IF hook[p] THEN Reinit(p, c) ELSE CopyModule(p, c)
  /\ UNCHANGED <<due, using, mode, calls>>

-----------------------------------------------------------------------------
Advance(p, a) ==
  \/ EnterInit(p, a) \/ Disable(p, a) \/ Start(p, a) \/ Publish(p, a)
  \/ RegisterHook(p, a) \/ EnterShutdown(p, a) \/ Claim(p, a)
  \/ NativeShutdown(p, a) \/ Drop(p, a)

Next ==
  \E p \in Processes :
    \/ \E a \in Activities : Advance(p, a)
    \/ \E t \in Threads : \/ CallInit(p, t) \/ CallShutdown(p, t)
                          \/ CallAgentShutdown(p, t)
                          \/ \E c \in Processes : Fork(p, c, t)
    \/ AskToDrain(p) \/ Die(p) \/ HandlerReturns(p)

Spec == Init /\ [][Next]_vars

(* A thread inside a call goes on, and takes _lock when it stays free;     *)
(* native start and shutdown return.                                       *)
Fairness ==
  \A p \in Processes :
    /\ \A a \in Activities : WF_vars(Advance(p, a))
    /\ WF_vars(Die(p))
FairSpec == Spec /\ Fairness

-----------------------------------------------------------------------------
(* Properties *)

Places == {"absent", "idle", "init", "start", "publish", "hook", "shutdown",
           "claim", "native", "drop", "die"}

(* Every variable has its type; the count of _lock tells whether it is held. *)
TypeOK ==
  /\ status \in [Processes -> {"unborn", "running", "exited"}]
  /\ main \in [Processes -> Threads]
  /\ instance \in [Processes -> {None, Null, Pending} \cup {Live(a) : a \in 1..MaxAgents}]
  /\ lock \in [Processes -> [owner : Threads \cup {NoThread}, count : 0..2]]
  /\ \A p \in Processes : lock[p].owner = NoThread <=> lock[p].count = 0
  /\ hook \in [Processes -> BOOLEAN] /\ atexit \in [Processes -> BOOLEAN]
  /\ handler \in [Processes -> BOOLEAN]
  /\ claimed \in [Processes -> SUBSET (1..MaxAgents)]
  /\ at \in [Processes -> [Activities -> Places]]
  /\ using \in [Processes -> [Activities -> 0..MaxAgents]]
  /\ mode \in [Processes -> [Activities -> {"plain", "prefork", "direct"}]]
  /\ calls \in [Processes -> 0..(MaxCalls + 1)]
  /\ running \in [Processes -> SUBSET (1..MaxAgents)]
  /\ started \in [Processes -> SUBSET (1..MaxAgents)]
  /\ lastAgent \in 0..MaxAgents
  /\ due \in [Processes -> SUBSET (1..MaxAgents)]

(* Where the agent is only ended through shutdown(): Agent.shutdown()      *)
(* takes no _lock, and a shutdown() that finds its flag set goes on.       *)
Disciplined == Processes \ DirectCallers

(* Calls of init() and shutdown() on several threads, restarts included,   *)
(* never have two native agents running in one process.                    *)
OneNativeAgent == \A p \in Disciplined : Cardinality(running[p]) <= 1

(* "Threads and gRPC channels never cross the fork boundary" (init): no    *)
(* process holds, or works on, a native agent of its parent.               *)
InheritedNeverTouched ==
  \A p \in Processes :
    /\ instance[p].kind = "live" => instance[p].agent \in started[p]
    /\ \A a \in Activities : using[p][a] # NoAgent => using[p][a] \in started[p]

(* "The module lock is replaced before any acquisition because it may have *)
(* been held by a parent thread that no longer exists": no process is left *)
(* with _lock owned by a thread it does not have.                          *)
LockOwnerExists ==
  \A p \in Processes :
    status[p] = "running" /\ lock[p].owner # NoThread
      => at[p][lock[p].owner] # "absent"

Drained(p) == status[p] = "exited" => due[p] \cap running[p] = {}

(* A process asked to end while its main thread is in no agent call does   *)
(* not die before the agents that ran then have been shut down, whatever   *)
(* another thread was doing with them.                                     *)
DrainedBeforeDeath == \A p \in Disciplined \ Interruptible : Drained(p)

(* An agent in an idle module has not been orphaned: what runs is what     *)
(* _instance shows, so some later shutdown() can reach it.                 *)
RunningIsReachable ==
  \A p \in Disciplined :
    status[p] = "running" /\ lock[p] = Free
      => \A a \in running[p] : instance[p] = Live(a)

(* init(), shutdown(), the drain and the fork hook, in any order on any    *)
(* thread: one agent of the process's own, reachable, drained in time.     *)
OneDrainedAgent ==
  TypeOK /\ OneNativeAgent /\ RunningIsReachable /\ DrainedBeforeDeath
    /\ InheritedNeverTouched

(* Every init() and shutdown() call returns, the drain's included, also in *)
(* children forked while another thread of the parent was inside one.      *)
CallsReturn ==
  \A p \in Processes, a \in Activities :
    []<>(at[p][a] \in {"absent", "idle"} \/ status[p] = "exited")
===============================================================================
