------------------------- MODULE AgentLifecycleProofs -------------------------
(***************************************************************************)
(* Proofs about AgentLifecycle, for any number of processes, threads,      *)
(* calls and agents: of the module lock, and of the one agent of a process *)
(* that is drained before the process dies.                                *)
(*                                                                         *)
(* Everything is said of one process at a time: a step changes one         *)
(* process, and fork() the child it makes.                                 *)
(***************************************************************************)
EXTENDS AgentLifecycle, FiniteSetTheorems, TLAPS

-----------------------------------------------------------------------------
(* The inductive invariant *)

(* Activity a of p is inside a `with _lock:` block. *)
Holds(p, a) ==
  \/ at[p][a] \in {"start", "publish", "hook"}
  \/ at[p][a] \in {"claim", "native", "drop"} /\ mode[p][a] # "direct"

(* Where an activity may be, how it was called and what it works on. *)
Whereabouts(p, a) ==
  /\ a = Drain => at[p][a] \in {"absent", "shutdown", "claim", "native", "drop", "die"}
  /\ a \in Threads => at[p][a] # "die"
  /\ mode[p][a] = "prefork" => at[p][a] \in {"init", "start", "publish", "hook"}
  /\ mode[p][a] = "direct" => /\ at[p][a] \in {"claim", "native", "drop"}
                              /\ a \in Threads /\ p \in DirectCallers
  /\ at[p][a] \in {"absent", "idle", "init", "start", "shutdown", "die"}
       => using[p][a] = NoAgent
  /\ at[p][a] \in {"publish", "hook"}
       => (using[p][a] = NoAgent <=> mode[p][a] = "prefork")
  /\ at[p][a] \in {"claim", "native"} => using[p][a] # NoAgent

(* A process without a life of its own yet, or any more. *)
Life(p) ==
  /\ status[p] = "unborn" =>
       /\ \A a \in Activities : at[p][a] = "absent" /\ mode[p][a] = "plain"
       /\ lock[p] = Free /\ running[p] = {} /\ due[p] = {}
  /\ status[p] = "running" => at[p][main[p]] # "absent"
  /\ status[p] = "exited" => at[p][Drain] = "die"

(* Agents are numbered as they start. *)
Numbered(p) ==
  /\ running[p] \cup started[p] \cup claimed[p] \cup due[p] \subseteq 1..lastAgent

(* Who holds _lock: its owner, twice only when the drain came on top. *)
LockInv(p) ==
  /\ \A a \in Activities : Holds(p, a) => lock[p].owner = ThreadOf(p, a)
  /\ lock[p].owner # NoThread => \E a \in Activities : Holds(p, a)
  /\ lock[p].count = 1 =>
       \A a, b \in Activities : Holds(p, a) /\ Holds(p, b) => a = b
  /\ lock[p].count = 2 => Holds(p, Drain) /\ Holds(p, main[p])

(* What a process has or works on, it started itself. *)
OwnAgents(p) ==
  /\ instance[p].kind = "live" => instance[p].agent \in started[p]
  /\ \A a \in Activities : using[p][a] # NoAgent => using[p][a] \in started[p]

(* Between the assignment of _instance and the registration of the hook    *)
(* the lock is held.                                                       *)
HookInv(p) ==
  instance[p].kind \in {"live", "pending"} /\ ~hook[p]
    => \E t \in Threads : at[p][t] = "hook"

(* What runs is what _instance shows, and a flag that is set means that    *)
(* native shutdown is over.                                                *)
Shown(p) ==
  /\ running[p] \subseteq {instance[p].agent}
  /\ instance[p].agent \in claimed[p] => running[p] = {}

(* The only activity that holds the lock, interrupted or not. *)
Alone(p, a) == Holds(p, a) /\ lock[p].count = 1

(* How far it is from a free lock.  A drain that interrupted it and        *)
(* returned may have shut down its agent meanwhile.                        *)
Settling(p, a) ==
  /\ at[p][a] = "start" => instance[p] = None /\ running[p] = {}
  /\ at[p][a] = "publish" => /\ instance[p] = None
                             /\ running[p] \subseteq {using[p][a]}
                             /\ using[p][a] \notin claimed[p]
  /\ at[p][a] \in {"hook", "claim"} => Shown(p)
  /\ at[p][a] = "claim" => instance[p].agent = using[p][a] \/ running[p] = {}
  /\ at[p][a] = "native" => running[p] \subseteq {using[p][a]}
  /\ at[p][a] = "drop" => running[p] = {}

(* The drain holds the lock on top of the main thread: it does the         *)
(* shutdown, or finds that the main thread is about to.                    *)
OnTop(p) ==
  \/ at[p][main[p]] \in {"hook", "claim"} /\ Settling(p, Drain)
  \/ at[p][main[p]] \in {"native", "drop"} /\ Settling(p, main[p])

Serial(p) ==
  p \in Disciplined =>
    /\ \A a, b \in running[p] : a = b
    /\ lock[p] = Free => Shown(p)
    /\ \A a \in Activities : Alone(p, a) => Settling(p, a)
    /\ lock[p].count = 2 => OnTop(p)

(* The drain of a process whose main thread was idle. *)
DrainInv(p) ==
  p \in Disciplined \ Interruptible =>
    /\ at[p][Drain] # "absent" => at[p][main[p]] = "idle"
    /\ at[p][Drain] = "die" => due[p] \cap running[p] = {}

ProcessInv(p) ==
  /\ \A a \in Activities : Whereabouts(p, a)
  /\ Life(p) /\ Numbered(p) /\ LockInv(p) /\ OwnAgents(p) /\ HookInv(p)
  /\ Serial(p) /\ DrainInv(p)

LifecycleInv == TypeOK /\ \A p \in Processes : ProcessInv(p)

-----------------------------------------------------------------------------
(* What _instance may be, and that only a live agent has a number. *)
LEMMA InstanceIs ==
  ASSUME TypeOK, NEW p \in Processes
  PROVE  /\ instance[p] \in {None, Null, Pending} \/ instance[p].kind = "live"
         /\ instance[p].agent \in 0..MaxAgents
         /\ instance[p].kind = "live" <=> instance[p].agent # NoAgent
         /\ instance[p].kind = "none" => instance[p] = None
         /\ instance[p].kind \notin {"live", "pending"} => instance[p] \in {None, Null}
  <1>1. instance[p] \in {None, Null, Pending} \cup {Live(g) : g \in 1..MaxAgents}
    BY DEF TypeOK
  <1>2. CASE instance[p] = None
    BY <1>2, LifecycleAssumption DEF None, NoAgent
  <1>3. CASE instance[p] = Null
    BY <1>3, LifecycleAssumption DEF Null, NoAgent
  <1>4. CASE instance[p] = Pending
    BY <1>4, LifecycleAssumption DEF Pending, NoAgent
  <1>5. CASE instance[p] \in {Live(g) : g \in 1..MaxAgents}
    <2>1. PICK g \in 1..MaxAgents : instance[p] = Live(g)
      BY <1>5
    <2> QED BY <2>1, LifecycleAssumption DEF Live, NoAgent
  <1> QED BY <1>1, <1>2, <1>3, <1>4, <1>5

-----------------------------------------------------------------------------
(* A step leaves the invariant of the other processes alone. *)
SameProcess(q) ==
  /\ status'[q] = status[q] /\ main'[q] = main[q] /\ due'[q] = due[q]
  /\ instance'[q] = instance[q] /\ hook'[q] = hook[q] /\ claimed'[q] = claimed[q]
  /\ lock'[q] = lock[q] /\ at'[q] = at[q] /\ using'[q] = using[q]
  /\ mode'[q] = mode[q] /\ running'[q] = running[q] /\ started'[q] = started[q]

LEMMA OthersKeepTheirs ==
  ASSUME LifecycleInv, lastAgent' \in Nat, lastAgent <= lastAgent',
         NEW q \in Processes, SameProcess(q)
  PROVE  ProcessInv(q)'
  <1>1. ProcessInv(q) /\ TypeOK
    BY DEF LifecycleInv
  <1>2. (\A a \in Activities : Whereabouts(q, a))'
    BY <1>1 DEF SameProcess, ProcessInv, Whereabouts
  <1>3. Life(q)'
    BY <1>1 DEF SameProcess, ProcessInv, Life
  <1>4. Numbered(q)'
    <2>1. lastAgent \in Nat
      BY <1>1, LifecycleAssumption DEF TypeOK
    <2> QED BY <1>1, <2>1 DEF SameProcess, ProcessInv, Numbered
  <1>5. LockInv(q)'
    BY <1>1 DEF SameProcess, ProcessInv, LockInv, Holds, ThreadOf
  <1>6. OwnAgents(q)' /\ HookInv(q)'
    BY <1>1 DEF SameProcess, ProcessInv, OwnAgents, HookInv
  <1>7. Serial(q)'
    BY <1>1 DEF SameProcess, ProcessInv, Serial, Shown, Alone, Settling, OnTop, Holds
  <1>8. DrainInv(q)'
    BY <1>1 DEF SameProcess, ProcessInv, DrainInv
  <1> QED BY <1>2, <1>3, <1>4, <1>5, <1>6, <1>7, <1>8 DEF ProcessInv

(* What the type invariant says of one process and its lock. *)
LEMMA ProcessFacts ==
  ASSUME LifecycleInv, NEW p \in Processes
  PROVE  /\ TypeOK /\ ProcessInv(p)
         /\ main[p] \in Threads /\ lastAgent \in Nat
         /\ lock[p] \in [owner : Threads \cup {NoThread}, count : 0..2]
         /\ lock[p].owner = NoThread <=> lock[p].count = 0
         /\ lock[p] = Free <=> lock[p].count = 0
         /\ \A a \in Activities : /\ ThreadOf(p, a) \in Threads
                                  /\ a \in Threads => ThreadOf(p, a) = a
                                  /\ Holds(p, a) => lock[p].count \in 1..2
  <1> USE LifecycleAssumption
  <1>1. TypeOK /\ ProcessInv(p)
    BY DEF LifecycleInv
  <1>2. /\ main[p] \in Threads /\ lastAgent \in Nat
        /\ lock[p] \in [owner : Threads \cup {NoThread}, count : 0..2]
        /\ lock[p].owner = NoThread <=> lock[p].count = 0
    BY <1>1 DEF TypeOK
  <1>3. lock[p] = Free <=> lock[p].count = 0
    BY <1>2 DEF Free
  <1>4. \A a \in Activities : /\ ThreadOf(p, a) \in Threads
                              /\ a \in Threads => ThreadOf(p, a) = a
    BY <1>2 DEF ThreadOf, Activities
  <1>5. \A a \in Activities : Holds(p, a) => lock[p].count \in 1..2
    BY <1>1, <1>2, <1>4 DEF ProcessInv, LockInv
  <1> QED BY <1>1, <1>2, <1>3, <1>4, <1>5

(* What comes on top of another activity inside the lock is the drain: a   *)
(* thread that runs and has the lock has it once, and one that may take it *)
(* finds it free.                                                          *)
LEMMA ThreadsDoNotNest ==
  ASSUME LifecycleInv, NEW p \in Processes, NEW a \in Threads, ~Interrupted(p, a)
  PROVE  /\ Holds(p, a) => lock[p].count = 1
         /\ ~Holds(p, a) /\ CanLock(p, a) => lock[p].count = 0
  <1>1. /\ LockInv(p) /\ a \in Activities /\ a # Drain /\ ThreadOf(p, a) = a
        /\ lock[p].owner = NoThread <=> lock[p].count = 0
        /\ Holds(p, a) => lock[p].count \in 1..2
    BY ProcessFacts, LifecycleAssumption DEF ProcessInv, Activities
  <1>2. Holds(p, Drain) => a # main[p]
    BY DEF Holds, Interrupted
  <1>3. Holds(p, a) => lock[p].count # 2
    <2>1. Holds(p, a) /\ lock[p].count = 2 => a = main[p] /\ Holds(p, Drain)
      BY <1>1 DEF LockInv, ThreadOf, Activities
    <2> QED BY <1>2, <2>1
  <1>4. ~Holds(p, a) /\ CanLock(p, a) => lock[p].count = 0
    <2> SUFFICES ASSUME ~Holds(p, a), lock[p].owner = a, lock[p].owner # NoThread
                 PROVE  FALSE
      BY <1>1 DEF CanLock
    <2>1. PICK b \in Activities : Holds(p, b) /\ ThreadOf(p, b) = a
      BY <1>1 DEF LockInv
    <2> QED BY <1>2, <2>1 DEF ThreadOf
  <1> QED BY <1>1, <1>3, <1>4

-----------------------------------------------------------------------------
(* One step of an activity, whatever it does *)

(* What a step of activity a of p leaves alone. *)
OnlyMoves(p, a) ==
  /\ \A q \in Processes \ {p} : SameProcess(q)
  /\ status' = status /\ main' = main /\ due' = due
  /\ \A b \in Activities \ {a} : /\ at'[p][b] = at[p][b]
                                 /\ using'[p][b] = using[p][b]
                                 /\ mode'[p][b] = mode[p][b]

(* What it does with the lock. *)
LockKept(p, a)  == lock'[p] = lock[p] /\ Holds(p, a)' = Holds(p, a)
LockTaken(p, a) == /\ ~Holds(p, a) /\ Holds(p, a)' /\ CanLock(p, a)
                   /\ lock'[p] = [owner |-> ThreadOf(p, a), count |-> lock[p].count + 1]
LockGiven(p, a) == /\ Holds(p, a) /\ ~Holds(p, a)'
                   /\ lock'[p] = IF lock[p].count = 1 THEN Free
                                 ELSE [owner |-> lock[p].owner, count |-> lock[p].count - 1]

Runs(p, a) == /\ status[p] = "running" /\ ~Interrupted(p, a)
              /\ at[p][a] # "absent" /\ at'[p][a] # "absent"

LEMMA LockStepKeeps ==
  ASSUME LifecycleInv, NEW p \in Processes, NEW a \in Activities,
         Runs(p, a), OnlyMoves(p, a),
         LockKept(p, a) \/ LockTaken(p, a) \/ LockGiven(p, a)
  PROVE  /\ LockInv(p)'
         /\ lock'[p] \in [owner : Threads \cup {NoThread}, count : 0..2]
         /\ lock'[p].owner = NoThread <=> lock'[p].count = 0
  <1> USE LifecycleAssumption DEF Activities
  <1>1. /\ main[p] \in Threads /\ main'[p] = main[p]
        /\ lock[p] \in [owner : Threads \cup {NoThread}, count : 0..2]
        /\ lock[p].owner = NoThread <=> lock[p].count = 0
        /\ \A b \in Activities : /\ ThreadOf(p, b) \in Threads
                                 /\ ThreadOf(p, b)' = ThreadOf(p, b)
                                 /\ Holds(p, b) => lock[p].count \in 1..2
    BY ProcessFacts DEF OnlyMoves, ThreadOf
  <1>2. \A b \in Activities \ {a} : Holds(p, b)' = Holds(p, b)
    BY DEF OnlyMoves, Holds
  <1>3. LockInv(p)
    BY ProcessFacts DEF ProcessInv
  <1>4. CASE LockKept(p, a)
    <2>1. \A b \in Activities : Holds(p, b)' = Holds(p, b)
      BY <1>2, <1>4 DEF LockKept
    <2> QED BY <1>1, <1>3, <1>4, <2>1 DEF LockInv, LockKept
  <1>5. CASE LockTaken(p, a)
    <2>1. CASE lock[p].count = 0
      <3>1. \A b \in Activities : ~Holds(p, b)
        BY <1>1, <2>1
      <3> QED BY <1>1, <1>2, <1>5, <2>1, <3>1 DEF LockInv, LockTaken
    <2>2. CASE lock[p].count # 0
      <3>1. lock[p].owner = ThreadOf(p, a)
        BY <1>1, <1>5, <2>2 DEF LockTaken, CanLock
      <3>2. PICK b \in Activities : Holds(p, b)
        BY <1>1, <1>3, <2>2 DEF LockInv
      <3>3. b # a /\ ThreadOf(p, b) = ThreadOf(p, a)
        BY <1>3, <1>5, <3>1, <3>2 DEF LockInv, LockTaken
      <3>4. a = Drain /\ b = main[p]
        <4>1. ~(b = Drain /\ a = main[p])
          BY <3>2 DEF Runs, Interrupted, Holds
        <4> QED BY <1>1, <3>3, <4>1 DEF ThreadOf
      <3>5. lock[p].count = 1
        BY <1>1, <1>3, <1>5, <2>2, <3>4 DEF LockInv, LockTaken
      <3>6. \A c \in Activities : Holds(p, c) => c = b
        BY <1>3, <3>2, <3>5 DEF LockInv
      <3> QED BY <1>1, <1>2, <1>5, <3>1, <3>2, <3>4, <3>5, <3>6 DEF LockInv, LockTaken, ThreadOf
    <2> QED BY <2>1, <2>2
  <1>6. CASE LockGiven(p, a)
    <2>1. CASE lock[p].count = 1
      <3>1. \A b \in Activities : ~Holds(p, b)'
        BY <1>2, <1>3, <1>6, <2>1 DEF LockInv, LockGiven
      <3> QED BY <1>6, <2>1, <3>1 DEF LockInv, LockGiven, Free
    <2>2. CASE lock[p].count # 1
      <3>1. lock[p].count = 2 /\ Holds(p, Drain) /\ Holds(p, main[p])
        BY <1>1, <1>3, <1>6, <2>2 DEF LockInv, LockGiven
      <3>2. a = Drain
        <4>1. a # main[p]
          BY <3>1 DEF Runs, Interrupted, Holds
        <4>2. lock[p].owner = main[p]
          BY <1>3, <3>1 DEF LockInv, ThreadOf
        <4> QED BY <1>1, <1>3, <1>6, <4>1, <4>2 DEF LockInv, LockGiven, ThreadOf
      <3>3. \A b \in Activities : Holds(p, b)' => b = main[p]
        BY <1>1, <1>2, <1>3, <1>6, <3>1, <3>2 DEF LockInv, LockGiven, ThreadOf
      <3> QED BY <1>1, <1>2, <1>3, <1>6, <3>1, <3>2, <3>3 DEF LockInv, LockGiven, ThreadOf
    <2> QED BY <2>1, <2>2
  <1> QED BY <1>4, <1>5, <1>6

(* What it does with the agent. *)
AgentStep(p, a) ==
  p \in Disciplined =>
    /\ \A x, y \in running'[p] : x = y
    /\ running'[p] \subseteq running[p] \cup {lastAgent + 1}
    /\ ~Holds(p, a) => /\ running'[p] = running[p] /\ instance'[p] = instance[p]
                       /\ claimed'[p] = claimed[p]
    /\ lock'[p] = Free => Shown(p)'
    /\ Alone(p, a)' => Settling(p, a)'
    /\ Holds(p, a)' /\ lock'[p].count = 2 => OnTop(p)'
    /\ lock[p].count = 2 /\ lock'[p].count = 1 => Settling(p, main[p])'
    /\ a = Drain /\ at'[p][a] = "die" /\ p \notin Interruptible => running'[p] = {}

LEMMA StepKeeps ==
  ASSUME LifecycleInv, NEW p \in Processes, NEW a \in Activities,
         Runs(p, a), OnlyMoves(p, a), TypeOK',
         LockKept(p, a) \/ LockTaken(p, a) \/ LockGiven(p, a),
         Whereabouts(p, a)', OwnAgents(p)', HookInv(p)',
         lastAgent <= lastAgent', Numbered(p)', AgentStep(p, a)
  PROVE  LifecycleInv'
  <1> USE LifecycleAssumption
  <1>1. /\ main[p] \in Threads /\ main'[p] = main[p]
        /\ \A b \in Activities : Whereabouts(p, b)
        /\ Life(p) /\ Numbered(p) /\ LockInv(p) /\ Serial(p) /\ DrainInv(p)
    BY ProcessFacts DEF ProcessInv, OnlyMoves
  <1>2. LockInv(p)'
    BY LockStepKeeps
  <1>3. \A b \in Activities : Whereabouts(p, b)'
    <2>1. \A b \in Activities \ {a} : Whereabouts(p, b)'
      BY <1>1 DEF OnlyMoves, Whereabouts
    <2> QED BY <2>1
  <1>4. Life(p)'
    BY <1>1 DEF Life, OnlyMoves, Runs, Activities
  <1>5. DrainInv(p)'
    <2> SUFFICES ASSUME p \in Disciplined, p \notin Interruptible, at'[p][Drain] # "absent"
                 PROVE  /\ at'[p][main[p]] = "idle"
                        /\ at'[p][Drain] = "die" => due'[p] \cap running'[p] = {}
      BY <1>1 DEF DrainInv
    <2>1. at[p][Drain] # "absent" /\ at[p][main[p]] = "idle"
      <3>1. at[p][Drain] # "absent"
        BY DEF OnlyMoves, Runs, Activities
      <3> QED BY <1>1, <3>1 DEF DrainInv
    <2>2. a # main[p]
      BY <2>1 DEF Runs, Interrupted
    <2>3. CASE a = Drain
      BY <1>1, <2>1, <2>2, <2>3 DEF AgentStep, OnlyMoves, Activities
    <2>4. CASE a # Drain
      <3>1. at'[p][Drain] = at[p][Drain] /\ at'[p][main[p]] = at[p][main[p]]
        BY <1>1, <2>2, <2>4 DEF OnlyMoves, Activities
      <3>2. lastAgent \in Nat /\ due[p] \subseteq 1..lastAgent /\ due' = due
        BY <1>1, ProcessFacts DEF Numbered, OnlyMoves
      <3> QED BY <1>1, <2>1, <3>1, <3>2 DEF AgentStep, DrainInv
    <2> QED BY <2>3, <2>4
  <1>6. Serial(p)'
    <2> SUFFICES ASSUME p \in Disciplined
                 PROVE  /\ \A b \in Activities \ {a} : Alone(p, b)' => Settling(p, b)'
                        /\ ~Holds(p, a)' /\ lock'[p].count = 2 => OnTop(p)'
      BY DEF AgentStep, Serial
    <2>1. \A b \in Activities \ {a} : Holds(p, b)' = Holds(p, b)
      BY DEF OnlyMoves, Holds
    <2>2. ASSUME NEW b \in Activities \ {a}, Alone(p, b)'
          PROVE  Settling(p, b)'
      <3>1. Holds(p, b) /\ ~Holds(p, a)' /\ lock'[p].count = 1
        BY <1>2, <2>1, <2>2 DEF Alone, LockInv
      <3>2. CASE lock[p].count = 2
        <4>1. Holds(p, Drain) /\ a # main[p]
          BY <1>1, <3>2 DEF LockInv, Runs, Interrupted, Holds
        <4>2. Holds(p, a)
          BY <3>1, <3>2 DEF LockKept, LockTaken, LockGiven
        <4>3. lock'[p].owner = ThreadOf(p, b)' /\ lock'[p].owner = main[p]
          BY <1>1, <1>2, <2>2, <3>2, <4>2, <3>1
             DEF LockInv, Alone, LockKept, LockTaken, LockGiven, ThreadOf, Activities
        <4>4. b = main[p] \/ b = Drain
          BY <1>1, <4>3 DEF ThreadOf
        <4>5. a = Drain
          BY <1>1, <3>2, <4>1, <4>2 DEF LockInv, ThreadOf, Activities
        <4> QED BY <1>1, <2>2, <3>1, <3>2, <4>4, <4>5 DEF AgentStep
      <3>3. CASE lock[p].count # 2
        <4>1. lock[p].count = 1 /\ ~Holds(p, a)
          <5>1. lock[p].count = 1
            BY <1>1, <3>1, <3>3, ProcessFacts
          <5>2. ~Holds(p, a)
            BY <1>1, <3>1, <5>1 DEF LockInv
          <5> QED BY <5>1, <5>2
        <4>2. Settling(p, b)
          BY <1>1, <3>1, <4>1 DEF Serial, Alone
        <4> QED BY <4>1, <4>2 DEF AgentStep, OnlyMoves, Settling, Shown
      <3> QED BY <3>2, <3>3
    <2>3. ASSUME ~Holds(p, a)', lock'[p].count = 2
          PROVE  OnTop(p)'
      <3>1. LockKept(p, a) /\ ~Holds(p, a) /\ lock[p].count = 2
        <4>1. lock[p].count \in 0..2
          BY ProcessFacts
        <4>2. ~LockGiven(p, a)
          BY <2>3, <4>1 DEF LockGiven, Free
        <4> QED BY <2>3, <4>2 DEF LockKept, LockTaken
      <3>2. Holds(p, Drain) /\ Holds(p, main[p]) /\ OnTop(p)
        BY <1>1, <3>1 DEF LockInv, Serial
      <3>3. a # Drain /\ a # main[p]
        BY <3>1, <3>2
      <3> QED BY <1>1, <3>1, <3>2, <3>3
              DEF AgentStep, OnlyMoves, OnTop, Settling, Shown, Activities
    <2> QED BY <2>2, <2>3
  <1>7. \A q \in Processes \ {p} : ProcessInv(q)'
    BY OthersKeepTheirs DEF OnlyMoves, TypeOK
  <1> QED BY <1>2, <1>3, <1>4, <1>5, <1>6, <1>7 DEF ProcessInv, LifecycleInv

-----------------------------------------------------------------------------
(* One lemma per action of init() and shutdown() *)

LEMMA EnterInitKeeps ==
  ASSUME LifecycleInv, NEW p \in Processes, NEW a \in Activities, EnterInit(p, a)
  PROVE  LifecycleInv'
  <1> USE LifecycleAssumption
  <1>1. /\ TypeOK /\ ProcessInv(p) /\ main[p] \in Threads /\ lastAgent \in Nat
        /\ lock[p] \in [owner : Threads \cup {NoThread}, count : 0..2]
        /\ lock[p].owner = NoThread <=> lock[p].count = 0
        /\ lock[p] = Free <=> lock[p].count = 0
    BY ProcessFacts
  <1>2. /\ at[p][a] = "init" /\ status[p] = "running" /\ ~Interrupted(p, a)
        /\ a \in Threads /\ a # Drain /\ using[p][a] = NoAgent /\ ~Holds(p, a)
    BY <1>1 DEF EnterInit, Step, ProcessInv, Whereabouts, Activities, Holds
  <1>3. /\ instance' = instance /\ hook' = hook /\ claimed' = claimed
        /\ atexit' = atexit /\ handler' = handler /\ calls' = calls
        /\ running' = running /\ started' = started /\ lastAgent' = lastAgent
        /\ status' = status /\ main' = main /\ due' = due /\ OnlyMoves(p, a)
    BY <1>1 DEF EnterInit, Acquire, Return, Goto, TypeOK, OnlyMoves, SameProcess,
                process, module, natives
  <1>4. CASE instance[p].kind # "none"
    <2>0. /\ at' = [at EXCEPT ![p][a] = "idle"] /\ lock' = lock
          /\ using' = [using EXCEPT ![p][a] = NoAgent]
          /\ mode' = [mode EXCEPT ![p][a] = "plain"]
      BY <1>2, <1>4 DEF EnterInit, Return, Goto, After, NotInitialized
    <2>1. /\ at'[p][a] = "idle" /\ using'[p][a] = NoAgent /\ mode'[p][a] = "plain"
          /\ lock' = lock
      BY <1>1, <2>0 DEF TypeOK
    <2>2. Runs(p, a) /\ LockKept(p, a) /\ Whereabouts(p, a)' /\ ~Alone(p, a)'
      BY <1>2, <2>1 DEF Runs, LockKept, Holds, Whereabouts, Alone
    <2>3. TypeOK'
      BY <1>1, <1>3, <2>0 DEF TypeOK, Places, NoAgent
    <2>4. OwnAgents(p)' /\ HookInv(p)' /\ Numbered(p)'
      BY <1>1, <1>2, <1>3, <2>1
         DEF OnlyMoves, ProcessInv, OwnAgents, HookInv, Numbered, Activities
    <2>5. AgentStep(p, a)
      <3>1. ~Holds(p, a)' /\ lock'[p] = lock[p]
        BY <1>2, <2>1 DEF Holds
      <3> QED BY <1>1, <1>2, <1>3, <2>1, <2>2, <3>1 DEF AgentStep, ProcessInv, Serial, Shown
    <2> QED BY <1>1, <1>3, <2>2, <2>3, <2>4, <2>5, StepKeeps
  <1>5. CASE instance[p].kind = "none"
    <2>0. /\ at' = [at EXCEPT ![p][a] = "start"] /\ using' = using /\ mode' = mode
          /\ lock' = [lock EXCEPT ![p] = [owner |-> ThreadOf(p, a),
                                          count |-> lock[p].count + 1]]
          /\ CanLock(p, a)
      BY <1>5 DEF EnterInit, Acquire, Goto, NotInitialized
    <2>1. /\ at'[p][a] = "start" /\ using' = using /\ mode' = mode /\ CanLock(p, a)
          /\ lock'[p] = [owner |-> ThreadOf(p, a), count |-> lock[p].count + 1]
      BY <1>1, <2>0 DEF TypeOK
    <2>2. Runs(p, a) /\ LockTaken(p, a) /\ Whereabouts(p, a)'
      BY <1>1, <1>2, <2>1 DEF Runs, LockTaken, Holds, Whereabouts, ProcessInv
    <2>3. TypeOK'
      <3>1. /\ lock'[p] \in [owner : Threads \cup {NoThread}, count : 0..2]
            /\ lock'[p].owner = NoThread <=> lock'[p].count = 0
        BY <1>3, <2>2, LockStepKeeps
      <3> QED BY <1>1, <1>3, <2>0, <3>1 DEF TypeOK, Places
    <2>4. OwnAgents(p)' /\ HookInv(p)' /\ Numbered(p)'
      BY <1>1, <1>2, <1>3, <2>1
         DEF OnlyMoves, ProcessInv, OwnAgents, HookInv, Numbered, Activities
    <2>5. AgentStep(p, a)
      <3>1. p \in Disciplined /\ Alone(p, a)' => Settling(p, a)'
        <4> SUFFICES ASSUME p \in Disciplined, Alone(p, a)'
                     PROVE  instance[p] = None /\ running[p] = {}
          BY <1>3, <2>1 DEF Settling
        <4>1. lock[p] = Free
          BY <1>1, <2>1 DEF Alone
        <4>2. instance[p] = None
          BY <1>1, <1>5, InstanceIs
        <4>3. running[p] \subseteq {0} /\ running[p] \subseteq 1..MaxAgents
          BY <1>1, <4>1, <4>2 DEF ProcessInv, Serial, Shown, None, NoAgent, TypeOK
        <4> QED BY <4>2, <4>3
      <3>2. lock'[p] # Free /\ lock[p].count # 2 /\ lock'[p].count # 2
        BY <1>1, <1>2, <2>1, ThreadsDoNotNest DEF Free
      <3> QED BY <1>1, <1>2, <1>3, <2>1, <3>1, <3>2
              DEF AgentStep, ProcessInv, Serial
    <2> QED BY <1>1, <1>3, <2>2, <2>3, <2>4, <2>5, StepKeeps
  <1> QED BY <1>4, <1>5

LEMMA DisableKeeps ==
  ASSUME LifecycleInv, NEW p \in Processes, NEW a \in Activities, Disable(p, a)
  PROVE  LifecycleInv'
  <1> USE LifecycleAssumption
  <1>1. /\ TypeOK /\ ProcessInv(p) /\ main[p] \in Threads /\ lastAgent \in Nat
        /\ lock[p] \in [owner : Threads \cup {NoThread}, count : 0..2]
        /\ lock[p] = Free <=> lock[p].count = 0
    BY ProcessFacts
  <1>2. /\ at[p][a] = "start" /\ status[p] = "running" /\ ~Interrupted(p, a)
        /\ a \in Threads /\ a # Drain /\ Holds(p, a)
    BY <1>1 DEF Disable, Step, ProcessInv, Whereabouts, Activities, Holds
  <1>3. /\ OnlyMoves(p, a) /\ hook' = hook /\ claimed' = claimed
        /\ running' = running /\ started' = started /\ lastAgent' = lastAgent
        /\ instance'[p] = Null
        /\ at'[p][a] = "idle" /\ using'[p][a] = NoAgent /\ mode'[p][a] = "plain"
        /\ lock'[p] = IF lock[p].count = 1 THEN Free
                      ELSE [owner |-> lock[p].owner, count |-> lock[p].count - 1]
    BY <1>1, <1>2 DEF Disable, Release, Return, Goto, After, TypeOK, OnlyMoves,
                      SameProcess, process, natives
  <1>4. Runs(p, a) /\ LockGiven(p, a) /\ Whereabouts(p, a)' /\ ~Alone(p, a)'
    BY <1>2, <1>3 DEF Runs, LockGiven, Holds, Whereabouts, Alone
  <1>5. TypeOK'
    <2>1. /\ lock'[p] \in [owner : Threads \cup {NoThread}, count : 0..2]
          /\ lock'[p].owner = NoThread <=> lock'[p].count = 0
      BY <1>3, <1>4, LockStepKeeps
    <2> QED BY <1>1, <1>2, <2>1
            DEF Disable, Release, Return, Goto, After, TypeOK, process, natives,
                Places, NoAgent
  <1>6. OwnAgents(p)' /\ HookInv(p)' /\ Numbered(p)'
    BY <1>1, <1>3 DEF OnlyMoves, ProcessInv, OwnAgents, HookInv, Numbered, Null
  <1>7. AgentStep(p, a)
    <2>1. p \in Disciplined /\ lock'[p] = Free => running[p] = {}
      <3>1. lock'[p] = Free => lock[p].count = 1
        BY <1>1, <1>2, <1>3, ProcessFacts DEF Free
      <3> QED BY <1>1, <1>2, <3>1 DEF ProcessInv, Serial, Alone, Settling
    <2>2. lock[p].count = 1 /\ lock'[p].count # 2
      BY <1>2, <1>3, ThreadsDoNotNest DEF Free
    <2> QED BY <1>1, <1>2, <1>3, <1>4, <2>1, <2>2
            DEF AgentStep, ProcessInv, Serial, Shown
  <1> QED BY <1>1, <1>3, <1>4, <1>5, <1>6, <1>7, StepKeeps

(* init() starts an agent where none runs: it runs alone, as a drain that  *)
(* had interrupted it would keep it from going on.                         *)
LEMMA StartedWithNone ==
  ASSUME LifecycleInv, NEW p \in Disciplined, NEW a \in Threads,
         at[p][a] = "start", ~Interrupted(p, a)
  PROVE  instance[p] = None /\ running[p] = {}
  <1>1. p \in Processes /\ a \in Activities /\ Holds(p, a)
    BY DEF Disciplined, Activities, Holds
  <1>2. Serial(p) /\ lock[p].count = 1
    BY <1>1, ProcessFacts, ThreadsDoNotNest DEF ProcessInv
  <1> QED BY <1>1, <1>2 DEF Serial, Alone, Settling

(* The number of a new agent is in nobody's hands yet. *)
LEMMA StartKeeps ==
  ASSUME LifecycleInv, NEW p \in Processes, NEW a \in Activities, Start(p, a)
  PROVE  LifecycleInv'
  <1> USE LifecycleAssumption
  <1>1. /\ TypeOK /\ ProcessInv(p) /\ main[p] \in Threads /\ lastAgent \in Nat
        /\ lock[p] \in [owner : Threads \cup {NoThread}, count : 0..2]
        /\ lock[p] = Free <=> lock[p].count = 0
    BY ProcessFacts
  <1>2. /\ at[p][a] = "start" /\ status[p] = "running" /\ ~Interrupted(p, a)
        /\ a \in Threads /\ a # Drain /\ Holds(p, a) /\ using[p][a] = NoAgent
        /\ lock[p] # Free /\ mode[p][a] # "direct"
    BY <1>1, ProcessFacts DEF Start, Step, ProcessInv, Whereabouts, Activities, Holds
  <1>3. /\ status' = status /\ main' = main /\ due' = due
        /\ instance' = instance /\ hook' = hook /\ claimed' = claimed
        /\ atexit' = atexit /\ handler' = handler /\ calls' = calls
        /\ lock' = lock /\ mode' = mode /\ at' = [at EXCEPT ![p][a] = "publish"]
    BY DEF Start, Goto, process, module
  <1>4. at'[p][a] = "publish" /\ \A b \in Activities \ {a} : at'[p][b] = at[p][b]
    BY <1>1, <1>3 DEF TypeOK
  <1>5. Runs(p, a) /\ LockKept(p, a)
    BY <1>2, <1>3, <1>4 DEF Runs, LockKept, Holds
  <1>6. CASE mode[p][a] = "prefork"
    <2>1. using' = using /\ running' = running /\ started' = started /\ lastAgent' = lastAgent
      BY <1>6 DEF Start, natives
    <2>2. OnlyMoves(p, a)
      BY <1>1, <1>3, <1>4, <2>1 DEF OnlyMoves, SameProcess, TypeOK
    <2>3. TypeOK'
      BY <1>1, <1>3, <2>1 DEF TypeOK, Places
    <2>4. Whereabouts(p, a)'
      BY <1>2, <1>3, <1>4, <1>6, <2>1 DEF Whereabouts
    <2>5. OwnAgents(p)' /\ HookInv(p)' /\ Numbered(p)'
      BY <1>1, <1>2, <1>3, <1>4, <2>1 DEF ProcessInv, OwnAgents, HookInv, Numbered, Activities
    <2>6. AgentStep(p, a)
      <3>1. p \in Disciplined /\ Alone(p, a)' => Settling(p, a)'
        <4>1. NoAgent \notin claimed[p]
          BY <1>1 DEF TypeOK, NoAgent
        <4>2. Alone(p, a)' => Alone(p, a)
          BY <1>2, <1>3 DEF Alone
        <4> QED BY <1>1, <1>2, <1>3, <1>4, <2>1, <4>1, <4>2 DEF ProcessInv, Serial, Settling
      <3>2. lock'[p].count = 1
        BY <1>2, <1>3, ThreadsDoNotNest
      <3> QED BY <1>1, <1>2, <1>3, <2>1, <3>1, <3>2 DEF AgentStep, ProcessInv, Serial
    <2> QED BY <1>1, <1>5, <2>1, <2>2, <2>3, <2>4, <2>5, <2>6, StepKeeps
  <1>7. CASE mode[p][a] # "prefork"
    <2> DEFINE n == lastAgent + 1
    <2>1. /\ lastAgent' = n /\ n <= MaxAgents
          /\ running' = [running EXCEPT ![p] = @ \cup {n}]
          /\ started' = [started EXCEPT ![p] = @ \cup {n}]
          /\ using' = [using EXCEPT ![p][a] = n]
      BY <1>1, <1>7 DEF Start, NativeStart
    <2>2. /\ running'[p] = running[p] \cup {n} /\ started'[p] = started[p] \cup {n}
          /\ using'[p][a] = n /\ \A b \in Activities \ {a} : using'[p][b] = using[p][b]
      BY <1>1, <2>1 DEF TypeOK
    <2>3. OnlyMoves(p, a)
      BY <1>1, <1>3, <1>4, <2>1, <2>2 DEF OnlyMoves, SameProcess, TypeOK
    <2>4. TypeOK'
      <3>1. running' \in [Processes -> SUBSET (1..MaxAgents)]
            /\ started' \in [Processes -> SUBSET (1..MaxAgents)]
        BY <1>1, <2>1 DEF TypeOK
      <3>2. using' \in [Processes -> [Activities -> 0..MaxAgents]] /\ lastAgent' \in 0..MaxAgents
        BY <1>1, <2>1 DEF TypeOK
      <3> QED BY <1>1, <1>3, <3>1, <3>2 DEF TypeOK, Places
    <2>5. Whereabouts(p, a)'
      BY <1>1, <1>2, <1>3, <1>4, <1>7, <2>2 DEF Whereabouts, NoAgent
    <2>6. OwnAgents(p)' /\ HookInv(p)' /\ Numbered(p)'
      BY <1>1, <1>2, <1>3, <1>4, <2>1, <2>2
         DEF ProcessInv, OwnAgents, HookInv, Numbered, Activities
    <2>7. AgentStep(p, a)
      <3>1. p \in Disciplined => running[p] = {}
        BY <1>1, <1>2, StartedWithNone
      <3>2. p \in Disciplined /\ Alone(p, a)' => Settling(p, a)'
        <4>1. n \notin claimed[p]
          BY <1>1 DEF ProcessInv, Numbered
        <4>2. Alone(p, a)' => Alone(p, a)
          BY <1>2, <1>3 DEF Alone
        <4> QED BY <1>1, <1>2, <1>3, <1>4, <2>1, <2>2, <3>1, <4>1, <4>2
                DEF ProcessInv, Serial, Settling
      <3>3. lock'[p].count = 1 /\ lock[p].count = 1
        BY <1>2, <1>3, ThreadsDoNotNest
      <3> QED BY <1>1, <1>2, <1>3, <2>1, <2>2, <3>1, <3>2, <3>3 DEF AgentStep
    <2> QED BY <1>1, <1>5, <2>1, <2>3, <2>4, <2>5, <2>6, <2>7, StepKeeps
  <1> QED BY <1>6, <1>7

LEMMA PublishKeeps ==
  ASSUME LifecycleInv, NEW p \in Processes, NEW a \in Activities, Publish(p, a)
  PROVE  LifecycleInv'
  <1> USE LifecycleAssumption
  <1>1. /\ TypeOK /\ ProcessInv(p) /\ main[p] \in Threads /\ lastAgent \in Nat
        /\ lock[p] = Free <=> lock[p].count = 0
    BY ProcessFacts
  <1>2. /\ at[p][a] = "publish" /\ status[p] = "running" /\ ~Interrupted(p, a)
        /\ a \in Threads /\ a # Drain /\ Holds(p, a) /\ lock[p] # Free
        /\ using[p][a] = NoAgent <=> mode[p][a] = "prefork"
    BY <1>1, ProcessFacts DEF Publish, Step, ProcessInv, Whereabouts, Activities, Holds
  <1> DEFINE i == IF mode[p][a] = "prefork" THEN Pending ELSE Live(using[p][a])
  <1>3. /\ status' = status /\ main' = main /\ due' = due
        /\ hook' = hook /\ claimed' = claimed /\ calls' = calls
        /\ running' = running /\ started' = started /\ lastAgent' = lastAgent
        /\ lock' = lock /\ mode' = mode /\ using' = using
        /\ at' = [at EXCEPT ![p][a] = "hook"]
        /\ instance' = [instance EXCEPT ![p] = i]
        /\ atexit' = [atexit EXCEPT ![p] = TRUE]
        /\ handler' = [handler EXCEPT ![p] = @ \/ (mode[p][a] # "prefork" /\ a = main[p])]
    BY DEF Publish, Goto, process, natives
  <1>4. /\ at'[p][a] = "hook" /\ \A b \in Activities \ {a} : at'[p][b] = at[p][b]
        /\ instance'[p] = i
    BY <1>1, <1>3 DEF TypeOK
  <1>5. i \in {None, Null, Pending} \cup {Live(x) : x \in 1..MaxAgents}
        /\ i.agent = using[p][a]
    BY <1>1, <1>2 DEF TypeOK, Pending, Live, NoAgent
  <1>6. Runs(p, a) /\ LockKept(p, a) /\ OnlyMoves(p, a) /\ Whereabouts(p, a)'
    <2>1. OnlyMoves(p, a)
      BY <1>1, <1>3, <1>4 DEF OnlyMoves, SameProcess, TypeOK
    <2>2. Whereabouts(p, a)'
      BY <1>1, <1>2, <1>3, <1>4 DEF ProcessInv, Whereabouts
    <2> QED BY <1>2, <1>3, <1>4, <2>1, <2>2 DEF Runs, LockKept, Holds
  <1>7. TypeOK'
    <2>1. handler' \in [Processes -> BOOLEAN] /\ atexit' \in [Processes -> BOOLEAN]
      BY <1>1, <1>3 DEF TypeOK
    <2>2. instance' \in [Processes -> {None, Null, Pending} \cup {Live(x) : x \in 1..MaxAgents}]
      BY <1>1, <1>3, <1>5 DEF TypeOK
    <2>3. at' \in [Processes -> [Activities -> Places]]
      BY <1>1, <1>3 DEF TypeOK, Places
    <2> QED BY <1>1, <1>3, <2>1, <2>2, <2>3 DEF TypeOK
  <1>8. OwnAgents(p)' /\ HookInv(p)' /\ Numbered(p)'
    BY <1>1, <1>2, <1>3, <1>4, <1>5
       DEF ProcessInv, OwnAgents, HookInv, Numbered, Pending, Live
  <1>9. AgentStep(p, a)
    <2>1. p \in Disciplined /\ Alone(p, a)' => Settling(p, a)'
      <3>1. Alone(p, a)' => Alone(p, a)
        BY <1>2, <1>3 DEF Alone
      <3> HIDE DEF i
      <3> QED BY <1>1, <1>2, <1>3, <1>4, <1>5, <3>1
              DEF ProcessInv, Serial, Settling, Shown
    <2>2. lock'[p].count = 1 /\ lock[p].count = 1
      BY <1>2, <1>3, ThreadsDoNotNest
    <2> QED BY <1>1, <1>2, <1>3, <2>1, <2>2 DEF AgentStep, ProcessInv, Serial
  <1> QED BY <1>1, <1>3, <1>6, <1>7, <1>8, <1>9, StepKeeps

LEMMA RegisterHookKeeps ==
  ASSUME LifecycleInv, NEW p \in Processes, NEW a \in Activities, RegisterHook(p, a)
  PROVE  LifecycleInv'
  <1> USE LifecycleAssumption
  <1>1. /\ TypeOK /\ ProcessInv(p) /\ main[p] \in Threads /\ lastAgent \in Nat
        /\ lock[p] = Free <=> lock[p].count = 0
    BY ProcessFacts
  <1>2. /\ at[p][a] = "hook" /\ status[p] = "running" /\ ~Interrupted(p, a)
        /\ a \in Threads /\ a # Drain /\ Holds(p, a) /\ lock[p].count \in 1..2
    BY <1>1, ProcessFacts DEF RegisterHook, Step, ProcessInv, Whereabouts, Activities, Holds
  <1>3. /\ status' = status /\ main' = main /\ due' = due
        /\ instance' = instance /\ claimed' = claimed /\ calls' = calls
        /\ atexit' = atexit /\ handler' = handler
        /\ running' = running /\ started' = started /\ lastAgent' = lastAgent
        /\ hook' = [hook EXCEPT ![p] = TRUE]
        /\ at' = [at EXCEPT ![p][a] = "idle"]
        /\ using' = [using EXCEPT ![p][a] = NoAgent]
        /\ mode' = [mode EXCEPT ![p][a] = "plain"]
        /\ lock' = [lock EXCEPT ![p] = IF lock[p].count = 1 THEN Free
                      ELSE [owner |-> lock[p].owner, count |-> lock[p].count - 1]]
    BY <1>2 DEF RegisterHook, Release, Return, Goto, After, process, natives
  <1>4. /\ at'[p][a] = "idle" /\ using'[p][a] = NoAgent /\ mode'[p][a] = "plain"
        /\ hook'[p] = TRUE
        /\ lock'[p] = IF lock[p].count = 1 THEN Free
                      ELSE [owner |-> lock[p].owner, count |-> lock[p].count - 1]
        /\ OnlyMoves(p, a)
    BY <1>1, <1>3 DEF TypeOK, OnlyMoves, SameProcess
  <1>5. Runs(p, a) /\ LockGiven(p, a) /\ Whereabouts(p, a)' /\ ~Alone(p, a)'
    BY <1>2, <1>4 DEF Runs, LockGiven, Holds, Whereabouts, Alone, OnlyMoves
  <1>6. TypeOK'
    <2>1. /\ lock'[p] \in [owner : Threads \cup {NoThread}, count : 0..2]
          /\ lock'[p].owner = NoThread <=> lock'[p].count = 0
      BY <1>4, <1>5, LockStepKeeps
    <2> QED BY <1>1, <1>3, <2>1 DEF TypeOK, Places, NoAgent
  <1>7. OwnAgents(p)' /\ HookInv(p)' /\ Numbered(p)'
    BY <1>1, <1>3, <1>4 DEF ProcessInv, OwnAgents, HookInv, Numbered, OnlyMoves
  <1>8. AgentStep(p, a)
    <2>1. p \in Disciplined /\ lock'[p] = Free => Shown(p)
      <3>1. lock'[p] = Free => lock[p].count = 1
        BY <1>2, <1>4 DEF Free
      <3> QED BY <1>1, <1>2, <3>1 DEF ProcessInv, Serial, Alone, Settling
    <2>2. lock[p].count = 1 /\ lock'[p].count # 2 /\ lock'[p].count # 1
      BY <1>2, <1>4, ThreadsDoNotNest DEF Free
    <2> QED BY <1>1, <1>2, <1>3, <1>5, <2>1, <2>2 DEF AgentStep, ProcessInv, Serial, Shown
  <1> QED BY <1>1, <1>3, <1>4, <1>5, <1>6, <1>7, <1>8, StepKeeps

-----------------------------------------------------------------------------
(* One lemma per action of shutdown() *)

(* With the main thread idle, only another thread keeps the drain out.     *)
LEMMA EnterShutdownKeeps ==
  ASSUME LifecycleInv, NEW p \in Processes, NEW a \in Activities, EnterShutdown(p, a)
  PROVE  LifecycleInv'
  <1> USE LifecycleAssumption
  <1>1. /\ TypeOK /\ ProcessInv(p) /\ main[p] \in Threads /\ lastAgent \in Nat
        /\ lock[p] \in [owner : Threads \cup {NoThread}, count : 0..2]
        /\ lock[p].owner = NoThread <=> lock[p].count = 0
        /\ lock[p] = Free <=> lock[p].count = 0
    BY ProcessFacts
  <1>2. /\ at[p][a] = "shutdown" /\ status[p] = "running" /\ ~Interrupted(p, a)
        /\ using[p][a] = NoAgent /\ mode[p][a] = "plain" /\ ~Holds(p, a)
        /\ CanLock(p, a)
    <2>1. /\ at[p][a] = "shutdown" /\ status[p] = "running" /\ ~Interrupted(p, a)
          /\ CanLock(p, a)
      BY DEF EnterShutdown, Step
    <2>2. mode[p][a] \in {"plain", "prefork", "direct"}
      BY <1>1 DEF TypeOK
    <2> QED BY <1>1, <2>1, <2>2 DEF ProcessInv, Whereabouts, Holds
  <1>3. /\ status' = status /\ main' = main /\ due' = due
        /\ instance' = instance /\ hook' = hook /\ claimed' = claimed
        /\ atexit' = atexit /\ handler' = handler /\ calls' = calls
        /\ running' = running /\ started' = started /\ lastAgent' = lastAgent
    BY DEF EnterShutdown, process, module, natives
  <1>4. p \in Disciplined /\ lock[p] = Free => Shown(p)
    BY <1>1 DEF ProcessInv, Serial
  <1>5. CASE instance[p].kind = "none"
    <2> DEFINE to == IF a = Drain THEN "die" ELSE "idle"
    <2>1. /\ at' = [at EXCEPT ![p][a] = to] /\ lock' = lock
          /\ using' = [using EXCEPT ![p][a] = NoAgent]
          /\ mode' = [mode EXCEPT ![p][a] = "plain"]
      BY <1>5 DEF EnterShutdown, Return, Goto, After
    <2>2. /\ at'[p][a] = to /\ using'[p][a] = NoAgent /\ mode'[p][a] = "plain"
          /\ lock' = lock /\ OnlyMoves(p, a)
      BY <1>1, <1>3, <2>1 DEF TypeOK, OnlyMoves, SameProcess
    <2>3. Runs(p, a) /\ LockKept(p, a) /\ Whereabouts(p, a)' /\ ~Alone(p, a)'
      BY <1>2, <2>2 DEF Runs, LockKept, Holds, Whereabouts, Alone, Activities
    <2>4. TypeOK'
      BY <1>1, <1>3, <2>1 DEF TypeOK, Places, NoAgent
    <2>5. OwnAgents(p)' /\ HookInv(p)' /\ Numbered(p)'
      BY <1>1, <1>2, <1>3, <2>2
         DEF OnlyMoves, ProcessInv, OwnAgents, HookInv, Numbered, Activities
    <2>6. p \in Disciplined /\ a = Drain /\ p \notin Interruptible => running[p] = {}
      <3> SUFFICES ASSUME p \in Disciplined, a = Drain, p \notin Interruptible
                   PROVE  running[p] = {}
        OBVIOUS
      <3>1. at[p][main[p]] = "idle" /\ ThreadOf(p, a) = main[p]
        BY <1>1, <1>2 DEF ProcessInv, DrainInv, ThreadOf
      <3>2. lock[p].owner # main[p]
        <4> SUFFICES ASSUME lock[p].owner = main[p] PROVE FALSE
          OBVIOUS
        <4>1. PICK b \in Activities : Holds(p, b)
          BY <1>1 DEF ProcessInv, LockInv
        <4>2. b # Drain /\ b # main[p]
          BY <1>2, <3>1, <4>1 DEF Holds
        <4> QED BY <1>1, <4>1, <4>2 DEF ProcessInv, LockInv, ThreadOf
      <3>3. lock[p] = Free
        BY <1>1, <1>2, <3>1, <3>2 DEF CanLock
      <3>4. instance[p].agent = NoAgent
        BY <1>1, <1>5, InstanceIs
      <3>5. running[p] \subseteq {NoAgent} /\ running[p] \subseteq 1..MaxAgents
        BY <1>1, <1>4, <3>3, <3>4 DEF Shown, TypeOK
      <3> QED BY <3>5 DEF NoAgent
    <2>7. AgentStep(p, a)
      <3>1. ~Holds(p, a)' /\ lock'[p] = lock[p]
        BY <2>2 DEF Holds
      <3> QED BY <1>1, <1>2, <1>3, <2>2, <2>3, <2>6, <3>1 DEF AgentStep, ProcessInv, Serial, Shown
    <2> QED BY <1>1, <1>3, <2>2, <2>3, <2>4, <2>5, <2>7, StepKeeps
  <1>6. CASE instance[p].kind # "none"
    <2> DEFINE to == IF instance[p].kind = "live" THEN "claim" ELSE "drop"
    <2>1. /\ at' = [at EXCEPT ![p][a] = to] /\ mode' = mode
          /\ using' = [using EXCEPT ![p][a] = instance[p].agent]
          /\ lock' = [lock EXCEPT ![p] = [owner |-> ThreadOf(p, a),
                                          count |-> lock[p].count + 1]]
      BY <1>6 DEF EnterShutdown, Acquire, Goto
    <2>2. /\ at'[p][a] = to /\ using'[p][a] = instance[p].agent /\ mode' = mode
          /\ lock'[p] = [owner |-> ThreadOf(p, a), count |-> lock[p].count + 1]
          /\ OnlyMoves(p, a)
      BY <1>1, <1>3, <2>1 DEF TypeOK, OnlyMoves, SameProcess
    <2>3. /\ instance[p].agent \in 0..MaxAgents
          /\ instance[p].kind = "live" <=> instance[p].agent # NoAgent
      BY <1>1, InstanceIs
    <2>4. Runs(p, a) /\ LockTaken(p, a) /\ Whereabouts(p, a)'
      BY <1>2, <2>2, <2>3 DEF Runs, LockTaken, Holds, Whereabouts, Activities
    <2>5. TypeOK'
      <3>1. /\ lock'[p] \in [owner : Threads \cup {NoThread}, count : 0..2]
            /\ lock'[p].owner = NoThread <=> lock'[p].count = 0
        BY <2>2, <2>4, LockStepKeeps
      <3> QED BY <1>1, <1>3, <2>1, <2>3, <3>1 DEF TypeOK, Places
    <2>6. OwnAgents(p)' /\ HookInv(p)' /\ Numbered(p)'
      BY <1>1, <1>2, <1>3, <2>2, <2>3
         DEF OnlyMoves, ProcessInv, OwnAgents, HookInv, Numbered, Activities
    <2>7. p \in Disciplined /\ Alone(p, a)' => Settling(p, a)'
      <3> SUFFICES ASSUME p \in Disciplined, Alone(p, a)' PROVE Settling(p, a)'
        OBVIOUS
      <3>1. Shown(p)
        BY <1>1, <1>4, <2>2 DEF Alone
      <3>2. instance[p].agent = NoAgent => running[p] = {}
        BY <1>1, <3>1 DEF Shown, TypeOK, NoAgent
      <3> QED BY <1>3, <2>2, <2>3, <3>1, <3>2 DEF Settling, Shown
    <2>8. AgentStep(p, a)
      <3>1. lock'[p] # Free /\ at'[p][a] # "die" /\ lock[p].count \in 0..2
        BY <1>1, <2>2 DEF Free
      <3>2. lock[p].count # 2
        <4>1. lock'[p].count \in 0..2
          BY <2>5 DEF TypeOK
        <4> QED BY <2>2, <4>1
      <3>3. p \in Disciplined /\ lock'[p].count = 2 => OnTop(p)'
        <4> SUFFICES ASSUME p \in Disciplined, lock[p].count = 1
                     PROVE  OnTop(p)'
          BY <2>2, <3>1
        <4>1. a = Drain /\ a # main[p] /\ ThreadOf(p, a) = main[p]
          BY <1>1, <1>2, ThreadsDoNotNest DEF Activities, ThreadOf
        <4>2. Alone(p, main[p])
          <5>1. PICK b \in Activities : Holds(p, b) /\ ThreadOf(p, b) = main[p]
            BY <1>1, <1>2, <4>1 DEF CanLock, ProcessInv, LockInv
          <5> QED BY <1>2, <4>1, <5>1 DEF ThreadOf, Alone
        <4>3. Settling(p, main[p])
          BY <1>1, <4>2 DEF ProcessInv, Serial, Activities
        <4>4. /\ main'[p] = main[p] /\ main[p] \in Activities
              /\ at'[p][main[p]] = at[p][main[p]] /\ using'[p][main[p]] = using[p][main[p]]
          BY <1>1, <1>3, <2>2, <4>1 DEF OnlyMoves, Activities
        <4>5. CASE at[p][main[p]] \in {"hook", "claim"}
          <5>1. Shown(p)
            BY <4>3, <4>5 DEF Settling
          <5>2. instance[p].agent = NoAgent => running[p] = {}
            BY <1>1, <5>1 DEF Shown, TypeOK, NoAgent
          <5>3. Settling(p, a)'
            BY <1>3, <2>2, <2>3, <5>1, <5>2 DEF Settling, Shown
          <5> QED BY <4>1, <4>4, <4>5, <5>3 DEF OnTop
        <4>6. CASE at[p][main[p]] \in {"native", "drop"}
          <5>1. Settling(p, main[p])'
            BY <1>3, <4>3, <4>4, <4>6 DEF Settling
          <5> QED BY <4>4, <4>6, <5>1 DEF OnTop
        <4>7. at[p][main[p]] \notin {"start", "publish"}
          BY <1>6, <4>3 DEF Settling, None
        <4> QED BY <4>2, <4>5, <4>6, <4>7 DEF Alone, Holds
      <3> QED BY <1>1, <1>3, <2>7, <3>1, <3>2, <3>3 DEF AgentStep, ProcessInv, Serial
    <2> QED BY <1>1, <1>3, <2>2, <2>4, <2>5, <2>6, <2>8, StepKeeps
  <1> QED BY <1>5, <1>6

LEMMA ClaimKeeps ==
  ASSUME LifecycleInv, NEW p \in Processes, NEW a \in Activities, Claim(p, a)
  PROVE  LifecycleInv'
  <1> USE LifecycleAssumption
  <1>1. /\ TypeOK /\ ProcessInv(p) /\ main[p] \in Threads /\ lastAgent \in Nat
        /\ lock[p] = Free <=> lock[p].count = 0
    BY ProcessFacts
  <1>2. /\ at[p][a] = "claim" /\ status[p] = "running" /\ ~Interrupted(p, a)
        /\ using[p][a] \in started[p] /\ using[p][a] \in 1..lastAgent
        /\ using[p][a] \in 1..MaxAgents
    <2>1. at[p][a] = "claim" /\ status[p] = "running" /\ ~Interrupted(p, a)
      BY DEF Claim, Step
    <2>2. using[p][a] \in started[p]
      BY <1>1, <2>1 DEF ProcessInv, OwnAgents, Whereabouts
    <2> QED BY <1>1, <2>1, <2>2 DEF ProcessInv, Numbered, TypeOK
  <1> DEFINE to == IF using[p][a] \in claimed[p] THEN "drop" ELSE "native"
  <1>3. /\ status' = status /\ main' = main /\ due' = due
        /\ instance' = instance /\ hook' = hook
        /\ atexit' = atexit /\ handler' = handler /\ calls' = calls
        /\ running' = running /\ started' = started /\ lastAgent' = lastAgent
        /\ lock' = lock /\ mode' = mode /\ using' = using
        /\ at' = [at EXCEPT ![p][a] = to]
        /\ claimed' = [claimed EXCEPT ![p] = @ \cup {using[p][a]}]
    BY DEF Claim, Goto, process, natives
  <1>4. /\ at'[p][a] = to /\ claimed'[p] = claimed[p] \cup {using[p][a]}
        /\ OnlyMoves(p, a)
    BY <1>1, <1>3 DEF TypeOK, OnlyMoves, SameProcess
  <1>5. Runs(p, a) /\ LockKept(p, a) /\ Whereabouts(p, a)'
    BY <1>1, <1>2, <1>3, <1>4
       DEF Runs, LockKept, Holds, ProcessInv, Whereabouts, Activities
  <1>6. TypeOK'
    BY <1>1, <1>2, <1>3 DEF TypeOK, Places
  <1>7. OwnAgents(p)' /\ HookInv(p)' /\ Numbered(p)'
    BY <1>1, <1>2, <1>3, <1>4
       DEF OnlyMoves, ProcessInv, OwnAgents, HookInv, Numbered, Activities
  <1>8. AgentStep(p, a)
    <2> SUFFICES ASSUME p \in Disciplined PROVE AgentStep(p, a)
      BY DEF AgentStep
    <2>1. Holds(p, a) /\ lock'[p] # Free
      BY <1>1, <1>2, <1>3, ProcessFacts
         DEF Holds, ProcessInv, Whereabouts, Disciplined
    <2>2. Alone(p, a)' => Settling(p, a)'
      <3>1. Alone(p, a)' => Alone(p, a)
        BY <1>2, <1>3, <2>1 DEF Alone
      <3> QED BY <1>1, <1>2, <1>3, <1>4, <3>1 DEF ProcessInv, Serial, Settling, Shown
    <2>3. lock[p].count = 2 => OnTop(p)'
      <3> SUFFICES ASSUME lock[p].count = 2 PROVE OnTop(p)'
        OBVIOUS
      <3>1. a = Drain /\ a # main[p] /\ OnTop(p)
        BY <1>1, <1>2, <2>1, ThreadsDoNotNest DEF Activities, ProcessInv, Serial
      <3>2. /\ main'[p] = main[p] /\ main[p] \in Activities
            /\ at'[p][main[p]] = at[p][main[p]]
        BY <1>1, <1>3, <1>4, <3>1 DEF OnlyMoves, Activities
      <3>3. Settling(p, a) => Settling(p, a)'
        BY <1>2, <1>3, <1>4 DEF Settling, Shown
      <3>4. at[p][main[p]] \in {"native", "drop"} /\ Settling(p, main[p])
              => Settling(p, main[p])'
        BY <1>3, <3>2 DEF Settling
      <3> QED BY <3>1, <3>2, <3>3, <3>4 DEF OnTop
    <2> QED BY <1>1, <1>3, <1>4, <2>1, <2>2, <2>3 DEF AgentStep, ProcessInv, Serial
  <1> QED BY <1>1, <1>3, <1>4, <1>5, <1>6, <1>7, <1>8, StepKeeps

LEMMA NativeShutdownKeeps ==
  ASSUME LifecycleInv, NEW p \in Processes, NEW a \in Activities, NativeShutdown(p, a)
  PROVE  LifecycleInv'
  <1> USE LifecycleAssumption
  <1>1. /\ TypeOK /\ ProcessInv(p) /\ main[p] \in Threads /\ lastAgent \in Nat
        /\ lock[p] = Free <=> lock[p].count = 0
    BY ProcessFacts
  <1>2. at[p][a] = "native" /\ status[p] = "running" /\ ~Interrupted(p, a)
    BY DEF NativeShutdown, Step
  <1>3. /\ status' = status /\ main' = main /\ due' = due
        /\ instance' = instance /\ hook' = hook /\ claimed' = claimed
        /\ atexit' = atexit /\ handler' = handler /\ calls' = calls
        /\ started' = started /\ lastAgent' = lastAgent
        /\ lock' = lock /\ mode' = mode /\ using' = using
        /\ at' = [at EXCEPT ![p][a] = "drop"]
        /\ running' = [running EXCEPT ![p] = @ \ {using[p][a]}]
    BY DEF NativeShutdown, Goto, process, module
  <1>4. /\ at'[p][a] = "drop" /\ running'[p] = running[p] \ {using[p][a]}
        /\ OnlyMoves(p, a)
    BY <1>1, <1>3 DEF TypeOK, OnlyMoves, SameProcess
  <1>5. Runs(p, a) /\ LockKept(p, a) /\ Whereabouts(p, a)'
    BY <1>1, <1>2, <1>3, <1>4
       DEF Runs, LockKept, Holds, ProcessInv, Whereabouts, Activities
  <1>6. TypeOK'
    BY <1>1, <1>2, <1>3 DEF TypeOK, Places
  <1>7. OwnAgents(p)' /\ HookInv(p)' /\ Numbered(p)'
    BY <1>1, <1>2, <1>3, <1>4
       DEF OnlyMoves, ProcessInv, OwnAgents, HookInv, Numbered, Activities
  <1>8. AgentStep(p, a)
    <2> SUFFICES ASSUME p \in Disciplined PROVE AgentStep(p, a)
      BY DEF AgentStep
    <2>1. Holds(p, a) /\ lock'[p] # Free
      BY <1>1, <1>2, <1>3, ProcessFacts
         DEF Holds, ProcessInv, Whereabouts, Disciplined
    <2>2. Alone(p, a)' => Settling(p, a)'
      <3>1. Alone(p, a)' => Alone(p, a)
        BY <1>2, <1>3, <2>1 DEF Alone
      <3> QED BY <1>1, <1>2, <1>4, <3>1 DEF ProcessInv, Serial, Settling
    <2>3. lock[p].count = 2 => OnTop(p)'
      <3> SUFFICES ASSUME lock[p].count = 2 PROVE OnTop(p)'
        OBVIOUS
      <3>1. a = Drain /\ a # main[p] /\ OnTop(p)
        BY <1>1, <1>2, <2>1, ThreadsDoNotNest DEF Activities, ProcessInv, Serial
      <3>2. /\ main'[p] = main[p] /\ main[p] \in Activities
            /\ at'[p][main[p]] = at[p][main[p]]
        BY <1>1, <1>3, <1>4, <3>1 DEF OnlyMoves, Activities
      <3>3. Settling(p, a) => Settling(p, a)'
        BY <1>2, <1>3, <1>4 DEF Settling
      <3>4. at[p][main[p]] \in {"native", "drop"} /\ Settling(p, main[p])
              => Settling(p, main[p])'
        BY <1>3, <1>4, <3>2 DEF Settling
      <3> QED BY <3>1, <3>2, <3>3, <3>4 DEF OnTop
    <2> QED BY <1>1, <1>3, <1>4, <2>1, <2>2, <2>3 DEF AgentStep, ProcessInv, Serial
  <1> QED BY <1>1, <1>3, <1>4, <1>5, <1>6, <1>7, <1>8, StepKeeps

(* The module's shutdown() drops the agent and leaves the lock; the user's *)
(* own Agent.shutdown() does neither.                                      *)
LEMMA DropKeeps ==
  ASSUME LifecycleInv, NEW p \in Processes, NEW a \in Activities, Drop(p, a)
  PROVE  LifecycleInv'
  <1> USE LifecycleAssumption
  <1>1. /\ TypeOK /\ ProcessInv(p) /\ main[p] \in Threads /\ lastAgent \in Nat
        /\ lock[p] = Free <=> lock[p].count = 0
    BY ProcessFacts
  <1>2. at[p][a] = "drop" /\ status[p] = "running" /\ ~Interrupted(p, a)
    BY DEF Drop, Step
  <1> DEFINE to == IF a = Drain THEN "die" ELSE "idle"
  <1>3. /\ status' = status /\ main' = main /\ due' = due
        /\ hook' = hook /\ claimed' = claimed
        /\ atexit' = atexit /\ handler' = handler /\ calls' = calls
        /\ running' = running /\ started' = started /\ lastAgent' = lastAgent
        /\ at' = [at EXCEPT ![p][a] = to]
        /\ using' = [using EXCEPT ![p][a] = NoAgent]
        /\ mode' = [mode EXCEPT ![p][a] = "plain"]
    BY DEF Drop, Return, Goto, After, process, natives
  <1>4. /\ at'[p][a] = to /\ using'[p][a] = NoAgent /\ mode'[p][a] = "plain"
        /\ \A b \in Activities \ {a} : /\ at'[p][b] = at[p][b]
                                       /\ using'[p][b] = using[p][b]
                                       /\ mode'[p][b] = mode[p][b]
    BY <1>1, <1>3 DEF TypeOK
  <1>5. Runs(p, a) /\ Whereabouts(p, a)' /\ ~Holds(p, a)'
    BY <1>2, <1>4 DEF Runs, Holds, Whereabouts, Activities
  <1>6. CASE mode[p][a] = "direct"
    <2>1. lock' = lock /\ instance' = instance
      BY <1>6 DEF Drop
    <2>2. OnlyMoves(p, a) /\ LockKept(p, a)
      BY <1>2, <1>3, <1>4, <1>5, <1>6, <2>1 DEF OnlyMoves, SameProcess, TypeOK, LockKept, Holds
    <2>3. TypeOK'
      BY <1>1, <1>3, <2>1 DEF TypeOK, Places, NoAgent
    <2>4. OwnAgents(p)' /\ HookInv(p)' /\ Numbered(p)'
      BY <1>1, <1>2, <1>3, <1>4, <2>1
         DEF ProcessInv, OwnAgents, HookInv, Numbered, Activities
    <2>5. AgentStep(p, a)
      BY <1>1, <1>6 DEF AgentStep, ProcessInv, Whereabouts, Disciplined
    <2> QED BY <1>1, <1>3, <1>5, <2>2, <2>3, <2>4, <2>5, StepKeeps
  <1>7. CASE mode[p][a] # "direct"
    <2>1. /\ lock' = [lock EXCEPT ![p] = IF lock[p].count = 1 THEN Free
                        ELSE [owner |-> lock[p].owner, count |-> lock[p].count - 1]]
          /\ instance' = [instance EXCEPT ![p] = None]
      BY <1>7 DEF Drop, Release
    <2>2. /\ instance'[p] = None
          /\ lock'[p] = IF lock[p].count = 1 THEN Free
                        ELSE [owner |-> lock[p].owner, count |-> lock[p].count - 1]
      BY <1>1, <2>1 DEF TypeOK
    <2>3. Holds(p, a) /\ lock[p].count \in 1..2
      BY <1>2, <1>7, ProcessFacts DEF Holds
    <2>4. OnlyMoves(p, a) /\ LockGiven(p, a)
      <3>1. OnlyMoves(p, a)
        BY <1>1, <1>3, <1>4, <2>1 DEF OnlyMoves, SameProcess, TypeOK
      <3> QED BY <1>5, <2>2, <2>3, <3>1 DEF LockGiven
    <2>5. TypeOK'
      <3>1. /\ lock'[p] \in [owner : Threads \cup {NoThread}, count : 0..2]
            /\ lock'[p].owner = NoThread <=> lock'[p].count = 0
        BY <1>5, <2>4, LockStepKeeps
      <3> QED BY <1>1, <1>3, <2>1, <3>1 DEF TypeOK, Places, NoAgent
    <2>6. OwnAgents(p)' /\ HookInv(p)' /\ Numbered(p)'
      BY <1>1, <1>3, <1>4, <2>2
         DEF ProcessInv, OwnAgents, HookInv, Numbered, None
    <2>7. p \in Disciplined /\ lock'[p] = Free => running[p] = {}
      <3>1. lock'[p] = Free => lock[p].count = 1
        BY <2>2, <2>3 DEF Free
      <3> QED BY <1>1, <1>2, <2>3, <3>1 DEF ProcessInv, Serial, Alone, Settling
    <2>8. p \in Disciplined /\ a = Drain /\ p \notin Interruptible => running[p] = {}
      <3> SUFFICES ASSUME p \in Disciplined, a = Drain, p \notin Interruptible
                   PROVE  running[p] = {}
        OBVIOUS
      <3>1. ~Holds(p, main[p])
        BY <1>1, <1>2 DEF ProcessInv, DrainInv, Holds
      <3>2. lock[p].count = 1
        BY <1>1, <2>3, <3>1 DEF ProcessInv, LockInv
      <3> QED BY <1>1, <1>2, <2>3, <3>2 DEF ProcessInv, Serial, Alone, Settling
    <2>9. p \in Disciplined /\ lock[p].count = 2 => Settling(p, main[p])'
      <3> SUFFICES ASSUME p \in Disciplined, lock[p].count = 2 PROVE Settling(p, main[p])'
        OBVIOUS
      <3>1. a = Drain /\ a # main[p] /\ OnTop(p)
        BY <1>1, <1>2, <2>3, ThreadsDoNotNest DEF Activities, ProcessInv, Serial
      <3>2. /\ main'[p] = main[p] /\ main[p] \in Activities
            /\ at'[p][main[p]] = at[p][main[p]] /\ using'[p][main[p]] = using[p][main[p]]
        BY <1>1, <1>3, <1>4, <3>1 DEF Activities
      <3>3. Settling(p, a) => running[p] = {}
        BY <1>2 DEF Settling
      <3> QED BY <1>3, <2>2, <3>1, <3>2, <3>3 DEF OnTop, Settling, Shown
    <2>10. AgentStep(p, a)
      BY <1>1, <1>3, <1>5, <2>2, <2>3, <2>7, <2>8, <2>9
         DEF AgentStep, ProcessInv, Serial, Shown, Alone
    <2> QED BY <1>1, <1>3, <1>5, <2>4, <2>5, <2>6, <2>10, StepKeeps
  <1> QED BY <1>6, <1>7

-----------------------------------------------------------------------------
(* Calls begin on an idle thread, without the lock *)

LEMMA CallKeeps ==
  ASSUME LifecycleInv, NEW p \in Processes, NEW t \in Threads,
         CallInit(p, t) \/ CallShutdown(p, t) \/ CallAgentShutdown(p, t)
  PROVE  LifecycleInv'
  <1> USE LifecycleAssumption
  <1>1. /\ TypeOK /\ ProcessInv(p) /\ main[p] \in Threads /\ lastAgent \in Nat
        /\ t \in Activities /\ t # Drain
    BY ProcessFacts DEF Activities
  <1>2. /\ at[p][t] = "idle" /\ status[p] = "running" /\ ~Interrupted(p, t)
        /\ calls[p] < MaxCalls /\ using[p][t] = NoAgent /\ mode[p][t] = "plain"
        /\ ~Holds(p, t)
    <2>1. /\ at[p][t] = "idle" /\ status[p] = "running" /\ ~Interrupted(p, t)
          /\ calls[p] < MaxCalls
      BY DEF CallInit, CallShutdown, CallAgentShutdown, BeginCall, Step
    <2>2. mode[p][t] \in {"plain", "prefork", "direct"}
      BY <1>1 DEF TypeOK
    <2> QED BY <1>1, <2>1, <2>2 DEF ProcessInv, Whereabouts, Holds
  <1>3. /\ status' = status /\ main' = main /\ due' = due
        /\ instance' = instance /\ hook' = hook /\ claimed' = claimed
        /\ atexit' = atexit /\ handler' = handler /\ lock' = lock
        /\ running' = running /\ started' = started /\ lastAgent' = lastAgent
        /\ calls' = [calls EXCEPT ![p] = @ + 1]
    BY DEF CallInit, CallShutdown, CallAgentShutdown, BeginCall, process, module, natives
  <1>4. PICK to \in {"init", "shutdown", "claim"}, m \in {"plain", "prefork", "direct"},
             i \in 0..MaxAgents :
          /\ at' = [at EXCEPT ![p][t] = to]
          /\ mode' = [mode EXCEPT ![p][t] = m]
          /\ using' = [using EXCEPT ![p][t] = i]
          /\ to = "init" => m \in {"plain", "prefork"} /\ i = NoAgent
          /\ to = "shutdown" => m = "plain" /\ i = NoAgent
          /\ to = "claim" => /\ m = "direct" /\ p \in DirectCallers
                             /\ instance[p].kind = "live" /\ i = instance[p].agent
                             /\ i # NoAgent
    <2>1. CASE CallInit(p, t)
      <3>1. using = [using EXCEPT ![p][t] = NoAgent] /\ NoAgent \in 0..MaxAgents
        BY <1>1, <1>2 DEF TypeOK, NoAgent
      <3> QED BY <2>1, <3>1 DEF CallInit, BeginCall, Goto
    <2>2. CASE CallShutdown(p, t)
      <3>1. /\ using = [using EXCEPT ![p][t] = NoAgent] /\ NoAgent \in 0..MaxAgents
            /\ mode = [mode EXCEPT ![p][t] = "plain"]
        BY <1>1, <1>2 DEF TypeOK, NoAgent
      <3> QED BY <2>2, <3>1 DEF CallShutdown, BeginCall, Goto
    <2>3. CASE CallAgentShutdown(p, t)
      <3>1. instance[p].kind = "live"
              => instance[p].agent # NoAgent /\ instance[p].agent \in 0..MaxAgents
        BY <1>1, InstanceIs
      <3> QED BY <2>3, <3>1 DEF CallAgentShutdown, BeginCall, Goto
    <2> QED BY <2>1, <2>2, <2>3
  <1>5. /\ at'[p][t] = to /\ mode'[p][t] = m /\ using'[p][t] = i
        /\ OnlyMoves(p, t)
    BY <1>1, <1>3, <1>4 DEF TypeOK, OnlyMoves, SameProcess
  <1>6. ~Holds(p, t)' /\ Runs(p, t) /\ Whereabouts(p, t)'
    BY <1>1, <1>2, <1>4, <1>5 DEF Holds, Runs, Whereabouts
  <1>7. LockKept(p, t)
    <2>1. Holds(p, t) = FALSE /\ Holds(p, t)' = FALSE
      BY <1>2, <1>6 DEF Holds
    <2> QED BY <1>3, <2>1 DEF LockKept
  <1>8. TypeOK'
    <2>1. at' \in [Processes -> [Activities -> Places]]
      BY <1>1, <1>4 DEF TypeOK, Places
    <2>2. calls' \in [Processes -> 0..(MaxCalls + 1)]
      <3>1. calls[p] \in 0..(MaxCalls + 1) /\ calls[p] + 1 \in 0..(MaxCalls + 1)
        BY <1>1, <1>2 DEF TypeOK
      <3> QED BY <1>1, <1>3, <3>1 DEF TypeOK
    <2> QED BY <1>1, <1>3, <1>4, <2>1, <2>2 DEF TypeOK
  <1>9. OwnAgents(p)' /\ HookInv(p)' /\ Numbered(p)'
    BY <1>1, <1>2, <1>3, <1>4, <1>5
       DEF OnlyMoves, ProcessInv, OwnAgents, HookInv, Numbered, Activities
  <1>10. AgentStep(p, t)
    BY <1>1, <1>3, <1>6 DEF AgentStep, ProcessInv, Serial, Shown, Alone
  <1> QED BY <1>1, <1>3, <1>5, <1>6, <1>7, <1>8, <1>9, <1>10, StepKeeps

-----------------------------------------------------------------------------
(* The end of a process, and fork() *)

LEMMA AskToDrainKeeps ==
  ASSUME LifecycleInv, NEW p \in Processes, AskToDrain(p)
  PROVE  LifecycleInv'
  <1> USE LifecycleAssumption DEF Activities
  <1>1. /\ TypeOK /\ ProcessInv(p) /\ main[p] \in Threads /\ lastAgent \in Nat
        /\ at[p][Drain] = "absent" /\ status[p] = "running"
        /\ at[p][main[p]] = "idle" \/ p \in Interruptible
    BY ProcessFacts DEF AskToDrain
  <1>2. /\ status' = status /\ main' = main
        /\ instance' = instance /\ hook' = hook /\ claimed' = claimed
        /\ atexit' = atexit /\ handler' = handler /\ lock' = lock
        /\ using' = using /\ mode' = mode /\ calls' = calls
        /\ running' = running /\ started' = started /\ lastAgent' = lastAgent
        /\ at' = [at EXCEPT ![p][Drain] = "shutdown"]
        /\ due' = [due EXCEPT ![p] = running[p]]
    BY DEF AskToDrain, module, natives
  <1>3. /\ at'[p][Drain] = "shutdown" /\ due'[p] = running[p]
        /\ \A b \in Activities \ {Drain} : at'[p][b] = at[p][b]
        /\ \A q \in Processes \ {p} : SameProcess(q)
    BY <1>1, <1>2 DEF TypeOK, SameProcess
  <1>4. TypeOK'
    BY <1>1, <1>2 DEF TypeOK, Places
  <1>5. \A a \in Activities : Holds(p, a)' = Holds(p, a)
    BY <1>1, <1>2, <1>3 DEF Holds
  <1>6. \A a \in Activities : Whereabouts(p, a)'
    <2>1. Whereabouts(p, Drain)'
      BY <1>1, <1>2, <1>3 DEF ProcessInv, Whereabouts
    <2>2. \A a \in Activities \ {Drain} : Whereabouts(p, a)'
      BY <1>1, <1>2, <1>3 DEF ProcessInv, Whereabouts
    <2> QED BY <2>1, <2>2
  <1>7. Life(p)' /\ Numbered(p)' /\ OwnAgents(p)' /\ HookInv(p)'
    BY <1>1, <1>2, <1>3 DEF ProcessInv, Life, Numbered, OwnAgents, HookInv
  <1>8. LockInv(p)'
    BY <1>1, <1>2, <1>5 DEF ProcessInv, LockInv, ThreadOf
  <1>9. Serial(p)'
    <2>1. \A a \in Activities : Alone(p, a)' => Alone(p, a) /\ at'[p][a] = at[p][a]
      BY <1>1, <1>2, <1>3, <1>5 DEF Alone, Holds
    <2>2. lock[p].count # 2
      BY <1>1 DEF ProcessInv, LockInv, Holds
    <2> QED BY <1>1, <1>2, <2>1, <2>2 DEF ProcessInv, Serial, Shown, Settling
  <1>10. DrainInv(p)'
    BY <1>1, <1>2, <1>3 DEF ProcessInv, DrainInv
  <1>11. \A q \in Processes \ {p} : ProcessInv(q)'
    BY <1>1, <1>2, <1>3, OthersKeepTheirs
  <1> QED BY <1>4, <1>6, <1>7, <1>8, <1>9, <1>10, <1>11 DEF ProcessInv, LifecycleInv

LEMMA DieKeeps ==
  ASSUME LifecycleInv, NEW p \in Processes, Die(p)
  PROVE  LifecycleInv'
  <1> USE LifecycleAssumption
  <1>1. /\ TypeOK /\ ProcessInv(p) /\ lastAgent \in Nat
        /\ at[p][Drain] = "die" /\ status[p] = "running"
    BY ProcessFacts DEF Die, Step
  <1>2. /\ main' = main /\ due' = due
        /\ instance' = instance /\ hook' = hook /\ claimed' = claimed
        /\ atexit' = atexit /\ handler' = handler /\ lock' = lock
        /\ at' = at /\ using' = using /\ mode' = mode /\ calls' = calls
        /\ running' = running /\ started' = started /\ lastAgent' = lastAgent
        /\ status' = [status EXCEPT ![p] = "exited"]
    BY DEF Die, module, call, natives
  <1>3. status'[p] = "exited" /\ \A q \in Processes \ {p} : SameProcess(q)
    BY <1>1, <1>2 DEF TypeOK, SameProcess
  <1>4. TypeOK'
    BY <1>1, <1>2 DEF TypeOK
  <1>5. /\ \A a \in Activities : Whereabouts(p, a)' /\ Holds(p, a)' = Holds(p, a)
        /\ Life(p)' /\ Numbered(p)' /\ OwnAgents(p)' /\ HookInv(p)' /\ DrainInv(p)'
    BY <1>1, <1>2, <1>3 DEF ProcessInv, Whereabouts, Holds, Life, Numbered, OwnAgents,
                            HookInv, DrainInv
  <1>6. LockInv(p)' /\ Serial(p)'
    BY <1>1, <1>2 DEF ProcessInv, LockInv, ThreadOf, Holds, Serial, Shown, Alone,
                      Settling, OnTop
  <1>7. \A q \in Processes \ {p} : ProcessInv(q)'
    BY <1>1, <1>2, <1>3, OthersKeepTheirs
  <1> QED BY <1>4, <1>5, <1>6, <1>7 DEF ProcessInv, LifecycleInv

(* The program's own handler returned: the main thread goes on.            *)
LEMMA HandlerReturnsKeeps ==
  ASSUME LifecycleInv, NEW p \in Processes, HandlerReturns(p)
  PROVE  LifecycleInv'
  <1> USE LifecycleAssumption DEF Activities
  <1>1. /\ TypeOK /\ ProcessInv(p) /\ main[p] \in Threads /\ lastAgent \in Nat
        /\ at[p][Drain] = "die" /\ status[p] = "running" /\ calls[p] <= MaxCalls
    BY ProcessFacts DEF HandlerReturns, Step
  <1>2. /\ status' = status /\ main' = main /\ due' = due
        /\ instance' = instance /\ hook' = hook /\ claimed' = claimed
        /\ atexit' = atexit /\ handler' = handler /\ lock' = lock
        /\ using' = using /\ mode' = mode
        /\ running' = running /\ started' = started /\ lastAgent' = lastAgent
        /\ at' = [at EXCEPT ![p][Drain] = "absent"]
        /\ calls' = [calls EXCEPT ![p] = @ + 1]
    BY DEF HandlerReturns, Goto, process, module, natives
  <1>3. /\ at'[p][Drain] = "absent"
        /\ \A b \in Activities \ {Drain} : at'[p][b] = at[p][b]
        /\ \A q \in Processes \ {p} : SameProcess(q)
    BY <1>1, <1>2 DEF TypeOK, SameProcess
  <1>4. TypeOK'
    <2>1. calls[p] \in 0..(MaxCalls + 1) /\ calls[p] + 1 \in 0..(MaxCalls + 1)
      BY <1>1 DEF TypeOK
    <2>2. calls' \in [Processes -> 0..(MaxCalls + 1)]
      BY <1>1, <1>2, <2>1 DEF TypeOK
    <2> QED BY <1>1, <1>2, <2>2 DEF TypeOK, Places
  <1>5. \A a \in Activities : Holds(p, a)' = Holds(p, a)
    BY <1>1, <1>2, <1>3 DEF Holds
  <1>6. \A a \in Activities : Whereabouts(p, a)'
    <2>1. Whereabouts(p, Drain)'
      BY <1>1, <1>2, <1>3 DEF ProcessInv, Whereabouts
    <2>2. \A a \in Activities \ {Drain} : Whereabouts(p, a)'
      BY <1>1, <1>2, <1>3 DEF ProcessInv, Whereabouts
    <2> QED BY <2>1, <2>2
  <1>7. Life(p)' /\ Numbered(p)' /\ OwnAgents(p)' /\ HookInv(p)'
    BY <1>1, <1>2, <1>3 DEF ProcessInv, Life, Numbered, OwnAgents, HookInv
  <1>8. LockInv(p)'
    BY <1>1, <1>2, <1>5 DEF ProcessInv, LockInv, ThreadOf
  <1>9. Serial(p)'
    <2>1. \A a \in Activities : Alone(p, a)' => Alone(p, a) /\ at'[p][a] = at[p][a]
      BY <1>1, <1>2, <1>3, <1>5 DEF Alone, Holds
    <2>2. lock[p].count # 2
      BY <1>1 DEF ProcessInv, LockInv, Holds
    <2> QED BY <1>1, <1>2, <2>1, <2>2 DEF ProcessInv, Serial, Shown, Settling
  <1>10. DrainInv(p)'
    BY <1>1, <1>2, <1>3 DEF ProcessInv, DrainInv
  <1>11. \A q \in Processes \ {p} : ProcessInv(q)'
    BY <1>1, <1>2, <1>3, OthersKeepTheirs
  <1> QED BY <1>4, <1>6, <1>7, <1>8, <1>9, <1>10, <1>11 DEF ProcessInv, LifecycleInv

(* The child has one idle thread and a free lock: the hook replaced it, or *)
(* there is none yet and the lock was free, so no agent is inherited.      *)
LEMMA ForkKeeps ==
  ASSUME LifecycleInv, ~ForkAnywhere,
         NEW p \in Processes, NEW c \in Processes, NEW t \in Threads, Fork(p, c, t)
  PROVE  LifecycleInv'
  <1> USE LifecycleAssumption
  <1>1. /\ TypeOK /\ ProcessInv(p) /\ ProcessInv(c) /\ lastAgent \in Nat
        /\ lock[p] = Free <=> lock[p].count = 0
    BY ProcessFacts
  <1>2. /\ at[p][t] = "idle" /\ status[c] = "unborn" /\ status[p] = "running" /\ p # c
        /\ hook[p] \/ lock[p] = Free
    BY DEF Fork, Step
  <1>3. /\ \A a \in Activities : /\ at[c][a] = "absent" /\ mode[c][a] = "plain"
                                 /\ using[c][a] = NoAgent
        /\ running[c] = {} /\ due[c] = {}
    BY <1>1, <1>2 DEF ProcessInv, Life, Whereabouts
  <1>4. /\ due' = due /\ using' = using /\ mode' = mode /\ calls' = calls
        /\ status' = [status EXCEPT ![c] = "running"] /\ main' = [main EXCEPT ![c] = t]
        /\ at' = [at EXCEPT ![c] = [a \in Activities |-> IF a = t THEN "idle" ELSE "absent"]]
        /\ hook' = [hook EXCEPT ![c] = hook[p]] /\ atexit' = [atexit EXCEPT ![c] = atexit[p]]
        /\ claimed' = [claimed EXCEPT ![c] = claimed[p]]
    BY DEF Fork
  <1>5. PICK i \in {None, Null, Pending} \cup {Live(x) : x \in 1..MaxAgents},
             h \in BOOLEAN, new \in SUBSET {lastAgent + 1} :
          /\ lock' = [lock EXCEPT ![c] = Free]
          /\ instance' = [instance EXCEPT ![c] = i] /\ handler' = [handler EXCEPT ![c] = h]
          /\ running' = [running EXCEPT ![c] = @ \cup new]
          /\ started' = [started EXCEPT ![c] = @ \cup new]
          /\ lastAgent' = IF new = {} THEN lastAgent ELSE lastAgent + 1
          /\ new # {} => lastAgent < MaxAgents /\ i = Live(lastAgent + 1)
          /\ new = {} => i \in {None, Null}
    <2>1. handler[p] \in BOOLEAN
      BY <1>1 DEF TypeOK
    <2>2. running = [running EXCEPT ![c] = @ \cup {}] /\ started = [started EXCEPT ![c] = @ \cup {}]
      BY <1>1 DEF TypeOK
    <2>3. CASE hook[p] /\ instance[p].kind = "pending" /\ NativeStart(c)
               /\ lock' = [lock EXCEPT ![c] = Free]
               /\ instance' = [instance EXCEPT ![c] = Live(lastAgent + 1)]
               /\ handler' = [handler EXCEPT ![c] = TRUE]
      <3>1. lastAgent + 1 \in 1..MaxAgents /\ {lastAgent + 1} # {}
        BY <1>1, <2>3 DEF NativeStart
      <3>2. Live(lastAgent + 1) \in {Live(x) : x \in 1..MaxAgents}
        BY <3>1
      <3>3. \E new \in SUBSET {lastAgent + 1} : new = {lastAgent + 1}
        OBVIOUS
      <3> QED BY <1>1, <2>3, <3>1, <3>2, <3>3 DEF NativeStart
    <2>4. CASE hook[p] /\ UNCHANGED natives
               /\ lock' = [lock EXCEPT ![c] = Free]
               /\ instance' = [instance EXCEPT ![c] = DisablesInherited(instance[p])]
               /\ handler' = [handler EXCEPT ![c] = handler[p]]
      <3>1. DisablesInherited(instance[p]) \in {None, Null}
        BY DEF DisablesInherited
      <3> QED BY <2>1, <2>2, <2>4, <3>1 DEF natives
    <2>5. CASE ~hook[p] /\ CopyModule(p, c)
      <3>1. instance[p] \in {None, Null}
        <4>1. instance[p].kind \notin {"live", "pending"}
          <5>1. \A u \in Threads : at[p][u] # "hook"
            BY <1>1, <1>2, <2>5, ProcessFacts DEF Holds, Activities
          <5> QED BY <1>1, <2>5, <5>1 DEF ProcessInv, HookInv
        <4> QED BY <1>1, <4>1, InstanceIs
      <3>2. lock[p] = Free
        BY <1>2, <2>5
      <3> QED BY <2>1, <2>2, <2>5, <3>1, <3>2 DEF CopyModule, natives
    <2>6. IF hook[p] THEN Reinit(p, c) ELSE CopyModule(p, c)
      BY DEF Fork
    <2> QED BY <2>3, <2>4, <2>5, <2>6 DEF Reinit, LockReplaced
  <1>6. /\ main'[c] = t /\ status'[c] = "running" /\ lock'[c] = Free /\ instance'[c] = i
        /\ \A a \in Activities : at'[c][a] = IF a = t THEN "idle" ELSE "absent"
        /\ running'[c] = new /\ started'[c] = started[c] \cup new
        /\ claimed'[c] = claimed[p] /\ hook'[c] = hook[p]
        /\ \A q \in Processes \ {c} : SameProcess(q)
    BY <1>1, <1>3, <1>4, <1>5 DEF TypeOK, SameProcess
  <1>7. lastAgent' \in Nat /\ lastAgent <= lastAgent' /\ new \subseteq 1..lastAgent'
    BY <1>1, <1>5
  <1>8. TypeOK'
    <2>1. running' \in [Processes -> SUBSET (1..MaxAgents)]
          /\ started' \in [Processes -> SUBSET (1..MaxAgents)] /\ lastAgent' \in 0..MaxAgents
      BY <1>1, <1>5 DEF TypeOK
    <2>2. at' \in [Processes -> [Activities -> Places]]
      BY <1>1, <1>4 DEF TypeOK, Places
    <2>3. /\ lock' \in [Processes -> [owner : Threads \cup {NoThread}, count : 0..2]]
          /\ \A q \in Processes : lock'[q].owner = NoThread <=> lock'[q].count = 0
      BY <1>1, <1>5 DEF TypeOK, Free
    <2>4. /\ instance' \in [Processes -> {None, Null, Pending} \cup {Live(x) : x \in 1..MaxAgents}]
          /\ handler' \in [Processes -> BOOLEAN]
      BY <1>1, <1>5 DEF TypeOK
    <2>5. /\ status' \in [Processes -> {"unborn", "running", "exited"}]
          /\ main' \in [Processes -> Threads] /\ hook' \in [Processes -> BOOLEAN]
          /\ atexit' \in [Processes -> BOOLEAN] /\ claimed' \in [Processes -> SUBSET (1..MaxAgents)]
      BY <1>1, <1>4 DEF TypeOK
    <2> QED BY <1>1, <1>4, <2>1, <2>2, <2>3, <2>4, <2>5 DEF TypeOK
  <1>9. ProcessInv(c)'
    <2>1. \A a \in Activities : Whereabouts(c, a)' /\ ~Holds(c, a)'
      BY <1>3, <1>4, <1>6 DEF Whereabouts, Holds, Activities
    <2>2. Life(c)' /\ LockInv(c)'
      BY <1>6, <2>1 DEF Life, LockInv, Free, Activities
    <2>3. Numbered(c)'
      BY <1>1, <1>3, <1>4, <1>6, <1>7 DEF ProcessInv, Numbered
    <2>4. OwnAgents(c)'
      BY <1>3, <1>4, <1>5, <1>6 DEF OwnAgents, None, Null, Live
    <2>5. HookInv(c)'
      <3>1. new # {} => hook[p]
        <4>1. new # {} => i.kind = "live"
          BY <1>5 DEF Live
        <4>2. ~hook[p] => CopyModule(p, c)
          BY DEF Fork
        <4> QED BY <1>1, <1>5, <1>7, <4>2 DEF CopyModule, natives
      <3> QED BY <1>5, <1>6, <3>1 DEF HookInv, None, Null, Live
    <2>6. Serial(c)'
      <3>1. lastAgent + 1 \notin claimed[p]
        BY <1>1 DEF ProcessInv, Numbered
      <3>2. new \subseteq {i.agent} /\ (new = {} \/ i.agent = lastAgent + 1)
        BY <1>5 DEF Live
      <3>3. Shown(c)'
        <4>1. running'[c] = new /\ instance'[c] = i /\ claimed'[c] = claimed[p]
          BY <1>6
        <4> QED BY <3>1, <3>2, <4>1 DEF Shown
      <3>4. \A x, y \in running'[c] : x = y
        BY <3>3 DEF Shown
      <3>5. lock'[c].count = 0
        <4>1. lock'[c] = Free
          BY <1>6
        <4> QED BY <4>1 DEF Free
      <3> QED BY <2>1, <3>3, <3>4, <3>5 DEF Serial, Alone
    <2>7. DrainInv(c)'
      BY <1>6 DEF DrainInv, Activities
    <2> QED BY <2>1, <2>2, <2>3, <2>4, <2>5, <2>6, <2>7 DEF ProcessInv
  <1>10. \A q \in Processes \ {c} : ProcessInv(q)'
    BY <1>6, <1>7, OthersKeepTheirs
  <1> QED BY <1>8, <1>9, <1>10 DEF LifecycleInv

-----------------------------------------------------------------------------
LEMMA InitHolds == Init => LifecycleInv
  <1> SUFFICES ASSUME Init PROVE LifecycleInv
    OBVIOUS
  <1> USE LifecycleAssumption
  <1>1. TypeOK
    <2>1. lock \in [Processes -> [owner : Threads \cup {NoThread}, count : 0..2]]
          /\ \A p \in Processes : lock[p].owner = NoThread <=> lock[p].count = 0
      BY DEF Init, Free
    <2> QED BY <2>1 DEF Init, TypeOK, Places, NoAgent, None
  <1>2. ASSUME NEW p \in Processes
        PROVE  ProcessInv(p)
    <2>1. \A a \in Activities : Whereabouts(p, a) /\ ~Holds(p, a)
      BY DEF Init, Whereabouts, Holds, Activities
    <2>2. Life(p) /\ Numbered(p)
      BY DEF Init, Life, Numbered, Activities
    <2>3. LockInv(p) /\ OwnAgents(p) /\ HookInv(p)
      BY <2>1 DEF Init, LockInv, OwnAgents, HookInv, Free, None
    <2>4. Serial(p) /\ DrainInv(p)
      BY <2>1 DEF Init, Serial, Shown, Alone, DrainInv, Activities, Free
    <2> QED BY <2>1, <2>2, <2>3, <2>4 DEF ProcessInv
  <1> QED BY <1>1, <1>2 DEF LifecycleInv

LEMMA NextKeeps ==
  ASSUME LifecycleInv, ~ForkAnywhere, [Next]_vars
  PROVE  LifecycleInv'
  <1>1. ASSUME NEW p \in Processes, NEW a \in Activities, Advance(p, a)
        PROVE  LifecycleInv'
    BY <1>1, EnterInitKeeps, DisableKeeps, StartKeeps, PublishKeeps, RegisterHookKeeps,
       EnterShutdownKeeps, ClaimKeeps, NativeShutdownKeeps, DropKeeps DEF Advance
  <1>2. ASSUME NEW p \in Processes, NEW t \in Threads,
               CallInit(p, t) \/ CallShutdown(p, t) \/ CallAgentShutdown(p, t)
        PROVE  LifecycleInv'
    BY <1>2, CallKeeps
  <1>3. ASSUME NEW p \in Processes, NEW t \in Threads, NEW c \in Processes, Fork(p, c, t)
        PROVE  LifecycleInv'
    BY <1>3, ForkKeeps
  <1>4. ASSUME NEW p \in Processes, AskToDrain(p) \/ Die(p) \/ HandlerReturns(p)
        PROVE  LifecycleInv'
    BY <1>4, AskToDrainKeeps, DieKeeps, HandlerReturnsKeeps
  <1>5. CASE UNCHANGED vars
    <2>1. \A q \in Processes : SameProcess(q)
      BY <1>5 DEF vars, process, module, call, natives, SameProcess
    <2>2. TypeOK' /\ lastAgent' \in Nat /\ lastAgent <= lastAgent'
      <3>1. TypeOK'
        BY <1>5 DEF LifecycleInv, TypeOK, vars, process, module, call, natives
      <3>2. lastAgent \in Nat /\ lastAgent' = lastAgent
        BY <1>5, LifecycleAssumption DEF LifecycleInv, TypeOK, vars, natives
      <3> QED BY <3>1, <3>2
    <2> QED BY <2>1, <2>2, OthersKeepTheirs DEF LifecycleInv
  <1> QED BY <1>1, <1>2, <1>3, <1>4, <1>5 DEF Next

-----------------------------------------------------------------------------
(* Where fork() waits for the hook or for a free lock, the inductive       *)
(* invariant holds in every state.                                         *)
THEOREM LifecycleInvariant ==
  ASSUME ~ForkAnywhere
  PROVE  Spec => []LifecycleInv
  <1>1. LifecycleInv /\ [Next]_vars => LifecycleInv'
    BY NextKeeps
  <1> QED BY <1>1, InitHolds, PTL DEF Spec

(* init(), shutdown(), the SIGTERM and atexit drain and the fork hook, on  *)
(* any number of threads of any number of processes: one native agent of   *)
(* the process's own, reachable from an idle module, and drained before a  *)
(* process dies that was asked to end while its main thread was idle.      *)
(* Agent.shutdown() takes no lock: of a process whose code calls it, only  *)
(* that it never touches an inherited agent is said (Disciplined).         *)
THEOREM AgentIsOneAndDrained ==
  ASSUME ~ForkAnywhere
  PROVE  Spec => []OneDrainedAgent
  <1>1. LifecycleInv => OneDrainedAgent
    <2> SUFFICES ASSUME LifecycleInv PROVE OneDrainedAgent
      OBVIOUS
    <2>1. TypeOK /\ \A p \in Processes : ProcessInv(p)
      BY DEF LifecycleInv
    <2>2. OneNativeAgent
      <3> SUFFICES ASSUME NEW p \in Disciplined PROVE Cardinality(running[p]) <= 1
        BY DEF OneNativeAgent
      <3>1. running[p] = {} \/ \E x : running[p] = {x}
        <4>1. p \in Processes /\ Serial(p)
          BY <2>1 DEF ProcessInv, Disciplined
        <4>2. \A a, b \in running[p] : a = b
          BY <4>1 DEF Serial
        <4> QED BY <4>2
      <3>2. Cardinality({}) = 0 /\ \A x : Cardinality({x}) = 1
        BY FS_EmptySet, FS_Singleton
      <3>3. Cardinality(running[p]) = 0 \/ Cardinality(running[p]) = 1
        BY <3>1, <3>2, Zenon
      <3> QED BY <3>3
    <2>3. RunningIsReachable
      <3> SUFFICES ASSUME NEW p \in Disciplined, lock[p] = Free, NEW a \in running[p]
                   PROVE  instance[p] = Live(a)
        BY DEF RunningIsReachable
      <3>1. p \in Processes /\ a \in 1..MaxAgents /\ instance[p].agent = a
        BY <2>1 DEF TypeOK, ProcessInv, Serial, Shown, Disciplined
      <3>2. instance[p] \in {None, Null, Pending} \cup {Live(b) : b \in 1..MaxAgents}
        BY <2>1, <3>1 DEF TypeOK
      <3> QED BY <3>1, <3>2 DEF None, Null, Pending, Live, NoAgent
    <2>4. DrainedBeforeDeath
      BY <2>1 DEF DrainedBeforeDeath, Drained, ProcessInv, Life, DrainInv, Disciplined
    <2>5. InheritedNeverTouched
      BY <2>1 DEF InheritedNeverTouched, ProcessInv, OwnAgents
    <2> QED BY <2>1, <2>2, <2>3, <2>4, <2>5 DEF OneDrainedAgent
  <1> QED BY <1>1, LifecycleInvariant, PTL

(* No process, forked or not, is left with a _lock whose owner is a thread *)
(* it does not have, however its parent's threads stood at the fork.       *)
THEOREM LockHasAnOwner ==
  ASSUME ~ForkAnywhere
  PROVE  Spec => []LockOwnerExists
  <1>1. LifecycleInv => LockOwnerExists
    <2> SUFFICES ASSUME LifecycleInv, NEW p \in Processes,
                        status[p] = "running", lock[p].owner # NoThread
                 PROVE  at[p][lock[p].owner] # "absent"
      BY DEF LockOwnerExists
    <2>1. PICK a \in Activities : Holds(p, a) /\ lock[p].owner = ThreadOf(p, a)
      BY ProcessFacts DEF ProcessInv, LockInv
    <2>2. at[p][main[p]] # "absent"
      BY ProcessFacts DEF ProcessInv, Life
    <2> QED BY <2>1, <2>2 DEF Holds, ThreadOf
  <1> QED BY <1>1, LifecycleInvariant, PTL
=============================================================================
