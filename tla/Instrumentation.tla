---------------------------- MODULE Instrumentation ----------------------------
(***************************************************************************)
(* Installing and removing the instrumentations (instrumentor.py, the      *)
(* wrapping half of instrumentations/_util.py, and what some               *)
(* instrumentations patch themselves: falcon's deferred hook, celery's     *)
(* signals, the log record factory, confluent_kafka's classes, psycopg2's  *)
(* cursor factories).                                                      *)
(*                                                                         *)
(* A slot is an attribute of a library that holds a callable.  It is       *)
(* modelled as the wrappers around the original, outermost first; ours     *)
(* name the instrumentor that installed them, others belong to other       *)
(* tracing libraries, which come and go at any time.  A "soft" one lets    *)
(* its __wrapped__ be re-pointed, a "hard" one does not.  install and      *)
(* uninstall hold a reentrant lock, but the imports a wrap makes run       *)
(* import hooks, and those may call instrument() again.                    *)
(*                                                                         *)
(* A behaviour is about one instrumentation: they share no slot.           *)
(***************************************************************************)
EXTENDS Integers, Sequences, FiniteSets, SequencesExt

CONSTANTS
  Classes,      \* the instrumentor classes under study
  Instances,    \* instances of each: of autoload, of explicit callers
  Contested,    \* the slots other libraries wrap too
  MaxForeign,   \* bound on their wrappers around one slot
  Threads,      \* that open psycopg2 connections
  Bases,        \* their cursor classes
  MaxCache      \* the size cap of _traced_cursor_cache

ASSUME InstrumentationAssumption ==
  /\ Classes \subseteq {"falcon", "celery", "logging", "confluent", "psycopg2"}
  /\ MaxForeign \in Nat /\ MaxCache \in Nat

None == "none"

-----------------------------------------------------------------------------
(* What _instrument() of each class patches, in order.                     *)
FalconSteps == <<"app", "asgi">>
CelerySteps == <<"apply_async", "signals">>
LoggingSteps == <<"factory", "make_record">>
ConfluentSteps == <<"producer">>
Psycopg2Steps == <<"connect">>
Steps == [falcon |-> FalconSteps, celery |-> CelerySteps, logging |-> LoggingSteps,
          confluent |-> ConfluentSteps, psycopg2 |-> Psycopg2Steps]

Slots == {"app", "asgi", "apply_async", "factory", "make_record", "producer", "connect"}

(* Slots wrap() patches, one of them only once its module is imported.     *)
Wrapped == {"app", "asgi", "apply_async", "make_record", "connect"}
Deferred == {"asgi"}

Foreign == {"soft", "hard"}

ASSUME NamesAssumption == Instances \cap (Foreign \cup {None}) = {}

-----------------------------------------------------------------------------
VARIABLES
  focus,       \* the class this behaviour is about
  chain,       \* per slot: its wrappers, an instance or a foreign kind
  registry,    \* _global_installed: the instance that counts as installed
  targets,     \* per instance: _wrapper_targets
  installing, installed,   \* instances with that flag up
  work,        \* operations in progress under _global_lock, outermost first
  imported,    \* deferred slots whose module is imported
  hooks,       \* the instances whose import hook is registered, in order
  listening,   \* celery's receivers are connected
  guard,       \* _needs_reentry_guard of the record factory
  reentered,   \* instrument() ran inside instrument() of the same class
  stranded,    \* slots where a foreign wrapper kept ours from being removed
  foreign,     \* per slot: the foreign wrappers put there and not taken back
  connecting,  \* per thread: the class it builds for a base
  cache,       \* _traced_cursor_cache: base -> the thread whose class it is
  given        \* (base, thread whose class) pairs that connections got

install == <<registry, targets, installing, installed, work, hooks>>
patched == <<chain, listening, guard, stranded>>
others  == <<imported, foreign>>
cursors == <<connecting, cache, given>>
vars == <<focus, install, patched, others, reentered, cursors>>

Init ==
  /\ focus \in Classes
  /\ chain = [t \in Slots |-> <<>>] /\ registry = None
  /\ targets = [i \in Instances |-> <<>>]
  /\ installing = {} /\ installed = {} /\ work = <<>>
  /\ imported = {} /\ hooks = <<>> /\ listening = FALSE /\ guard = FALSE
  /\ reentered = FALSE /\ stranded = {} /\ foreign = [t \in Slots |-> <<>>]
  /\ connecting = [t \in Threads |-> None] /\ cache = <<>> /\ given = {}

Mine == ToSet(Steps[focus])
Present == (Slots \ Deferred) \cup imported
Ours(layer) == layer \in Instances
Outermost(t) == IF chain[t] = <<>> THEN None ELSE Head(chain[t])

Top == work[Len(work)]
Idle == work = <<>>
Busy(op) == ~Idle /\ Top.op = op
Replace(frame) == [work EXCEPT ![Len(work)] = frame]
Popped == Front(work)
Next1 == Head(Top.todo)
Advanced == Replace([Top EXCEPT !.todo = Tail(@)])

-----------------------------------------------------------------------------
(* mutant: only a wrapper of the same instance counts as ours.             *)
WrappedUnlessOwn(i, t) == IF Outermost(t) = i THEN chain[t] ELSE <<i>> \o chain[t]

(* wrap().  Only the outermost layer is looked at: one of ours makes it a  *)
(* no-op, recorded again when it is this instance's.                       *)
WrappedBy(i, t) == IF Ours(Outermost(t)) THEN chain[t] ELSE <<i>> \o chain[t]

Recorded(i, t) ==
  IF (Ours(Outermost(t)) /\ Outermost(t) # i) \/ t \in ToSet(targets[i])
  THEN targets[i] ELSE Append(targets[i], t)

-----------------------------------------------------------------------------
(* unwrap_pinpoint(): our layer goes when it is outermost or when the one  *)
(* around it can be re-pointed; only the first of ours is looked at.       *)
FirstOurs(t) ==
  LET at == {n \in DOMAIN chain[t] : Ours(chain[t][n])}
  IN IF at = {} THEN 0 ELSE Min(at)

Refused(t) == FirstOurs(t) > 1 /\ chain[t][FirstOurs(t) - 1] = "hard"

(* mutant: the slot is reset to what is under our layer.                   *)
ResetToInner(t) ==
  IF FirstOurs(t) = 0 THEN chain[t]
  ELSE SubSeq(chain[t], FirstOurs(t) + 1, Len(chain[t]))

Unwrapped(t) ==
  IF FirstOurs(t) = 0 \/ Refused(t) THEN chain[t] ELSE RemoveAt(chain[t], FirstOurs(t))

-----------------------------------------------------------------------------
(* _patch_class(): a foreign subclass of ours inherits the mark.           *)
ClassPatched == \E n \in DOMAIN chain["producer"] :
  /\ Ours(chain["producer"][n])
  /\ \A m \in 1..(n - 1) : chain["producer"][m] = "soft"

(* The slot is put back only while it still holds our class.               *)
ClassRestored ==
  IF Ours(Outermost("producer")) THEN Tail(chain["producer"]) ELSE chain["producer"]

-----------------------------------------------------------------------------
(* The record factory is one function with one predecessor.  When others   *)
(* chain theirs on it, it may come to call itself: the guard breaks that,  *)
(* unless the captured predecessor is the stock LogRecord.                 *)
FactoryInstalled(i) ==
  IF Ours(Outermost("factory")) THEN chain["factory"] ELSE <<i>> \o chain["factory"]

(* mutant: the guard is only for what was there at the first installation. *)
GuardsFirstInstall ==
  IF FirstOurs("factory") # 0 THEN guard ELSE chain["factory"] # <<>>

GuardAfterInstall ==
  IF Ours(Outermost("factory")) THEN guard ELSE chain["factory"] # <<>>

(* Without a predecessor ours ends the chain: what was below it is lost.   *)
FactoryRestored ==
  LET top == IF Ours(Outermost("factory")) THEN Tail(chain["factory"]) ELSE chain["factory"]
      at == {n \in DOMAIN top : Ours(top[n])}
  IN IF at = {} THEN top ELSE SubSeq(top, 1, Min(at))

-----------------------------------------------------------------------------
(* instrument(): by a caller, or by autoload's import hook when the first  *)
(* step of that caller imports the library.                                *)
Instrument(i) ==
  /\ Idle \/ (Busy("install") /\ Top.todo = Steps[focus])
  /\ registry = None
  /\ \A n \in DOMAIN work : work[n].inst # i
  /\ work' = Append(work, [op |-> "install", inst |-> i, todo |-> Steps[focus]])
  /\ installing' = installing \cup {i}
  /\ reentered' = (reentered \/ ~Idle)
  /\ UNCHANGED <<focus, registry, targets, installed, hooks, patched, others, cursors>>

WrapStep ==
  /\ Busy("install") /\ Top.todo # <<>> /\ Next1 \in Wrapped \cap Present
  /\ chain' = [chain EXCEPT ![Next1] = WrappedBy(Top.inst, Next1)]
  /\ targets' = [targets EXCEPT ![Top.inst] = Recorded(Top.inst, Next1)]
  /\ work' = Advanced
  /\ UNCHANGED <<focus, registry, installing, installed, hooks, listening, guard,
                 stranded, others, reentered, cursors>>

(* The target does not exist in this version of the library; psycopg2's    *)
(* raises then.                                                            *)
WrapFails ==
  /\ Busy("install") /\ Top.todo # <<>> /\ Next1 \in Wrapped \ {"connect"}
  /\ ~Ours(Outermost(Next1))
  /\ work' = Advanced
  /\ UNCHANGED <<focus, registry, targets, installing, installed, hooks, patched,
                 others, reentered, cursors>>

(* register_post_import_hook() for a module that is not imported yet.      *)
DeferStep ==
  /\ Busy("install") /\ Top.todo # <<>> /\ Next1 \in Deferred \ imported
  /\ hooks' = IF Top.inst \in ToSet(hooks) THEN hooks ELSE Append(hooks, Top.inst)
  /\ work' = Advanced
  /\ UNCHANGED <<focus, registry, targets, installing, installed, patched, others,
                 reentered, cursors>>

ConnectStep ==
  /\ Busy("install") /\ Top.todo # <<>> /\ Next1 = "signals"
  /\ listening' = TRUE /\ work' = Advanced
  /\ UNCHANGED <<focus, registry, targets, installing, installed, hooks, chain, guard,
                 stranded, others, reentered, cursors>>

FactoryStep ==
  /\ Busy("install") /\ Top.todo # <<>> /\ Next1 = "factory"
  /\ chain' = [chain EXCEPT !["factory"] = FactoryInstalled(Top.inst)]
  /\ guard' = GuardAfterInstall
  /\ work' = Advanced
  /\ UNCHANGED <<focus, registry, targets, installing, installed, hooks, listening,
                 stranded, others, reentered, cursors>>

ClassStep ==
  /\ Busy("install") /\ Top.todo # <<>> /\ Next1 = "producer"
  /\ chain' = IF ClassPatched THEN chain
              ELSE [chain EXCEPT !["producer"] = <<Top.inst>> \o @]
  /\ work' = Advanced
  /\ UNCHANGED <<focus, registry, targets, installing, installed, hooks, listening, guard,
                 stranded, others, reentered, cursors>>

(* An exception out of _instrument(), also a KeyboardInterrupt.            *)
Raise ==
  /\ Busy("install") /\ Top.todo # <<>>
  /\ work' = Replace([Top EXCEPT !.op = "rollback", !.todo = <<"custom">>])
  /\ UNCHANGED <<focus, registry, targets, installing, installed, hooks, patched,
                 others, reentered, cursors>>

InstallEnds ==
  /\ Busy("install") /\ Top.todo = <<>>
  /\ registry' = Top.inst
  /\ installed' = installed \cup {Top.inst}
  /\ installing' = installing \ {Top.inst}
  /\ work' = Popped
  /\ UNCHANGED <<focus, targets, hooks, patched, others, reentered, cursors>>

-----------------------------------------------------------------------------
(* uninstrument(), of whatever instance the registry holds.                *)
Uninstrument ==
  /\ Idle /\ registry # None
  /\ work' = <<[op |-> "uninstall", inst |-> registry, todo |-> <<"custom">>]>>
  /\ UNCHANGED <<focus, registry, targets, installing, installed, hooks, patched,
                 others, reentered, cursors>>

Undoing == Busy("rollback") \/ Busy("uninstall")

(* mutant: no try/finally around _uninstrument().                          *)
RestoresUnlessRaised(raised) == IF raised THEN <<>> ELSE Reverse(targets[Top.inst])

(* What _restore_wrapper_targets() goes through, after _uninstrument()     *)
(* whether or not that raised.                                             *)
RestoresAfter(raised) == Reverse(targets[Top.inst])

(* _uninstrument(), then the list of wrap() targets is taken.  The one of  *)
(* celery may raise before it disconnects everything.                      *)
Custom(raised) ==
  /\ Undoing /\ Top.todo = <<"custom">>
  /\ raised => focus = "celery"
  /\ chain' = [chain EXCEPT !["factory"] = FactoryRestored, !["producer"] = ClassRestored]
  /\ guard' = FALSE
  /\ listening' = (listening /\ raised)
  /\ stranded' = stranded \cup {t \in {"factory", "producer"} : FirstOurs(t) > 1}
  /\ work' = Replace([Top EXCEPT !.todo = RestoresAfter(raised)])
  /\ targets' = [targets EXCEPT ![Top.inst] = <<>>]
  /\ UNCHANGED <<focus, registry, installing, installed, hooks, others, reentered, cursors>>

(* restore_pinpoint_target(), last installed first.                        *)
Restore ==
  /\ Undoing /\ Top.todo # <<>> /\ Next1 \in Wrapped
  /\ chain' = [chain EXCEPT ![Next1] = Unwrapped(Next1)]
  /\ stranded' = stranded \cup {t \in {Next1} : Refused(t)}
  /\ work' = Advanced
  /\ UNCHANGED <<focus, registry, targets, installing, installed, hooks, listening, guard,
                 others, reentered, cursors>>

RollbackEnds ==
  /\ Busy("rollback") /\ Top.todo = <<>>
  /\ installing' = installing \ {Top.inst} /\ installed' = installed \ {Top.inst}
  /\ work' = Popped
  /\ UNCHANGED <<focus, registry, targets, hooks, patched, others, reentered, cursors>>

UninstallEnds ==
  /\ Busy("uninstall") /\ Top.todo = <<>>
  /\ installed' = installed \ {Top.inst}
  /\ registry' = None
  /\ work' = Popped
  /\ UNCHANGED <<focus, targets, installing, hooks, patched, others, reentered, cursors>>

-----------------------------------------------------------------------------
(* _wrap_target(): hooks cannot be unregistered, so those of an instance   *)
(* that is not installed do nothing.                                       *)
Live(i) == i \in installing \cup installed

(* The application imports the module of a deferred slot: its hooks wait   *)
(* for the lock.  No wrap() of an instrumentation imports it.              *)
DeferredImport(t) ==
  LET live == {n \in DOMAIN hooks : Live(hooks[n])}
      first == hooks[Min(live)]
  IN /\ t \in (Mine \cap Deferred) \ imported
     /\ Idle
     /\ imported' = imported \cup {t}
     /\ chain' = [chain EXCEPT ![t] = IF live = {} THEN <<>> ELSE <<first>>]
     /\ targets' = IF live = {} THEN targets ELSE [targets EXCEPT ![first] = Append(@, t)]
     /\ UNCHANGED <<focus, registry, installing, installed, work, hooks, listening, guard,
                    stranded, foreign, reentered, cursors>>

-----------------------------------------------------------------------------
(* Another library wraps the slot, and takes its wrapper back while it is  *)
(* the outermost.                                                          *)
ForeignWrap(t, kind) ==
  /\ t \in Contested \cap Mine \cap Present /\ Len(foreign[t]) < MaxForeign
  /\ chain' = [chain EXCEPT ![t] = <<kind>> \o @]
  /\ foreign' = [foreign EXCEPT ![t] = <<kind>> \o @]
  /\ UNCHANGED <<focus, install, listening, guard, stranded, imported, reentered, cursors>>

ForeignUnwrap(t) ==
  /\ chain[t] # <<>> /\ ~Ours(Head(chain[t]))
  /\ chain' = [chain EXCEPT ![t] = Tail(@)]
  /\ foreign' = [foreign EXCEPT ![t] = IF @ = <<>> THEN @ ELSE Tail(@)]
  /\ UNCHANGED <<focus, install, listening, guard, stranded, imported, reentered, cursors>>

-----------------------------------------------------------------------------
(* _traced_cursor_factory(): a thread that misses the cache builds a class *)
(* of its own and publishes it, unless another did or the cache is full.   *)
LookUp(thread, base) ==
  /\ focus = "psycopg2" /\ Ours(Outermost("connect")) /\ connecting[thread] = None
  /\ IF base \in DOMAIN cache
     THEN given' = given \cup {<<base, cache[base]>>} /\ UNCHANGED connecting
     ELSE connecting' = [connecting EXCEPT ![thread] = base] /\ UNCHANGED given
  /\ UNCHANGED <<focus, install, patched, others, reentered, cache>>

(* mutant: a plain store.                                                  *)
Stored(base, thread) ==
  [b \in DOMAIN cache \cup {base} |-> IF b = base THEN thread ELSE cache[b]]

(* The cache after dict.setdefault(). *)
Published(base, thread) ==
  IF base \in DOMAIN cache THEN cache
  ELSE [b \in DOMAIN cache \cup {base} |-> IF b = base THEN thread ELSE cache[b]]

Publish(thread) ==
  LET base == connecting[thread]
      full == Cardinality(DOMAIN cache) >= MaxCache
      after == IF full THEN cache ELSE Published(base, thread)
  IN /\ base # None
     /\ cache' = after
     /\ given' = given \cup {<<base, IF full THEN thread ELSE after[base]>>}
     /\ connecting' = [connecting EXCEPT ![thread] = None]
     /\ UNCHANGED <<focus, install, patched, others, reentered>>

-----------------------------------------------------------------------------
Next ==
  \/ \E i \in Instances : Instrument(i)
  \/ WrapStep \/ WrapFails \/ DeferStep \/ ConnectStep \/ FactoryStep \/ ClassStep
  \/ Raise \/ InstallEnds
  \/ Uninstrument \/ Restore \/ RollbackEnds \/ UninstallEnds
  \/ \E raised \in BOOLEAN : Custom(raised)
  \/ \E t \in Slots : DeferredImport(t) \/ ForeignUnwrap(t)
  \/ \E t \in Slots, kind \in Foreign : ForeignWrap(t, kind)
  \/ \E thread \in Threads, base \in Bases : LookUp(thread, base)
  \/ \E thread \in Threads : Publish(thread)

Spec == Init /\ [][Next]_vars

-----------------------------------------------------------------------------
(* Properties. *)

TypeOK ==
  /\ focus \in Classes /\ chain \in [Slots -> Seq(Instances \cup Foreign)]
  /\ registry \in Instances \cup {None}
  /\ targets \in [Instances -> Seq(Wrapped)]
  /\ installing \cup installed \cup ToSet(hooks) \subseteq Instances
  /\ \A n \in DOMAIN work :
       /\ work[n].op \in {"install", "rollback", "uninstall"} /\ work[n].inst \in Instances
       /\ ToSet(work[n].todo) \subseteq Mine \cup {"custom"}
  /\ imported \subseteq Deferred /\ stranded \subseteq Slots
  /\ foreign \in [Slots -> Seq(Foreign)]
  /\ {listening, guard, reentered} \subseteq BOOLEAN
  /\ connecting \in [Threads -> Bases \cup {None}]
  /\ DOMAIN cache \subseteq Bases /\ \A b \in DOMAIN cache : cache[b] \in Threads
  /\ given \subseteq Bases \X Threads

(* "Process-wide: the class-keyed registry makes instrument/uninstrument   *)
(* idempotent" and "a partial failure [must not leave] monkey patches      *)
(* active" (instrumentor.py:25, 147): between operations, a class that is  *)
(* not registered has no wrapper left, but where a foreign one refused to  *)
(* let go; one that is has every wrapper it recorded.  instrument() inside *)
(* instrument() of the same class breaks this.                             *)
RegistryTellsTruth ==
  TypeOK /\ (Idle /\ ~reentered =>
    IF registry = None
    THEN \A t \in Slots \ stranded : FirstOurs(t) = 0
    ELSE \A t \in ToSet(targets[registry]) : FirstOurs(t) # 0)

(* "so wrappers never stack" (_util.py:336): two of ours are always apart. *)
WrappersNeverStack ==
  \A t \in Slots : \A n \in 2..Len(chain[t]) : ~(Ours(chain[t][n - 1]) /\ Ours(chain[t][n]))

(* The layers that are not ours are the given ones, in their order.        *)
KeepsInOrder(layers, theirs) ==
  \E at \in [DOMAIN theirs -> DOMAIN layers] :
    /\ \A m, n \in DOMAIN theirs : m < n => at[m] < at[n]
    /\ \A n \in DOMAIN theirs : layers[at[n]] = theirs[n]
    /\ \A m \in DOMAIN layers : Ours(layers[m]) \/ \E n \in DOMAIN theirs : at[n] = m

(* "without disturbing a wrapper another library may have layered on the   *)
(* same target" (_util.py:371): theirs stay, in their order, whatever we   *)
(* install and remove.  The record factory does not keep this.             *)
ForeignLayersKept ==
  \A t \in Slots \ {"factory"} : KeepsInOrder(chain[t], foreign[t])

(* "this breaks that loop" (logging_ext/__init__.py:66): a factory that    *)
(* reaches itself through the one it captured has its guard up.            *)
RecordsEnd ==
  LET ours == {n \in DOMAIN chain["factory"] : Ours(chain["factory"][n])}
  IN Cardinality(ours) > 1 => guard

(* "identity must stay stable for cursor_factory comparisons"              *)
(* (psycopg/__init__.py:88): connections of one cursor class get one       *)
(* traced class, while the cache has room.                                 *)
OneTracedClass ==
  \A b \in DOMAIN cache : \A x \in given :
    x[1] = b /\ Cardinality(DOMAIN cache) < MaxCache => x[2] = cache[b]

=============================================================================
