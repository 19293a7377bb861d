--------------------------- MODULE SpanContextProofs ---------------------------
(***************************************************************************)
(* Why no two contexts share a span: proofs about SpanContext, for any     *)
(* number of tasks, spans and open events.                                 *)
(***************************************************************************)
EXTENDS SpanContext, SequenceTheorems, WellFoundedInduction, TLAPS

(* The types, with the number of spans and of bindings. *)
Typed(n, m) ==
  /\ task \in [Tasks -> {"unborn", "alive", "done", "over", "collected"}]
  /\ waitsFor \in [Tasks -> Tasks \cup {NoTask}]
  /\ bindings \in [1..m -> [span : 1..n, thread : {LoopThread},
                            owner : Tasks \cup {NoTask}]]
  /\ ctx \in [Units -> 0..m]
  /\ ended \in [1..n -> BOOLEAN] /\ stack \in [1..n -> Seq(Units)]
  /\ latch \in [1..n -> BOOLEAN] /\ armed \in [1..n -> BOOLEAN]
  /\ grace \in [1..n -> {"unset", "running", "over"}]
  /\ forkedBy \in [1..n -> Tasks \cup {NoTask}]
  /\ enteredBy \in [1..n -> (Units \ {Worker}) \cup {NoTask}]

TypeInv == \E n, m \in Nat : Typed(n, m)

(* A span is entered by one unit, or forked for one task. *)
OneOpener == \A s \in Spans : (forkedBy[s] = NoTask) # (enteredBy[s] = NoTask)

(* p is in the span made for it, and owns its binding. *)
Holds(p, s) == ctx[p] # NoBinding /\ SpanOf(p) = s /\ Binding(p).owner = p

(* While a span goes on, the task it was made for holds it: it runs, or    *)
(* its done callback is to come.  Only a lost task's span is left to the   *)
(* timer.                                                                  *)
OpenersHold ==
  \A s \in Spans, p \in Tasks : ~ended[s] /\ MadeFor(p, s) =>
    \/ task[p] = "alive" /\ Holds(p, s)
    \/ task[p] = "done" /\ forkedBy[s] = p /\ Holds(p, s)
    \/ task[p] = "collected" /\ forkedBy[s] = p

(* p is awaiting, or has awaited, the child that owns this binding. *)
AwaitsOwner(p, b) ==
  /\ bindings[b].owner = waitsFor[p]
  /\ waitsFor[p] \in Tasks /\ task[waitsFor[p]] \notin {"unborn", "collected"}

(* Of a span's bindings b and c, one is still p's, whom the span was made  *)
(* for, and the other is that of the child p awaits.                       *)
AdoptedFrom(p, b, c) ==
  /\ MadeFor(p, bindings[b].span)
  /\ task[p] \in {"alive", "done"} /\ waitsFor[p] # NoTask
  /\ ctx[p] \in {b, c}
  /\ task[p] = "alive" => \A d \in {b, c} \ {ctx[p]} : AwaitsOwner(p, d)

(* A span that goes on has a second binding only by adoption. *)
SecondIsAdopted ==
  \A b, c \in DOMAIN bindings :
    b # c /\ bindings[b].span = bindings[c].span /\ ~ended[bindings[b].span] =>
      \E p \in Tasks : AdoptedFrom(p, b, c)

(* Whoever has an event open on a span goes on, is on the loop's thread,   *)
(* and owns the span, or is the code around the loop.                      *)
ScopesAreOwned ==
  \A s \in Spans : \A i \in DOMAIN stack[s] :
    LET u == stack[s][i]
    IN  /\ ~ended[s] /\ u # Worker /\ ctx[u] # NoBinding /\ SpanOf(u) = s
        /\ u \in Tasks => task[u] = "alive" /\ Binding(u).owner = u

(* An event above another unit's is that of a task it awaits. *)
ScopesNest ==
  \A s \in Spans : \A i, j \in DOMAIN stack[s] :
    i < j /\ stack[s][i] # stack[s][j] =>
      /\ stack[s][j] # Main
      /\ stack[s][i] # Main => waitsFor[stack[s][i]] = stack[s][j]

ContextInv ==
  /\ TypeInv /\ OneOpener /\ LatchOwnsTaskSpan /\ OpenersHold
  /\ SecondIsAdopted /\ ScopesAreOwned /\ ScopesNest

-----------------------------------------------------------------------------
(* A sequence read as a function, and one element longer. *)
LEMMA FunIsSeq ==
  ASSUME NEW S, NEW n \in Nat, NEW f \in [1..n -> S]
  PROVE  f \in Seq(S) /\ Len(f) = n /\ DOMAIN f = 1..n
  OBVIOUS

LEMMA SeqIsFun ==
  ASSUME NEW S, NEW q \in Seq(S)
  PROVE  q \in [1..Len(q) -> S]
  OBVIOUS

LEMMA AppendType ==
  ASSUME NEW S, NEW n \in Nat, NEW f \in [1..n -> S], NEW e \in S
  PROVE  Append(f, e) \in [1..(n + 1) -> S]
<1>1. f \in Seq(S) /\ Len(f) = n
  BY FunIsSeq
<1>2. Append(f, e) \in Seq(S) /\ Len(Append(f, e)) = n + 1
  BY <1>1
<1>3. Append(f, e) \in [1..Len(Append(f, e)) -> S]
  BY <1>2, SeqIsFun
<1> QED
  BY <1>2, <1>3

LEMMA AppendKeeps ==
  ASSUME NEW S, NEW n \in Nat, NEW f \in [1..n -> S], NEW e \in S
  PROVE  \A i \in 1..n : Append(f, e)[i] = f[i]
<1>1. f \in Seq(S) /\ Len(f) = n
  BY FunIsSeq
<1> QED
  BY <1>1

LEMMA AppendLast ==
  ASSUME NEW S, NEW n \in Nat, NEW f \in [1..n -> S], NEW e \in S
  PROVE  Append(f, e)[n + 1] = e
<1>1. f \in Seq(S) /\ Len(f) = n
  BY FunIsSeq
<1> QED
  BY <1>1

(* What the types say of lengths. *)
LEMMA TypedFacts ==
  ASSUME NEW n \in Nat, NEW m \in Nat, Typed(n, m)
  PROVE  /\ Spans = 1..n /\ Len(ended) = n
         /\ DOMAIN bindings = 1..m /\ Len(bindings) = m
  BY DEF Typed, Spans

LEMMA TypedIsTypeOK ==
  ASSUME TypeInv
  PROVE  TypeOK
<1>1. PICK n \in Nat, m \in Nat : Typed(n, m)
  BY DEF TypeInv
<1>2. Spans = 1..n /\ Len(bindings) = m
  BY <1>1, TypedFacts
<1>3. /\ ended \in Seq(BOOLEAN) /\ latch \in Seq(BOOLEAN) /\ armed \in Seq(BOOLEAN)
      /\ stack \in Seq(Seq(Units)) /\ grace \in Seq({"unset", "running", "over"})
      /\ forkedBy \in Seq(Tasks \cup {NoTask})
      /\ enteredBy \in Seq((Units \ {Worker}) \cup {NoTask})
      /\ bindings \in Seq([span : Spans, thread : {LoopThread},
                           owner : Tasks \cup {NoTask}])
  BY <1>1, <1>2, FunIsSeq DEF Typed
<1>4. enteredBy \in Seq(Units \cup {NoTask})
  BY <1>3
<1> QED
  BY <1>1, <1>2, <1>3, <1>4 DEF TypeOK, Typed

(* Units are tasks, the code around the loop, and the worker, each itself. *)
LEMMA UnitFacts ==
  /\ Units = Tasks \cup {Main, Worker} /\ Main \notin Tasks /\ Worker \notin Tasks
  /\ Main # Worker /\ NoTask \notin Units
  BY ContextAssumption DEF Units

LEMMA MayRunFacts ==
  /\ MayRun(Main) <=> ~LoopRuns
  /\ \A t \in Tasks : MayRun(t) <=> task[t] = "alive" /\ ~Suspended(t)
<1>1. MayRun(Main) <=> ~LoopRuns
  BY UnitFacts DEF MayRun
<1>2. ASSUME NEW t \in Tasks PROVE MayRun(t) <=> task[t] = "alive" /\ ~Suspended(t)
  BY UnitFacts DEF MayRun
<1> QED
  BY <1>1, <1>2

(* Of two live tasks that own bindings of one live span, one awaits the    *)
(* other.                                                                  *)
LEMMA TwoOwners ==
  ASSUME OpenersHold, SecondIsAdopted, NEW n \in Nat, NEW m \in Nat, Typed(n, m),
         NEW t \in Tasks, NEW u \in Tasks, t # u,
         task[t] = "alive", task[u] = "alive",
         ctx[t] # NoBinding, ctx[u] # NoBinding,
         Binding(t).owner = t, Binding(u).owner = u,
         SpanOf(t) = SpanOf(u), ~ended[SpanOf(t)]
  PROVE  waitsFor[t] = u \/ waitsFor[u] = t
<1>0. DOMAIN bindings = 1..m /\ Spans = 1..n
  BY TypedFacts
<1>1. ctx[t] \in 1..m /\ ctx[u] \in 1..m /\ DOMAIN bindings = 1..m /\ Spans = 1..n
  <2>1. ctx[t] \in 0..m /\ ctx[u] \in 0..m
    BY UnitFacts DEF Typed
  <2> QED
    BY <1>0, <2>1 DEF NoBinding
<1>2. ctx[t] # ctx[u]
  BY DEF Binding
<1>3. SpanOf(t) \in Spans
  BY <1>1 DEF Typed, SpanOf, Binding
<1>3a. PICK p \in Tasks : AdoptedFrom(p, ctx[t], ctx[u])
  BY <1>1, <1>2 DEF SecondIsAdopted, SpanOf, Binding
<1>4. /\ MadeFor(p, SpanOf(t)) /\ task[p] \in {"alive", "done"}
      /\ ctx[p] \in {ctx[t], ctx[u]}
      /\ task[p] = "alive" =>
           \A d \in {ctx[t], ctx[u]} \ {ctx[p]} : AwaitsOwner(p, d)
  BY <1>3a DEF AdoptedFrom, SpanOf, Binding
<1>5. Holds(p, SpanOf(t))
  BY <1>3, <1>4 DEF OpenersHold
<1>6. p \in {t, u}
  BY <1>4, <1>5 DEF Holds, Binding
<1> QED
  BY <1>2, <1>4, <1>6 DEF AwaitsOwner, Binding

(* What the runs check follows from the invariant. *)
LEMMA InvGivesOwned ==
  ASSUME ContextInv
  PROVE  SpansAreOwned
<1>1. PICK n \in Nat, m \in Nat : Typed(n, m)
  BY DEF ContextInv, TypeInv
<1>2. Spans = 1..n /\ DOMAIN bindings = 1..m
  BY <1>1, TypedFacts
<1>3. OneOwner
  <2> SUFFICES ASSUME NEW t \in Tasks, NEW u \in Tasks, t # u,
                      MayRun(t), MayRun(u), Usable(t), Usable(u),
                      SpanOf(t) = SpanOf(u)
               PROVE  FALSE
    BY DEF OneOwner
  <2>1. /\ task[t] = "alive" /\ task[u] = "alive" /\ ~Suspended(t) /\ ~Suspended(u)
    BY MayRunFacts
  <2>2. waitsFor[t] = u \/ waitsFor[u] = t
    BY <1>1, <2>1, TwoOwners DEF ContextInv, Usable, Reachable
  <2> QED
    BY <2>1, <2>2 DEF Suspended
<1>4. ScopesDoNotCross
  <2> SUFFICES ASSUME NEW s \in Spans,
                      NEW i \in DOMAIN stack[s], NEW j \in DOMAIN stack[s],
                      i < j, stack[s][i] # stack[s][j], MayRun(stack[s][i])
               PROVE  FALSE
    BY DEF ScopesDoNotCross
  <2>1. stack[s][i] \in Units /\ stack[s][j] \in Units
    BY <1>1, <1>2 DEF Typed
  <2>2. stack[s][j] # Main /\ (stack[s][i] # Main => waitsFor[stack[s][i]] = stack[s][j])
    BY DEF ContextInv, ScopesNest
  <2>3. stack[s][i] # Worker /\ stack[s][j] # Worker
    BY DEF ContextInv, ScopesAreOwned
  <2>4. stack[s][j] \in Tasks /\ task[stack[s][j]] = "alive"
    BY <2>1, <2>2, <2>3, UnitFacts DEF ContextInv, ScopesAreOwned
  <2>5. CASE stack[s][i] = Main
    BY <2>4, <2>5, MayRunFacts DEF LoopRuns
  <2>6. CASE stack[s][i] # Main
    BY <2>1, <2>2, <2>3, <2>4, <2>6, UnitFacts, MayRunFacts DEF Suspended
  <2> QED
    BY <2>5, <2>6
<1> QED
  BY <1>3, <1>4, TypedIsTypeOK DEF ContextInv, SpansAreOwned

-----------------------------------------------------------------------------
(* First and last places in a sequence. *)
LEMMA LeastNumber ==
  ASSUME NEW T, T \subseteq Nat, T # {}
  PROVE  \E i \in T : \A j \in T : i <= j
<1>1. \E i \in T : \A j \in T : <<j, i>> \notin OpToRel(<, Nat)
  BY WFMin, NatLessThanWellFounded
<1>2. PICK i \in T : \A j \in T : <<j, i>> \notin OpToRel(<, Nat)
  BY <1>1
<1>3. ASSUME NEW j \in T PROVE i <= j
  <2>1. ~(j < i)
    BY <1>2 DEF OpToRel
  <2> QED
    BY <2>1
<1> QED
  BY <1>3

LEMMA FirstPlace ==
  ASSUME NEW n \in Nat, NEW T, T \subseteq 1..n, T # {}
  PROVE  \E i \in T : \A j \in T : i <= j
<1>1. T \subseteq Nat
  OBVIOUS
<1> QED
  BY <1>1, LeastNumber

LEMMA LastPlace ==
  ASSUME NEW n \in Nat, NEW T, T \subseteq 1..n, T # {}
  PROVE  \E i \in T : \A j \in T : j <= i
<1> DEFINE R == {n - i : i \in T}
<1>1. R \subseteq Nat
  <2>1. ASSUME NEW i \in T PROVE n - i \in Nat
    <3>1. i \in 1..n
      OBVIOUS
    <3> QED
      BY <3>1
  <2> QED
    BY <2>1
<1>2. R # {}
  OBVIOUS
<1>3. PICK k \in R : \A l \in R : k <= l
  <2> HIDE DEF R
  <2> QED
    BY <1>1, <1>2, LeastNumber
<1>4. PICK i \in T : k = n - i
  BY <1>3
<1>5. ASSUME NEW j \in T PROVE j <= i
  <2>1. k <= n - j
    BY <1>3
  <2>2. i \in Int /\ j \in Int
    <3>1. i \in 1..n /\ j \in 1..n
      OBVIOUS
    <3> QED
      BY <3>1
  <2> QED
    BY <1>4, <2>1, <2>2
<1> QED
  BY <1>5

(* q is what is left of r when its end is cut off. *)
CutOf(q, r) ==
  /\ q \in Seq(Units) /\ DOMAIN q \subseteq DOMAIN r
  /\ \A i \in DOMAIN q : q[i] = r[i]

LEMMA SubSeqCuts ==
  ASSUME NEW r \in Seq(Units), NEW k \in 1..Len(r)
  PROVE  /\ CutOf(SubSeq(r, 1, k - 1), r)
         /\ DOMAIN SubSeq(r, 1, k - 1) = 1..(k - 1)
<1>1. SubSeq(r, 1, k - 1) \in Seq(Units) /\ Len(SubSeq(r, 1, k - 1)) = k - 1
  OBVIOUS
<1>2. \A i \in 1..(k - 1) : SubSeq(r, 1, k - 1)[i] = r[i]
  OBVIOUS
<1> QED
  BY <1>1, <1>2 DEF CutOf

LEMMA WholeIsCut ==
  ASSUME NEW r \in Seq(Units)
  PROVE  CutOf(r, r) /\ CutOf(<<>>, r)
  BY DEF CutOf

LEMMA AboveCuts ==
  ASSUME NEW r \in Seq(Units), NEW u, \E i \in DOMAIN r : r[i] = u
  PROVE  CutOf(Above(r, u), r)
<1> DEFINE T == {i \in DOMAIN r : r[i] = u}
           k == CHOOSE i \in DOMAIN r : r[i] = u /\ \A j \in DOMAIN r : r[j] = u => j <= i
<1>1. T \subseteq 1..Len(r) /\ T # {}
  OBVIOUS
<1>2. \E i \in DOMAIN r : r[i] = u /\ \A j \in DOMAIN r : r[j] = u => j <= i
  <2>1. Len(r) \in Nat
    OBVIOUS
  <2>2. \E i \in T : \A j \in T : j <= i
    <3> HIDE DEF T
    <3> QED
      BY <1>1, <2>1, LastPlace
  <2> QED
    BY <2>2
<1>3. k \in DOMAIN r
  BY <1>2
<1>4. Above(r, u) = SubSeq(r, 1, k - 1)
  BY DEF Above
<1>5. k \in 1..Len(r)
  BY <1>3
<1> HIDE DEF k
<1> QED
  BY <1>4, <1>5, SubSeqCuts

(* What is left below t's outermost event has none of t's. *)
Below(r, t) ==
  SubSeq(r, 1, (CHOOSE i \in DOMAIN r : r[i] = t /\ \A j \in 1..(i - 1) : r[j] # t) - 1)

LEMMA BelowCuts ==
  ASSUME NEW r \in Seq(Units), NEW t, \E i \in DOMAIN r : r[i] = t
  PROVE  /\ CutOf(Below(r, t), r)
         /\ \A i \in DOMAIN Below(r, t) : Below(r, t)[i] # t
<1> DEFINE T == {i \in DOMAIN r : r[i] = t}
           P(i) == r[i] = t /\ \A j \in 1..(i - 1) : r[j] # t
           k == CHOOSE i \in DOMAIN r : P(i)
<1>1. T \subseteq 1..Len(r) /\ T # {} /\ DOMAIN r = 1..Len(r)
  OBVIOUS
<1>2. PICK i \in T : \A j \in T : i <= j
  <2>1. Len(r) \in Nat
    OBVIOUS
  <2> HIDE DEF T
  <2> QED
    BY <1>1, <2>1, FirstPlace
<1>3. i \in DOMAIN r /\ P(i)
  BY <1>1, <1>2
<1>4. k \in DOMAIN r /\ P(k)
  BY <1>3
<1>5. Below(r, t) = SubSeq(r, 1, k - 1)
  BY DEF Below
<1>6. k \in 1..Len(r) /\ \A j \in 1..(k - 1) : r[j] # t
  BY <1>1, <1>4
<1> HIDE DEF k
<1> QED
  BY <1>5, <1>6, SubSeqCuts DEF CutOf

-----------------------------------------------------------------------------
(* The invariant, one action at a time *)

(* Cutting stacks disturbs no nesting. *)
LEMMA CutsNest ==
  ASSUME ScopesNest, waitsFor' = waitsFor, Spans' = Spans,
         \A s \in Spans : CutOf(stack'[s], stack[s])
  PROVE  ScopesNest'
<1> SUFFICES ASSUME NEW s \in Spans,
                    NEW i \in DOMAIN stack'[s], NEW j \in DOMAIN stack'[s],
                    i < j, stack'[s][i] # stack'[s][j]
             PROVE  /\ stack'[s][j] # Main
                    /\ stack'[s][i] # Main => waitsFor[stack'[s][i]] = stack'[s][j]
  BY DEF ScopesNest
<1>1. /\ i \in DOMAIN stack[s] /\ j \in DOMAIN stack[s]
      /\ stack'[s][i] = stack[s][i] /\ stack'[s][j] = stack[s][j]
  BY DEF CutOf
<1> QED
  BY <1>1 DEF ScopesNest

(* What cutting stacks leaves is owned as before, if nothing else moves    *)
(* that ownership rests on.                                                *)
LEMMA CutsStayOwned ==
  ASSUME ScopesAreOwned, Spans' = Spans,
         \A s \in Spans : CutOf(stack'[s], stack[s]),
         \A s \in Spans : \A i \in DOMAIN stack'[s] :
            /\ ~ended'[s] /\ ctx'[stack[s][i]] = ctx[stack[s][i]]
            /\ bindings'[ctx[stack[s][i]]] = bindings[ctx[stack[s][i]]]
            /\ task'[stack[s][i]] = task[stack[s][i]]
  PROVE  ScopesAreOwned'
<1> SUFFICES ASSUME NEW s \in Spans, NEW i \in DOMAIN stack'[s]
             PROVE  LET u == stack'[s][i]
                    IN  /\ ~ended'[s] /\ u # Worker /\ ctx'[u] # NoBinding
                        /\ bindings'[ctx'[u]].span = s
                        /\ u \in Tasks => task'[u] = "alive" /\ bindings'[ctx'[u]].owner = u
  BY DEF ScopesAreOwned, SpanOf, Binding
<1>1. i \in DOMAIN stack[s] /\ stack'[s][i] = stack[s][i]
  BY DEF CutOf
<1> QED
  BY <1>1 DEF ScopesAreOwned, SpanOf, Binding

(* Spans may end, and bindings and their holders stay as they are. *)
LEMMA EndingKeepsHolders ==
  ASSUME NEW n \in Nat, NEW m \in Nat, Typed(n, m), Spans' = Spans,
         UNCHANGED <<task, waitsFor, bindings, ctx, made>>,
         \A s \in Spans : ended[s] => ended'[s]
  PROVE  /\ OpenersHold => OpenersHold'
         /\ SecondIsAdopted => SecondIsAdopted'
         /\ OneOpener => OneOpener'
<1>0. \A b \in DOMAIN bindings : bindings[b].span \in Spans
  BY TypedFacts DEF Typed
<1>1. ASSUME OpenersHold PROVE OpenersHold'
  BY <1>1 DEF OpenersHold, MadeFor, Holds, SpanOf, Binding, made
<1>2. ASSUME SecondIsAdopted PROVE SecondIsAdopted'
  BY <1>0, <1>2 DEF SecondIsAdopted, AdoptedFrom, MadeFor, AwaitsOwner, made
<1>3. ASSUME OneOpener PROVE OneOpener'
  BY <1>3 DEF OneOpener, made
<1> QED
  BY <1>1, <1>2, <1>3

(* The parts together. *)
LEMMA AllParts ==
  ASSUME NEW n \in Nat, NEW m \in Nat, Typed(n, m)', OneOpener',
         LatchOwnsTaskSpan', OpenersHold', SecondIsAdopted', ScopesAreOwned', ScopesNest'
  PROVE  ContextInv'
  BY DEF ContextInv, TypeInv

LEMMA ClaimKeeps ==
  ASSUME ContextInv, NEW u \in Units, Claim(u)
  PROVE  ContextInv'
<1>1. PICK n \in Nat, m \in Nat : Typed(n, m)
  BY DEF ContextInv, TypeInv
<1> DEFINE b == ctx[u]
<1>2. /\ Spans = 1..n /\ DOMAIN bindings = 1..m /\ b \in 1..m /\ u \in Tasks
      /\ task[u] = "alive" /\ b # NoBinding
      /\ Unowned(bindings[b]) /\ ~ended[bindings[b].span]
  <2>1. b \in 0..m
    BY <1>1 DEF Typed
  <2> QED
    BY <1>1, <2>1, TypedFacts, MayRunFacts
    DEF Claim, Reachable, NoBinding, SpanOf, Binding
<1>3. /\ bindings' = [bindings EXCEPT ![b].owner = u]
      /\ UNCHANGED <<task, waitsFor, ctx, stack, forkedBy, enteredBy, ended, latch, armed, grace>>
  BY DEF Claim, OwnerTaken, made, life
<1>3a. bindings[b] \in [span : 1..n, thread : {LoopThread}, owner : Tasks \cup {NoTask}]
  BY <1>1, <1>2 DEF Typed
<1>3b. [bindings[b] EXCEPT !.owner = u]
         \in [span : 1..n, thread : {LoopThread}, owner : Tasks \cup {NoTask}]
  BY <1>2, <1>3a
<1>3c. DOMAIN bindings = 1..m /\ bindings' = [bindings EXCEPT ![b] = [bindings[b] EXCEPT !.owner = u]]
  BY <1>2, <1>3
<1>4. /\ bindings' \in [1..m -> [span : 1..n, thread : {LoopThread},
                                owner : Tasks \cup {NoTask}]]
      /\ \A c \in 1..m : bindings'[c].span = bindings[c].span
      /\ \A c \in 1..m : c # b => bindings'[c] = bindings[c]
      /\ bindings'[b].owner = u
  <2>1. /\ \A c \in 1..m : c # b => bindings'[c] = bindings[c]
        /\ bindings'[b] = [bindings[b] EXCEPT !.owner = u]
    BY <1>2, <1>3c
  <2>2. bindings'[b].span = bindings[b].span /\ bindings'[b].owner = u
    BY <1>3a, <2>1
  <2>3. bindings' \in [1..m -> [span : 1..n, thread : {LoopThread},
                                owner : Tasks \cup {NoTask}]]
    BY <1>1, <1>2, <1>3b, <1>3c DEF Typed
  <2> QED
    BY <2>1, <2>2, <2>3
<1>5. /\ Typed(n, m)' /\ Spans' = Spans /\ DOMAIN bindings' = 1..m
  BY <1>1, <1>3, <1>4 DEF Typed, Spans
<1>6. OneOpener' /\ LatchOwnsTaskSpan' /\ ScopesNest'
  BY <1>3, <1>5 DEF ContextInv, OneOpener, LatchOwnsTaskSpan, ScopesNest
<1>7. ASSUME NEW v \in Tasks, ctx[v] = b, bindings[b].owner = v
      PROVE  task[v] = "collected"
  <2>1. v # NoTask
    BY UnitFacts
  <2> QED
    BY <1>2, <1>7, <2>1 DEF Unowned
<1>8. OpenersHold'
  <2> SUFFICES ASSUME NEW s \in Spans, NEW p \in Tasks, ~ended[s], MadeFor(p, s)
               PROVE  \/ task[p] = "alive" /\ Holds(p, s)'
                      \/ task[p] = "done" /\ forkedBy[s] = p /\ Holds(p, s)'
                      \/ task[p] = "collected" /\ forkedBy[s] = p
    BY <1>3, <1>5 DEF OpenersHold, MadeFor
  <2>1. CASE task[p] = "collected"
    BY <2>1 DEF ContextInv, OpenersHold
  <2>2. CASE task[p] # "collected"
    <3>1. Holds(p, s)
      BY <2>2 DEF ContextInv, OpenersHold
    <3>2. ctx[p] # b
      BY <1>7, <2>2, <3>1 DEF Holds, Binding
    <3>3. ctx[p] \in 1..m
      <4>1. ctx[p] \in 0..m
        BY <1>1, UnitFacts DEF Typed
      <4> QED
        BY <3>1, <4>1 DEF Holds, NoBinding
    <3>4. Holds(p, s)'
      BY <1>3, <1>4, <3>1, <3>2, <3>3 DEF Holds, SpanOf, Binding
    <3> QED
      BY <2>2, <3>4 DEF ContextInv, OpenersHold
  <2> QED
    BY <2>1, <2>2
<1>9. SecondIsAdopted'
  <2> SUFFICES ASSUME NEW c \in 1..m, NEW d \in 1..m, c # d,
                      bindings'[c].span = bindings'[d].span, ~ended'[bindings'[c].span]
               PROVE  \E p \in Tasks : AdoptedFrom(p, c, d)'
    BY <1>5 DEF SecondIsAdopted
  <2>1. PICK p \in Tasks : AdoptedFrom(p, c, d)
    BY <1>2, <1>3, <1>4 DEF ContextInv, SecondIsAdopted
  <2>2. ASSUME task[p] = "alive", NEW e \in {c, d} \ {ctx[p]}
        PROVE  AwaitsOwner(p, e)'
    <3>1. AwaitsOwner(p, e)
      BY <2>1, <2>2 DEF AdoptedFrom
    <3>2. e # b
      <4>1. bindings[e].owner \in Tasks /\ task[bindings[e].owner] # "collected"
        BY <3>1 DEF AwaitsOwner
      <4> QED
        BY <1>2, <4>1, UnitFacts DEF Unowned
    <3> QED
      BY <1>2, <1>3, <1>4, <3>1, <3>2 DEF AwaitsOwner
  <2> QED
    BY <1>3, <1>4, <2>1, <2>2 DEF AdoptedFrom, MadeFor
<1>10. ScopesAreOwned'
  <2> SUFFICES ASSUME NEW s \in Spans, NEW i \in DOMAIN stack[s]
               PROVE  LET v == stack[s][i]
                      IN  /\ ~ended[s] /\ v # Worker /\ ctx[v] # NoBinding
                          /\ bindings'[ctx[v]].span = s
                          /\ v \in Tasks => task[v] = "alive" /\ bindings'[ctx[v]].owner = v
    BY <1>3, <1>5 DEF ScopesAreOwned, SpanOf, Binding
  <2>1. /\ ~ended[s] /\ stack[s][i] # Worker /\ ctx[stack[s][i]] # NoBinding
        /\ bindings[ctx[stack[s][i]]].span = s
        /\ stack[s][i] \in Tasks => /\ task[stack[s][i]] = "alive"
                                    /\ bindings[ctx[stack[s][i]]].owner = stack[s][i]
    BY DEF ContextInv, ScopesAreOwned, SpanOf, Binding
  <2>2. stack[s][i] \in Units
    BY <1>1, <1>2 DEF Typed
  <2>3. ctx[stack[s][i]] \in 1..m
    <3>1. ctx[stack[s][i]] \in 0..m
      BY <1>1, <2>2 DEF Typed
    <3> QED
      BY <2>1, <3>1 DEF NoBinding
  <2>4. stack[s][i] \in Tasks => ctx[stack[s][i]] # b
    BY <1>7, <2>1
  <2> QED
    BY <1>4, <2>1, <2>3, <2>4
<1> QED
  BY <1>5, <1>6, <1>8, <1>9, <1>10, AllParts

(* Steps that leave bindings and ownership alone: what they end is without *)
(* scopes, and what they cut is cut from the end.                          *)
LEMMA EndingKeeps ==
  ASSUME ContextInv, NEW n \in Nat, NEW m \in Nat, Typed(n, m), Typed(n, m)',
         UNCHANGED <<task, waitsFor, bindings, ctx, made>>,
         \A s \in 1..n : /\ ended[s] => ended'[s]
                         /\ CutOf(stack'[s], stack[s])
                         /\ ended'[s] => ended[s] \/ stack'[s] = <<>>,
         LatchOwnsTaskSpan'
  PROVE  ContextInv'
<1>1. Spans = 1..n /\ Spans' = 1..n
  BY TypedFacts DEF Typed, Spans
<1>2. OpenersHold' /\ SecondIsAdopted' /\ OneOpener'
  BY <1>1, EndingKeepsHolders DEF ContextInv
<1>3. ScopesNest'
  BY <1>1, CutsNest DEF ContextInv
<1>4. ASSUME NEW s \in Spans, NEW i \in DOMAIN stack'[s] PROVE ~ended'[s]
  <2>1. stack'[s] # <<>> /\ i \in DOMAIN stack[s]
    BY <1>1 DEF CutOf
  <2> QED
    BY <1>1, <2>1 DEF ContextInv, ScopesAreOwned
<1>5. ScopesAreOwned'
  BY <1>1, <1>4, CutsStayOwned DEF ContextInv
<1> QED
  BY <1>2, <1>3, <1>5, AllParts

LEMMA CloseEventKeeps ==
  ASSUME ContextInv, NEW u \in Units, NEW s \in Spans, CloseEvent(u, s)
  PROVE  ContextInv'
<1>1. PICK n \in Nat, m \in Nat : Typed(n, m)
  BY DEF ContextInv, TypeInv
<1>2. Spans = 1..n /\ stack[s] \in Seq(Units)
  BY <1>1, TypedFacts DEF Typed
<1>3. /\ stack' = [stack EXCEPT ![s] = Above(stack[s], u)]
      /\ \E i \in DOMAIN stack[s] : stack[s][i] = u
      /\ UNCHANGED <<task, waitsFor, bindings, ctx, forkedBy, enteredBy, ended, latch, armed, grace>>
  BY DEF CloseEvent, HasOpen, made, life
<1>4. CutOf(Above(stack[s], u), stack[s])
  BY <1>2, <1>3, AboveCuts
<1>5. /\ stack' \in [1..n -> Seq(Units)]
      /\ \A x \in 1..n : CutOf(stack'[x], stack[x])
  <2>1. Above(stack[s], u) \in Seq(Units)
    BY <1>4 DEF CutOf
  <2>2. \A x \in 1..n : stack[x] \in Seq(Units)
    BY <1>1 DEF Typed
  <2> QED
    BY <1>1, <1>2, <1>3, <1>4, <2>1, <2>2, WholeIsCut DEF Typed
<1>6. Typed(n, m)'
  BY <1>1, <1>3, <1>5 DEF Typed
<1>7. LatchOwnsTaskSpan'
  BY <1>3 DEF ContextInv, LatchOwnsTaskSpan, Spans
<1> QED
  BY <1>1, <1>3, <1>5, <1>6, <1>7, EndingKeeps DEF made

LEMMA GracePassesKeeps ==
  ASSUME ContextInv, NEW s \in Spans, GracePasses(s)
  PROVE  ContextInv'
<1>1. PICK n \in Nat, m \in Nat : Typed(n, m)
  BY DEF ContextInv, TypeInv
<1>2. Spans = 1..n /\ \A x \in 1..n : stack[x] \in Seq(Units)
  BY <1>1, TypedFacts DEF Typed
<1>3. /\ grace' = [grace EXCEPT ![s] = "over"]
      /\ UNCHANGED <<task, waitsFor, bindings, ctx, stack, forkedBy, enteredBy, ended, latch, armed>>
  BY DEF GracePasses, made
<1>4. Typed(n, m)'
  BY <1>1, <1>2, <1>3 DEF Typed
<1>5. LatchOwnsTaskSpan'
  BY <1>3 DEF ContextInv, LatchOwnsTaskSpan, Spans
<1> QED
  BY <1>1, <1>2, <1>3, <1>4, <1>5, EndingKeeps, WholeIsCut DEF made

LEMMA TimerFiresKeeps ==
  ASSUME ContextInv, NEW s \in Spans, TimerFires(s)
  PROVE  ContextInv'
<1>1. PICK n \in Nat, m \in Nat : Typed(n, m)
  BY DEF ContextInv, TypeInv
<1>2. /\ Spans = 1..n /\ \A x \in 1..n : stack[x] \in Seq(Units)
      /\ <<>> \in Seq(Units)
  <2>1. <<>> \in Seq(Units)
    OBVIOUS
  <2> QED
    BY <1>1, <2>1, TypedFacts DEF Typed
<1>3. armed[s] /\ UNCHANGED <<task, waitsFor, bindings, ctx, forkedBy, enteredBy>>
  BY DEF TimerFires, made
<1>4. CASE latch[s] /\ ~Defers(s)
  <2>1. /\ latch' = [latch EXCEPT ![s] = FALSE]
        /\ armed' = [armed EXCEPT ![s] = FALSE]
        /\ ended' = [ended EXCEPT ![s] = TRUE]
        /\ stack' = [stack EXCEPT ![s] = <<>>]
        /\ grace' = grace
    BY <1>4 DEF TimerFires, Reap
  <2>2. Typed(n, m)'
    BY <1>1, <1>2, <1>3, <2>1 DEF Typed
  <2>3. Spans' = 1..n
    BY <2>2 DEF Typed, Spans
  <2>4. /\ \A x \in 1..n : x # s => /\ ended'[x] = ended[x] /\ latch'[x] = latch[x]
                                    /\ armed'[x] = armed[x] /\ stack'[x] = stack[x]
        /\ ended'[s] = TRUE /\ latch'[s] = FALSE /\ armed'[s] = FALSE /\ stack'[s] = <<>>
    BY <1>1, <1>2, <2>1 DEF Typed
  <2>5. LatchOwnsTaskSpan'
    BY ZenonT(40), <1>2, <1>3, <2>3, <2>4 DEF ContextInv, LatchOwnsTaskSpan
  <2>6. \A x \in 1..n : /\ ended[x] => ended'[x]
                        /\ CutOf(stack'[x], stack[x])
                        /\ ended'[x] => ended[x] \/ stack'[x] = <<>>
    BY <1>2, <2>4, WholeIsCut
  <2> QED
    BY <1>1, <1>3, <2>2, <2>5, <2>6, EndingKeeps DEF made
<1>5. CASE ~(latch[s] /\ ~Defers(s))
  <2>1. /\ armed' = [armed EXCEPT ![s] = latch[s]]
        /\ grace' = [grace EXCEPT ![s] = IF grace[s] = "unset" /\ latch[s]
                                         THEN "running" ELSE grace[s]]
        /\ UNCHANGED <<ended, latch, stack>>
    BY <1>5 DEF TimerFires
  <2>2. Typed(n, m)'
    BY <1>1, <1>2, <1>3, <2>1 DEF Typed
  <2>3. LatchOwnsTaskSpan'
    <3>1. \A x \in 1..n : armed'[x] = IF x = s THEN latch[s] ELSE armed[x]
      BY <1>1, <1>2, <2>1 DEF Typed
    <3> QED
      BY <1>2, <1>3, <2>1, <3>1 DEF ContextInv, LatchOwnsTaskSpan, Spans
  <2> QED
    BY <1>1, <1>2, <1>3, <2>1, <2>2, <2>3, EndingKeeps, WholeIsCut DEF made
<1> QED
  BY <1>4, <1>5

LEMMA OpenEventKeeps ==
  ASSUME ContextInv, NEW u \in Units, OpenEvent(u)
  PROVE  ContextInv'
<1>1. PICK n \in Nat, m \in Nat : Typed(n, m)
  BY DEF ContextInv, TypeInv
<1>2a. /\ Spans = 1..n /\ DOMAIN bindings = 1..m /\ ctx[u] \in 1..m
       /\ SpanOf(u) \in 1..n /\ Binding(u).thread = LoopThread
  <2>1. ctx[u] \in 0..m /\ ctx[u] # 0
    BY <1>1 DEF Typed, OpenEvent, Usable, Reachable, NoBinding
  <2>2. ctx[u] \in 1..m
    BY <2>1
  <2>3. Binding(u) \in [span : 1..n, thread : {LoopThread}, owner : Tasks \cup {NoTask}]
    BY <1>1, <2>2 DEF Typed, Binding
  <2> QED
    BY <1>1, <2>2, <2>3, TypedFacts DEF SpanOf
<1>2b. PICK s \in 1..n : s = SpanOf(u)
  BY <1>2a
<1>2. /\ Spans = 1..n /\ DOMAIN bindings = 1..m /\ ctx[u] \in 1..m /\ s \in 1..n
      /\ stack[s] \in Seq(Units) /\ Binding(u).thread = LoopThread /\ SpanOf(u) = s
  BY <1>1, <1>2a, <1>2b DEF Typed
<1>3. /\ stack' = [stack EXCEPT ![s] = Append(stack[s], u)]
      /\ UNCHANGED <<task, waitsFor, bindings, ctx, forkedBy, enteredBy, ended, latch, armed, grace>>
  BY <1>2 DEF OpenEvent, made, life
<1>4. /\ MayRun(u) /\ ~ended[s] /\ ctx[u] # NoBinding /\ u # Worker
      /\ u \in Tasks => task[u] = "alive" /\ ~Suspended(u) /\ Binding(u).owner = u
      /\ u \notin Tasks => u = Main /\ \A t \in Tasks : task[t] # "alive"
  <2>1. MayRun(u) /\ ~ended[s] /\ ctx[u] # NoBinding /\ SameThread(u)
        /\ (u \in Tasks => Binding(u).owner = u)
    BY <1>2 DEF OpenEvent, Usable, Reachable
  <2>2. u # Worker
    BY <1>2, <2>1 DEF SameThread, ThreadOf, LoopThread
  <2> QED
    BY <2>1, <2>2, UnitFacts, MayRunFacts DEF LoopRuns
<1>5. /\ \A x \in 1..n : x # s => stack'[x] = stack[x]
      /\ stack'[s] = Append(stack[s], u) /\ Append(stack[s], u) \in Seq(Units)
      /\ stack' \in [1..n -> Seq(Units)]
  BY <1>1, <1>2, <1>3 DEF Typed
<1>6. /\ DOMAIN stack[s] = 1..Len(stack[s]) /\ Len(stack[s]) \in Nat
      /\ DOMAIN stack'[s] = 1..(Len(stack[s]) + 1)
      /\ \A i \in 1..Len(stack[s]) : stack'[s][i] = stack[s][i] /\ stack[s][i] \in Units
      /\ stack'[s][Len(stack[s]) + 1] = u
  BY <1>2, <1>5
<1>7. Typed(n, m)' /\ Spans' = Spans
  BY <1>1, <1>3, <1>5 DEF Typed, Spans
<1>8. OneOpener' /\ LatchOwnsTaskSpan' /\ OpenersHold' /\ SecondIsAdopted'
  <2>1. LatchOwnsTaskSpan'
    BY <1>3 DEF ContextInv, LatchOwnsTaskSpan, Spans
  <2> QED
    BY <1>1, <1>3, <1>7, <2>1, EndingKeepsHolders DEF ContextInv, made
<1>9. ScopesAreOwned'
  <2> SUFFICES ASSUME NEW x \in 1..n, NEW i \in DOMAIN stack'[x]
               PROVE  LET v == stack'[x][i]
                      IN  /\ ~ended[x] /\ v # Worker /\ ctx[v] # NoBinding /\ SpanOf(v) = x
                          /\ v \in Tasks => task[v] = "alive" /\ Binding(v).owner = v
    <3>1. /\ \A v : SpanOf(v)' = SpanOf(v) /\ Binding(v)' = Binding(v)
          /\ UNCHANGED <<ended, ctx, task>> /\ Spans' = 1..n
      BY <1>2, <1>3, <1>7 DEF SpanOf, Binding
    <3> HIDE DEF SpanOf, Binding, Spans
    <3> QED BY <3>1 DEF ScopesAreOwned
  <2>1. CASE i \in DOMAIN stack[x] /\ stack'[x][i] = stack[x][i]
    BY <1>2, <2>1 DEF ContextInv, ScopesAreOwned
  <2>2. CASE x = s /\ i = Len(stack[s]) + 1
    <3>1. stack'[x][i] = u
      BY <1>6, <2>2
    <3> QED
      BY <1>2, <1>4, <2>2, <3>1
  <2>3. CASE x # s
    <3>1. stack'[x] = stack[x]
      BY <1>5, <2>3
    <3> QED
      BY <2>1, <3>1
  <2>4. CASE x = s /\ i # Len(stack[s]) + 1
    <3>1. i \in 1..Len(stack[s])
      BY <1>6, <2>4
    <3> QED
      BY <1>6, <2>1, <2>4, <3>1
  <2> QED
    BY <2>2, <2>3, <2>4
<1>10. ScopesNest'
  <2> SUFFICES ASSUME NEW x \in 1..n, NEW i \in DOMAIN stack'[x], NEW j \in DOMAIN stack'[x],
                      i < j, stack'[x][i] # stack'[x][j]
               PROVE  /\ stack'[x][j] # Main
                      /\ stack'[x][i] # Main => waitsFor[stack'[x][i]] = stack'[x][j]
    BY <1>2, <1>3, <1>7 DEF ScopesNest
  <2>1. CASE x # s
    <3>1. stack'[x] = stack[x]
      BY <1>5, <2>1
    <3>2. /\ i \in DOMAIN stack[x] /\ j \in DOMAIN stack[x]
          /\ i < j /\ stack[x][i] # stack[x][j]
      BY <3>1
    <3>3. /\ stack[x][j] # Main
          /\ stack[x][i] # Main => waitsFor[stack[x][i]] = stack[x][j]
      BY <1>2, <3>2 DEF ContextInv, ScopesNest
    <3> QED
      BY <3>1, <3>3
  <2>2. CASE x = s /\ j # Len(stack[s]) + 1
    <3>1. i \in DOMAIN stack[s] /\ j \in DOMAIN stack[s]
      BY SMTT(30), <1>6, <2>2
    <3> QED
      BY SMTT(30), <1>2, <1>6, <2>2, <3>1 DEF ContextInv, ScopesNest
  <2>3. CASE x = s /\ j = Len(stack[s]) + 1
    <3>0. i \in DOMAIN stack[s] /\ stack'[x][i] = stack[s][i] /\ stack[s][i] \in Units
      BY <1>6, <2>3
    <3>0a. PICK v \in Units : v = stack[s][i]
      BY <3>0
    <3>1. i \in DOMAIN stack[s] /\ stack'[x][i] = v /\ stack'[x][j] = u /\ v # u /\ v \in Units
      BY <1>6, <2>3, <3>0, <3>0a
    <3>2. /\ v # Worker /\ ctx[v] # NoBinding /\ SpanOf(v) = s
          /\ v \in Tasks => task[v] = "alive" /\ Binding(v).owner = v
      BY <1>2, <3>0a, <3>1 DEF ContextInv, ScopesAreOwned
    <3>3. u \in Tasks
      BY <1>4, <3>1, <3>2, UnitFacts
    <3>4. CASE v \in Tasks
      <4>1. waitsFor[v] = u \/ waitsFor[u] = v
        BY <1>1, <1>2, <1>4, <3>1, <3>2, <3>3, <3>4, TwoOwners DEF ContextInv
      <4>2. waitsFor[u] # v
        BY <1>4, <3>2, <3>3, <3>4 DEF Suspended
      <4> QED
        BY <3>1, <3>3, <4>1, <4>2, UnitFacts
    <3> QED
      BY <3>1, <3>2, <3>3, <3>4, UnitFacts
  <2> QED
    BY <2>1, <2>2, <2>3
<1> QED
  BY <1>7, <1>8, <1>9, <1>10, AllParts

(* Steps in which tasks and their contexts move, and no binding does.      *)
(* While p's span goes on, p may only finish, or get lost when it has      *)
(* adopted nobody; whom a live parent awaits is not collected; and who     *)
(* has an event open stays as it is.                                       *)
MayMoveOn(p, s) ==
  \/ task'[p] = task[p]
  \/ task[p] = "alive" /\ task'[p] = "done" /\ forkedBy[s] = p
  \/ task[p] = "alive" /\ task'[p] = "collected" /\ forkedBy[s] = p
       /\ waitsFor[p] = NoTask

LEMMA TaskMovesKeep ==
  ASSUME ContextInv, NEW n \in Nat, NEW m \in Nat, Typed(n, m), Typed(n, m)',
         bindings' = bindings, made' = made, LatchOwnsTaskSpan',
         \A s \in 1..n : /\ ended[s] => ended'[s]
                         /\ CutOf(stack'[s], stack[s])
                         /\ ended'[s] => ended[s] \/ stack'[s] = <<>>,
         \A s \in 1..n, p \in Tasks : ~ended'[s] /\ MadeFor(p, s) =>
            ctx'[p] = ctx[p] /\ waitsFor'[p] = waitsFor[p] /\ MayMoveOn(p, s),
         \A p, o \in Tasks :
            task[p] = "alive" /\ waitsFor[p] = o /\ task[o] \notin {"unborn", "collected"}
              => task'[o] \notin {"unborn", "collected"},
         \A s \in 1..n : \A i \in DOMAIN stack'[s] :
            LET v == stack[s][i]
            IN  /\ ctx'[v] = ctx[v]
                /\ v \in Tasks => task'[v] = task[v]
                /\ v \in Tasks => waitsFor'[v] = waitsFor[v]
  PROVE  ContextInv'
<1>1. Spans = 1..n /\ Spans' = 1..n /\ DOMAIN bindings = 1..m
  BY TypedFacts DEF Typed, Spans
<1>2. forkedBy' = forkedBy /\ enteredBy' = enteredBy
  BY DEF made
<1>3. OneOpener'
  BY <1>1, <1>2 DEF ContextInv, OneOpener
<1>4. OpenersHold'
  <2> SUFFICES ASSUME NEW s \in 1..n, NEW p \in Tasks, ~ended'[s], MadeFor(p, s)
               PROVE  \/ task'[p] = "alive" /\ Holds(p, s)'
                      \/ task'[p] = "done" /\ forkedBy[s] = p /\ Holds(p, s)'
                      \/ task'[p] = "collected" /\ forkedBy[s] = p
    BY <1>1, <1>2 DEF OpenersHold, MadeFor
  <2>1. ~ended[s]
    OBVIOUS
  <2>2. \/ task[p] = "alive" /\ Holds(p, s)
        \/ task[p] = "done" /\ forkedBy[s] = p /\ Holds(p, s)
        \/ task[p] = "collected" /\ forkedBy[s] = p
    BY <1>1, <2>1 DEF ContextInv, OpenersHold
  <2>3. ctx'[p] = ctx[p] /\ MayMoveOn(p, s)
    OBVIOUS
  <2>4. Holds(p, s) => Holds(p, s)'
    BY <2>3 DEF Holds, SpanOf, Binding
  <2> QED
    BY <2>2, <2>3, <2>4 DEF MayMoveOn
<1>5. SecondIsAdopted'
  <2> SUFFICES ASSUME NEW b \in 1..m, NEW c \in 1..m, b # c,
                      bindings[b].span = bindings[c].span, ~ended'[bindings[b].span]
               PROVE  \E p \in Tasks : AdoptedFrom(p, b, c)'
    BY <1>1 DEF SecondIsAdopted
  <2>1. bindings[b].span \in 1..n
    BY DEF Typed
  <2>2. PICK p \in Tasks : AdoptedFrom(p, b, c)
    BY <1>1, <2>1 DEF ContextInv, SecondIsAdopted
  <2>3. /\ ctx'[p] = ctx[p] /\ waitsFor'[p] = waitsFor[p]
        /\ MayMoveOn(p, bindings[b].span)
    BY <2>1, <2>2 DEF AdoptedFrom
  <2>4. task'[p] \in {"alive", "done"} /\ (task'[p] = "alive" => task[p] = "alive")
    BY <2>2, <2>3 DEF AdoptedFrom, MayMoveOn
  <2>5. ASSUME task'[p] = "alive", NEW d \in {b, c} \ {ctx[p]}
        PROVE  AwaitsOwner(p, d)'
    <3>1. AwaitsOwner(p, d)
      BY <2>2, <2>4, <2>5 DEF AdoptedFrom
    <3> QED
      BY <2>3, <2>4, <2>5, <3>1 DEF AwaitsOwner
  <2> QED
    BY <1>2, <2>2, <2>3, <2>4, <2>5 DEF AdoptedFrom, MadeFor
<1>6. ScopesAreOwned'
  <2> SUFFICES ASSUME NEW s \in 1..n, NEW i \in DOMAIN stack'[s]
               PROVE  LET v == stack'[s][i]
                      IN  /\ ~ended'[s] /\ v # Worker /\ ctx'[v] # NoBinding
                          /\ bindings[ctx'[v]].span = s
                          /\ v \in Tasks => task'[v] = "alive" /\ bindings[ctx'[v]].owner = v
    BY <1>1 DEF ScopesAreOwned, SpanOf, Binding
  <2>1. i \in DOMAIN stack[s] /\ stack'[s][i] = stack[s][i] /\ stack'[s] # <<>>
    BY DEF CutOf
  <2>2. /\ ~ended[s] /\ stack[s][i] # Worker /\ ctx[stack[s][i]] # NoBinding
        /\ bindings[ctx[stack[s][i]]].span = s
        /\ stack[s][i] \in Tasks => /\ task[stack[s][i]] = "alive"
                                    /\ bindings[ctx[stack[s][i]]].owner = stack[s][i]
    BY <1>1, <2>1 DEF ContextInv, ScopesAreOwned, SpanOf, Binding
  <2>3. ~ended'[s]
    BY <2>1, <2>2
  <2> QED
    BY <2>1, <2>2, <2>3
<1>7. ScopesNest'
  <2> SUFFICES ASSUME NEW s \in 1..n, NEW i \in DOMAIN stack'[s], NEW j \in DOMAIN stack'[s],
                      i < j, stack'[s][i] # stack'[s][j]
               PROVE  /\ stack'[s][j] # Main
                      /\ stack'[s][i] # Main => waitsFor'[stack'[s][i]] = stack'[s][j]
    BY <1>1 DEF ScopesNest
  <2>1. /\ i \in DOMAIN stack[s] /\ stack'[s][i] = stack[s][i]
        /\ j \in DOMAIN stack[s] /\ stack'[s][j] = stack[s][j]
    BY DEF CutOf
  <2>2. /\ stack[s][j] # Main
        /\ stack[s][i] # Main => waitsFor[stack[s][i]] = stack[s][j]
    BY <1>1, <2>1 DEF ContextInv, ScopesNest
  <2>3. stack[s][i] # Worker /\ stack[s][i] \in Units
    <3>1. stack[s] \in Seq(Units)
      BY DEF Typed
    <3> QED
      BY <1>1, <2>1, <3>1 DEF ContextInv, ScopesAreOwned
  <2>4. stack[s][i] # Main => waitsFor'[stack[s][i]] = waitsFor[stack[s][i]]
    BY <2>3, UnitFacts
  <2> QED
    BY <2>1, <2>2, <2>4
<1> QED
  BY <1>3, <1>4, <1>5, <1>6, <1>7, AllParts

LEMMA CollectKeeps ==
  ASSUME ContextInv, NEW t \in Tasks, Collect(t)
  PROVE  ContextInv'
<1>1. PICK n \in Nat, m \in Nat : Typed(n, m)
  BY DEF ContextInv, TypeInv
<1>2. Spans = 1..n /\ \A s \in 1..n : stack[s] \in Seq(Units)
  BY <1>1, TypedFacts DEF Typed
<1>3. /\ task[t] = "over" /\ \A p \in Tasks : KeptBy(p) # t
      /\ task' = [task EXCEPT ![t] = "collected"]
      /\ UNCHANGED <<waitsFor, bindings, ctx, stack, forkedBy, enteredBy, ended, latch, armed, grace>>
  BY DEF Collect, made, life
<1>4. \A v \in Tasks : task'[v] = IF v = t THEN "collected" ELSE task[v]
  BY <1>1, <1>3 DEF Typed
<1>5. Typed(n, m)'
  BY <1>1, <1>3 DEF Typed
<1>6. LatchOwnsTaskSpan' /\ made' = made
  BY <1>3 DEF ContextInv, LatchOwnsTaskSpan, Spans, made
<1>7. ASSUME NEW s \in 1..n, NEW p \in Tasks, ~ended'[s], MadeFor(p, s)
      PROVE  ctx'[p] = ctx[p] /\ waitsFor'[p] = waitsFor[p] /\ MayMoveOn(p, s)
  <2>1. p # t
    BY <1>2, <1>3, <1>7 DEF ContextInv, OpenersHold
  <2> QED
    BY <1>3, <1>4, <2>1 DEF MayMoveOn
<1>8. ASSUME NEW p \in Tasks, NEW o \in Tasks, task[p] = "alive", waitsFor[p] = o,
             task[o] \notin {"unborn", "collected"}
      PROVE  task'[o] \notin {"unborn", "collected"}
  BY <1>3, <1>4, <1>8 DEF KeptBy
<1>9. ASSUME NEW s \in 1..n, NEW i \in DOMAIN stack'[s]
      PROVE  LET v == stack[s][i]
             IN  /\ ctx'[v] = ctx[v]
                 /\ v \in Tasks => task'[v] = task[v]
                 /\ v \in Tasks => waitsFor'[v] = waitsFor[v]
  <2>1. stack[s][i] # t
    BY <1>2, <1>3 DEF ContextInv, ScopesAreOwned
  <2> QED
    BY <1>3, <1>4, <2>1
<1> QED
  BY <1>1, <1>2, <1>3, <1>5, <1>6, <1>7, <1>8, <1>9, WholeIsCut, TaskMovesKeep

LEMMA CreateTasksKeeps ==
  ASSUME ContextInv, NEW u \in Units, NEW ts \in SUBSET Tasks, CreateTasks(u, ts)
  PROVE  ContextInv'
<1>1. PICK n \in Nat, m \in Nat : Typed(n, m)
  BY DEF ContextInv, TypeInv
<1>2. Spans = 1..n /\ \A s \in 1..n : stack[s] \in Seq(Units)
  BY <1>1, TypedFacts DEF Typed
<1>3. /\ \A t \in ts : task[t] = "unborn"
      /\ task' = [t \in Tasks |-> IF t \in ts THEN "alive" ELSE task[t]]
      /\ ctx' = [v \in Units |-> IF v \in ts THEN ctx[u] ELSE ctx[v]]
      /\ UNCHANGED <<waitsFor, bindings, stack, forkedBy, enteredBy, ended, latch, armed, grace>>
  BY DEF CreateTasks, made, life
<1>4. Typed(n, m)'
  BY <1>1, <1>3 DEF Typed
<1>5. LatchOwnsTaskSpan' /\ made' = made
  BY <1>3 DEF ContextInv, LatchOwnsTaskSpan, Spans, made
<1>6. ASSUME NEW s \in 1..n, NEW p \in Tasks, ~ended'[s], MadeFor(p, s)
      PROVE  ctx'[p] = ctx[p] /\ waitsFor'[p] = waitsFor[p] /\ MayMoveOn(p, s)
  <2>1. p \notin ts
    BY <1>2, <1>3, <1>6 DEF ContextInv, OpenersHold
  <2> QED
    BY <1>3, <2>1, UnitFacts DEF MayMoveOn
<1>7. ASSUME NEW s \in 1..n, NEW i \in DOMAIN stack'[s]
      PROVE  LET v == stack[s][i]
             IN  /\ ctx'[v] = ctx[v]
                 /\ v \in Tasks => task'[v] = task[v]
                 /\ v \in Tasks => waitsFor'[v] = waitsFor[v]
  <2>1. stack[s][i] \notin ts /\ stack[s][i] \in Units
    BY <1>1, <1>2, <1>3 DEF ContextInv, ScopesAreOwned, Typed
  <2> QED
    BY <1>3, <2>1
<1> QED
  BY <1>1, <1>2, <1>3, <1>4, <1>5, <1>6, <1>7, WholeIsCut, TaskMovesKeep

LEMMA RunInThreadKeeps ==
  ASSUME ContextInv, NEW u \in Units, RunInThread(u)
  PROVE  ContextInv'
<1>1. PICK n \in Nat, m \in Nat : Typed(n, m)
  BY DEF ContextInv, TypeInv
<1>2. Spans = 1..n /\ \A s \in 1..n : stack[s] \in Seq(Units)
  BY <1>1, TypedFacts DEF Typed
<1>3. /\ ctx' = [ctx EXCEPT ![Worker] = ctx[u]]
      /\ UNCHANGED <<task, waitsFor, bindings, stack, forkedBy, enteredBy, ended, latch, armed, grace>>
  BY DEF RunInThread, made, life
<1>4. Typed(n, m)' /\ \A v \in Units : v # Worker => ctx'[v] = ctx[v]
  BY <1>1, <1>3 DEF Typed
<1>5. LatchOwnsTaskSpan' /\ made' = made
  BY <1>3 DEF ContextInv, LatchOwnsTaskSpan, Spans, made
<1>6. ASSUME NEW s \in 1..n, NEW i \in DOMAIN stack'[s]
      PROVE  LET v == stack[s][i]
             IN  /\ ctx'[v] = ctx[v]
                 /\ v \in Tasks => task'[v] = task[v]
                 /\ v \in Tasks => waitsFor'[v] = waitsFor[v]
  <2>1. stack[s][i] # Worker /\ stack[s][i] \in Units
    BY <1>1, <1>2, <1>3 DEF ContextInv, ScopesAreOwned, Typed
  <2> QED
    BY <1>3, <1>4, <2>1
<1> QED
  BY <1>1, <1>2, <1>3, <1>4, <1>5, <1>6, UnitFacts, WholeIsCut, TaskMovesKeep DEF MayMoveOn

(* A task that leaves its blocks: the spans it entered end, and it has no  *)
(* event left on the others.                                               *)
LEMMA LeavingEffect ==
  ASSUME ContextInv, NEW n \in Nat, NEW m \in Nat, Typed(n, m), Spans = 1..n,
         NEW t \in Tasks, LeaveBlocks(t)
  PROVE  /\ ended' \in [1..n -> BOOLEAN] /\ stack' \in [1..n -> Seq(Units)]
         /\ latch' = latch /\ armed' = armed /\ grace' = grace
         /\ \A s \in 1..n :
              /\ ended'[s] <=> ended[s] \/ enteredBy[s] = t
              /\ CutOf(stack'[s], stack[s])
              /\ ended'[s] => ended[s] \/ stack'[s] = <<>>
              /\ \A i \in DOMAIN stack'[s] : stack'[s][i] # t
<1>1. /\ ended' = [s \in 1..n |-> ended[s] \/ enteredBy[s] = t]
      /\ stack' = [s \in 1..n |-> CASE enteredBy[s] = t -> <<>>
                                    [] enteredBy[s] # t /\ HasOpen(t, s) -> Below(stack[s], t)
                                    [] OTHER -> stack[s]]
      /\ latch' = latch /\ armed' = armed /\ grace' = grace
  BY DEF LeaveBlocks, Below
<1>2. ended' \in [1..n -> BOOLEAN] /\ \A s \in 1..n : ended'[s] <=> ended[s] \/ enteredBy[s] = t
  BY <1>1 DEF Typed
<1>3. ASSUME NEW s \in 1..n
      PROVE  /\ CutOf(stack'[s], stack[s])
             /\ ended'[s] => ended[s] \/ stack'[s] = <<>>
             /\ \A i \in DOMAIN stack'[s] : stack'[s][i] # t
  <2>0. stack[s] \in Seq(Units)
    BY DEF Typed
  <2>1. CASE enteredBy[s] = t
    <3>1. stack'[s] = <<>>
      BY <1>1, <2>1
    <3>2. DOMAIN <<>> = {}
      OBVIOUS
    <3>3. CutOf(<<>>, stack[s])
      BY <2>0, WholeIsCut
    <3> QED
      BY <3>1, <3>2, <3>3
  <2>2. CASE enteredBy[s] # t /\ HasOpen(t, s)
    <3>1. stack'[s] = Below(stack[s], t)
      BY <1>1, <2>2
    <3>2. \E i \in DOMAIN stack[s] : stack[s][i] = t
      BY <2>2 DEF HasOpen
    <3> QED
      BY <1>2, <2>0, <2>2, <3>1, <3>2, BelowCuts
  <2>3. CASE enteredBy[s] # t /\ ~HasOpen(t, s)
    <3>1. stack'[s] = stack[s]
      BY <1>1, <2>3
    <3> QED
      BY <1>2, <2>0, <2>3, <3>1, WholeIsCut DEF HasOpen
  <2> QED
    BY <2>1, <2>2, <2>3
<1>4. stack' \in [1..n -> Seq(Units)]
  <2>1. DOMAIN stack' = 1..n /\ stack' = [s \in 1..n |-> stack'[s]]
    BY <1>1
  <2>2. \A s \in 1..n : stack'[s] \in Seq(Units)
    BY <1>3 DEF CutOf
  <2> QED
    BY <2>1, <2>2
<1> QED
  BY <1>1, <1>2, <1>3, <1>4

(* A task that ends or gets lost while it is not awaited for a span it may *)
(* still hold.                                                             *)
LEMMA LeavingKeeps ==
  ASSUME ContextInv, NEW t \in Tasks, NEW end \in {"done", "collected"},
         task[t] = "alive", task' = [task EXCEPT ![t] = end], LeaveBlocks(t),
         UNCHANGED <<waitsFor, bindings, ctx, made>>,
         end = "collected" => waitsFor[t] = NoTask /\ \A p \in Tasks : waitsFor[p] # t
  PROVE  ContextInv'
<1>1. PICK n \in Nat, m \in Nat : Typed(n, m)
  BY DEF ContextInv, TypeInv
<1>2. Spans = 1..n
  BY <1>1, TypedFacts
<1>3. /\ ended' \in [1..n -> BOOLEAN] /\ stack' \in [1..n -> Seq(Units)]
      /\ latch' = latch /\ armed' = armed /\ grace' = grace
      /\ \A s \in 1..n :
           /\ ended'[s] <=> ended[s] \/ enteredBy[s] = t
           /\ CutOf(stack'[s], stack[s])
           /\ ended'[s] => ended[s] \/ stack'[s] = <<>>
           /\ \A i \in DOMAIN stack'[s] : stack'[s][i] # t
  BY <1>1, <1>2, LeavingEffect
<1>4. \A v \in Tasks : task'[v] = IF v = t THEN end ELSE task[v]
  BY <1>1 DEF Typed
<1>5. Typed(n, m)'
  BY <1>1, <1>3 DEF Typed, made
<1>6. LatchOwnsTaskSpan'
  <2>1. Spans' = 1..n
    BY <1>5 DEF Typed, Spans
  <2>2. ASSUME NEW s \in 1..n, forkedBy[s] # NoTask
        PROVE  ended'[s] = ended[s]
    <3>1. enteredBy[s] # t
      BY <1>2, <2>2, UnitFacts DEF ContextInv, OneOpener
    <3>2. ended[s] \in BOOLEAN /\ ended'[s] \in BOOLEAN
      BY <1>1, <1>3 DEF Typed
    <3>3. ended'[s] <=> ended[s]
      BY <1>3, <3>1
    <3> QED
      BY <3>2, <3>3
  <2> QED
    BY <1>2, <1>3, <2>1, <2>2 DEF ContextInv, LatchOwnsTaskSpan, made
<1>7. ASSUME NEW s \in 1..n, NEW p \in Tasks, ~ended'[s], MadeFor(p, s)
      PROVE  ctx'[p] = ctx[p] /\ waitsFor'[p] = waitsFor[p] /\ MayMoveOn(p, s)
  <2>1. p = t => forkedBy[s] = t
    BY <1>3, <1>7 DEF MadeFor
  <2> QED
    BY <1>4, <2>1 DEF MayMoveOn
<1>8. ASSUME NEW p \in Tasks, NEW o \in Tasks, task[p] = "alive", waitsFor[p] = o,
             task[o] \notin {"unborn", "collected"}
      PROVE  task'[o] \notin {"unborn", "collected"}
  BY <1>4, <1>8
<1>9. ASSUME NEW s \in 1..n, NEW i \in DOMAIN stack'[s]
      PROVE  LET v == stack[s][i]
             IN  /\ ctx'[v] = ctx[v]
                 /\ v \in Tasks => task'[v] = task[v]
                 /\ v \in Tasks => waitsFor'[v] = waitsFor[v]
  <2>1. stack[s][i] # t
    BY SMTT(30), <1>3 DEF CutOf
  <2> QED
    BY <1>4, <2>1
<1> QED
  BY <1>1, <1>3, <1>5, <1>6, <1>7, <1>8, <1>9, TaskMovesKeep

LEMMA FinishTaskKeeps ==
  ASSUME ContextInv, NEW t \in Tasks, FinishTask(t)
  PROVE  ContextInv'
  BY LeavingKeeps DEF FinishTask

LEMMA LoseTaskKeeps ==
  ASSUME ContextInv, NEW t \in Tasks, LoseTask(t)
  PROVE  ContextInv'
  BY LeavingKeeps DEF LoseTask

LEMMA DoneCallbackKeeps ==
  ASSUME ContextInv, NEW t \in Tasks, DoneCallback(t)
  PROVE  ContextInv'
<1>1. PICK n \in Nat, m \in Nat : Typed(n, m)
  BY DEF ContextInv, TypeInv
<1>2. Spans = 1..n /\ \A s \in 1..n : stack[s] \in Seq(Units)
  BY <1>1, TypedFacts DEF Typed
<1> DEFINE Mine(s) == forkedBy[s] = t /\ latch[s]
<1>3. /\ task[t] = "done" /\ task' = [task EXCEPT ![t] = "over"]
      /\ UNCHANGED <<waitsFor, bindings, ctx, grace, forkedBy, enteredBy>>
  BY DEF DoneCallback, made
<1>4. /\ latch' = [s \in 1..n |-> latch[s] /\ ~Mine(s)]
      /\ armed' = [s \in 1..n |-> armed[s] /\ ~Mine(s)]
      /\ ended' = [s \in 1..n |-> ended[s] \/ Mine(s)]
      /\ stack' = [s \in 1..n |-> IF Mine(s) THEN <<>> ELSE stack[s]]
  BY <1>2 DEF DoneCallback, TimersCancelled
<1>5. \A s \in 1..n : /\ latch'[s] <=> latch[s] /\ ~Mine(s)
                      /\ armed'[s] <=> armed[s] /\ ~Mine(s)
                      /\ ended'[s] <=> ended[s] \/ Mine(s)
                      /\ stack'[s] = IF Mine(s) THEN <<>> ELSE stack[s]
  BY <1>4
<1>6. /\ latch' \in [1..n -> BOOLEAN] /\ armed' \in [1..n -> BOOLEAN]
      /\ ended' \in [1..n -> BOOLEAN] /\ stack' \in [1..n -> Seq(Units)]
  <2>1. <<>> \in Seq(Units)
    OBVIOUS
  <2>2. \A s \in 1..n : latch[s] \in BOOLEAN /\ armed[s] \in BOOLEAN /\ ended[s] \in BOOLEAN
    BY <1>1 DEF Typed
  <2>3. latch' \in [1..n -> BOOLEAN] /\ armed' \in [1..n -> BOOLEAN]
        /\ ended' \in [1..n -> BOOLEAN]
    BY <1>4, <2>2
  <2>4. stack' \in [1..n -> Seq(Units)]
    BY <1>2, <1>4, <2>1
  <2> QED
    BY <2>3, <2>4
<1>7. Typed(n, m)'
  BY <1>1, <1>3, <1>6 DEF Typed
<1>8. LatchOwnsTaskSpan'
  <2>1. Spans' = 1..n
    BY <1>7 DEF Typed, Spans
  <2> SUFFICES ASSUME NEW s \in 1..n, forkedBy[s] # NoTask
               PROVE  latch'[s] = ~ended'[s] /\ latch'[s] = armed'[s]
    BY <1>3, <2>1 DEF LatchOwnsTaskSpan
  <2>2. latch[s] = ~ended[s] /\ latch[s] = armed[s]
    BY <1>2 DEF ContextInv, LatchOwnsTaskSpan
  <2>3. /\ latch[s] \in BOOLEAN /\ armed[s] \in BOOLEAN /\ ended[s] \in BOOLEAN
        /\ latch'[s] \in BOOLEAN /\ armed'[s] \in BOOLEAN /\ ended'[s] \in BOOLEAN
    BY <1>1, <1>6 DEF Typed
  <2> QED
    BY <1>5, <2>2, <2>3
<1>9. \A v \in Tasks : task'[v] = IF v = t THEN "over" ELSE task[v]
  BY <1>1, <1>3 DEF Typed
<1>10. ASSUME NEW s \in 1..n, NEW p \in Tasks, ~ended'[s], MadeFor(p, s)
       PROVE  ctx'[p] = ctx[p] /\ waitsFor'[p] = waitsFor[p] /\ MayMoveOn(p, s)
  <2>1. ~ended[s]
    BY <1>5, <1>10
  <2>2. p = t => forkedBy[s] = t
    BY <1>2, <1>3, <1>10, <2>1 DEF ContextInv, OpenersHold
  <2>3. p # t
    <3>1. ASSUME p = t PROVE FALSE
      <4>1. forkedBy[s] = t /\ forkedBy[s] # NoTask
        BY <2>2, <3>1, UnitFacts
      <4>2. latch[s]
        BY <1>2, <2>1, <4>1 DEF ContextInv, LatchOwnsTaskSpan
      <4> QED
        BY <1>5, <1>10, <4>1, <4>2
    <3> QED
      BY <3>1
  <2> QED
    BY <1>3, <1>9, <2>3 DEF MayMoveOn
<1>11. ASSUME NEW s \in 1..n
       PROVE  /\ ended[s] => ended'[s]
              /\ CutOf(stack'[s], stack[s])
              /\ ended'[s] => ended[s] \/ stack'[s] = <<>>
  <2> HIDE DEF Mine
  <2> QED
    BY <1>2, <1>5, WholeIsCut
<1>12. ASSUME NEW s \in 1..n, NEW i \in DOMAIN stack'[s]
       PROVE  LET v == stack[s][i]
              IN  /\ ctx'[v] = ctx[v]
                  /\ v \in Tasks => task'[v] = task[v]
                  /\ v \in Tasks => waitsFor'[v] = waitsFor[v]
  <2>1. i \in DOMAIN stack[s]
    BY <1>11 DEF CutOf
  <2>2. stack[s][i] # t
    BY <1>2, <1>3, <2>1 DEF ContextInv, ScopesAreOwned
  <2> QED
    BY <1>3, <1>9, <2>2
<1>13. made' = made /\ bindings' = bindings
  BY <1>3 DEF made
<1>14. \A p, o \in Tasks :
          task[p] = "alive" /\ waitsFor[p] = o /\ task[o] \notin {"unborn", "collected"}
            => task'[o] \notin {"unborn", "collected"}
  BY <1>9
<1> HIDE DEF Mine
<1> QED
  BY <1>1, <1>7, <1>8, <1>10, <1>11, <1>12, <1>13, <1>14, TaskMovesKeep

LEMMA ExitRootKeeps ==
  ASSUME ContextInv, NEW u \in Units, ExitRoot(u)
  PROVE  ContextInv'
<1>1. PICK n \in Nat, m \in Nat : Typed(n, m)
  BY DEF ContextInv, TypeInv
<1>2. /\ Spans = 1..n /\ \A x \in 1..n : stack[x] \in Seq(Units)
      /\ SpanOf(u) \in 1..n
  <2>1. ctx[u] \in 0..m /\ ctx[u] # 0
    BY <1>1 DEF Typed, ExitRoot, NoBinding
  <2>2. ctx[u] \in 1..m
    BY <2>1
  <2> QED
    BY <1>1, <2>2, TypedFacts DEF Typed, SpanOf, Binding
<1>3. PICK s \in 1..n : s = SpanOf(u)
  BY <1>2
<1>4. /\ MayRun(u) /\ enteredBy[s] = u /\ u # Worker /\ u # NoTask
      /\ \A x \in 1..n : ~HasOpen(u, x)
      /\ ctx' = [ctx EXCEPT ![u] = NoBinding]
      /\ ended' = [ended EXCEPT ![s] = TRUE]
      /\ stack' = [stack EXCEPT ![s] = <<>>]
      /\ waitsFor' = [t \in Tasks |-> IF t = u THEN NoTask ELSE waitsFor[t]]
      /\ UNCHANGED <<task, bindings, latch, armed, grace, forkedBy, enteredBy>>
  BY <1>1, <1>2, <1>3, UnitFacts DEF ExitRoot, made, Typed
<1>5. <<>> \in Seq(Units)
  OBVIOUS
<1>6. Typed(n, m)'
  BY <1>1, <1>4, <1>5 DEF Typed, NoBinding
<1>7. \A x \in 1..n : /\ ended'[x] = (IF x = s THEN TRUE ELSE ended[x])
                      /\ stack'[x] = (IF x = s THEN <<>> ELSE stack[x])
  BY <1>1, <1>4 DEF Typed
<1>8. \A v \in Units : v # u => ctx'[v] = ctx[v]
  BY <1>1, <1>4 DEF Typed
<1>9. LatchOwnsTaskSpan'
  <2>1. Spans' = 1..n
    BY <1>6 DEF Typed, Spans
  <2>2. forkedBy[s] = NoTask
    BY <1>2, <1>4 DEF ContextInv, OneOpener
  <2> QED
    BY <1>2, <1>4, <1>7, <2>1, <2>2 DEF ContextInv, LatchOwnsTaskSpan
<1>10. ASSUME NEW x \in 1..n, NEW p \in Tasks, ~ended'[x], MadeFor(p, x)
       PROVE  ctx'[p] = ctx[p] /\ waitsFor'[p] = waitsFor[p] /\ MayMoveOn(p, x)
  <2>1. ~ended[x] /\ x # s
    BY <1>7, <1>10
  <2>2. p # u
    <3>1. ASSUME p = u PROVE FALSE
      <4>1. task[u] = "alive"
        BY <1>4, <3>1, MayRunFacts
      <4>2. SpanOf(u) = x
        BY <1>2, <1>10, <2>1, <3>1, <4>1 DEF ContextInv, OpenersHold, Holds
      <4> QED
        BY <1>3, <2>1, <4>2
    <3> QED
      BY <3>1
  <2> QED
    BY <1>4, <1>8, <2>2, UnitFacts DEF MayMoveOn
<1>11. ASSUME NEW x \in 1..n
       PROVE  /\ ended[x] => ended'[x]
              /\ CutOf(stack'[x], stack[x])
              /\ ended'[x] => ended[x] \/ stack'[x] = <<>>
  BY <1>2, <1>7, WholeIsCut
<1>12. ASSUME NEW x \in 1..n, NEW i \in DOMAIN stack'[x]
       PROVE  LET v == stack[x][i]
              IN  /\ ctx'[v] = ctx[v]
                  /\ v \in Tasks => task'[v] = task[v]
                  /\ v \in Tasks => waitsFor'[v] = waitsFor[v]
  <2>1. i \in DOMAIN stack[x]
    BY <1>11 DEF CutOf
  <2>2. stack[x][i] # u /\ stack[x][i] \in Units
    BY <1>2, <1>4, <2>1 DEF HasOpen
  <2> QED
    BY <1>4, <1>8, <2>2
<1>13. made' = made /\ bindings' = bindings
  BY <1>4 DEF made
<1>14. \A p, o \in Tasks :
          task[p] = "alive" /\ waitsFor[p] = o /\ task[o] \notin {"unborn", "collected"}
            => task'[o] \notin {"unborn", "collected"}
  BY <1>4
<1> QED
  BY <1>1, <1>6, <1>9, <1>10, <1>11, <1>12, <1>13, <1>14, TaskMovesKeep

(* A span and its first binding come into being, for a unit that held no   *)
(* span or one of another owner.                                           *)
LEMMA NewSpanKeeps ==
  ASSUME ContextInv, NEW u \in Units, NEW for \in {NoTask, u}, NEW l \in BOOLEAN,
         NEW a \in BOOLEAN, u # Worker, MayRun(u), NewSpan(u, for),
         for # NoTask => u \in Tasks /\ l = TRUE /\ a = TRUE,
         ctx[u] = NoBinding \/ (u \in Tasks /\ Binding(u).owner # u),
         latch' = Append(latch, l), armed' = Append(armed, a),
         UNCHANGED <<task, waitsFor>>
  PROVE  ContextInv'
<1>1. PICK n \in Nat, m \in Nat : Typed(n, m)
  BY DEF ContextInv, TypeInv
<1> DEFINE new == [span |-> n + 1, thread |-> LoopThread, owner |-> TaskOf(u)]
<1>2. /\ Spans = 1..n /\ Len(ended) = n /\ DOMAIN bindings = 1..m /\ Len(bindings) = m
      /\ \A b \in 1..m : bindings[b].span \in 1..n
  BY <1>1, TypedFacts DEF Typed
<1>3. /\ ended' = Append(ended, FALSE) /\ stack' = Append(stack, <<>>)
      /\ grace' = Append(grace, "unset") /\ forkedBy' = Append(forkedBy, for)
      /\ enteredBy' = Append(enteredBy, IF for = NoTask THEN u ELSE NoTask)
      /\ bindings' = Append(bindings, new)
      /\ ctx' = [ctx EXCEPT ![u] = m + 1]
  BY <1>2 DEF NewSpan, ThreadOf
<1>4. /\ TaskOf(u) \in Tasks \cup {NoTask} /\ for \in Tasks \cup {NoTask}
      /\ (IF for = NoTask THEN u ELSE NoTask) \in (Units \ {Worker}) \cup {NoTask}
      /\ u \in Tasks => TaskOf(u) = u
  BY DEF TaskOf
<1>4a. PICK by \in (Units \ {Worker}) \cup {NoTask} : by = IF for = NoTask THEN u ELSE NoTask
  BY <1>4
<1>4b. enteredBy' = Append(enteredBy, by)
  BY <1>3, <1>4a
<1>5. new \in [span : 1..(n + 1), thread : {LoopThread}, owner : Tasks \cup {NoTask}]
  BY <1>4
<1>6. bindings \in [1..m -> [span : 1..(n + 1), thread : {LoopThread},
                             owner : Tasks \cup {NoTask}]]
  <2>1. \A b \in 1..m : bindings[b] \in [span : 1..(n + 1), thread : {LoopThread},
                                         owner : Tasks \cup {NoTask}]
    <3>1. ASSUME NEW b \in 1..m
          PROVE  bindings[b] \in [span : 1..(n + 1), thread : {LoopThread},
                                  owner : Tasks \cup {NoTask}]
      <4>1. bindings[b] \in [span : 1..n, thread : {LoopThread}, owner : Tasks \cup {NoTask}]
        BY <1>1 DEF Typed
      <4>2. 1..n \subseteq 1..(n + 1)
        OBVIOUS
      <4> QED
        BY <4>1, <4>2
    <3> QED
      BY <3>1
  <2> QED
    BY <1>1, <2>1 DEF Typed
<1> HIDE DEF new
<1>7. /\ bindings' \in [1..(m + 1) -> [span : 1..(n + 1), thread : {LoopThread},
                                       owner : Tasks \cup {NoTask}]]
      /\ \A b \in 1..m : bindings'[b] = bindings[b]
      /\ bindings'[m + 1] = new
  <2>1. bindings' \in [1..(m + 1) -> [span : 1..(n + 1), thread : {LoopThread},
                                      owner : Tasks \cup {NoTask}]]
    BY <1>3, <1>5, <1>6, AppendType
  <2>2. \A b \in 1..m : bindings'[b] = bindings[b]
    BY <1>3, <1>5, <1>6, AppendKeeps
  <2>3. bindings'[m + 1] = new
    BY <1>3, <1>5, <1>6, AppendLast
  <2> QED
    BY <2>1, <2>2, <2>3
<1>8. /\ ended' \in [1..(n + 1) -> BOOLEAN]
      /\ \A s \in 1..n : ended'[s] = ended[s]
      /\ ended'[n + 1] = FALSE
  <2>1. ended' \in [1..(n + 1) -> BOOLEAN]
    BY <1>1, <1>3, AppendType DEF Typed
  <2>2. \A s \in 1..n : ended'[s] = ended[s]
    <3>1. PICK no \in BOOLEAN : no = FALSE
      OBVIOUS
    <3>2. ended' = Append(ended, no) /\ ended \in [1..n -> BOOLEAN]
      BY <1>1, <1>3, <3>1 DEF Typed
    <3> HIDE <3>1
    <3> QED
      BY <3>2, AppendKeeps
  <2>3. ended'[n + 1] = FALSE
    BY <1>1, <1>3, AppendLast DEF Typed
  <2> QED
    BY <2>1, <2>2, <2>3
<1>9. /\ stack' \in [1..(n + 1) -> Seq(Units)]
      /\ \A s \in 1..n : stack'[s] = stack[s]
      /\ stack'[n + 1] = <<>>
  <2>0. <<>> \in Seq(Units)
    OBVIOUS
  <2>1. stack' \in [1..(n + 1) -> Seq(Units)]
    BY <1>1, <1>3, <2>0, AppendType DEF Typed
  <2>2. \A s \in 1..n : stack'[s] = stack[s]
    BY <1>1, <1>3, <2>0, AppendKeeps DEF Typed
  <2>3. stack'[n + 1] = <<>>
    BY <1>1, <1>3, <2>0, AppendLast DEF Typed
  <2> QED
    BY <2>1, <2>2, <2>3
<1>10. /\ latch' \in [1..(n + 1) -> BOOLEAN] /\ armed' \in [1..(n + 1) -> BOOLEAN]
       /\ \A s \in 1..n : latch'[s] = latch[s] /\ armed'[s] = armed[s]
       /\ latch'[n + 1] = l /\ armed'[n + 1] = a
  <2>1. latch' \in [1..(n + 1) -> BOOLEAN]
    BY <1>1, AppendType DEF Typed
  <2>2. armed' \in [1..(n + 1) -> BOOLEAN]
    BY <1>1, AppendType DEF Typed
  <2>3. \A s \in 1..n : latch'[s] = latch[s]
    BY <1>1, AppendKeeps DEF Typed
  <2>4. \A s \in 1..n : armed'[s] = armed[s]
    BY <1>1, AppendKeeps DEF Typed
  <2>5. latch'[n + 1] = l
    BY <1>1, AppendLast DEF Typed
  <2>6. armed'[n + 1] = a
    BY <1>1, AppendLast DEF Typed
  <2> QED
    BY <2>1, <2>2, <2>3, <2>4, <2>5, <2>6
<1>11. grace' \in [1..(n + 1) -> {"unset", "running", "over"}]
  BY <1>1, <1>3, AppendType DEF Typed
<1>12. /\ forkedBy' \in [1..(n + 1) -> Tasks \cup {NoTask}]
       /\ \A s \in 1..n : forkedBy'[s] = forkedBy[s]
       /\ forkedBy'[n + 1] = for
  <2>1. forkedBy' \in [1..(n + 1) -> Tasks \cup {NoTask}]
    BY <1>1, <1>3, <1>4, AppendType DEF Typed
  <2>2. \A s \in 1..n : forkedBy'[s] = forkedBy[s]
    BY <1>1, <1>3, <1>4, AppendKeeps DEF Typed
  <2>3. forkedBy'[n + 1] = for
    BY <1>1, <1>3, <1>4, AppendLast DEF Typed
  <2> QED
    BY <2>1, <2>2, <2>3
<1>13. /\ enteredBy' \in [1..(n + 1) -> (Units \ {Worker}) \cup {NoTask}]
       /\ \A s \in 1..n : enteredBy'[s] = enteredBy[s]
       /\ enteredBy'[n + 1] = IF for = NoTask THEN u ELSE NoTask
  <2>1. enteredBy' \in [1..(n + 1) -> (Units \ {Worker}) \cup {NoTask}]
    BY <1>1, <1>4b, AppendType DEF Typed
  <2>2. \A s \in 1..n : enteredBy'[s] = enteredBy[s]
    BY <1>1, <1>4b, AppendKeeps DEF Typed
  <2>3. enteredBy'[n + 1] = IF for = NoTask THEN u ELSE NoTask
    BY <1>1, <1>4a, <1>4b, AppendLast DEF Typed
  <2> QED
    BY <2>1, <2>2, <2>3
<1>14. /\ ctx' \in [Units -> 0..(m + 1)] /\ ctx'[u] = m + 1
       /\ \A v \in Units : v # u => ctx'[v] = ctx[v]
  BY <1>1, <1>3 DEF Typed
<1>15. Typed(n + 1, m + 1)'
  BY <1>1, <1>7, <1>8, <1>9, <1>10, <1>11, <1>12, <1>13, <1>14 DEF Typed
<1>16. Spans' = 1..(n + 1) /\ DOMAIN bindings' = 1..(m + 1) /\ \A s \in 1..(n + 1) : s \in 1..n \/ s = n + 1
  BY <1>7, <1>8 DEF Spans
<1>17. \A s \in 1..n, p \in Tasks : MadeFor(p, s)' <=> MadeFor(p, s)
  BY <1>12, <1>13 DEF MadeFor
<1>18. OneOpener'
  <2>1. ASSUME NEW s \in 1..(n + 1)
        PROVE  (forkedBy'[s] = NoTask) # (enteredBy'[s] = NoTask)
    <3>1. CASE s \in 1..n
      BY <1>2, <1>12, <1>13, <3>1 DEF ContextInv, OneOpener
    <3>2. CASE s = n + 1
      BY <1>12, <1>13, <3>2, UnitFacts
    <3> QED
      BY <1>16, <3>1, <3>2
  <2> QED
    BY <1>16, <2>1 DEF OneOpener
<1>19. LatchOwnsTaskSpan'
  <2>1. ASSUME NEW s \in 1..(n + 1), forkedBy'[s] # NoTask
        PROVE  latch'[s] = ~ended'[s] /\ latch'[s] = armed'[s]
    <3>1. CASE s \in 1..n
      BY <1>2, <1>8, <1>10, <1>12, <2>1, <3>1 DEF ContextInv, LatchOwnsTaskSpan
    <3>2. CASE s = n + 1
      BY <1>8, <1>10, <1>12, <2>1, <3>2
    <3> QED
      BY <1>16, <3>1, <3>2
  <2> QED
    BY <1>16, <2>1 DEF LatchOwnsTaskSpan
<1>20. ASSUME NEW p \in Tasks, NEW s \in 1..n, Holds(p, s)
       PROVE  p # u /\ ctx'[p] = ctx[p] /\ ctx[p] \in 1..m /\ Holds(p, s)'
  <2>1. p # u
    BY <1>20 DEF Holds
  <2>2. ctx'[p] = ctx[p] /\ ctx[p] \in 0..m
    BY <1>1, <1>14, <2>1, UnitFacts DEF Typed
  <2>3. ctx[p] \in 1..m
    BY <1>20, <2>2 DEF Holds, NoBinding
  <2> QED
    BY <1>7, <1>20, <2>1, <2>2, <2>3 DEF Holds, SpanOf, Binding
<1>21. OpenersHold'
  <2> SUFFICES ASSUME NEW s \in 1..(n + 1), NEW p \in Tasks, ~ended'[s], MadeFor(p, s)'
               PROVE  \/ task[p] = "alive" /\ Holds(p, s)'
                      \/ task[p] = "done" /\ forkedBy'[s] = p /\ Holds(p, s)'
                      \/ task[p] = "collected" /\ forkedBy'[s] = p
    BY <1>16 DEF OpenersHold
  <2>1. CASE s \in 1..n
    <3>1. ~ended[s] /\ MadeFor(p, s) /\ forkedBy'[s] = forkedBy[s]
      BY <1>8, <1>12, <1>17, <2>1
    <3>2. \/ task[p] = "alive" /\ Holds(p, s)
          \/ task[p] = "done" /\ forkedBy[s] = p /\ Holds(p, s)
          \/ task[p] = "collected" /\ forkedBy[s] = p
      BY <1>2, <2>1, <3>1 DEF ContextInv, OpenersHold
    <3> QED
      BY <1>20, <2>1, <3>1, <3>2
  <2>2. CASE s = n + 1
    <3>1. p = u
      BY <1>12, <1>13, <2>2, UnitFacts DEF MadeFor
    <3>2. task[u] = "alive"
      BY <3>1, MayRunFacts
    <3>3. bindings'[m + 1].span = n + 1 /\ bindings'[m + 1].owner = u
      BY <1>4, <1>7, <3>1 DEF new
    <3>4. m + 1 # 0
      OBVIOUS
    <3> QED
      BY <1>14, <2>2, <3>1, <3>2, <3>3, <3>4 DEF Holds, SpanOf, Binding, NoBinding
  <2> QED
    BY <1>16, <2>1, <2>2
<1>22. SecondIsAdopted'
  <2> SUFFICES ASSUME NEW b \in 1..(m + 1), NEW c \in 1..(m + 1), b # c,
                      bindings'[b].span = bindings'[c].span, ~ended'[bindings'[b].span]
               PROVE  \E p \in Tasks : AdoptedFrom(p, b, c)'
    BY <1>16 DEF SecondIsAdopted
  <2>1. bindings'[m + 1].span = n + 1
    BY <1>7 DEF new
  <2>2. b \in 1..m /\ c \in 1..m
    <3>1. \A d \in 1..m : bindings'[d].span # n + 1
      <4>1. ASSUME NEW d \in 1..m PROVE bindings'[d].span # n + 1
        <5>1. bindings'[d].span \in 1..n
          BY <1>2, <1>7
        <5> QED
          BY <5>1
      <4> QED
        BY <4>1
    <3>2. (b \in 1..m \/ b = m + 1) /\ (c \in 1..m \/ c = m + 1)
      OBVIOUS
    <3> QED
      BY <2>1, <3>1, <3>2
  <2>3. bindings'[b] = bindings[b] /\ bindings'[c] = bindings[c] /\ bindings[b].span \in 1..n
    BY <1>2, <1>7, <2>2
  <2>4. PICK p \in Tasks : AdoptedFrom(p, b, c)
    BY <1>2, <1>8, <2>2, <2>3 DEF ContextInv, SecondIsAdopted
  <2>5. Holds(p, bindings[b].span)
    BY <1>2, <1>8, <2>3, <2>4 DEF ContextInv, OpenersHold, AdoptedFrom
  <2>6. ctx'[p] = ctx[p] /\ MadeFor(p, bindings[b].span)'
    BY <1>17, <1>20, <2>3, <2>4, <2>5 DEF AdoptedFrom
  <2>7. ASSUME task[p] = "alive", NEW d \in {b, c} \ {ctx[p]}
        PROVE  AwaitsOwner(p, d)'
    BY <2>3, <2>4, <2>7 DEF AdoptedFrom, AwaitsOwner
  <2> QED
    BY <2>3, <2>4, <2>6, <2>7 DEF AdoptedFrom, MadeFor
<1>23. ASSUME NEW s \in 1..(n + 1), NEW i \in DOMAIN stack'[s]
       PROVE  s \in 1..n /\ stack'[s] = stack[s] /\ i \in DOMAIN stack[s]
  <2>1. s # n + 1
    <3>1. DOMAIN <<>> = {}
      OBVIOUS
    <3> QED
      BY <1>9, <1>23, <3>1
  <2> QED
    BY <1>9, <1>16, <2>1
<1>24. ScopesAreOwned'
  <2> SUFFICES ASSUME NEW s \in 1..(n + 1), NEW i \in DOMAIN stack'[s]
               PROVE  LET v == stack'[s][i]
                      IN  /\ ~ended'[s] /\ v # Worker /\ ctx'[v] # NoBinding
                          /\ bindings'[ctx'[v]].span = s
                          /\ v \in Tasks => task[v] = "alive" /\ bindings'[ctx'[v]].owner = v
    BY <1>16 DEF ScopesAreOwned, SpanOf, Binding
  <2>1. s \in 1..n /\ stack'[s] = stack[s] /\ i \in DOMAIN stack[s]
    BY <1>23
  <2>2. stack[s][i] \in Units
    <3>1. stack[s] \in Seq(Units)
      BY <1>1, <2>1 DEF Typed
    <3> QED
      BY <2>1, <3>1
  <2>3. PICK v \in Units : v = stack[s][i]
    BY <2>2
  <2>4. /\ ~ended[s] /\ v # Worker /\ ctx[v] # NoBinding
        /\ bindings[ctx[v]].span = s
        /\ v \in Tasks => task[v] = "alive" /\ bindings[ctx[v]].owner = v
    <3>1. \A y \in 1..n : \A k \in DOMAIN stack[y] :
            LET w == stack[y][k]
            IN  /\ ~ended[y] /\ w # Worker /\ ctx[w] # NoBinding
                /\ bindings[ctx[w]].span = y
                /\ w \in Tasks => task[w] = "alive" /\ bindings[ctx[w]].owner = w
      BY <1>2 DEF ContextInv, ScopesAreOwned, SpanOf, Binding
    <3> QED
      BY <2>1, <2>3, <3>1
  <2>5. v # u
    BY <2>4 DEF Binding
  <2>6. ctx[v] \in 1..m
    <3>1. ctx[v] \in 0..m
      BY <1>1 DEF Typed
    <3> QED
      BY <2>4, <3>1 DEF NoBinding
  <2>7. ctx'[v] = ctx[v] /\ bindings'[ctx[v]] = bindings[ctx[v]] /\ ended'[s] = ended[s]
    BY <1>7, <1>8, <1>14, <2>1, <2>5, <2>6
  <2> QED
    BY <2>1, <2>3, <2>4, <2>7
<1>25. ScopesNest'
  <2> SUFFICES ASSUME NEW s \in 1..(n + 1),
                      NEW i \in DOMAIN stack'[s], NEW j \in DOMAIN stack'[s],
                      i < j, stack'[s][i] # stack'[s][j]
               PROVE  /\ stack'[s][j] # Main
                      /\ stack'[s][i] # Main => waitsFor[stack'[s][i]] = stack'[s][j]
    BY <1>16 DEF ScopesNest
  <2>1. s \in 1..n /\ stack'[s] = stack[s] /\ i \in DOMAIN stack[s] /\ j \in DOMAIN stack[s]
    BY <1>23
  <2> QED
    BY <1>2, <2>1 DEF ContextInv, ScopesNest
<1>26. n + 1 \in Nat /\ m + 1 \in Nat
  OBVIOUS
<1> QED
  BY <1>15, <1>18, <1>19, <1>21, <1>22, <1>24, <1>25, <1>26, AllParts

LEMMA EnterRootKeeps ==
  ASSUME ContextInv, NEW u \in Units, EnterRoot(u)
  PROVE  ContextInv'
  BY NewSpanKeeps, UnitFacts DEF EnterRoot

LEMMA ForkKeeps ==
  ASSUME ContextInv, NEW u \in Units, Fork(u)
  PROVE  ContextInv'
  BY NewSpanKeeps, UnitFacts DEF Fork, StartsTimer

LEMMA AdoptKeeps ==
  ASSUME ContextInv, NEW p \in Tasks, NEW t \in Tasks, Adopt(p, t)
  PROVE  ContextInv'
<1>1. PICK n \in Nat, m \in Nat : Typed(n, m)
  BY DEF ContextInv, TypeInv
<1>2. /\ Spans = 1..n /\ DOMAIN bindings = 1..m /\ Len(bindings) = m
      /\ ctx[p] \in 1..m /\ SpanOf(p) \in 1..n /\ p \in Units /\ t \in Units
  <2>1. ctx[p] \in 0..m /\ ctx[p] # 0
    BY <1>1, UnitFacts DEF Typed, Adopt, NoBinding
  <2>2. ctx[p] \in 1..m
    BY <2>1
  <2> QED
    BY <1>1, <2>2, TypedFacts, UnitFacts DEF Typed, SpanOf, Binding
<1>3. PICK s \in 1..n, f \in 1..m : s = SpanOf(p) /\ f = ctx[p]
  BY <1>2
<1> DEFINE new == [span |-> s, thread |-> LoopThread, owner |-> t]
<1>4. /\ p # t /\ task[p] = "alive" /\ task[t] = "alive" /\ waitsFor[p] = NoTask
      /\ ctx[t] = f /\ ctx[p] = f /\ bindings[f].span = s /\ MadeFor(p, s)
      /\ bindings' = Append(bindings, new)
      /\ ctx' = [ctx EXCEPT ![t] = m + 1]
      /\ waitsFor' = [waitsFor EXCEPT ![p] = t]
      /\ UNCHANGED <<task, stack, forkedBy, enteredBy, ended, latch, armed, grace>>
  BY <1>2, <1>3, MayRunFacts DEF Adopt, made, life, SpanOf, Binding
<1>5. new \in [span : 1..n, thread : {LoopThread}, owner : Tasks \cup {NoTask}]
  OBVIOUS
<1> HIDE DEF new
<1>6. /\ bindings' \in [1..(m + 1) -> [span : 1..n, thread : {LoopThread},
                                       owner : Tasks \cup {NoTask}]]
      /\ \A b \in 1..m : bindings'[b] = bindings[b]
      /\ bindings'[m + 1] = new
  <2>1. bindings' \in [1..(m + 1) -> [span : 1..n, thread : {LoopThread},
                                      owner : Tasks \cup {NoTask}]]
    BY <1>1, <1>4, <1>5, AppendType DEF Typed
  <2>2. \A b \in 1..m : bindings'[b] = bindings[b]
    BY <1>1, <1>4, <1>5, AppendKeeps DEF Typed
  <2>3. bindings'[m + 1] = new
    <3> DEFINE R == [span : 1..n, thread : {LoopThread}, owner : Tasks \cup {NoTask}]
    <3>1. bindings \in [1..m -> R] /\ new \in R
      BY <1>1, <1>5 DEF Typed
    <3> HIDE DEF R
    <3>2. Append(bindings, new)[m + 1] = new
      BY <3>1, AppendLast
    <3> QED
      BY <1>4, <3>2
  <2> QED
    BY <2>1, <2>2, <2>3
<1>7. /\ ctx' \in [Units -> 0..(m + 1)] /\ ctx'[t] = m + 1
      /\ \A v \in Units : v # t => ctx'[v] = ctx[v]
  BY <1>1, <1>2, <1>4 DEF Typed
<1>8. /\ waitsFor' \in [Tasks -> Tasks \cup {NoTask}] /\ waitsFor'[p] = t
      /\ \A v \in Tasks : v # p => waitsFor'[v] = waitsFor[v]
  BY <1>1, <1>4 DEF Typed
<1>9. Typed(n, m + 1)'
  BY <1>1, <1>4, <1>6, <1>7, <1>8 DEF Typed
<1>10. Spans' = 1..n /\ DOMAIN bindings' = 1..(m + 1)
  BY <1>2, <1>4, <1>6 DEF Spans
<1>11. OneOpener' /\ LatchOwnsTaskSpan'
  BY <1>2, <1>4, <1>10 DEF ContextInv, OneOpener, LatchOwnsTaskSpan
<1>12. ASSUME NEW q \in Tasks, NEW x \in 1..n, MadeFor(q, x), x = s
       PROVE  q = p
  <2>1. (forkedBy[s] = NoTask) # (enteredBy[s] = NoTask)
    BY <1>2 DEF ContextInv, OneOpener
  <2> QED
    BY <1>4, <1>12, <2>1, UnitFacts DEF MadeFor
<1>13. ASSUME NEW q \in Tasks, NEW x \in 1..n, MadeFor(q, x), Holds(q, x)
       PROVE  q # t /\ ctx'[q] = ctx[q] /\ ctx[q] \in 1..m /\ Holds(q, x)'
  <2>1. q # t
    <3>1. ASSUME q = t PROVE FALSE
      <4>1. x = s
        BY <1>4, <1>13, <3>1 DEF Holds, SpanOf, Binding
      <4> QED
        BY <1>4, <1>12, <1>13, <3>1, <4>1
    <3> QED
      BY <3>1
  <2>2. ctx'[q] = ctx[q] /\ ctx[q] \in 0..m
    BY <1>1, <1>7, <2>1, UnitFacts DEF Typed
  <2>3. ctx[q] \in 1..m
    BY <1>13, <2>2 DEF Holds, NoBinding
  <2> QED
    BY <1>6, <1>13, <2>1, <2>2, <2>3 DEF Holds, SpanOf, Binding
<1>14. OpenersHold'
  <2> SUFFICES ASSUME NEW x \in 1..n, NEW q \in Tasks, ~ended[x], MadeFor(q, x)
               PROVE  \/ task[q] = "alive" /\ Holds(q, x)'
                      \/ task[q] = "done" /\ forkedBy[x] = q /\ Holds(q, x)'
                      \/ task[q] = "collected" /\ forkedBy[x] = q
    BY <1>4, <1>10 DEF OpenersHold, MadeFor
  <2>1. \/ task[q] = "alive" /\ Holds(q, x)
        \/ task[q] = "done" /\ forkedBy[x] = q /\ Holds(q, x)
        \/ task[q] = "collected" /\ forkedBy[x] = q
    BY <1>2 DEF ContextInv, OpenersHold
  <2> QED
    BY <1>13, <2>1
<1>15. ASSUME NEW b \in 1..m, NEW c \in 1..m, b # c,
              bindings[b].span = bindings[c].span, ~ended[bindings[b].span]
       PROVE  \E q \in Tasks : q # p /\ AdoptedFrom(q, b, c) /\ Holds(q, bindings[b].span)
  <2>1. PICK q \in Tasks : AdoptedFrom(q, b, c)
    BY <1>2, <1>15 DEF ContextInv, SecondIsAdopted
  <2>2. q # p
    BY <1>4, <2>1 DEF AdoptedFrom
  <2>3. bindings[b].span \in 1..n
    BY <1>1 DEF Typed
  <2>4. Holds(q, bindings[b].span)
    BY <1>2, <1>15, <2>1, <2>3 DEF ContextInv, OpenersHold, AdoptedFrom
  <2> QED
    BY <2>1, <2>2, <2>4
<1>16. ASSUME NEW b \in 1..m, bindings[b].span = s, ~ended[s]
       PROVE  b = f
  <2>1. ASSUME b # f PROVE FALSE
    <3>1. PICK q \in Tasks : q # p /\ AdoptedFrom(q, b, f)
      BY <1>3, <1>4, <1>15, <1>16, <2>1
    <3> QED
      BY <1>3, <1>12, <1>16, <3>1 DEF AdoptedFrom
  <2> QED
    BY <2>1
<1>17. ASSUME NEW b \in 1..m, bindings[b].span = s, ~ended[s]
       PROVE  AdoptedFrom(p, b, m + 1)' /\ AdoptedFrom(p, m + 1, b)'
  <2>1. b = f /\ f # m + 1
    BY <1>3, <1>16, <1>17
  <2>2. ctx'[p] = f /\ bindings'[f].span = s /\ bindings'[m + 1].span = s
        /\ bindings'[m + 1].owner = t
    BY <1>3, <1>4, <1>6, <1>7, <1>2 DEF new
  <2>3. AwaitsOwner(p, m + 1)'
    BY <1>4, <1>8, <2>2 DEF AwaitsOwner
  <2>4. MadeFor(p, s)' /\ task'[p] = "alive" /\ waitsFor'[p] # NoTask
    BY <1>4, <1>8, UnitFacts DEF MadeFor
  <2> QED
    BY <2>1, <2>2, <2>3, <2>4 DEF AdoptedFrom
<1>18. SecondIsAdopted'
  <2> SUFFICES ASSUME NEW b \in 1..(m + 1), NEW c \in 1..(m + 1), b # c,
                      bindings'[b].span = bindings'[c].span, ~ended[bindings'[b].span]
               PROVE  \E q \in Tasks : AdoptedFrom(q, b, c)'
    BY <1>4, <1>10 DEF SecondIsAdopted
  <2>0. (b \in 1..m \/ b = m + 1) /\ (c \in 1..m \/ c = m + 1)
    OBVIOUS
  <2>1. bindings'[m + 1].span = s
    BY <1>6 DEF new
  <2>2. CASE b \in 1..m /\ c \in 1..m
    <3>1. bindings'[b] = bindings[b] /\ bindings'[c] = bindings[c] /\ bindings[b].span \in 1..n
      BY <1>1, <1>6, <2>2 DEF Typed
    <3>2. PICK q \in Tasks : q # p /\ AdoptedFrom(q, b, c) /\ Holds(q, bindings[b].span)
      BY <1>15, <2>2, <3>1
    <3>3. ctx'[q] = ctx[q] /\ waitsFor'[q] = waitsFor[q]
      BY <1>8, <1>13, <3>1, <3>2 DEF AdoptedFrom
    <3>4. ASSUME task[q] = "alive", NEW d \in {b, c} \ {ctx[q]}
          PROVE  AwaitsOwner(q, d)'
      BY <1>4, <3>1, <3>2, <3>3, <3>4 DEF AdoptedFrom, AwaitsOwner
    <3> QED
      BY <1>4, <3>1, <3>2, <3>3, <3>4 DEF AdoptedFrom, MadeFor
  <2>3. CASE b \in 1..m /\ c = m + 1
    <3>1. bindings[b].span = s /\ ~ended[s]
      BY <1>6, <2>1, <2>3
    <3> QED
      BY <1>17, <2>3, <3>1
  <2>4. CASE b = m + 1 /\ c \in 1..m
    <3>1. bindings[c].span = s /\ ~ended[s]
      BY <1>6, <2>1, <2>4
    <3> QED
      BY <1>17, <2>4, <3>1
  <2> QED
    BY <2>0, <2>2, <2>3, <2>4
<1>19. ScopesAreOwned'
  <2> SUFFICES ASSUME NEW x \in 1..n, NEW i \in DOMAIN stack[x]
               PROVE  LET v == stack[x][i]
                      IN  /\ ~ended[x] /\ v # Worker /\ ctx'[v] # NoBinding
                          /\ bindings'[ctx'[v]].span = x
                          /\ v \in Tasks => task[v] = "alive" /\ bindings'[ctx'[v]].owner = v
    <3> SUFFICES ASSUME NEW x \in 1..n, NEW i \in DOMAIN stack'[x]
                 PROVE  LET v == stack'[x][i]
                        IN  /\ ~ended'[x] /\ v # Worker /\ ctx'[v] # NoBinding
                            /\ bindings'[ctx'[v]].span = x
                            /\ v \in Tasks => task'[v] = "alive" /\ bindings'[ctx'[v]].owner = v
      BY <1>10 DEF ScopesAreOwned, SpanOf, Binding
    <3>1. stack' = stack /\ ended' = ended /\ task' = task
      BY <1>4
    <3>2. i \in DOMAIN stack[x]
      BY <3>1
    <3> QED
      BY <3>1, <3>2
  <2>2. stack[x][i] \in Units
    <3>1. stack[x] \in Seq(Units)
      BY <1>1 DEF Typed
    <3> QED
      BY <3>1
  <2>3. PICK v \in Units : v = stack[x][i]
    BY <2>2
  <2>4. /\ ~ended[x] /\ v # Worker /\ ctx[v] # NoBinding
        /\ bindings[ctx[v]].span = x
        /\ v \in Tasks => task[v] = "alive" /\ bindings[ctx[v]].owner = v
    BY <1>2, <2>3 DEF ContextInv, ScopesAreOwned, SpanOf, Binding
  <2>5. v # t
    <3>1. ASSUME v = t PROVE FALSE
      <4>1. x = s /\ bindings[f].owner = t
        BY <1>4, <2>4, <3>1
      <4>2. Holds(p, s)
        BY <1>2, <1>4, <2>4, <4>1 DEF ContextInv, OpenersHold
      <4> QED
        BY <1>4, <4>1, <4>2 DEF Holds, Binding
    <3> QED
      BY <3>1
  <2>6. ctx[v] \in 1..m
    <3>1. ctx[v] \in 0..m
      BY <1>1 DEF Typed
    <3> QED
      BY <2>4, <3>1 DEF NoBinding
  <2>7. ctx'[v] = ctx[v] /\ bindings'[ctx[v]] = bindings[ctx[v]]
    BY <1>6, <1>7, <2>5, <2>6
  <2> QED
    BY <2>3, <2>4, <2>7
<1>20. ScopesNest'
  <2> SUFFICES ASSUME NEW x \in 1..n, NEW i \in DOMAIN stack[x], NEW j \in DOMAIN stack[x],
                      i < j, stack[x][i] # stack[x][j]
               PROVE  /\ stack[x][j] # Main
                      /\ stack[x][i] # Main => waitsFor'[stack[x][i]] = stack[x][j]
    BY <1>4, <1>10 DEF ScopesNest
  <2>1. stack[x][i] \in Units /\ stack[x][j] \in Units
    <3>1. stack[x] \in Seq(Units)
      BY <1>1 DEF Typed
    <3> QED
      BY <3>1
  <2>2. /\ stack[x][j] # Main
        /\ stack[x][i] # Main => waitsFor[stack[x][i]] = stack[x][j]
        /\ stack[x][i] # Worker
    BY <1>2 DEF ContextInv, ScopesNest, ScopesAreOwned
  <2>3. stack[x][i] # Main => stack[x][i] \in Tasks /\ stack[x][i] # p
    BY <1>4, <2>1, <2>2, UnitFacts
  <2> QED
    BY <1>8, <2>2, <2>3
<1>21. m + 1 \in Nat
  OBVIOUS
<1> QED
  BY <1>9, <1>11, <1>14, <1>18, <1>19, <1>20, <1>21, AllParts

-----------------------------------------------------------------------------
(* The invariant of all behaviours *)

LEMMA InitHolds ==
  ASSUME Init
  PROVE  ContextInv
<1>1. Typed(0, 0)
  <2>1. /\ bindings = <<>> /\ ended = <<>> /\ stack = <<>> /\ latch = <<>> /\ armed = <<>>
        /\ grace = <<>> /\ forkedBy = <<>> /\ enteredBy = <<>>
    BY DEF Init
  <2>2. \A S : <<>> \in [1..0 -> S]
    OBVIOUS
  <2>3. task \in [Tasks -> {"unborn", "alive", "done", "over", "collected"}]
    BY DEF Init
  <2>4. waitsFor \in [Tasks -> Tasks \cup {NoTask}] /\ ctx \in [Units -> 0..0]
    BY DEF Init, NoBinding
  <2> QED
    BY <2>1, <2>2, <2>3, <2>4 DEF Typed
<1>2. Spans = {} /\ DOMAIN bindings = {}
  <2>1. ended = <<>> /\ bindings = <<>>
    BY DEF Init
  <2>2. DOMAIN <<>> = {}
    OBVIOUS
  <2> QED
    BY <2>1, <2>2 DEF Spans
<1>3. /\ OneOpener /\ LatchOwnsTaskSpan /\ OpenersHold
      /\ SecondIsAdopted /\ ScopesAreOwned /\ ScopesNest
  BY <1>2 DEF OneOpener, LatchOwnsTaskSpan, OpenersHold, SecondIsAdopted,
              ScopesAreOwned, ScopesNest
<1> QED
  BY <1>1, <1>3 DEF ContextInv, TypeInv

LEMMA StutteringKeeps ==
  ASSUME ContextInv, UNCHANGED vars
  PROVE  ContextInv'
<1>1. PICK n \in Nat, m \in Nat : Typed(n, m)
  BY DEF ContextInv, TypeInv
<1>2. UNCHANGED <<task, waitsFor, bindings, ctx, stack, made, ended, latch, armed, grace,
                  forkedBy, enteredBy>>
  BY DEF vars, made, life
<1>3. Typed(n, m)' /\ LatchOwnsTaskSpan'
  BY <1>1, <1>2 DEF Typed, ContextInv, LatchOwnsTaskSpan, Spans
<1>4. \A s \in 1..n : stack[s] \in Seq(Units)
  BY <1>1 DEF Typed
<1> QED
  BY <1>1, <1>2, <1>3, <1>4, EndingKeeps, WholeIsCut

LEMMA StepKeeps ==
  ASSUME ContextInv, [Next]_vars
  PROVE  ContextInv'
<1>1. ASSUME NEW u \in Units, EnterRoot(u) \/ ExitRoot(u) \/ OpenEvent(u)
      PROVE  ContextInv'
  BY <1>1, EnterRootKeeps, ExitRootKeeps, OpenEventKeeps
<1>2. ASSUME NEW u \in Units, RunInThread(u) \/ Claim(u) \/ Fork(u)
      PROVE  ContextInv'
  BY <1>2, RunInThreadKeeps, ClaimKeeps, ForkKeeps
<1>3. ASSUME NEW u \in Units, NEW s \in Spans, CloseEvent(u, s)
      PROVE  ContextInv'
  BY <1>3, CloseEventKeeps
<1>4. ASSUME NEW u \in Units, NEW ts \in SUBSET Tasks, CreateTasks(u, ts)
      PROVE  ContextInv'
  BY <1>4, CreateTasksKeeps
<1>5. ASSUME NEW t \in Tasks, FinishTask(t) \/ DoneCallback(t) \/ Collect(t) \/ LoseTask(t)
      PROVE  ContextInv'
  BY <1>5, FinishTaskKeeps, DoneCallbackKeeps, CollectKeeps, LoseTaskKeeps
<1>6. ASSUME NEW t \in Tasks, NEW p \in Tasks, Adopt(p, t)
      PROVE  ContextInv'
  BY <1>6, AdoptKeeps
<1>7. ASSUME NEW s \in Spans, TimerFires(s) \/ GracePasses(s)
      PROVE  ContextInv'
  BY <1>7, TimerFiresKeeps, GracePassesKeeps
<1>8. CASE UNCHANGED vars
  BY <1>8, StutteringKeeps
<1> QED
  BY <1>1, <1>2, <1>3, <1>4, <1>5, <1>6, <1>7, <1>8 DEF Next

(* The inductive invariant: a span's second binding comes by adoption, the *)
(* tasks that spans were made for hold them while they go on, and events   *)
(* are nested as their tasks await one another.                            *)
THEOREM ContextInvariant == Spec => []ContextInv
<1>1. Init => ContextInv
  BY InitHolds
<1>2. ContextInv /\ [Next]_vars => ContextInv'
  BY StepKeeps
<1> QED
  BY <1>1, <1>2, PTL DEF Spec

(* "A Span Is Single-Threaded" for every number of tasks and spans: no two *)
(* contexts that may run have current_span() give them one live span, none *)
(* closes another's event, and an implicit span is ended by one callback.  *)
THEOREM SpansHaveOneOwner == Spec => []SpansAreOwned
<1>1. ContextInv => SpansAreOwned
  BY InvGivesOwned
<1> QED
  BY <1>1, ContextInvariant, PTL
===============================================================================
