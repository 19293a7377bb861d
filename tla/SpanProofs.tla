------------------------------ MODULE SpanProofs ------------------------------
(***************************************************************************)
(* Proofs about Span, for all limits, chunk sizes and bounds.              *)
(*                                                                         *)
(* What a step does to positions is stated first, once per kind of step    *)
(* (push, unwind, stamp); the invariants are then preserved by these       *)
(* effects, whatever else an action does.  The records follow: where each  *)
(* one is, and that nothing is stamped on an event which left the stack.   *)
(***************************************************************************)
EXTENDS Span, FiniteSetTheorems, SequenceTheorems, TLAPS

-----------------------------------------------------------------------------
(* Effects of a step on the stack and the positions *)

(* A span does not change its kind, so positions start where they did. *)
LEMMA SameKindSameBase ==
  ASSUME asyncRoot' = asyncRoot
  PROVE  BaseDepth' = BaseDepth /\ BaseSequence' = BaseSequence
  BY DEF BaseDepth, BaseSequence

PushEffect(seq) ==
  /\ Len(events') = Len(events) + 1
  /\ Len(stack') = Len(stack) + 1
  /\ \A e \in 1..Len(events) : events'[e] = events[e]
  /\ \A i \in 1..Len(stack) : stack'[i] = stack[i]
  /\ stack'[Len(stack) + 1] = Len(events) + 1
  /\ events'[Len(events) + 1].seq = seq
  /\ events'[Len(events) + 1].depth = depth
  /\ events'[Len(events) + 1].parent = Top

SamePositions ==
  /\ Len(events') = Len(events)
  /\ \A e \in 1..Len(events) : /\ events'[e].seq = events[e].seq
                               /\ events'[e].depth = events[e].depth
                               /\ events'[e].parent = events[e].parent

UnwindEffect(i) ==
  /\ SamePositions
  /\ Len(stack') = i - 1
  /\ \A j \in 1..(i - 1) : stack'[j] = stack[j]
  /\ depth' = IF i <= OpenReal THEN BaseDepth + i - 1 ELSE depth

(* The slots of the stack, and the innermost event, are events. *)
LEMMA StackOfEvents ==
  ASSUME TypeOK
  PROVE  /\ Len(stack) \in Nat /\ Len(events) \in Nat
         /\ \A i \in 1..Len(stack) : stack[i] \in 1..Len(events)
         /\ Top \in 0..Len(events)
         /\ \A e \in 1..Len(events) : events[e] \in EventType
  <1>1. events \in Seq(EventType) /\ stack \in Seq(1..Len(events))
    BY DEF TypeOK
  <1>2. Len(stack) \in Nat /\ Len(events) \in Nat
    BY <1>1
  <1>3. /\ \A i \in 1..Len(stack) : stack[i] \in 1..Len(events)
        /\ \A e \in 1..Len(events) : events[e] \in EventType
    BY <1>1
  <1>4. Top \in 0..Len(events)
    <2>1. stack # <<>> => Len(stack) \in 1..Len(stack)
      BY <1>1
    <2> QED BY <1>2, <1>3, <2>1 DEF Top, NoEvent
  <1> QED BY <1>2, <1>3, <1>4

(* Creating a wrapper appends it to the heap and to the stack. *)
LEMMA PushIsPushEffect ==
  ASSUME TypeOK, NEW seq, Push(seq)
  PROVE  PushEffect(seq)
  BY StackOfEvents DEF TypeOK, Push, PushEffect, NewEvent

(* Popping from slot i releases one level per real event popped. *)
LEMMA ReleasedCount ==
  ASSUME TypeOK, StackShape, NEW i \in 1..(Len(stack) + 1)
  PROVE  Released(i) = IF i <= OpenReal THEN OpenReal - i + 1 ELSE 0
  <1>1. Len(stack) \in Nat /\ OpenReal \in 0..Len(stack)
    BY StackOfEvents DEF StackShape
  <1>2. RealFrom(i) = i..OpenReal
    BY <1>1 DEF RealFrom, Popped, IsPlaceholder, StackShape
  <1>3. Cardinality(i..OpenReal) = IF i > OpenReal THEN 0 ELSE OpenReal - i + 1
    BY <1>1, FS_Interval
  <1> QED BY <1>1, <1>2, <1>3 DEF Released

(* What Unwind does to the stack, stated slot by slot. *)
LEMMA UnwindIsUnwindEffect ==
  ASSUME TypeOK, StackShape, NEW i \in 1..(Len(stack) + 1), Unwind(i)
  PROVE  UnwindEffect(i)
  <1>1. Len(stack) \in Nat /\ Len(events) \in Nat
    BY StackOfEvents
  <1>2. SamePositions
    BY <1>1, StackOfEvents DEF Unwind, SamePositions, EventType
  <1>3. Len(stack') = i - 1 /\ \A j \in 1..(i - 1) : stack'[j] = stack[j]
    <2>1. \A j \in 1..(i - 1) : stack[j] \in 1..Len(events)
      BY <1>1, StackOfEvents
    <2>2. stack' = SubSeq(stack, 1, i - 1) /\ i - 1 \in Int
      BY <1>1 DEF Unwind
    <2> QED BY <1>1, <2>1, <2>2, SubSeqProperties
  <1>4. depth' = IF i <= OpenReal THEN BaseDepth + i - 1 ELSE depth
    <2>1. depth' = depth - Released(i)
      BY DEF Unwind
    <2>2. depth \in Int /\ BaseDepth \in Int
      BY DEF TypeOK, BaseDepth
    <2> QED BY <2>1, <2>2, ReleasedCount DEF OpenReal
  <1> QED BY <1>2, <1>3, <1>4 DEF UnwindEffect

-----------------------------------------------------------------------------
(* The position invariant is preserved by each kind of step *)

PositionFacts == StackShape /\ SequenceOrder /\ OpenScopes /\ TreeReconstructible

(* The integers the position arguments range over. *)
LEMMA PositionTypes ==
  ASSUME TypeOK
  PROVE  /\ Len(stack) \in Nat /\ Len(events) \in Nat
         /\ sequence \in Nat /\ depth \in Nat
         /\ BaseDepth \in 1..2 /\ BaseSequence \in 0..1
         /\ \A i \in 1..Len(stack) : stack[i] \in 1..Len(events)
         /\ \A e \in 1..Len(events) :
              events[e].seq \in Int /\ events[e].depth \in Int
         /\ DOMAIN events = 1..Len(events) /\ DOMAIN stack = 1..Len(stack)
  <1>1. BaseDepth \in 1..2 /\ BaseSequence \in 0..1
    BY LimitsAssumption DEF BaseDepth, BaseSequence
  <1>2. sequence \in Nat /\ depth \in Nat
    BY <1>1, LimitsAssumption DEF TypeOK
  <1>3. \A e \in 1..Len(events) :
          events[e].seq \in Int /\ events[e].depth \in Int
    BY StackOfEvents DEF EventType, NoPosition
  <1>4. DOMAIN events = 1..Len(events) /\ DOMAIN stack = 1..Len(stack)
    BY DEF TypeOK
  <1> QED BY <1>1, <1>2, <1>3, <1>4, StackOfEvents

(* TreeReconstructible said without the set of candidates. *)
TreePointwise ==
  \A e \in 1..Len(events) : events[e].seq # NoPosition =>
    /\ events[e].parent # NoEvent =>
         /\ events[e].parent \in 1..Len(events)
         /\ events[events[e].parent].seq # NoPosition
         /\ events[events[e].parent].seq < events[e].seq
         /\ events[events[e].parent].depth = events[e].depth - 1
    /\ \A c \in 1..Len(events) :
         /\ events[c].seq # NoPosition
         /\ events[c].seq < events[e].seq
         /\ events[c].depth = events[e].depth - 1
         => /\ events[e].parent # NoEvent
            /\ events[c].seq <= events[events[e].parent].seq

(* TreeReconstructible without sets of events: one fact per event. *)
LEMMA TreeIsPointwise ==
  ASSUME TypeOK
  PROVE  TreeReconstructible <=> TreePointwise
  <1>1. Real = {e \in 1..Len(events) : events[e].seq # NoPosition}
    BY PositionTypes DEF Real, IsPlaceholder
  <1>2. ASSUME TreeReconstructible PROVE TreePointwise
    <2> SUFFICES ASSUME NEW e \in 1..Len(events), events[e].seq # NoPosition
                 PROVE  /\ events[e].parent # NoEvent =>
                             events[e].parent \in CandidateParents(e)
                        /\ \A c \in CandidateParents(e) :
                             /\ events[e].parent # NoEvent
                             /\ events[c].seq <= events[events[e].parent].seq
      BY <1>1 DEF TreePointwise, CandidateParents
    <2> QED BY <1>1, <1>2 DEF TreeReconstructible
  <1>3. ASSUME TreePointwise PROVE TreeReconstructible
    <2> SUFFICES ASSUME NEW e \in Real
                 PROVE  IF events[e].parent = NoEvent
                        THEN CandidateParents(e) = {}
                        ELSE /\ events[e].parent \in CandidateParents(e)
                             /\ \A c \in CandidateParents(e) :
                                  events[c].seq <= events[events[e].parent].seq
      BY DEF TreeReconstructible
    <2> QED BY <1>1, <1>3 DEF TreePointwise, CandidateParents
  <1> QED BY <1>2, <1>3

(* The same of the next state. *)
LEMMA TreeIsPointwiseNext ==
  (TypeOK => (TreeReconstructible <=> TreePointwise))'
  <1>1. TypeOK => (TreeReconstructible <=> TreePointwise)
    BY TreeIsPointwise
  <1> QED BY <1>1, PTL

(* A new numbered event takes the next sequence and depth. *)
LEMMA RealPushPreserves ==
  ASSUME TypeOK, TypeOK', PositionFacts, ~Overflows, PushEffect(sequence),
         BaseDepth' = BaseDepth, BaseSequence' = BaseSequence,
         sequence' = sequence + 1, depth' = depth + 1
  PROVE  PositionFacts'
  <1> DEFINE n == Len(events) + 1  m == Len(stack) + 1
  <1>1. /\ Len(events') = n /\ Len(stack') = m /\ stack'[m] = n
        /\ events'[n].seq = sequence /\ events'[n].depth = depth
        /\ events'[n].parent = Top
        /\ \A e \in 1..Len(events) : events'[e] = events[e]
        /\ \A i \in 1..Len(stack) : stack'[i] = stack[i]
    BY DEF PushEffect
  <1>2. OpenReal = Len(stack) /\ OpenReal' = m
    BY PositionTypes DEF StackShape, OpenReal, PositionFacts
  <1>a. /\ Len(stack) \in Nat /\ Len(events) \in Nat
        /\ sequence \in Nat /\ depth \in Nat
        /\ BaseDepth \in 1..2 /\ BaseSequence \in 0..1
    BY PositionTypes
  <1>b. depth = BaseDepth + Len(stack)
    BY <1>2, <1>a DEF OpenReal
  <1>3. StackShape'
    <2>1. OpenReal' \in 0..Len(stack') /\ OpenReal' <= sequence' - BaseSequence
      BY <1>1, <1>2, PositionTypes DEF StackShape, PositionFacts, OpenReal
    <2>2. ASSUME NEW i \in 1..m
          PROVE  events'[stack'[i]].seq # NoPosition
                   /\ events'[stack'[i]].depth = BaseDepth + i - 1
      <3>1. CASE i = m
        BY <3>1, <1>1, <1>a, <1>b DEF NoPosition
      <3>2. CASE i # m
        <4>1. i \in 1..Len(stack)
          BY <3>2, <1>a
        <4>2. stack'[i] = stack[i] /\ events'[stack[i]] = events[stack[i]]
          BY <4>1, <1>1, PositionTypes
        <4>3. /\ events[stack[i]].seq # NoPosition
              /\ events[stack[i]].depth = BaseDepth + i - 1
          BY <4>1, <1>2, <1>a DEF StackShape, PositionFacts
        <4> QED BY <4>2, <4>3
      <3> QED BY <3>1, <3>2
    <2>3. ASSUME NEW i \in 1..m, NEW j \in 1..m, i < j
          PROVE  stack'[i] < stack'[j]
      <3>1. CASE j = m
        <4>1. i \in 1..Len(stack)
          BY <2>3, <3>1, <1>a
        <4>2. stack'[i] \in 1..Len(events)
          BY <4>1, <1>1, PositionTypes
        <4> QED BY <4>2, <3>1, <1>1, <1>a
      <3>2. CASE j # m
        <4>1. i \in 1..Len(stack) /\ j \in 1..Len(stack)
          BY <2>3, <3>2, <1>a
        <4>2. stack[i] < stack[j]
          BY <4>1, <2>3 DEF StackShape, PositionFacts
        <4> QED BY <4>1, <4>2, <1>1
      <3> QED BY <3>1, <3>2
    <2> QED BY <2>1, <2>2, <2>3, <1>1, <1>2 DEF StackShape
  <1>4. SequenceOrder'
    <2>1. ASSUME NEW e \in 1..n, events'[e].seq # NoPosition
          PROVE  /\ BaseSequence <= events'[e].seq /\ events'[e].seq < sequence'
                 /\ BaseDepth <= events'[e].depth
      <3>1. CASE e = n
        <4>1. BaseSequence <= sequence
          BY <1>2, <1>a DEF StackShape, PositionFacts
        <4> QED BY <3>1, <4>1, <1>1, <1>a, <1>b
      <3>2. CASE e # n
        <4>1. e \in 1..Len(events) /\ events'[e] = events[e]
          BY <3>2, <1>1, PositionTypes
        <4>2. /\ BaseSequence <= events[e].seq /\ events[e].seq < sequence
              /\ BaseDepth <= events[e].depth
          BY <4>1, <2>1 DEF SequenceOrder, PositionFacts
        <4> QED BY <4>1, <4>2, PositionTypes
      <3> QED BY <3>1, <3>2
    <2>2. ASSUME NEW e \in 1..n, NEW f \in 1..n, e < f,
                 events'[e].seq # NoPosition, events'[f].seq # NoPosition
          PROVE  events'[e].seq < events'[f].seq
      <3>1. e \in 1..Len(events) /\ events'[e] = events[e]
        BY <2>2, <1>1, PositionTypes
      <3>2. CASE f = n
        <4>1. events[e].seq < sequence
          BY <3>1, <2>2 DEF SequenceOrder, PositionFacts
        <4> QED BY <4>1, <3>1, <3>2, <1>1
      <3>3. CASE f # n
        <4>1. f \in 1..Len(events) /\ events'[f] = events[f]
          BY <3>3, <1>1, PositionTypes
        <4> QED BY <4>1, <3>1, <2>2 DEF SequenceOrder, PositionFacts
      <3> QED BY <3>2, <3>3
    <2> QED BY <2>1, <2>2, <1>1 DEF SequenceOrder
  <1>5. OpenScopes'
    <2> SUFFICES ASSUME NEW i \in 1..m, NEW f \in 1..n,
                        stack'[i] < f, events'[f].seq # NoPosition
                 PROVE  events'[stack'[i]].depth < events'[f].depth
      BY <1>1 DEF OpenScopes
    <2>1. i # m
      BY <1>1, PositionTypes
    <2>2. /\ i \in 1..Len(stack) /\ stack'[i] = stack[i]
          /\ stack[i] \in 1..Len(events)
          /\ events'[stack[i]] = events[stack[i]]
      BY <2>1, <1>1, PositionTypes
    <2>3. CASE f = n
      <3>1. events[stack[i]].depth = BaseDepth + i - 1
        BY <2>2, <1>2 DEF StackShape, PositionFacts
      <3>2. events'[f].depth = BaseDepth + Len(stack)
        BY <2>3, <1>1, <1>b
      <3> QED BY <3>1, <3>2, <2>2, <1>a
    <2>4. CASE f # n
      <3>1. f \in 1..Len(events) /\ events'[f] = events[f]
        BY <2>4, <1>1, PositionTypes
      <3> QED BY <3>1, <2>2, <1>2 DEF OpenScopes, PositionFacts
    <2> QED BY <2>3, <2>4
  <1>6. TreeReconstructible'
    <2>1. TreePointwise
      BY TreeIsPointwise DEF PositionFacts
    <2>2. ASSUME NEW e \in 1..Len(events), events[e].seq # NoPosition,
                 NEW c \in 1..n, events'[c].seq < events'[e].seq
          PROVE  c \in 1..Len(events)
      <3>1. events'[e].seq < sequence
        BY <2>2, <1>1 DEF SequenceOrder, PositionFacts
      <3>2. events'[n].seq = sequence
        BY <1>1
      <3>3. events'[e].seq \in Int
        BY <2>2, <1>1, PositionTypes
      <3>4. c # n
        BY <2>2, <3>1, <3>2, <3>3, PositionTypes
      <3>5. Len(events) \in Nat BY PositionTypes
      <3> QED BY <3>4, <3>5
    <2>3. ASSUME NEW c \in 1..n, events'[c].seq # NoPosition,
                 events'[c].seq < sequence, events'[c].depth = depth - 1
          PROVE  Top # NoEvent /\ events'[c].seq <= events'[Top].seq
      <3>1. c \in 1..Len(events) /\ events'[c] = events[c]
        <4>1. c # n
          BY <2>3, <1>1, <1>a
        <4>2. c \in 1..Len(events)
          BY <4>1, <1>a
        <4> QED BY <4>2, <1>1
      <3>2. stack # <<>>
        <4>1. BaseDepth <= depth - 1
          BY <2>3, <3>1 DEF SequenceOrder, PositionFacts
        <4>2. Len(stack) # 0
          BY <4>1, <1>a, <1>b
        <4> QED BY <4>2
      <3>3. Top = stack[Len(stack)] /\ Len(stack) \in 1..Len(stack)
        BY <3>2, PositionTypes DEF Top, TypeOK
      <3>4. /\ Top \in 1..Len(events) /\ events'[Top] = events[Top]
            /\ events[Top].seq # NoPosition
            /\ events[Top].depth = depth - 1
        <4>1. Top \in 1..Len(events)
          BY <3>3, PositionTypes
        <4>2. /\ events[Top].seq # NoPosition
              /\ events[Top].depth = BaseDepth + Len(stack) - 1
          BY <3>3, <1>2 DEF StackShape, PositionFacts
        <4>3. BaseDepth + Len(stack) - 1 = depth - 1
          BY <1>a, <1>b
        <4>4. events'[Top] = events[Top]
          BY <4>1, <1>1
        <4> QED BY <4>1, <4>2, <4>3, <4>4
      <3>5. ~(stack[Len(stack)] < c)
        <4>1. SUFFICES ASSUME stack[Len(stack)] < c PROVE FALSE
          OBVIOUS
        <4>2. events[stack[Len(stack)]].depth < events[c].depth
          BY <4>1, <3>1, <3>3, <1>2, <2>3 DEF OpenScopes, PositionFacts
        <4> QED BY <4>2, <3>1, <3>3, <3>4, <2>3, PositionTypes
      <3>6. c = Top \/ c < Top
        BY <3>1, <3>3, <3>4, <3>5
      <3>7. c < Top => events[c].seq < events[Top].seq
        BY <3>1, <3>4, <2>3 DEF SequenceOrder, PositionFacts
      <3> QED BY <3>1, <3>4, <3>6, <3>7, PositionTypes DEF NoEvent
    <2>4. Top # NoEvent => /\ Top \in 1..Len(events)
                           /\ events[Top].seq # NoPosition
                           /\ events[Top].seq < sequence
                           /\ events[Top].depth = depth - 1
      <3> HAVE Top # NoEvent
      <3>1. Top = stack[Len(stack)] /\ Len(stack) \in 1..Len(stack)
        BY PositionTypes DEF Top, TypeOK
      <3>2. /\ Top \in 1..Len(events)
            /\ events[Top].seq # NoPosition
            /\ events[Top].depth = depth - 1
        <4>1. Top \in 1..Len(events)
          BY <3>1, PositionTypes
        <4>2. /\ events[Top].seq # NoPosition
              /\ events[Top].depth = BaseDepth + Len(stack) - 1
          BY <3>1, <1>2 DEF StackShape, PositionFacts
        <4>3. BaseDepth + Len(stack) - 1 = depth - 1
          BY <1>a, <1>b
        <4> QED BY <4>1, <4>2, <4>3
      <3> QED BY <3>2 DEF SequenceOrder, PositionFacts
    <2>5. TreePointwise'
      <3> SUFFICES ASSUME NEW e \in 1..n, events'[e].seq # NoPosition
                   PROVE  /\ events'[e].parent # NoEvent =>
                               /\ events'[e].parent \in 1..n
                               /\ events'[events'[e].parent].seq # NoPosition
                               /\ events'[events'[e].parent].seq < events'[e].seq
                               /\ events'[events'[e].parent].depth
                                     = events'[e].depth - 1
                          /\ \A c \in 1..n :
                               /\ events'[c].seq # NoPosition
                               /\ events'[c].seq < events'[e].seq
                               /\ events'[c].depth = events'[e].depth - 1
                               => /\ events'[e].parent # NoEvent
                                  /\ events'[c].seq <= events'[events'[e].parent].seq
        BY <1>1 DEF TreePointwise
      <3>1. CASE e = n
        BY <3>1, <2>3, <2>4, <1>1, PositionTypes
      <3>2. CASE e # n
        <4>1. e \in 1..Len(events) /\ events'[e] = events[e]
          BY <3>2, <1>1, PositionTypes
        <4>2. events[e].parent # NoEvent =>
                /\ events[e].parent \in 1..Len(events)
                /\ events'[events[e].parent] = events[events[e].parent]
          BY <4>1, <2>1, <1>1 DEF TreePointwise
        <4>3. \A c \in 1..n : events'[c].seq < events'[e].seq =>
                c \in 1..Len(events) /\ events'[c] = events[c]
          BY <4>1, <2>2, <1>1
        <4>4. /\ events[e].parent # NoEvent =>
                   /\ events[e].parent \in 1..Len(events)
                   /\ events[events[e].parent].seq # NoPosition
                   /\ events[events[e].parent].seq < events[e].seq
                   /\ events[events[e].parent].depth = events[e].depth - 1
              /\ \A c \in 1..Len(events) :
                   /\ events[c].seq # NoPosition
                   /\ events[c].seq < events[e].seq
                   /\ events[c].depth = events[e].depth - 1
                   => /\ events[e].parent # NoEvent
                      /\ events[c].seq <= events[events[e].parent].seq
          BY <4>1, <2>1 DEF TreePointwise
        <4>5. 1..Len(events) \subseteq 1..n
          BY PositionTypes
        <4> HIDE DEF n
        <4>6. events'[e].parent # NoEvent =>
                /\ events'[e].parent \in 1..n
                /\ events'[events'[e].parent].seq # NoPosition
                /\ events'[events'[e].parent].seq < events'[e].seq
                /\ events'[events'[e].parent].depth = events'[e].depth - 1
          BY <4>1, <4>2, <4>4, <4>5
        <4>7. ASSUME NEW c \in 1..n, events'[c].seq # NoPosition,
                     events'[c].seq < events'[e].seq,
                     events'[c].depth = events'[e].depth - 1
              PROVE  /\ events'[e].parent # NoEvent
                     /\ events'[c].seq <= events'[events'[e].parent].seq
          <5>1. c \in 1..Len(events) /\ events'[c] = events[c]
            BY <4>3, <4>7
          <5> QED BY <5>1, <4>1, <4>2, <4>4, <4>7
        <4> QED BY <4>6, <4>7
      <3> QED BY <3>1, <3>2
    <2> QED BY <2>5, TreeIsPointwiseNext
  <1> QED BY <1>3, <1>4, <1>5, <1>6 DEF PositionFacts

(* A step that numbers no new event leaves the order and the tree alone. *)
KeepsReal ==
  /\ Len(events) <= Len(events')
  /\ \A e \in 1..Len(events) : /\ events'[e].seq = events[e].seq
                               /\ events'[e].depth = events[e].depth
                               /\ events'[e].parent = events[e].parent
  /\ \A e \in 1..Len(events') :
       events'[e].seq # NoPosition => e \in 1..Len(events)
  /\ sequence' = sequence

(* A step that moves no numbered event leaves the tree as it is. *)
LEMMA KeepsRealPreserves ==
  ASSUME TypeOK, TypeOK', PositionFacts, KeepsReal,
         BaseDepth' = BaseDepth, BaseSequence' = BaseSequence
  PROVE  SequenceOrder' /\ TreeReconstructible'
  <1>1. SequenceOrder'
    BY DEF KeepsReal, SequenceOrder, PositionFacts
  <1>2. TreePointwise
    BY TreeIsPointwise DEF PositionFacts
  <1>3. TreePointwise'
    <2> SUFFICES ASSUME NEW e \in 1..Len(events'), events'[e].seq # NoPosition
                 PROVE  /\ events'[e].parent # NoEvent =>
                             /\ events'[e].parent \in 1..Len(events')
                             /\ events'[events'[e].parent].seq # NoPosition
                             /\ events'[events'[e].parent].seq < events'[e].seq
                             /\ events'[events'[e].parent].depth
                                   = events'[e].depth - 1
                        /\ \A c \in 1..Len(events') :
                             /\ events'[c].seq # NoPosition
                             /\ events'[c].seq < events'[e].seq
                             /\ events'[c].depth = events'[e].depth - 1
                             => /\ events'[e].parent # NoEvent
                                /\ events'[c].seq <= events'[events'[e].parent].seq
      BY DEF TreePointwise
    <2>1. /\ e \in 1..Len(events) /\ events[e].seq # NoPosition
          /\ events'[e].seq = events[e].seq
          /\ events'[e].depth = events[e].depth
          /\ events'[e].parent = events[e].parent
      BY DEF KeepsReal
    <2>2. events[e].parent # NoEvent =>
            /\ events[e].parent \in 1..Len(events)
            /\ events[e].parent \in 1..Len(events')
            /\ events[events[e].parent].seq # NoPosition
            /\ events[events[e].parent].seq < events[e].seq
            /\ events[events[e].parent].depth = events[e].depth - 1
            /\ events'[events[e].parent].seq = events[events[e].parent].seq
            /\ events'[events[e].parent].depth = events[events[e].parent].depth
      <3>1. Len(events) \in Nat /\ Len(events') \in Nat
        <4>1. events' \in Seq(EventType)'
          BY DEF TypeOK
        <4> QED BY <4>1, PositionTypes
      <3>2. events[e].parent # NoEvent =>
              /\ events[e].parent \in 1..Len(events)
              /\ events[events[e].parent].seq # NoPosition
              /\ events[events[e].parent].seq < events[e].seq
              /\ events[events[e].parent].depth = events[e].depth - 1
        BY <1>2, <2>1 DEF TreePointwise
      <3>3. /\ Len(events) <= Len(events')
            /\ \A p \in 1..Len(events) : /\ events'[p].seq = events[p].seq
                                         /\ events'[p].depth = events[p].depth
        BY DEF KeepsReal
      <3> QED BY <3>1, <3>2, <3>3
    <2>3. ASSUME NEW c \in 1..Len(events'), events'[c].seq # NoPosition
          PROVE  /\ c \in 1..Len(events) /\ events[c].seq # NoPosition
                 /\ events'[c].seq = events[c].seq
                 /\ events'[c].depth = events[c].depth
      BY <2>3 DEF KeepsReal
    <2> QED BY <1>2, <2>1, <2>2, <2>3 DEF TreePointwise
  <1> QED BY <1>1, <1>3, TreeIsPointwiseNext

(* A placeholder goes on top of the real events and has no position. *)
LEMMA PlaceholderPushPreserves ==
  ASSUME TypeOK, TypeOK', PositionFacts, Overflows, PushEffect(NoPosition),
         BaseDepth' = BaseDepth, BaseSequence' = BaseSequence,
         sequence' = sequence, depth' = depth
  PROVE  PositionFacts'
  <1> DEFINE n == Len(events) + 1  m == Len(stack) + 1
  <1>1. /\ Len(events') = n /\ Len(stack') = m /\ stack'[m] = n
        /\ events'[n].seq = NoPosition
        /\ \A e \in 1..Len(events) : events'[e] = events[e]
        /\ \A i \in 1..Len(stack) : stack'[i] = stack[i]
    BY DEF PushEffect
  <1>2. KeepsReal
    BY <1>1, PositionTypes DEF KeepsReal
  <1>3. OpenReal' = OpenReal /\ OpenReal \in 0..Len(stack) /\ Overflows'
    BY DEF OpenReal, StackShape, PositionFacts, Overflows
  <1>4. StackShape'
    <2>1. ASSUME NEW i \in 1..m
          PROVE  /\ i <= OpenReal =>
                      /\ events'[stack'[i]].seq # NoPosition
                      /\ events'[stack'[i]].depth = BaseDepth + i - 1
                 /\ i > OpenReal => events'[stack'[i]].seq = NoPosition
      <3>1. CASE i = m
        BY <3>1, <1>1, <1>3, PositionTypes
      <3>2. CASE i # m
        <4>1. /\ i \in 1..Len(stack) /\ stack'[i] = stack[i]
              /\ events'[stack[i]] = events[stack[i]]
          BY <3>2, <1>1, PositionTypes
        <4> QED BY <4>1 DEF StackShape, PositionFacts
      <3> QED BY <3>1, <3>2
    <2>2. ASSUME NEW i \in 1..m, NEW j \in 1..m, i < j
          PROVE  stack'[i] < stack'[j]
      <3>1. i \in 1..Len(stack) /\ stack'[i] = stack[i]
        BY <2>2, <1>1, PositionTypes
      <3>2. CASE j = m
        BY <3>1, <3>2, <1>1, PositionTypes
      <3>3. CASE j # m
        <4>1. j \in 1..Len(stack) /\ stack'[j] = stack[j]
          BY <3>3, <1>1, PositionTypes
        <4> QED BY <4>1, <3>1, <2>2 DEF StackShape, PositionFacts
      <3> QED BY <3>2, <3>3
    <2>3. OpenReal' \in 0..m /\ OpenReal' <= sequence' - BaseSequence
      BY <1>3, PositionTypes DEF StackShape, PositionFacts
    <2> QED BY <1>1, <1>3, <2>1, <2>2, <2>3 DEF StackShape
  <1>5. OpenScopes'
    <2> SUFFICES ASSUME NEW i \in 1..m, NEW f \in 1..n, i <= OpenReal,
                        stack'[i] < f, events'[f].seq # NoPosition
                 PROVE  events'[stack'[i]].depth < events'[f].depth
      BY <1>1, <1>3 DEF OpenScopes
    <2>1. /\ i \in 1..Len(stack) /\ stack'[i] = stack[i]
          /\ events'[stack[i]] = events[stack[i]]
      BY <1>1, <1>3, PositionTypes
    <2>2. f \in 1..Len(events) /\ events'[f] = events[f]
      BY <1>1, PositionTypes
    <2> QED BY <2>1, <2>2 DEF OpenScopes, PositionFacts
  <1> QED BY <1>2, <1>4, <1>5, KeepsRealPreserves DEF PositionFacts

(* Popping from slot i keeps the lower part of the stack as it was. *)
LEMMA UnwindPreserves ==
  ASSUME TypeOK, TypeOK', PositionFacts, sequence' = sequence,
         BaseDepth' = BaseDepth, BaseSequence' = BaseSequence,
         NEW i \in 1..(Len(stack) + 1), UnwindEffect(i)
  PROVE  PositionFacts'
  <1>1. KeepsReal
    BY PositionTypes DEF KeepsReal, UnwindEffect, SamePositions
  <1>2. /\ Len(stack') = i - 1 /\ Len(events') = Len(events)
        /\ \A j \in 1..(i - 1) :
             /\ j \in 1..Len(stack) /\ stack'[j] = stack[j]
             /\ events'[stack[j]].seq = events[stack[j]].seq
             /\ events'[stack[j]].depth = events[stack[j]].depth
    BY PositionTypes DEF UnwindEffect, SamePositions
  <1>3. /\ OpenReal' = IF i <= OpenReal THEN i - 1 ELSE OpenReal
        /\ OpenReal \in 0..Len(stack)
    <2>1. OpenReal \in 0..Len(stack)
      BY DEF StackShape, PositionFacts
    <2>2. depth' = IF i <= OpenReal THEN BaseDepth + i - 1 ELSE depth
      BY DEF UnwindEffect
    <2>3. BaseDepth \in Int /\ depth \in Int /\ i \in Int
      BY PositionTypes
    <2> QED BY <2>1, <2>2, <2>3 DEF OpenReal
  <1>4. StackShape'
    <2>1. OpenReal' \in 0..(i - 1) /\ OpenReal' <= sequence' - BaseSequence
      BY <1>3, PositionTypes DEF StackShape, PositionFacts
    <2>2. OpenReal' < i - 1 => Overflows'
      <3>1. OpenReal' < i - 1 =>
              /\ OpenReal < Len(stack)
              /\ depth' = depth
        BY <1>3, PositionTypes DEF UnwindEffect
      <3> QED BY <3>1 DEF StackShape, PositionFacts, Overflows
    <2>3. ASSUME NEW j \in 1..(i - 1)
          PROVE  /\ j <= OpenReal' =>
                      /\ events'[stack'[j]].seq # NoPosition
                      /\ events'[stack'[j]].depth = BaseDepth + j - 1
                 /\ j > OpenReal' => events'[stack'[j]].seq = NoPosition
      <3>1. (j <= OpenReal' <=> j <= OpenReal) /\ (j > OpenReal' <=> j > OpenReal)
        BY <1>3, PositionTypes
      <3>2. /\ j <= OpenReal => /\ events[stack[j]].seq # NoPosition
                                /\ events[stack[j]].depth = BaseDepth + j - 1
            /\ j > OpenReal => events[stack[j]].seq = NoPosition
        BY <1>2 DEF StackShape, PositionFacts
      <3>3. /\ events'[stack'[j]].seq = events[stack[j]].seq
            /\ events'[stack'[j]].depth = events[stack[j]].depth
        BY <1>2
      <3> QED BY <3>1, <3>2, <3>3
    <2>4. ASSUME NEW j \in 1..(i - 1), NEW k \in 1..(i - 1), j < k
          PROVE  stack'[j] < stack'[k]
      BY <2>4, <1>2 DEF StackShape, PositionFacts
    <2> QED BY <1>2, <2>1, <2>2, <2>3, <2>4 DEF StackShape
  <1>5. OpenScopes'
    <2> SUFFICES ASSUME NEW j \in 1..(i - 1), NEW f \in 1..Len(events),
                        j <= OpenReal', stack[j] < f, events'[f].seq # NoPosition
                 PROVE  events[stack[j]].depth < events'[f].depth
      BY <1>2 DEF OpenScopes
    <2>1. j <= OpenReal
      BY <1>3, PositionTypes
    <2>2. events'[f].seq = events[f].seq /\ events'[f].depth = events[f].depth
      BY DEF UnwindEffect, SamePositions
    <2> QED BY <2>1, <2>2, <1>2 DEF OpenScopes, PositionFacts
  <1> QED BY <1>1, <1>4, <1>5, KeepsRealPreserves DEF PositionFacts

(* A step that opens and closes nothing disturbs no position. *)
LEMMA SameScopesPreserve ==
  ASSUME TypeOK, TypeOK', PositionFacts, SamePositions,
         BaseDepth' = BaseDepth, BaseSequence' = BaseSequence,
         UNCHANGED <<stack, sequence, depth>>
  PROVE  PositionFacts'
  <1>1. UnwindEffect(Len(stack) + 1)
    BY PositionTypes DEF UnwindEffect, StackShape, PositionFacts
  <1>2. Len(stack) + 1 \in 1..(Len(stack) + 1)
    BY PositionTypes
  <1> QED BY <1>1, <1>2, UnwindPreserves

-----------------------------------------------------------------------------
(* Type correctness *)

(* Push keeps the types of what it extends. *)
LEMMA PushType ==
  ASSUME TypeOK, NEW seq \in {NoPosition} \cup (0..MaxSequence), Push(seq)
  PROVE  /\ events' \in Seq(EventType) /\ Len(events') <= MaxEvents
         /\ Len(events') = Len(events) + 1
         /\ stack' \in Seq(1..Len(events'))
         /\ injected' \in Seq(SpanIds \cup {NoId})
         /\ Len(injected') = Len(events')
  <1>1. NewEvent(seq) \in EventType
    <2>1. depth \in 1..(MaxDepth + 2)
      BY PositionTypes DEF TypeOK
    <2>2. Top \in 0..MaxEvents
      BY StackOfEvents, LimitsAssumption DEF TypeOK
    <2> QED BY <2>1, <2>2, LimitsAssumption DEF NewEvent, EventType, NoId
  <1>2. events' \in Seq(EventType) /\ Len(events') = Len(events) + 1
    BY <1>1 DEF Push, TypeOK
  <1>3. stack' \in Seq(1..Len(events'))
    <2>1. stack \in Seq(1..Len(events'))
      <3>1. 1..Len(events) \subseteq 1..Len(events')
        BY <1>2, PositionTypes
      <3> QED BY <3>1, SeqMonotonic DEF TypeOK
    <2>2. Len(events) + 1 \in 1..Len(events')
      BY <1>2, PositionTypes
    <2> QED BY <2>1, <2>2 DEF Push
  <1>4. /\ injected' \in Seq(SpanIds \cup {NoId})
        /\ Len(injected') = Len(injected) + 1
    BY DEF Push, TypeOK
  <1>5. Len(events') <= MaxEvents
    BY <1>2, PositionTypes, LimitsAssumption DEF Push
  <1> QED BY <1>2, <1>3, <1>4, <1>5 DEF TypeOK

(* The records made from popped events are records. *)
LEMMA RecordTypes ==
  ASSUME TypeOK, StackShape, NEW i \in 1..(Len(stack) + 1)
  PROVE  RecordsFrom(i) \subseteq RecordType
  <1> SUFFICES ASSUME NEW j \in RealFrom(i)
               PROVE  Record(stack[j]) \in RecordType
    BY DEF RecordsFrom
  <1>1. stack[j] \in 1..Len(events) /\ events[stack[j]].seq # NoPosition
    BY PositionTypes DEF RealFrom, Popped, IsPlaceholder
  <1>2. events[stack[j]] \in EventType
    BY <1>1, StackOfEvents
  <1> QED BY <1>1, <1>2 DEF Record, RecordType, EventType

(* A replay adds records, whatever native rejects. *)
LEMMA ReplayType ==
  ASSUME TypeOK, NEW recs \in SUBSET RecordType, Replay(recs)
  PROVE  batches' \in Seq(SUBSET RecordType) /\ lost' \subseteq RecordType
  <1>1. PICK bad \in SUBSET recs : /\ batches' = Append(batches, recs \ bad)
                                   /\ lost' = lost \cup bad
    BY DEF Replay
  <1>2. recs \ bad \in SUBSET RecordType
    OBVIOUS
  <1> QED BY <1>1, <1>2 DEF TypeOK

(* Unwind keeps the types of wrappers, stack and depth. *)
LEMMA UnwindType ==
  ASSUME TypeOK, StackShape, NEW i \in 1..(Len(stack) + 1), Unwind(i)
  PROVE  /\ events' \in Seq(EventType) /\ Len(events') = Len(events)
         /\ stack' \in Seq(1..Len(events'))
         /\ depth' \in BaseDepth..(MaxDepth + 2)
  <1>1. \A e \in 1..Len(events) : events[e] \in EventType
    BY StackOfEvents
  <1>2. \A e \in 1..Len(events) : [events[e] EXCEPT !.ended = TRUE] \in EventType
    BY <1>1 DEF EventType
  <1>3. Len(events) \in Nat
    BY PositionTypes
  <1>4. events' \in Seq(EventType) /\ Len(events') = Len(events)
    BY <1>1, <1>2, <1>3 DEF Unwind
  <1>5. stack' \in Seq(1..Len(events'))
    <2>1. \A j \in 1..(i - 1) : stack[j] \in 1..Len(events')
      BY <1>4, PositionTypes
    <2>2. stack' = SubSeq(stack, 1, i - 1) /\ i - 1 \in Int
      BY PositionTypes DEF Unwind
    <2> QED BY <2>1, <2>2, SubSeqProperties
  <1>6. depth' \in BaseDepth..(MaxDepth + 2)
    <2>1. depth' = IF i <= OpenReal THEN BaseDepth + i - 1 ELSE depth
      BY UnwindIsUnwindEffect DEF UnwindEffect
    <2>2. depth \in BaseDepth..(MaxDepth + 2)
      BY DEF TypeOK
    <2>3. BaseDepth \in Int /\ depth \in Int /\ MaxDepth \in Int /\ i \in Int
      BY PositionTypes, LimitsAssumption
    <2>4. 1 <= i
      BY PositionTypes
    <2> QED BY <2>1, <2>2, <2>3, <2>4 DEF OpenReal
  <1> QED BY <1>4, <1>5, <1>6

(* Stamping ids on an event changes no position. *)
LEMMA StampType ==
  ASSUME TypeOK, NEW e \in 1..Len(events), NEW v \in EventType,
         v.seq = events[e].seq, v.depth = events[e].depth,
         v.parent = events[e].parent, events' = [events EXCEPT ![e] = v]
  PROVE  /\ events' \in Seq(EventType) /\ Len(events') = Len(events)
         /\ SamePositions
  <1>1. events \in Seq(EventType)
    BY DEF TypeOK
  <1>2. /\ events' \in Seq(EventType) /\ Len(events') = Len(events)
        /\ \A j \in 1..Len(events) :
             events'[j] = IF j = e THEN v ELSE events[j]
    BY <1>1, ExceptSeq
  <1> QED BY <1>2 DEF SamePositions

-----------------------------------------------------------------------------
(* Every action preserves the invariant *)

(* Span.new_span_event within the limits. *)
LEMMA NewSpanEventPreserves ==
  ASSUME PositionInv, NewSpanEvent
  PROVE  PositionInv'
  <1> USE DEF PositionInv
  <1>0. asyncRoot' = asyncRoot
    BY DEF NewSpanEvent
  <1>a. BaseDepth' = BaseDepth /\ BaseSequence' = BaseSequence
    BY <1>0, SameKindSameBase
  <1>1. Push(sequence) /\ ~Overflows
    BY DEF NewSpanEvent
  <1>2. sequence \in 0..MaxSequence /\ depth + 1 \in BaseDepth..(MaxDepth + 2)
    BY <1>1, PositionTypes, LimitsAssumption DEF Overflows, TypeOK
  <1>3. TypeOK'
    <2>1. sequence' \in Nat /\ sequence' <= MaxSequence
      BY <1>1, <1>2, PositionTypes, LimitsAssumption DEF NewSpanEvent, Overflows
    <2>2. links' \subseteq (1..Len(events')) \X (1..MaxAsync) \X (1..MaxAsync)
      <3>1. Len(events') = Len(events) + 1
        BY <1>1, <1>2, PushType
      <3>2. /\ links' = links /\ Len(events) \in Nat
            /\ links \subseteq (1..Len(events)) \X (1..MaxAsync) \X (1..MaxAsync)
        BY PositionTypes DEF NewSpanEvent, TypeOK
      <3>3. 1..Len(events) \subseteq 1..Len(events')
        BY <3>1, <3>2
      <3> QED BY <3>2, <3>3
    <2> QED BY <1>0, <1>a, <1>1, <1>2, <2>1, <2>2, PushType
            DEF NewSpanEvent, TypeOK, verdictVars
  <1> QED BY <1>a, <1>1, <1>3, PushIsPushEffect, RealPushPreserves
          DEF NewSpanEvent, PositionFacts

(* Span.new_span_event past a limit. *)
LEMMA NewPlaceholderPreserves ==
  ASSUME PositionInv, NewPlaceholder
  PROVE  PositionInv'
  <1> USE DEF PositionInv
  <1>0. asyncRoot' = asyncRoot
    BY DEF NewPlaceholder
  <1>a. BaseDepth' = BaseDepth /\ BaseSequence' = BaseSequence
    BY <1>0, SameKindSameBase
  <1>1. Push(NoPosition) /\ Overflows
    BY DEF NewPlaceholder
  <1>2. TypeOK'
    <2>1. links' \subseteq (1..Len(events')) \X (1..MaxAsync) \X (1..MaxAsync)
      <3>1. links' = links /\ Len(events') = Len(events) + 1
        BY <1>1, PushType DEF NewPlaceholder
      <3>2. 1..Len(events) \subseteq 1..Len(events')
        BY <3>1, PositionTypes
      <3>3. links \subseteq (1..Len(events)) \X (1..MaxAsync) \X (1..MaxAsync)
        BY DEF TypeOK
      <3> QED BY <3>1, <3>2, <3>3
    <2> QED BY <1>0, <1>a, <1>1, <2>1, PushType DEF NewPlaceholder, TypeOK, verdictVars
  <1> QED BY <1>a, <1>1, <1>2, PushIsPushEffect, PlaceholderPushPreserves
          DEF NewPlaceholder, PositionFacts

(* SpanEvent.end, in whatever order it is called. *)
LEMMA EndEventPreserves ==
  ASSUME PositionInv, NEW e \in DOMAIN events, EndEvent(e)
  PROVE  PositionInv'
  <1> USE DEF PositionInv
  <1>0. asyncRoot' = asyncRoot
    BY DEF EndEvent
  <1>a. BaseDepth' = BaseDepth /\ BaseSequence' = BaseSequence
    BY <1>0, SameKindSameBase
  <1>1. CASE ~ended /\ e \in OpenEvents
    <2>1. PICK i \in DOMAIN stack :
            /\ Unwind(i)
            /\ FlushFinished(finished \cup RecordsFrom(i))
      BY <1>1 DEF EndEvent
    <2>2. i \in 1..(Len(stack) + 1)
      BY PositionTypes
    <2>3. finished \cup RecordsFrom(i) \in SUBSET RecordType
      BY <2>2, RecordTypes DEF TypeOK
    <2>4. /\ finished' \subseteq RecordType /\ lost' \subseteq RecordType
          /\ batches' \in Seq(SUBSET RecordType)
      BY <2>1, <2>3, ReplayType DEF FlushFinished, TypeOK
    <2>5. TypeOK'
      BY <1>0, <1>a, <2>1, <2>2, <2>4, UnwindType DEF EndEvent, TypeOK, verdictVars
    <2> QED BY <1>a, <2>1, <2>2, <2>5, UnwindIsUnwindEffect, UnwindPreserves
            DEF EndEvent, PositionFacts
  <1>2. CASE ~(~ended /\ e \in OpenEvents)
    <2>1. /\ events' = [events EXCEPT ![e] = [events[e] EXCEPT !.ended = TRUE]]
          /\ UNCHANGED <<stack, depth, finished, batches, lost, sequence>>
      BY <1>2 DEF EndEvent
    <2>2. e \in 1..Len(events) /\ events[e] \in EventType
      BY PositionTypes, StackOfEvents
    <2>3. /\ [events[e] EXCEPT !.ended = TRUE] \in EventType
          /\ [events[e] EXCEPT !.ended = TRUE].seq = events[e].seq
          /\ [events[e] EXCEPT !.ended = TRUE].depth = events[e].depth
          /\ [events[e] EXCEPT !.ended = TRUE].parent = events[e].parent
      BY <2>2 DEF EventType
    <2>4. /\ events' \in Seq(EventType) /\ Len(events') = Len(events)
          /\ SamePositions
      BY <2>1, <2>2, <2>3, StampType
    <2>5. TypeOK'
      BY <1>0, <1>a, <2>1, <2>4 DEF EndEvent, TypeOK, verdictVars
    <2> QED BY <1>a, <2>1, <2>4, <2>5, SameScopesPreserve DEF PositionFacts
  <1> QED BY <1>1, <1>2

(* Span.end, with scopes left open. *)
LEMMA EndPreserves ==
  ASSUME PositionInv, End
  PROVE  PositionInv'
  <1> USE DEF PositionInv
  <1>0. asyncRoot' = asyncRoot
    BY DEF End
  <1>a. BaseDepth' = BaseDepth /\ BaseSequence' = BaseSequence
    BY <1>0, SameKindSameBase
  <1>1. 1 \in 1..(Len(stack) + 1) /\ Unwind(1)
    BY PositionTypes DEF End
  <1>2. finished \cup RecordsFrom(1) \in SUBSET RecordType
    BY <1>1, RecordTypes DEF TypeOK
  <1>3. batches' \in Seq(SUBSET RecordType) /\ lost' \subseteq RecordType
    <2>1. Replay(finished \cup RecordsFrom(1))
      BY DEF End
    <2> QED BY <1>2, <2>1, ReplayType
  <1>4. TypeOK'
    <2>1. /\ events' \in Seq(EventType) /\ Len(events') = Len(events)
          /\ stack' \in Seq(1..Len(events'))
          /\ depth' \in BaseDepth..(MaxDepth + 2)
      BY <1>1, UnwindType
    <2>2. /\ finished' = {} /\ ended' = TRUE /\ verdicts' = {}
          /\ UNCHANGED <<sequence, links, asyncIds, injected, raised, unfit>>
      BY DEF End
    <2>3. marked' \subseteq 1..raised /\ sealed' \in {NotSealed} \cup Nat
      BY <2>2 DEF End, Mark, TypeOK
    <2> QED BY <1>0, <1>a, <1>3, <2>1, <2>2, <2>3 DEF TypeOK
  <1>5. UnwindEffect(1)
    BY <1>1, UnwindIsUnwindEffect
  <1>6. PositionFacts'
    <2>1. sequence' = sequence
      BY DEF End
    <2>2. PositionFacts
      BY DEF PositionFacts
    <2> QED BY <1>a, <2>1, <2>2, <1>1, <1>4, <1>5, UnwindPreserves
  <1> QED BY <1>4, <1>6 DEF PositionFacts

(* Span.inject_context_items. *)
LEMMA InjectPreserves ==
  ASSUME PositionInv, Inject
  PROVE  PositionInv'
  <1> USE DEF PositionInv
  <1>0. asyncRoot' = asyncRoot
    BY DEF Inject
  <1>a. BaseDepth' = BaseDepth /\ BaseSequence' = BaseSequence
    BY <1>0, SameKindSameBase
  <1>1. PICK id \in SpanIds :
          /\ events' = [events EXCEPT ![Top] = [events[Top] EXCEPT !.next = id]]
          /\ injected' = [injected EXCEPT ![Top] = id]
    BY DEF Inject
  <1>2. Top \in 1..Len(events) /\ events[Top] \in EventType
    <2>1. Len(stack) \in 1..Len(stack) /\ Top = stack[Len(stack)]
      BY PositionTypes DEF Inject, Top, TypeOK
    <2> QED BY <2>1, StackOfEvents
  <1>3. /\ [events[Top] EXCEPT !.next = id] \in EventType
        /\ [events[Top] EXCEPT !.next = id].seq = events[Top].seq
        /\ [events[Top] EXCEPT !.next = id].depth = events[Top].depth
        /\ [events[Top] EXCEPT !.next = id].parent = events[Top].parent
    BY <1>2 DEF EventType
  <1>4. /\ events' \in Seq(EventType) /\ Len(events') = Len(events)
        /\ SamePositions
    BY <1>1, <1>2, <1>3, StampType
  <1>5. injected' \in Seq(SpanIds \cup {NoId}) /\ Len(injected') = Len(injected)
    BY <1>1, <1>2, ExceptSeq DEF TypeOK
  <1>6. TypeOK'
    BY <1>0, <1>a, <1>4, <1>5 DEF Inject, TypeOK, verdictVars
  <1> QED BY <1>a, <1>4, <1>6, SameScopesPreserve DEF Inject, PositionFacts

(* Span.new_async_span, its native failure included. *)
LEMMA NewAsyncSpanPreserves ==
  ASSUME PositionInv, NewAsyncSpan
  PROVE  PositionInv'
  <1> USE DEF PositionInv
  <1>0. asyncRoot' = asyncRoot
    BY DEF NewAsyncSpan
  <1>a. BaseDepth' = BaseDepth /\ BaseSequence' = BaseSequence
    BY <1>0, SameKindSameBase
  <1> DEFINE fresh == events[Top].asyncId = NoId
             id    == IF fresh THEN asyncIds + 1 ELSE events[Top].asyncId
             seq   == events[Top].asyncSeq + 1
             v     == [events[Top] EXCEPT !.asyncId = id, !.asyncSeq = seq]
  <1>1. /\ events' = [events EXCEPT ![Top] = v]
        /\ asyncIds' = IF fresh THEN asyncIds + 1 ELSE asyncIds
        /\ seq <= MaxAsync
        /\ links' \subseteq links \cup {<<Top, id, seq>>}
        /\ asyncIds < MaxAsync \/ ~fresh
    BY DEF NewAsyncSpan
  <1>2. Top \in 1..Len(events) /\ events[Top] \in EventType
    <2>1. Len(stack) \in 1..Len(stack) /\ Top = stack[Len(stack)]
      BY PositionTypes DEF NewAsyncSpan, CanLink, Top, TypeOK
    <2> QED BY <2>1, StackOfEvents
  <1>3. asyncIds \in 0..MaxAsync /\ events[Top].asyncSeq \in 0..MaxAsync
          /\ events[Top].asyncId \in 0..MaxAsync
    BY <1>2 DEF TypeOK, EventType
  <1>4. id \in 1..MaxAsync /\ seq \in 1..MaxAsync /\ asyncIds' \in 0..MaxAsync
    BY <1>1, <1>3, LimitsAssumption DEF NoId
  <1>5. /\ v \in EventType /\ v.seq = events[Top].seq
        /\ v.depth = events[Top].depth /\ v.parent = events[Top].parent
    <2> HIDE DEF id, seq
    <2>1. /\ id \in 0..MaxAsync /\ seq \in 0..MaxAsync
      BY <1>4
    <2> QED BY <1>2, <2>1 DEF EventType
  <1>6. /\ events' \in Seq(EventType) /\ Len(events') = Len(events)
        /\ SamePositions
    <2> HIDE DEF v
    <2> QED BY <1>1, <1>2, <1>5, StampType
  <1>7. links' \subseteq (1..Len(events')) \X (1..MaxAsync) \X (1..MaxAsync)
    <2> HIDE DEF id, seq
    <2> QED BY <1>1, <1>2, <1>4, <1>6 DEF TypeOK
  <1>8. TypeOK'
    BY <1>0, <1>a, <1>4, <1>6, <1>7 DEF NewAsyncSpan, TypeOK, verdictVars
  <1> QED BY <1>a, <1>6, <1>8, SameScopesPreserve DEF NewAsyncSpan, PositionFacts

VerdictTyped ==
  /\ raised \in Nat /\ sealed \in {NotSealed} \cup Nat
  /\ verdicts \subseteq 1..raised /\ unfit \subseteq 1..raised
  /\ marked \subseteq 1..raised

(* An error that is accepted is numbered next, wherever it goes. *)
LEMMA SetErrorTyped ==
  ASSUME VerdictTyped, NEW e, SetErrorOnPlaceholder(e)
  PROVE  VerdictTyped'
  <1>1. raised \in Nat /\ raised' = raised + 1 /\ sealed' = sealed
    BY DEF SetErrorOnPlaceholder, VerdictTyped
  <1>2. 1..raised \subseteq 1..raised' /\ raised' \in 1..raised'
    BY <1>1
  <1>3. unfit' \subseteq 1..raised' /\ verdicts' \subseteq 1..raised'
    BY <1>2 DEF SetErrorOnPlaceholder, VerdictTyped
  <1>4. marked' \subseteq 1..raised'
    BY <1>2 DEF SetErrorOnPlaceholder, VerdictTyped, Mark
  <1> QED BY <1>1, <1>3, <1>4 DEF VerdictTyped

(* A step that touches neither the stack nor the wrappers. *)
LEMMA VerdictStepPreserves ==
  ASSUME PositionInv,
         UNCHANGED <<asyncRoot, events, stack, sequence, depth, finished, ended,
                     batches, lost, links, asyncIds, injected>>,
         VerdictTyped'
  PROVE  PositionInv'
  <1> USE DEF PositionInv
  <1>a. BaseDepth' = BaseDepth /\ BaseSequence' = BaseSequence
    BY SameKindSameBase
  <1>1. TypeOK'
    BY <1>a DEF TypeOK, VerdictTyped
  <1>2. SamePositions
    BY DEF SamePositions
  <1> QED BY <1>a, <1>1, <1>2, SameScopesPreserve DEF PositionFacts

(* The invariant is inductive: one case per action. *)
LEMMA PositionInvInductive ==
  PositionInv /\ [Next]_vars => PositionInv'
  <1> SUFFICES ASSUME PositionInv, [Next]_vars PROVE PositionInv'
    OBVIOUS
  <1>1. CASE NewSpanEvent
    BY <1>1, NewSpanEventPreserves
  <1>2. CASE NewPlaceholder
    BY <1>2, NewPlaceholderPreserves
  <1>3. ASSUME NEW e \in DOMAIN events, EndEvent(e) PROVE PositionInv'
    BY <1>3, EndEventPreserves
  <1>4. ASSUME NEW e \in DOMAIN events, SetErrorOnPlaceholder(e)
        PROVE  PositionInv'
    <2>1. VerdictTyped'
      BY <1>4, SetErrorTyped DEF PositionInv, TypeOK, VerdictTyped
    <2> QED BY <1>4, <2>1, VerdictStepPreserves DEF SetErrorOnPlaceholder
  <1>5. CASE End
    BY <1>5, EndPreserves
  <1>6. CASE Inject
    BY <1>6, InjectPreserves
  <1>7. CASE NewAsyncSpan
    BY <1>7, NewAsyncSpanPreserves
  <1>8. CASE UNCHANGED vars
    <2>1. VerdictTyped'
      BY <1>8 DEF vars, verdictVars, PositionInv, TypeOK, VerdictTyped
    <2> QED BY <1>8, <2>1, VerdictStepPreserves DEF vars
  <1>9. CASE RootEnds
    <2>1. VerdictTyped'
      BY <1>9 DEF RootEnds, PositionInv, TypeOK, VerdictTyped
    <2> QED BY <1>9, <2>1, VerdictStepPreserves DEF RootEnds
  <1> QED BY <1>1, <1>2, <1>3, <1>4, <1>5, <1>6, <1>7, <1>8, <1>9 DEF Next

(* A new span, root or async child, satisfies the invariant. *)
LEMMA PositionInvInitially ==
  Init => PositionInv
  <1> SUFFICES ASSUME Init PROVE PositionInv
    OBVIOUS
  <1>1. BaseDepth \in 1..2 /\ BaseSequence \in 0..1
    BY LimitsAssumption DEF BaseDepth, BaseSequence
  <1>2. TypeOK
    <2>1. /\ events \in Seq(EventType) /\ Len(events) = 0 /\ 0 <= MaxEvents
          /\ stack \in Seq(1..Len(events)) /\ batches \in Seq(SUBSET RecordType)
          /\ injected \in Seq(SpanIds \cup {NoId}) /\ Len(injected) = 0
      <3>1. events = <<>> /\ stack = <<>> /\ batches = <<>> /\ injected = <<>>
        BY DEF Init
      <3>2. ASSUME NEW S PROVE <<>> \in Seq(S) /\ Len(<<>>) = 0
        BY EmptySeq
      <3>3. events \in Seq(EventType) /\ Len(events) = 0
        BY <3>1, <3>2
      <3>4. stack \in Seq(1..Len(events))
        BY <3>1, <3>2
      <3>5. batches \in Seq(SUBSET RecordType)
        BY <3>1, <3>2
      <3>6. injected \in Seq(SpanIds \cup {NoId}) /\ Len(injected) = 0
        BY <3>1, <3>2
      <3> QED BY <3>3, <3>4, <3>5, <3>6, LimitsAssumption
    <2>2. /\ sequence = BaseSequence /\ depth = BaseDepth
          /\ finished = {} /\ lost = {} /\ links = {} /\ ended = FALSE
          /\ verdicts = {} /\ raised = 0 /\ unfit = {} /\ marked = {}
          /\ sealed = NotSealed /\ asyncRoot \in BOOLEAN /\ asyncIds = 0
      BY DEF Init
    <2>3. depth \in BaseDepth..(MaxDepth + 2) /\ asyncIds \in 0..MaxAsync
      BY <1>1, <2>2, LimitsAssumption
    <2>4. /\ sequence \in Nat /\ sequence = BaseSequence
          /\ verdicts \subseteq 1..raised /\ unfit \subseteq 1..raised
          /\ marked \subseteq 1..raised /\ raised \in Nat
          /\ sealed \in {NotSealed} \cup Nat /\ asyncRoot \in BOOLEAN
      BY <1>1, <2>2
    <2>5. /\ finished \subseteq RecordType /\ lost \subseteq RecordType
          /\ links \subseteq (1..Len(events)) \X (1..MaxAsync) \X (1..MaxAsync)
          /\ ended \in BOOLEAN
      BY <2>2
    <2>6. Len(events) <= MaxEvents /\ Len(injected) = Len(events)
      BY <2>1
    <2> QED BY <2>1, <2>3, <2>4, <2>5, <2>6 DEF TypeOK
  <1>3. StackShape /\ SequenceOrder /\ OpenScopes /\ TreePointwise
    BY <1>1, PositionTypes, <1>2
    DEF Init, StackShape, SequenceOrder, OpenScopes, OpenReal, TreePointwise
  <1> QED BY <1>2, <1>3, TreeIsPointwise DEF PositionInv

-----------------------------------------------------------------------------
(* What holds of every span *)

(* Positions are sound in every reachable state, for every limit: the open *)
(* real events are a prefix of the stack, one per level, numbered in order. *)
THEOREM PositionsAreSound == Spec => []PositionInv
  BY PositionInvInitially, PositionInvInductive, PTL DEF Spec

(* Types hold in every reachable state: no depth or sequence of an event   *)
(* ever passes the limits the native agent resolved.                       *)
THEOREM TypeCorrect == Spec => []TypeOK
  <1>1. PositionInv => TypeOK
    BY DEF PositionInv
  <1> QED BY <1>1, PositionsAreSound, PTL

(* The tree a collector rebuilds from (sequence, depth) is the tree of     *)
(* scopes the program opened, in whatever order it ended them.             *)
THEOREM TreeIsReconstructible == Spec => []TreeReconstructible
  <1>1. PositionInv => TreeReconstructible
    BY DEF PositionInv
  <1> QED BY <1>1, PositionsAreSound, PTL

(* With a depth limit of at least one level, the stack cap is only reached *)
(* with a placeholder on the stack to hand out.                            *)
THEOREM CapAlwaysHasPlaceholder ==
  ASSUME MaxDepth >= 1
  PROVE  Spec => []CapHasPlaceholder
  <1>1. PositionInv => CapHasPlaceholder
    <2> SUFFICES ASSUME PositionInv, Len(stack) >= StackCap
                 PROVE  \E e \in OpenEvents : IsPlaceholder(e)
      BY DEF CapHasPlaceholder
    <2> USE DEF PositionInv
    <2>1. OpenReal < Len(stack)
      BY PositionTypes, LimitsAssumption
      DEF StackShape, StackCap, TypeOK, BaseSequence
    <2>2. Len(stack) \in DOMAIN stack /\ IsPlaceholder(stack[Len(stack)])
      BY <2>1, PositionTypes DEF StackShape, IsPlaceholder
    <2> QED BY <2>2 DEF OpenEvents
  <1> QED BY <1>1, PositionsAreSound, PTL

(* Ending a (shared) placeholder never finishes a real event. *)
THEOREM PlaceholdersEndNoRealEvent == Spec => PlaceholderEndsNoRealEvent
  <1>1. PositionInv /\ [Next]_vars =>
          [LET k == Len(stack') + 1
           IN  k <= Len(stack) /\ IsPlaceholder(stack[k]) => depth' = depth]_vars
    <2> SUFFICES ASSUME PositionInv, Next, Len(stack') + 1 <= Len(stack),
                        IsPlaceholder(stack[Len(stack') + 1])
                 PROVE  depth' = depth
      OBVIOUS
    <2> USE DEF PositionInv
    <2>1. ASSUME NEW i \in 1..(Len(stack) + 1), Unwind(i)
          PROVE  depth' = depth
      <3>1. UnwindEffect(i)
        BY <2>1, UnwindIsUnwindEffect
      <3>2. i = Len(stack') + 1 /\ i \in 1..Len(stack)
        BY <3>1, PositionTypes DEF UnwindEffect
      <3>3. ~(i <= OpenReal)
        BY <3>2 DEF StackShape, IsPlaceholder
      <3> QED BY <3>1, <3>3 DEF UnwindEffect
    <2>2. CASE End
      BY <2>1, <2>2, PositionTypes DEF End
    <2>3. ASSUME NEW e \in DOMAIN events, EndEvent(e)
          PROVE  depth' = depth
      <3>1. CASE \E i \in DOMAIN stack : Unwind(i)
        <4>1. PICK i \in 1..Len(stack) : Unwind(i)
          BY <3>1, PositionTypes
        <4>2. i \in 1..(Len(stack) + 1)
          BY PositionTypes
        <4> QED BY <4>1, <4>2, <2>1
      <3>2. CASE depth' = depth
        BY <3>2
      <3> QED BY <2>3, <3>1, <3>2 DEF EndEvent
    <2>4. CASE NewSpanEvent \/ NewPlaceholder
      BY <2>4, PositionTypes, PushIsPushEffect, LimitsAssumption
      DEF NewSpanEvent, NewPlaceholder, PushEffect
    <2> QED BY <2>2, <2>3, <2>4
            DEF Next, Inject, NewAsyncSpan, SetErrorOnPlaceholder, RootEnds
  <1> QED BY <1>1, PositionsAreSound, PTL DEF Spec, PlaceholderEndsNoRealEvent

(* Where the verdicts are while the root is open: in a root span's batch,  *)
(* on the root, or native failed on them.  An async child has no batch, so *)
(* its root may end at any moment.                                         *)
VerdictInv ==
  /\ VerdictTyped /\ IsFiniteSet(verdicts)
  /\ VerdictsReachRoot
  /\ asyncRoot => verdicts = {}
  /\ ~asyncRoot /\ ~ended => sealed = NotSealed
  /\ sealed = NotSealed /\ (asyncRoot \/ ~ended)
       => 1..raised \subseteq verdicts \cup marked \cup unfit

LEMMA SetErrorKeepsVerdicts ==
  ASSUME VerdictInv, NEW e, SetErrorOnPlaceholder(e)
  PROVE  VerdictInv'
  <1>1. /\ raised \in Nat /\ raised' = raised + 1 /\ ~ended /\ ~ended'
        /\ UNCHANGED <<asyncRoot, sealed>>
        /\ unfit \subseteq unfit' /\ unfit' \subseteq unfit \cup {raised'}
    BY DEF SetErrorOnPlaceholder, VerdictInv, VerdictTyped
  <1>2. /\ 1..raised' = (1..raised) \cup {raised'} /\ raised' \notin 1..raised
    BY <1>1
  <1>3. verdicts \subseteq 1..raised /\ marked \subseteq 1..raised
    BY DEF VerdictInv, VerdictTyped
  <1>4. VerdictTyped'
    BY SetErrorTyped DEF VerdictInv
  <1>5. sealed \in Nat /\ sealed # NotSealed => 1..sealed \subseteq marked' \cup unfit'
    BY <1>1 DEF SetErrorOnPlaceholder, Mark, VerdictInv, VerdictsReachRoot
  <1>6. CASE CrossesNow
    <2>1. verdicts' = verdicts
          /\ marked' = IF sealed = NotSealed THEN marked \cup ({raised'} \ unfit')
                       ELSE marked
      BY <1>6 DEF SetErrorOnPlaceholder, Mark
    <2>2. verdicts' \cap marked' = {}
      BY <1>2, <1>3, <2>1 DEF VerdictInv, VerdictsReachRoot
    <2>3. sealed = NotSealed => 1..raised' \subseteq verdicts' \cup marked' \cup unfit'
      BY <1>1, <1>2, <2>1 DEF VerdictInv
    <2> QED BY <1>1, <1>4, <1>5, <2>1, <2>2, <2>3 DEF VerdictInv, VerdictsReachRoot,
               VerdictTyped
  <1>7. CASE ~CrossesNow
    <2>1. verdicts' = verdicts \cup {raised'} /\ marked' = marked
      BY <1>7 DEF SetErrorOnPlaceholder
    <2>2. ~asyncRoot /\ Cardinality(verdicts) < MaxVerdicts
      <3>1. Cardinality(verdicts) \in Nat
        BY FS_CardinalityType DEF VerdictInv
      <3> QED BY <1>7, <3>1, LimitsAssumption DEF CrossesNow
    <2>3. IsFiniteSet(verdicts') /\ Cardinality(verdicts') <= MaxVerdicts
      <3>1. raised' \notin verdicts
        BY <1>2, <1>3
      <3>2. /\ IsFiniteSet(verdicts')
            /\ Cardinality(verdicts') = Cardinality(verdicts) + 1
        BY <2>1, <3>1, FS_AddElement DEF VerdictInv
      <3>3. Cardinality(verdicts) \in Nat
        BY FS_CardinalityType DEF VerdictInv
      <3> QED BY <2>2, <3>2, <3>3, LimitsAssumption
    <2>4. verdicts' \cap marked' = {}
      BY <1>2, <1>3, <2>1 DEF VerdictInv, VerdictsReachRoot
    <2>5. 1..raised' \subseteq verdicts' \cup marked' \cup unfit'
      BY <1>1, <1>2, <2>1, <2>2 DEF VerdictInv
    <2> QED BY <1>1, <1>4, <1>5, <2>1, <2>2, <2>3, <2>4, <2>5
            DEF VerdictInv, VerdictsReachRoot, VerdictTyped
  <1> QED BY <1>6, <1>7

LEMMA EndKeepsVerdicts ==
  ASSUME VerdictInv, End
  PROVE  VerdictInv'
  <1>1. /\ ~ended /\ ended' = TRUE /\ verdicts' = {}
        /\ UNCHANGED <<asyncRoot, raised, unfit>>
    BY DEF End
  <1>2. /\ IsFiniteSet({}) /\ Cardinality({}) = 0
        /\ verdicts \subseteq 1..raised /\ marked \subseteq 1..raised
        /\ raised \in Nat /\ NotSealed \notin Nat
    BY FS_EmptySet DEF VerdictInv, VerdictTyped, NotSealed
  <1>3. CASE Mark(verdicts) /\ sealed' = IF asyncRoot THEN sealed ELSE raised
    <2>1. VerdictTyped'
      BY <1>1, <1>2, <1>3 DEF VerdictInv, VerdictTyped, Mark
    <2>2. CASE asyncRoot
      <3>1. sealed' = sealed /\ verdicts = {} /\ marked' = marked
        BY <1>3, <2>2 DEF VerdictInv, Mark
      <3> QED BY <1>1, <1>2, <2>1, <2>2, <3>1, LimitsAssumption
              DEF VerdictInv, VerdictsReachRoot
    <2>3. CASE ~asyncRoot
      <3>1. sealed = NotSealed /\ sealed' = raised
        BY <1>1, <1>3, <2>3 DEF VerdictInv
      <3>2. marked' = marked \cup (verdicts \ unfit)
        BY <1>1, <1>3, <3>1 DEF Mark
      <3>3. 1..raised \subseteq verdicts \cup marked \cup unfit
        BY <1>1, <3>1 DEF VerdictInv
      <3>4. 1..sealed' \subseteq marked' \cup unfit'
        BY <1>1, <3>1, <3>2, <3>3
      <3> QED BY <1>1, <1>2, <2>1, <2>3, <3>1, <3>4, LimitsAssumption
              DEF VerdictInv, VerdictsReachRoot
    <2> QED BY <2>2, <2>3
  <1>4. CASE UNCHANGED <<marked, sealed>>
    <2>1. VerdictTyped'
      BY <1>1, <1>2, <1>4 DEF VerdictInv, VerdictTyped
    <2> QED BY <1>1, <1>2, <1>4, <2>1, LimitsAssumption DEF VerdictInv, VerdictsReachRoot
  <1> QED BY <1>3, <1>4 DEF End

LEMMA RootEndsKeepsVerdicts ==
  ASSUME VerdictInv, RootEnds
  PROVE  VerdictInv'
  <1>1. /\ asyncRoot /\ sealed = NotSealed /\ sealed' = raised /\ raised \in Nat
        /\ UNCHANGED <<asyncRoot, ended, verdicts, raised, unfit, marked>>
    BY DEF RootEnds, VerdictInv, VerdictTyped
  <1>2. verdicts = {} /\ NotSealed \notin Nat
    BY <1>1 DEF VerdictInv, NotSealed
  <1>3. 1..sealed' \subseteq marked \cup unfit
    BY <1>1, <1>2 DEF VerdictInv
  <1>4. VerdictTyped'
    BY <1>1 DEF VerdictInv, VerdictTyped
  <1> QED BY <1>1, <1>2, <1>3, <1>4 DEF VerdictInv, VerdictsReachRoot

(* Every overflow error accepted before the transaction's root was ended   *)
(* has marked it, unless native failed on that one: for a root span and    *)
(* for an async child that outlives its root or not, for every cap.        *)
THEOREM VerdictsReachTheRoot == Spec => []VerdictsReachRoot
  <1>1. Init => VerdictInv
    <2> SUFFICES ASSUME Init PROVE VerdictInv
      OBVIOUS
    <2>1. /\ verdicts = {} /\ unfit = {} /\ marked = {} /\ raised = 0
          /\ sealed = NotSealed
      BY DEF Init
    <2>2. IsFiniteSet({}) /\ Cardinality({}) = 0 /\ 1..0 = {}
      BY FS_EmptySet
    <2> QED BY <2>1, <2>2, LimitsAssumption DEF VerdictInv, VerdictTyped,
               VerdictsReachRoot
  <1>2. VerdictInv /\ [Next]_vars => VerdictInv'
    <2> SUFFICES ASSUME VerdictInv, [Next]_vars PROVE VerdictInv'
      OBVIOUS
    <2>1. CASE End
      BY <2>1, EndKeepsVerdicts
    <2>2. ASSUME NEW e \in DOMAIN events, SetErrorOnPlaceholder(e)
          PROVE  VerdictInv'
      BY <2>2, SetErrorKeepsVerdicts
    <2>3. CASE RootEnds
      BY <2>3, RootEndsKeepsVerdicts
    <2>4. CASE UNCHANGED <<asyncRoot, ended, verdictVars>>
      BY <2>4 DEF verdictVars, VerdictInv, VerdictTyped, VerdictsReachRoot
    <2> QED BY <2>1, <2>2, <2>3, <2>4
            DEF Next, NewSpanEvent, NewPlaceholder, EndEvent, Inject,
                NewAsyncSpan, vars
  <1>3. VerdictInv => VerdictsReachRoot
    BY DEF VerdictInv
  <1> QED BY <1>1, <1>2, <1>3, PTL DEF Spec

-----------------------------------------------------------------------------
(* Where the record of an event is *)

(* Event e is at place g: in a batch, on the stack, in the buffer, lost.   *)
At(g, e) == \/ g \in 1..Len(batches) /\ Holds(batches[g], e)
            \/ g = 0 /\ e \in OpenEvents
            \/ g = -1 /\ Holds(finished, e)
            \/ g = -2 /\ Holds(lost, e)

Places == (-2)..Len(batches)

Numbered(e) == e \in 1..Len(events) /\ events[e].seq # NoPosition

PlacedOnce ==
  \A e \in 1..Len(events) : Numbered(e) =>
    \E h \in Places : \A g \in Places : At(g, e) <=> g = h

(* A record is that of an event as it is now: nothing is stamped on an     *)
(* event once it left the stack.                                           *)
RecordsOfEvents ==
  \A r \in AllRecords : \E e \in 1..Len(events) : Numbered(e) /\ r = Record(e)

(* An async id is one event's, and was issued.                             *)
Stamps ==
  /\ \A e \in 1..Len(events) :
       /\ injected[e] = events[e].next
       /\ events[e].asyncId # NoId =>
            /\ events[e].seq # NoPosition
            /\ events[e].asyncId <= asyncIds
  /\ \A e, f \in 1..Len(events) :
       events[e].asyncId # NoId /\ events[e].asyncId = events[f].asyncId => e = f
  /\ \A l \in links : events[l[1]].asyncId = l[2]

Drained == ended => stack = <<>> /\ finished = {}

RecordInv == PlacedOnce /\ RecordsOfEvents /\ Stamps /\ Drained

-----------------------------------------------------------------------------
(* Types of what a step may leave alone. *)
LEMMA RecordFacts ==
  ASSUME PositionInv
  PROVE  /\ Len(batches) \in Nat /\ DOMAIN batches = 1..Len(batches)
         /\ asyncIds \in Nat
         /\ \A l \in links : l[1] \in 1..Len(events) /\ l[2] # NoId
  <1>1. batches \in Seq(SUBSET RecordType) /\ asyncIds \in 0..MaxAsync
    BY DEF PositionInv, TypeOK
  <1>2. links \subseteq (1..Len(events)) \X (1..MaxAsync) \X (1..MaxAsync)
    BY DEF PositionInv, TypeOK
  <1>3. \A l \in links : l[1] \in 1..Len(events) /\ l[2] \in 1..MaxAsync
    BY <1>2
  <1>4. Len(batches) \in Nat /\ DOMAIN batches = 1..Len(batches)
    BY <1>1
  <1> QED BY <1>1, <1>3, <1>4 DEF NoId

(* A sequence names one event, and a record's sequence names its event.    *)
LEMMA SequenceNamesEvent ==
  ASSUME PositionInv, NEW e, NEW f, Numbered(e), Numbered(f),
         events[e].seq = events[f].seq
  PROVE  e = f
  <1>1. e \in 1..Len(events) /\ f \in 1..Len(events) /\ Len(events) \in Nat
    BY PositionTypes DEF PositionInv, Numbered
  <1>2. events[e].seq \in Int
    BY <1>1, PositionTypes DEF PositionInv
  <1>3. ~(e < f) /\ ~(f < e)
    BY <1>1, <1>2 DEF PositionInv, SequenceOrder, Numbered
  <1> QED BY <1>1, <1>3

LEMMA SequenceNamesRecord ==
  ASSUME PositionInv, RecordsOfEvents, NEW e, Numbered(e), NEW r \in AllRecords,
         r.seq = events[e].seq
  PROVE  r = Record(e)
  <1>1. PICK f \in 1..Len(events) : Numbered(f) /\ r = Record(f)
    BY DEF RecordsOfEvents
  <1>2. r.seq = events[f].seq
    BY <1>1 DEF Record
  <1> QED BY <1>1, <1>2, SequenceNamesEvent

(* The records of what is popped from slot i. *)
LEMMA RecordsOfPopped ==
  ASSUME PositionInv, NEW i \in 1..(Len(stack) + 1)
  PROVE  /\ \A r \in RecordsFrom(i) : \E j \in i..Len(stack) :
              Numbered(stack[j]) /\ r = Record(stack[j])
         /\ \A j \in i..Len(stack) :
              Numbered(stack[j]) => Record(stack[j]) \in RecordsFrom(i)
  <1>1. \A j \in i..Len(stack) : stack[j] \in 1..Len(events)
    BY PositionTypes DEF PositionInv
  <1>2. RealFrom(i) = {j \in i..Len(stack) : Numbered(stack[j])}
    BY <1>1 DEF RealFrom, Popped, IsPlaceholder, Numbered
  <1> QED BY <1>2 DEF RecordsFrom

(* What a step pops moves from the stack to the buffer: of each event and  *)
(* of each record there.                                                   *)
LEMMA PoppedRecords ==
  ASSUME PositionInv, RecordInv, NEW i \in 1..(Len(stack) + 1),
         NEW e, Numbered(e)
  PROVE  /\ Holds(finished \cup RecordsFrom(i), e)
              <=> Holds(finished, e) \/ \E j \in i..Len(stack) : stack[j] = e
         /\ \A r \in finished \cup RecordsFrom(i) :
              r.seq = events[e].seq => r = Record(e)
  <1>1. ASSUME NEW r \in RecordsFrom(i), r.seq = events[e].seq
        PROVE  r = Record(e) /\ \E j \in i..Len(stack) : stack[j] = e
    <2>1. PICK j \in i..Len(stack) : Numbered(stack[j]) /\ r = Record(stack[j])
      BY <1>1, RecordsOfPopped
    <2>2. events[stack[j]].seq = events[e].seq
      BY <1>1, <2>1 DEF Record
    <2>3. stack[j] = e
      BY <2>1, <2>2, SequenceNamesEvent
    <2> QED BY <2>1, <2>3
  <1>2. ASSUME NEW r \in finished, r.seq = events[e].seq
        PROVE  r = Record(e)
    BY <1>2, SequenceNamesRecord DEF AllRecords, RecordInv
  <1>3. ASSUME NEW j \in i..Len(stack), stack[j] = e
        PROVE  Record(e) \in RecordsFrom(i) /\ Record(e).seq = events[e].seq
    <2>1. Record(e) \in RecordsFrom(i)
      BY <1>3, RecordsOfPopped
    <2> QED BY <2>1 DEF Record
  <1>4. Holds(finished \cup RecordsFrom(i), e)
          <=> Holds(finished, e) \/ \E j \in i..Len(stack) : stack[j] = e
    BY <1>1, <1>3 DEF Holds
  <1> QED BY <1>1, <1>2, <1>4

(* An event is popped or it stays. *)
LEMMA PoppedOrOpen ==
  ASSUME PositionInv, TypeOK', NEW i \in 1..(Len(stack) + 1), UnwindEffect(i),
         NEW e
  PROVE  /\ e \in OpenEvents <=> \/ e \in OpenEvents'
                                 \/ \E j \in i..Len(stack) : stack[j] = e
         /\ e \in OpenEvents' => ~\E j \in i..Len(stack) : stack[j] = e
  <1>1. DOMAIN stack = 1..Len(stack) /\ Len(stack) \in Nat
    BY PositionTypes DEF PositionInv
  <1>2. DOMAIN stack' = 1..(i - 1) /\ \A j \in 1..(i - 1) : stack'[j] = stack[j]
    <2>1. stack' \in Seq(1..Len(events'))
      BY DEF TypeOK
    <2> QED BY <2>1 DEF UnwindEffect
  <1>3. OpenEvents = {stack[j] : j \in 1..Len(stack)}
    BY <1>1 DEF OpenEvents
  <1>4. OpenEvents' = {stack[j] : j \in 1..(i - 1)}
    BY <1>2 DEF OpenEvents
  <1>5. \A j \in 1..(i - 1), k \in i..Len(stack) : stack[j] # stack[k]
    <2> SUFFICES ASSUME NEW j \in 1..(i - 1), NEW k \in i..Len(stack)
                 PROVE  stack[j] # stack[k]
      OBVIOUS
    <2>1. j \in 1..Len(stack) /\ k \in 1..Len(stack) /\ j < k
      BY <1>1
    <2>2. stack[j] < stack[k] /\ stack[j] \in Int /\ stack[k] \in Int
      BY <2>1, PositionTypes DEF PositionInv, StackShape
    <2> QED BY <2>2
  <1>6. 1..Len(stack) = (1..(i - 1)) \cup (i..Len(stack))
    BY <1>1
  <1> QED BY <1>3, <1>4, <1>5, <1>6

(* A step that pops from slot i, buffers what it popped and replays the    *)
(* buffer or not.                                                          *)
DrainEffect(i) ==
  /\ UnwindEffect(i)
  /\ \A e \in 1..Len(events) : /\ events'[e].next = events[e].next
                               /\ events'[e].asyncId = events[e].asyncId
  /\ \/ /\ finished' = finished \cup RecordsFrom(i)
        /\ UNCHANGED <<batches, lost>>
     \/ /\ finished' = {}
        /\ \E bad \in SUBSET (finished \cup RecordsFrom(i)) :
             /\ batches' = Append(batches, (finished \cup RecordsFrom(i)) \ bad)
             /\ lost' = lost \cup bad
  /\ UNCHANGED <<links, asyncIds, injected>>

(* The numbered events are the same after a step that opens none, with the *)
(* same sequences.                                                         *)
LEMMA SameNumbered ==
  ASSUME SamePositions, NEW e
  PROVE  /\ Numbered(e)' <=> Numbered(e)
         /\ Numbered(e) => events'[e].seq = events[e].seq
  BY DEF SamePositions, Numbered

LEMMA DrainKeepsPlaces ==
  ASSUME PositionInv, TypeOK', RecordInv, NEW i \in 1..(Len(stack) + 1),
         DrainEffect(i)
  PROVE  PlacedOnce'
  <1>1. SamePositions /\ UnwindEffect(i)
    BY DEF DrainEffect, UnwindEffect
  <1> SUFFICES ASSUME NEW e \in 1..Len(events), Numbered(e)
               PROVE  \E h \in Places' : \A g \in Places' : At(g, e)' <=> g = h
    BY <1>1, SameNumbered DEF PlacedOnce, SamePositions
  <1>2. events'[e].seq = events[e].seq
    BY <1>1, SameNumbered
  <1> DEFINE recs == finished \cup RecordsFrom(i)
             pops == \E j \in i..Len(stack) : stack[j] = e
  <1>3. /\ Holds(recs, e) <=> Holds(finished, e) \/ pops
        /\ \A r \in recs : r.seq = events[e].seq => r = Record(e)
    BY PoppedRecords
  <1>4. /\ e \in OpenEvents <=> e \in OpenEvents' \/ pops
        /\ e \in OpenEvents' => ~pops
    BY <1>1, PoppedOrOpen
  <1>5. PICK h \in Places : \A g \in Places : At(g, e) <=> g = h
    BY DEF RecordInv, PlacedOnce
  <1>6. Len(batches) \in Nat
    BY RecordFacts
  <1>7. /\ \A k \in 1..Len(batches) : Holds(batches[k], e) <=> k = h
        /\ e \in OpenEvents <=> h = 0
        /\ Holds(finished, e) <=> h = -1
        /\ Holds(lost, e) <=> h = -2
    <2>1. \A k \in 1..Len(batches) : Holds(batches[k], e) <=> k = h
      BY <1>5, <1>6 DEF At, Places
    <2>2. /\ e \in OpenEvents <=> h = 0
          /\ Holds(finished, e) <=> h = -1
          /\ Holds(lost, e) <=> h = -2
      BY <1>5, <1>6 DEF At, Places
    <2> QED BY <2>1, <2>2
  <1>8. CASE finished' = recs /\ UNCHANGED <<batches, lost>>
    <2>1. Places' = Places
      BY <1>8 DEF Places
    <2>2. ASSUME NEW g \in Places
          PROVE  At(g, e)' <=> \/ g = h /\ (g = 0 => ~pops)
                               \/ g = -1 /\ pops
      <3>1. /\ \A k \in 1..Len(batches) : Holds(batches[k], e)' <=> k = h
            /\ Holds(finished, e)' <=> h = -1 \/ pops
            /\ Holds(lost, e)' <=> h = -2
            /\ e \in OpenEvents' <=> h = 0 /\ ~pops
        BY <1>2, <1>3, <1>4, <1>7, <1>8 DEF Holds
      <3>2. Len(batches') = Len(batches)
        BY <1>8
      <3>3. CASE g \in 1..Len(batches)
        BY <1>6, <3>1, <3>2, <3>3 DEF At
      <3>4. CASE g \in {0, -1, -2}
        BY <1>6, <3>1, <3>2, <3>4 DEF At
      <3> QED BY <1>6, <3>3, <3>4 DEF Places
    <2>3. pops => h = 0
      BY <1>4, <1>7
    <2>4. -1 \in Places
      BY <1>6 DEF Places
    <2>5. CASE pops
      <3>1. \A g \in Places' : At(g, e)' <=> g = -1
        BY <2>1, <2>2, <2>3, <2>5
      <3> QED BY <2>1, <2>4, <3>1
    <2>6. CASE ~pops
      <3>1. \A g \in Places' : At(g, e)' <=> g = h
        BY <2>1, <2>2, <2>6
      <3> QED BY <2>1, <3>1
    <2> QED BY <2>5, <2>6
  <1>9. CASE /\ finished' = {}
             /\ \E bad \in SUBSET recs : /\ batches' = Append(batches, recs \ bad)
                                         /\ lost' = lost \cup bad
    <2>0. PICK n \in Nat : n = Len(batches) + 1
      BY <1>6
    <2>1. PICK bad \in SUBSET recs : /\ batches' = Append(batches, recs \ bad)
                                     /\ lost' = lost \cup bad
      BY <1>9
    <2>2. /\ Len(batches') = n /\ batches'[n] = recs \ bad
          /\ \A k \in 1..Len(batches) : batches'[k] = batches[k]
      <3>1. batches \in Seq(SUBSET RecordType)
        BY DEF PositionInv, TypeOK
      <3> HIDE DEF recs
      <3> QED BY <2>0, <2>1, <3>1
    <2>3. Places' = Places \cup {n} /\ n \notin Places /\ -2 \in Places
      BY <1>6, <2>0, <2>2 DEF Places
    <2> DEFINE moves == h = -1 \/ pops
               in    == Holds(bad, e)
    <2>4. Holds(recs, e) <=> moves
      BY <1>3, <1>7
    <2>5. /\ in => moves
          /\ Holds(recs \ bad, e) <=> moves /\ ~in
      <3>1. in => moves
        BY <2>4 DEF Holds
      <3>2. Holds(recs \ bad, e) => moves
        BY <2>4 DEF Holds
      <3>3. moves => (in <=> ~Holds(recs \ bad, e))
        BY <1>3, <2>4 DEF Holds
      <3> QED BY <3>1, <3>2, <3>3
    <2>6. moves => h \in {0, -1}
      BY <1>4, <1>7
    <2>7. ASSUME NEW g \in Places
          PROVE  At(g, e)' <=> \/ g = h /\ ~moves
                               \/ g = -2 /\ in
      <3>1. ASSUME NEW k \in 1..Len(batches) PROVE Holds(batches[k], e)' <=> k = h
        <4>1. batches'[k] = batches[k]
          BY <2>2
        <4>2. Holds(batches[k], e)' <=> Holds(batches[k], e)
          BY <1>2, <4>1 DEF Holds
        <4> QED BY <1>7, <4>2
      <3>2. ~Holds(finished, e)'
        BY <1>9 DEF Holds
      <3>3. Holds(lost, e)' <=> h = -2 \/ in
        <4>1. Holds(lost, e)' <=> Holds(lost, e) \/ in
          BY <1>2, <2>1 DEF Holds
        <4> QED BY <1>7, <4>1
      <3>4. e \in OpenEvents' <=> h = 0 /\ ~pops
        BY <1>4, <1>7
      <3> HIDE DEF in, pops
      <3>5. CASE g \in 1..Len(batches)
        BY <1>6, <2>0, <2>2, <2>6, <3>1, <3>5 DEF At
      <3>6. CASE g = 0
        BY <1>6, <2>2, <2>6, <3>4, <3>6 DEF At
      <3>7. CASE g = -1
        BY <1>6, <2>2, <3>2, <3>7 DEF At
      <3>8. CASE g = -2
        BY <1>6, <2>2, <2>6, <3>3, <3>8 DEF At
      <3> QED BY <1>6, <3>5, <3>6, <3>7, <3>8 DEF Places
    <2>8. At(n, e)' <=> moves /\ ~in
      <3>1. Holds(batches[n], e)' <=> Holds(recs \ bad, e)
        <4> HIDE DEF recs
        <4> QED BY <1>2, <2>2 DEF Holds
      <3>2. At(n, e)' <=> Holds(batches[n], e)'
        BY <1>6, <2>0, <2>2 DEF At
      <3> QED BY <2>5, <3>1, <3>2
    <2> HIDE DEF in, moves
    <2>9. CASE ~moves
      <3>1. \A g \in Places' : At(g, e)' <=> g = h
        BY <2>3, <2>5, <2>7, <2>8, <2>9
      <3> QED BY <2>3, <3>1
    <2>10. CASE moves /\ in
      <3>1. \A g \in Places' : At(g, e)' <=> g = -2
        BY <2>3, <2>7, <2>8, <2>10
      <3> QED BY <2>3, <3>1
    <2>11. CASE moves /\ ~in
      <3>1. \A g \in Places' : At(g, e)' <=> g = n
        BY <2>3, <2>7, <2>8, <2>11
      <3> QED BY <2>3, <3>1
    <2> QED BY <2>9, <2>10, <2>11
  <1> QED BY <1>8, <1>9 DEF DrainEffect

LEMMA DrainKeepsRecords ==
  ASSUME PositionInv, TypeOK', RecordInv, NEW i \in 1..(Len(stack) + 1),
         DrainEffect(i)
  PROVE  RecordsOfEvents' /\ Stamps'
  <1>1. SamePositions /\ UnwindEffect(i)
    BY DEF DrainEffect, UnwindEffect
  <1>2. \A e \in 1..Len(events) : Record(e)' = Record(e)
    BY <1>1 DEF DrainEffect, SamePositions, Record
  <1>3. ASSUME NEW r \in AllRecords'
        PROVE  r \in AllRecords \/ r \in RecordsFrom(i)
    <2>1. DOMAIN batches = 1..Len(batches) /\ Len(batches) \in Nat
            /\ batches \in Seq(SUBSET RecordType)
      <3>1. batches \in Seq(SUBSET RecordType)
        BY DEF PositionInv, TypeOK
      <3> QED BY <3>1
    <2>2. CASE /\ finished' = finished \cup RecordsFrom(i)
               /\ UNCHANGED <<batches, lost>>
      BY <1>3, <2>2 DEF AllRecords
    <2>3. CASE finished' = {} /\ \E bad \in SUBSET (finished \cup RecordsFrom(i)) :
                 /\ batches' = Append(batches, (finished \cup RecordsFrom(i)) \ bad)
                 /\ lost' = lost \cup bad
      <3> DEFINE recs == finished \cup RecordsFrom(i)
      <3>1. PICK bad \in SUBSET recs : /\ batches' = Append(batches, recs \ bad)
                                       /\ lost' = lost \cup bad
        BY <2>3
      <3>2. CASE r \in lost'
        BY <3>1, <3>2 DEF AllRecords
      <3>3. ASSUME NEW k \in DOMAIN batches', r \in batches'[k]
            PROVE  r \in AllRecords \/ r \in RecordsFrom(i)
        <4>1. /\ k \in 1..(Len(batches) + 1)
              /\ batches'[k] = IF k = Len(batches) + 1 THEN recs \ bad ELSE batches[k]
          <5> HIDE DEF recs
          <5> QED BY <2>1, <3>1
        <4>2. CASE k = Len(batches) + 1
          BY <3>3, <4>1, <4>2 DEF AllRecords
        <4>3. CASE k # Len(batches) + 1
          BY <2>1, <3>3, <4>1, <4>3 DEF AllRecords
        <4> QED BY <4>2, <4>3
      <3> QED BY <1>3, <2>3, <3>2, <3>3 DEF AllRecords
    <2> QED BY <2>2, <2>3 DEF DrainEffect
  <1>4. RecordsOfEvents'
    <2> SUFFICES ASSUME NEW r \in AllRecords'
                 PROVE  \E e \in 1..Len(events') : Numbered(e)' /\ r = Record(e)'
      BY DEF RecordsOfEvents
    <2>1. PICK e : Numbered(e) /\ r = Record(e)
      BY <1>3, RecordsOfPopped DEF RecordInv, RecordsOfEvents
    <2>2. e \in 1..Len(events) /\ Len(events') = Len(events)
      BY <1>1, <2>1 DEF Numbered, SamePositions
    <2> QED BY <1>1, <1>2, <2>1, <2>2, SameNumbered
  <1>5. Stamps'
    <2>1. \A l \in links : l[1] \in 1..Len(events)
      BY RecordFacts
    <2> QED BY <1>1, <2>1 DEF DrainEffect, SamePositions, RecordInv, Stamps
  <1> QED BY <1>4, <1>5

-----------------------------------------------------------------------------
(* A step that stamps the innermost event or no event at all. *)
LEMMA StampKeepsRecords ==
  ASSUME PositionInv, RecordInv, SamePositions, Stamps',
         \A e \in 1..Len(events) : e # Top =>
           events'[e].next = events[e].next /\ events'[e].asyncId = events[e].asyncId,
         UNCHANGED <<stack, finished, batches, lost, ended>>
  PROVE  RecordInv'
  <1>1. ASSUME NEW e, Numbered(e), NEW g PROVE At(g, e)' <=> At(g, e)
    BY <1>1, SameNumbered DEF At, Holds, OpenEvents
  <1>2. PlacedOnce'
    <2>1. Places' = Places /\ Len(events') = Len(events)
      BY DEF Places, SamePositions
    <2> QED BY <1>1, <2>1, SameNumbered DEF PlacedOnce, RecordInv
  <1>3. RecordsOfEvents'
    <2> SUFFICES ASSUME NEW r \in AllRecords
                 PROVE  \E e \in 1..Len(events) : Numbered(e) /\ r = Record(e)'
      BY SameNumbered DEF RecordsOfEvents, AllRecords, SamePositions
    <2>1. PICK e \in 1..Len(events) : Numbered(e) /\ r = Record(e)
      BY DEF RecordInv, RecordsOfEvents
    <2>2. e # Top
      <3> SUFFICES ASSUME e = Top PROVE FALSE
        OBVIOUS
      <3>1. Len(stack) \in DOMAIN stack /\ e = stack[Len(stack)]
        BY PositionTypes DEF PositionInv, TypeOK, Top, NoEvent
      <3>2. At(0, e)
        BY <3>1 DEF At, OpenEvents
      <3>3. \E g \in Places : g # 0 /\ At(g, e)
        <4>1. Len(batches) \in Nat /\ DOMAIN batches = 1..Len(batches)
          BY RecordFacts
        <4>2. r.seq = events[e].seq
          BY <2>1 DEF Record
        <4>3. CASE r \in finished
          <5>1. -1 \in Places /\ At(-1, e)
            BY <4>1, <4>2, <4>3 DEF At, Holds, Places
          <5> QED BY <5>1
        <4>4. CASE r \in lost
          <5>1. -2 \in Places /\ At(-2, e)
            BY <4>1, <4>2, <4>4 DEF At, Holds, Places
          <5> QED BY <5>1
        <4>5. ASSUME NEW k \in 1..Len(batches), r \in batches[k]
              PROVE  k \in Places /\ k # 0 /\ At(k, e)
          BY <4>1, <4>2, <4>5 DEF At, Holds, Places
        <4> QED BY <4>1, <4>3, <4>4, <4>5 DEF AllRecords
      <3>4. 0 \in Places
        BY RecordFacts DEF Places
      <3> QED BY <2>1, <3>2, <3>3, <3>4 DEF RecordInv, PlacedOnce
    <2>3. Record(e)' = Record(e)
      BY <2>2 DEF Record, SamePositions
    <2> QED BY <2>1, <2>3
  <1> QED BY <1>2, <1>3 DEF RecordInv, Drained

(* A new wrapper has no record yet. *)
LEMMA PushKeepsRecords ==
  ASSUME PositionInv, TypeOK', RecordInv, Push(sequence) \/ Push(NoPosition),
         ended' = ended, ~ended,
         UNCHANGED <<finished, batches, lost, links, asyncIds>>
  PROVE  RecordInv'
  <1>0. PICK n \in Nat : n = Len(events) + 1
    BY PositionTypes DEF PositionInv
  <1>1. /\ Len(events') = n /\ Len(stack') = Len(stack) + 1
        /\ \A e \in 1..Len(events) : events'[e] = events[e]
        /\ \A i \in 1..Len(stack) : stack'[i] = stack[i]
        /\ stack'[Len(stack) + 1] = n
        /\ events'[n].seq \in {sequence, NoPosition}
    BY <1>0, PushIsPushEffect DEF PushEffect, PositionInv
  <1>2. events'[n].next = NoId /\ events'[n].asyncId = NoId
    <2>1. events \in Seq(EventType)
      BY DEF PositionInv, TypeOK
    <2>2. \E seq : events' = Append(events, NewEvent(seq))
      BY DEF Push
    <2> QED BY <1>0, <2>1, <2>2 DEF NewEvent
  <1>3. /\ \A e \in 1..Len(events) : injected'[e] = injected[e]
        /\ injected'[n] = NoId
    <2>1. injected \in Seq(SpanIds \cup {NoId}) /\ Len(injected) = Len(events)
      BY DEF PositionInv, TypeOK
    <2>2. injected' = Append(injected, NoId)
      BY DEF Push
    <2> QED BY <1>0, <2>1, <2>2
  <1>4. Len(events) \in Nat /\ Len(stack) \in Nat /\ sequence \in Nat
    BY PositionTypes DEF PositionInv
  <1>5. OpenEvents' = OpenEvents \cup {n}
    <2>1. DOMAIN stack = 1..Len(stack) /\ DOMAIN stack' = 1..(Len(stack) + 1)
      BY <1>1 DEF PositionInv, TypeOK
    <2> QED BY <1>1, <1>0, <1>4, <2>1 DEF OpenEvents
  <1>6. ASSUME NEW e \in 1..Len(events)
        PROVE  /\ Numbered(e)' <=> Numbered(e)
               /\ Record(e)' = Record(e)
               /\ \A g : At(g, e)' <=> At(g, e)
    <2>1. events'[e] = events[e] /\ e # n /\ e \in 1..Len(events')
      BY <1>1, <1>0, <1>4
    <2> QED BY <1>5, <2>1 DEF Numbered, Record, At, Holds
  <1>7. Places' = Places /\ Len(batches) \in Nat
    BY RecordFacts DEF Places
  <1>8. ASSUME Numbered(n)', NEW g \in Places PROVE At(g, n)' <=> g = 0
    <2>1. events'[n].seq = sequence
      BY <1>1, <1>8 DEF Numbered
    <2>2. ASSUME NEW r \in AllRecords PROVE r.seq # sequence
      <3>1. PICK e \in 1..Len(events) : Numbered(e) /\ r = Record(e)
        BY DEF RecordInv, RecordsOfEvents
      <3>2. events[e].seq < sequence /\ events[e].seq \in Int
        BY <3>1, PositionTypes DEF PositionInv, SequenceOrder, Numbered
      <3> QED BY <1>0, <1>4, <3>1, <3>2 DEF Record
    <2>3. \A k \in DOMAIN batches : batches[k] \subseteq AllRecords
      BY DEF AllRecords
    <2>4. finished \subseteq AllRecords /\ lost \subseteq AllRecords
      BY DEF AllRecords
    <2>5. DOMAIN batches = 1..Len(batches)
      BY RecordFacts
    <2>6. ~Holds(finished, n)' /\ ~Holds(lost, n)'
      BY <2>1, <2>2, <2>4 DEF Holds
    <2>7. \A k \in 1..Len(batches) : ~Holds(batches[k], n)'
      BY <2>1, <2>2, <2>3, <2>5 DEF Holds
    <2> QED BY <1>5, <1>7, <2>6, <2>7 DEF At
  <1>9. PlacedOnce'
    <2> SUFFICES ASSUME NEW e \in 1..n, Numbered(e)'
                 PROVE  \E h \in Places : \A g \in Places : At(g, e)' <=> g = h
      BY <1>1, <1>7 DEF PlacedOnce
    <2>1. CASE e = n
      <3>1. 0 \in Places
        BY <1>7 DEF Places
      <3> QED BY <1>8, <2>1, <3>1
    <2>2. CASE e # n
      <3>1. e \in 1..Len(events)
        BY <1>0, <1>4, <2>2
      <3> QED BY <1>6, <3>1 DEF RecordInv, PlacedOnce
    <2> QED BY <2>1, <2>2
  <1>10. RecordsOfEvents'
    <2> SUFFICES ASSUME NEW r \in AllRecords
                 PROVE  \E e \in 1..n : Numbered(e)' /\ r = Record(e)'
      <3>1. AllRecords' = AllRecords
        BY DEF AllRecords
      <3> QED BY <1>1, <3>1 DEF RecordsOfEvents
    <2>1. PICK e \in 1..Len(events) : Numbered(e) /\ r = Record(e)
      BY DEF RecordInv, RecordsOfEvents
    <2> QED BY <1>0, <1>4, <1>6, <2>1
  <1>11. Stamps'
    <2>1. ASSUME NEW e \in 1..n
          PROVE  \/ e = n
                 \/ e \in 1..Len(events) /\ events'[e] = events[e]
                      /\ injected'[e] = injected[e]
      BY <1>1, <1>3, <1>0, <1>4
    <2>2. \A l \in links : l[1] \in 1..Len(events) /\ events'[l[1]] = events[l[1]]
      BY <1>1, RecordFacts
    <2>3. /\ Stamps /\ UNCHANGED <<links, asyncIds>>
      BY DEF RecordInv
    <2>4. ASSUME NEW e \in 1..n
          PROVE  /\ injected'[e] = events'[e].next
                 /\ events'[e].asyncId # NoId =>
                      /\ events'[e].seq # NoPosition
                      /\ events'[e].asyncId <= asyncIds'
      BY <1>2, <1>3, <2>1, <2>3 DEF Stamps
    <2>5. ASSUME NEW e \in 1..n, NEW f \in 1..n,
                 events'[e].asyncId # NoId, events'[e].asyncId = events'[f].asyncId
          PROVE  e = f
      BY <1>2, <2>1, <2>3, <2>5 DEF Stamps
    <2>6. \A l \in links' : events'[l[1]].asyncId = l[2]
      BY <2>2, <2>3 DEF Stamps
    <2> QED BY <1>1, <2>4, <2>5, <2>6 DEF Stamps
  <1> QED BY <1>9, <1>10, <1>11 DEF RecordInv, Drained

(* Unwinding is a drain, whether the buffer is replayed or kept. *)
LEMMA UnwindDrains ==
  ASSUME PositionInv, NEW i \in 1..(Len(stack) + 1), Unwind(i),
         \/ FlushFinished(finished \cup RecordsFrom(i))
         \/ finished' = {} /\ Replay(finished \cup RecordsFrom(i)),
         UNCHANGED <<links, asyncIds, injected>>
  PROVE  DrainEffect(i)
  <1>1. UnwindEffect(i)
    BY UnwindIsUnwindEffect DEF PositionInv
  <1>2. \A e \in 1..Len(events) : /\ events'[e].next = events[e].next
                                  /\ events'[e].asyncId = events[e].asyncId
    <2>1. \A e \in 1..Len(events) : events[e] \in EventType
      BY StackOfEvents DEF PositionInv
    <2> QED BY <2>1 DEF Unwind, EventType
  <1> QED BY <1>1, <1>2 DEF DrainEffect, FlushFinished, Replay

LEMMA EndEventKeepsRecords ==
  ASSUME PositionInv, PositionInv', RecordInv, NEW e \in DOMAIN events, EndEvent(e)
  PROVE  RecordInv'
  <1>1. CASE ~ended /\ e \in OpenEvents
    <2>1. PICK i \in DOMAIN stack :
            /\ Unwind(i)
            /\ FlushFinished(finished \cup RecordsFrom(i))
      BY <1>1 DEF EndEvent
    <2>2. i \in 1..(Len(stack) + 1)
      BY PositionTypes DEF PositionInv
    <2>3. DrainEffect(i)
      BY <2>1, <2>2, UnwindDrains DEF EndEvent
    <2>4. PlacedOnce' /\ RecordsOfEvents' /\ Stamps'
      BY <2>2, <2>3, DrainKeepsPlaces, DrainKeepsRecords DEF PositionInv
    <2> QED BY <1>1, <2>4 DEF RecordInv, Drained, EndEvent
  <1>2. CASE ~(~ended /\ e \in OpenEvents)
    <2>1. /\ events' = [events EXCEPT ![e] = [events[e] EXCEPT !.ended = TRUE]]
          /\ UNCHANGED <<stack, depth, finished, batches, lost, links, asyncIds,
                         injected, ended>>
      BY <1>2 DEF EndEvent
    <2>2. /\ e \in 1..Len(events)
          /\ \A f \in 1..Len(events) : events[f] \in EventType
      BY PositionTypes, StackOfEvents DEF PositionInv
    <2>3. /\ SamePositions
          /\ \A f \in 1..Len(events) : /\ events'[f].next = events[f].next
                                       /\ events'[f].asyncId = events[f].asyncId
      BY <2>1, <2>2, PositionTypes DEF SamePositions, EventType, PositionInv, TypeOK
    <2>4. Stamps'
      <3>1. \A l \in links : l[1] \in 1..Len(events)
        BY RecordFacts
      <3> QED BY <2>1, <2>3, <3>1 DEF Stamps, RecordInv, SamePositions
    <2> QED BY <2>1, <2>3, <2>4, StampKeepsRecords
  <1> QED BY <1>1, <1>2

LEMMA EndKeepsRecords ==
  ASSUME PositionInv, PositionInv', RecordInv, End
  PROVE  RecordInv'
  <1>1. 1 \in 1..(Len(stack) + 1) /\ Unwind(1)
    BY PositionTypes DEF End, PositionInv
  <1>2. DrainEffect(1)
    BY <1>1, UnwindDrains DEF End
  <1>3. PlacedOnce' /\ RecordsOfEvents' /\ Stamps'
    BY <1>1, <1>2, DrainKeepsPlaces, DrainKeepsRecords DEF PositionInv
  <1>4. stack' = <<>>
    <2>1. stack' \in Seq(1..Len(events'))
      BY DEF PositionInv, TypeOK
    <2>2. Len(stack') = 0
      BY <1>2 DEF DrainEffect, UnwindEffect
    <2> QED BY <2>1, <2>2
  <1> QED BY <1>3, <1>4 DEF End, RecordInv, Drained

(* The innermost event is one of the events. *)
LEMMA TopIsEvent ==
  ASSUME PositionInv, stack # <<>>
  PROVE  Top \in 1..Len(events) /\ events[Top] \in EventType
  <1>1. Len(stack) \in 1..Len(stack) /\ Top = stack[Len(stack)]
    BY PositionTypes DEF PositionInv, Top, TypeOK
  <1> QED BY <1>1, StackOfEvents DEF PositionInv

LEMMA InjectKeepsRecords ==
  ASSUME PositionInv, RecordInv, Inject
  PROVE  RecordInv'
  <1>1. PICK id \in SpanIds :
          /\ events' = [events EXCEPT ![Top] = [events[Top] EXCEPT !.next = id]]
          /\ injected' = [injected EXCEPT ![Top] = id]
    BY DEF Inject
  <1>2. PICK t \in 1..Len(events) : t = Top /\ events[t] \in EventType
    BY TopIsEvent DEF Inject
  <1>3. \A f \in 1..Len(events) : events[f] \in EventType
    BY StackOfEvents DEF PositionInv
  <1>4. /\ \A f \in 1..Len(events) :
             /\ events'[f] = IF f = t THEN [events[t] EXCEPT !.next = id]
                            ELSE events[f]
             /\ injected'[f] = IF f = t THEN id ELSE injected[f]
        /\ Len(events') = Len(events)
    <2>1. /\ DOMAIN events = 1..Len(events) /\ DOMAIN injected = 1..Len(events)
          /\ events \in Seq(EventType)
      BY DEF PositionInv, TypeOK
    <2> QED BY <1>1, <1>2, <2>1
  <1>5. /\ SamePositions
        /\ \A f \in 1..Len(events) : /\ f # t => events'[f].next = events[f].next
                                     /\ events'[f].asyncId = events[f].asyncId
                                     /\ f = t => events'[f].next = id
    <2> DEFINE w == [events[t] EXCEPT !.next = id]
    <2>1. /\ w.seq = events[t].seq /\ w.depth = events[t].depth
          /\ w.parent = events[t].parent /\ w.asyncId = events[t].asyncId
          /\ w.next = id
      BY <1>2 DEF EventType
    <2>2. \A f \in 1..Len(events) : events'[f] = IF f = t THEN w ELSE events[f]
      BY <1>4
    <2> HIDE DEF w
    <2> QED BY <1>4, <2>1, <2>2 DEF SamePositions
  <1>6. Stamps'
    <2>1. \A l \in links : l[1] \in 1..Len(events)
      BY RecordFacts
    <2>2. UNCHANGED <<links, asyncIds>>
      BY DEF Inject
    <2> QED BY <1>4, <1>5, <2>1, <2>2 DEF Stamps, RecordInv, SamePositions
  <1> QED BY <1>2, <1>5, <1>6, StampKeepsRecords DEF Inject

LEMMA NewAsyncSpanKeepsRecords ==
  ASSUME PositionInv, RecordInv, NewAsyncSpan
  PROVE  RecordInv'
  <1>1. PICK t \in 1..Len(events) : t = Top /\ events[t] \in EventType
    BY TopIsEvent DEF NewAsyncSpan, CanLink
  <1>2. asyncIds \in Nat /\ \A f \in 1..Len(events) : events[f] \in EventType
    BY StackOfEvents, RecordFacts DEF PositionInv
  <1>3. PICK id \in Nat : id = IF events[t].asyncId = NoId THEN asyncIds + 1
                               ELSE events[t].asyncId
    BY <1>1, <1>2 DEF EventType
  <1>4. PICK seq \in Nat : seq = events[t].asyncSeq + 1
    BY <1>1 DEF EventType
  <1> DEFINE v == [events[t] EXCEPT !.asyncId = id, !.asyncSeq = seq]
  <1>5. /\ events' = [events EXCEPT ![t] = v]
        /\ asyncIds' = IF events[t].asyncId = NoId THEN asyncIds + 1 ELSE asyncIds
        /\ links' \subseteq links \cup {<<t, id, seq>>}
        /\ UNCHANGED <<stack, finished, batches, lost, ended, injected>>
    BY <1>1, <1>3, <1>4 DEF NewAsyncSpan
  <1>6. /\ v.seq = events[t].seq /\ v.depth = events[t].depth
        /\ v.parent = events[t].parent /\ v.next = events[t].next /\ v.asyncId = id
    BY <1>1 DEF EventType
  <1> HIDE DEF v
  <1>7. /\ \A f \in 1..Len(events) : events'[f] = IF f = t THEN v ELSE events[f]
        /\ Len(events') = Len(events)
    <2>1. DOMAIN events = 1..Len(events) /\ events \in Seq(EventType)
      BY DEF PositionInv, TypeOK
    <2> QED BY <1>5, <2>1
  <1>8. SamePositions
    BY <1>6, <1>7 DEF SamePositions
  <1>9. Stamps'
    <2>1. Stamps /\ \A l \in links : l[1] \in 1..Len(events)
      BY RecordFacts DEF RecordInv
    <2>2. events[t].seq # NoPosition
      BY <1>1 DEF NewAsyncSpan, CanLink, IsPlaceholder
    <2>3. /\ id # NoId /\ id <= asyncIds' /\ asyncIds <= asyncIds'
          /\ \A f \in 1..Len(events) : f # t => events[f].asyncId # id
      <3>1. CASE events[t].asyncId = NoId
        <4>1. \A f \in 1..Len(events) : events[f].asyncId \in Nat
          BY <1>2 DEF EventType
        <4> QED BY <1>2, <1>3, <1>5, <2>1, <3>1, <4>1 DEF Stamps, NoId
      <3>2. CASE events[t].asyncId # NoId
        BY <1>2, <1>3, <1>5, <2>1, <3>2 DEF Stamps
      <3> QED BY <3>1, <3>2
    <2>4. ASSUME NEW e \in 1..Len(events)
          PROVE  /\ injected'[e] = events'[e].next
                 /\ events'[e].asyncId # NoId =>
                      /\ events'[e].seq # NoPosition
                      /\ events'[e].asyncId <= asyncIds'
      <3>1. events[e].asyncId \in Nat
        BY <1>2 DEF EventType
      <3>2. injected[e] = events[e].next /\ injected' = injected
        BY <1>5, <2>1 DEF Stamps
      <3>3. CASE e = t
        BY <1>6, <1>7, <2>2, <2>3, <3>2, <3>3
      <3>4. CASE e # t
        <4>1. events'[e] = events[e]
          BY <1>7, <3>4
        <4>2. events[e].asyncId # NoId =>
                events[e].seq # NoPosition /\ events[e].asyncId <= asyncIds
          BY <2>1 DEF Stamps
        <4>3. asyncIds' \in Nat
          BY <1>2, <1>5
        <4> QED BY <1>2, <2>3, <3>1, <3>2, <4>1, <4>2, <4>3
      <3> QED BY <3>3, <3>4
    <2>5. ASSUME NEW e \in 1..Len(events), NEW f \in 1..Len(events),
                 events'[e].asyncId # NoId, events'[e].asyncId = events'[f].asyncId
          PROVE  e = f
      BY <1>6, <1>7, <2>1, <2>3, <2>5 DEF Stamps
    <2>6. ASSUME NEW l \in links' PROVE events'[l[1]].asyncId = l[2]
      <3>1. CASE l = <<t, id, seq>>
        BY <1>6, <1>7, <3>1
      <3>2. CASE l \in links
        <4>1. l[1] \in 1..Len(events) /\ events[l[1]].asyncId = l[2] /\ l[2] # NoId
          BY <2>1, <3>2, RecordFacts DEF Stamps
        <4>2. l[1] = t => l[2] = id
          BY <1>3, <4>1
        <4> QED BY <1>6, <1>7, <4>1, <4>2
      <3> QED BY <1>5, <2>6, <3>1, <3>2
    <2> QED BY <1>7, <2>4, <2>5, <2>6 DEF Stamps
  <1> QED BY <1>1, <1>5, <1>6, <1>7, <1>8, <1>9, StampKeepsRecords

LEMMA RecordInvInductive ==
  PositionInv /\ PositionInv' /\ RecordInv /\ [Next]_vars => RecordInv'
  <1> SUFFICES ASSUME PositionInv, PositionInv', RecordInv, [Next]_vars
               PROVE  RecordInv'
    OBVIOUS
  <1>1. CASE NewSpanEvent \/ NewPlaceholder
    BY <1>1, PushKeepsRecords DEF NewSpanEvent, NewPlaceholder, PositionInv
  <1>2. ASSUME NEW e \in DOMAIN events, EndEvent(e) PROVE RecordInv'
    BY <1>2, EndEventKeepsRecords
  <1>3. CASE End
    BY <1>3, EndKeepsRecords
  <1>4. CASE Inject
    BY <1>4, InjectKeepsRecords
  <1>5. CASE NewAsyncSpan
    BY <1>5, NewAsyncSpanKeepsRecords
  <1>6. CASE UNCHANGED <<events, stack, finished, ended, batches, lost, links,
                         asyncIds, injected>>
    <2>1. SamePositions
      BY <1>6 DEF SamePositions
    <2>2. Stamps'
      BY <1>6 DEF RecordInv, Stamps
    <2> QED BY <1>6, <2>1, <2>2, StampKeepsRecords
  <1> QED BY <1>1, <1>2, <1>3, <1>4, <1>5, <1>6
          DEF Next, SetErrorOnPlaceholder, RootEnds, vars

(* Each numbered event is at every moment in exactly one place (open,      *)
(* buffered, lost in a failed replay, or in one batch that native took),   *)
(* none is left behind by end(), and its record carries the span id last   *)
(* injected and the async id of every child handed out on it (Span,        *)
(* tracer.py): whatever the limits, the chunk size and the order of ends.  *)
THEOREM EachEventIsRecordedOnce == Spec => []RecordedOnce
  <1>1. Init => RecordInv
    <2> SUFFICES ASSUME Init PROVE RecordInv
      OBVIOUS
    <2>1. /\ Len(events) = 0 /\ Len(batches) = 0 /\ DOMAIN batches = {}
          /\ finished = {} /\ lost = {} /\ links = {} /\ ended = FALSE
      BY DEF Init
    <2> QED BY <2>1 DEF RecordInv, PlacedOnce, RecordsOfEvents, AllRecords, Stamps,
                        Drained
  <1>2. PositionInv /\ RecordInv => RecordedOnce
    <2> SUFFICES ASSUME PositionInv, RecordInv PROVE RecordedOnce
      OBVIOUS
    <2>1. ASSUME NEW e \in Real PROVE Numbered(e) /\ e \in 1..Len(events)
      BY PositionTypes DEF Real, IsPlaceholder, Numbered, PositionInv
    <2>2. EachEventOnce
      <3> SUFFICES ASSUME NEW e \in Real
                   PROVE  \E h \in Places : /\ Holders(e) = {h}
                                            /\ ended => h \notin {0, -1}
        BY DEF EachEventOnce, Places
      <3>1. PICK h \in Places : \A g \in Places : At(g, e) <=> g = h
        BY <2>1 DEF RecordInv, PlacedOnce
      <3>2. Len(batches) \in Nat /\ DOMAIN batches = 1..Len(batches)
        BY RecordFacts
      <3>3. Holders(e) = {g \in Places : At(g, e)}
        BY <3>2 DEF Holders, At, Places
      <3>4. ended => ~At(0, e) /\ ~At(-1, e)
        BY <3>2 DEF RecordInv, Drained, At, Holds, OpenEvents
      <3>5. At(h, e)
        BY <3>1
      <3> QED BY <3>1, <3>3, <3>4, <3>5
    <2>3. LinksRecorded
      <3>1. ASSUME NEW l \in links
            PROVE  /\ l[1] \in 1..Len(events) /\ events[l[1]].asyncId = l[2]
                   /\ l[2] # NoId /\ ~IsPlaceholder(l[1])
        BY RecordFacts DEF RecordInv, Stamps, IsPlaceholder
      <3>2. ASSUME NEW l \in links, NEW m \in links, l[2] = m[2]
            PROVE  l[1] = m[1]
        BY <3>1, <3>2 DEF RecordInv, Stamps
      <3>3. ASSUME NEW r \in AllRecords, NEW e \in Real, r.seq = events[e].seq
            PROVE  r.asyncId = events[e].asyncId /\ r.next = injected[e]
        <4>1. r = Record(e)
          BY <2>1, <3>3, SequenceNamesRecord DEF RecordInv
        <4> QED BY <2>1, <4>1 DEF Record, RecordInv, Stamps
      <3> QED BY <3>1, <3>2, <3>3 DEF LinksRecorded
    <2> QED BY <2>2, <2>3 DEF RecordedOnce
  <1> QED BY <1>1, <1>2, PositionsAreSound, RecordInvInductive, PTL DEF Spec
===============================================================================
