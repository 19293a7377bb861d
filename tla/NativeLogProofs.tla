---------------------------- MODULE NativeLogProofs ----------------------------
(***************************************************************************)
(* Proofs about the native log bridge.                                     *)
(*                                                                         *)
(* The consumer (NativeLogConsumer), for any threads, capacity, batch size *)
(* and number of records: whatever the consumer thread, native and the     *)
(* callers of shutdown() do, nothing is lost, reordered or miscounted.     *)
(*                                                                         *)
(* The ring (NativeLogQueue), for any number of producers, any capacity of *)
(* at least two cells and any record sizes: no record is torn, lost in the *)
(* byte count or reordered, and the ring implements the channel.  That     *)
(* proof looks at the ring through its line: the records by the position   *)
(* they were claimed for, from the first one on, whether they are still    *)
(* being copied in, wait in their cell or have been handed over.           *)
(***************************************************************************)
EXTENDS NativeLogConsumer, NativeLogQueue,
        FiniteSetTheorems, SequenceTheorems, WellFoundedInduction, TLAPS

-----------------------------------------------------------------------------
(* The inductive invariant of the consumer *)

Increasing(s) == \A i, j \in DOMAIN s : i < j => s[i] < s[j]
Before(s, t)  == \A i \in DOMAIN s, j \in DOMAIN t : s[i] < t[j]
UpTo(s, m)    == \A i \in DOMAIN s : s[i] <= m

(* The last number a record can have that is no longer in native's hands.  *)
LastOut == IF inFlight = NoNumber THEN emitted ELSE emitted - 1

(* Records keep their order on their way from native to the logger.        *)
OrderKept ==
  /\ inFlight # NoNumber => inFlight = emitted
  /\ Increasing(handled) /\ Increasing(batch) /\ Increasing(queue)
  /\ Before(handled, batch) /\ Before(handled, queue) /\ Before(batch, queue)
  /\ UpTo(handled, LastOut) /\ UpTo(batch, LastOut) /\ UpTo(queue, LastOut)

(* Drops are in one of three places, and a reader starts with the last.    *)
DropsCounted ==
  /\ nativeDropped + taken + counted = totalDropped
  /\ first <= counted
  /\ \A i \in DOMAIN reads : reads[i] <= totalDropped

(* The thread left its loop because the interpreter is finalizing.         *)
LeftEarly == at = "exited" /\ phase = "poll"

(* One call shuts native down, and everything about stopping follows it.   *)
Stopping == {"native", "deactivate", "set"}
StopInOrder ==
  /\ \A t \in Callers : call[t] \in Stopping => claimed
  /\ \A t, u \in Callers : call[t] \in Stopping /\ call[u] \in Stopping => t = u
  /\ ~claimed => sinkOn /\ ~stopSet
  /\ \A t \in Callers : call[t] \in Stopping => ~stopSet
  /\ \A t \in Callers : call[t] = "native" => sinkOn
  /\ sinkOn /\ ~LeftEarly /\ (~claimed \/ \E t \in Callers : call[t] = "native") => bridgeOn
  /\ phase # "poll" => stopSet
  /\ ~sinkOn => inFlight = NoNumber

(* Where the thread is tells what it holds.                                *)
HandsTell ==
  /\ at \notin {"drain", "deliver"} => batch = <<>>
  /\ at = "deliver" /\ ~found => batch = <<>>
  /\ at # "add" => taken = 0
  /\ phase = "last" => at \in {"take", "add", "exited"}
  /\ phase = "final" => at \in {"drain", "deliver", "take", "add"}

(* Every record is somewhere, unless a drain failed, or it was logged when *)
(* nobody wanted it any more.                                              *)
Held == Len(handled) + Len(batch) + Len(queue)
          + (IF inFlight = NoNumber THEN 0 ELSE 1) + totalDropped
AllHeld ==
  discarded = {} /\ (bridgeOn \/ ~sinkOn) /\ ~LeftEarly => Held = emitted

(* Once native let go of the sink, what the thread found empty stays so.   *)
EmptyStaysEmpty ==
  ~sinkOn /\ discarded = {} =>
    /\ phase = "final" /\ at \in {"deliver", "take", "add"} /\ ~found => queue = <<>>
    /\ phase = "last" => queue = <<>>
    /\ phase = "last" /\ at \in {"add", "exited"} => nativeDropped = 0

ConsumerInv ==
  /\ ConsumerTypeOK /\ OrderKept /\ DropsCounted /\ StopInOrder /\ HandsTell
  /\ AllHeld /\ EmptyStaysEmpty
-----------------------------------------------------------------------------
(* Sequences in order *)

LEMMA SeqHas ==
  ASSUME NEW S, NEW s \in Seq(S)
  PROVE  (\A k \in DOMAIN s : s[k] \in S) /\ (s # <<>> => Head(s) \in S /\ Tail(s) \in Seq(S))
  OBVIOUS

(* A larger number at the end keeps a sequence increasing ... *)
LEMMA AppendInOrder ==
  ASSUME NEW s \in Seq(Nat), NEW x \in Nat
  PROVE  /\ Append(s, x) \in Seq(Nat) /\ Len(Append(s, x)) = Len(s) + 1
         /\ Increasing(s) /\ (\A i \in DOMAIN s : s[i] < x) => Increasing(Append(s, x))
         /\ \A m \in Nat : UpTo(s, m) /\ x <= m => UpTo(Append(s, x), m)
         /\ \A r : Before(r, s) /\ (\A i \in DOMAIN r : r[i] < x) => Before(r, Append(s, x))
         /\ \A r : Before(s, r) /\ (\A i \in DOMAIN r : x < r[i]) => Before(Append(s, x), r)
  <1> DEFINE t == Append(s, x)
  <1>1. /\ t \in Seq(Nat) /\ Len(t) = Len(s) + 1 /\ Len(s) \in Nat
        /\ DOMAIN s = 1..Len(s) /\ DOMAIN t = 1..(Len(s) + 1)
        /\ \A i \in 1..Len(s) : t[i] = s[i] /\ s[i] \in Nat
        /\ t[Len(s) + 1] = x
    OBVIOUS
  <1> HIDE DEF t
  <1>2. ASSUME NEW i \in DOMAIN t
        PROVE  (i \in DOMAIN s /\ t[i] = s[i]) \/ (i = Len(s) + 1 /\ t[i] = x)
    <2>1. PICK n \in Nat : n = Len(s)
      BY <1>1
    <2>2. i \in 1..n \/ i = n + 1
      BY <1>1, <2>1
    <2> QED BY <1>1, <2>1, <2>2
  <1>3. Increasing(s) /\ (\A i \in DOMAIN s : s[i] < x) => Increasing(t)
    <2> SUFFICES ASSUME Increasing(s), \A i \in DOMAIN s : s[i] < x,
                        NEW i \in DOMAIN t, NEW j \in DOMAIN t, i < j
                 PROVE  t[i] < t[j]
      BY DEF Increasing
    <2>1. i \in DOMAIN s /\ t[i] = s[i]
      BY <1>1
    <2> QED BY <1>2, <2>1 DEF Increasing
  <1>4. \A m \in Nat : UpTo(s, m) /\ x <= m => UpTo(t, m)
    BY <1>2 DEF UpTo
  <1>5. \A r : Before(r, s) /\ (\A i \in DOMAIN r : r[i] < x) => Before(r, t)
    BY <1>2 DEF Before
  <1>6. \A r : Before(s, r) /\ (\A i \in DOMAIN r : x < r[i]) => Before(t, r)
    BY <1>2 DEF Before
  <1> QED BY <1>1, <1>3, <1>4, <1>5, <1>6 DEF t

(* ... and so does taking its first one. *)
LEMMA TailInOrder ==
  ASSUME NEW s \in Seq(Nat), s # <<>>
  PROVE  /\ Head(s) \in Nat /\ Tail(s) \in Seq(Nat) /\ Len(Tail(s)) = Len(s) - 1
         /\ Increasing(s) => /\ Increasing(Tail(s))
                             /\ \A i \in DOMAIN Tail(s) : Head(s) < Tail(s)[i]
         /\ \A m : UpTo(s, m) => UpTo(Tail(s), m) /\ Head(s) <= m
         /\ \A r : Before(r, s) => Before(r, Tail(s)) /\ \A i \in DOMAIN r : r[i] < Head(s)
         /\ \A r : Before(s, r) => Before(Tail(s), r) /\ \A i \in DOMAIN r : Head(s) < r[i]
  <1> DEFINE t == Tail(s)
             h == Head(s)
  <1>1. /\ t \in Seq(Nat) /\ Len(t) = Len(s) - 1 /\ Len(s) \in Nat /\ Len(s) >= 1
        /\ DOMAIN s = 1..Len(s) /\ DOMAIN t = 1..(Len(s) - 1)
        /\ h = s[1] /\ h \in Nat
        /\ \A i \in 1..(Len(s) - 1) : t[i] = s[i + 1]
    OBVIOUS
  <1> HIDE DEF t, h
  <1>2. 1 \in DOMAIN s /\ \A i \in DOMAIN t : i + 1 \in DOMAIN s /\ t[i] = s[i + 1] /\ 1 < i + 1
    BY SMTT(30), <1>1
  <1>3. Increasing(s) => Increasing(t) /\ \A i \in DOMAIN t : h < t[i]
    <2> SUFFICES ASSUME Increasing(s) PROVE Increasing(t) /\ \A i \in DOMAIN t : h < t[i]
      OBVIOUS
    <2>1. \A i \in DOMAIN t : h < t[i]
      BY <1>1, <1>2 DEF Increasing
    <2>2. \A i, j \in DOMAIN t : i < j => i + 1 < j + 1
      BY <1>1
    <2>3. Increasing(t)
      BY <1>2, <2>2 DEF Increasing
    <2> QED BY <2>1, <2>3
  <1>4. \A m : UpTo(s, m) => UpTo(t, m) /\ h <= m
    BY <1>1, <1>2 DEF UpTo
  <1>5. \A r : Before(r, s) => Before(r, t) /\ \A i \in DOMAIN r : r[i] < h
    BY <1>1, <1>2 DEF Before
  <1>6. \A r : Before(s, r) => Before(t, r) /\ \A i \in DOMAIN r : h < r[i]
    BY <1>1, <1>2 DEF Before
  <1> QED BY <1>1, <1>3, <1>4, <1>5, <1>6 DEF t, h

-----------------------------------------------------------------------------
(* What a step that leaves a part of the state alone keeps. *)

LEMMA OrderRests ==
  ASSUME OrderKept, UNCHANGED <<emitted, inFlight, handled, batch, queue>>
  PROVE  OrderKept'
  BY DEF OrderKept, LastOut, Increasing, Before, UpTo

LEMMA DropsRest ==
  ASSUME DropsCounted, UNCHANGED <<nativeDropped, taken, counted, totalDropped, first, reads>>
  PROVE  DropsCounted'
  BY DEF DropsCounted

LEMMA StopRests ==
  ASSUME StopInOrder, UNCHANGED <<sinkOn, bridgeOn, call, claimed, stopSet>>,
         UNCHANGED <<at, phase>>, inFlight' = NoNumber \/ sinkOn
  PROVE  StopInOrder'
  BY DEF StopInOrder, Stopping, LeftEarly

LEMMA HandsRest ==
  ASSUME HandsTell, UNCHANGED <<at, phase, batch, found, taken>>
  PROVE  HandsTell'
  BY DEF HandsTell

LEMMA HeldRests ==
  ASSUME UNCHANGED <<handled, batch, queue, inFlight, totalDropped>>
  PROVE  Held' = Held
  BY DEF Held

LEMMA EmptyRests ==
  ASSUME EmptyStaysEmpty,
         UNCHANGED <<sinkOn, discarded, phase, at, found, queue, nativeDropped>>
  PROVE  EmptyStaysEmpty'
  BY DEF EmptyStaysEmpty

(* The inductive facts, as each step uses them. *)
LEMMA ConsumerFacts ==
  ASSUME ConsumerInv
  PROVE  /\ handled \in Seq(Nat) /\ batch \in Seq(Nat) /\ queue \in Seq(Nat)
         /\ Len(handled) \in Nat /\ Len(batch) \in Nat /\ Len(queue) \in Nat
         /\ emitted \in Nat /\ inFlight \in Nat /\ totalDropped \in Nat /\ Held \in Nat
         /\ QueueSize \in Nat \ {0} /\ BatchSize \in Nat \ {0} /\ MaxRecords \in Nat
         /\ LastOut \in Int /\ NoNumber = 0
  <1>1. ASSUME NEW s \in Seq(1..MaxRecords) PROVE s \in Seq(Nat) /\ Len(s) \in Nat
    <2>1. 1..MaxRecords \subseteq Nat
      BY ConsumerAssumption
    <2>2. s \in Seq(Nat)
      BY <2>1, SeqMonotonic
    <2> QED BY <2>2
  <1>2. /\ handled \in Seq(1..MaxRecords) /\ batch \in Seq(1..MaxRecords)
        /\ queue \in Seq(1..MaxRecords) /\ emitted \in 0..MaxRecords
        /\ inFlight \in 0..MaxRecords /\ totalDropped \in Nat
    BY DEF ConsumerInv, ConsumerTypeOK
  <1>3. emitted \in Nat /\ inFlight \in Nat
    BY <1>2
  <1> QED BY <1>1, <1>2, <1>3, ConsumerAssumption DEF Held, LastOut, NoNumber

-----------------------------------------------------------------------------
(* Native threads *)

LEMMA EmitKeeps == ASSUME ConsumerInv, Emit PROVE ConsumerInv'
  <1>1. /\ sinkOn /\ inFlight = NoNumber /\ emitted < MaxRecords /\ emitted' = emitted + 1
        /\ inFlight' = IF bridgeOn THEN emitted + 1 ELSE NoNumber
        /\ UNCHANGED <<sinkOn, bridgeOn, queue, nativeDropped>> /\ UNCHANGED thread
        /\ UNCHANGED callVars /\ UNCHANGED reader /\ UNCHANGED history /\ UNCHANGED flags
    BY DEF Emit
  <1>2. /\ UNCHANGED <<handled, batch, queue, totalDropped, discarded, taken, counted>>
        /\ UNCHANGED <<at, phase, found, first, reads, call, claimed, stopSet>>
    BY <1>1 DEF thread, callVars, reader, history, flags
  <1>3. ConsumerTypeOK'
    BY SMTT(30), <1>1, <1>2, ConsumerFacts DEF ConsumerInv, ConsumerTypeOK, thread, callVars, reader, history, flags
  <1>4. OrderKept'
    <2>1. LastOut = emitted /\ LastOut' >= emitted /\ (inFlight' # NoNumber => inFlight' = emitted')
      BY <1>1, ConsumerFacts DEF LastOut
    <2>2. ASSUME NEW s \in Seq(Nat), UpTo(s, LastOut) PROVE UpTo(s, LastOut')
      <3>1. \A i \in DOMAIN s : s[i] \in Nat
        OBVIOUS
      <3>2. LastOut' \in Int
        BY <1>1, ConsumerFacts DEF LastOut
      <3> QED BY <2>1, <2>2, <3>1, <3>2, ConsumerFacts DEF UpTo
    <2> QED BY <1>2, <2>1, <2>2, ConsumerFacts DEF ConsumerInv, OrderKept
  <1>5. DropsCounted' /\ HandsTell' /\ EmptyStaysEmpty'
    BY <1>1, <1>2, DropsRest, HandsRest, EmptyRests DEF ConsumerInv
  <1>6. StopInOrder'
    BY <1>1, <1>2, StopRests DEF ConsumerInv
  <1>7. AllHeld'
    <2>1. bridgeOn => Held' = Held + 1
      BY SMTT(30), <1>1, <1>2, ConsumerFacts DEF Held
    <2> QED BY <1>1, <1>2, <2>1, ConsumerFacts DEF ConsumerInv, AllHeld, LeftEarly
  <1> QED BY <1>3, <1>4, <1>5, <1>6, <1>7 DEF ConsumerInv

LEMMA EnqueueRecordKeeps == ASSUME ConsumerInv, EnqueueRecord PROVE ConsumerInv'
  <1>1. /\ inFlight # NoNumber /\ inFlight' = NoNumber
        /\ \/ /\ HasRoom /\ queue' = Append(queue, inFlight)
              /\ UNCHANGED <<nativeDropped, totalDropped>>
           \/ /\ nativeDropped' = nativeDropped + 1 /\ totalDropped' = totalDropped + 1
              /\ queue' = queue
        /\ UNCHANGED <<sinkOn, bridgeOn, emitted, handled, discarded>> /\ UNCHANGED thread
        /\ UNCHANGED callVars /\ UNCHANGED reader /\ UNCHANGED flags
    BY DEF EnqueueRecord
  <1>2. /\ UNCHANGED <<batch, taken, counted, at, phase, found, first, reads, call, claimed, stopSet>>
    BY <1>1 DEF thread, callVars, reader, flags
  <1>3. OrderKept /\ inFlight = emitted /\ LastOut = emitted - 1 /\ LastOut' = emitted
        /\ sinkOn /\ inFlight \in 1..MaxRecords
    BY <1>1, ConsumerFacts DEF ConsumerInv, OrderKept, LastOut, StopInOrder, ConsumerTypeOK
  <1>4. ConsumerTypeOK'
    <2>1. queue' \in Seq(1..MaxRecords) /\ Len(queue') <= QueueSize
      <3>1. queue \in Seq(1..MaxRecords) /\ Len(queue) \in Nat /\ Len(queue) <= QueueSize
        BY DEF ConsumerInv, ConsumerTypeOK
      <3>2. CASE HasRoom /\ queue' = Append(queue, inFlight)
        <4>1. Len(queue) < QueueSize /\ QueueSize \in Nat
          BY <3>2, ConsumerFacts DEF HasRoom
        <4>2. Len(queue') = Len(queue) + 1 /\ queue' \in Seq(1..MaxRecords)
          BY <1>3, <3>1, <3>2
        <4> QED BY <3>1, <4>1, <4>2
      <3> QED BY <1>1, <3>1, <3>2
    <2>2. nativeDropped' \in Nat /\ totalDropped' \in Nat
      <3>1. nativeDropped \in Nat /\ totalDropped \in Nat
        BY DEF ConsumerInv, ConsumerTypeOK
      <3> QED BY <1>1, <3>1
    <2>3. inFlight' \in 0..MaxRecords
      BY <1>1, ConsumerFacts
    <2> QED BY <1>1, <2>1, <2>2, <2>3 DEF ConsumerInv, ConsumerTypeOK, thread, callVars, reader, flags
  <1>5. OrderKept'
    <2>1. ASSUME NEW s \in Seq(Nat), UpTo(s, LastOut)
          PROVE  UpTo(s, LastOut') /\ \A i \in DOMAIN s : s[i] < inFlight
      <3>1. \A i \in DOMAIN s : s[i] \in Nat
        OBVIOUS
      <3>2. PICK e \in Nat : e = emitted
        BY ConsumerFacts
      <3>3. \A i \in DOMAIN s : s[i] <= e - 1
        BY <1>3, <2>1, <3>2 DEF UpTo
      <3>4. \A i \in DOMAIN s : s[i] <= e /\ s[i] < e
        BY <3>1, <3>2, <3>3
      <3> QED BY <1>3, <3>2, <3>4 DEF UpTo
    <2>2. /\ Increasing(queue') /\ Before(handled, queue') /\ Before(batch, queue')
          /\ UpTo(queue', LastOut')
      <3>1. /\ Increasing(queue) /\ Before(handled, queue) /\ Before(batch, queue)
            /\ UpTo(queue, LastOut) /\ UpTo(handled, LastOut) /\ UpTo(batch, LastOut)
        BY <1>3 DEF OrderKept
      <3>2. CASE queue' = queue
        BY <2>1, <3>1, <3>2, ConsumerFacts
      <3>3. CASE queue' = Append(queue, inFlight)
        <4>1. inFlight <= LastOut' /\ LastOut' \in Nat
          BY <1>3, ConsumerFacts
        <4> QED BY <2>1, <3>1, <3>3, <4>1, AppendInOrder, ConsumerFacts
      <3> QED BY <1>1, <3>2, <3>3
    <2> QED BY <1>1, <1>2, <1>3, <2>1, <2>2, ConsumerFacts DEF OrderKept
  <1>6. DropsCounted'
    <2>1. totalDropped' >= totalDropped /\ nativeDropped' + taken + counted = totalDropped'
      <3>1. /\ nativeDropped \in Nat /\ taken \in Nat /\ counted \in Nat /\ totalDropped \in Nat
            /\ nativeDropped + taken + counted = totalDropped
        BY DEF ConsumerInv, DropsCounted, ConsumerTypeOK
      <3> QED BY <1>1, <3>1
    <2>2. \A i \in DOMAIN reads : reads[i] \in Nat
      BY DEF ConsumerInv, ConsumerTypeOK
    <2>3. totalDropped \in Nat /\ totalDropped' \in Nat
      BY <1>1, ConsumerFacts
    <2>4. \A i \in DOMAIN reads : reads[i] <= totalDropped'
      BY <2>1, <2>2, <2>3 DEF ConsumerInv, DropsCounted
    <2> QED BY <1>2, <2>1, <2>4 DEF ConsumerInv, DropsCounted
  <1>7. HandsTell' /\ StopInOrder'
    BY <1>1, <1>2, HandsRest, StopRests DEF ConsumerInv
  <1>8. EmptyStaysEmpty'
    BY <1>1, <1>3 DEF EmptyStaysEmpty
  <1>9. AllHeld'
    <2>1. Held' = Held
      <3>1. CASE queue' = queue /\ totalDropped' = totalDropped + 1
        BY SMTT(30), <1>1, <1>2, <3>1, ConsumerFacts DEF Held
      <3>2. CASE queue' = Append(queue, inFlight) /\ totalDropped' = totalDropped
        <4>1. Len(queue') = Len(queue) + 1
          BY <3>2, AppendInOrder, ConsumerFacts
        <4> QED BY <1>1, <1>2, <3>2, <4>1, ConsumerFacts DEF Held
      <3> QED BY <1>1, <3>1, <3>2
    <2> QED BY <1>1, <1>2, <2>1 DEF ConsumerInv, AllHeld, LeftEarly
  <1> QED BY <1>4, <1>5, <1>6, <1>7, <1>8, <1>9 DEF ConsumerInv

-----------------------------------------------------------------------------
(* The consumer thread *)

(* The thread may leave its loops: the flag goes down, and with it the last *)
(* thing the records' number could be compared with.                       *)
LEMMA PollKeeps == ASSUME ConsumerInv, Poll PROVE ConsumerInv'
  <1>1. /\ at = "wait" /\ batch = <<>> /\ taken = 0 /\ phase = "poll"
        /\ UNCHANGED <<sinkOn, emitted, inFlight, queue, nativeDropped, batch, taken, counted>>
        /\ UNCHANGED callVars /\ UNCHANGED reader /\ UNCHANGED history /\ UNCHANGED flags
        /\ \/ /\ ~stopSet /\ at' = "exited" /\ bridgeOn' = FALSE /\ UNCHANGED <<phase, found>>
           \/ /\ at' = "drain" /\ found' = FALSE /\ bridgeOn' = bridgeOn
              /\ phase' = IF stopSet THEN "final" ELSE "poll"
    <2>1. phase \in {"poll", "final", "last"}
      BY DEF ConsumerInv, ConsumerTypeOK
    <2> QED BY <2>1 DEF Poll, Exit, ConsumerInv, HandsTell
  <1>2. /\ UNCHANGED <<handled, totalDropped, discarded, first, reads, call, claimed, stopSet>>
    BY <1>1 DEF callVars, reader, history, flags
  <1>3. ConsumerTypeOK'
    BY <1>1 DEF ConsumerInv, ConsumerTypeOK, callVars, reader, history, flags
  <1>4. OrderKept' /\ DropsCounted'
    BY <1>1, <1>2, OrderRests, DropsRest DEF ConsumerInv
  <1>5. StopInOrder'
    BY <1>1, <1>2 DEF ConsumerInv, StopInOrder, Stopping, LeftEarly
  <1>6. HandsTell'
    BY <1>1 DEF HandsTell
  <1>7. AllHeld'
    <2>1. Held' = Held
      BY <1>1, <1>2, HeldRests
    <2> QED BY <1>1, <1>2, <2>1 DEF ConsumerInv, AllHeld, LeftEarly
  <1>8. EmptyStaysEmpty'
    BY <1>1, <1>2 DEF ConsumerInv, EmptyStaysEmpty
  <1> QED BY <1>3, <1>4, <1>5, <1>6, <1>7, <1>8 DEF ConsumerInv

LEMMA PopOneKeeps == ASSUME ConsumerInv, PopOne PROVE ConsumerInv'
  <1>1. /\ at = "drain" /\ queue # <<>> /\ Len(batch) < BatchSize
        /\ batch' = Append(batch, Head(queue)) /\ queue' = Tail(queue)
        /\ UNCHANGED <<sinkOn, bridgeOn, emitted, inFlight, nativeDropped, at, phase, found, taken,
                       counted>>
        /\ UNCHANGED callVars /\ UNCHANGED reader /\ UNCHANGED history /\ UNCHANGED flags
    BY DEF PopOne
  <1>2. /\ UNCHANGED <<handled, totalDropped, discarded, first, reads, call, claimed, stopSet>>
    BY <1>1 DEF callVars, reader, history, flags
  <1>3. PICK h \in 1..MaxRecords : h = Head(queue)
    <2>1. queue \in Seq(1..MaxRecords)
      BY DEF ConsumerInv, ConsumerTypeOK
    <2> QED BY <1>1, <2>1, SeqHas
  <1>4. /\ Len(batch') = Len(batch) + 1 /\ Len(queue') = Len(queue) - 1
        /\ h \in Nat /\ batch' = Append(batch, h)
    BY <1>1, <1>3, AppendInOrder, TailInOrder, ConsumerFacts
  <1>5. ConsumerTypeOK'
    <2>1. /\ queue \in Seq(1..MaxRecords) /\ batch \in Seq(1..MaxRecords) /\ Len(queue) <= QueueSize
      BY DEF ConsumerInv, ConsumerTypeOK
    <2>2. queue' \in Seq(1..MaxRecords) /\ batch' \in Seq(1..MaxRecords)
      BY <1>1, <1>3, <1>4, <2>1
    <2>3. Len(queue') <= QueueSize /\ Len(batch') <= BatchSize
      BY SMTT(30), <1>1, <1>4, <2>1, ConsumerFacts
    <2> QED BY <1>1, <2>2, <2>3 DEF ConsumerInv, ConsumerTypeOK, callVars, reader, history, flags
  <1>6. OrderKept'
    <2>1. /\ Increasing(handled) /\ Increasing(batch) /\ Increasing(queue) /\ LastOut' = LastOut
          /\ Before(handled, batch) /\ Before(handled, queue) /\ Before(batch, queue)
          /\ UpTo(handled, LastOut) /\ UpTo(batch, LastOut) /\ UpTo(queue, LastOut)
          /\ (inFlight' # NoNumber => inFlight' = emitted')
      BY <1>1 DEF ConsumerInv, OrderKept, LastOut
    <2>2. /\ Increasing(queue') /\ (\A i \in DOMAIN queue' : h < queue'[i])
          /\ UpTo(queue', LastOut) /\ h <= LastOut
          /\ Before(handled, queue') /\ (\A i \in DOMAIN handled : handled[i] < h)
          /\ Before(batch, queue') /\ (\A i \in DOMAIN batch : batch[i] < h)
      BY <1>1, <1>3, <2>1, TailInOrder, ConsumerFacts
    <2>3. /\ Increasing(batch') /\ Before(handled, batch') /\ Before(batch', queue')
      BY <1>4, <2>1, <2>2, AppendInOrder, ConsumerFacts
    <2>4. UpTo(batch', LastOut)
      <3>1. PICK m \in Nat : m = LastOut
        BY <1>4, <2>2, ConsumerFacts
      <3> QED BY <1>4, <2>1, <2>2, <3>1, AppendInOrder, ConsumerFacts
    <2> QED BY <1>1, <1>2, <2>1, <2>2, <2>3, <2>4 DEF OrderKept
  <1>7. DropsCounted' /\ StopInOrder'
    BY <1>1, <1>2, DropsRest, StopRests DEF ConsumerInv, StopInOrder
  <1>8. HandsTell'
    BY <1>1 DEF ConsumerInv, HandsTell
  <1>9. AllHeld'
    <2>1. Held' = Held
      BY <1>1, <1>2, <1>4, ConsumerFacts DEF Held
    <2> QED BY <1>1, <1>2, <2>1 DEF ConsumerInv, AllHeld, LeftEarly
  <1>10. EmptyStaysEmpty'
    BY <1>1, <1>2 DEF ConsumerInv, EmptyStaysEmpty, HandsTell
  <1> QED BY <1>5, <1>6, <1>7, <1>8, <1>9, <1>10 DEF ConsumerInv

LEMMA PopEndsKeeps == ASSUME ConsumerInv, PopEnds PROVE ConsumerInv'
  <1>1. /\ at = "drain" /\ at' = "deliver" /\ found' = (batch # <<>>)
        /\ batch = <<>> => queue = <<>>
        /\ UNCHANGED native /\ UNCHANGED <<nativeDropped, phase, batch, taken, counted>>
        /\ UNCHANGED callVars /\ UNCHANGED reader /\ UNCHANGED history /\ UNCHANGED flags
    <2>1. batch = <<>> => Len(batch) # BatchSize
      BY ConsumerFacts
    <2> QED BY <2>1 DEF PopEnds
  <1>2. /\ UNCHANGED <<sinkOn, bridgeOn, emitted, inFlight, queue>>
        /\ UNCHANGED <<handled, totalDropped, discarded, first, reads, call, claimed, stopSet>>
    BY <1>1 DEF native, callVars, reader, history, flags
  <1>3. ConsumerTypeOK'
    BY <1>1, <1>2 DEF ConsumerInv, ConsumerTypeOK, callVars, reader, history, flags
  <1>4. OrderKept' /\ DropsCounted'
    BY <1>1, <1>2, OrderRests, DropsRest DEF ConsumerInv
  <1>5. StopInOrder'
    BY <1>1, <1>2 DEF ConsumerInv, StopInOrder, Stopping, LeftEarly
  <1>6. HandsTell'
    BY <1>1 DEF ConsumerInv, HandsTell
  <1>7. AllHeld'
    <2>1. Held' = Held
      BY <1>1, <1>2, HeldRests
    <2> QED BY <1>1, <1>2, <2>1 DEF ConsumerInv, AllHeld, LeftEarly
  <1>8. EmptyStaysEmpty'
    BY <1>1, <1>2 DEF ConsumerInv, EmptyStaysEmpty, HandsTell
  <1> QED BY <1>3, <1>4, <1>5, <1>6, <1>7, <1>8 DEF ConsumerInv

(* How a drain returns: to its loop, to the last report, or out. *)
LEMMA ReturnsIs ==
  ASSUME ConsumerInv, NEW b \in BOOLEAN, Returns(b), at \in {"drain", "add"}
  PROVE  \/ phase = "poll" /\ at' = "wait" /\ UNCHANGED <<phase, found, bridgeOn>>
         \/ /\ phase = "final" /\ b /\ at' = "drain" /\ found' = FALSE
            /\ UNCHANGED <<phase, bridgeOn>>
         \/ phase = "final" /\ ~b /\ at' = "take" /\ phase' = "last" /\ UNCHANGED <<found, bridgeOn>>
         \/ /\ phase = "last" /\ at = "add" /\ at' = "exited" /\ bridgeOn' = FALSE
            /\ UNCHANGED <<phase, found>>
  <1>1. phase \in {"poll", "final", "last"} /\ (phase = "last" => at # "drain")
    BY DEF ConsumerInv, ConsumerTypeOK, HandsTell
  <1> QED BY <1>1 DEF Returns, Exit, DrainsAgain

(* Nothing about stopping depends on where the thread goes from there. *)
LEMMA StopWhileRunning ==
  ASSUME ConsumerInv, at # "exited", UNCHANGED <<sinkOn, call, claimed, stopSet, inFlight>>,
         phase' # "poll" => phase # "poll",
         bridgeOn' = bridgeOn \/ phase # "poll"
  PROVE  StopInOrder'
  BY DEF ConsumerInv, StopInOrder, Stopping, LeftEarly

LEMMA DrainFailsKeeps == ASSUME ConsumerInv, DrainFails PROVE ConsumerInv'
  <1>1. /\ at = "drain" /\ batch # <<>> /\ batch' = <<>> /\ Returns(FALSE) /\ queue' = queue
        /\ discarded' = discarded \cup {batch[k] : k \in DOMAIN batch}
        /\ UNCHANGED <<sinkOn, emitted, inFlight, nativeDropped, taken, counted, handled,
                       totalDropped>>
        /\ UNCHANGED callVars /\ UNCHANGED reader /\ UNCHANGED flags
    BY DEF DrainFails, QueueAfterFailure
  <1>2. UNCHANGED <<first, reads, call, claimed, stopSet>>
    BY <1>1 DEF callVars, reader, flags
  <1>3. \/ phase = "poll" /\ at' = "wait" /\ UNCHANGED <<phase, found, bridgeOn>>
        \/ phase = "final" /\ at' = "take" /\ phase' = "last" /\ UNCHANGED <<found, bridgeOn>>
    BY <1>1, ReturnsIs
  <1>4. batch \in Seq(1..MaxRecords) /\ \A k \in DOMAIN batch : batch[k] \in 1..MaxRecords
    <2>1. batch \in Seq(1..MaxRecords)
      BY DEF ConsumerInv, ConsumerTypeOK
    <2> QED BY <2>1, SeqHas
  <1>5. ConsumerTypeOK'
    <2>1. <<>> \in Seq(1..MaxRecords) /\ Len(<<>>) <= BatchSize
      BY ConsumerFacts
    <2>2. discarded' \subseteq 1..MaxRecords
      BY <1>1, <1>4 DEF ConsumerInv, ConsumerTypeOK
    <2> QED BY <1>1, <1>3, <2>1, <2>2 DEF ConsumerInv, ConsumerTypeOK, callVars, reader, flags
  <1>6. OrderKept'
    <2>1. Increasing(<<>>) /\ (\A r, m : Before(r, <<>>) /\ Before(<<>>, r) /\ UpTo(<<>>, m))
      BY DEF Increasing, Before, UpTo
    <2>2. LastOut' = LastOut
      BY <1>1 DEF LastOut
    <2> QED BY <1>1, <2>1, <2>2 DEF ConsumerInv, OrderKept
  <1>7. DropsCounted'
    BY <1>1, <1>2, DropsRest DEF ConsumerInv
  <1>8. StopInOrder'
    BY <1>1, <1>2, <1>3, StopWhileRunning
  <1>9. HandsTell'
    BY <1>1, <1>3 DEF ConsumerInv, HandsTell
  <1>10. discarded' # {}
    <2>1. Len(batch) # 0 /\ Len(batch) \in Nat
      BY <1>1, <1>4
    <2>2. 1 \in DOMAIN batch
      BY <1>4, <2>1
    <2> QED BY <1>1, <2>2
  <1>11. AllHeld' /\ EmptyStaysEmpty'
    BY <1>10 DEF AllHeld, EmptyStaysEmpty
  <1> QED BY <1>5, <1>6, <1>7, <1>8, <1>9, <1>11 DEF ConsumerInv

LEMMA DeliverKeeps == ASSUME ConsumerInv, Deliver PROVE ConsumerInv'
  <1>1. /\ at = "deliver" /\ batch # <<>>
        /\ handled' = Append(handled, Head(batch)) /\ batch' = Tail(batch)
        /\ UNCHANGED native /\ UNCHANGED <<nativeDropped, at, phase, found, taken, counted>>
        /\ UNCHANGED callVars /\ UNCHANGED reader /\ UNCHANGED <<discarded, totalDropped>>
        /\ UNCHANGED flags
    BY DEF Deliver
  <1>2. /\ UNCHANGED <<sinkOn, bridgeOn, emitted, inFlight, queue>>
        /\ UNCHANGED <<first, reads, call, claimed, stopSet>>
    BY <1>1 DEF native, callVars, reader, flags
  <1>3. PICK h \in 1..MaxRecords : h = Head(batch)
    <2>1. batch \in Seq(1..MaxRecords)
      BY DEF ConsumerInv, ConsumerTypeOK
    <2> QED BY <1>1, <2>1, SeqHas
  <1>4. /\ Len(handled') = Len(handled) + 1 /\ Len(batch') = Len(batch) - 1
        /\ h \in Nat /\ handled' = Append(handled, h)
    BY <1>1, <1>3, AppendInOrder, TailInOrder, ConsumerFacts
  <1>5. ConsumerTypeOK'
    <2>1. /\ handled \in Seq(1..MaxRecords) /\ batch \in Seq(1..MaxRecords)
          /\ Len(batch) <= BatchSize
      BY DEF ConsumerInv, ConsumerTypeOK
    <2>2. handled' \in Seq(1..MaxRecords) /\ batch' \in Seq(1..MaxRecords)
      BY <1>1, <1>3, <1>4, <2>1
    <2>3. Len(batch') <= BatchSize
      BY <1>1, <1>4, <2>1, ConsumerFacts
    <2> QED BY <1>1, <1>2, <2>2, <2>3 DEF ConsumerInv, ConsumerTypeOK, native, callVars, reader, flags
  <1>6. OrderKept'
    <2>1. /\ Increasing(handled) /\ Increasing(batch) /\ Increasing(queue) /\ LastOut' = LastOut
          /\ Before(handled, batch) /\ Before(handled, queue) /\ Before(batch, queue)
          /\ UpTo(handled, LastOut) /\ UpTo(batch, LastOut) /\ UpTo(queue, LastOut)
          /\ (inFlight' # NoNumber => inFlight' = emitted')
      BY <1>2 DEF ConsumerInv, OrderKept, LastOut
    <2>2. /\ Increasing(batch') /\ (\A i \in DOMAIN batch' : h < batch'[i])
          /\ UpTo(batch', LastOut) /\ h <= LastOut
          /\ Before(handled, batch') /\ (\A i \in DOMAIN handled : handled[i] < h)
          /\ Before(batch', queue) /\ (\A i \in DOMAIN queue : h < queue[i])
      BY <1>1, <1>3, <2>1, TailInOrder, ConsumerFacts
    <2>3. /\ Increasing(handled') /\ Before(handled', batch') /\ Before(handled', queue)
      BY <1>4, <2>1, <2>2, AppendInOrder, ConsumerFacts
    <2>4. UpTo(handled', LastOut)
      <3>1. PICK m \in Nat : m = LastOut
        BY <1>4, <2>2, ConsumerFacts
      <3> QED BY <1>4, <2>1, <2>2, <3>1, AppendInOrder, ConsumerFacts
    <2> QED BY <1>1, <1>2, <2>1, <2>2, <2>3, <2>4 DEF OrderKept
  <1>7. DropsCounted'
    BY <1>1, <1>2, DropsRest DEF ConsumerInv
  <1>8. StopInOrder'
    BY <1>1, <1>2, StopWhileRunning
  <1>9. HandsTell'
    <2>1. at = "deliver" /\ ~found => FALSE
      BY <1>1 DEF ConsumerInv, HandsTell
    <2> QED BY <1>1, <2>1 DEF ConsumerInv, HandsTell
  <1>10. AllHeld'
    <2>1. Held' = Held
      BY <1>1, <1>2, <1>4, ConsumerFacts DEF Held
    <2> QED BY <1>1, <1>2, <2>1 DEF ConsumerInv, AllHeld, LeftEarly
  <1>11. EmptyStaysEmpty'
    BY <1>1, <1>2, EmptyRests DEF ConsumerInv
  <1> QED BY <1>5, <1>6, <1>7, <1>8, <1>9, <1>10, <1>11 DEF ConsumerInv

LEMMA DeliveredKeeps == ASSUME ConsumerInv, Delivered PROVE ConsumerInv'
  <1>1. /\ at = "deliver" /\ batch = <<>> /\ at' = "take"
        /\ UNCHANGED native /\ UNCHANGED <<nativeDropped, phase, batch, found, taken, counted>>
        /\ UNCHANGED callVars /\ UNCHANGED reader /\ UNCHANGED history /\ UNCHANGED flags
    BY DEF Delivered
  <1>2. /\ UNCHANGED <<sinkOn, bridgeOn, emitted, inFlight, queue>>
        /\ UNCHANGED <<handled, totalDropped, discarded, first, reads, call, claimed, stopSet>>
    BY <1>1 DEF native, callVars, reader, history, flags
  <1>3. ConsumerTypeOK'
    BY <1>1, <1>2 DEF ConsumerInv, ConsumerTypeOK, callVars, reader, history, flags
  <1>4. OrderKept' /\ DropsCounted'
    BY <1>1, <1>2, OrderRests, DropsRest DEF ConsumerInv
  <1>5. StopInOrder'
    BY <1>1, <1>2, StopWhileRunning
  <1>6. HandsTell'
    BY <1>1 DEF ConsumerInv, HandsTell
  <1>7. AllHeld'
    <2>1. Held' = Held
      BY <1>1, <1>2, HeldRests
    <2> QED BY <1>1, <1>2, <2>1 DEF ConsumerInv, AllHeld, LeftEarly
  <1>8. EmptyStaysEmpty'
    BY <1>1, <1>2 DEF ConsumerInv, EmptyStaysEmpty, HandsTell
  <1> QED BY <1>3, <1>4, <1>5, <1>6, <1>7, <1>8 DEF ConsumerInv

LEMMA TakeDroppedKeeps == ASSUME ConsumerInv, TakeDropped PROVE ConsumerInv'
  <1>1. /\ at = "take" /\ at' = "add" /\ taken' = nativeDropped /\ nativeDropped' = 0
        /\ UNCHANGED native /\ UNCHANGED <<phase, batch, found, counted>>
        /\ UNCHANGED callVars /\ UNCHANGED reader /\ UNCHANGED history /\ UNCHANGED flags
    BY DEF TakeDropped, KeptByBridge
  <1>2. /\ UNCHANGED <<sinkOn, bridgeOn, emitted, inFlight, queue>>
        /\ UNCHANGED <<handled, totalDropped, discarded, first, reads, call, claimed, stopSet>>
    BY <1>1 DEF native, callVars, reader, history, flags
  <1>3. ConsumerTypeOK'
    BY <1>1, <1>2 DEF ConsumerInv, ConsumerTypeOK, callVars, reader, history, flags
  <1>4. OrderKept'
    BY <1>1, <1>2, OrderRests DEF ConsumerInv
  <1>5. DropsCounted'
    <2>1. taken = 0 /\ nativeDropped \in Nat /\ counted \in Nat
      BY <1>1 DEF ConsumerInv, HandsTell, ConsumerTypeOK
    <2> QED BY <1>1, <1>2, <2>1 DEF ConsumerInv, DropsCounted
  <1>6. StopInOrder'
    BY <1>1, <1>2, StopWhileRunning
  <1>7. HandsTell'
    BY <1>1 DEF ConsumerInv, HandsTell
  <1>8. AllHeld'
    <2>1. Held' = Held
      BY <1>1, <1>2, HeldRests
    <2> QED BY <1>1, <1>2, <2>1 DEF ConsumerInv, AllHeld, LeftEarly
  <1>9. EmptyStaysEmpty'
    BY <1>1, <1>2 DEF ConsumerInv, EmptyStaysEmpty
  <1> QED BY <1>3, <1>4, <1>5, <1>6, <1>7, <1>8, <1>9 DEF ConsumerInv

LEMMA AddDroppedKeeps == ASSUME ConsumerInv, AddDropped PROVE ConsumerInv'
  <1>1. /\ at = "add" /\ counted' = counted + taken /\ taken' = 0 /\ Returns(found)
        /\ UNCHANGED <<sinkOn, emitted, inFlight, queue, nativeDropped, batch>>
        /\ UNCHANGED callVars /\ UNCHANGED reader /\ UNCHANGED history /\ UNCHANGED flags
    BY DEF AddDropped
  <1>2. UNCHANGED <<handled, totalDropped, discarded, first, reads, call, claimed, stopSet>>
    BY <1>1 DEF callVars, reader, history, flags
  <1>3. \/ phase = "poll" /\ at' = "wait" /\ UNCHANGED <<phase, found, bridgeOn>>
        \/ /\ phase = "final" /\ found /\ at' = "drain" /\ found' = FALSE
           /\ UNCHANGED <<phase, bridgeOn>>
        \/ phase = "final" /\ ~found /\ at' = "take" /\ phase' = "last" /\ UNCHANGED <<found, bridgeOn>>
        \/ phase = "last" /\ at' = "exited" /\ bridgeOn' = FALSE /\ UNCHANGED <<phase, found>>
    <2>1. found \in BOOLEAN
      BY DEF ConsumerInv, ConsumerTypeOK
    <2> QED BY <1>1, <2>1, ReturnsIs
  <1>4. nativeDropped \in Nat /\ taken \in Nat /\ counted \in Nat /\ totalDropped \in Nat
    BY DEF ConsumerInv, ConsumerTypeOK
  <1>5. ConsumerTypeOK'
    <2>1. counted' \in Nat
      BY <1>1, <1>4
    <2> QED BY ZenonT(40), <1>1, <1>2, <1>3, <2>1 DEF ConsumerInv, ConsumerTypeOK, callVars, reader, history, flags
  <1>6. OrderKept'
    BY <1>1, <1>2, OrderRests DEF ConsumerInv
  <1>7. DropsCounted'
    <2>1. first \in Nat \cup {-1}
      BY DEF ConsumerInv, ConsumerTypeOK, NotReading
    <2> QED BY <1>1, <1>2, <1>4, <2>1 DEF ConsumerInv, DropsCounted
  <1>8. StopInOrder'
    BY <1>1, <1>2, <1>3, StopWhileRunning
  <1>9. HandsTell'
    BY <1>1, <1>3 DEF ConsumerInv, HandsTell
  <1>10. AllHeld'
    <2>1. Held' = Held
      BY <1>1, <1>2, HeldRests
    <2>2. ~LeftEarly
      BY <1>1 DEF LeftEarly
    <2>3. bridgeOn' => bridgeOn
      BY <1>3
    <2> QED BY <1>1, <1>2, <2>1, <2>2, <2>3 DEF ConsumerInv, AllHeld
  <1>11. EmptyStaysEmpty'
    BY <1>1, <1>2, <1>3 DEF ConsumerInv, EmptyStaysEmpty
  <1> QED BY <1>5, <1>6, <1>7, <1>8, <1>9, <1>10, <1>11 DEF ConsumerInv

-----------------------------------------------------------------------------
(* The shutdown calls *)

(* They touch the records' way only through the sink and the active flag.  *)
LEMMA CallKeeps ==
  ASSUME ConsumerInv, UNCHANGED <<emitted, inFlight, queue, nativeDropped>>,
         UNCHANGED thread, UNCHANGED reader, UNCHANGED history, ConsumerTypeOK',
         sinkOn' => sinkOn, ~sinkOn' => inFlight = NoNumber,
         bridgeOn' => bridgeOn, StopInOrder',
         sinkOn # sinkOn' => ~stopSet /\ (bridgeOn \/ LeftEarly)
  PROVE  ConsumerInv'
  <1>1. /\ UNCHANGED <<at, phase, batch, found, taken, counted, first, reads>>
        /\ UNCHANGED <<handled, discarded, totalDropped>>
    BY DEF thread, reader, history
  <1>2. OrderKept' /\ DropsCounted' /\ HandsTell'
    BY <1>1, OrderRests, DropsRest, HandsRest DEF ConsumerInv
  <1>3. AllHeld'
    <2>1. Held' = Held
      BY <1>1, HeldRests
    <2>2. LeftEarly' <=> LeftEarly
      BY <1>1 DEF LeftEarly
    <2>3. sinkOn \in BOOLEAN /\ sinkOn' \in BOOLEAN
      BY DEF ConsumerInv, ConsumerTypeOK
    <2> QED BY <1>1, <2>1, <2>2, <2>3 DEF ConsumerInv, AllHeld
  <1>4. EmptyStaysEmpty'
    <2>1. sinkOn \in BOOLEAN /\ sinkOn' \in BOOLEAN
      BY DEF ConsumerInv, ConsumerTypeOK
    <2>2. sinkOn # sinkOn' => phase = "poll"
      BY DEF ConsumerInv, StopInOrder
    <2> QED BY <1>1, <2>1, <2>2 DEF ConsumerInv, EmptyStaysEmpty
  <1> QED BY <1>2, <1>3, <1>4 DEF ConsumerInv

LEMMA CallTyped ==
  ASSUME ConsumerInv, NEW t \in Callers, NEW s \in Steps, call' = [call EXCEPT ![t] = s]
  PROVE  call' \in [Callers -> Steps]
  BY DEF ConsumerInv, ConsumerTypeOK

LEMMA BeginShutdownKeeps ==
  ASSUME ConsumerInv, NEW t \in Callers, NEW s \in {"lock", "claim"}, BeginShutdown(t, s)
  PROVE  ConsumerInv'
  <1>1. /\ call' = [call EXCEPT ![t] = s] /\ calls' = calls + 1 /\ calls < MaxCalls
        /\ UNCHANGED native /\ UNCHANGED nativeDropped /\ UNCHANGED thread
        /\ UNCHANGED <<lock, instance, claimed, nativeStops>>
        /\ UNCHANGED reader /\ UNCHANGED history /\ UNCHANGED flags
    BY DEF BeginShutdown
  <1>2. UNCHANGED <<sinkOn, bridgeOn, emitted, inFlight, queue, stopSet, at, phase>>
    BY <1>1 DEF native, flags, thread
  <1>3. ConsumerTypeOK'
    BY <1>1, <1>2, ConsumerAssumption
       DEF ConsumerInv, ConsumerTypeOK, Steps, thread, reader, history, flags
  <1>4. \A u \in Callers : call'[u] \in Stopping => call[u] = call'[u]
    BY <1>1 DEF ConsumerInv, ConsumerTypeOK, Stopping
  <1>5. StopInOrder'
    BY <1>1, <1>2, <1>4 DEF ConsumerInv, StopInOrder, Stopping, LeftEarly
  <1>6. ~sinkOn => inFlight = NoNumber
    BY DEF ConsumerInv, StopInOrder
  <1> QED BY <1>1, <1>2, <1>3, <1>5, <1>6, CallKeeps

LEMMA AcquireLockKeeps ==
  ASSUME ConsumerInv, NEW t \in Callers, AcquireLock(t)
  PROVE  ConsumerInv'
  <1>1. PICK s \in {"claim", "idle"} : call' = [call EXCEPT ![t] = s]
    BY DEF AcquireLock
  <1>2. /\ UNCHANGED native /\ UNCHANGED nativeDropped /\ UNCHANGED thread
        /\ UNCHANGED <<instance, claimed, calls, nativeStops>>
        /\ UNCHANGED reader /\ UNCHANGED history /\ UNCHANGED flags /\ lock' \in {lock, t}
    BY DEF AcquireLock
  <1>3. UNCHANGED <<sinkOn, bridgeOn, emitted, inFlight, queue, stopSet, at, phase>>
    BY <1>2 DEF native, flags, thread
  <1>4. ConsumerTypeOK'
    BY <1>1, <1>2, <1>3 DEF ConsumerInv, ConsumerTypeOK, Steps, thread, reader, history, flags
  <1>5. \A u \in Callers : call'[u] \in Stopping => call[u] = call'[u]
    BY <1>1 DEF ConsumerInv, ConsumerTypeOK, Stopping
  <1>6. StopInOrder'
    BY <1>2, <1>3, <1>5 DEF ConsumerInv, StopInOrder, Stopping, LeftEarly
  <1>7. ~sinkOn => inFlight = NoNumber
    BY DEF ConsumerInv, StopInOrder
  <1> QED BY <1>2, <1>3, <1>4, <1>6, <1>7, CallKeeps

LEMMA ClaimKeeps ==
  ASSUME ConsumerInv, NEW t \in Callers, Claim(t)
  PROVE  ConsumerInv'
  <1>1. /\ call[t] = "claim" /\ claimed'
        /\ call' = [call EXCEPT ![t] = IF ~claimed THEN "native" ELSE "unlock"]
        /\ UNCHANGED native /\ UNCHANGED nativeDropped /\ UNCHANGED thread
        /\ UNCHANGED <<lock, instance, calls, nativeStops>>
        /\ UNCHANGED reader /\ UNCHANGED history /\ UNCHANGED flags
    BY DEF Claim, FirstToShutDown
  <1>2. UNCHANGED <<sinkOn, bridgeOn, emitted, inFlight, queue, stopSet, at, phase>>
    BY <1>1 DEF native, flags, thread
  <1>3. ConsumerTypeOK'
    <2>1. claimed' \in BOOLEAN
      BY DEF Claim
    <2>2. call' \in [Callers -> Steps]
      BY <1>1 DEF ConsumerInv, ConsumerTypeOK, Steps
    <2> QED BY <1>1, <1>2, <2>1, <2>2 DEF ConsumerInv, ConsumerTypeOK, thread, reader, history, flags
  <1>4. CASE claimed
    <2>1. \A u \in Callers : call'[u] \in Stopping => call[u] = call'[u]
      BY <1>1, <1>4 DEF ConsumerInv, ConsumerTypeOK, Stopping
    <2>2. StopInOrder'
      BY <1>1, <1>2, <1>4, <2>1 DEF ConsumerInv, StopInOrder, Stopping, LeftEarly
    <2>3. ~sinkOn => inFlight = NoNumber
      BY DEF ConsumerInv, StopInOrder
    <2> QED BY <1>1, <1>2, <1>3, <2>2, <2>3, CallKeeps
  <1>5. CASE ~claimed
    <2>1. /\ call'[t] = "native" /\ \A u \in Callers \ {t} : call'[u] = call[u]
      BY <1>1, <1>5 DEF ConsumerInv, ConsumerTypeOK
    <2>2. \A u \in Callers : call[u] \notin Stopping
      BY <1>5 DEF ConsumerInv, StopInOrder
    <2>3. \A u \in Callers : call'[u] \in Stopping => u = t
      BY <2>1, <2>2
    <2>4. StopInOrder'
      BY <1>1, <1>2, <1>5, <2>1, <2>3 DEF ConsumerInv, StopInOrder, LeftEarly
    <2>5. ~sinkOn => inFlight = NoNumber
      BY DEF ConsumerInv, StopInOrder
    <2> QED BY <1>1, <1>2, <1>3, <2>4, <2>5, CallKeeps
  <1> QED BY <1>4, <1>5

LEMMA NativeShutdownKeeps ==
  ASSUME ConsumerInv, NEW t \in Callers, NativeShutdown(t)
  PROVE  ConsumerInv'
  <1>1. /\ call[t] = "native" /\ call' = [call EXCEPT ![t] = "deactivate"]
        /\ \/ inFlight = NoNumber /\ sinkOn' = FALSE
           \/ sinkOn' = sinkOn
        /\ nativeStops' = nativeStops + 1
        /\ UNCHANGED <<bridgeOn, emitted, inFlight, queue, nativeDropped, lock, instance, claimed,
                       calls>>
        /\ UNCHANGED thread /\ UNCHANGED reader /\ UNCHANGED history /\ UNCHANGED flags
    BY DEF NativeShutdown
  <1>2. UNCHANGED <<stopSet, at, phase>>
    BY <1>1 DEF flags, thread
  <1>3. ConsumerTypeOK'
    <2>1. sinkOn' \in BOOLEAN /\ nativeStops' \in Nat /\ call' \in [Callers -> Steps]
      <3>1. sinkOn' \in BOOLEAN
        BY <1>1 DEF ConsumerInv, ConsumerTypeOK
      <3>2. nativeStops' \in Nat
        BY <1>1 DEF ConsumerInv, ConsumerTypeOK
      <3> QED BY <1>1, <3>1, <3>2, CallTyped DEF Steps
    <2> QED BY <1>1, <2>1 DEF ConsumerInv, ConsumerTypeOK, thread, reader, history, flags
  <1>4. claimed /\ ~stopSet /\ sinkOn /\ (bridgeOn \/ LeftEarly)
    BY <1>1 DEF ConsumerInv, StopInOrder, Stopping
  <1>5. call'[t] = "deactivate" /\ \A u \in Callers \ {t} : call'[u] = call[u]
    BY <1>1 DEF ConsumerInv, ConsumerTypeOK
  <1>6. \A u \in Callers : call'[u] \in Stopping <=> u = t
    BY <1>1, <1>5 DEF ConsumerInv, StopInOrder, Stopping
  <1>7. StopInOrder'
    <2>1. \A u \in Callers : call'[u] # "native"
      BY <1>5, <1>6 DEF Stopping
    <2>2. ~sinkOn' => inFlight' = NoNumber
      BY <1>1, <1>4
    <2> QED BY <1>1, <1>2, <1>4, <1>6, <2>1, <2>2 DEF ConsumerInv, StopInOrder
  <1>8. sinkOn' => sinkOn
    BY <1>4
  <1>9. ~sinkOn' => inFlight = NoNumber
    BY <1>1, <1>4
  <1> QED BY <1>1, <1>3, <1>4, <1>7, <1>8, <1>9, CallKeeps

LEMMA DeactivateBridgeKeeps ==
  ASSUME ConsumerInv, NEW t \in Callers, DeactivateBridge(t)
  PROVE  ConsumerInv'
  <1>1. /\ call[t] = "deactivate" /\ call' = [call EXCEPT ![t] = "set"] /\ bridgeOn' = FALSE
        /\ UNCHANGED <<sinkOn, emitted, inFlight, queue, nativeDropped, lock, instance, claimed,
                       calls, nativeStops>>
        /\ UNCHANGED thread /\ UNCHANGED reader /\ UNCHANGED history /\ UNCHANGED flags
    BY DEF DeactivateBridge
  <1>2. UNCHANGED <<stopSet, at, phase>>
    BY <1>1 DEF flags, thread
  <1>3. ConsumerTypeOK'
    <2>1. bridgeOn' \in BOOLEAN
      BY <1>1
    <2>2. call' \in [Callers -> Steps]
      BY <1>1, CallTyped DEF Steps
    <2> QED BY <1>1, <2>1, <2>2 DEF ConsumerInv, ConsumerTypeOK, thread, reader, history, flags
  <1>4. claimed /\ ~stopSet
    BY <1>1 DEF ConsumerInv, StopInOrder, Stopping
  <1>5. call'[t] = "set" /\ \A u \in Callers \ {t} : call'[u] = call[u]
    BY <1>1 DEF ConsumerInv, ConsumerTypeOK
  <1>6. \A u \in Callers : call'[u] \in Stopping <=> u = t
    BY <1>1, <1>5 DEF ConsumerInv, StopInOrder, Stopping
  <1>7. StopInOrder'
    <2>1. \A u \in Callers : call'[u] # "native"
      BY <1>5, <1>6 DEF Stopping
    <2> QED BY <1>1, <1>2, <1>4, <1>6, <2>1 DEF ConsumerInv, StopInOrder
  <1>8. ~sinkOn => inFlight = NoNumber
    BY DEF ConsumerInv, StopInOrder
  <1> QED BY <1>1, <1>3, <1>7, <1>8, CallKeeps

LEMMA SetStopKeeps ==
  ASSUME ConsumerInv, NEW t \in Callers, SetStop(t)
  PROVE  ConsumerInv'
  <1>1. /\ call[t] = "set" /\ stopSet' = TRUE
        /\ UNCHANGED native /\ UNCHANGED thread
        /\ UNCHANGED <<nativeDropped, lock, instance, claimed, calls, nativeStops, finalizing>>
        /\ UNCHANGED reader /\ UNCHANGED history
    BY DEF SetStop
  <1>2. PICK s \in {"unlock", "join"} : call' = [call EXCEPT ![t] = s]
    BY DEF SetStop
  <1>3. UNCHANGED <<sinkOn, bridgeOn, emitted, inFlight, queue, at, phase>>
    BY <1>1 DEF native, thread
  <1>4. ConsumerTypeOK'
    BY <1>1, <1>2, <1>3 DEF ConsumerInv, ConsumerTypeOK, Steps, thread, reader, history
  <1>5. claimed
    BY <1>1 DEF ConsumerInv, StopInOrder, Stopping
  <1>6. \A u \in Callers : call'[u] \notin Stopping
    <2>1. call'[t] = s /\ \A u \in Callers \ {t} : call'[u] = call[u]
      BY <1>2 DEF ConsumerInv, ConsumerTypeOK
    <2> QED BY <1>1, <2>1 DEF ConsumerInv, StopInOrder, Stopping
  <1>7. StopInOrder'
    <2>1. \A u \in Callers : call'[u] # "native"
      BY <1>6 DEF Stopping
    <2> QED BY <1>1, <1>3, <1>5, <1>6, <2>1 DEF ConsumerInv, StopInOrder
  <1>8. ~sinkOn => inFlight = NoNumber
    BY DEF ConsumerInv, StopInOrder
  <1> QED BY <1>1, <1>3, <1>4, <1>7, <1>8, CallKeeps

LEMMA LeaveKeeps ==
  ASSUME ConsumerInv, NEW t \in Callers, Join(t) \/ Unlock(t)
  PROVE  ConsumerInv'
  <1>1. PICK s \in {"unlock", "idle"} : call' = [call EXCEPT ![t] = s]
    BY DEF Join, Unlock
  <1>2. /\ UNCHANGED native /\ UNCHANGED thread /\ UNCHANGED <<nativeDropped, claimed, calls,
                                                               nativeStops>>
        /\ UNCHANGED reader /\ UNCHANGED history /\ UNCHANGED flags
        /\ lock' \in {lock, NoOwner} /\ instance' \in {instance, FALSE}
    BY DEF Join, Unlock
  <1>3. UNCHANGED <<sinkOn, bridgeOn, emitted, inFlight, queue, stopSet, at, phase>>
    BY <1>2 DEF native, flags, thread
  <1>4. ConsumerTypeOK'
    <2>1. call' \in [Callers -> Steps]
      BY <1>1, CallTyped DEF Steps
    <2>2. lock' \in Callers \cup {NoOwner}
      BY <1>2 DEF ConsumerInv, ConsumerTypeOK
    <2>3. instance' \in BOOLEAN
      BY <1>2 DEF ConsumerInv, ConsumerTypeOK
    <2> QED BY <1>2, <1>3, <2>1, <2>2, <2>3
        DEF ConsumerInv, ConsumerTypeOK, thread, reader, history, flags
  <1>5. \A u \in Callers : call'[u] \in Stopping => call[u] = call'[u]
    BY <1>1 DEF ConsumerInv, ConsumerTypeOK, Stopping
  <1>6. StopInOrder'
    BY <1>2, <1>3, <1>5 DEF ConsumerInv, StopInOrder, Stopping, LeftEarly
  <1>7. ~sinkOn => inFlight = NoNumber
    BY DEF ConsumerInv, StopInOrder
  <1> QED BY <1>2, <1>3, <1>4, <1>6, <1>7, CallKeeps

-----------------------------------------------------------------------------
(* The reader of the count, the exit of the interpreter, and stuttering *)

LEMMA ReadKeeps ==
  ASSUME ConsumerInv, ReadFirst \/ ReadSecond \/ Finalize \/ UNCHANGED vars
  PROVE  ConsumerInv'
  <1>1. /\ UNCHANGED native /\ UNCHANGED nativeDropped /\ UNCHANGED thread /\ UNCHANGED callVars
        /\ UNCHANGED history /\ stopSet' = stopSet /\ finalizing' \in {finalizing, TRUE}
    BY DEF ReadFirst, ReadSecond, Finalize, vars, flags
  <1>2. /\ UNCHANGED <<sinkOn, bridgeOn, emitted, inFlight, queue, at, phase, batch, found>>
        /\ UNCHANGED <<taken, counted, call, claimed, handled, discarded, totalDropped>>
    BY <1>1 DEF native, thread, callVars, history
  <1>3. /\ nativeDropped \in Nat /\ taken \in Nat /\ counted \in Nat /\ totalDropped \in Nat
        /\ nativeDropped + taken + counted = totalDropped
        /\ reads \in Seq(Nat) /\ first \in Nat \cup {-1} /\ first <= counted
        /\ \A i \in DOMAIN reads : reads[i] <= totalDropped
    BY DEF ConsumerInv, ConsumerTypeOK, DropsCounted, NotReading
  <1>4. /\ reads' \in Seq(Nat) /\ first' \in Nat \cup {-1} /\ first' <= counted
        /\ \A i \in DOMAIN reads' : reads'[i] <= totalDropped
    <2>1. CASE UNCHANGED reader
      BY <1>3, <2>1 DEF reader
    <2>2. CASE ReadFirst
      BY <1>3, <2>2 DEF ReadFirst, Counters
    <2>3. CASE ReadSecond
      <3>1. PICK n \in Nat : n = IF at = "exited" THEN counted ELSE first + nativeDropped
        BY <1>3, <2>3 DEF ReadSecond, NotReading
      <3>2. n <= totalDropped
        BY <1>3, <3>1
      <3>3. reads' = Append(reads, n) /\ first' = -1
        BY <2>3, <3>1 DEF ReadSecond, Counters, NotReading
      <3>4. \A i \in DOMAIN reads' : (i \in DOMAIN reads /\ reads'[i] = reads[i]) \/ reads'[i] = n
        BY <1>3, <3>3
      <3> QED BY <1>3, <3>2, <3>3, <3>4
    <2> QED BY <2>1, <2>2, <2>3 DEF Finalize, vars
  <1>5. ConsumerTypeOK'
    <2>1. first' \in Nat \cup {NotReading}
      BY <1>4 DEF NotReading
    <2>2. finalizing' \in BOOLEAN
      BY <1>1 DEF ConsumerInv, ConsumerTypeOK
    <2> QED BY <1>1, <1>2, <1>4, <2>1, <2>2 DEF ConsumerInv, ConsumerTypeOK, callVars, history
  <1>6. OrderKept' /\ HandsTell' /\ EmptyStaysEmpty'
    BY <1>1, <1>2, OrderRests, HandsRest, EmptyRests DEF ConsumerInv
  <1>7. DropsCounted'
    BY <1>1, <1>2, <1>3, <1>4 DEF DropsCounted
  <1>8. StopInOrder'
    BY <1>1, <1>2 DEF ConsumerInv, StopInOrder, Stopping, LeftEarly
  <1>9. AllHeld'
    <2>1. Held' = Held
      BY <1>2, HeldRests
    <2> QED BY <1>2, <2>1 DEF ConsumerInv, AllHeld, LeftEarly
  <1> QED BY <1>5, <1>6, <1>7, <1>8, <1>9 DEF ConsumerInv

-----------------------------------------------------------------------------
LEMMA InitOfConsumer == ConsumerInit => ConsumerInv
  <1> SUFFICES ASSUME ConsumerInit PROVE ConsumerInv
    OBVIOUS
  <1> USE ConsumerAssumption
  <1>1. ConsumerTypeOK
    <2>1. /\ \A S : <<>> \in Seq(S) /\ Len(<<>>) = 0
          /\ emitted \in 0..MaxRecords /\ inFlight \in 0..MaxRecords /\ calls \in 0..MaxCalls
          /\ first \in Nat \cup {NotReading}
      BY DEF ConsumerInit, NoNumber
    <2>2. call \in [Callers -> Steps]
      BY DEF ConsumerInit, Steps
    <2>3. /\ queue = <<>> /\ batch = <<>> /\ reads = <<>> /\ handled = <<>> /\ discarded = {}
          /\ nativeDropped = 0 /\ taken = 0 /\ counted = 0 /\ totalDropped = 0 /\ nativeStops = 0
          /\ at = "wait" /\ phase = "poll" /\ lock = NoOwner
      BY DEF ConsumerInit
    <2>4. /\ sinkOn \in BOOLEAN /\ bridgeOn \in BOOLEAN /\ found \in BOOLEAN /\ stopSet \in BOOLEAN
          /\ finalizing \in BOOLEAN /\ instance \in BOOLEAN /\ claimed \in BOOLEAN
      BY DEF ConsumerInit
    <2> QED BY <2>1, <2>2, <2>3, <2>4 DEF ConsumerTypeOK
  <1>2. OrderKept
    BY DEF ConsumerInit, OrderKept, Increasing, Before, UpTo
  <1>3. DropsCounted /\ StopInOrder /\ HandsTell
    BY DEF ConsumerInit, DropsCounted, NotReading, StopInOrder, Stopping, HandsTell
  <1>4. AllHeld /\ EmptyStaysEmpty
    BY DEF ConsumerInit, AllHeld, Held, EmptyStaysEmpty
  <1> QED BY <1>1, <1>2, <1>3, <1>4 DEF ConsumerInv

LEMMA NextOfConsumer == ASSUME ConsumerInv, [ConsumerNext]_vars PROVE ConsumerInv'
  <1>1. ASSUME Producer PROVE ConsumerInv'
    BY <1>1, EmitKeeps, EnqueueRecordKeeps DEF Producer
  <1>2. ASSUME Run PROVE ConsumerInv'
    BY <1>2, PollKeeps, PopOneKeeps, PopEndsKeeps, DrainFailsKeeps, DeliverKeeps, DeliveredKeeps,
       TakeDroppedKeeps, AddDroppedKeeps DEF Run, Draining
  <1>3. ASSUME NEW t \in Callers, CallStep(t) PROVE ConsumerInv'
    BY <1>3, AcquireLockKeeps, ClaimKeeps, NativeShutdownKeeps, DeactivateBridgeKeeps, SetStopKeeps,
       LeaveKeeps DEF CallStep
  <1> QED BY <1>1, <1>2, <1>3, BeginShutdownKeeps, ReadKeeps DEF ConsumerNext, Reading

(* The inductive invariant holds in every state. *)
THEOREM ConsumerInvariant == ConsumerSpec => []ConsumerInv
  BY InitOfConsumer, NextOfConsumer, PTL DEF ConsumerSpec

(* Whatever the consumer, native and the callers of shutdown() do, in      *)
(* whatever order, every record that native logged before it let go of the *)
(* sink is handled, in order, or counted as dropped once                   *)
(* (NativeLogConsumer._run and stop).                                      *)
THEOREM NothingIsLost == ConsumerSpec => []NothingLost
  <1>1. ConsumerInv => NothingLost
    <2> SUFFICES ASSUME ConsumerInv PROVE NothingLost
      OBVIOUS
    <2>1. /\ nativeDropped \in Nat /\ taken \in Nat /\ counted \in Nat /\ totalDropped \in Nat
          /\ nativeDropped + taken + counted = totalDropped
      BY DEF ConsumerInv, ConsumerTypeOK, DropsCounted
    <2>2. NothingStranded
      <3> SUFFICES ASSUME at = "exited", phase = "last", ~sinkOn, discarded = {}
                   PROVE  /\ queue = <<>> /\ inFlight = NoNumber /\ counted = totalDropped
                          /\ Len(handled) + counted = emitted
        BY DEF NothingStranded
      <3>1. /\ queue = <<>> /\ inFlight = NoNumber /\ batch = <<>> /\ taken = 0
            /\ nativeDropped = 0 /\ Held = emitted
        BY DEF ConsumerInv, EmptyStaysEmpty, StopInOrder, HandsTell, AllHeld, LeftEarly
      <3>2. Len(<<>>) = 0
        OBVIOUS
      <3> QED BY <2>1, <3>1, <3>2, ConsumerFacts DEF Held
    <2>3. HandledInOrder /\ DropsNotOverstated
      BY <2>1 DEF ConsumerInv, OrderKept, Increasing, HandledInOrder, DropsCounted,
                  DropsNotOverstated
    <2> QED BY <2>2, <2>3 DEF ConsumerInv, NothingLost
  <1> QED BY <1>1, ConsumerInvariant, PTL

-----------------------------------------------------------------------------
(* The inductive invariant of the ring *)

(* The positions below Freed have their cell free again. *)
Freed == IF consumer = "copy" THEN dequeuePos - 1 ELSE dequeuePos

Fills(p, q) == pc[p] = "fill" /\ pos[p] = q

(* A lap never catches up with the one before. *)
Window ==
  /\ consumer = "copy" => dequeuePos >= 1
  /\ dequeuePos <= enqueuePos /\ enqueuePos <= Freed + Capacity

(* The cell of a position tells whether it is free, claimed or published.  *)
CellsTell ==
  \A q \in Freed..(Freed + Capacity - 1) :
    /\ q >= enqueuePos => cellSeq[Cell(q)] = q
    /\ q < enqueuePos => \/ /\ \E p \in Producers : Fills(p, q)
                            /\ cellSeq[Cell(q)] = q
                         \/ /\ \A p \in Producers : ~Fills(p, q)
                            /\ cellSeq[Cell(q)] = q + 1
                            /\ cellRec[Cell(q)] \in Records

(* A claimed position belongs to one producer. *)
ClaimsApart ==
  \A p \in Producers :
    /\ pc[p] = "fill" => /\ pos[p] \in Positions
                         /\ \A o \in Producers : Fills(o, pos[p]) => o = p
    /\ pc[p] \in {"look", "claim"} => pos[p] <= enqueuePos
    /\ pc[p] = "claim" => pos[p] < Freed + Capacity

(* A producer offers its own records, one after the other. *)
OwnRecord ==
  \A p \in Producers : \/ rec[p] = NoRecord /\ pc[p] = "idle"
                       \/ rec[p] \in Records /\ rec[p].from = p

(* The record of each position claimed so far. *)
Line == [q \in 0..(enqueuePos - 1) |->
           IF q < Freed THEN delivered[q + 1] ELSE RecordAt(q)]

(* In the line each producer's records are in order, and what it has in    *)
(* hand comes after them, or was lost.                                     *)
LineInOrder ==
  /\ Len(delivered) = Freed
  /\ consumer = "release" => dequeuePos >= 1 /\ copied = Line[dequeuePos - 1]
  /\ \A q, r \in DOMAIN Line :
       q < r /\ Line[q].from = Line[r].from => Line[q].num < Line[r].num
  /\ \A p \in Producers, q \in DOMAIN Line : Line[q].from = p =>
       /\ Line[q].num <= rec[p].num
       /\ pc[p] \notin {"idle", "fill"} => Line[q].num < rec[p].num
  /\ \A r \in dropped : /\ r.num <= rec[r.from].num
                        /\ pc[r.from] # "idle" => r.num < rec[r.from].num

(* The byte counter is what the reserved records weigh. *)
BytesAdd == IsFiniteSet(Reserved) /\ ByteBudget

RingInv  == Window /\ CellsTell /\ ClaimsApart /\ OwnRecord /\ LineInOrder
QueueInv == TypeOK /\ RingInv /\ BytesAdd

-----------------------------------------------------------------------------
(* Sums over finite sets of records *)

(* A non-empty collection of finite sets has a smallest member: what       *)
(* induction over finite sets says, without an operator for the property.  *)
LEMMA SmallestSet ==
  ASSUME NEW S, NEW T \in SUBSET FiniteSubsetsOf(S), T # {}
  PROVE  \E U \in T : \A V \in T : V \subseteq U => V = U
  <1>1. \E x \in T : \A y \in T : <<y, x>> \notin StrictSubsetOrdering(S)
    BY WFMin, FS_StrictSubsetOrderingWellFounded
  <1> QED BY <1>1 DEF StrictSubsetOrdering, FiniteSubsetsOf

(* g is the function by which the fold of Bytes computes the sum over U.   *)
Any(s) == CHOOSE r \in s : TRUE
Weighs(g, U) == g = [s \in SUBSET U |-> IF s = {} THEN 0
                                        ELSE g[s \ {Any(s)}] + Any(s).size]

LEMMA BytesByFold == ASSUME NEW U
                     PROVE  Channel!Bytes(U) = (CHOOSE g : Weighs(g, U))[U]
  BY DEF Channel!Bytes, Channel!FoldSet, Channel!MapThenFoldSet, Weighs, Any

LEMMA WeightIsUnique ==
  ASSUME NEW U, NEW V, NEW g, NEW h, Weighs(g, U), Weighs(h, V),
         NEW s, s \subseteq U, s \subseteq V, IsFiniteSet(s)
  PROVE  g[s] = h[s]
  <1> DEFINE T == {t \in FiniteSubsetsOf(s) : g[t] # h[t]}
  <1>1. s \in FiniteSubsetsOf(s)
    BY DEF FiniteSubsetsOf
  <1>2. CASE T # {}
    <2>1. PICK t \in T : \A v \in T : v \subseteq t => v = t
      <3>1. T \in SUBSET FiniteSubsetsOf(s)
        OBVIOUS
      <3> HIDE DEF T
      <3> QED BY <1>2, <3>1, SmallestSet
    <2>2. t \subseteq s /\ IsFiniteSet(t) /\ g[t] # h[t]
      BY <2>1 DEF FiniteSubsetsOf
    <2>3. t # {}
      BY <2>2 DEF Weighs
    <2>4. Any(t) \in t
      BY <2>3 DEF Any
    <2>5. IsFiniteSet(t \ {Any(t)})
      BY <2>2, FS_RemoveElement
    <2>6. g[t \ {Any(t)}] = h[t \ {Any(t)}]
      BY <2>1, <2>2, <2>4, <2>5 DEF FiniteSubsetsOf
    <2>7. g[t] = g[t \ {Any(t)}] + Any(t).size /\ h[t] = h[t \ {Any(t)}] + Any(t).size
      BY <2>2, <2>3 DEF Weighs
    <2> QED BY <2>2, <2>6, <2>7
  <1> QED BY <1>1, <1>2

LEMMA WeightExists ==
  ASSUME NEW U, IsFiniteSet(U)
  PROVE  \E g : Weighs(g, U)
  <1> DEFINE T == {t \in FiniteSubsetsOf(U) : ~ \E g : Weighs(g, t)}
  <1>1. U \in FiniteSubsetsOf(U)
    BY DEF FiniteSubsetsOf
  <1>2. CASE T # {}
    <2>1. PICK t \in T : \A v \in T : v \subseteq t => v = t
      <3>1. T \in SUBSET FiniteSubsetsOf(U)
        OBVIOUS
      <3> HIDE DEF T
      <3> QED BY <1>2, <3>1, SmallestSet
    <2>2. t \subseteq U /\ IsFiniteSet(t)
      BY <2>1 DEF FiniteSubsetsOf
    <2> DEFINE W(v) == (CHOOSE g : Weighs(g, v))[v]
    <2>3. ASSUME NEW v, v \subseteq t, v # t
          PROVE  IsFiniteSet(v) /\ Weighs(CHOOSE g : Weighs(g, v), v)
      <3>1. IsFiniteSet(v) /\ v \subseteq U
        BY <2>2, <2>3, FS_Subset
      <3>2. v \notin T
        BY <2>1, <2>3
      <3>3. \E g : Weighs(g, v)
        BY <3>1, <3>2 DEF FiniteSubsetsOf
      <3> QED BY <3>1, <3>3
    <2>4. ASSUME NEW v, v \subseteq t, v # t, v # {}
          PROVE  W(v) = W(v \ {Any(v)}) + Any(v).size
      <3> DEFINE h == CHOOSE g : Weighs(g, v)
                 w == v \ {Any(v)}
      <3>1. Weighs(h, v)
        BY <2>3, <2>4
      <3>2. Weighs(CHOOSE g : Weighs(g, w), w) /\ IsFiniteSet(w)
        <4>1. w \subseteq t /\ w # t
          BY <2>4
        <4> QED BY <2>3, <4>1
      <3>3. h[w] = W(w)
        BY <3>1, <3>2, WeightIsUnique
      <3>4. h[v] = h[w] + Any(v).size
        <4> HIDE DEF h
        <4> QED BY <2>4, <3>1 DEF Weighs
      <3> QED BY <3>3, <3>4
    <2>5. W({}) = 0
      <3>1. Weighs([s \in SUBSET {} |-> 0], {})
        BY DEF Weighs
      <3>2. Weighs(CHOOSE g : Weighs(g, {}), {})
        BY <3>1
      <3> QED BY <3>2 DEF Weighs
    <2> DEFINE f == [v \in SUBSET t |-> IF v = {} THEN 0
                                        ELSE W(v \ {Any(v)}) + Any(v).size]
    <2>6. ASSUME NEW v \in SUBSET t, v # t
          PROVE  f[v] = W(v)
      <3> HIDE DEF W
      <3> QED BY <2>4, <2>5, <2>6
    <2>7. ASSUME NEW v \in SUBSET t, v # {}
          PROVE  v \ {Any(v)} \in SUBSET t /\ v \ {Any(v)} # t
      BY <2>7 DEF Any
    <2>8. f = [v \in SUBSET t |-> IF v = {} THEN 0 ELSE f[v \ {Any(v)}] + Any(v).size]
      <3>1. ASSUME NEW v \in SUBSET t, v # {}
            PROVE  f[v \ {Any(v)}] = W(v \ {Any(v)})
        <4> HIDE DEF f, W
        <4> QED BY <2>6, <2>7, <3>1
      <3> HIDE DEF W
      <3> QED BY <3>1
    <2>9. \E g : Weighs(g, t)
      BY <2>8 DEF Weighs
    <2> QED BY <2>1, <2>9
  <1> QED BY <1>1, <1>2

LEMMA BytesStep ==
  ASSUME NEW U, IsFiniteSet(U)
  PROVE  Channel!Bytes(U) = IF U = {} THEN 0
                            ELSE Channel!Bytes(U \ {Any(U)}) + Any(U).size
  <1> DEFINE g == CHOOSE x : Weighs(x, U)
             V == U \ {Any(U)}
             h == CHOOSE x : Weighs(x, V)
  <1>1. IsFiniteSet(V)
    BY FS_RemoveElement
  <1>2. Weighs(g, U) /\ Weighs(h, V)
    BY <1>1, WeightExists
  <1>3. g[V] = h[V]
    BY <1>1, <1>2, WeightIsUnique
  <1>4. Channel!Bytes(U) = g[U] /\ Channel!Bytes(V) = h[V]
    BY BytesByFold
  <1>5. g[U] = IF U = {} THEN 0 ELSE g[V] + Any(U).size
    <2> HIDE DEF g
    <2> QED BY <1>2 DEF Weighs
  <1> HIDE DEF g, h
  <1> QED BY <1>3, <1>4, <1>5

(* Bytes does not depend on the order in which it folds. *)
LEMMA BytesWithout ==
  ASSUME NEW U, IsFiniteSet(U), \A r \in U : r.size \in Nat
  PROVE  /\ Channel!Bytes(U) \in Nat
         /\ \A r \in U : Channel!Bytes(U) = Channel!Bytes(U \ {r}) + r.size
  <1> DEFINE B(v) == Channel!Bytes(v)
             Sound(v) == B(v) \in Nat /\ \A r \in v : B(v) = B(v \ {r}) + r.size
             T == {t \in FiniteSubsetsOf(U) : ~Sound(t)}
  <1>1. U \in FiniteSubsetsOf(U)
    BY DEF FiniteSubsetsOf
  <1>2. CASE T # {}
    <2>1. PICK t \in T : \A v \in T : v \subseteq t => v = t
      <3>1. T \in SUBSET FiniteSubsetsOf(U)
        OBVIOUS
      <3> HIDE DEF T
      <3> QED BY <1>2, <3>1, SmallestSet
    <2>2. t \subseteq U /\ IsFiniteSet(t)
      BY <2>1 DEF FiniteSubsetsOf
    <2>3. ASSUME NEW v, v \subseteq t, v # t
          PROVE  IsFiniteSet(v) /\ Sound(v)
      <3>1. IsFiniteSet(v) /\ v \in FiniteSubsetsOf(U)
        BY <2>2, <2>3, FS_Subset DEF FiniteSubsetsOf
      <3> HIDE DEF Sound
      <3> QED BY <2>1, <2>3, <3>1
    <2>4. t = {} => Sound(t)
      <3>1. B(t) = IF t = {} THEN 0 ELSE B(t \ {Any(t)}) + Any(t).size
        BY <2>2, BytesStep
      <3> HIDE DEF B
      <3> QED BY <3>1
    <2>5. ASSUME t # {} PROVE Sound(t)
      <3> DEFINE x == Any(t)
      <3>1. x \in t /\ x.size \in Nat
        BY <2>2, <2>5 DEF Any
      <3>2. B(t) = B(t \ {x}) + x.size
        BY <2>2, <2>5, BytesStep
      <3>3. Sound(t \ {x})
        BY <2>3, <3>1
      <3> HIDE DEF x, B
      <3>4. B(t) \in Nat
        BY <3>1, <3>2, <3>3
      <3>5. ASSUME NEW r \in t, r # x
            PROVE  B(t) = B(t \ {r}) + r.size
        <4>1. Sound(t \ {r})
          BY <2>3
        <4>2. B(t \ {x}) = B((t \ {x}) \ {r}) + r.size
          BY <3>3, <3>5
        <4>3. B(t \ {r}) = B((t \ {r}) \ {x}) + x.size
          BY <4>1, <3>1, <3>5
        <4>4. (t \ {x}) \ {r} = (t \ {r}) \ {x}
          OBVIOUS
        <4>5. B((t \ {r}) \ {x}) \in Nat /\ r.size \in Nat
          <5>1. (t \ {r}) \ {x} \subseteq t /\ (t \ {r}) \ {x} # t
            BY <3>1
          <5> QED BY <2>2, <2>3, <5>1
        <4> QED BY <3>1, <3>2, <4>2, <4>3, <4>4, <4>5
      <3> QED BY <3>2, <3>4, <3>5
    <2> HIDE DEF Sound
    <2> QED BY <2>1, <2>4, <2>5
  <1> QED BY <1>1, <1>2
-----------------------------------------------------------------------------
(* Laps and cells *)

LEMMA LapsApart ==
  ASSUME NEW k \in Nat, NEW m \in Nat, k < m
  PROVE  Capacity * k + Capacity <= Capacity * m
  <1>1. PICK d \in Nat : m = k + 1 + d
    <2>1. m - k - 1 \in Nat /\ m = k + 1 + (m - k - 1)
      OBVIOUS
    <2> QED BY <2>1
  <1>2. Capacity \in Nat
    BY CapacityAssumption
  <1>3. Capacity * d \in Nat
    BY <1>2
  <1>4. Capacity * m = Capacity * k + Capacity + Capacity * d
    BY <1>1, <1>2
  <1> QED BY <1>2, <1>3, <1>4

(* A position is a lap and a cell ... *)
LEMMA CellOf ==
  ASSUME NEW q \in Nat
  PROVE  /\ Cell(q) \in Cells
         /\ \E k \in Nat : q = Capacity * k + Cell(q)
  <1>1. Cell(q) \in 0..(Capacity - 1)
    BY CapacityAssumption DEF Cell
  <1>2. q = Capacity * (q \div Capacity) + (q % Capacity) /\ q \div Capacity \in Nat
    BY CapacityAssumption
  <1> QED BY <1>1, <1>2 DEF Cells, Cell

LEMMA CellUnique ==
  ASSUME NEW k \in Nat, NEW i \in Cells
  PROVE  Cell(Capacity * k + i) = i
  <1>1. Capacity * k \in Nat /\ Capacity * k + i \in Nat /\ i \in Nat /\ i < Capacity
    BY CapacityAssumption DEF Cells
  <1>2. PICK m \in Nat : Capacity * k + i = Capacity * m + Cell(Capacity * k + i)
    BY <1>1, CellOf
  <1>3. Cell(Capacity * k + i) \in 0..(Capacity-1)
    BY <1>1, CellOf DEF Cells
  <1>4. ~(k < m) /\ ~(m < k)
    <2>1. Capacity * m \in Nat
      BY CapacityAssumption
    <2> QED BY <1>1, <1>2, <1>3, <2>1, LapsApart, CapacityAssumption
  <1> QED BY <1>1, <1>2, <1>3, <1>4

(* ... so positions of one lap are in different cells, *)
LEMMA CellsApart ==
  ASSUME NEW q \in Nat, NEW r \in Nat, q < r, r < q + Capacity
  PROVE  Cell(q) # Cell(r)
  <1> SUFFICES ASSUME Cell(q) = Cell(r) PROVE FALSE
    OBVIOUS
  <1>1. PICK k \in Nat : q = Capacity * k + Cell(q)
    BY CellOf
  <1>2. PICK m \in Nat : r = Capacity * m + Cell(r)
    BY CellOf
  <1>3. Cell(q) \in Nat /\ Capacity * k \in Nat /\ Capacity * m \in Nat /\ Capacity \in Nat
    BY CapacityAssumption, CellOf DEF Cells
  <1>4. k < m
    <2>1. ~(m < k) /\ m # k
      BY <1>1, <1>2, <1>3, LapsApart
    <2> QED BY <2>1
  <1> QED BY <1>1, <1>2, <1>3, <1>4, LapsApart

(* the next lap comes back to the same one, *)
LEMMA NextLapCell ==
  ASSUME NEW q \in Nat
  PROVE  Cell(q + Capacity) = Cell(q)
  <1>1. PICK k \in Nat : q = Capacity * k + Cell(q)
    BY CellOf
  <1>2. Capacity * (k + 1) = Capacity * k + Capacity /\ Capacity * k \in Nat /\ Cell(q) \in Nat
    BY CapacityAssumption, CellOf DEF Cells
  <1>3. q + Capacity = Capacity * (k + 1) + Cell(q)
    BY <1>1, <1>2, CapacityAssumption
  <1> QED BY <1>3, CellOf, CellUnique

(* and each cell has a position in it. *)
LEMMA EveryCell ==
  ASSUME NEW b \in Nat, NEW i \in Cells
  PROVE  \E q \in b..(b + Capacity - 1) : Cell(q) = i
  <1>1. PICK k \in Nat : b = Capacity * k + Cell(b)
    BY CellOf
  <1>2. /\ Capacity * (k + 1) = Capacity * k + Capacity /\ Capacity * k \in Nat
        /\ Cell(b) \in 0..(Capacity-1) /\ i \in 0..(Capacity-1) /\ Capacity \in Nat
    BY CapacityAssumption, CellOf DEF Cells
  <1>3. Cell(Capacity * k + i) = i /\ Cell(Capacity * (k + 1) + i) = i
    BY CellUnique
  <1>4. CASE i >= Cell(b)
    <2>1. Capacity * k + i \in b..(b + Capacity - 1)
      BY <1>1, <1>2, <1>4
    <2> QED BY <1>3, <2>1
  <1>5. CASE i < Cell(b)
    <2>1. Capacity * (k + 1) + i \in b..(b + Capacity - 1)
      BY <1>1, <1>2, <1>5
    <2> QED BY <1>3, <2>1
  <1> QED BY <1>2, <1>4, <1>5
-----------------------------------------------------------------------------
(* The line *)

PositionsTyped == enqueuePos \in Nat /\ dequeuePos \in Nat

LineFacts ==
  /\ DOMAIN Line = 0..(enqueuePos - 1)
  /\ \A q \in 0..(enqueuePos - 1) : q < Freed => Line[q] = delivered[q + 1]
  /\ \A q \in Freed..(enqueuePos - 1) :
       /\ q >= 0 => Line[q] = RecordAt(q)
       /\ \A p \in Producers : Fills(p, q) => RecordAt(q) = rec[p]
       /\ (\A p \in Producers : ~Fills(p, q)) => RecordAt(q) = cellRec[Cell(q)]

LEMMA LineIs == PositionsTyped /\ ClaimsApart => LineFacts
  <1> SUFFICES ASSUME PositionsTyped, ClaimsApart PROVE LineFacts
    OBVIOUS
  <1>1. /\ enqueuePos \in Nat /\ dequeuePos \in Nat /\ Freed \in Int
    BY DEF PositionsTyped, Freed
  <1>2. /\ DOMAIN Line = 0..(enqueuePos - 1)
        /\ \A q \in 0..(enqueuePos - 1) : Line[q] = IF q < Freed THEN delivered[q + 1]
                                                   ELSE RecordAt(q)
    BY DEF Line
  <1>3. ASSUME NEW q \in Freed..(enqueuePos - 1), NEW p \in Producers, Fills(p, q)
        PROVE  RecordAt(q) = rec[p]
    <2>1. Claimant(q) = {p}
      BY <1>3 DEF Claimant, Fills, ClaimsApart
    <2> QED BY <2>1 DEF RecordAt
  <1>4. ASSUME NEW q \in Freed..(enqueuePos - 1), \A p \in Producers : ~Fills(p, q)
        PROVE  RecordAt(q) = cellRec[Cell(q)]
    <2>1. Claimant(q) = {}
      BY <1>4 DEF Claimant, Fills
    <2> QED BY <2>1 DEF RecordAt
  <1> QED BY <1>1, <1>2, <1>3, <1>4 DEF LineFacts

(* Where the reserved records are: in hand, or in the line from Low on. *)
InHand == {rec[p] : p \in {x \in Producers : pc[x] \in {"load", "look", "claim"}}}
Low == IF consumer = "idle" THEN dequeuePos ELSE dequeuePos - 1
InLine == {Line[q] : q \in Low..(enqueuePos - 1)}

LEMMA ReservedIs ==
  PositionsTyped /\ consumer \in {"idle", "copy", "release"} /\ RingInv
    => Reserved = InHand \cup InLine
  <1> SUFFICES ASSUME PositionsTyped, consumer \in {"idle", "copy", "release"}, RingInv
               PROVE  Reserved = InHand \cup InLine
    OBVIOUS
  <1>1. /\ enqueuePos \in Nat /\ dequeuePos \in Nat
        /\ Window /\ CellsTell /\ ClaimsApart /\ LineInOrder /\ LineFacts
    BY LineIs DEF PositionsTyped, RingInv
  <1>2. \A q \in Positions : Line[q] = RecordAt(q) /\ q \in Low..(enqueuePos - 1)
    BY <1>1 DEF LineFacts, Positions, Low, Freed
  <1>3. \A p \in Producers : pc[p] = "fill" => pos[p] \in Positions /\ rec[p] = Line[pos[p]]
    <2>1. \A p \in Producers : pc[p] = "fill" => pos[p] \in Positions /\ Fills(p, pos[p])
      BY <1>1 DEF ClaimsApart, Fills
    <2>2. \A q \in Positions : q \in Freed..(enqueuePos - 1)
      BY <1>1 DEF Positions, Freed
    <2> QED BY <1>1, <1>2, <2>1, <2>2 DEF LineFacts
  <1>4. consumer = "copy" => cellRec[Cell(dequeuePos - 1)] = Line[dequeuePos - 1]
                             /\ dequeuePos - 1 \in Low..(enqueuePos - 1)
    <2> SUFFICES ASSUME consumer = "copy"
                 PROVE  cellRec[Cell(dequeuePos - 1)] = Line[dequeuePos - 1]
                        /\ dequeuePos - 1 \in Low..(enqueuePos - 1)
      OBVIOUS
    <2>1. Freed = dequeuePos - 1 /\ Freed \in 0..(enqueuePos - 1) /\ Freed \in Low..(enqueuePos - 1)
      BY <1>1 DEF Freed, Window, Low
    <2>2. \A p \in Producers : ~Fills(p, Freed)
      BY <1>1, <2>1 DEF ClaimsApart, Fills, Positions
    <2> QED BY <1>1, <2>1, <2>2 DEF LineFacts
  <1>5. consumer = "release" => copied = Line[dequeuePos - 1]
                                /\ dequeuePos - 1 \in Low..(enqueuePos - 1)
    BY <1>1 DEF LineInOrder, Low, Window
  <1>6. \A q \in Low..(enqueuePos - 1) : \/ q \in Positions
                                         \/ q = dequeuePos - 1 /\ consumer # "idle"
    BY <1>1 DEF Low, Positions
  <1>7. Reserved \subseteq InHand \cup InLine
    <2>1. {rec[p] : p \in {x \in Producers : pc[x] \in {"load", "look", "claim", "fill"}}}
            \subseteq InHand \cup InLine
      BY <1>2, <1>3 DEF InHand, InLine
    <2>2. {RecordAt(q) : q \in Positions} \subseteq InLine
      BY <1>2 DEF InLine
    <2> QED BY <2>1, <2>2, <1>4, <1>5 DEF Reserved, InLine
  <1>8. InHand \cup InLine \subseteq Reserved
    <2>1. InHand \subseteq Reserved
      BY DEF InHand, Reserved
    <2>2. \A q \in Positions : Line[q] \in Reserved
      BY <1>2 DEF Reserved
    <2>3. consumer # "idle" => Line[dequeuePos - 1] \in Reserved
      BY <1>4, <1>5 DEF Reserved
    <2> QED BY <1>6, <2>1, <2>2, <2>3 DEF InLine
  <1> QED BY <1>7, <1>8

(* What the inductive invariant says of the counters and the line. *)
LEMMA QueueFacts ==
  ASSUME QueueInv
  PROVE  /\ PositionsTyped /\ Freed \in Nat /\ Capacity \in Nat /\ Capacity >= 2
         /\ LineFacts /\ Reserved = InHand \cup InLine
         /\ \A q \in DOMAIN Line : Line[q] \in Records
  <1>1. /\ PositionsTyped /\ consumer \in {"idle", "copy", "release"} /\ Capacity \in Nat /\ Capacity >= 2
        /\ RingInv /\ Window /\ CellsTell /\ ClaimsApart /\ OwnRecord /\ LineInOrder
    BY CapacityAssumption DEF QueueInv, TypeOK, RingInv, PositionsTyped
  <1>2. Freed \in Nat
    BY <1>1 DEF PositionsTyped, Freed, Window
  <1>3. LineFacts /\ Reserved = InHand \cup InLine
    BY <1>1, LineIs, ReservedIs
  <1>4. ASSUME NEW q \in DOMAIN Line PROVE Line[q] \in Records
    <2>1. q \in 0..(enqueuePos - 1)
      BY <1>3 DEF LineFacts
    <2>2. CASE q < Freed
      <3>1. delivered \in Seq(Records) /\ Len(delivered) = Freed
        BY <1>1 DEF QueueInv, TypeOK, LineInOrder
      <3> QED BY <1>2, <1>3, <2>1, <2>2, <3>1 DEF LineFacts
    <2>3. CASE q >= Freed
      <3>1. q \in Freed..(enqueuePos - 1) /\ q \in Freed..(Freed + Capacity - 1) /\ q < enqueuePos
        BY <1>1, <1>2, <2>1, <2>3 DEF Window, PositionsTyped
      <3>2. Line[q] = RecordAt(q)
        BY <1>3, <2>1, <3>1 DEF LineFacts
      <3>3. CASE \E p \in Producers : Fills(p, q)
        BY <1>1, <1>3, <3>1, <3>2, <3>3 DEF LineFacts, OwnRecord, Fills
      <3>4. CASE \A p \in Producers : ~Fills(p, q)
        <4>1. RecordAt(q) = cellRec[Cell(q)]
          BY <1>3, <3>1, <3>4 DEF LineFacts
        <4>2. cellRec[Cell(q)] \in Records
          BY <1>1, <3>1, <3>4 DEF CellsTell
        <4> QED BY <3>2, <4>1, <4>2
      <3> QED BY <3>3, <3>4
    <2> QED BY <1>1, <1>2, <2>1, <2>2, <2>3 DEF PositionsTyped
  <1> QED BY <1>1, <1>2, <1>3, <1>4

(* What a producer has in hand is not in the line, nor lost. *)
LEMMA HandIsNew ==
  ASSUME QueueInv, NEW p \in Producers, pc[p] \notin {"idle", "fill"}
  PROVE  /\ rec[p] \in Records /\ rec[p].from = p
         /\ \A q \in DOMAIN Line : Line[q] # rec[p]
         /\ rec[p] \notin dropped
         /\ \A o \in Producers \ {p} : rec[o] # rec[p]
  <1>1. OwnRecord /\ LineInOrder /\ \A q \in DOMAIN Line : Line[q] \in Records
    BY QueueFacts DEF QueueInv, RingInv
  <1>2. rec[p] \in Records /\ rec[p].from = p /\ rec[p].num \in Nat
    BY <1>1 DEF OwnRecord, Records
  <1>3. \A q \in DOMAIN Line : Line[q] # rec[p]
    BY <1>1, <1>2 DEF LineInOrder
  <1>4. rec[p] \notin dropped
    BY <1>1, <1>2 DEF LineInOrder
  <1>5. ASSUME NEW o \in Producers \ {p} PROVE rec[o] # rec[p]
    <2>1. rec[o] = NoRecord \/ rec[o].from = o
      BY <1>1 DEF OwnRecord
    <2>2. rec[p] # NoRecord
      BY <1>2, QueueAssumption DEF Records, NoRecord
    <2> QED BY <1>2, <2>1, <2>2
  <1> QED BY <1>2, <1>3, <1>4, <1>5

-----------------------------------------------------------------------------
(* A producer that claims and publishes nothing *)

LEMMA QuietStepKeeps ==
  ASSUME QueueInv, NEW p \in Producers,
         UNCHANGED <<enqueuePos, dequeuePos, cellSeq, cellRec, delivered, consumer, copied>>,
         pc[p] # "fill", pc'[p] # "fill",
         \A o \in Producers \ {p} : pc'[o] = pc[o] /\ pos'[o] = pos[o] /\ rec'[o] = rec[o],
         rec'[p] \in Records, rec'[p].from = p,
         pc'[p] \in {"look", "claim"} => pos'[p] <= enqueuePos,
         pc'[p] = "claim" => pos'[p] < Freed + Capacity,
         \/ rec'[p] = rec[p] /\ (pc'[p] # "idle" => pc[p] # "idle")
         \/ rec'[p].num > rec[p].num,
         \/ dropped' = dropped
         \/ dropped' = dropped \cup {rec[p]} /\ rec'[p] = rec[p] /\ pc'[p] = "idle"
  PROVE  RingInv' /\ Line' = Line /\ PositionsTyped'
  <1>1. /\ PositionsTyped /\ Window /\ CellsTell /\ ClaimsApart /\ OwnRecord /\ LineInOrder
        /\ \A q \in DOMAIN Line : Line[q] \in Records
    BY QueueFacts DEF QueueInv, RingInv
  <1>2. \A o \in Producers : \A q : Fills(o, q)' <=> Fills(o, q)
    BY DEF Fills
  <1>3. Freed' = Freed /\ Positions' = Positions
    BY DEF Freed, Positions
  <1>4. Line' = Line
    <2>1. ASSUME NEW q PROVE RecordAt(q)' = RecordAt(q)
      <3>1. Claimant(q)' = Claimant(q)
        BY DEF Claimant
      <3>2. CASE Claimant(q) = {}
        BY <3>1, <3>2 DEF RecordAt
      <3>3. CASE Claimant(q) # {}
        <4> DEFINE o == CHOOSE o \in Claimant(q) : TRUE
        <4>1. o \in Claimant(q)
          BY <3>3
        <4>2. o \in Producers /\ rec'[o] = rec[o]
          BY <4>1 DEF Claimant
        <4> QED BY <3>1, <3>3, <4>2 DEF RecordAt
      <3> QED BY <3>2, <3>3
    <2> QED BY <1>3, <2>1 DEF Line
  <1>5. Window' /\ PositionsTyped'
    BY <1>1, <1>3 DEF Window, PositionsTyped
  <1>6. CellsTell'
    BY <1>1, <1>2, <1>3 DEF CellsTell
  <1>7. ClaimsApart'
    BY <1>1, <1>2, <1>3 DEF ClaimsApart
  <1>8. OwnRecord'
    BY <1>1 DEF OwnRecord
  <1>9. rec[p].num \in Int /\ rec'[p].num \in Int
    BY <1>1 DEF OwnRecord, Records, NoRecord
  <1>10. LineInOrder'
    <2>1. \A q \in DOMAIN Line : Line[q].from = p =>
            /\ Line[q].num <= rec'[p].num
            /\ pc'[p] \notin {"idle", "fill"} => Line[q].num < rec'[p].num
      <3>1. \A q \in DOMAIN Line : Line[q].num \in Int
        BY <1>1 DEF Records
      <3> QED BY <1>1, <1>9, <3>1 DEF LineInOrder
    <2>2. \A r \in dropped' : /\ r.num <= rec'[r.from].num
                              /\ pc'[r.from] # "idle" => r.num < rec'[r.from].num
      <3> SUFFICES ASSUME NEW r \in dropped'
                   PROVE  /\ r.num <= rec'[r.from].num
                          /\ pc'[r.from] # "idle" => r.num < rec'[r.from].num
        OBVIOUS
      <3>1. CASE r \in dropped
        <4>1. r.from \in Producers /\ r.num \in Int
          BY <3>1 DEF QueueInv, TypeOK, Records
        <4> QED BY <1>1, <1>9, <3>1, <4>1 DEF LineInOrder
      <3>2. CASE r \notin dropped
        BY <1>9, <3>2
      <3> QED BY <3>1, <3>2
    <2> QED BY <1>1, <1>3, <1>4, <2>1, <2>2 DEF LineInOrder
  <1> QED BY <1>4, <1>5, <1>6, <1>7, <1>8, <1>10 DEF RingInv

-----------------------------------------------------------------------------
(* What a step does with the byte budget *)

BytesKept     == Reserved' = Reserved /\ queuedBytes' = queuedBytes
BytesTaken(r) == /\ r \in Records \ Reserved /\ Reserved' = Reserved \cup {r}
                 /\ queuedBytes' = queuedBytes + r.size /\ queuedBytes' <= MaxBytes
BytesGiven(r) == /\ r \in Reserved /\ Reserved' = Reserved \ {r}
                 /\ queuedBytes' = queuedBytes - r.size

LEMMA ReservedAreRecords ==
  ASSUME QueueInv
  PROVE  Reserved \subseteq Records
  <1>1. InHand \subseteq Records
    BY DEF QueueInv, RingInv, OwnRecord, InHand
  <1>2. ASSUME NEW q \in Low..(enqueuePos - 1) PROVE q \in DOMAIN Line
    BY <1>2, QueueFacts DEF QueueInv, RingInv, Window, LineInOrder, Low, PositionsTyped, LineFacts,
       TypeOK
  <1> QED BY <1>1, <1>2, QueueFacts DEF InLine

LEMMA BytesStepKeeps ==
  ASSUME QueueInv, BytesKept \/ (\E r \in Records : BytesTaken(r) \/ BytesGiven(r))
  PROVE  BytesAdd' /\ queuedBytes' \in Nat
  <1> DEFINE B(R) == Channel!Bytes(R)
  <1>1. /\ IsFiniteSet(Reserved) /\ queuedBytes = B(Reserved) /\ queuedBytes <= MaxBytes
        /\ MaxBytes \in Nat /\ queuedBytes \in Nat
    BY QueueAssumption DEF QueueInv, TypeOK, BytesAdd, ByteBudget
  <1>2. ASSUME NEW r \in Records PROVE r.size \in Nat
    BY QueueAssumption DEF Records
  <1>3. \A r \in Reserved : r.size \in Nat
    BY <1>2, ReservedAreRecords
  <1>4. IsFiniteSet(Reserved') /\ queuedBytes' = B(Reserved') /\ queuedBytes' <= MaxBytes
        /\ queuedBytes' \in Nat
    <2>1. CASE BytesKept
      BY <1>1, <2>1 DEF BytesKept
    <2>2. ASSUME NEW r \in Records, BytesTaken(r)
          PROVE  <1>4!:
      <3>1. r \notin Reserved /\ Reserved' = Reserved \cup {r} /\ r \in Reserved'
        BY <2>2 DEF BytesTaken
      <3>2. IsFiniteSet(Reserved')
        BY <1>1, <3>1, FS_AddElement
      <3>3. \A x \in Reserved' : x.size \in Nat
        BY <1>2, <1>3, <3>1
      <3>4. B(Reserved') = B(Reserved) + r.size
        <4>1. B(Reserved') = B(Reserved' \ {r}) + r.size
          BY <3>1, <3>2, <3>3, BytesWithout
        <4>2. Reserved' \ {r} = Reserved
          BY <3>1
        <4> HIDE DEF B
        <4> QED BY <4>1, <4>2
      <3> HIDE DEF B
      <3> QED BY <1>1, <1>2, <2>2, <3>2, <3>4 DEF BytesTaken
    <2>3. ASSUME NEW r \in Records, BytesGiven(r)
          PROVE  <1>4!:
      <3>1. r \in Reserved /\ Reserved' = Reserved \ {r}
        BY <2>3 DEF BytesGiven
      <3>2. IsFiniteSet(Reserved')
        BY <1>1, <3>1, FS_RemoveElement
      <3>3. B(Reserved) = B(Reserved') + r.size
        BY <1>1, <1>3, <3>1, BytesWithout
      <3>4. B(Reserved') \in Nat
        BY <1>3, <3>1, <3>2, BytesWithout
      <3> HIDE DEF B
      <3> QED BY <1>1, <1>2, <2>3, <3>2, <3>3, <3>4 DEF BytesGiven
    <2> QED BY <2>1, <2>2, <2>3
  <1> QED BY <1>4 DEF BytesAdd, ByteBudget

LEMMA ReservedNext ==
  (PositionsTyped /\ consumer \in {"idle", "copy", "release"} /\ RingInv)'
    => (Reserved = InHand \cup InLine)'
  BY ReservedIs, PTL

LEMMA LineNext == (PositionsTyped /\ ClaimsApart)' => LineFacts'
  BY LineIs, PTL

-----------------------------------------------------------------------------
(* The steps of a producer *)

Others(p) == \A o \in Producers \ {p} : pc'[o] = pc[o] /\ pos'[o] = pos[o] /\ rec'[o] = rec[o]

LEMMA OfferKeeps ==
  ASSUME QueueInv, NEW p \in Producers, NEW size \in Sizes, Offer(p, size)
  PROVE  QueueInv' /\ Line' = Line /\ BytesKept
  <1> DEFINE r == [from |-> p, num |-> rec[p].num + 1, size |-> size]
  <1>1. /\ TypeOK /\ OwnRecord /\ pc[p] = "idle" /\ rec[p].num < MaxOffers
        /\ MaxOffers \in Nat /\ rec[p].num \in Nat
    BY SMTT(30), QueueAssumption DEF QueueInv, RingInv, Offer, OwnRecord, TypeOK, Records, NoRecord
  <1>2. PICK to \in {"idle", "reserve"} :
          /\ rec' = [rec EXCEPT ![p] = r] /\ pc' = [pc EXCEPT ![p] = to]
          /\ ignored' = ignored \/ ignored' = ignored \cup {r}
    <2>1. pc = [pc EXCEPT ![p] = "idle"]
      BY <1>1 DEF TypeOK
    <2> QED BY <2>1 DEF Offer
  <1>3. /\ enqueuePos' = enqueuePos /\ dequeuePos' = dequeuePos /\ cellSeq' = cellSeq
        /\ cellRec' = cellRec /\ delivered' = delivered /\ consumer' = consumer
        /\ copied' = copied /\ queuedBytes' = queuedBytes /\ dropped' = dropped
        /\ pos' = pos /\ active' = active
    BY DEF Offer
  <1>4. r \in Records /\ r.from = p /\ r.num > rec[p].num
    BY <1>1 DEF Records
  <1>5. rec'[p] = r /\ pc'[p] = to /\ Others(p)
    BY <1>1, <1>2, <1>3 DEF TypeOK, Others
  <1>6. RingInv' /\ Line' = Line /\ PositionsTyped'
    <2> HIDE DEF r
    <2> QED BY <1>1, <1>3, <1>4, <1>5, QuietStepKeeps DEF Others
  <1>7. BytesKept
    <2>1. InHand' = InHand
      BY <1>1, <1>5 DEF InHand, Others
    <2>2. InLine' = InLine
      BY <1>3, <1>6 DEF InLine, Low
    <2> QED BY <1>1, <1>3, <1>6, <2>1, <2>2, ReservedNext, QueueFacts DEF BytesKept, TypeOK
  <1>8. BytesAdd' /\ queuedBytes' \in Nat
    BY <1>7, BytesStepKeeps
  <1>9. TypeOK'
    <2>1. r \in [from : Producers \cup {0}, num : 0..MaxOffers, size : Sizes \cup {0}]
      BY <1>1
    <2> HIDE DEF r
    <2>2. rec' \in [Producers -> [from : Producers \cup {0}, num : 0..MaxOffers,
                                  size : Sizes \cup {0}]]
      BY <1>1, <1>2, <2>1 DEF TypeOK
    <2>3. ignored' \subseteq Records
      BY <1>1, <1>2, <1>4 DEF TypeOK
    <2> QED BY <1>1, <1>2, <1>3, <1>8, <2>2, <2>3 DEF TypeOK
  <1> QED BY <1>6, <1>7, <1>8, <1>9 DEF QueueInv

(* The other steps change no record of a producer: where it goes, ...      *)
Goes(p, to) == pc' = [pc EXCEPT ![p] = to] /\ rec' = rec /\ active' = active /\ ignored' = ignored
CellsKept == /\ enqueuePos' = enqueuePos /\ dequeuePos' = dequeuePos /\ cellSeq' = cellSeq
             /\ cellRec' = cellRec /\ delivered' = delivered /\ consumer' = consumer
             /\ copied' = copied

(* ... what becomes of its bytes, ... *)
LEMMA HandOf ==
  ASSUME QueueInv, NEW p \in Producers, rec' = rec,
         \A o \in Producers \ {p} : pc'[o] = pc[o]
  PROVE  InHand' \cup {rec[p]} = InHand \cup {rec[p]}
  <1>1. ASSUME NEW x PROVE x \in InHand' \cup {rec[p]} <=> x \in InHand \cup {rec[p]}
    BY DEF InHand
  <1> QED BY <1>1

LEMMA InHandOf ==
  ASSUME QueueInv, NEW p \in Producers, rec' = rec,
         \A o \in Producers \ {p} : pc'[o] = pc[o], pc[p] \notin {"idle", "fill"}
  PROVE  /\ rec[p] \in InHand <=> pc[p] \in {"load", "look", "claim"}
         /\ rec[p] \in InHand' <=> pc'[p] \in {"load", "look", "claim"}
         /\ rec[p] \notin InLine
  <1>1. /\ \A o \in Producers \ {p} : rec[o] # rec[p]
        /\ \A q \in DOMAIN Line : Line[q] # rec[p]
    BY HandIsNew
  <1>2. \A q \in Low..(enqueuePos - 1) : q \in DOMAIN Line
    BY QueueFacts DEF QueueInv, RingInv, Window, LineInOrder, Low, PositionsTyped, LineFacts, TypeOK
  <1> QED BY <1>1, <1>2 DEF InHand, InLine

(* ... and that its record stays out of the line. *)
LEMMA HandStepKeeps ==
  ASSUME QueueInv, NEW p \in Producers, NEW to \in {"idle", "load", "look", "claim"}, NEW i \in Nat,
         Goes(p, to), CellsKept, pc[p] \notin {"idle", "fill"},
         pos' = [pos EXCEPT ![p] = i],
         to \in {"look", "claim"} => i <= enqueuePos,
         to = "claim" => i < Freed + Capacity,
         dropped' = IF to = "idle" THEN dropped \cup {rec[p]} ELSE dropped,
         pc[p] = "reserve" => to \in {"idle", "load"},
         queuedBytes' = IF pc[p] = "reserve"
                        THEN IF to = "load" THEN queuedBytes + rec[p].size ELSE queuedBytes
                        ELSE IF to = "idle" THEN queuedBytes - rec[p].size ELSE queuedBytes,
         pc[p] = "reserve" /\ to = "load" => queuedBytes' <= MaxBytes
  PROVE  /\ QueueInv' /\ Line' = Line
         /\ IF pc[p] = "reserve"
            THEN IF to = "load" THEN BytesTaken(rec[p]) ELSE BytesKept
            ELSE IF to = "idle" THEN BytesGiven(rec[p]) ELSE BytesKept
  <1>1. TypeOK /\ RingInv /\ rec[p] \in Records /\ rec[p].from = p
    BY HandIsNew DEF QueueInv
  <1>2. pc'[p] = to /\ pos'[p] = i /\ rec' = rec /\ Others(p)
    BY <1>1 DEF TypeOK, Goes, Others
  <1>3. RingInv' /\ Line' = Line /\ PositionsTyped'
    BY <1>1, <1>2, QuietStepKeeps DEF CellsKept, Others
  <1>4. /\ Reserved = InHand \cup InLine /\ Reserved' = InHand' \cup InLine
        /\ InHand' \cup {rec[p]} = InHand \cup {rec[p]}
        /\ rec[p] \in InHand <=> pc[p] \in {"load", "look", "claim"}
        /\ rec[p] \in InHand' <=> to \in {"load", "look", "claim"}
        /\ rec[p] \notin InLine
    <2>1. InLine' = InLine
      BY <1>3 DEF InLine, Low, CellsKept
    <2>2. Reserved' = InHand' \cup InLine'
      BY <1>1, <1>3, ReservedNext DEF TypeOK, CellsKept
    <2>3. InHand' \cup {rec[p]} = InHand \cup {rec[p]}
      BY <1>2, HandOf DEF Others
    <2>4. /\ rec[p] \in InHand <=> pc[p] \in {"load", "look", "claim"}
          /\ rec[p] \in InHand' <=> pc'[p] \in {"load", "look", "claim"}
          /\ rec[p] \notin InLine
      BY <1>2, InHandOf DEF Others
    <2> QED BY <1>2, <2>1, <2>2, <2>3, <2>4, QueueFacts
  <1>5. pc[p] \in {"reserve", "load", "look", "claim"}
    BY <1>1 DEF TypeOK
  <1>6. IF pc[p] = "reserve"
        THEN IF to = "load" THEN BytesTaken(rec[p]) ELSE BytesKept
        ELSE IF to = "idle" THEN BytesGiven(rec[p]) ELSE BytesKept
    <2>1. CASE pc[p] = "reserve" /\ to = "load"
      <3>1. Reserved' = Reserved \cup {rec[p]} /\ rec[p] \notin Reserved
        BY <1>4, <2>1
      <3> QED BY <1>1, <2>1, <3>1 DEF BytesTaken
    <2>2. CASE pc[p] = "reserve" /\ to = "idle"
      <3>1. Reserved' = Reserved
        BY <1>4, <2>2
      <3> QED BY <2>2, <3>1 DEF BytesKept
    <2>3. CASE pc[p] # "reserve" /\ to = "idle"
      <3>1. Reserved' = Reserved \ {rec[p]} /\ rec[p] \in Reserved
        BY <1>4, <1>5, <2>3
      <3> QED BY <1>1, <2>3, <3>1 DEF BytesGiven
    <2>4. CASE pc[p] # "reserve" /\ to # "idle"
      <3>1. Reserved' = Reserved
        BY <1>4, <1>5, <2>4
      <3> QED BY <2>4, <3>1 DEF BytesKept
    <2> QED BY <2>1, <2>2, <2>3, <2>4
  <1>7. BytesAdd' /\ queuedBytes' \in Nat
    BY <1>1, <1>6, BytesStepKeeps
  <1>8. TypeOK'
    <2>1. pc' \in [Producers -> {"idle", "reserve", "load", "look", "claim", "fill"}]
          /\ pos' \in [Producers -> Nat]
      BY <1>1 DEF TypeOK, Goes
    <2>2. dropped' \subseteq Records
      BY <1>1 DEF TypeOK
    <2> QED BY <1>1, <1>7, <2>1, <2>2 DEF TypeOK, Goes, CellsKept
  <1> QED BY <1>3, <1>6, <1>7, <1>8 DEF QueueInv

LEMMA ReserveBytesKeeps ==
  ASSUME QueueInv, NEW p \in Producers, ReserveBytes(p)
  PROVE  /\ QueueInv' /\ Line' = Line /\ CellsKept
         /\ \/ Fits(rec[p].size) /\ BytesTaken(rec[p]) /\ dropped' = dropped
            \/ ~Fits(rec[p].size) /\ BytesKept /\ dropped' = dropped \cup {rec[p]}
  <1>1. /\ pc[p] = "reserve" /\ CellsKept /\ rec' = rec /\ active' = active /\ ignored' = ignored
        /\ pos[p] \in Nat /\ pos' = [pos EXCEPT ![p] = pos[p]]
    BY DEF ReserveBytes, CellsKept, QueueInv, TypeOK
  <1>2. /\ rec[p].size \in Nat /\ queuedBytes \in Nat /\ MaxBytes \in Nat
    BY <1>1, HandIsNew, QueueAssumption DEF Records, QueueInv, TypeOK
  <1>3. CASE Fits(rec[p].size)
    <2>1. /\ Goes(p, "load") /\ dropped' = dropped /\ queuedBytes' = queuedBytes + rec[p].size
          /\ queuedBytes' <= MaxBytes
      BY <1>1, <1>2, <1>3 DEF ReserveBytes, Goes, Fits
    <2>2. QueueInv' /\ Line' = Line /\ BytesTaken(rec[p])
      BY <1>1, <2>1, HandStepKeeps
    <2> QED BY <1>1, <1>3, <2>1, <2>2
  <1>4. CASE ~Fits(rec[p].size)
    <2>1. /\ Goes(p, "idle") /\ dropped' = dropped \cup {rec[p]} /\ queuedBytes' = queuedBytes
      BY <1>1, <1>4 DEF ReserveBytes, Goes
    <2>2. QueueInv' /\ Line' = Line /\ BytesKept
      BY <1>1, <2>1, HandStepKeeps
    <2> QED BY <1>1, <1>4, <2>1, <2>2
  <1> QED BY <1>3, <1>4

LEMMA LoadPositionKeeps ==
  ASSUME QueueInv, NEW p \in Producers, LoadPosition(p)
  PROVE  QueueInv' /\ Line' = Line /\ CellsKept /\ BytesKept /\ dropped' = dropped
  <1>1. /\ pc[p] = "load" /\ CellsKept /\ Goes(p, "look") /\ dropped' = dropped
        /\ queuedBytes' = queuedBytes /\ pos' = [pos EXCEPT ![p] = enqueuePos]
        /\ enqueuePos \in Nat /\ enqueuePos <= enqueuePos
    BY DEF LoadPosition, CellsKept, Goes, QueueInv, TypeOK
  <1>2. QueueInv' /\ Line' = Line /\ BytesKept
    BY <1>1, HandStepKeeps
  <1> QED BY <1>1, <1>2

(* A cell that still holds a record of the previous lap: the ring is full. *)
LEMMA FullWhenBehind ==
  ASSUME QueueInv, NEW p \in Producers, pc[p] = "look", Difference(p) < 0
  PROVE  enqueuePos = Freed + Capacity
  <1>1. /\ enqueuePos \in Nat /\ Freed \in Nat /\ Capacity \in Nat /\ pos[p] \in Nat
        /\ pos[p] <= enqueuePos /\ enqueuePos <= Freed + Capacity /\ CellsTell
    BY QueueFacts DEF QueueInv, TypeOK, RingInv, ClaimsApart, Window
  <1>2. PICK q \in Freed..(Freed + Capacity - 1) : Cell(q) = Cell(pos[p])
    BY <1>1, CellOf, EveryCell
  <1>3. cellSeq[Cell(q)] \in {q, q + 1}
    BY <1>1, <1>2 DEF CellsTell
  <1>4. q < pos[p]
    BY <1>1, <1>2, <1>3 DEF Difference
  <1>5. ~(pos[p] < q + Capacity)
    BY <1>1, <1>2, <1>4, CellsApart
  <1> QED BY <1>1, <1>2, <1>4, <1>5

LEMMA LookAtCellKeeps ==
  ASSUME QueueInv, NEW p \in Producers, LookAtCell(p)
  PROVE  /\ QueueInv' /\ Line' = Line /\ CellsKept
         /\ \/ BytesKept /\ dropped' = dropped
            \/ /\ BytesGiven(rec[p]) /\ dropped' = dropped \cup {rec[p]}
               /\ enqueuePos = Freed + Capacity
  <1>1. /\ pc[p] = "look" /\ CellsKept /\ rec' = rec /\ active' = active /\ ignored' = ignored
        /\ pos[p] \in Nat /\ pos' = [pos EXCEPT ![p] = pos[p]]
        /\ enqueuePos \in Nat /\ Freed \in Nat /\ Capacity \in Nat /\ Capacity >= 2
        /\ pos[p] <= enqueuePos /\ enqueuePos <= Freed + Capacity /\ CellsTell
    BY QueueFacts DEF LookAtCell, CellsKept, QueueInv, TypeOK, RingInv, ClaimsApart, Window
  <1>5. Difference(p) \in Int
    <2>1. Cell(pos[p]) \in Cells /\ cellSeq \in [Cells -> Nat]
      BY <1>1, CellOf DEF QueueInv, TypeOK
    <2> QED BY <1>1, <2>1 DEF Difference
  <1>2. CASE Difference(p) = 0
    <2>1. Goes(p, "claim") /\ dropped' = dropped /\ queuedBytes' = queuedBytes
      BY <1>1, <1>5, <1>2 DEF LookAtCell, Goes
    <2>2. pos[p] < Freed + Capacity
      <3> SUFFICES ASSUME pos[p] = Freed + Capacity PROVE FALSE
        BY <1>1
      <3>1. Cell(pos[p]) = Cell(Freed)
        BY <1>1, NextLapCell
      <3>2. cellSeq[Cell(Freed)] \in {Freed, Freed + 1}
        BY <1>1 DEF CellsTell
      <3> QED BY <1>1, <1>2, <3>1, <3>2 DEF Difference
    <2>3. QueueInv' /\ Line' = Line /\ BytesKept
      BY <1>1, <2>1, <2>2, HandStepKeeps
    <2> QED BY <1>1, <2>1, <2>3
  <1>3. CASE Difference(p) < 0
    <2>1. /\ Goes(p, "idle") /\ dropped' = dropped \cup {rec[p]}
          /\ queuedBytes' = queuedBytes - rec[p].size
      BY <1>1, <1>5, <1>3 DEF LookAtCell, Goes
    <2>2. QueueInv' /\ Line' = Line /\ BytesGiven(rec[p])
      BY <1>1, <2>1, HandStepKeeps
    <2> QED BY <1>1, <1>3, <2>1, <2>2, FullWhenBehind
  <1>4. CASE Difference(p) > 0
    <2>1. Goes(p, "load") /\ dropped' = dropped /\ queuedBytes' = queuedBytes
      BY <1>1, <1>5, <1>4 DEF LookAtCell, Goes
    <2>2. QueueInv' /\ Line' = Line /\ BytesKept
      BY <1>1, <2>1, HandStepKeeps
    <2> QED BY <1>1, <2>1, <2>2
  <1> QED BY <1>2, <1>3, <1>4 DEF LookAtCell

(* The compare-exchange on enqueue_pos_ decides: a lost race looks again, *)
(* a claim appends the record to the line.                                *)
LEMMA ClaimCellKeeps ==
  ASSUME QueueInv, NEW p \in Producers, ClaimCell(p)
  PROVE  /\ QueueInv' /\ BytesKept /\ dropped' = dropped
         /\ cellSeq' = cellSeq /\ cellRec' = cellRec /\ delivered' = delivered
         /\ dequeuePos' = dequeuePos /\ consumer' = consumer /\ pc[p] = "claim"
         /\ \/ Line' = Line /\ enqueuePos' = enqueuePos
            \/ /\ enqueuePos' = enqueuePos + 1 /\ enqueuePos < Freed + Capacity
               /\ cellSeq[Cell(enqueuePos)] = enqueuePos
               /\ \A q \in DOMAIN Line : Line'[q] = Line[q]
               /\ Line'[enqueuePos] = rec[p]
  <1>1. /\ TypeOK /\ Window /\ CellsTell /\ ClaimsApart /\ OwnRecord /\ LineInOrder
        /\ pc[p] = "claim" /\ pos[p] \in Nat /\ rec' = rec /\ active' = active
        /\ ignored' = ignored /\ queuedBytes' = queuedBytes /\ dropped' = dropped
        /\ cellSeq' = cellSeq /\ cellRec' = cellRec /\ delivered' = delivered
        /\ dequeuePos' = dequeuePos /\ consumer' = consumer /\ copied' = copied
        /\ enqueuePos \in Nat /\ dequeuePos \in Nat /\ Freed \in Nat /\ Freed' = Freed
        /\ LineFacts /\ Capacity \in Nat
        /\ pos[p] <= enqueuePos /\ pos[p] < Freed + Capacity
    BY QueueFacts DEF ClaimCell, QueueInv, TypeOK, RingInv, ClaimsApart, Freed
  <1>2. CASE ~ClaimSucceeds(p)
    <2>1. /\ Goes(p, "look") /\ CellsKept /\ pos' = [pos EXCEPT ![p] = enqueuePos]
          /\ enqueuePos <= enqueuePos
      BY <1>1, <1>2 DEF ClaimCell, Goes, CellsKept
    <2>2. QueueInv' /\ Line' = Line /\ BytesKept
      BY <1>1, <2>1, HandStepKeeps
    <2> QED BY <1>1, <2>1, <2>2 DEF CellsKept
  <1>3. CASE ClaimSucceeds(p)
    <2>0. PICK e \in Nat : e = enqueuePos
      BY <1>1
    <2>1. /\ e = enqueuePos /\ pos[p] = e /\ e < Freed + Capacity /\ enqueuePos' = e + 1 /\ pos' = pos
          /\ pc' = [pc EXCEPT ![p] = "fill"]
      BY <1>1, <1>3, <2>0 DEF ClaimCell, ClaimSucceeds
    <2>2. pc'[p] = "fill" /\ \A o \in Producers \ {p} : pc'[o] = pc[o]
      BY <1>1, <2>1 DEF TypeOK
    <2>3. /\ \A o \in Producers : ~Fills(o, e)
          /\ \A o \in Producers : \A q : Fills(o, q)' <=> Fills(o, q) \/ (o = p /\ q = e)
      BY <1>1, <2>1, <2>2 DEF Fills, ClaimsApart, Positions
    <2>4. cellSeq[Cell(e)] = e
      BY <1>1, <2>1 DEF CellsTell, Window, Freed
    <2>5. PositionsTyped' /\ Window'
      BY <1>1, <2>1 DEF PositionsTyped, Window
    <2>6. CellsTell'
      <3> SUFFICES ASSUME NEW q \in Freed..(Freed + Capacity - 1)
                   PROVE  /\ q >= e + 1 => cellSeq[Cell(q)] = q
                          /\ q < e + 1 => \/ /\ \E o \in Producers : Fills(o, q)'
                                             /\ cellSeq[Cell(q)] = q
                                          \/ /\ \A o \in Producers : ~Fills(o, q)'
                                             /\ cellSeq[Cell(q)] = q + 1
                                             /\ cellRec[Cell(q)] \in Records
        BY <1>1, <2>1 DEF CellsTell
      <3>1. CASE q = e
        BY <1>1, <2>3, <2>4, <3>1
      <3>2. CASE q # e
        BY <1>1, <2>1, <2>3, <3>2 DEF CellsTell
      <3> QED BY <3>1, <3>2
    <2>7. ClaimsApart'
      <3>1. \A q \in Positions : q \in Positions' /\ q # e
        BY <1>1, <2>1 DEF Positions
      <3>2. e \in Positions'
        BY <1>1, <2>1 DEF Positions, Window
      <3> SUFFICES ASSUME NEW o \in Producers
                   PROVE  /\ pc'[o] = "fill" => /\ pos[o] \in Positions'
                                                /\ \A x \in Producers : pc'[x] = "fill" /\ pos[x] = pos[o] => x = o
                          /\ pc'[o] \in {"look", "claim"} => pos[o] <= e + 1
                          /\ pc'[o] = "claim" => pos[o] < Freed + Capacity
        BY <1>1, <2>1 DEF ClaimsApart, Fills
      <3>3. CASE o = p
        BY <1>1, <2>1, <2>2, <2>3, <3>2, <3>3 DEF Fills
      <3>4. CASE o # p
        <4>1. pos[o] \in Nat /\ pc'[o] = pc[o]
          BY <1>1, <2>2, <3>4 DEF TypeOK
        <4>2. pc[o] = "fill" => /\ pos[o] \in Positions' /\ pos[o] # e
                                /\ \A x \in Producers : Fills(x, pos[o]) => x = o
          BY <1>1, <2>1, <3>1 DEF ClaimsApart
        <4>3. /\ pc[o] \in {"look", "claim"} => pos[o] <= e + 1
              /\ pc[o] = "claim" => pos[o] < Freed + Capacity
          BY <1>1, <2>1, <4>1 DEF ClaimsApart
        <4> QED BY <2>1, <2>2, <4>1, <4>2, <4>3 DEF Fills
      <3> QED BY <3>3, <3>4
    <2>8. OwnRecord'
      BY <1>1, <2>1, <2>2 DEF OwnRecord
    <2>9. DOMAIN Line' = 0..e /\ (\A q \in DOMAIN Line : Line'[q] = Line[q]) /\ Line'[e] = rec[p]
      <3>1. LineFacts'
        BY <2>5, <2>7, LineNext
      <3>2. /\ DOMAIN Line' = 0..e
            /\ \A q \in 0..e : q < Freed => Line'[q] = delivered[q + 1]
            /\ \A q \in Freed..e :
                 /\ q >= 0 => Line'[q] = RecordAt(q)'
                 /\ \A o \in Producers : Fills(o, q)' => RecordAt(q)' = rec[o]
        <4>1. enqueuePos' - 1 = e
          BY <1>1, <2>1
        <4> QED BY <1>1, <3>1, <4>1 DEF LineFacts
      <3>3. Line'[e] = rec[p]
        <4>1. e \in Freed..e /\ e >= 0 /\ Fills(p, e)'
          BY <1>1, <2>1, <2>3 DEF Window, Freed
        <4> QED BY <3>2, <4>1
      <3>4. ASSUME NEW q \in DOMAIN Line PROVE Line'[q] = Line[q]
        <4>1. q \in 0..(e - 1) /\ q \in 0..e /\ q # e
          BY <1>1, <2>1 DEF LineFacts
        <4>2. CASE q < Freed
          BY <1>1, <3>2, <4>1, <4>2 DEF LineFacts
        <4>3. CASE q >= Freed
          <5>1. Line[q] = RecordAt(q) /\ Line'[q] = RecordAt(q)'
            BY <1>1, <3>2, <4>1, <4>3 DEF LineFacts
          <5>2. Claimant(q)' = Claimant(q)
            BY <2>3, <4>1 DEF Claimant, Fills
          <5>3. RecordAt(q)' = RecordAt(q)
            BY <1>1, <5>2 DEF RecordAt
          <5> QED BY <5>1, <5>3
        <4> QED BY <1>1, <4>1, <4>2, <4>3
      <3> QED BY <3>2, <3>3, <3>4
    <2>10. /\ DOMAIN Line = 0..(e - 1) /\ rec[p] \in Records /\ rec[p].from = p
           /\ \A q \in DOMAIN Line : Line[q] \in Records
           /\ \A q \in DOMAIN Line : Line[q].from = p => Line[q].num < rec[p].num
      BY <1>1, <2>1, HandIsNew, QueueFacts DEF LineFacts, LineInOrder
    <2>11. LineInOrder'
      <3>1. \A q \in DOMAIN Line' : q \in DOMAIN Line \/ q = e
        BY <1>1, <2>9, <2>10
      <3>2. consumer = "release" => dequeuePos >= 1 /\ copied = Line'[dequeuePos - 1]
        <4>1. consumer = "release" => dequeuePos - 1 \in DOMAIN Line
          BY <1>1, <2>1, <2>10 DEF LineInOrder, Window
        <4> QED BY <1>1, <2>9, <4>1 DEF LineInOrder
      <3>3. \A q, r \in DOMAIN Line' :
              q < r /\ Line'[q].from = Line'[r].from => Line'[q].num < Line'[r].num
        <4> SUFFICES ASSUME NEW q \in DOMAIN Line', NEW r \in DOMAIN Line',
                            q < r, Line'[q].from = Line'[r].from
                     PROVE  Line'[q].num < Line'[r].num
          OBVIOUS
        <4>1. q \in DOMAIN Line /\ Line'[q] = Line[q]
          BY <1>1, <2>9, <2>10, <3>1
        <4>2. CASE r = e
          BY <2>9, <2>10, <4>1, <4>2
        <4>3. CASE r # e
          BY <1>1, <2>9, <3>1, <4>1, <4>3 DEF LineInOrder
        <4> QED BY <4>2, <4>3
      <3>4. \A o \in Producers, q \in DOMAIN Line' : Line'[q].from = o =>
              /\ Line'[q].num <= rec[o].num
              /\ pc'[o] \notin {"idle", "fill"} => Line'[q].num < rec[o].num
        <4> SUFFICES ASSUME NEW o \in Producers, NEW q \in DOMAIN Line', Line'[q].from = o
                     PROVE  /\ Line'[q].num <= rec[o].num
                            /\ pc'[o] \notin {"idle", "fill"} => Line'[q].num < rec[o].num
          OBVIOUS
        <4>1. CASE q = e
          <5>1. o = p /\ rec[p].num \in Int
            BY <2>9, <2>10, <4>1 DEF Records
          <5> QED BY <2>2, <2>9, <4>1, <5>1
        <4>2. CASE q # e
          BY <1>1, <2>2, <2>9, <3>1, <4>2 DEF LineInOrder
        <4> QED BY <4>1, <4>2
      <3>5. \A r \in dropped : pc'[r.from] # "idle" => pc[r.from] # "idle"
        BY <1>1, <2>2 DEF TypeOK, Records
      <3> QED BY <1>1, <3>2, <3>3, <3>4, <3>5 DEF LineInOrder
    <2>12. RingInv'
      BY <2>5, <2>6, <2>7, <2>8, <2>11 DEF RingInv
    <2>13. BytesKept
      <3>1. Reserved = InHand \cup InLine /\ Reserved' = InHand' \cup InLine'
        BY <1>1, <2>5, <2>12, QueueFacts, ReservedNext DEF TypeOK
      <3>2. \A q \in Low..(e - 1) : q \in DOMAIN Line
        BY <1>1, <2>1, <2>10 DEF Low, LineInOrder, Window, TypeOK
      <3>3. \A x : x \in InLine' <=> x \in InLine \/ x = rec[p]
        <4>1. Low' = Low /\ \A q : q \in Low..e <=> q \in Low..(e - 1) \/ q = e
          BY <1>1, <2>1 DEF Low, Window
        <4>2. InLine' = {Line'[q] : q \in Low..e}
          BY <1>1, <2>1, <4>1 DEF InLine
        <4>3. InLine = {Line[q] : q \in Low..(e - 1)}
          BY <2>1 DEF InLine
        <4>4. e \in Low..e
          BY <4>1
        <4> QED BY <2>9, <3>2, <4>1, <4>2, <4>3, <4>4
      <3>4. \A x : x \in InHand' \cup {rec[p]} <=> x \in InHand
        BY <1>1, <2>2 DEF InHand
      <3>5. \A x : x \in Reserved' <=> x \in Reserved
        BY <3>1, <3>3, <3>4
      <3> QED BY <1>1, <3>5 DEF BytesKept
    <2>14. BytesAdd' /\ queuedBytes' \in Nat
      BY <2>13, BytesStepKeeps
    <2>15. TypeOK'
      <3>1. pc' \in [Producers -> {"idle", "reserve", "load", "look", "claim", "fill"}]
        BY <1>1, <2>1 DEF TypeOK
      <3> QED BY <1>1, <2>1, <2>14, <3>1 DEF TypeOK
    <2> QED BY <1>1, <2>1, <2>4, <2>9, <2>12, <2>13, <2>14, <2>15 DEF QueueInv
  <1> QED BY <1>2, <1>3

LEMMA SameLine ==
  ASSUME DOMAIN Line' = DOMAIN Line, \A q \in DOMAIN Line : Line'[q] = Line[q]
  PROVE  Line' = Line
  BY DEF Line

(* Publishing tells the consumer that the copy in is over. *)
LEMMA PublishCellKeeps ==
  ASSUME QueueInv, NEW p \in Producers, PublishCell(p)
  PROVE  /\ QueueInv' /\ Line' = Line /\ BytesKept /\ dropped' = dropped
         /\ dequeuePos' = dequeuePos /\ enqueuePos' = enqueuePos /\ consumer' = consumer
         /\ pos[p] \in Positions /\ cellSeq[Cell(pos[p])] = pos[p]
         /\ cellSeq' = [cellSeq EXCEPT ![Cell(pos[p])] = pos[p] + 1]
  <1>1. /\ TypeOK /\ Window /\ CellsTell /\ ClaimsApart /\ OwnRecord /\ LineInOrder
        /\ pc[p] = "fill" /\ pos[p] \in Nat /\ rec' = rec /\ active' = active /\ pos' = pos
        /\ ignored' = ignored /\ queuedBytes' = queuedBytes /\ dropped' = dropped
        /\ delivered' = delivered /\ enqueuePos' = enqueuePos
        /\ dequeuePos' = dequeuePos /\ consumer' = consumer /\ copied' = copied
        /\ enqueuePos \in Nat /\ dequeuePos \in Nat /\ Freed \in Nat /\ Freed' = Freed
        /\ LineFacts /\ Capacity \in Nat /\ Positions' = Positions
    BY QueueFacts DEF PublishCell, QueueInv, TypeOK, RingInv, ClaimsApart, Freed, PositionsTyped,
                      Positions
  <1>2. PICK e \in Nat : e = pos[p]
    BY <1>1
  <1>3. /\ cellRec' = [cellRec EXCEPT ![Cell(e)] = rec[p]]
        /\ cellSeq' = [cellSeq EXCEPT ![Cell(e)] = e + 1]
        /\ pc' = [pc EXCEPT ![p] = "idle"]
    BY <1>2 DEF PublishCell
  <1>4. pc'[p] = "idle" /\ \A o \in Producers \ {p} : pc'[o] = pc[o]
    BY <1>1, <1>3 DEF TypeOK
  <1>5. /\ e \in Positions /\ e \in Freed..(Freed + Capacity - 1) /\ e \in Freed..(enqueuePos - 1)
        /\ Fills(p, e) /\ rec[p] \in Records
    BY <1>1, <1>2 DEF ClaimsApart, Positions, Freed, Window, OwnRecord, Fills
  <1>6. \A o \in Producers : \A q : Fills(o, q)' <=> Fills(o, q) /\ q # e
    BY <1>1, <1>2, <1>4 DEF Fills, ClaimsApart
  <1>7. /\ Cell(e) \in Cells /\ cellRec'[Cell(e)] = rec[p] /\ cellSeq'[Cell(e)] = e + 1
        /\ cellSeq[Cell(e)] = e
        /\ \A q \in Freed..(Freed + Capacity - 1) : q # e =>
             cellRec'[Cell(q)] = cellRec[Cell(q)] /\ cellSeq'[Cell(q)] = cellSeq[Cell(q)]
    <2>1. Cell(e) \in Cells
      BY CellOf
    <2>2. ASSUME NEW q \in Freed..(Freed + Capacity - 1), q # e
          PROVE  Cell(q) # Cell(e) /\ Cell(q) \in Cells
      <3>1. q \in Nat
        BY <1>1
      <3>2. q < e => e < q + Capacity
        BY <1>1, <1>5, <3>1
      <3>3. e < q => q < e + Capacity
        BY <1>1, <1>5, <3>1
      <3> QED BY <2>2, <3>1, <3>2, <3>3, CellOf, CellsApart
    <2>3. cellSeq[Cell(e)] = e
      BY <1>1, <1>5 DEF CellsTell
    <2>4. cellSeq \in [Cells -> Nat] /\ cellRec \in [Cells -> Records \cup {NoRecord}]
      BY <1>1 DEF TypeOK
    <2> QED BY <1>3, <2>1, <2>2, <2>3, <2>4
  <1>8. Window' /\ PositionsTyped' /\ OwnRecord'
    BY <1>1, <1>4 DEF Window, PositionsTyped, OwnRecord
  <1>9. CellsTell'
    <2> SUFFICES ASSUME NEW q \in Freed..(Freed + Capacity - 1)
                 PROVE  /\ q >= enqueuePos => cellSeq'[Cell(q)] = q
                        /\ q < enqueuePos => \/ /\ \E o \in Producers : Fills(o, q)'
                                                /\ cellSeq'[Cell(q)] = q
                                             \/ /\ \A o \in Producers : ~Fills(o, q)'
                                                /\ cellSeq'[Cell(q)] = q + 1
                                                /\ cellRec'[Cell(q)] \in Records
      BY <1>1 DEF CellsTell
    <2>1. CASE q = e
      BY <1>1, <1>5, <1>6, <1>7, <2>1
    <2>2. CASE q # e
      BY <1>1, <1>6, <1>7, <2>2 DEF CellsTell
    <2> QED BY <2>1, <2>2
  <1>10. ClaimsApart'
    BY <1>1, <1>4 DEF ClaimsApart, Fills
  <1>11. Line' = Line
    <2>1. LineFacts'
      BY <1>8, <1>10, LineNext
    <2>2. /\ DOMAIN Line' = 0..(enqueuePos - 1)
          /\ \A q \in 0..(enqueuePos - 1) : q < Freed => Line'[q] = delivered[q + 1]
          /\ \A q \in Freed..(enqueuePos - 1) :
               /\ q >= 0 => Line'[q] = RecordAt(q)'
               /\ \A o \in Producers : Fills(o, q)' => RecordAt(q)' = rec[o]
               /\ (\A o \in Producers : ~Fills(o, q)') => RecordAt(q)' = cellRec'[Cell(q)]
      BY <1>1, <2>1 DEF LineFacts
    <2>3. ASSUME NEW q \in Freed..(enqueuePos - 1)
          PROVE  RecordAt(q)' = RecordAt(q)
      <3>1. q \in Freed..(Freed + Capacity - 1)
        BY <1>1 DEF Window
      <3>2. CASE q = e
        BY <1>1, <1>5, <1>6, <1>7, <2>2, <3>2 DEF LineFacts
      <3>3. CASE q # e /\ \E o \in Producers : Fills(o, q)
        BY <1>1, <1>6, <2>2, <3>3 DEF LineFacts
      <3>4. CASE q # e /\ \A o \in Producers : ~Fills(o, q)
        BY <1>1, <1>6, <1>7, <2>2, <3>1, <3>4 DEF LineFacts
      <3> QED BY <3>2, <3>3, <3>4
    <2>4. ASSUME NEW q \in 0..(enqueuePos - 1)
          PROVE  Line'[q] = Line[q]
      <3>1. CASE q < Freed
        BY <1>1, <2>2, <3>1 DEF LineFacts
      <3>2. CASE q >= Freed
        <4>1. q \in Freed..(enqueuePos - 1) /\ q >= 0
          BY <1>1, <3>2
        <4> QED BY <1>1, <2>2, <2>3, <4>1 DEF LineFacts
      <3> QED BY <1>1, <3>1, <3>2
    <2> QED BY <1>1, <2>2, <2>4, SameLine DEF LineFacts
  <1>12. LineInOrder'
    <2>1. \A r \in dropped : pc'[r.from] # "idle" => pc[r.from] # "idle"
      BY <1>1, <1>4 DEF TypeOK, Records
    <2> QED BY <1>1, <1>4, <1>11, <2>1 DEF LineInOrder
  <1>13. RingInv'
    BY <1>8, <1>9, <1>10, <1>12 DEF RingInv
  <1>14. BytesKept
    <2>1. Reserved = InHand \cup InLine /\ Reserved' = InHand' \cup InLine'
      BY <1>1, <1>8, <1>13, QueueFacts, ReservedNext DEF TypeOK
    <2>2. InLine' = InLine
      BY <1>1, <1>11 DEF InLine, Low
    <2>3. InHand' = InHand
      BY <1>1, <1>4 DEF InHand
    <2> QED BY <1>1, <2>1, <2>2, <2>3 DEF BytesKept
  <1>15. BytesAdd' /\ queuedBytes' \in Nat
    BY <1>14, BytesStepKeeps
  <1>16. TypeOK'
    <2>1. pc' \in [Producers -> {"idle", "reserve", "load", "look", "claim", "fill"}]
      BY <1>1, <1>3 DEF TypeOK
    <2>2. cellSeq \in [Cells -> Nat] /\ cellRec \in [Cells -> Records \cup {NoRecord}]
          /\ e + 1 \in Nat
      BY <1>1 DEF TypeOK
    <2>3. cellSeq' \in [Cells -> Nat]
      BY <1>3, <2>2
    <2>4. cellRec' \in [Cells -> Records \cup {NoRecord}]
      BY <1>3, <1>5, <2>2
    <2> QED BY <1>1, <1>15, <2>1, <2>3, <2>4 DEF TypeOK
  <1> QED BY <1>1, <1>2, <1>3, <1>5, <1>7, <1>11, <1>13, <1>14, <1>15, <1>16 DEF QueueInv

-----------------------------------------------------------------------------
(* The steps of the consumer, which change nothing of a producer *)

ProducersKept == /\ pc' = pc /\ rec' = rec /\ pos' = pos /\ active' = active
                 /\ ignored' = ignored /\ dropped' = dropped /\ enqueuePos' = enqueuePos

LEMMA FillsKept ==
  ASSUME ProducersKept
  PROVE  /\ \A o \in Producers : \A q : Fills(o, q)' <=> Fills(o, q)
         /\ \A q : Claimant(q)' = Claimant(q)
         /\ InHand' = InHand /\ (OwnRecord => OwnRecord')
  BY DEF ProducersKept, Fills, Claimant, InHand, OwnRecord

LEMMA TakeCellKeeps ==
  ASSUME QueueInv, TakeCell
  PROVE  /\ QueueInv' /\ Line' = Line /\ BytesKept /\ ProducersKept
         /\ consumer = "idle" /\ dequeuePos \in Positions
         /\ dequeuePos' = dequeuePos + 1 /\ cellSeq' = cellSeq
  <1>1. /\ TypeOK /\ Window /\ CellsTell /\ ClaimsApart /\ OwnRecord /\ LineInOrder /\ LineFacts
        /\ ProducersKept /\ consumer = "idle" /\ consumer' = "copy"
        /\ dequeuePos' = dequeuePos + 1 /\ cellSeq' = cellSeq /\ cellRec' = cellRec
        /\ delivered' = delivered /\ queuedBytes' = queuedBytes /\ copied' = copied
        /\ enqueuePos \in Nat /\ dequeuePos \in Nat /\ Freed = dequeuePos /\ Freed' = Freed
        /\ cellSeq[Cell(dequeuePos)] = dequeuePos + 1 /\ Capacity \in Nat /\ Capacity >= 2
    BY QueueFacts DEF TakeCell, QueueInv, TypeOK, RingInv, Freed, PositionsTyped, ProducersKept,
                      HeadIsReady
  <1>2. dequeuePos < enqueuePos /\ \A o \in Producers : ~Fills(o, dequeuePos)
    BY <1>1 DEF CellsTell
  <1>3. \A q \in Positions : q # dequeuePos => q \in Positions'
    BY <1>1 DEF Positions, ProducersKept
  <1>4. Window' /\ PositionsTyped' /\ OwnRecord'
    BY <1>1, <1>2, FillsKept DEF Window, PositionsTyped, ProducersKept
  <1>5. CellsTell'
    BY <1>1, FillsKept DEF CellsTell, ProducersKept
  <1>6. ClaimsApart'
    BY <1>1, <1>2, <1>3 DEF ClaimsApart, ProducersKept, Fills
  <1>7. Line' = Line
    <2>1. ASSUME NEW q PROVE RecordAt(q)' = RecordAt(q)
      <3>1. Claimant(q)' = Claimant(q)
        BY <1>1, FillsKept
      <3> QED BY <1>1, <3>1 DEF RecordAt, ProducersKept
    <2> QED BY <1>1, <2>1 DEF Line, ProducersKept
  <1>8. LineInOrder'
    BY <1>1, <1>7 DEF LineInOrder, ProducersKept
  <1>9. RingInv'
    BY <1>4, <1>5, <1>6, <1>8 DEF RingInv
  <1>10. BytesKept
    <2>1. Reserved = InHand \cup InLine /\ Reserved' = InHand' \cup InLine'
      BY <1>1, <1>4, <1>9, QueueFacts, ReservedNext
    <2>2. InLine' = InLine
      BY <1>1, <1>7 DEF InLine, Low, ProducersKept
    <2> QED BY <1>1, <2>1, <2>2, FillsKept DEF BytesKept
  <1>11. BytesAdd' /\ queuedBytes' \in Nat
    BY <1>10, BytesStepKeeps
  <1>12. TypeOK'
    BY <1>1, <1>11 DEF TypeOK, ProducersKept
  <1> QED BY <1>1, <1>2, <1>7, <1>9, <1>10, <1>11, <1>12 DEF QueueInv, Positions

LEMMA FreeCellKeeps ==
  ASSUME QueueInv, FreeCell
  PROVE  /\ QueueInv' /\ Line' = Line /\ BytesKept /\ ProducersKept
         /\ consumer = "copy" /\ consumer' = "release" /\ dequeuePos' = dequeuePos
         /\ \A q \in Positions : cellSeq'[Cell(q)] = cellSeq[Cell(q)]
  <1>1. /\ TypeOK /\ Window /\ CellsTell /\ ClaimsApart /\ OwnRecord /\ LineInOrder /\ LineFacts
        /\ ProducersKept /\ consumer = "copy" /\ consumer' = "release"
        /\ dequeuePos' = dequeuePos /\ queuedBytes' = queuedBytes
        /\ enqueuePos \in Nat /\ dequeuePos \in Nat /\ Capacity \in Nat /\ Capacity >= 2
    BY QueueFacts DEF FreeCell, QueueInv, TypeOK, RingInv, PositionsTyped, ProducersKept
  <1>2. PICK f \in Nat : f = dequeuePos - 1
    BY <1>1 DEF Window
  <1>3. Freed = f /\ Freed' = f + 1 /\ dequeuePos = f + 1 /\ f < enqueuePos
    BY <1>1, <1>2 DEF Freed, Window
  <1>4. /\ copied' = cellRec[Cell(f)] /\ delivered' = Append(delivered, cellRec[Cell(f)])
        /\ cellRec' = [cellRec EXCEPT ![Cell(f)] = NoRecord]
        /\ cellSeq' = [cellSeq EXCEPT ![Cell(f)] = f + Capacity]
    BY <1>2 DEF FreeCell, NextLap
  <1>5. \A o \in Producers : ~Fills(o, f)
    BY <1>1, <1>3 DEF ClaimsApart, Fills, Positions
  <1>6. cellRec[Cell(f)] \in Records /\ cellRec[Cell(f)] = Line[f]
    <2>1. f \in Freed..(Freed + Capacity - 1) /\ f \in Freed..(enqueuePos - 1) /\ f >= 0
      BY <1>1, <1>3
    <2> QED BY <1>1, <1>3, <1>5, <2>1 DEF CellsTell, LineFacts
  <1>7. /\ cellSeq'[Cell(f + Capacity)] = f + Capacity
        /\ \A q \in (f + 1)..(f + Capacity - 1) :
             cellRec'[Cell(q)] = cellRec[Cell(q)] /\ cellSeq'[Cell(q)] = cellSeq[Cell(q)]
    <2>1. Cell(f) \in Cells /\ Cell(f + Capacity) = Cell(f)
      BY CellOf, NextLapCell
    <2>2. ASSUME NEW q \in (f + 1)..(f + Capacity - 1)
          PROVE  Cell(q) # Cell(f) /\ Cell(q) \in Cells
      <3>1. q \in Nat /\ f < q /\ q < f + Capacity
        BY <1>1
      <3> QED BY <3>1, CellOf, CellsApart
    <2>3. cellSeq \in [Cells -> Nat] /\ cellRec \in [Cells -> Records \cup {NoRecord}]
      BY <1>1 DEF TypeOK
    <2> QED BY <1>4, <2>1, <2>2, <2>3
  <1>8. Window' /\ PositionsTyped' /\ OwnRecord'
    BY <1>1, <1>3, FillsKept DEF Window, PositionsTyped, ProducersKept
  <1>9. CellsTell'
    <2> SUFFICES ASSUME NEW q \in (f + 1)..(f + 1 + Capacity - 1)
                 PROVE  /\ q >= enqueuePos => cellSeq'[Cell(q)] = q
                        /\ q < enqueuePos => \/ /\ \E o \in Producers : Fills(o, q)
                                                /\ cellSeq'[Cell(q)] = q
                                             \/ /\ \A o \in Producers : ~Fills(o, q)
                                                /\ cellSeq'[Cell(q)] = q + 1
                                                /\ cellRec'[Cell(q)] \in Records
      BY <1>1, <1>3, FillsKept DEF CellsTell, ProducersKept
    <2>1. CASE q = f + Capacity
      BY <1>1, <1>3, <1>7, <2>1 DEF Window
    <2>2. CASE q # f + Capacity
      <3>1. q \in (f + 1)..(f + Capacity - 1) /\ q \in Freed..(Freed + Capacity - 1)
        BY <1>1, <1>3, <2>2
      <3> QED BY <1>1, <1>7, <3>1 DEF CellsTell
    <2> QED BY <2>1, <2>2
  <1>10. ClaimsApart'
    <2>1. Positions' = Positions /\ \A q \in Nat : q < f + Capacity => q < f + 1 + Capacity
      BY <1>1 DEF Positions, ProducersKept
    <2>2. \A o \in Producers : pos[o] \in Nat
      BY <1>1 DEF TypeOK
    <2> QED BY <1>1, <1>3, <2>1, <2>2 DEF ClaimsApart, ProducersKept, Fills
  <1>11. delivered \in Seq(Records) /\ Len(delivered) = f
    BY <1>1, <1>3 DEF TypeOK, LineInOrder
  <1>12. Line' = Line
    <2>1. LineFacts'
      BY <1>8, <1>10, LineNext
    <2>2. /\ DOMAIN Line' = 0..(enqueuePos - 1)
          /\ \A q \in 0..(enqueuePos - 1) : q < f + 1 => Line'[q] = delivered'[q + 1]
          /\ \A q \in (f + 1)..(enqueuePos - 1) :
               /\ q >= 0 => Line'[q] = RecordAt(q)'
               /\ \A o \in Producers : Fills(o, q) => RecordAt(q)' = rec[o]
               /\ (\A o \in Producers : ~Fills(o, q)) => RecordAt(q)' = cellRec'[Cell(q)]
      BY <1>1, <1>3, <2>1, FillsKept DEF LineFacts, ProducersKept
    <2>3. ASSUME NEW q \in (f + 1)..(enqueuePos - 1)
          PROVE  RecordAt(q)' = RecordAt(q)
      <3>1. q \in (f + 1)..(f + Capacity - 1) /\ q \in Freed..(enqueuePos - 1)
        BY <1>1, <1>3 DEF Window
      <3>2. CASE \E o \in Producers : Fills(o, q)
        BY ZenonT(40), <1>1, <2>2, <3>1, <3>2 DEF LineFacts
      <3>3. CASE \A o \in Producers : ~Fills(o, q)
        BY <1>1, <1>7, <2>2, <3>1, <3>3 DEF LineFacts
      <3> QED BY <3>2, <3>3
    <2>4. ASSUME NEW q \in 0..(enqueuePos - 1)
          PROVE  Line'[q] = Line[q]
      <3>1. CASE q < f
        <4>1. delivered'[q + 1] = delivered[q + 1]
          BY <1>4, <1>6, <1>11, <3>1
        <4> QED BY <1>1, <1>3, <2>2, <3>1, <4>1 DEF LineFacts
      <3>2. CASE q = f
        <4>1. delivered'[q + 1] = cellRec[Cell(f)]
          BY <1>4, <1>6, <1>11, <3>2
        <4> QED BY <1>6, <2>2, <3>2, <4>1
      <3>3. CASE q > f
        <4>1. q \in (f + 1)..(enqueuePos - 1) /\ q \in Freed..(enqueuePos - 1) /\ q >= 0
          BY <1>1, <1>3, <3>3
        <4> QED BY <1>1, <2>2, <2>3, <4>1 DEF LineFacts
      <3> QED BY <1>1, <3>1, <3>2, <3>3
    <2> QED BY <1>1, <2>2, <2>4, SameLine DEF LineFacts
  <1>13. LineInOrder'
    <2>1. Len(delivered') = f + 1
      BY <1>4, <1>6, <1>11
    <2>2. dequeuePos' - 1 = f /\ dequeuePos' >= 1
      BY <1>1, <1>3
    <2> QED BY <1>1, <1>3, <1>4, <1>6, <1>12, <2>1, <2>2 DEF LineInOrder, ProducersKept
  <1>14. RingInv'
    BY <1>8, <1>9, <1>10, <1>13 DEF RingInv
  <1>15. BytesKept
    <2>1. Reserved = InHand \cup InLine /\ Reserved' = InHand' \cup InLine'
      BY <1>1, <1>8, <1>14, QueueFacts, ReservedNext
    <2>2. InLine' = InLine
      BY <1>1, <1>12 DEF InLine, Low, ProducersKept
    <2> QED BY <1>1, <2>1, <2>2, FillsKept DEF BytesKept
  <1>16. BytesAdd' /\ queuedBytes' \in Nat
    BY <1>15, BytesStepKeeps
  <1>17. TypeOK'
    <2>1. cellSeq \in [Cells -> Nat] /\ cellRec \in [Cells -> Records \cup {NoRecord}]
          /\ f + Capacity \in Nat
      BY <1>1 DEF TypeOK
    <2>2. cellSeq' \in [Cells -> Nat] /\ cellRec' \in [Cells -> Records \cup {NoRecord}]
      BY <1>4, <2>1
    <2>3. delivered' \in Seq(Records)
      BY <1>4, <1>6, <1>11
    <2> QED BY <1>1, <1>4, <1>6, <1>16, <2>2, <2>3 DEF TypeOK, ProducersKept
  <1>18. \A q \in Positions : cellSeq'[Cell(q)] = cellSeq[Cell(q)]
    <2>1. \A q \in Positions : q \in (f + 1)..(f + Capacity - 1)
      BY <1>1, <1>3 DEF Positions, Window
    <2> QED BY <1>7, <2>1
  <1> QED BY <1>1, <1>12, <1>14, <1>15, <1>16, <1>17, <1>18 DEF QueueInv

(* The record whose bytes go back is nowhere else: a thread's records have *)
(* different numbers.                                                      *)
LEMMA ReleaseBytesKeeps ==
  ASSUME QueueInv, ReleaseBytes
  PROVE  /\ QueueInv' /\ Line' = Line /\ BytesGiven(copied) /\ ProducersKept
         /\ consumer = "release" /\ consumer' = "idle" /\ dequeuePos' = dequeuePos
         /\ cellSeq' = cellSeq /\ delivered' = delivered
         /\ dequeuePos >= 1 /\ copied = Line[dequeuePos - 1]
  <1>1. /\ TypeOK /\ Window /\ CellsTell /\ ClaimsApart /\ OwnRecord /\ LineInOrder /\ LineFacts
        /\ ProducersKept /\ consumer = "release" /\ consumer' = "idle"
        /\ dequeuePos' = dequeuePos /\ cellSeq' = cellSeq /\ cellRec' = cellRec
        /\ delivered' = delivered /\ queuedBytes' = queuedBytes - copied.size
        /\ copied' = NoRecord
        /\ enqueuePos \in Nat /\ dequeuePos \in Nat /\ Freed' = Freed
        /\ \A q \in DOMAIN Line : Line[q] \in Records
        /\ dequeuePos >= 1 /\ copied = Line[dequeuePos - 1]
    BY QueueFacts DEF ReleaseBytes, QueueInv, TypeOK, RingInv, Freed, PositionsTyped, ProducersKept,
                      LineInOrder
  <1>2. Window' /\ PositionsTyped' /\ OwnRecord'
    BY <1>1, FillsKept DEF Window, PositionsTyped, ProducersKept
  <1>3. CellsTell'
    BY <1>1, FillsKept DEF CellsTell, ProducersKept
  <1>4. ClaimsApart'
    BY <1>1 DEF ClaimsApart, ProducersKept, Fills, Positions
  <1>5. Line' = Line
    <2>1. ASSUME NEW q PROVE RecordAt(q)' = RecordAt(q)
      <3>1. Claimant(q)' = Claimant(q)
        BY <1>1, FillsKept
      <3> QED BY <1>1, <3>1 DEF RecordAt, ProducersKept
    <2> QED BY <1>1, <2>1 DEF Line, ProducersKept
  <1>6. LineInOrder'
    BY <1>1, <1>5 DEF LineInOrder, ProducersKept
  <1>7. RingInv'
    BY <1>2, <1>3, <1>4, <1>6 DEF RingInv
  <1>8. PICK f \in DOMAIN Line : f = dequeuePos - 1 /\ copied = Line[f] /\ copied \in Records
    <2>1. dequeuePos - 1 \in DOMAIN Line
      BY <1>1 DEF LineFacts, Window
    <2> QED BY <1>1, <2>1
  <1>9. BytesGiven(copied)
    <2>1. Reserved = InHand \cup InLine /\ Reserved' = InHand' \cup InLine'
      BY <1>1, <1>2, <1>7, QueueFacts, ReservedNext
    <2>2. copied \notin InHand
      BY <1>8, HandIsNew DEF InHand
    <2>3. \A q \in dequeuePos..(enqueuePos - 1) : Line[q] # copied
      <3> SUFFICES ASSUME NEW q \in dequeuePos..(enqueuePos - 1), Line[q] = copied PROVE FALSE
        OBVIOUS
      <3>1. q \in DOMAIN Line /\ f < q
        BY <1>1, <1>8 DEF LineFacts
      <3>2. copied.num < copied.num /\ copied.num \in Int
        BY <1>1, <1>8, <3>1 DEF LineInOrder, Records
      <3> QED BY <3>2
    <2>4. \A q : q \in (dequeuePos - 1)..(enqueuePos - 1)
                   <=> q = f \/ q \in dequeuePos..(enqueuePos - 1)
      BY <1>1, <1>8 DEF LineFacts
    <2>5. /\ InLine = {Line[q] : q \in (dequeuePos - 1)..(enqueuePos - 1)}
          /\ InLine' = {Line[q] : q \in dequeuePos..(enqueuePos - 1)}
      BY <1>1, <1>5 DEF InLine, Low, ProducersKept
    <2>6. copied \in InLine /\ InLine' = InLine \ {copied}
      BY <1>8, <2>3, <2>4, <2>5
    <2> QED BY <1>1, <2>1, <2>2, <2>6, FillsKept DEF BytesGiven
  <1>10. BytesAdd' /\ queuedBytes' \in Nat
    BY <1>8, <1>9, BytesStepKeeps
  <1>11. TypeOK'
    BY <1>1, <1>10 DEF TypeOK, ProducersKept
  <1> QED BY <1>1, <1>5, <1>7, <1>9, <1>10, <1>11 DEF QueueInv

(* Nothing the invariant is about changes when the ring stands still. *)
LEMMA RingAtRest ==
  ASSUME QueueInv, active' \in BOOLEAN, ignored' \subseteq Records,
         UNCHANGED <<enqueuePos, dequeuePos, cellSeq, cellRec, queuedBytes, dropped,
                     delivered, pc, rec, pos, consumer, copied>>
  PROVE  QueueInv' /\ Line' = Line /\ Reserved' = Reserved
  <1>1. TypeOK'
    BY DEF TypeOK, QueueInv
  <1>2. Freed' = Freed /\ Positions' = Positions
    BY DEF Freed, Positions
  <1>3. \A q : Claimant(q)' = Claimant(q)
    BY DEF Claimant
  <1>4. ASSUME NEW q PROVE RecordAt(q)' = RecordAt(q)
    <2>1. Claimant(q)' = Claimant(q)
      BY <1>3
    <2> QED BY <2>1 DEF RecordAt
  <1>5. Line' = Line
    BY <1>2, <1>4 DEF Line
  <1>6. Reserved' = Reserved
    <2>1. {RecordAt(q) : q \in Positions}' = {RecordAt(q) : q \in Positions}
      BY <1>2, <1>4
    <2> QED BY <2>1 DEF Reserved
  <1>7. Window' /\ ClaimsApart' /\ OwnRecord'
    BY <1>2 DEF QueueInv, RingInv, Window, ClaimsApart, OwnRecord, Fills
  <1>8. CellsTell'
    BY <1>2 DEF QueueInv, RingInv, CellsTell, Fills
  <1>9. LineInOrder'
    BY <1>2, <1>5 DEF QueueInv, RingInv, LineInOrder
  <1>10. BytesAdd'
    BY <1>6 DEF QueueInv, BytesAdd, ByteBudget
  <1> QED BY <1>1, <1>5, <1>6, <1>7, <1>8, <1>9, <1>10 DEF QueueInv, RingInv

LEMMA DeactivateKeeps ==
  ASSUME QueueInv, Deactivate
  PROVE  /\ QueueInv' /\ Line' = Line /\ Reserved' = Reserved
         /\ UNCHANGED <<enqueuePos, dequeuePos, cellSeq, dropped, consumer>>
  <1>1. active' \in BOOLEAN /\ ignored' \subseteq Records
    BY DEF QueueInv, TypeOK, Deactivate
  <1> QED BY <1>1, RingAtRest DEF Deactivate

LEMMA StutterKeeps ==
  ASSUME QueueInv, UNCHANGED queueVars
  PROVE  /\ QueueInv' /\ Line' = Line /\ Reserved' = Reserved
         /\ UNCHANGED <<enqueuePos, dequeuePos, cellSeq, dropped, consumer>>
  <1>1. active' \in BOOLEAN /\ ignored' \subseteq Records
    BY DEF QueueInv, TypeOK, queueVars
  <1> QED BY <1>1, RingAtRest DEF queueVars

LEMMA InitOfQueue == Init => QueueInv
  <1> SUFFICES ASSUME Init PROVE QueueInv
    OBVIOUS
  <1> USE CapacityAssumption, QueueAssumption
  <1>1. ASSUME NEW q \in 0..(Capacity - 1) PROVE cellSeq[Cell(q)] = q
    <2>1. Capacity * 0 + q = q
      OBVIOUS
    <2>2. Cell(q) = q
      BY <2>1, CellUnique DEF Cells
    <2> QED BY <2>2 DEF Init, Cells
  <1>2. Positions = {} /\ Freed = 0
    BY DEF Init, Positions, Freed
  <1>3. Window /\ CellsTell /\ ClaimsApart /\ OwnRecord
    <2>1. enqueuePos = 0 /\ dequeuePos = 0 /\ consumer = "idle" /\ Capacity \in Nat
      BY DEF Init
    <2>2. Window
      BY <1>2, <2>1 DEF Window
    <2>3. CellsTell
      <3>1. \A q \in 0..(Capacity - 1) : q >= enqueuePos /\ ~(q < enqueuePos) /\ cellSeq[Cell(q)] = q
        BY <1>1, <2>1
      <3>2. Freed..(Freed + Capacity - 1) = 0..(Capacity - 1)
        BY <1>2, <2>1
      <3> QED BY <3>1, <3>2 DEF CellsTell
    <2>4. \A p \in Producers : pc[p] = "idle" /\ rec[p] = NoRecord
      BY DEF Init
    <2>5. ClaimsApart
      BY <2>4 DEF ClaimsApart
    <2>6. OwnRecord
      BY <2>4 DEF OwnRecord
    <2> QED BY <2>2, <2>3, <2>5, <2>6
  <1>4. LineInOrder
    BY <1>2 DEF Init, LineInOrder, Line
  <1>5. Reserved = {}
    BY <1>2 DEF Init, Reserved
  <1>6. BytesAdd
    <2>1. IsFiniteSet({})
      BY FS_EmptySet
    <2>2. Channel!Bytes({}) = IF {} = {} THEN 0 ELSE Channel!Bytes({} \ {Any({})}) + Any({}).size
      BY <2>1, BytesStep
    <2>3. Channel!Bytes({}) = 0
      BY <2>2
    <2> QED BY <1>5, <2>1, <2>3 DEF Init, BytesAdd, ByteBudget
  <1>7. TypeOK
    BY DEF Init, TypeOK, NoRecord, Cells
  <1> QED BY <1>3, <1>4, <1>6, <1>7 DEF QueueInv, RingInv

LEMMA NextOfQueue ==
  ASSUME QueueInv, [Next]_queueVars
  PROVE  QueueInv'
  <1>1. ASSUME NEW p \in Producers, NEW size \in Sizes, Offer(p, size)
        PROVE  QueueInv'
    BY <1>1, OfferKeeps
  <1>2. ASSUME NEW p \in Producers, Enqueue(p)
        PROVE  QueueInv'
    BY <1>2, ReserveBytesKeeps, LoadPositionKeeps, LookAtCellKeeps, ClaimCellKeeps,
       PublishCellKeeps DEF Enqueue
  <1>3. CASE Dequeue
    BY <1>3, TakeCellKeeps, FreeCellKeeps, ReleaseBytesKeeps DEF Dequeue
  <1> QED BY <1>1, <1>2, <1>3, DeactivateKeeps, StutterKeeps DEF Next

-----------------------------------------------------------------------------
(* The inductive invariant holds in every state. *)
THEOREM QueueInvariant == Spec => []QueueInv
  BY InitOfQueue, NextOfQueue, PTL DEF Spec

(* Lapping producers and the consumer never disturb each other: no cell is *)
(* copied in and out at once, the byte counter is what the ring holds and  *)
(* within the budget, and each thread's lines keep their order             *)
(* (NativeLogQueue::enqueue and try_dequeue).                              *)
THEOREM RingStaysSound == Spec => []RingIsSound
  <1>1. QueueInv => RingIsSound
    <2> SUFFICES ASSUME QueueInv PROVE RingIsSound
      OBVIOUS
    <2>1. /\ TypeOK /\ Window /\ ClaimsApart /\ LineInOrder /\ LineFacts /\ ByteBudget
          /\ Freed \in Nat /\ enqueuePos \in Nat /\ dequeuePos \in Nat /\ Capacity \in Nat
      BY QueueFacts DEF QueueInv, RingInv, BytesAdd, TypeOK
    <2>2. NoTornRecord
      <3> SUFFICES ASSUME NEW p \in Producers, pc[p] = "fill"
                   PROVE  /\ \A o \in Producers \ {p} : pc[o] = "fill" => Cell(pos[o]) # Cell(pos[p])
                          /\ consumer = "copy" => Cell(dequeuePos - 1) # Cell(pos[p])
        BY DEF NoTornRecord
      <3>1. pos[p] \in dequeuePos..(enqueuePos - 1) /\ pos[p] \in Nat
        BY <2>1 DEF ClaimsApart, Positions
      <3>2. ASSUME NEW o \in Producers \ {p}, pc[o] = "fill"
            PROVE  Cell(pos[o]) # Cell(pos[p])
        <4>1. pos[o] \in dequeuePos..(enqueuePos - 1) /\ pos[o] # pos[p] /\ pos[o] \in Nat
          BY <2>1, <3>1, <3>2 DEF ClaimsApart, Positions, Fills
        <4>2. pos[o] < pos[p] \/ pos[p] < pos[o]
          BY <3>1, <4>1
        <4>3. pos[o] < pos[p] + Capacity /\ pos[p] < pos[o] + Capacity
          BY <2>1, <3>1, <4>1 DEF Window, Freed
        <4> QED BY <3>1, <4>1, <4>2, <4>3, CellsApart
      <3>3. ASSUME consumer = "copy"
            PROVE  Cell(dequeuePos - 1) # Cell(pos[p])
        <4>1. /\ dequeuePos - 1 \in Nat /\ dequeuePos - 1 < pos[p]
              /\ pos[p] < dequeuePos - 1 + Capacity
          BY <2>1, <3>1, <3>3 DEF Window, Freed
        <4> QED BY <3>1, <4>1, CellsApart
      <3> QED BY <3>2, <3>3
    <2>3. ProducerOrder
      <3> SUFFICES ASSUME NEW i \in DOMAIN delivered, NEW j \in DOMAIN delivered,
                          i < j, delivered[i].from = delivered[j].from
                   PROVE  delivered[i].num < delivered[j].num
        BY DEF ProducerOrder
      <3>1. DOMAIN delivered = 1..Freed /\ Freed <= enqueuePos
        BY <2>1 DEF TypeOK, LineInOrder, Window, Freed
      <3>2. i - 1 \in DOMAIN Line /\ Line[i - 1] = delivered[i]
        BY <2>1, <3>1 DEF LineFacts
      <3>3. j - 1 \in DOMAIN Line /\ Line[j - 1] = delivered[j]
        BY <2>1, <3>1 DEF LineFacts
      <3>4. i - 1 < j - 1
        BY <3>1
      <3> QED BY <2>1, <3>2, <3>3, <3>4 DEF LineInOrder
    <2> QED BY <2>1, <2>2, <2>3 DEF RingIsSound
  <1> QED BY <1>1, QueueInvariant, PTL


-----------------------------------------------------------------------------
(* The ring implements the channel *)

(* What the refinement maps to the channel's queue and delivered. *)
Waiting == [k \in 1..(enqueuePos - dequeuePos) |->
              [rec   |-> RecordAt(dequeuePos + k - 1),
               ready |-> cellSeq[Cell(dequeuePos + k - 1)] = dequeuePos + k]]
Handed == IF consumer = "copy" THEN Append(delivered, cellRec[Cell(dequeuePos - 1)])
          ELSE delivered
Taking == consumer = "copy"

Slot(line, seq, q) == [rec |-> line[q], ready |-> seq[Cell(q)] = q + 1]

(* Both are read off the line. *)
ChannelFacts ==
  /\ dequeuePos \in Nat /\ enqueuePos \in Nat /\ dequeuePos <= enqueuePos
  /\ Waiting \in Seq([rec : Records, ready : BOOLEAN])
  /\ Len(Waiting) = enqueuePos - dequeuePos
  /\ \A k \in 1..(enqueuePos - dequeuePos) : Waiting[k] = Slot(Line, cellSeq, dequeuePos + k - 1)
  /\ Handed \in Seq(Records) /\ Len(Handed) = dequeuePos
  /\ \A k \in 1..dequeuePos : Handed[k] = Line[k - 1]
  /\ \A q \in 0..(enqueuePos - 1) : Line[q] \in Records
  /\ Freed = IF Taking THEN dequeuePos - 1 ELSE dequeuePos

LEMMA ChannelIs == QueueInv => ChannelFacts
  <1> SUFFICES ASSUME QueueInv PROVE ChannelFacts
    OBVIOUS
  <1>1. /\ enqueuePos \in Nat /\ dequeuePos \in Nat /\ Freed \in Nat
        /\ Window /\ ClaimsApart /\ LineInOrder /\ LineFacts
        /\ \A q \in 0..(enqueuePos - 1) : Line[q] \in Records
    BY QueueFacts DEF PositionsTyped, QueueInv, RingInv, LineFacts
  <1>2. dequeuePos <= enqueuePos /\ Freed = IF Taking THEN dequeuePos - 1 ELSE dequeuePos
    BY <1>1 DEF Window, Freed, Taking
  <1>3. ASSUME NEW k \in 1..(enqueuePos - dequeuePos)
        PROVE  Waiting[k] = Slot(Line, cellSeq, dequeuePos + k - 1)
    <2>1. dequeuePos + k - 1 \in Freed..(enqueuePos - 1) /\ dequeuePos + k - 1 >= 0
      BY <1>1, <1>2
    <2>2. Line[dequeuePos + k - 1] = RecordAt(dequeuePos + k - 1)
      BY <1>1, <2>1 DEF LineFacts
    <2>3. (dequeuePos + k - 1) + 1 = dequeuePos + k
      BY <1>1
    <2> QED BY <2>2, <2>3 DEF Waiting, Slot
  <1>4. Waiting \in Seq([rec : Records, ready : BOOLEAN]) /\ Len(Waiting) = enqueuePos - dequeuePos
    <2>1. \A k \in 1..(enqueuePos - dequeuePos) : dequeuePos + k - 1 \in 0..(enqueuePos - 1)
      BY <1>1
    <2>2. ASSUME NEW k \in 1..(enqueuePos - dequeuePos)
          PROVE  Waiting[k] \in [rec : Records, ready : BOOLEAN]
      <3> DEFINE q == dequeuePos + k - 1
                 b == cellSeq[Cell(q)] = q + 1
      <3>1. b \in BOOLEAN
        OBVIOUS
      <3>2. Waiting[k] = [rec |-> Line[q], ready |-> b] /\ Line[q] \in Records
        BY <1>1, <1>3, <2>1 DEF Slot
      <3> HIDE DEF b, q
      <3> QED BY <3>1, <3>2
    <2>3. PICK n \in Nat : n = enqueuePos - dequeuePos
      BY <1>1, <1>2
    <2>4. DOMAIN Waiting = 1..n /\ Waiting = [k \in 1..n |-> Waiting[k]]
      BY <2>3 DEF Waiting
    <2>5. Waiting \in [1..n -> [rec : Records, ready : BOOLEAN]]
      <3> HIDE DEF Waiting
      <3> QED BY <2>2, <2>3, <2>4
    <2>6. Waiting \in Seq([rec : Records, ready : BOOLEAN])
      BY <2>5, SeqDef
    <2> QED BY <2>3, <2>4, <2>6
  <1>5. delivered \in Seq(Records) /\ Len(delivered) = Freed
        /\ \A k \in 1..Freed : delivered[k] = Line[k - 1]
    BY <1>1, <1>2 DEF LineFacts, LineInOrder, QueueInv, TypeOK
  <1>6. Handed \in Seq(Records) /\ Len(Handed) = dequeuePos
        /\ \A k \in 1..dequeuePos : Handed[k] = Line[k - 1]
    <2>1. CASE consumer = "copy"
      <3>1. Freed = dequeuePos - 1 /\ Freed \in 0..(enqueuePos - 1)
            /\ Freed \in Freed..(enqueuePos - 1) /\ Freed >= 0
        BY <1>1, <2>1 DEF Freed, Window
      <3>2. \A p \in Producers : ~Fills(p, Freed)
        BY <1>1, <3>1 DEF ClaimsApart, Fills, Positions
      <3>3. cellRec[Cell(dequeuePos - 1)] = Line[dequeuePos - 1]
        BY <1>1, <3>1, <3>2 DEF LineFacts
      <3>4. Handed = Append(delivered, Line[Freed]) /\ Line[Freed] \in Records
        BY <1>1, <2>1, <3>1, <3>3 DEF Handed
      <3> QED BY <1>1, <1>5, <3>1, <3>4
    <2>2. CASE consumer # "copy"
      BY <1>5, <2>2 DEF Handed, Freed
    <2> QED BY <2>1, <2>2
  <1> QED BY <1>1, <1>2, <1>3, <1>4, <1>6 DEF ChannelFacts

LEMMA ChannelNextIs == QueueInv' => ChannelFacts'
  BY ChannelIs, PTL

(* The channel's view of a step that hands nothing over. *)
LEMMA SameHanded ==
  ASSUME ChannelFacts, ChannelFacts', dequeuePos' = dequeuePos,
         \A q \in 0..(enqueuePos - 1) : Line'[q] = Line[q]
  PROVE  Handed' = Handed
  <1>1. /\ Handed \in Seq(Records) /\ Handed' \in Seq(Records) /\ dequeuePos \in Nat
        /\ Len(Handed) = dequeuePos /\ Len(Handed') = dequeuePos
    BY DEF ChannelFacts
  <1>2. ASSUME NEW k \in 1..dequeuePos PROVE Handed'[k] = Handed[k]
    <2>1. k - 1 \in 0..(enqueuePos - 1)
      BY DEF ChannelFacts
    <2> QED BY <2>1 DEF ChannelFacts
  <1> QED BY <1>1, <1>2

LEMMA SameWaiting ==
  ASSUME ChannelFacts, ChannelFacts', dequeuePos' = dequeuePos, enqueuePos' = enqueuePos,
         Line' = Line, \A q \in Positions : cellSeq'[Cell(q)] = cellSeq[Cell(q)]
  PROVE  Waiting' = Waiting
  <1>1. /\ Waiting \in Seq([rec : Records, ready : BOOLEAN])
        /\ Waiting' \in Seq([rec : Records, ready : BOOLEAN])
        /\ Len(Waiting) = enqueuePos - dequeuePos /\ Len(Waiting') = enqueuePos - dequeuePos
    BY DEF ChannelFacts
  <1>2. ASSUME NEW k \in 1..(enqueuePos - dequeuePos) PROVE Waiting'[k] = Waiting[k]
    <2>1. dequeuePos + k - 1 \in Positions
      BY DEF ChannelFacts, Positions
    <2>2. Waiting[k] = Slot(Line, cellSeq, dequeuePos + k - 1)
      BY DEF ChannelFacts
    <2>3. Waiting'[k] = Slot(Line, cellSeq', dequeuePos + k - 1)
      BY DEF ChannelFacts
    <2> QED BY <2>1, <2>2, <2>3 DEF Slot
  <1> QED BY <1>1, <1>2

(* The channel's actions, in the terms above. *)
Still == Waiting' = Waiting /\ Handed' = Handed /\ Taking' = Taking

LEMMA ChannelStutterIs ==
  ASSUME Still, Reserved' = Reserved, dropped' = dropped
  PROVE  UNCHANGED Channel!channelVars
  BY DEF Still, Waiting, Handed, Taking, Channel!channelVars

HasBeen(r) == r \in Reserved \/ r \in dropped \/ \E k \in DOMAIN Handed : Handed[k] = r

LEMMA ChannelSeenIs ==
  ASSUME NEW r, ~HasBeen(r)
  PROVE  r \notin Channel!Seen
  BY DEF HasBeen, Handed, Channel!Seen

LEMMA ChannelReserveIs ==
  ASSUME NEW r, ~HasBeen(r), Channel!Bytes(Reserved) + r.size <= MaxBytes,
         Reserved' = Reserved \cup {r}, Still, dropped' = dropped
  PROVE  Channel!Reserve(r)
  <1>1. r \notin Channel!Seen
    BY ChannelSeenIs
  <1> QED BY <1>1 DEF Still, Waiting, Handed, Taking, Channel!Reserve

LEMMA ChannelLoseToBudgetIs ==
  ASSUME NEW r, ~HasBeen(r), Channel!Bytes(Reserved) + r.size > MaxBytes,
         dropped' = dropped \cup {r}, Still, Reserved' = Reserved
  PROVE  Channel!LoseToBudget(r)
  <1>1. r \notin Channel!Seen
    BY ChannelSeenIs
  <1> QED BY <1>1 DEF Still, Waiting, Handed, Taking, Channel!LoseToBudget

Slotless(r) == /\ r \in Reserved
               /\ \A k \in DOMAIN Waiting : Waiting[k].rec # r
               /\ \A k \in DOMAIN Handed : Handed[k] # r
Taken == Len(Waiting) + (IF Taking THEN 1 ELSE 0)

LEMMA ChannelClaimIs ==
  ASSUME NEW r, Slotless(r), Taken < Capacity,
         Waiting' = Append(Waiting, [rec |-> r, ready |-> FALSE]),
         Handed' = Handed, Taking' = Taking, dropped' = dropped, Reserved' = Reserved
  PROVE  Channel!Claim(r)
  <1>1. r \in Reserved \ Channel!Queued
    BY DEF Slotless, Waiting, Channel!Queued
  <1>2. Channel!Slots < Capacity
    BY DEF Taken, Waiting, Taking, Channel!Slots
  <1> QED BY <1>1, <1>2 DEF Slotless, Waiting, Handed, Taking, Channel!Claim

LEMMA ChannelLoseToCapacityIs ==
  ASSUME NEW r, Slotless(r), Taken >= Capacity,
         Reserved' = Reserved \ {r}, dropped' = dropped \cup {r}, Still
  PROVE  Channel!LoseToCapacity(r)
  <1>1. r \in Reserved \ Channel!Queued
    BY DEF Slotless, Waiting, Channel!Queued
  <1>2. Channel!Slots >= Capacity
    BY DEF Taken, Waiting, Taking, Channel!Slots
  <1> QED BY <1>1, <1>2 DEF Slotless, Still, Waiting, Handed, Taking, Channel!LoseToCapacity

LEMMA ChannelPublishIs ==
  ASSUME NEW k \in DOMAIN Waiting, ~Waiting[k].ready,
         Waiting' = [Waiting EXCEPT ![k].ready = TRUE],
         Handed' = Handed, Taking' = Taking, dropped' = dropped, Reserved' = Reserved
  PROVE  Channel!ChannelNext
  <1>1. Channel!Publish(k)
    BY DEF Waiting, Handed, Taking, Channel!Publish
  <1> QED BY <1>1 DEF Waiting, Channel!ChannelNext

LEMMA ChannelTakeIs ==
  ASSUME ~Taking, Waiting # <<>>, Waiting[1].ready, Taking',
         Handed' = Append(Handed, Waiting[1].rec), Waiting' = Tail(Waiting),
         dropped' = dropped, Reserved' = Reserved
  PROVE  Channel!Take
  BY DEF Waiting, Handed, Taking, Channel!Take

LEMMA ChannelFreeIs ==
  ASSUME Taking, ~Taking', Waiting' = Waiting, Handed' = Handed,
         dropped' = dropped, Reserved' = Reserved
  PROVE  Channel!Free
  BY DEF Waiting, Handed, Taking, Channel!Free

LEMMA ChannelReleaseIs ==
  ASSUME NEW r \in Reserved, ~Taking, \E k \in DOMAIN Handed : Handed[k] = r,
         Reserved' = Reserved \ {r}, dropped' = dropped, Still
  PROVE  Channel!Release(r)
  BY DEF Still, Waiting, Handed, Taking, Channel!Release

(* What the steps are to the channel. *)
Channels == [Channel!ChannelNext]_(Channel!channelVars)

(* A step that keeps the line, and where it begins and ends, stands still. *)
LEMMA StillStep ==
  ASSUME QueueInv, QueueInv', Line' = Line, enqueuePos' = enqueuePos, dequeuePos' = dequeuePos,
         \A q \in Positions : cellSeq'[Cell(q)] = cellSeq[Cell(q)]
  PROVE  Waiting' = Waiting /\ Handed' = Handed
  <1>1. ChannelFacts /\ ChannelFacts'
    BY ChannelIs, ChannelNextIs
  <1> QED BY <1>1, SameWaiting, SameHanded

(* A producer's record in hand is not in the line, nor in the channel. *)
LEMMA HandNotInLine ==
  ASSUME QueueInv, NEW p \in Producers, pc[p] \notin {"idle", "fill"}
  PROVE  /\ rec[p] \in Records /\ rec[p] \notin dropped
         /\ \A k \in DOMAIN Waiting : Waiting[k].rec # rec[p]
         /\ \A k \in DOMAIN Handed : Handed[k] # rec[p]
         /\ rec[p] \in Reserved <=> pc[p] # "reserve"
  <1>1. /\ rec[p] \in Records /\ rec[p] \notin dropped
        /\ \A q \in DOMAIN Line : Line[q] # rec[p]
        /\ \A o \in Producers \ {p} : rec[o] # rec[p]
    BY HandIsNew
  <1>2. /\ enqueuePos \in Nat /\ dequeuePos \in Nat /\ DOMAIN Line = 0..(enqueuePos - 1)
        /\ dequeuePos <= enqueuePos /\ ChannelFacts /\ Reserved = InHand \cup InLine
    BY QueueFacts, ChannelIs DEF ChannelFacts, LineFacts, PositionsTyped
  <1>3. ASSUME NEW k \in DOMAIN Waiting
        PROVE  Waiting[k].rec # rec[p]
    <2>1. k \in 1..(enqueuePos - dequeuePos)
      BY <1>2 DEF ChannelFacts
    <2>2. dequeuePos + k - 1 \in DOMAIN Line /\ Waiting[k] = Slot(Line, cellSeq, dequeuePos + k - 1)
      BY <1>2, <2>1 DEF ChannelFacts
    <2> QED BY <1>1, <2>2 DEF Slot
  <1>4. ASSUME NEW k \in DOMAIN Handed
        PROVE  Handed[k] # rec[p]
    <2>1. k \in 1..dequeuePos
      BY <1>2 DEF ChannelFacts
    <2>2. k - 1 \in DOMAIN Line /\ Handed[k] = Line[k - 1]
      BY <1>2, <2>1 DEF ChannelFacts
    <2> QED BY <1>1, <2>2
  <1>5. rec[p] \in Reserved <=> pc[p] # "reserve"
    <2>1. rec[p] \notin InLine
      <3>1. consumer # "idle" => dequeuePos >= 1
        BY DEF QueueInv, RingInv, Window, LineInOrder, TypeOK
      <3>2. Low..(enqueuePos - 1) \subseteq DOMAIN Line
        BY <1>2, <3>1 DEF Low
      <3> QED BY <1>1, <3>2 DEF InLine
    <2>2. pc[p] \in {"reserve", "load", "look", "claim"}
      BY DEF QueueInv, TypeOK
    <2> QED BY <1>1, <1>2, <2>1, <2>2 DEF InHand
  <1> QED BY <1>1, <1>3, <1>4, <1>5

LEMMA OfferChannels ==
  ASSUME QueueInv, NEW p \in Producers, NEW size \in Sizes, Offer(p, size)
  PROVE  Channels
  <1>1. QueueInv' /\ Line' = Line /\ Reserved' = Reserved
    BY OfferKeeps DEF BytesKept
  <1>2. /\ enqueuePos' = enqueuePos /\ dequeuePos' = dequeuePos /\ cellSeq' = cellSeq
        /\ consumer' = consumer /\ dropped' = dropped
    BY DEF Offer
  <1>3. Still
    BY <1>1, <1>2, StillStep DEF Still, Taking
  <1> QED BY <1>1, <1>2, <1>3, ChannelStutterIs DEF Channels

LEMMA ReserveBytesChannels ==
  ASSUME QueueInv, NEW p \in Producers, ReserveBytes(p)
  PROVE  Channels
  <1>1. /\ QueueInv' /\ Line' = Line /\ CellsKept
        /\ \/ Fits(rec[p].size) /\ BytesTaken(rec[p]) /\ dropped' = dropped
           \/ ~Fits(rec[p].size) /\ BytesKept /\ dropped' = dropped \cup {rec[p]}
    BY ReserveBytesKeeps
  <1>2. Still
    BY <1>1, StillStep DEF CellsKept, Still, Taking
  <1>3. pc[p] = "reserve"
    BY DEF ReserveBytes
  <1>4. rec[p] \in Records /\ ~HasBeen(rec[p])
    BY <1>3, HandNotInLine DEF HasBeen
  <1>5. /\ queuedBytes = Channel!Bytes(Reserved) /\ queuedBytes \in Nat
        /\ rec[p].size \in Nat /\ MaxBytes \in Nat
    BY <1>4, QueueAssumption DEF QueueInv, BytesAdd, ByteBudget, TypeOK, Records
  <1>6. CASE Fits(rec[p].size) /\ BytesTaken(rec[p]) /\ dropped' = dropped
    <2>1. Channel!Bytes(Reserved) + rec[p].size <= MaxBytes
      BY <1>5, <1>6 DEF Fits
    <2>2. Channel!Reserve(rec[p])
      BY <1>2, <1>4, <1>6, <2>1, ChannelReserveIs DEF BytesTaken
    <2> QED BY <1>4, <2>2 DEF Channels, Channel!ChannelNext
  <1>7. CASE ~Fits(rec[p].size) /\ BytesKept /\ dropped' = dropped \cup {rec[p]}
    <2>1. Channel!Bytes(Reserved) + rec[p].size > MaxBytes
      BY <1>5, <1>7 DEF Fits
    <2>2. Channel!LoseToBudget(rec[p])
      BY <1>2, <1>4, <1>7, <2>1, ChannelLoseToBudgetIs DEF BytesKept
    <2> QED BY <1>4, <2>2 DEF Channels, Channel!ChannelNext
  <1> QED BY <1>1, <1>6, <1>7

LEMMA LoadPositionChannels ==
  ASSUME QueueInv, NEW p \in Producers, LoadPosition(p)
  PROVE  Channels
  <1>1. QueueInv' /\ Line' = Line /\ CellsKept /\ BytesKept /\ dropped' = dropped
    BY LoadPositionKeeps
  <1>2. Still
    BY <1>1, StillStep DEF CellsKept, Still, Taking
  <1> QED BY <1>1, <1>2, ChannelStutterIs DEF Channels, BytesKept

LEMMA TakenIs ==
  ASSUME QueueInv
  PROVE  Taken = enqueuePos - Freed
  <1>1. ChannelFacts
    BY ChannelIs
  <1> QED BY <1>1 DEF ChannelFacts, Taken

LEMMA LookAtCellChannels ==
  ASSUME QueueInv, NEW p \in Producers, LookAtCell(p)
  PROVE  Channels
  <1>1. /\ QueueInv' /\ Line' = Line /\ CellsKept
        /\ \/ BytesKept /\ dropped' = dropped
           \/ /\ BytesGiven(rec[p]) /\ dropped' = dropped \cup {rec[p]}
              /\ enqueuePos = Freed + Capacity
    BY LookAtCellKeeps
  <1>2. Still
    BY <1>1, StillStep DEF CellsKept, Still, Taking
  <1>3. CASE BytesKept /\ dropped' = dropped
    BY <1>2, <1>3, ChannelStutterIs DEF Channels, BytesKept
  <1>4. CASE /\ BytesGiven(rec[p]) /\ dropped' = dropped \cup {rec[p]}
             /\ enqueuePos = Freed + Capacity
    <2>1. pc[p] = "look"
      BY DEF LookAtCell
    <2>2. rec[p] \in Records /\ Slotless(rec[p])
      BY <2>1, HandNotInLine DEF Slotless
    <2>3. Freed \in Nat /\ Capacity \in Nat
      BY QueueFacts
    <2>4. Taken >= Capacity
      BY <1>4, <2>3, TakenIs
    <2>5. Channel!LoseToCapacity(rec[p])
      BY <1>2, <1>4, <2>2, <2>4, ChannelLoseToCapacityIs DEF BytesGiven
    <2> QED BY <2>2, <2>5 DEF Channels, Channel!ChannelNext
  <1> QED BY <1>1, <1>3, <1>4

LEMMA ClaimCellChannels ==
  ASSUME QueueInv, NEW p \in Producers, ClaimCell(p)
  PROVE  Channels
  <1>1. /\ QueueInv' /\ BytesKept /\ dropped' = dropped
        /\ cellSeq' = cellSeq /\ cellRec' = cellRec /\ delivered' = delivered
        /\ dequeuePos' = dequeuePos /\ consumer' = consumer /\ pc[p] = "claim"
        /\ \/ Line' = Line /\ enqueuePos' = enqueuePos
           \/ /\ enqueuePos' = enqueuePos + 1 /\ enqueuePos < Freed + Capacity
              /\ cellSeq[Cell(enqueuePos)] = enqueuePos
              /\ \A q \in DOMAIN Line : Line'[q] = Line[q]
              /\ Line'[enqueuePos] = rec[p]
    BY ClaimCellKeeps
  <1>2. ChannelFacts /\ ChannelFacts' /\ Taking' = Taking /\ Reserved' = Reserved
    BY <1>1, ChannelIs, ChannelNextIs DEF Taking, BytesKept
  <1>3. CASE Line' = Line /\ enqueuePos' = enqueuePos
    <2>1. Still
      BY <1>1, <1>2, <1>3, StillStep DEF Still
    <2> QED BY <1>1, <1>2, <2>1, ChannelStutterIs DEF Channels
  <1>4. CASE /\ enqueuePos' = enqueuePos + 1 /\ enqueuePos < Freed + Capacity
             /\ cellSeq[Cell(enqueuePos)] = enqueuePos
             /\ \A q \in DOMAIN Line : Line'[q] = Line[q]
             /\ Line'[enqueuePos] = rec[p]
    <2>1. PICK e \in Nat, d \in Nat : e = enqueuePos /\ d = dequeuePos /\ d <= e
      BY <1>2 DEF ChannelFacts
    <2>2. DOMAIN Line = 0..(e - 1)
      BY <2>1, QueueFacts DEF LineFacts
    <2>3. Handed' = Handed
      BY <1>1, <1>2, <1>4, <2>1, <2>2, SameHanded
    <2>4. rec[p] \in Records /\ Slotless(rec[p])
      BY <1>1, HandNotInLine DEF Slotless
    <2>5. Taken < Capacity
      <3>1. Freed \in Nat /\ Capacity \in Nat
        BY QueueFacts
      <3> QED BY <1>4, <2>1, <3>1, TakenIs
    <2> DEFINE fresh == [rec |-> rec[p], ready |-> FALSE]
    <2>6. /\ Waiting \in Seq([rec : Records, ready : BOOLEAN]) /\ Len(Waiting) = e - d
          /\ Waiting' \in Seq([rec : Records, ready : BOOLEAN]) /\ Len(Waiting') = e + 1 - d
          /\ fresh \in [rec : Records, ready : BOOLEAN]
      BY <1>1, <1>2, <1>4, <2>1, <2>4 DEF ChannelFacts
    <2>7. ASSUME NEW k \in 1..(e - d)
          PROVE  Waiting'[k] = Waiting[k]
      <3>1. d + k - 1 \in 0..(e - 1)
        BY <2>1
      <3>2. Waiting[k] = Slot(Line, cellSeq, d + k - 1)
        BY <1>2, <2>1 DEF ChannelFacts
      <3>3. Waiting'[k] = Slot(Line', cellSeq', d + k - 1)
        BY <1>1, <1>2, <1>4, <2>1 DEF ChannelFacts
      <3> QED BY <1>1, <1>4, <2>2, <3>1, <3>2, <3>3 DEF Slot
    <2>8. Waiting'[e - d + 1] = fresh
      <3>1. Waiting'[e - d + 1] = Slot(Line', cellSeq', d + (e - d + 1) - 1)
        BY <1>1, <1>2, <1>4, <2>1 DEF ChannelFacts
      <3>2. d + (e - d + 1) - 1 = e /\ e # e + 1
        BY <2>1
      <3>3. cellSeq'[Cell(e)] = e /\ Line'[e] = rec[p]
        BY <1>1, <1>4, <2>1
      <3> QED BY <3>1, <3>2, <3>3 DEF Slot
    <2>9. Waiting' = Append(Waiting, fresh)
      <3> HIDE DEF fresh
      <3> QED BY <2>1, <2>6, <2>7, <2>8
    <2>10. PICK r \in Records : r = rec[p]
      BY <2>4
    <2>11. Slotless(r) /\ Waiting' = Append(Waiting, [rec |-> r, ready |-> FALSE])
      BY <2>4, <2>9, <2>10
    <2>12. Channel!Claim(r)
      BY <1>1, <1>2, <2>3, <2>5, <2>11, ChannelClaimIs
    <2> QED BY <2>12 DEF Channels, Channel!ChannelNext
  <1> QED BY <1>1, <1>3, <1>4

LEMMA PublishCellChannels ==
  ASSUME QueueInv, NEW p \in Producers, PublishCell(p)
  PROVE  Channels
  <1>1. /\ QueueInv' /\ Line' = Line /\ BytesKept /\ dropped' = dropped
        /\ dequeuePos' = dequeuePos /\ enqueuePos' = enqueuePos /\ consumer' = consumer
        /\ pos[p] \in Positions /\ cellSeq[Cell(pos[p])] = pos[p]
        /\ cellSeq' = [cellSeq EXCEPT ![Cell(pos[p])] = pos[p] + 1]
    BY PublishCellKeeps
  <1>2. ChannelFacts /\ ChannelFacts' /\ Taking' = Taking /\ Reserved' = Reserved
    BY <1>1, ChannelIs, ChannelNextIs DEF Taking, BytesKept
  <1>3. Handed' = Handed
    BY <1>1, <1>2, SameHanded
  <1>4. PICK e \in Nat, d \in Nat : e = enqueuePos /\ d = dequeuePos /\ d <= e
    BY <1>2 DEF ChannelFacts
  <1>5. PICK q \in d..(e - 1) : q = pos[p]
    BY <1>1, <1>4 DEF Positions
  <1>6. q \in Nat /\ Cell(q) \in Cells /\ Capacity \in Nat
    BY <1>4, <1>5, CellOf, CapacityAssumption
  <1>7. cellSeq[Cell(q)] = q /\ cellSeq'[Cell(q)] = q + 1
    <2>1. cellSeq \in [Cells -> Nat]
      BY DEF QueueInv, TypeOK
    <2> QED BY <1>1, <1>5, <1>6, <2>1
  <1>8. ASSUME NEW r \in d..(e - 1), r # q
        PROVE  cellSeq'[Cell(r)] = cellSeq[Cell(r)]
    <2>1. r \in Nat /\ r < q + Capacity /\ q < r + Capacity
      <3>1. Freed \in Nat /\ e <= Freed + Capacity /\ Freed <= d
        BY <1>2, <1>4, QueueFacts DEF QueueInv, RingInv, Window, Freed
      <3> QED BY <1>4, <1>5, <1>6, <3>1
    <2>2. Cell(r) # Cell(q)
      <3>1. q < r \/ r < q
        BY <1>8, <1>6, <2>1
      <3> QED BY <1>6, <2>1, <3>1, CellsApart
    <2>3. cellSeq \in [Cells -> Nat] /\ Cell(r) \in Cells
      BY <2>1, CellOf DEF QueueInv, TypeOK
    <2> QED BY <1>1, <1>5, <2>2, <2>3
  <1>9. PICK k \in 1..(e - d) : k = q - d + 1
    BY <1>4, <1>5
  <1>10. /\ Waiting \in Seq([rec : Records, ready : BOOLEAN]) /\ Len(Waiting) = e - d
         /\ Waiting' \in Seq([rec : Records, ready : BOOLEAN]) /\ Len(Waiting') = e - d
         /\ DOMAIN Waiting = 1..(e - d)
    BY <1>1, <1>2, <1>4 DEF ChannelFacts
  <1>11. ASSUME NEW j \in 1..(e - d)
         PROVE  /\ Waiting[j] = Slot(Line, cellSeq, d + j - 1)
                /\ Waiting'[j] = Slot(Line, cellSeq', d + j - 1)
                /\ d + j - 1 \in d..(e - 1)
    <2>1. /\ \A i \in 1..(enqueuePos - dequeuePos) :
               Waiting[i] = Slot(Line, cellSeq, dequeuePos + i - 1)
          /\ \A i \in 1..(enqueuePos' - dequeuePos') :
               Waiting'[i] = Slot(Line', cellSeq', dequeuePos' + i - 1)
      BY <1>2 DEF ChannelFacts
    <2>2. d + j - 1 \in d..(e - 1)
      BY <1>4
    <2> QED BY <1>1, <1>4, <2>1, <2>2
  <1>12. d + k - 1 = q
    BY <1>4, <1>5, <1>9
  <1>13. Waiting[k] = [rec |-> Line[q], ready |-> FALSE] /\ Waiting'[k] = [rec |-> Line[q], ready |-> TRUE]
    <2>1. q # q + 1
      BY <1>6
    <2> QED BY <1>7, <1>11, <1>12, <2>1 DEF Slot
  <1>14. ASSUME NEW j \in 1..(e - d), j # k
         PROVE  Waiting'[j] = Waiting[j]
    <2>1. d + j - 1 # q
      BY <1>4, <1>12, <1>14
    <2> QED BY <1>8, <1>11, <2>1 DEF Slot
  <1>15. Waiting' = [Waiting EXCEPT ![k].ready = TRUE]
    <2>1. [[rec |-> Line[q], ready |-> FALSE] EXCEPT !.ready = TRUE]
            = [rec |-> Line[q], ready |-> TRUE]
      <3>1. \A x, y, z : [[rec |-> x, ready |-> y] EXCEPT !.ready = z] = [rec |-> x, ready |-> z]
        OBVIOUS
      <3> QED BY ONLY <3>1
    <2>2. [Waiting[k] EXCEPT !.ready = TRUE] = Waiting'[k]
      BY <1>13, <2>1
    <2> QED BY <1>10, <1>14, <2>2
  <1>16. ~Waiting[k].ready /\ k \in DOMAIN Waiting
    BY <1>10, <1>13
  <1>17. Channel!ChannelNext
    BY <1>1, <1>2, <1>3, <1>15, <1>16, ChannelPublishIs
  <1> QED BY <1>17 DEF Channels

LEMMA TakeCellChannels ==
  ASSUME QueueInv, TakeCell
  PROVE  Channels
  <1>1. /\ QueueInv' /\ Line' = Line /\ BytesKept /\ ProducersKept
        /\ consumer = "idle" /\ dequeuePos \in Positions
        /\ dequeuePos' = dequeuePos + 1 /\ cellSeq' = cellSeq
    BY TakeCellKeeps
  <1>2. ChannelFacts /\ ChannelFacts' /\ Reserved' = Reserved
    BY <1>1, ChannelIs, ChannelNextIs DEF BytesKept
  <1>3. ~Taking /\ Taking' /\ dropped' = dropped /\ enqueuePos' = enqueuePos
    BY <1>1 DEF TakeCell, Taking
  <1>4. PICK e \in Nat, d \in Nat : e = enqueuePos /\ d = dequeuePos /\ d < e
    BY <1>1, <1>2 DEF ChannelFacts, Positions
  <1>5. /\ Waiting \in Seq([rec : Records, ready : BOOLEAN]) /\ Len(Waiting) = e - d
        /\ Waiting' \in Seq([rec : Records, ready : BOOLEAN]) /\ Len(Waiting') = e - (d + 1)
        /\ Handed \in Seq(Records) /\ Len(Handed) = d
        /\ Handed' \in Seq(Records) /\ Len(Handed') = d + 1
    BY <1>1, <1>2, <1>3, <1>4 DEF ChannelFacts
  <1>6. \A k \in 1..(e - d) : Waiting[k] = Slot(Line, cellSeq, d + k - 1)
    BY <1>2, <1>4 DEF ChannelFacts
  <1>7. \A k \in 1..(e - (d + 1)) : Waiting'[k] = Slot(Line, cellSeq, (d + 1) + k - 1)
    BY <1>1, <1>2, <1>3, <1>4 DEF ChannelFacts
  <1>8. Waiting[1].ready /\ Waiting[1].rec = Line[d] /\ Waiting # <<>>
    <2>1. cellSeq[Cell(d)] = d + 1
      BY <1>4 DEF TakeCell, HeadIsReady
    <2>2. Waiting[1] = Slot(Line, cellSeq, d)
      <3>1. 1 \in 1..(e - d) /\ d + 1 - 1 = d
        BY <1>4
      <3> QED BY <1>6, <3>1
    <2>3. Waiting # <<>>
      <3>1. Len(Waiting) # 0 /\ Len(<<>>) = 0
        BY <1>4, <1>5
      <3> QED BY <3>1
    <2>4. Waiting[1].ready /\ Waiting[1].rec = Line[d]
      <3>1. Waiting[1] = [rec |-> Line[d], ready |-> TRUE]
        BY <2>1, <2>2 DEF Slot
      <3> QED BY <3>1
    <2> QED BY <2>3, <2>4
  <1>9. Waiting' = Tail(Waiting)
    <2>1. Tail(Waiting) \in Seq([rec : Records, ready : BOOLEAN])
          /\ Len(Tail(Waiting)) = e - (d + 1)
      BY <1>4, <1>5, <1>8
    <2>2. ASSUME NEW k \in 1..(e - (d + 1))
          PROVE  Waiting'[k] = Tail(Waiting)[k]
      <3>1. k + 1 \in 1..(e - d) /\ (d + 1) + k - 1 = d + (k + 1) - 1
        BY <1>4
      <3>2. Tail(Waiting)[k] = Waiting[k + 1]
        BY <1>4, <1>5, <1>8
      <3> QED BY <1>6, <1>7, <3>1, <3>2
    <2> QED BY <1>4, <1>5, <2>1, <2>2
  <1>10. Handed' = Append(Handed, Waiting[1].rec)
    <2>1. \A k \in 1..d : Handed[k] = Line[k - 1]
      BY <1>2, <1>4 DEF ChannelFacts
    <2>2. \A k \in 1..(d + 1) : Handed'[k] = Line[k - 1]
      BY <1>1, <1>2, <1>4 DEF ChannelFacts
    <2>3. Line[d] \in Records
      BY <1>2, <1>4 DEF ChannelFacts
    <2>4. Append(Handed, Line[d]) \in Seq(Records) /\ Len(Append(Handed, Line[d])) = d + 1
      BY <1>4, <1>5, <2>3
    <2>5. ASSUME NEW k \in 1..(d + 1)
          PROVE  Handed'[k] = Append(Handed, Line[d])[k]
      <3>1. CASE k = d + 1
        BY <1>4, <1>5, <2>2, <2>3, <3>1
      <3>2. CASE k # d + 1
        <4>1. k \in 1..d
          BY <1>4, <3>2
        <4>2. Append(Handed, Line[d])[k] = Handed[k]
          BY <1>5, <2>3, <4>1
        <4> QED BY <2>1, <2>2, <4>1, <4>2
      <3> QED BY <3>1, <3>2
    <2>6. Handed' = Append(Handed, Line[d])
      BY <1>4, <1>5, <2>4, <2>5
    <2> QED BY <1>8, <2>6
  <1>11. Channel!Take
    BY <1>2, <1>3, <1>8, <1>9, <1>10, ChannelTakeIs
  <1> QED BY <1>11 DEF Channels, Channel!ChannelNext

LEMMA FreeCellChannels ==
  ASSUME QueueInv, FreeCell
  PROVE  Channels
  <1>1. /\ QueueInv' /\ Line' = Line /\ BytesKept /\ ProducersKept
        /\ consumer = "copy" /\ consumer' = "release" /\ dequeuePos' = dequeuePos
        /\ \A q \in Positions : cellSeq'[Cell(q)] = cellSeq[Cell(q)]
    BY FreeCellKeeps
  <1>2. enqueuePos' = enqueuePos /\ dropped' = dropped /\ Reserved' = Reserved
    BY <1>1 DEF ProducersKept, BytesKept
  <1>3. Waiting' = Waiting /\ Handed' = Handed
    BY <1>1, <1>2, StillStep
  <1>4. Taking /\ ~Taking'
    BY <1>1 DEF Taking
  <1>5. Channel!Free
    BY <1>2, <1>3, <1>4, ChannelFreeIs
  <1> QED BY <1>5 DEF Channels, Channel!ChannelNext

LEMMA ReleaseBytesChannels ==
  ASSUME QueueInv, ReleaseBytes
  PROVE  Channels
  <1>1. /\ QueueInv' /\ Line' = Line /\ BytesGiven(copied) /\ ProducersKept
        /\ consumer = "release" /\ consumer' = "idle" /\ dequeuePos' = dequeuePos
        /\ cellSeq' = cellSeq /\ delivered' = delivered
        /\ dequeuePos >= 1 /\ copied = Line[dequeuePos - 1]
    BY ReleaseBytesKeeps
  <1>2. enqueuePos' = enqueuePos /\ dropped' = dropped
    BY <1>1 DEF ProducersKept
  <1>3. Waiting' = Waiting /\ Handed' = Handed
    BY <1>1, <1>2, StillStep
  <1>4. Still /\ ~Taking
    BY <1>1, <1>3 DEF Still, Taking
  <1>5. PICK r \in Records : r = copied
    BY <1>1, ReservedAreRecords DEF BytesGiven
  <1>6. \E k \in DOMAIN Handed : Handed[k] = r
    <2>1. ChannelFacts
      BY ChannelIs
    <2>2. dequeuePos \in DOMAIN Handed /\ Handed[dequeuePos] = Line[dequeuePos - 1]
      BY <1>1, <2>1 DEF ChannelFacts
    <2> QED BY <1>1, <1>5, <2>2
  <1>7. Channel!Release(r)
    BY <1>1, <1>2, <1>4, <1>5, <1>6, ChannelReleaseIs DEF BytesGiven
  <1> QED BY <1>7 DEF Channels, Channel!ChannelNext

LEMMA StandingChannels ==
  ASSUME QueueInv, Deactivate \/ UNCHANGED queueVars
  PROVE  Channels
  <1>1. /\ QueueInv' /\ Line' = Line /\ Reserved' = Reserved
        /\ enqueuePos' = enqueuePos /\ dequeuePos' = dequeuePos /\ cellSeq' = cellSeq
        /\ dropped' = dropped /\ consumer' = consumer
    BY DeactivateKeeps, StutterKeeps
  <1>2. Still
    BY <1>1, StillStep DEF Still, Taking
  <1> QED BY <1>1, <1>2, ChannelStutterIs DEF Channels

LEMMA ChannelInitIs == Init => Channel!ChannelInit
  <1> SUFFICES ASSUME Init PROVE Channel!ChannelInit
    OBVIOUS
  <1>1. Positions = {} /\ enqueuePos - dequeuePos = 0 /\ consumer = "idle"
    BY DEF Init, Positions
  <1>2. Reserved = {}
    BY <1>1 DEF Init, Reserved
  <1>3. Waiting = <<>>
    BY <1>1 DEF Waiting
  <1> QED BY <1>1, <1>2, <1>3 DEF Init, Waiting, Channel!ChannelInit

(* The queue implements the lossy first-in first-out channel: a record is  *)
(* lost only when the cells or the bytes are exhausted at that moment, and *)
(* each one is handed over once, in the order the slots were claimed.      *)
THEOREM QueueImplementsChannel == Spec => ImplementsChannel
  <1>1. ASSUME QueueInv, [Next]_queueVars
        PROVE  [Channel!ChannelNext]_(Channel!channelVars)
    <2> SUFFICES Channels
      BY DEF Channels
    <2>1. ASSUME NEW p \in Producers, NEW size \in Sizes, Offer(p, size)
          PROVE  Channels
      BY <1>1, <2>1, OfferChannels
    <2>2. ASSUME NEW p \in Producers, Enqueue(p)
          PROVE  Channels
      BY <1>1, <2>2, ReserveBytesChannels, LoadPositionChannels, LookAtCellChannels,
         ClaimCellChannels, PublishCellChannels DEF Enqueue
    <2>3. CASE Dequeue
      <3>1. CASE TakeCell
        BY <1>1, <3>1, TakeCellChannels
      <3>2. CASE FreeCell
        BY <1>1, <3>2, FreeCellChannels
      <3>3. CASE ReleaseBytes
        BY <1>1, <3>3, ReleaseBytesChannels
      <3> QED BY <2>3, <3>1, <3>2, <3>3 DEF Dequeue
    <2>4. CASE Deactivate \/ UNCHANGED queueVars
      BY <1>1, <2>4, StandingChannels
    <2> QED BY <1>1, <2>1, <2>2, <2>3, <2>4 DEF Next
  <1> QED BY <1>1, ChannelInitIs, QueueInvariant, PTL
      DEF Spec, ImplementsChannel, Channel!ChannelSpec
================================================================================
