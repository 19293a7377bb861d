------------------------- MODULE InstrumentationProofs -------------------------
(***************************************************************************)
(* Proofs about installing and removing instrumentations: for any number   *)
(* of instances, wrappers of other libraries, threads and cursor classes.  *)
(*                                                                         *)
(* What happens to a slot is one of a few things, whoever does it: one of  *)
(* ours is put around it or taken out, another library's is put around it  *)
(* or taken off, or the record factory is reset (ChainStep).  Which of the *)
(* slots hold one of ours, and where that is written down, is said by      *)
(* Resting and Working.                                                    *)
(***************************************************************************)
EXTENDS Instrumentation, SequenceTheorems, FiniteSetTheorems, WellFoundedInduction, TLAPS

Layers == Instances \cup Foreign

StepNames == Slots \cup {"signals", "custom"}

FrameType == [op : {"install", "rollback", "uninstall"}, inst : Instances,
              todo : Seq(StepNames)]

In(x, s) == \E k \in 1..Len(s) : s[k] = x

FrameIs(f) ==
  /\ \A k \in 1..Len(f.todo) : f.todo[k] \in Mine \cup {"custom"}
  /\ f.op = "install" => /\ \A k \in 1..Len(f.todo) : f.todo[k] \in Mine
                         /\ \A j, k \in 1..Len(f.todo) : f.todo[j] = f.todo[k] => j = k
  /\ f.op # "install" => \/ f.todo = <<"custom">>
                         \/ \A k \in 1..Len(f.todo) : f.todo[k] \in Mine \cap Wrapped

WorkTyped(w) == w \in Seq(FrameType) /\ \A n \in 1..Len(w) : FrameIs(w[n])

TargetsTyped(r) == /\ r \in [Instances -> Seq(Wrapped)]
                   /\ \A i \in Instances : \A k \in 1..Len(r[i]) : r[i][k] \in Mine

(* The slots and what is layered on them. *)
ChainTyped == /\ chain \in [Slots -> Seq(Layers)]
              /\ foreign \in [Slots -> Seq(Foreign)]

(* What the operations keep of their own. *)
BooksTyped ==
  /\ registry \in Instances \cup {None} /\ TargetsTyped(targets) /\ WorkTyped(work)
  /\ installing \subseteq Instances /\ installed \subseteq Instances
  /\ hooks \in Seq(Instances)

FlagsTyped ==
  /\ focus \in Classes /\ imported \subseteq Deferred /\ stranded \subseteq Slots
  /\ listening \in BOOLEAN /\ guard \in BOOLEAN /\ reentered \in BOOLEAN

CursorsTyped ==
  /\ connecting \in [Threads -> Bases \cup {None}]
  /\ DOMAIN cache \subseteq Bases /\ \A b \in DOMAIN cache : cache[b] \in Threads
  /\ given \subseteq Bases \X Threads

Typed == ChainTyped /\ BooksTyped /\ FlagsTyped /\ CursorsTyped

-----------------------------------------------------------------------------
(* Layers. *)

Pushes(s, r, x) == /\ Len(r) = Len(s) + 1 /\ r[1] = x
                   /\ \A n \in 1..Len(s) : r[n + 1] = s[n]

Drops(s, r, n) == /\ n \in 1..Len(s) /\ Len(s) = Len(r) + 1
                  /\ \A m \in 1..Len(r) : r[m] = IF m < n THEN s[m] ELSE s[m + 1]

LEMMA PushIs ==
  ASSUME NEW S, NEW s \in Seq(S), NEW x \in S
  PROVE  <<x>> \o s \in Seq(S) /\ Pushes(s, <<x>> \o s, x)
  <1>1. <<x>> \in Seq(S) /\ Len(<<x>>) = 1 /\ <<x>>[1] = x
    OBVIOUS
  <1>2. /\ <<x>> \o s \in Seq(S) /\ Len(<<x>> \o s) = 1 + Len(s)
        /\ \A i \in 1..1 + Len(s) : (<<x>> \o s)[i] = IF i <= 1 THEN <<x>>[i] ELSE s[i - 1]
    BY <1>1, ConcatProperties
  <1>3. Len(s) \in Nat
    BY LenProperties
  <1>4. (<<x>> \o s)[1] = x
    BY <1>1, <1>2, <1>3
  <1>5. ASSUME NEW n \in 1..Len(s)
        PROVE  (<<x>> \o s)[n + 1] = s[n]
    <2>1. n + 1 \in 1..1 + Len(s) /\ ~(n + 1 <= 1) /\ (n + 1) - 1 = n
      BY <1>3
    <2> QED BY <1>2, <2>1
  <1> QED BY <1>2, <1>3, <1>4, <1>5 DEF Pushes

LEMMA DropIs ==
  ASSUME NEW S, NEW s \in Seq(S), NEW n \in 1..Len(s)
  PROVE  RemoveAt(s, n) \in Seq(S) /\ Drops(s, RemoveAt(s, n), n)
  <1>1. Len(s) \in Nat /\ \A i \in 1..Len(s) : s[i] \in S
    BY LenProperties, ElementOfSeq
  <1> DEFINE a == SubSeq(s, 1, n - 1)
             b == SubSeq(s, n + 1, Len(s))
  <1>2. a \in Seq(S) /\ Len(a) = n - 1 /\ \A i \in 1..n - 1 : a[i] = s[i]
    <2>1. n - 1 \in Int /\ (\A i \in 1..n - 1 : s[i] \in S) /\ (1 <= n - 1 <=> n # 1)
      BY <1>1
    <2>2. /\ a \in Seq(S) /\ Len(a) = IF 1 <= n - 1 THEN (n - 1) - 1 + 1 ELSE 0
          /\ \A i \in 1..(n - 1) - 1 + 1 : a[i] = s[1 + i - 1]
      BY <2>1, SubSeqProperties
    <2> HIDE DEF a
    <2> QED BY <1>1, <2>2
  <1>3. /\ b \in Seq(S) /\ Len(b) = Len(s) - n
        /\ \A i \in 1..Len(s) - n : b[i] = s[i + n]
    <2>1. n + 1 \in Int /\ Len(s) \in Int /\ \A i \in (n + 1)..Len(s) : s[i] \in S
      BY <1>1
    <2>2. /\ b \in Seq(S)
          /\ Len(b) = IF n + 1 <= Len(s) THEN Len(s) - (n + 1) + 1 ELSE 0
          /\ \A i \in 1..Len(s) - (n + 1) + 1 : b[i] = s[(n + 1) + i - 1]
      BY <2>1, SubSeqProperties
    <2> HIDE DEF b
    <2> QED BY <1>1, <2>2
  <1>4. RemoveAt(s, n) = a \o b
    BY DEF RemoveAt
  <1> HIDE DEF a, b
  <1>5. /\ a \o b \in Seq(S) /\ Len(a \o b) = Len(a) + Len(b)
        /\ \A i \in 1..Len(a) + Len(b) :
             (a \o b)[i] = IF i <= Len(a) THEN a[i] ELSE b[i - Len(a)]
    BY <1>2, <1>3, ConcatProperties
  <1>6. Len(a) + Len(b) = Len(s) - 1
    BY <1>1, <1>2, <1>3
  <1>7. ASSUME NEW m \in 1..Len(s) - 1
        PROVE  (a \o b)[m] = IF m < n THEN s[m] ELSE s[m + 1]
    <2>1. (a \o b)[m] = IF m <= n - 1 THEN a[m] ELSE b[m - (n - 1)]
      BY <1>2, <1>5, <1>6
    <2>2. CASE m < n
      BY <1>1, <1>2, <2>1, <2>2
    <2>3. CASE m >= n
      <3>1. m - (n - 1) \in 1..Len(s) - n /\ (m - (n - 1)) + n = m + 1
        BY <1>1, <2>3
      <3> QED BY <1>3, <2>1, <2>3, <3>1
    <2>4. m < n \/ m >= n
      BY <1>1
    <2> QED BY <2>2, <2>3, <2>4
  <1>8. RemoveAt(s, n) \in Seq(S) /\ Len(RemoveAt(s, n)) = Len(s) - 1
    BY <1>4, <1>5, <1>6
  <1>9. Len(s) = (Len(s) - 1) + 1
    BY <1>1
  <1>10. \A m \in 1..Len(s) - 1 : RemoveAt(s, n)[m] = IF m < n THEN s[m] ELSE s[m + 1]
    BY <1>4, <1>7
  <1> QED BY <1>8, <1>9, <1>10 DEF Drops

LEMMA TailIs ==
  ASSUME NEW S, NEW s \in Seq(S), s # <<>>
  PROVE  /\ Head(s) = s[1] /\ Head(s) \in S /\ 1 \in 1..Len(s)
         /\ Tail(s) \in Seq(S) /\ Drops(s, Tail(s), 1)
  <1>1. Len(s) \in Nat /\ Len(s) # 0
    BY LenProperties, EmptySeq
  <1>2. /\ Head(s) \in S /\ Tail(s) \in Seq(S) /\ Len(Tail(s)) = Len(s) - 1
        /\ \A i \in 1..Len(Tail(s)) : Tail(s)[i] = s[i + 1]
    BY HeadTailProperties
  <1>3. Head(s) = s[1]
    OBVIOUS
  <1> QED BY <1>1, <1>2, <1>3 DEF Drops

HasOurs(s) == \E n \in 1..Len(s) : Ours(s[n])

OnlyOne(s) == \A m, n \in 1..Len(s) : Ours(s[m]) /\ Ours(s[n]) => m = n

Apart(s) == \A n \in 2..Len(s) : ~(Ours(s[n - 1]) /\ Ours(s[n]))

(* n is where the first of ours is, and 0 when there is none. *)
FirstIs(s, n) ==
  \/ n = 0 /\ ~HasOurs(s)
  \/ n \in 1..Len(s) /\ Ours(s[n]) /\ \A m \in 1..n - 1 : ~Ours(s[m])

(* A set of positions has a least one: the least of its initial segments   *)
(* ends with it.                                                           *)
LEMMA MinIs ==
  ASSUME NEW k \in Nat, NEW S \in SUBSET (1..k), S # {}
  PROVE  Min(S) \in S /\ \A n \in S : Min(S) <= n
  <1> DEFINE Upto(m) == {n \in S : n <= m}
             Segments == {Upto(m) : m \in S}
  <1>1. IsFiniteSet(S)
    <2>1. IsFiniteSet(1..k)
      BY FS_Interval
    <2> QED BY <2>1, FS_Subset
  <1>2. Segments \subseteq SUBSET S /\ Segments # {}
    OBVIOUS
  <1>3. PICK X \in Segments : \A Y \in Segments : ~(<<Y, X>> \in StrictSubsetOrdering(S))
    <2> HIDE DEF Segments
    <2> QED BY <1>1, <1>2, FS_StrictSubsetOrderingWellFounded, WFMin,
               FS_FiniteSubsetsOfFinite
  <1>4. PICK m \in S : X = Upto(m)
    BY <1>3
  <1>5. ASSUME NEW n \in S, n < m
        PROVE  FALSE
    <2>1. Upto(n) \in Segments /\ Upto(n) \subseteq S /\ X \subseteq S
      BY <1>4
    <2>2. Upto(n) \subseteq Upto(m) /\ m \in Upto(m) /\ m \notin Upto(n)
      <3>1. \A j \in S : j \in Int
        OBVIOUS
      <3>2. \A j \in S : j <= n => j <= m
        BY <1>5, <3>1
      <3>3. m <= m /\ ~(m <= n)
        BY <1>5, <3>1
      <3> QED BY <3>2, <3>3
    <2> HIDE DEF Upto, Segments
    <2>3. <<Upto(n), X>> \in StrictSubsetOrdering(S)
      BY <1>4, <2>1, <2>2 DEF StrictSubsetOrdering
    <2> QED BY <1>3, <2>1, <2>3
  <1>6. \E x \in S : \A y \in S : x <= y
    BY <1>5
  <1> QED BY <1>6 DEF Min

-----------------------------------------------------------------------------
(* What a step does to the layers of a slot, and what it leaves true. *)

LEMMA OursAre ==
  ASSUME NEW x
  PROVE  /\ x \in Instances => Ours(x)
         /\ x \in Foreign => ~Ours(x)
         /\ ~Ours(None)
  BY NamesAssumption DEF Ours

LEMMA PushOurs ==
  ASSUME NEW s \in Seq(Layers), NEW r \in Seq(Layers), NEW x, Ours(x), Pushes(s, r, x),
         NEW f \in Seq(Foreign)
  PROVE  /\ (s = <<>> \/ ~Ours(s[1])) /\ Apart(s) => Apart(r)
         /\ KeepsInOrder(s, f) => KeepsInOrder(r, f)
         /\ HasOurs(r)
         /\ ~HasOurs(s) => OnlyOne(r)
  <1>1. /\ Len(s) \in Nat /\ Len(r) = Len(s) + 1 /\ DOMAIN s = 1..Len(s)
        /\ DOMAIN r = 1..Len(r) /\ r[1] = x /\ \A n \in 1..Len(s) : r[n + 1] = s[n]
    BY LenProperties DEF Pushes
  <1>2. \A n \in 2..Len(r) : n - 1 \in 1..Len(s) /\ r[n] = s[n - 1]
    BY <1>1
  <1>3. ASSUME s = <<>> \/ ~Ours(s[1]), Apart(s)
        PROVE  Apart(r)
    <2> SUFFICES ASSUME NEW n \in 2..Len(r)
                 PROVE  ~(Ours(r[n - 1]) /\ Ours(r[n]))
      BY DEF Apart
    <2>1. CASE n = 2
      <3>1. Len(s) >= 1 /\ r[2] = s[1]
        BY <1>1, <1>2, <2>1
      <3>2. s # <<>>
        BY <3>1
      <3> QED BY <1>3, <2>1, <3>1, <3>2
    <2>2. CASE n # 2
      <3>1. n - 1 \in 2..Len(s) /\ r[n] = s[n - 1] /\ r[n - 1] = s[(n - 1) - 1]
        BY <1>1, <1>2, <2>2
      <3> QED BY <1>3, <3>1 DEF Apart
    <2> QED BY <2>1, <2>2
  <1>4. ASSUME KeepsInOrder(s, f)
        PROVE  KeepsInOrder(r, f)
    <2>1. PICK at \in [DOMAIN f -> DOMAIN s] :
            /\ \A m, n \in DOMAIN f : m < n => at[m] < at[n]
            /\ \A n \in DOMAIN f : s[at[n]] = f[n]
            /\ \A m \in DOMAIN s : Ours(s[m]) \/ \E n \in DOMAIN f : at[n] = m
      BY <1>4 DEF KeepsInOrder
    <2> DEFINE to == [n \in DOMAIN f |-> at[n] + 1]
    <2>2. \A n \in DOMAIN f : at[n] \in 1..Len(s) /\ to[n] = at[n] + 1
      BY <1>1
    <2>3. to \in [DOMAIN f -> DOMAIN r]
      BY <1>1, <2>2
    <2> HIDE DEF to
    <2>4. \A m, n \in DOMAIN f : m < n => to[m] < to[n]
      BY <2>1, <2>2
    <2>5. \A n \in DOMAIN f : r[to[n]] = f[n]
      BY <1>1, <2>1, <2>2
    <2>6. ASSUME NEW m \in DOMAIN r
          PROVE  Ours(r[m]) \/ \E n \in DOMAIN f : to[n] = m
      <3>1. CASE m = 1
        BY <1>1, <3>1
      <3>2. CASE m # 1
        <4>1. m - 1 \in DOMAIN s /\ r[m] = s[m - 1]
          BY <1>1, <1>2, <3>2
        <4>2. Ours(s[m - 1]) \/ \E n \in DOMAIN f : at[n] = m - 1
          BY <2>1, <4>1
        <4>3. \A n \in DOMAIN f : at[n] = m - 1 => to[n] = m
          BY <1>1, <2>2
        <4> QED BY <4>1, <4>2, <4>3
      <3> QED BY <3>1, <3>2
    <2> QED BY <2>3, <2>4, <2>5, <2>6 DEF KeepsInOrder
  <1>5. HasOurs(r)
    BY <1>1 DEF HasOurs
  <1>6. ASSUME ~HasOurs(s)
        PROVE  OnlyOne(r)
    <2>1. \A n \in 1..Len(r) : Ours(r[n]) => n = 1
      BY <1>1, <1>2, <1>6 DEF HasOurs
    <2> QED BY <2>1 DEF OnlyOne
  <1> QED BY <1>3, <1>4, <1>5, <1>6

LEMMA PushTheirs ==
  ASSUME NEW s \in Seq(Layers), NEW r \in Seq(Layers), NEW x, ~Ours(x), Pushes(s, r, x),
         NEW f \in Seq(Foreign), NEW g \in Seq(Foreign), Pushes(f, g, x)
  PROVE  /\ Apart(s) => Apart(r)
         /\ KeepsInOrder(s, f) => KeepsInOrder(r, g)
         /\ HasOurs(r) <=> HasOurs(s)
         /\ OnlyOne(s) => OnlyOne(r)
  <1>1. /\ Len(s) \in Nat /\ Len(r) = Len(s) + 1 /\ DOMAIN s = 1..Len(s)
        /\ DOMAIN r = 1..Len(r) /\ r[1] = x /\ \A n \in 1..Len(s) : r[n + 1] = s[n]
    BY LenProperties DEF Pushes
  <1>2. /\ Len(f) \in Nat /\ Len(g) = Len(f) + 1 /\ DOMAIN f = 1..Len(f)
        /\ DOMAIN g = 1..Len(g) /\ g[1] = x /\ \A n \in 1..Len(f) : g[n + 1] = f[n]
    BY LenProperties DEF Pushes
  <1>3. \A n \in 2..Len(r) : n - 1 \in 1..Len(s) /\ r[n] = s[n - 1]
    BY <1>1
  <1>4. \A n \in 2..Len(g) : n - 1 \in 1..Len(f) /\ g[n] = f[n - 1]
    BY <1>2
  <1>5. \A n \in 1..Len(r) : Ours(r[n]) => n # 1 /\ n - 1 \in 1..Len(s) /\ Ours(s[n - 1])
    BY <1>1, <1>3
  <1>6. ASSUME Apart(s)
        PROVE  Apart(r)
    <2> SUFFICES ASSUME NEW n \in 2..Len(r), Ours(r[n - 1]), Ours(r[n])
                 PROVE  FALSE
      BY DEF Apart
    <2>1. n - 1 \in 1..Len(r) /\ n \in 1..Len(r)
      BY <1>1
    <2>2. n - 1 # 1 /\ Ours(s[(n - 1) - 1]) /\ Ours(s[n - 1])
      BY <1>5, <2>1
    <2>3. n - 1 \in 2..Len(s)
      BY <1>1, <2>2
    <2> QED BY <1>6, <2>2, <2>3 DEF Apart
  <1>7. ASSUME KeepsInOrder(s, f)
        PROVE  KeepsInOrder(r, g)
    <2>1. PICK at \in [DOMAIN f -> DOMAIN s] :
            /\ \A m, n \in DOMAIN f : m < n => at[m] < at[n]
            /\ \A n \in DOMAIN f : s[at[n]] = f[n]
            /\ \A m \in DOMAIN s : Ours(s[m]) \/ \E n \in DOMAIN f : at[n] = m
      BY <1>7 DEF KeepsInOrder
    <2> DEFINE to == [n \in DOMAIN g |-> IF n = 1 THEN 1 ELSE at[n - 1] + 1]
    <2>2. \A n \in DOMAIN f : at[n] \in 1..Len(s)
      BY <1>1
    <2>3. /\ 1 \in DOMAIN g /\ to[1] = 1
          /\ \A n \in DOMAIN g : n # 1 => n - 1 \in DOMAIN f /\ to[n] = at[n - 1] + 1
      BY <1>2
    <2>4. to \in [DOMAIN g -> DOMAIN r]
      BY <1>1, <1>2, <2>2
    <2> HIDE DEF to
    <2>5. ASSUME NEW m \in DOMAIN g, NEW n \in DOMAIN g, m < n
          PROVE  to[m] < to[n]
      <3>1. m \in Nat /\ n \in Nat /\ m >= 1 /\ n # 1
        BY <1>2, <2>5
      <3>2. n - 1 \in DOMAIN f /\ to[n] = at[n - 1] + 1 /\ at[n - 1] \in 1..Len(s)
        BY <2>2, <2>3, <3>1
      <3>3. CASE m = 1
        BY <1>1, <2>3, <3>2, <3>3
      <3>4. CASE m # 1
        <4>1. m - 1 \in DOMAIN f /\ to[m] = at[m - 1] + 1 /\ at[m - 1] \in 1..Len(s)
          BY <2>2, <2>3, <3>4
        <4>2. m - 1 < n - 1
          BY <2>5, <3>1
        <4>3. at[m - 1] < at[n - 1]
          BY <2>1, <3>2, <4>1, <4>2
        <4> QED BY <1>1, <3>2, <4>1, <4>3
      <3> QED BY <3>3, <3>4
    <2>6. ASSUME NEW n \in DOMAIN g
          PROVE  r[to[n]] = g[n]
      <3>1. CASE n = 1
        BY <1>1, <1>2, <2>3, <3>1
      <3>2. CASE n # 1
        <4>1. n - 1 \in DOMAIN f /\ to[n] = at[n - 1] + 1 /\ at[n - 1] \in 1..Len(s)
          BY <2>2, <2>3, <3>2
        <4>2. g[n] = f[n - 1]
          BY <1>2, <1>4, <3>2
        <4>3. r[at[n - 1] + 1] = s[at[n - 1]]
          BY <1>1, <4>1
        <4> QED BY <2>1, <4>1, <4>2, <4>3
      <3> QED BY <3>1, <3>2
    <2>7. ASSUME NEW m \in DOMAIN r
          PROVE  Ours(r[m]) \/ \E n \in DOMAIN g : to[n] = m
      <3>1. CASE m = 1
        BY <2>3, <3>1
      <3>2. CASE m # 1
        <4>1. m - 1 \in DOMAIN s /\ r[m] = s[m - 1]
          BY <1>1, <1>3, <3>2
        <4>2. CASE Ours(s[m - 1])
          BY <4>1, <4>2
        <4>3. ASSUME NEW n \in DOMAIN f, at[n] = m - 1
              PROVE  \E k \in DOMAIN g : to[k] = m
          <5>1. n \in Nat /\ n >= 1 /\ n + 1 <= Len(g) /\ Len(g) \in Nat
            BY <1>2
          <5>2. n + 1 \in 1..Len(g) /\ n + 1 # 1 /\ (n + 1) - 1 = n
            BY <5>1
          <5>3. n + 1 \in DOMAIN g
            BY <1>2, <5>2
          <5>4. to[n + 1] = at[n] + 1
            BY <2>3, <5>2, <5>3
          <5>5. at[n] + 1 = m
            BY <1>1, <3>2, <4>3
          <5> QED BY <5>3, <5>4, <5>5
        <4> QED BY <2>1, <4>1, <4>2, <4>3
      <3> QED BY <3>1, <3>2
    <2> QED BY <2>4, <2>5, <2>6, <2>7 DEF KeepsInOrder
  <1>8. HasOurs(r) <=> HasOurs(s)
    <2>1. HasOurs(r) => HasOurs(s)
      BY <1>5 DEF HasOurs
    <2>2. \A n \in 1..Len(s) : n + 1 \in 1..Len(r) /\ r[n + 1] = s[n]
      BY <1>1
    <2> QED BY <2>1, <2>2 DEF HasOurs
  <1>9. ASSUME OnlyOne(s)
        PROVE  OnlyOne(r)
    <2> SUFFICES ASSUME NEW m \in 1..Len(r), NEW n \in 1..Len(r), Ours(r[m]), Ours(r[n])
                 PROVE  m = n
      BY DEF OnlyOne
    <2>1. m - 1 = n - 1
      BY <1>5, <1>9 DEF OnlyOne
    <2> QED BY <1>1, <2>1
  <1> QED BY <1>6, <1>7, <1>8, <1>9

LEMMA DroppedAre ==
  ASSUME NEW S, NEW s \in Seq(S), NEW r \in Seq(S), NEW n, Drops(s, r, n)
  PROVE  /\ Len(s) \in Nat /\ Len(r) \in Nat /\ Len(s) = Len(r) + 1 /\ n \in 1..Len(s)
         /\ DOMAIN s = 1..Len(s) /\ DOMAIN r = 1..Len(r)
         /\ \A m \in 1..Len(r) : /\ m < n => m \in 1..Len(s) /\ r[m] = s[m]
                                 /\ m >= n => m + 1 \in 1..Len(s) /\ r[m] = s[m + 1]
         /\ \A j \in 1..Len(s) : /\ j < n => j \in 1..Len(r) /\ r[j] = s[j]
                                 /\ j > n => j - 1 \in 1..Len(r) /\ r[j - 1] = s[j]
  <1>1. /\ Len(s) \in Nat /\ Len(r) \in Nat /\ Len(s) = Len(r) + 1 /\ n \in 1..Len(s)
        /\ DOMAIN s = 1..Len(s) /\ DOMAIN r = 1..Len(r)
        /\ \A m \in 1..Len(r) : r[m] = IF m < n THEN s[m] ELSE s[m + 1]
    BY LenProperties DEF Drops
  <1>2. ASSUME NEW m \in 1..Len(r)
        PROVE  /\ m < n => m \in 1..Len(s) /\ r[m] = s[m]
               /\ m >= n => m + 1 \in 1..Len(s) /\ r[m] = s[m + 1]
    BY <1>1
  <1>3. ASSUME NEW j \in 1..Len(s)
        PROVE  /\ j < n => j \in 1..Len(r) /\ r[j] = s[j]
               /\ j > n => j - 1 \in 1..Len(r) /\ r[j - 1] = s[j]
    <2>1. CASE j < n
      BY <1>1, <2>1
    <2>2. CASE j > n
      <3>1. j - 1 \in 1..Len(r) /\ ~(j - 1 < n) /\ (j - 1) + 1 = j
        BY <1>1, <2>2
      <3>2. r[j - 1] = s[(j - 1) + 1]
        BY <1>1, <3>1
      <3> QED BY <1>1, <2>2, <3>1, <3>2
    <2> QED BY <2>1, <2>2
  <1> QED BY <1>1, <1>2, <1>3

LEMMA DropOurs ==
  ASSUME NEW s \in Seq(Layers), NEW r \in Seq(Layers), NEW n,
         FirstIs(s, n), n # 0, Drops(s, r, n), NEW f \in Seq(Foreign)
  PROVE  /\ Apart(s) => Apart(r)
         /\ KeepsInOrder(s, f) => KeepsInOrder(r, f)
         /\ OnlyOne(s) => ~HasOurs(r)
         /\ OnlyOne(s) => OnlyOne(r)
  <1>1. /\ Len(s) \in Nat /\ Len(r) \in Nat /\ Len(s) = Len(r) + 1 /\ n \in 1..Len(s)
        /\ DOMAIN s = 1..Len(s) /\ DOMAIN r = 1..Len(r)
    BY DroppedAre
  <1>2. \A m \in 1..Len(r) : /\ m < n => m \in 1..Len(s) /\ r[m] = s[m]
                             /\ m >= n => m + 1 \in 1..Len(s) /\ r[m] = s[m + 1]
    BY DroppedAre
  <1>3. \A j \in 1..Len(s) : /\ j < n => j \in 1..Len(r) /\ r[j] = s[j]
                             /\ j > n => j - 1 \in 1..Len(r) /\ r[j - 1] = s[j]
    BY DroppedAre
  <1>4. Ours(s[n]) /\ \A m \in 1..n - 1 : ~Ours(s[m])
    BY DEF FirstIs
  <1>5. ASSUME Apart(s)
        PROVE  Apart(r)
    <2> SUFFICES ASSUME NEW k \in 2..Len(r), Ours(r[k - 1]), Ours(r[k])
                 PROVE  FALSE
      BY DEF Apart
    <2>1. k \in 1..Len(r) /\ k - 1 \in 1..Len(r) /\ k \in Int /\ n \in Int
      BY <1>1
    <2>2. ~(k - 1 < n)
      <3>1. k - 1 < n => r[k - 1] = s[k - 1] /\ k - 1 \in 1..n - 1
        BY <1>2, <2>1
      <3> QED BY <1>4, <3>1
    <2>3. r[k - 1] = s[k] /\ r[k] = s[k + 1] /\ k + 1 \in 1..Len(s)
      <3>1. k - 1 >= n /\ k >= n /\ (k - 1) + 1 = k
        BY <2>1, <2>2
      <3> QED BY <1>2, <2>1, <3>1
    <2>4. k + 1 \in 2..Len(s) /\ (k + 1) - 1 = k
      BY <1>1, <2>1, <2>3
    <2> QED BY <1>5, <2>3, <2>4 DEF Apart
  <1>6. ASSUME KeepsInOrder(s, f)
        PROVE  KeepsInOrder(r, f)
    <2>1. PICK at \in [DOMAIN f -> DOMAIN s] :
            /\ \A j, k \in DOMAIN f : j < k => at[j] < at[k]
            /\ \A k \in DOMAIN f : s[at[k]] = f[k]
            /\ \A m \in DOMAIN s : Ours(s[m]) \/ \E k \in DOMAIN f : at[k] = m
      BY <1>6 DEF KeepsInOrder
    <2> DEFINE to == [k \in DOMAIN f |-> IF at[k] < n THEN at[k] ELSE at[k] - 1]
    <2>2. ASSUME NEW k \in DOMAIN f
          PROVE  at[k] \in 1..Len(s) /\ at[k] # n
      <3>1. f[k] \in Foreign
        BY LenProperties, ElementOfSeq
      <3>2. ~Ours(s[at[k]])
        BY <2>1, <3>1, OursAre
      <3> QED BY <1>1, <1>4, <3>2
    <2>3. \A k \in DOMAIN f : to[k] = IF at[k] < n THEN at[k] ELSE at[k] - 1
      OBVIOUS
    <2>4. to \in [DOMAIN f -> DOMAIN r]
      <3> SUFFICES ASSUME NEW k \in DOMAIN f
                   PROVE  (IF at[k] < n THEN at[k] ELSE at[k] - 1) \in DOMAIN r
        OBVIOUS
      <3>1. at[k] \in 1..Len(s) /\ (at[k] < n \/ at[k] > n)
        BY <1>1, <2>2
      <3> QED BY <1>1, <1>3, <3>1
    <2> HIDE DEF to
    <2>5. ASSUME NEW j \in DOMAIN f, NEW k \in DOMAIN f, j < k
          PROVE  to[j] < to[k]
      <3>1. /\ at[j] < at[k] /\ at[j] \in 1..Len(s) /\ at[k] \in 1..Len(s)
            /\ at[j] # n /\ at[k] # n
        BY <2>1, <2>2, <2>5
      <3> QED BY <1>1, <2>3, <3>1
    <2>6. ASSUME NEW k \in DOMAIN f
          PROVE  r[to[k]] = f[k]
      <3>1. at[k] \in 1..Len(s) /\ (at[k] < n \/ at[k] > n)
        BY <1>1, <2>2
      <3>2. r[to[k]] = s[at[k]]
        BY <1>1, <1>3, <2>3, <3>1
      <3> QED BY <2>1, <3>2
    <2>7. ASSUME NEW m \in DOMAIN r, ~Ours(r[m])
          PROVE  \E k \in DOMAIN f : to[k] = m
      <3>1. m \in 1..Len(r)
        BY <1>1
      <3>2. CASE m < n
        <4>1. m \in DOMAIN s /\ r[m] = s[m]
          BY <1>1, <1>2, <3>1, <3>2
        <4>2. PICK k \in DOMAIN f : at[k] = m
          BY <2>1, <2>7, <4>1
        <4> QED BY <2>3, <3>2, <4>2
      <3>3. CASE m >= n
        <4>1. m + 1 \in DOMAIN s /\ r[m] = s[m + 1]
          BY <1>1, <1>2, <3>1, <3>3
        <4>2. PICK k \in DOMAIN f : at[k] = m + 1
          BY <2>1, <2>7, <4>1
        <4>3. ~(m + 1 < n) /\ (m + 1) - 1 = m
          BY <1>1, <3>1, <3>3
        <4> QED BY <2>3, <4>2, <4>3
      <3>4. m < n \/ m >= n
        BY <1>1, <3>1
      <3> QED BY <3>2, <3>3, <3>4
    <2>8. \A m \in DOMAIN r : Ours(r[m]) \/ \E k \in DOMAIN f : to[k] = m
      BY <2>7
    <2> QED BY <2>4, <2>5, <2>6, <2>8 DEF KeepsInOrder
  <1>7. ASSUME OnlyOne(s)
        PROVE  ~HasOurs(r)
    <2> SUFFICES ASSUME NEW m \in 1..Len(r), Ours(r[m])
                 PROVE  FALSE
      BY DEF HasOurs
    <2>1. \A j \in 1..Len(s) : Ours(s[j]) => j = n
      BY <1>1, <1>4, <1>7 DEF OnlyOne
    <2>2. m < n \/ m >= n
      BY <1>1
    <2>3. m < n => m = n
      BY <1>2, <2>1
    <2>4. m >= n => m + 1 = n
      BY <1>2, <2>1
    <2> QED BY <1>1, <2>2, <2>3, <2>4
  <1>8. ~HasOurs(r) => OnlyOne(r)
    BY DEF HasOurs, OnlyOne
  <1> QED BY <1>5, <1>6, <1>7, <1>8

LEMMA DropTheirs ==
  ASSUME NEW s \in Seq(Layers), NEW r \in Seq(Layers), Drops(s, r, 1), ~Ours(s[1]),
         NEW f \in Seq(Foreign), NEW g \in Seq(Foreign), f # <<>> => Drops(f, g, 1)
  PROVE  /\ Apart(s) => Apart(r)
         /\ KeepsInOrder(s, f) => KeepsInOrder(r, g)
         /\ HasOurs(r) <=> HasOurs(s)
         /\ OnlyOne(s) => OnlyOne(r)
  <1>1. /\ Len(s) \in Nat /\ Len(r) \in Nat /\ Len(s) = Len(r) + 1
        /\ DOMAIN s = 1..Len(s) /\ DOMAIN r = 1..Len(r)
    BY DroppedAre
  <1>2. \A m \in 1..Len(r) : m + 1 \in 1..Len(s) /\ r[m] = s[m + 1]
    <2>1. \A m \in 1..Len(r) : m >= 1 => m + 1 \in 1..Len(s) /\ r[m] = s[m + 1]
      BY DroppedAre
    <2> QED BY <1>1, <2>1
  <1>3. ASSUME Apart(s)
        PROVE  Apart(r)
    <2> SUFFICES ASSUME NEW k \in 2..Len(r), Ours(r[k - 1]), Ours(r[k])
                 PROVE  FALSE
      BY DEF Apart
    <2>1. k \in 1..Len(r) /\ k - 1 \in 1..Len(r) /\ (k - 1) + 1 = k
      BY <1>1
    <2>2. r[k - 1] = s[k] /\ r[k] = s[k + 1] /\ k + 1 \in 2..Len(s) /\ (k + 1) - 1 = k
      BY <1>1, <1>2, <2>1
    <2> QED BY <1>3, <2>2 DEF Apart
  <1>4. ASSUME KeepsInOrder(s, f)
        PROVE  KeepsInOrder(r, g)
    <2>1. PICK at \in [DOMAIN f -> DOMAIN s] :
            /\ \A j, k \in DOMAIN f : j < k => at[j] < at[k]
            /\ \A k \in DOMAIN f : s[at[k]] = f[k]
            /\ \A m \in DOMAIN s : Ours(s[m]) \/ \E k \in DOMAIN f : at[k] = m
      BY <1>4 DEF KeepsInOrder
    <2>2. Len(f) \in Nat /\ DOMAIN f = 1..Len(f)
      BY LenProperties
    <2>3. PICK e \in DOMAIN f : at[e] = 1
      <3>1. 1 \in DOMAIN s
        BY <1>1
      <3> QED BY <2>1, <3>1
    <2>4. e \in 1..Len(f) /\ 1 \in DOMAIN f
      BY <2>2, <2>3
    <2>5. e = 1
      <3>1. 1 < e => at[1] < at[e]
        BY <2>1, <2>4
      <3>2. at[1] \in 1..Len(s)
        BY <1>1, <2>4
      <3> QED BY <1>1, <2>2, <2>3, <2>4, <3>1, <3>2
    <2>6. f # <<>>
      BY <2>2, <2>4
    <2>7. /\ Len(g) \in Nat /\ Len(f) = Len(g) + 1 /\ DOMAIN g = 1..Len(g)
          /\ \A m \in 1..Len(g) : m >= 1 => m + 1 \in 1..Len(f) /\ g[m] = f[m + 1]
      <3>1. PICK n : n = 1
        OBVIOUS
      <3>2. Drops(f, g, n)
        BY <2>6, <3>1
      <3>3. /\ Len(g) \in Nat /\ Len(f) = Len(g) + 1 /\ DOMAIN g = 1..Len(g)
            /\ \A m \in 1..Len(g) : m >= n => m + 1 \in 1..Len(f) /\ g[m] = f[m + 1]
        BY <3>2, DroppedAre
      <3> QED BY <3>1, <3>3
    <2>8. \A m \in DOMAIN g : m + 1 \in DOMAIN f /\ g[m] = f[m + 1] /\ m + 1 > 1
      BY <2>2, <2>7
    <2> DEFINE to == [k \in DOMAIN g |-> at[k + 1] - 1]
    <2>9. ASSUME NEW k \in DOMAIN f, k > 1
          PROVE  at[k] \in 1..Len(s) /\ at[k] - 1 \in DOMAIN r /\ (at[k] - 1) + 1 = at[k]
      <3>1. at[k] > 1 /\ at[k] \in 1..Len(s)
        <4>1. at[1] < at[k] /\ at[k] \in 1..Len(s)
          BY <1>1, <2>1, <2>4, <2>9
        <4> QED BY <1>1, <2>3, <2>5, <4>1
      <3> QED BY <1>1, <3>1
    <2>10. to \in [DOMAIN g -> DOMAIN r]
      BY <2>8, <2>9
    <2>11. \A k \in DOMAIN g : to[k] = at[k + 1] - 1
      OBVIOUS
    <2> HIDE DEF to
    <2>12. ASSUME NEW j \in DOMAIN g, NEW k \in DOMAIN g, j < k
           PROVE  to[j] < to[k]
      <3>1. j + 1 < k + 1
        BY <2>7, <2>12
      <3>2. at[j + 1] < at[k + 1] /\ at[j + 1] \in 1..Len(s) /\ at[k + 1] \in 1..Len(s)
        BY <2>1, <2>8, <2>9, <3>1
      <3>3. to[j] = at[j + 1] - 1 /\ to[k] = at[k + 1] - 1
        BY <2>11
      <3>4. at[j + 1] - 1 < at[k + 1] - 1
        <4>1. PICK x \in 1..Len(s), y \in 1..Len(s) : x = at[j + 1] /\ y = at[k + 1]
          BY <3>2
        <4>2. x < y
          BY <3>2, <4>1
        <4>3. x - 1 < y - 1
          BY <4>2
        <4> QED BY <4>1, <4>3
      <3> QED BY <3>3, <3>4
    <2>13. ASSUME NEW k \in DOMAIN g
           PROVE  r[to[k]] = g[k]
      <3>1. /\ to[k] \in 1..Len(r) /\ to[k] + 1 = at[k + 1]
        BY <1>1, <2>8, <2>9, <2>11
      <3>2. r[to[k]] = s[at[k + 1]]
        BY <1>2, <3>1
      <3> QED BY <2>1, <2>8, <3>2
    <2>14. ASSUME NEW m \in DOMAIN r, ~Ours(r[m])
           PROVE  \E k \in DOMAIN g : to[k] = m
      <3>1. m + 1 \in DOMAIN s /\ r[m] = s[m + 1] /\ m >= 1
        BY <1>1, <1>2
      <3>2. PICK k \in DOMAIN f : at[k] = m + 1
        BY <2>1, <2>14, <3>1
      <3>3. k # 1 /\ k \in 1..Len(f)
        BY <1>1, <2>2, <2>3, <2>5, <3>1, <3>2
      <3>4. k - 1 \in DOMAIN g /\ (k - 1) + 1 = k
        <4>1. k - 1 \in 1..Len(g) /\ (k - 1) + 1 = k
          <5>1. PICK a \in Nat : a = Len(g)
            BY <2>7
          <5>2. PICK n \in 1..(a + 1) : n = k /\ n # 1
            BY <2>7, <3>3, <5>1
          <5>3. n - 1 \in 1..a /\ (n - 1) + 1 = n
            BY <5>2
          <5> QED BY <5>1, <5>2, <5>3
        <4> QED BY <2>7, <4>1
      <3>5. to[k - 1] = at[k] - 1
        BY <2>11, <3>4
      <3>6. at[k] - 1 = m
        BY <1>1, <3>2
      <3> QED BY <3>4, <3>5, <3>6
    <2>15. \A m \in DOMAIN r : Ours(r[m]) \/ \E k \in DOMAIN g : to[k] = m
      BY <2>14
    <2> QED BY <2>10, <2>12, <2>13, <2>15 DEF KeepsInOrder
  <1>5. ASSUME NEW j \in 1..Len(s), Ours(s[j])
        PROVE  j - 1 \in 1..Len(r) /\ Ours(r[j - 1])
    <2>1. j # 1
      BY <1>5
    <2>2. j - 1 \in 1..Len(r) /\ (j - 1) + 1 = j
      BY <1>1, <2>1
    <2> QED BY <1>2, <1>5, <2>2
  <1>6. HasOurs(r) <=> HasOurs(s)
    BY <1>2, <1>5 DEF HasOurs
  <1>7. ASSUME OnlyOne(s)
        PROVE  OnlyOne(r)
    <2> SUFFICES ASSUME NEW m \in 1..Len(r), NEW n \in 1..Len(r), Ours(r[m]), Ours(r[n])
                 PROVE  m = n
      BY DEF OnlyOne
    <2>1. m + 1 = n + 1
      BY <1>2, <1>7 DEF OnlyOne
    <2> QED BY <1>1, <2>1
  <1> QED BY <1>3, <1>4, <1>6, <1>7

-----------------------------------------------------------------------------
(* Positions in a slot. *)

LEMMA EmptyLayers ==
  /\ <<>> \in Seq(Layers) /\ ~HasOurs(<<>>) /\ OnlyOne(<<>>) /\ Apart(<<>>)
  /\ \A f : f = <<>> => KeepsInOrder(<<>>, f)
  <1>1. <<>> \in Seq(Layers) /\ Len(<<>>) = 0 /\ DOMAIN <<>> = {}
    BY EmptySeq
  <1>2. ASSUME NEW f, f = <<>>
        PROVE  KeepsInOrder(<<>>, f)
    <2>1. <<>> \in [DOMAIN f -> DOMAIN <<>>]
      BY <1>2
    <2>2. \A m \in DOMAIN f : FALSE
      BY <1>2
    <2>3. \A m \in DOMAIN <<>> : FALSE
      OBVIOUS
    <2> QED BY <2>1, <2>2, <2>3 DEF KeepsInOrder
  <1> QED BY <1>1, <1>2 DEF HasOurs, OnlyOne, Apart

LEMMA OutermostIs ==
  ASSUME ChainTyped, NEW t \in Slots
  PROVE  /\ chain[t] = <<>> <=> Len(chain[t]) = 0
         /\ chain[t] = <<>> => Outermost(t) = None
         /\ chain[t] # <<>> => Outermost(t) = chain[t][1] /\ 1 \in 1..Len(chain[t])
         /\ Ours(Outermost(t)) => chain[t] # <<>> /\ Ours(chain[t][1]) /\ HasOurs(chain[t])
         /\ ~Ours(Outermost(t)) => chain[t] = <<>> \/ ~Ours(chain[t][1])
  <1>1. chain[t] \in Seq(Layers)
    BY DEF ChainTyped
  <1>2. chain[t] # <<>> => Head(chain[t]) = chain[t][1] /\ 1 \in 1..Len(chain[t])
    BY <1>1, TailIs
  <1>3. chain[t] = <<>> <=> Len(chain[t]) = 0
    BY <1>1, EmptySeq
  <1> QED BY <1>2, <1>3, OursAre DEF Outermost, HasOurs

LEMMA FirstOursIs ==
  ASSUME ChainTyped, NEW t \in Slots
  PROVE  /\ FirstIs(chain[t], FirstOurs(t))
         /\ FirstOurs(t) # 0 <=> HasOurs(chain[t])
         /\ FirstOurs(t) \in Nat /\ FirstOurs(t) <= Len(chain[t]) /\ Len(chain[t]) \in Nat
  <1>1. /\ chain[t] \in Seq(Layers) /\ Len(chain[t]) \in Nat
        /\ DOMAIN chain[t] = 1..Len(chain[t])
    BY LenProperties DEF ChainTyped
  <1> DEFINE at == {n \in DOMAIN chain[t] : Ours(chain[t][n])}
  <1>2. at \in SUBSET (1..Len(chain[t])) /\ (at = {} <=> ~HasOurs(chain[t]))
    BY <1>1 DEF HasOurs
  <1>3. FirstOurs(t) = IF at = {} THEN 0 ELSE Min(at)
    BY DEF FirstOurs
  <1>4. CASE at = {}
    BY <1>1, <1>2, <1>3, <1>4 DEF FirstIs
  <1>5. CASE at # {}
    <2>1. Min(at) \in at /\ \A n \in at : Min(at) <= n
      <3> HIDE DEF at
      <3> QED BY <1>1, <1>2, <1>5, MinIs
    <2>2. Min(at) \in 1..Len(chain[t]) /\ Ours(chain[t][Min(at)])
      BY <1>2, <2>1
    <2>3. ASSUME NEW m \in 1..Min(at) - 1
          PROVE  ~Ours(chain[t][m])
      <3>1. m \in 1..Len(chain[t]) /\ ~(Min(at) <= m)
        <4> HIDE DEF at
        <4> QED BY <1>1, <2>2
      <3> QED BY <1>1, <2>1, <3>1
    <2> HIDE DEF at
    <2>4. PICK n \in 1..Len(chain[t]) : n = FirstOurs(t)
      BY <1>3, <1>5, <2>2
    <2>5. Ours(chain[t][n]) /\ \A m \in 1..n - 1 : ~Ours(chain[t][m])
      BY <1>3, <1>5, <2>2, <2>3, <2>4
    <2>6. FirstIs(chain[t], n) /\ HasOurs(chain[t])
      BY <2>5 DEF FirstIs, HasOurs
    <2>7. n # 0 /\ n \in Nat /\ n <= Len(chain[t])
      BY <1>1
    <2> QED BY <1>1, <2>4, <2>6, <2>7
  <1> QED BY <1>4, <1>5

-----------------------------------------------------------------------------
(* What a step does to a slot. *)

PushesOurs(t) ==
  /\ foreign'[t] = foreign[t] /\ ~Ours(Outermost(t))
  /\ \E i \in Instances : Pushes(chain[t], chain'[t], i)

DropsOurs(t) ==
  /\ foreign'[t] = foreign[t] /\ FirstOurs(t) # 0
  /\ Drops(chain[t], chain'[t], FirstOurs(t))

Foreigners(t) ==
  \/ \E kind \in Foreign : /\ Pushes(chain[t], chain'[t], kind)
                           /\ Pushes(foreign[t], foreign'[t], kind)
  \/ /\ chain[t] # <<>> /\ ~Ours(chain[t][1]) /\ Drops(chain[t], chain'[t], 1)
     /\ foreign[t] # <<>> => Drops(foreign[t], foreign'[t], 1)

Stays(t) == chain'[t] = chain[t] /\ foreign'[t] = foreign[t]

IsReset(t) == t = "factory" /\ chain'[t] = FactoryRestored /\ foreign'[t] = foreign[t]

ChainStep ==
  /\ ChainTyped'
  /\ \A t \in Slots : \/ Stays(t) \/ PushesOurs(t) \/ DropsOurs(t) \/ Foreigners(t)
                      \/ IsReset(t)

(* The factory's chain is cut below the first of ours that stays. *)
LEMMA FactoryRestoredIs ==
  ASSUME ChainTyped
  PROVE  /\ FactoryRestored \in Seq(Layers)
         /\ Apart(chain["factory"]) => Apart(FactoryRestored)
         /\ OnlyOne(FactoryRestored)
         /\ OnlyOne(chain["factory"]) /\ FirstOurs("factory") <= 1
              => ~HasOurs(FactoryRestored)
  <1> DEFINE s == chain["factory"]
             top == IF Ours(Outermost("factory")) THEN Tail(s) ELSE s
             at == {n \in DOMAIN top : Ours(top[n])}
  <1>1. "factory" \in Slots
    BY DEF Slots
  <1>2. s \in Seq(Layers)
    BY <1>1 DEF ChainTyped
  <1>3. FactoryRestored = IF at = {} THEN top ELSE SubSeq(top, 1, Min(at))
    BY DEF FactoryRestored
  <1>4. top \in Seq(Layers) /\ (Apart(s) => Apart(top))
        /\ (OnlyOne(s) /\ FirstOurs("factory") <= 1 => ~HasOurs(top))
    <2>1. CASE Ours(Outermost("factory"))
      <3>1. s # <<>> /\ Ours(s[1]) /\ HasOurs(s)
        BY <1>1, <2>1, OutermostIs
      <3>2. top = Tail(s) /\ Tail(s) \in Seq(Layers) /\ Drops(s, Tail(s), 1)
        BY <1>2, <2>1, <3>1, TailIs
      <3>3. FirstIs(s, 1)
        <4>1. 1 \in 1..Len(s)
          BY <1>2, <3>1, TailIs
        <4> QED BY <3>1, <4>1 DEF FirstIs
      <3>4. PICK r \in Seq(Layers), n \in Nat, f \in Seq(Foreign) : r = Tail(s) /\ n = 1
        <4>1. <<>> \in Seq(Foreign)
          OBVIOUS
        <4> QED BY <3>2, <4>1
      <3> HIDE DEF s, top
      <3>5. FirstIs(s, n) /\ n # 0 /\ Drops(s, r, n)
        BY <3>2, <3>3, <3>4
      <3>6. (Apart(s) => Apart(r)) /\ (OnlyOne(s) => ~HasOurs(r))
        BY <1>2, <3>5, DropOurs
      <3> QED BY <3>2, <3>4, <3>6
    <2>2. CASE ~Ours(Outermost("factory"))
      <3>1. top = s
        BY <2>2
      <3>2. s = <<>> \/ ~Ours(s[1])
        BY <1>1, <2>2, OutermostIs
      <3>3. FirstIs(s, FirstOurs("factory")) /\ FirstOurs("factory") \in Nat
        BY <1>1, FirstOursIs
      <3>4. FirstOurs("factory") # 1
        BY <3>2, <3>3 DEF FirstIs
      <3>5. FirstOurs("factory") <= 1 => ~HasOurs(s)
        BY <3>3, <3>4 DEF FirstIs
      <3> QED BY <1>2, <3>1, <3>5
    <2> QED BY <2>1, <2>2
  <1> HIDE DEF s, top
  <1>5. Len(top) \in Nat /\ DOMAIN top = 1..Len(top)
    BY <1>4, LenProperties
  <1>6. at \in SUBSET (1..Len(top)) /\ (at = {} <=> ~HasOurs(top))
    BY <1>5 DEF HasOurs
  <1>7. CASE at = {}
    <2>1. FactoryRestored = top
      BY <1>3, <1>7
    <2>2. ~HasOurs(top) => OnlyOne(top)
      BY DEF HasOurs, OnlyOne
    <2> QED BY <1>4, <1>6, <1>7, <2>1, <2>2 DEF s
  <1>8. CASE at # {}
    <2>1. Min(at) \in at /\ \A n \in at : Min(at) <= n
      <3> HIDE DEF at
      <3> QED BY <1>5, <1>6, <1>8, MinIs
    <2>2. \A n \in 1..Len(top) : Ours(top[n]) => n \in at
      BY <1>5
    <2>3. PICK k \in 1..Len(top) : k = Min(at)
      BY <1>6, <2>1
    <2> DEFINE r == SubSeq(top, 1, k)
    <2>4. FactoryRestored = r
      BY <1>3, <1>8, <2>3
    <2>5. /\ r \in Seq(Layers) /\ Len(r) = k
          /\ \A i \in 1..k : r[i] = top[i]
      <3>1. \A i \in 1..k : top[i] \in Layers
        BY <1>4, <1>5, ElementOfSeq
      <3>2. /\ r \in Seq(Layers) /\ Len(r) = IF 1 <= k THEN k - 1 + 1 ELSE 0
            /\ \A i \in 1..k - 1 + 1 : r[i] = top[1 + i - 1]
        <4>1. k \in Int /\ 1 \in Int
          BY <1>5
        <4> QED BY <3>1, <4>1, SubSeqProperties
      <3> HIDE DEF r
      <3> QED BY <1>5, <3>2
    <2> HIDE DEF r, at
    <2>6. Apart(top) => Apart(r)
      <3> SUFFICES ASSUME Apart(top), NEW n \in 2..Len(r)
                   PROVE  ~(Ours(r[n - 1]) /\ Ours(r[n]))
        BY DEF Apart
      <3>1. n \in 2..Len(top) /\ n - 1 \in 1..k /\ n \in 1..k
        BY <1>5, <2>5
      <3> QED BY <2>5, <3>1 DEF Apart
    <2>7. \A n \in 1..Len(r) : Ours(r[n]) => n = k
      <3> SUFFICES ASSUME NEW n \in 1..Len(r), Ours(r[n])
                   PROVE  n = k
        OBVIOUS
      <3>1. n \in 1..Len(top) /\ Ours(top[n]) /\ n <= k
        BY <1>5, <2>5
      <3>2. k <= n
        BY <2>1, <2>2, <2>3, <3>1
      <3> QED BY <1>5, <3>1, <3>2
    <2>8. OnlyOne(r)
      BY <2>7 DEF OnlyOne
    <2>9. HasOurs(top)
      BY <1>6, <1>8
    <2> QED BY <1>4, <2>4, <2>5, <2>6, <2>8, <2>9 DEF s
  <1> QED BY <1>7, <1>8

-----------------------------------------------------------------------------
(* Frames of work. *)

LEMMA StepsAre ==
  ASSUME focus \in Classes
  PROVE  /\ Steps[focus] \in Seq(StepNames)
         /\ \A k \in 1..Len(Steps[focus]) : Steps[focus][k] \in Mine
         /\ \A j, k \in 1..Len(Steps[focus]) : Steps[focus][j] = Steps[focus][k] => j = k
         /\ "custom" \notin Mine
         /\ Mine \subseteq Wrapped \cup {"signals", "factory", "producer"}
  <1> DEFINE s == Steps[focus]
  <1>1. focus \in {"falcon", "celery", "logging", "confluent", "psycopg2"}
    BY InstrumentationAssumption
  <1>2. \/ s = <<"app", "asgi">> \/ s = <<"apply_async", "signals">>
        \/ s = <<"factory", "make_record">> \/ s = <<"producer">> \/ s = <<"connect">>
    BY <1>1 DEF Steps, FalconSteps, CelerySteps, LoggingSteps, ConfluentSteps,
                Psycopg2Steps
  <1>3. Mine = {s[k] : k \in DOMAIN s}
    BY DEF Mine, ToSet
  <1> HIDE DEF s
  <1>4. /\ s \in Seq(StepNames) /\ DOMAIN s = 1..Len(s)
        /\ \A j, k \in 1..Len(s) : s[j] = s[k] => j = k
        /\ \A k \in 1..Len(s) :
             s[k] \in Wrapped \cup {"signals", "factory", "producer"}
    <2> USE DEF StepNames, Slots, Wrapped
    <2>1. CASE s = <<"app", "asgi">>
      BY <2>1
    <2>2. CASE s = <<"apply_async", "signals">>
      BY <2>2
    <2>3. CASE s = <<"factory", "make_record">>
      BY <2>3
    <2>4. CASE s = <<"producer">>
      BY <2>4
    <2>5. CASE s = <<"connect">>
      BY <2>5
    <2> QED BY <1>2, <2>1, <2>2, <2>3, <2>4, <2>5
  <1>5. Mine \subseteq Wrapped \cup {"signals", "factory", "producer"}
    BY <1>3, <1>4
  <1>6. "custom" \notin Wrapped \cup {"signals", "factory", "producer"}
    BY DEF Wrapped
  <1> QED BY <1>3, <1>4, <1>5, <1>6 DEF s

LEMMA CustomIs ==
  <<"custom">> \in Seq(StepNames) /\ Len(<<"custom">>) = 1 /\ <<"custom">>[1] = "custom"
  BY DEF StepNames

LEMMA AdvanceIs ==
  ASSUME focus \in Classes, NEW f \in FrameType, FrameIs(f), f.todo # <<>>,
         f.op = "install" \/ Head(f.todo) \in Wrapped
  PROVE  /\ Head(f.todo) = f.todo[1] /\ 1 \in 1..Len(f.todo) /\ Head(f.todo) \in Mine
         /\ [f EXCEPT !.todo = Tail(@)] \in FrameType
         /\ FrameIs([f EXCEPT !.todo = Tail(@)])
         /\ f.op # "install" => f.todo # <<"custom">> /\ Tail(f.todo) # <<"custom">>
         /\ Drops(f.todo, Tail(f.todo), 1)
         /\ f.todo \in Seq(StepNames) /\ Tail(f.todo) \in Seq(StepNames)
  <1> DEFINE s == f.todo
             r == Tail(f.todo)
             g == [f EXCEPT !.todo = Tail(@)]
  <1>1. s \in Seq(StepNames) /\ f.inst \in Instances
        /\ f.op \in {"install", "rollback", "uninstall"}
    BY DEF FrameType
  <1>2. /\ Head(s) = s[1] /\ 1 \in 1..Len(s) /\ r \in Seq(StepNames) /\ Drops(s, r, 1)
    <2> HIDE DEF s, r
    <2>1. r = Tail(s)
      BY DEF r, s
    <2> QED BY <1>1, <2>1, TailIs DEF s
  <1>3. g.op = f.op /\ g.inst = f.inst /\ g.todo = r
    BY DEF FrameType
  <1>4. g \in FrameType
    BY <1>1, <1>2 DEF FrameType
  <1>5. "custom" \notin Wrapped /\ "custom" \notin Mine
    BY StepsAre DEF Wrapped
  <1>6. f.op # "install" =>
          s # <<"custom">> /\ \A k \in 1..Len(s) : s[k] \in Mine \cap Wrapped
    BY <1>2, <1>5, CustomIs DEF FrameIs
  <1> HIDE DEF s, r, g
  <1>7. /\ Len(s) \in Nat /\ Len(r) \in Nat /\ Len(s) = Len(r) + 1
        /\ \A m \in 1..Len(r) : m >= 1 => m + 1 \in 1..Len(s) /\ r[m] = s[m + 1]
    BY <1>1, <1>2, DroppedAre
  <1>8. \A m \in 1..Len(r) : m + 1 \in 1..Len(s) /\ r[m] = s[m + 1] /\ m \in Int
    BY <1>7
  <1>9. \A k \in 1..Len(s) : s[k] \in Mine
    BY <1>1, <1>6 DEF FrameIs, s
  <1>10. f.op = "install" => \A j, k \in 1..Len(r) : r[j] = r[k] => j = k
    <2> SUFFICES ASSUME f.op = "install", NEW j \in 1..Len(r), NEW k \in 1..Len(r),
                        r[j] = r[k]
                 PROVE  j = k
      OBVIOUS
    <2>1. j + 1 = k + 1
      BY <1>8 DEF FrameIs, s
    <2> QED BY <1>8, <2>1
  <1>11. f.op # "install" => \A k \in 1..Len(r) : r[k] \in Mine \cap Wrapped
    BY <1>6, <1>8
  <1>12. f.op # "install" => r # <<"custom">>
    <2> SUFFICES ASSUME f.op # "install", r = <<"custom">>
                 PROVE  FALSE
      OBVIOUS
    <2>1. 1 \in 1..Len(r) /\ r[1] = "custom"
      BY CustomIs
    <2> QED BY <1>5, <1>11, <2>1
  <1>13. FrameIs(g)
    BY <1>3, <1>8, <1>9, <1>10, <1>11 DEF FrameIs
  <1> QED BY <1>1, <1>2, <1>4, <1>6, <1>9, <1>12, <1>13 DEF s, r, g

LEMMA WorkIs ==
  ASSUME WorkTyped(work), ~Idle
  PROVE  /\ Len(work) \in Nat /\ Len(work) >= 1 /\ Top \in FrameType /\ FrameIs(Top)
         /\ WorkTyped(Popped)
         /\ \A g \in FrameType : FrameIs(g) => WorkTyped(Replace(g))
  <1>1. work \in Seq(FrameType) /\ \A n \in 1..Len(work) : FrameIs(work[n])
    BY DEF WorkTyped
  <1>2. Len(work) \in Nat \ {0}
    BY <1>1, EmptySeq DEF Idle
  <1>3. Len(work) \in 1..Len(work) /\ Top \in FrameType /\ FrameIs(Top)
    BY <1>1, <1>2, ElementOfSeq DEF Top
  <1>4. WorkTyped(Popped)
    <2>1. \A i \in 1..Len(work) - 1 : i \in 1..Len(work) /\ work[i] \in FrameType
      BY <1>1, <1>2, ElementOfSeq
    <2> DEFINE r == SubSeq(work, 1, Len(work) - 1)
    <2>2. /\ r \in Seq(FrameType)
          /\ Len(r) = IF 1 <= Len(work) - 1 THEN (Len(work) - 1) - 1 + 1 ELSE 0
          /\ \A i \in 1..(Len(work) - 1) - 1 + 1 : r[i] = work[1 + i - 1]
      <3>1. 1 \in Int /\ Len(work) - 1 \in Int
        BY <1>2
      <3> QED BY <2>1, <3>1, SubSeqProperties
    <2> HIDE DEF r
    <2>3. \A i \in 1..Len(r) : i \in 1..Len(work) /\ r[i] = work[i]
      BY <1>2, <2>2
    <2>4. WorkTyped(r)
      BY <1>1, <2>2, <2>3 DEF WorkTyped
    <2> QED BY <2>4 DEF r, Popped, Front
  <1>5. ASSUME NEW g \in FrameType, FrameIs(g)
        PROVE  WorkTyped(Replace(g))
    <2>1. /\ [work EXCEPT ![Len(work)] = g] \in Seq(FrameType)
          /\ Len([work EXCEPT ![Len(work)] = g]) = Len(work)
          /\ \A j \in 1..Len(work) :
               [work EXCEPT ![Len(work)] = g][j] = IF j = Len(work) THEN g ELSE work[j]
      BY <1>1, <1>3, ExceptSeq
    <2> QED BY <1>1, <1>5, <2>1 DEF WorkTyped, Replace
  <1> QED BY <1>2, <1>3, <1>4, <1>5

LEMMA WorkGrows ==
  ASSUME WorkTyped(work), NEW g \in FrameType, FrameIs(g)
  PROVE  WorkTyped(Append(work, g)) /\ WorkTyped(<<g>>)
  <1>1. /\ Append(work, g) \in Seq(FrameType) /\ Len(Append(work, g)) = Len(work) + 1
        /\ \A i \in 1..Len(work) : Append(work, g)[i] = work[i]
        /\ Append(work, g)[Len(work) + 1] = g /\ Len(work) \in Nat
    BY AppendProperties, LenProperties DEF WorkTyped
  <1>2. \A i \in 1..Len(work) + 1 : i \in 1..Len(work) \/ i = Len(work) + 1
    BY <1>1
  <1> QED BY <1>1, <1>2 DEF WorkTyped

(* A step of an installation or of its undoing that has been taken. *)
LEMMA Advances ==
  ASSUME BooksTyped, FlagsTyped, Busy("install") \/ Undoing, Top.todo # <<>>,
         Busy("install") \/ Next1 \in Wrapped
  PROVE  /\ WorkTyped(Advanced) /\ Top.inst \in Instances /\ Next1 \in Mine
         /\ Next1 = Top.todo[1] /\ 1 \in 1..Len(Top.todo)
  <1>1. ~Idle /\ Top \in FrameType /\ FrameIs(Top)
    BY WorkIs DEF BooksTyped, Busy, Undoing
  <1>2. Top.op = "install" \/ Head(Top.todo) \in Wrapped
    BY DEF Busy, Next1
  <1>3. /\ [Top EXCEPT !.todo = Tail(@)] \in FrameType
        /\ FrameIs([Top EXCEPT !.todo = Tail(@)])
        /\ Head(Top.todo) \in Mine /\ Head(Top.todo) = Top.todo[1]
        /\ 1 \in 1..Len(Top.todo)
    BY <1>1, <1>2, AdvanceIs DEF FlagsTyped
  <1>4. WorkTyped(Advanced)
    BY <1>1, <1>3, WorkIs DEF BooksTyped, Advanced
  <1> QED BY <1>1, <1>3, <1>4 DEF FrameType, Next1

-----------------------------------------------------------------------------
(* What the steps do to the slots. *)

LEMMA SameChain ==
  ASSUME ChainTyped, chain' = chain, foreign' = foreign
  PROVE  ChainStep
  BY DEF ChainTyped, ChainStep, Stays

LEMMA OneSlot ==
  ASSUME ChainTyped, NEW t \in Slots, NEW r \in Seq(Layers),
         chain' = [chain EXCEPT ![t] = r], foreign' = foreign,
         Stays(t) \/ PushesOurs(t) \/ DropsOurs(t) \/ IsReset(t)
  PROVE  ChainStep
  BY DEF ChainTyped, ChainStep, Stays

LEMMA AddsOurs ==
  ASSUME ChainTyped, NEW t \in Slots, ~Ours(Outermost(t)), NEW i \in Instances,
         chain' = [chain EXCEPT ![t] = <<i>> \o chain[t]], foreign' = foreign
  PROVE  /\ ChainStep /\ <<i>> \o chain[t] \in Seq(Layers)
         /\ Pushes(chain[t], <<i>> \o chain[t], i) /\ PushesOurs(t)
  <1>1. chain[t] \in Seq(Layers) /\ i \in Layers
    BY DEF ChainTyped, Layers
  <1>2. <<i>> \o chain[t] \in Seq(Layers) /\ Pushes(chain[t], <<i>> \o chain[t], i)
    BY <1>1, PushIs
  <1>3. chain'[t] = <<i>> \o chain[t]
    BY DEF ChainTyped
  <1>4. PushesOurs(t)
    BY <1>2, <1>3 DEF PushesOurs
  <1> QED BY <1>2, <1>4, OneSlot

(* wrap() and the record factory's installation. *)
LEMMA InstallsOurs ==
  ASSUME ChainTyped, NEW t \in Slots, NEW i \in Instances,
         chain' = [chain EXCEPT ![t] = IF Ours(Outermost(t)) THEN chain[t]
                                       ELSE <<i>> \o chain[t]],
         foreign' = foreign
  PROVE  /\ ChainStep
         /\ Ours(Outermost(t)) => chain' = chain
         /\ ~Ours(Outermost(t)) => PushesOurs(t)
  <1>1. CASE Ours(Outermost(t))
    <2>1. chain' = chain
      BY <1>1 DEF ChainTyped
    <2> QED BY <1>1, <2>1, SameChain
  <1>2. CASE ~Ours(Outermost(t))
    BY <1>2, AddsOurs
  <1> QED BY <1>1, <1>2

LEMMA WrapStepChain ==
  ASSUME Typed, WrapStep
  PROVE  /\ ChainStep /\ Next1 \in Slots /\ \A u \in Slots \ {Next1} : Stays(u)
         /\ Ours(Outermost(Next1)) => chain' = chain
         /\ ~Ours(Outermost(Next1)) => PushesOurs(Next1)
  <1>1. Next1 \in Slots /\ Top.inst \in Instances
    BY Advances DEF Typed, WrapStep, Wrapped, Slots
  <1>2. /\ chain' = [chain EXCEPT ![Next1] = IF Ours(Outermost(Next1)) THEN chain[Next1]
                                             ELSE <<Top.inst>> \o chain[Next1]]
        /\ foreign' = foreign
    BY DEF WrapStep, WrappedBy, others
  <1>3. \A u \in Slots \ {Next1} : Stays(u)
    BY <1>2 DEF Typed, ChainTyped, Stays
  <1> QED BY <1>1, <1>2, <1>3, InstallsOurs DEF Typed

LEMMA FactoryStepChain ==
  ASSUME Typed, FactoryStep
  PROVE  /\ ChainStep /\ \A u \in Slots \ {"factory"} : Stays(u)
         /\ Ours(Outermost("factory")) => chain' = chain
         /\ ~Ours(Outermost("factory")) => PushesOurs("factory")
  <1>1. "factory" \in Slots /\ Top.inst \in Instances
    BY Advances DEF Typed, FactoryStep, Slots
  <1>2. /\ chain' = [chain EXCEPT !["factory"] =
                       IF Ours(Outermost("factory")) THEN chain["factory"]
                       ELSE <<Top.inst>> \o chain["factory"]]
        /\ foreign' = foreign
    BY DEF FactoryStep, FactoryInstalled, others
  <1>3. \A u \in Slots \ {"factory"} : Stays(u)
    BY <1>2 DEF Typed, ChainTyped, Stays
  <1> QED BY <1>1, <1>2, <1>3, InstallsOurs DEF Typed

(* A class patched already is recognised under subclasses of it only, so   *)
(* one that is not has something else outermost.                           *)
LEMMA ClassStepChain ==
  ASSUME Typed, ClassStep
  PROVE  /\ ChainStep /\ \A u \in Slots \ {"producer"} : Stays(u)
         /\ ClassPatched => chain' = chain
         /\ ~ClassPatched => PushesOurs("producer")
         /\ ClassPatched => HasOurs(chain["producer"])
  <1>1. "producer" \in Slots /\ Top.inst \in Instances
    BY Advances DEF Typed, ClassStep, Slots
  <1>2. foreign' = foreign /\ chain' = IF ClassPatched THEN chain
          ELSE [chain EXCEPT !["producer"] = <<Top.inst>> \o chain["producer"]]
    BY DEF ClassStep, others
  <1>3. \A u \in Slots \ {"producer"} : Stays(u)
    BY <1>2 DEF Typed, ChainTyped, Stays
  <1>4. chain["producer"] \in Seq(Layers)
    BY <1>1 DEF Typed, ChainTyped
  <1>5. DOMAIN chain["producer"] = 1..Len(chain["producer"])
    BY <1>4, LenProperties
  <1>6. Ours(Outermost("producer")) => ClassPatched
    <2> SUFFICES ASSUME Ours(Outermost("producer"))
                 PROVE  ClassPatched
      OBVIOUS
    <2>1. chain["producer"] # <<>> /\ Ours(chain["producer"][1])
      BY <1>1, OutermostIs DEF Typed
    <2>2. 1 \in DOMAIN chain["producer"]
      BY <1>4, <1>5, <2>1, TailIs
    <2>3. \A m \in 1..(1 - 1) : chain["producer"][m] = "soft"
      OBVIOUS
    <2> QED BY <2>1, <2>2, <2>3 DEF ClassPatched
  <1>7. ClassPatched => HasOurs(chain["producer"])
    BY <1>5 DEF ClassPatched, HasOurs
  <1>8. CASE ClassPatched
    BY <1>2, <1>3, <1>7, <1>8, SameChain DEF Typed
  <1>9. CASE ~ClassPatched
    BY <1>1, <1>2, <1>3, <1>6, <1>9, AddsOurs DEF Typed
  <1> QED BY <1>8, <1>9

LEMMA RestoreChain ==
  ASSUME Typed, Restore
  PROVE  /\ ChainStep /\ Next1 \in Slots /\ \A u \in Slots \ {Next1} : Stays(u)
         /\ FirstOurs(Next1) = 0 \/ Refused(Next1) => chain' = chain
         /\ FirstOurs(Next1) # 0 /\ ~Refused(Next1) => DropsOurs(Next1)
  <1>1. Next1 \in Slots
    BY DEF Restore, Wrapped, Slots
  <1>2. foreign' = foreign /\ chain' = [chain EXCEPT ![Next1] = Unwrapped(Next1)]
    BY DEF Restore, others
  <1>3. \A u \in Slots \ {Next1} : Stays(u)
    BY <1>2 DEF Typed, ChainTyped, Stays
  <1>4. CASE FirstOurs(Next1) = 0 \/ Refused(Next1)
    <2>1. chain' = chain
      BY <1>2, <1>4 DEF Typed, ChainTyped, Unwrapped
    <2> QED BY <1>1, <1>2, <1>3, <1>4, <2>1, SameChain DEF Typed
  <1>5. CASE ~(FirstOurs(Next1) = 0 \/ Refused(Next1))
    <2>1. chain[Next1] \in Seq(Layers) /\ FirstOurs(Next1) \in 1..Len(chain[Next1])
      BY <1>1, <1>5, FirstOursIs DEF Typed, ChainTyped
    <2> DEFINE r == RemoveAt(chain[Next1], FirstOurs(Next1))
    <2>2. r \in Seq(Layers) /\ Drops(chain[Next1], r, FirstOurs(Next1))
      BY <2>1, DropIs
    <2>3. Unwrapped(Next1) = r
      BY <1>5 DEF Unwrapped
    <2> HIDE DEF r
    <2>4. chain' = [chain EXCEPT ![Next1] = r] /\ chain'[Next1] = r
      BY <1>1, <1>2, <2>3 DEF Typed, ChainTyped
    <2>5. DropsOurs(Next1)
      BY <1>2, <1>5, <2>2, <2>4 DEF DropsOurs
    <2>6. ChainStep
      BY <1>1, <1>2, <2>2, <2>4, <2>5, OneSlot DEF Typed
    <2> QED BY <1>1, <1>3, <1>5, <2>5, <2>6
  <1> QED BY <1>4, <1>5

LEMMA CustomChain ==
  ASSUME Typed, NEW raised \in BOOLEAN, Custom(raised)
  PROVE  /\ ChainStep /\ \A u \in Slots \ {"factory", "producer"} : Stays(u)
         /\ chain'["factory"] = FactoryRestored
         /\ Ours(Outermost("producer")) => DropsOurs("producer") /\ FirstOurs("producer") = 1
         /\ ~Ours(Outermost("producer")) => Stays("producer") /\ FirstOurs("producer") # 1
  <1>1. "factory" \in Slots /\ "producer" \in Slots
    BY DEF Slots
  <1>2. /\ foreign' = foreign
        /\ chain' = [chain EXCEPT !["factory"] = FactoryRestored,
                                  !["producer"] = ClassRestored]
    BY DEF Custom, others
  <1>3. /\ \A u \in Slots \ {"factory", "producer"} : Stays(u)
        /\ chain'["factory"] = FactoryRestored /\ chain'["producer"] = ClassRestored
    BY <1>1, <1>2 DEF Typed, ChainTyped, Stays
  <1>4. FactoryRestored \in Seq(Layers)
    BY FactoryRestoredIs DEF Typed
  <1>5. chain["producer"] \in Seq(Layers)
    BY <1>1 DEF Typed, ChainTyped
  <1>6. FirstIs(chain["producer"], FirstOurs("producer"))
    BY <1>1, FirstOursIs DEF Typed
  <1>7. /\ ClassRestored \in Seq(Layers)
        /\ Ours(Outermost("producer")) => DropsOurs("producer") /\ FirstOurs("producer") = 1
        /\ ~Ours(Outermost("producer")) => Stays("producer") /\ FirstOurs("producer") # 1
    <2>1. CASE Ours(Outermost("producer"))
      <3>1. chain["producer"] # <<>> /\ Ours(chain["producer"][1])
        BY <1>1, <2>1, OutermostIs DEF Typed
      <3>2. /\ ClassRestored = Tail(chain["producer"])
            /\ ClassRestored \in Seq(Layers)
            /\ Drops(chain["producer"], ClassRestored, 1)
        BY <1>5, <2>1, <3>1, TailIs DEF ClassRestored
      <3>3. FirstOurs("producer") = 1
        <4>1. 1 \in 1..Len(chain["producer"])
          BY <1>5, <3>1, TailIs
        <4>2. HasOurs(chain["producer"])
          BY <3>1, <4>1 DEF HasOurs
        <4>3. FirstOurs("producer") \in Nat /\ FirstOurs("producer") >= 1
          BY <1>1, <4>2, FirstOursIs DEF Typed
        <4>4. \A m \in 1..FirstOurs("producer") - 1 : ~Ours(chain["producer"][m])
          BY <1>6, <4>2 DEF FirstIs
        <4> QED BY <3>1, <4>3, <4>4
      <3> QED BY <1>2, <1>3, <2>1, <3>2, <3>3 DEF DropsOurs
    <2>2. CASE ~Ours(Outermost("producer"))
      <3>1. chain["producer"] = <<>> \/ ~Ours(chain["producer"][1])
        BY <1>1, <2>2, OutermostIs DEF Typed
      <3>2. chain["producer"] = <<>> => Len(chain["producer"]) = 0
        BY <1>5, EmptySeq
      <3>3. FirstOurs("producer") # 1
        BY <1>6, <3>1, <3>2 DEF FirstIs
      <3> QED BY <1>2, <1>3, <1>5, <2>2, <3>3 DEF ClassRestored, Stays
    <2> QED BY <2>1, <2>2
  <1>8. ChainTyped'
    BY <1>1, <1>2, <1>4, <1>7 DEF Typed, ChainTyped
  <1>9. IsReset("factory")
    BY <1>2, <1>3 DEF IsReset
  <1> QED BY <1>3, <1>7, <1>8, <1>9 DEF ChainStep

LEMMA ForeignWrapChain ==
  ASSUME Typed, NEW t \in Slots, NEW kind \in Foreign, ForeignWrap(t, kind)
  PROVE  ChainStep /\ Foreigners(t) /\ \A u \in Slots \ {t} : Stays(u)
  <1>1. /\ chain' = [chain EXCEPT ![t] = <<kind>> \o chain[t]]
        /\ foreign' = [foreign EXCEPT ![t] = <<kind>> \o foreign[t]]
    BY DEF ForeignWrap
  <1>2. chain[t] \in Seq(Layers) /\ foreign[t] \in Seq(Foreign) /\ kind \in Layers
    BY DEF Typed, ChainTyped, Layers
  <1>3. /\ <<kind>> \o chain[t] \in Seq(Layers)
        /\ Pushes(chain[t], <<kind>> \o chain[t], kind)
    BY <1>2, PushIs
  <1>4. /\ <<kind>> \o foreign[t] \in Seq(Foreign)
        /\ Pushes(foreign[t], <<kind>> \o foreign[t], kind)
    BY <1>2, PushIs
  <1>5. chain'[t] = <<kind>> \o chain[t] /\ foreign'[t] = <<kind>> \o foreign[t]
    BY <1>1 DEF Typed, ChainTyped
  <1>6. Foreigners(t)
    BY <1>3, <1>4, <1>5 DEF Foreigners
  <1>7. \A u \in Slots \ {t} : Stays(u)
    BY <1>1 DEF Typed, ChainTyped, Stays
  <1>8. ChainTyped'
    BY <1>1, <1>3, <1>4 DEF Typed, ChainTyped
  <1> QED BY <1>6, <1>7, <1>8 DEF ChainStep

LEMMA ForeignUnwrapChain ==
  ASSUME Typed, NEW t \in Slots, ForeignUnwrap(t)
  PROVE  ChainStep /\ Foreigners(t) /\ \A u \in Slots \ {t} : Stays(u)
  <1> DEFINE g == IF foreign[t] = <<>> THEN foreign[t] ELSE Tail(foreign[t])
  <1>1. /\ chain[t] # <<>> /\ ~Ours(Head(chain[t]))
        /\ chain' = [chain EXCEPT ![t] = Tail(chain[t])]
        /\ foreign' = [foreign EXCEPT ![t] = g]
    BY DEF ForeignUnwrap
  <1>2. chain[t] \in Seq(Layers) /\ foreign[t] \in Seq(Foreign)
    BY DEF Typed, ChainTyped
  <1>3. /\ Tail(chain[t]) \in Seq(Layers) /\ Drops(chain[t], Tail(chain[t]), 1)
        /\ Head(chain[t]) = chain[t][1]
    BY <1>1, <1>2, TailIs
  <1>4. g \in Seq(Foreign) /\ (foreign[t] # <<>> => Drops(foreign[t], g, 1))
    BY <1>2, TailIs
  <1> HIDE DEF g
  <1>5. chain'[t] = Tail(chain[t]) /\ foreign'[t] = g
    BY <1>1 DEF Typed, ChainTyped
  <1>6. Foreigners(t)
    BY <1>1, <1>3, <1>4, <1>5 DEF Foreigners
  <1>7. \A u \in Slots \ {t} : Stays(u)
    BY <1>1 DEF Typed, ChainTyped, Stays
  <1>8. ChainTyped'
    BY <1>1, <1>3, <1>4 DEF Typed, ChainTyped
  <1> QED BY <1>6, <1>7, <1>8 DEF ChainStep

(* Of a library that is not imported yet nothing is patched. *)
Unimported == \A t \in Deferred \ imported : chain[t] = <<>> /\ foreign[t] = <<>>

LEMMA FirstLive ==
  ASSUME BooksTyped
  PROVE  LET live == {n \in DOMAIN hooks : Live(hooks[n])}
         IN live # {} => hooks[Min(live)] \in Instances /\ Live(hooks[Min(live)])
  <1> DEFINE live == {n \in DOMAIN hooks : Live(hooks[n])}
  <1>1. Len(hooks) \in Nat /\ DOMAIN hooks = 1..Len(hooks) /\ hooks \in Seq(Instances)
    BY LenProperties DEF BooksTyped
  <1>2. live \in SUBSET (1..Len(hooks))
    BY <1>1
  <1>3. ASSUME live # {}
        PROVE  hooks[Min(live)] \in Instances /\ Live(hooks[Min(live)])
    <2>1. Min(live) \in live
      <3> HIDE DEF live
      <3> QED BY <1>1, <1>2, <1>3, MinIs
    <2>2. Min(live) \in 1..Len(hooks) /\ Live(hooks[Min(live)])
      BY <1>2, <2>1
    <2> HIDE DEF live
    <2> QED BY <1>1, <2>2, ElementOfSeq
  <1> QED BY <1>3

LEMMA DeferredImportChain ==
  ASSUME Typed, Unimported, NEW t \in Slots, DeferredImport(t)
  PROVE  /\ ChainStep /\ \A u \in Slots \ {t} : Stays(u)
         /\ t \in Wrapped /\ t \in Mine /\ chain[t] = <<>>
         /\ \/ Stays(t) /\ targets' = targets /\ \A i \in ToSet(hooks) : ~Live(i)
            \/ \E i \in Instances : /\ PushesOurs(t) /\ Live(i)
                                    /\ targets' = [targets EXCEPT ![i] = Append(@, t)]
  <1> DEFINE live == {n \in DOMAIN hooks : Live(hooks[n])}
             first == hooks[Min(live)]
  <1>1. /\ chain' = [chain EXCEPT ![t] = IF live = {} THEN <<>> ELSE <<first>>]
        /\ targets' = IF live = {} THEN targets ELSE [targets EXCEPT ![first] = Append(@, t)]
        /\ foreign' = foreign /\ t \in (Mine \cap Deferred) \ imported
    BY DEF DeferredImport
  <1>2. chain[t] = <<>> /\ t \in Wrapped /\ t \in Mine
    BY <1>1 DEF Unimported, Deferred, Wrapped
  <1>3. live # {} => first \in Instances /\ Live(first)
    BY FirstLive DEF Typed
  <1>4. \A u \in Slots \ {t} : Stays(u)
    BY <1>1 DEF Typed, ChainTyped, Stays
  <1>5. CASE live = {}
    <2>1. chain' = chain
      BY <1>1, <1>2, <1>5 DEF Typed, ChainTyped
    <2>2. ChainStep /\ Stays(t)
      BY <1>1, <2>1, SameChain DEF Typed, Stays
    <2>3. \A i \in ToSet(hooks) : ~Live(i)
      BY <1>5 DEF ToSet
    <2> QED BY <1>1, <1>2, <1>4, <1>5, <2>2, <2>3
  <1>6. CASE live # {}
    <2> HIDE DEF live, first
    <2>1. PICK i \in Instances : i = first /\ Live(i)
      BY <1>3, <1>6
    <2>2. chain' = [chain EXCEPT ![t] = <<i>>] /\ chain'[t] = <<i>>
      BY <1>1, <1>6, <2>1 DEF Typed, ChainTyped
    <2>3. <<i>> \in Seq(Layers) /\ Pushes(<<>>, <<i>>, i)
      BY DEF Pushes, Layers
    <2>4. ~Ours(Outermost(t))
      BY <1>2, OutermostIs, OursAre DEF Typed
    <2>5. PushesOurs(t)
      BY <1>1, <1>2, <2>2, <2>3, <2>4 DEF PushesOurs
    <2>6. ChainStep
      BY <1>1, <2>2, <2>3, <2>5, OneSlot DEF Typed
    <2>7. targets' = [targets EXCEPT ![i] = Append(@, t)]
      BY <1>1, <1>6, <2>1
    <2> QED BY <1>2, <1>4, <2>1, <2>5, <2>6, <2>7
  <1> QED BY <1>5, <1>6

LEMMA NextChain ==
  ASSUME Typed, Unimported, [Next]_vars
  PROVE  ChainStep /\ Unimported'
  <1>1. Typed /\ ChainTyped /\ "factory" \notin Deferred /\ "producer" \notin Deferred
        /\ Deferred \subseteq Slots
    BY DEF Typed, Deferred, Slots
  <1> DEFINE Quiet == chain' = chain /\ foreign' = foreign /\ imported' = imported
  <1>2. ASSUME Quiet
        PROVE  ChainStep /\ Unimported'
    BY <1>1, <1>2, SameChain DEF Unimported
  <1>3. ASSUME ChainStep, imported' = imported, NEW t \in Slots,
               t \notin Deferred \/ t \in imported \/ Stays(t),
               \A u \in Slots \ {t} : Stays(u)
        PROVE  ChainStep /\ Unimported'
    <2>1. \A u \in Deferred \ imported : Stays(u)
      BY <1>1, <1>3
    <2> QED BY <1>3, <2>1 DEF Unimported, Stays
  <1> HIDE DEF Quiet
  <1>4. ASSUME NEW i \in Instances, Instrument(i)
        PROVE  Quiet
    BY <1>4 DEF Instrument, patched, others, Quiet
  <1>5. CASE WrapStep
    <2>1. Next1 \notin Deferred \/ Next1 \in imported
      BY <1>5 DEF WrapStep, Present
    <2>2. imported' = imported
      BY <1>5 DEF WrapStep, others
    <2> QED BY <1>1, <1>3, <1>5, <2>1, <2>2, WrapStepChain
  <1>6. ASSUME WrapFails \/ DeferStep \/ ConnectStep \/ Raise \/ InstallEnds
        PROVE  Quiet
    BY <1>6 DEF WrapFails, DeferStep, ConnectStep, Raise, InstallEnds, patched, others, Quiet
  <1>7. CASE FactoryStep
    <2>1. imported' = imported /\ "factory" \in Slots
      BY <1>7 DEF FactoryStep, others, Slots
    <2> QED BY <1>1, <1>3, <1>7, <2>1, FactoryStepChain
  <1>8. CASE ClassStep
    <2>1. imported' = imported /\ "producer" \in Slots
      BY <1>8 DEF ClassStep, others, Slots
    <2> QED BY <1>1, <1>3, <1>8, <2>1, ClassStepChain
  <1>9. ASSUME Uninstrument \/ RollbackEnds \/ UninstallEnds
        PROVE  Quiet
    BY <1>9 DEF Uninstrument, RollbackEnds, UninstallEnds, patched, others, Quiet
  <1>10. CASE Restore
    <2>1. imported' = imported /\ foreign' = foreign
      BY <1>10 DEF Restore, others
    <2>2. Next1 \in Slots
      BY <1>1, <1>10, RestoreChain
    <2>3. Next1 \in Deferred \ imported => chain' = chain
      <3>1. chain[Next1] = <<>> => ~HasOurs(chain[Next1])
        BY EmptyLayers
      <3> QED BY <1>1, <1>10, <2>2, <3>1, RestoreChain, FirstOursIs DEF Unimported
    <2>4. Next1 \notin Deferred \/ Next1 \in imported \/ Stays(Next1)
      BY <2>1, <2>3 DEF Stays
    <2> QED BY <1>1, <1>3, <1>10, <2>1, <2>2, <2>4, RestoreChain
  <1>11. ASSUME NEW raised \in BOOLEAN, Custom(raised)
         PROVE  ChainStep /\ Unimported'
    <2>1. imported' = imported
      BY <1>11 DEF Custom, others
    <2>2. \A u \in Deferred : Stays(u)
      BY <1>1, <1>11, CustomChain
    <2> QED BY <1>1, <1>11, <2>1, <2>2, CustomChain DEF Unimported, Stays
  <1>12. ASSUME NEW t \in Slots, DeferredImport(t)
         PROVE  ChainStep /\ Unimported'
    <2>1. imported' = imported \cup {t}
      BY <1>12 DEF DeferredImport
    <2>2. ChainStep /\ \A u \in Slots \ {t} : Stays(u)
      BY <1>1, <1>12, DeferredImportChain
    <2> QED BY <1>1, <2>1, <2>2 DEF Unimported, Stays
  <1>13. ASSUME NEW t \in Slots, ForeignUnwrap(t)
         PROVE  ChainStep /\ Unimported'
    <2>1. imported' = imported /\ chain[t] # <<>>
      BY <1>13 DEF ForeignUnwrap
    <2>2. t \notin Deferred \/ t \in imported
      BY <2>1 DEF Unimported
    <2> QED BY <1>1, <1>3, <1>13, <2>1, <2>2, ForeignUnwrapChain
  <1>14. ASSUME NEW t \in Slots, NEW kind \in Foreign, ForeignWrap(t, kind)
         PROVE  ChainStep /\ Unimported'
    <2>1. imported' = imported /\ (t \notin Deferred \/ t \in imported)
      BY <1>14 DEF ForeignWrap, Present
    <2> QED BY <1>1, <1>3, <1>14, <2>1, ForeignWrapChain
  <1>15. ASSUME NEW thread \in Threads, NEW base \in Bases, LookUp(thread, base)
         PROVE  Quiet
    BY <1>15 DEF LookUp, patched, others, Quiet
  <1>16. ASSUME NEW thread \in Threads, Publish(thread)
         PROVE  Quiet
    BY <1>16 DEF Publish, patched, others, Quiet
  <1>17. ASSUME UNCHANGED vars
         PROVE  Quiet
    BY <1>17 DEF vars, patched, others, Quiet
  <1> QED BY <1>2, <1>4, <1>5, <1>6, <1>7, <1>8, <1>9, <1>10, <1>11, <1>12, <1>13, <1>14,
             <1>15, <1>16, <1>17 DEF Next

-----------------------------------------------------------------------------
(* Nothing of ours is on something of ours, and theirs stays in order. *)

LEMMA ApartStays ==
  ASSUME Typed, ChainStep, NEW t \in Slots, Apart(chain[t])
  PROVE  Apart(chain'[t])
  <1>1. /\ chain[t] \in Seq(Layers) /\ foreign[t] \in Seq(Foreign)
        /\ chain'[t] \in Seq(Layers) /\ foreign'[t] \in Seq(Foreign)
    BY DEF Typed, ChainTyped, ChainStep
  <1>2. CASE Stays(t)
    BY <1>2 DEF Stays
  <1>3. CASE PushesOurs(t)
    <2>1. PICK i \in Instances : Pushes(chain[t], chain'[t], i)
      BY <1>3 DEF PushesOurs
    <2>2. Ours(i) /\ (chain[t] = <<>> \/ ~Ours(chain[t][1]))
      BY <1>3, OutermostIs, OursAre DEF PushesOurs, Typed
    <2> QED BY <1>1, <2>1, <2>2, PushOurs
  <1>4. CASE DropsOurs(t)
    BY <1>1, <1>4, FirstOursIs, DropOurs DEF DropsOurs, Typed
  <1>5. CASE Foreigners(t)
    <2>1. CASE \E kind \in Foreign : /\ Pushes(chain[t], chain'[t], kind)
                                     /\ Pushes(foreign[t], foreign'[t], kind)
      BY <1>1, <2>1, PushTheirs, OursAre
    <2>2. CASE /\ chain[t] # <<>> /\ ~Ours(chain[t][1]) /\ Drops(chain[t], chain'[t], 1)
               /\ foreign[t] # <<>> => Drops(foreign[t], foreign'[t], 1)
      BY <1>1, <2>2, DropTheirs
    <2> QED BY <1>5, <2>1, <2>2 DEF Foreigners
  <1>6. CASE IsReset(t)
    BY <1>6, FactoryRestoredIs DEF IsReset, Typed
  <1> QED BY <1>2, <1>3, <1>4, <1>5, <1>6 DEF ChainStep

LEMMA OrderStays ==
  ASSUME Typed, ChainStep, NEW t \in Slots \ {"factory"},
         KeepsInOrder(chain[t], foreign[t])
  PROVE  KeepsInOrder(chain'[t], foreign'[t])
  <1>1. /\ chain[t] \in Seq(Layers) /\ foreign[t] \in Seq(Foreign)
        /\ chain'[t] \in Seq(Layers) /\ foreign'[t] \in Seq(Foreign)
    BY DEF Typed, ChainTyped, ChainStep
  <1>2. CASE Stays(t)
    BY <1>2 DEF Stays
  <1>3. CASE PushesOurs(t)
    <2>1. PICK i \in Instances : Pushes(chain[t], chain'[t], i)
      BY <1>3 DEF PushesOurs
    <2>2. Ours(i) /\ foreign'[t] = foreign[t]
      BY <1>3, OursAre DEF PushesOurs
    <2> QED BY <1>1, <2>1, <2>2, PushOurs
  <1>4. CASE DropsOurs(t)
    BY <1>1, <1>4, FirstOursIs, DropOurs DEF DropsOurs, Typed
  <1>5. CASE Foreigners(t)
    <2>1. CASE \E kind \in Foreign : /\ Pushes(chain[t], chain'[t], kind)
                                     /\ Pushes(foreign[t], foreign'[t], kind)
      BY <1>1, <2>1, PushTheirs, OursAre
    <2>2. CASE /\ chain[t] # <<>> /\ ~Ours(chain[t][1]) /\ Drops(chain[t], chain'[t], 1)
               /\ foreign[t] # <<>> => Drops(foreign[t], foreign'[t], 1)
      BY <1>1, <2>2, DropTheirs
    <2> QED BY <1>5, <2>1, <2>2 DEF Foreigners
  <1>6. ~IsReset(t)
    BY DEF IsReset
  <1> QED BY <1>2, <1>3, <1>4, <1>5, <1>6 DEF ChainStep

-----------------------------------------------------------------------------
(* The rest keeps its type. *)

BooksStep ==
  /\ registry' \in Instances \cup {None} /\ TargetsTyped(targets') /\ WorkTyped(work')
  /\ installing' \subseteq Instances /\ installed' \subseteq Instances
  /\ hooks' \in Seq(Instances)

LEMMA RecordedIs ==
  ASSUME TargetsTyped(targets), NEW i \in Instances, NEW t \in Wrapped, t \in Mine
  PROVE  /\ Append(targets[i], t) \in Seq(Wrapped)
         /\ \A k \in 1..Len(Append(targets[i], t)) :
              Append(targets[i], t)[k] = t \/ In(Append(targets[i], t)[k], targets[i])
         /\ In(t, Append(targets[i], t))
         /\ \A u : In(u, targets[i]) => In(u, Append(targets[i], t))
         /\ TargetsTyped([targets EXCEPT ![i] = Append(targets[i], t)])
  <1> DEFINE s == targets[i]
             r == Append(targets[i], t)
  <1>1. s \in Seq(Wrapped) /\ Len(s) \in Nat
    BY LenProperties DEF TargetsTyped
  <1>2. /\ r \in Seq(Wrapped) /\ Len(r) = Len(s) + 1
        /\ \A k \in 1..Len(s) : r[k] = s[k]
        /\ r[Len(s) + 1] = t
    BY <1>1, AppendProperties
  <1>3. \A k \in 1..Len(s) : s[k] \in Mine
    BY DEF TargetsTyped
  <1> HIDE DEF s, r
  <1>4. \A k \in 1..Len(r) : k = Len(s) + 1 \/ k \in 1..Len(s)
    BY <1>1, <1>2
  <1>5. Len(s) + 1 \in 1..Len(r) /\ \A k \in 1..Len(s) : k \in 1..Len(r)
    BY <1>1, <1>2
  <1>6. /\ \A k \in 1..Len(r) : r[k] = t \/ In(r[k], s)
        /\ In(t, r) /\ \A u : In(u, s) => In(u, r)
    BY <1>2, <1>4, <1>5 DEF In
  <1>7. \A k \in 1..Len(r) : r[k] \in Mine
    BY <1>2, <1>3, <1>4
  <1>8. TargetsTyped([targets EXCEPT ![i] = r])
    BY <1>2, <1>7 DEF TargetsTyped
  <1> QED BY <1>2, <1>6, <1>8 DEF s, r

(* wrap() records the slot, or it is recorded, or it is another instance's *)
(* to undo.                                                                *)
LEMMA WrapStepTargets ==
  ASSUME Typed, WrapStep
  PROVE  /\ TargetsTyped(targets') /\ Top.inst \in Instances /\ Next1 \in Wrapped
         /\ \/ targets' = targets /\ Ours(Outermost(Next1)) /\ Outermost(Next1) # Top.inst
            \/ targets' = targets /\ In(Next1, targets[Top.inst])
            \/ targets' = [targets EXCEPT ![Top.inst] = Append(targets[Top.inst], Next1)]
  <1>1. Top.inst \in Instances /\ Next1 \in Mine
    BY Advances DEF Typed, WrapStep
  <1>2. Next1 \in Wrapped /\ targets' = [targets EXCEPT ![Top.inst] =
            IF (Ours(Outermost(Next1)) /\ Outermost(Next1) # Top.inst)
                 \/ Next1 \in ToSet(targets[Top.inst])
            THEN targets[Top.inst] ELSE Append(targets[Top.inst], Next1)]
    BY DEF WrapStep, Recorded
  <1>3. targets \in [Instances -> Seq(Wrapped)] /\ TargetsTyped(targets)
    BY DEF Typed, BooksTyped, TargetsTyped
  <1>4. DOMAIN targets[Top.inst] = 1..Len(targets[Top.inst])
    BY <1>1, <1>3, LenProperties
  <1>5. Next1 \in ToSet(targets[Top.inst]) => In(Next1, targets[Top.inst])
    BY <1>4 DEF ToSet, In
  <1>6. CASE (Ours(Outermost(Next1)) /\ Outermost(Next1) # Top.inst)
               \/ Next1 \in ToSet(targets[Top.inst])
    <2>1. targets' = targets
      BY <1>1, <1>2, <1>3, <1>6
    <2> QED BY <1>1, <1>2, <1>3, <1>5, <1>6, <2>1
  <1>7. CASE ~((Ours(Outermost(Next1)) /\ Outermost(Next1) # Top.inst)
               \/ Next1 \in ToSet(targets[Top.inst]))
    <2>1. targets' = [targets EXCEPT ![Top.inst] = Append(targets[Top.inst], Next1)]
      BY <1>2, <1>7
    <2>2. TargetsTyped([targets EXCEPT ![Top.inst] = Append(targets[Top.inst], Next1)])
      BY <1>1, <1>2, <1>3, RecordedIs
    <2> QED BY <1>1, <1>2, <2>1, <2>2
  <1> QED BY <1>6, <1>7

(* The targets, last recorded first. *)
LEMMA ReverseIs ==
  ASSUME TargetsTyped(targets), NEW i \in Instances
  PROVE  /\ Reverse(targets[i]) \in Seq(Wrapped)
         /\ \A k \in 1..Len(Reverse(targets[i])) : Reverse(targets[i])[k] \in Mine \cap Wrapped
         /\ \A u : In(u, Reverse(targets[i])) <=> In(u, targets[i])
  <1> DEFINE s == targets[i]
             r == Reverse(targets[i])
  <1>1. /\ s \in Seq(Wrapped) /\ Len(s) \in Nat
        /\ \A k \in 1..Len(s) : s[k] \in Mine \cap Wrapped
    BY LenProperties, ElementOfSeq DEF TargetsTyped
  <1>2. r = [k \in 1..Len(s) |-> s[(Len(s) - k) + 1]]
    BY DEF Reverse
  <1> HIDE DEF s, r
  <1>3. \A k \in 1..Len(s) : /\ (Len(s) - k) + 1 \in 1..Len(s)
                             /\ (Len(s) - ((Len(s) - k) + 1)) + 1 = k
    BY <1>1
  <1>4. r \in [1..Len(s) -> Wrapped]
    BY <1>1, <1>2, <1>3
  <1>5. r \in Seq(Wrapped) /\ Len(r) = Len(s)
    BY <1>1, <1>4
  <1>6. \A k \in 1..Len(s) : r[k] = s[(Len(s) - k) + 1]
    BY <1>2
  <1>7. \A k \in 1..Len(r) : r[k] \in Mine \cap Wrapped
    BY <1>1, <1>3, <1>5, <1>6
  <1>8. ASSUME NEW u
        PROVE  In(u, r) <=> In(u, s)
    <2>1. ASSUME NEW k \in 1..Len(s), s[k] = u
          PROVE  In(u, r)
      <3>1. r[(Len(s) - k) + 1] = u
        BY <1>3, <1>6, <2>1
      <3> QED BY <1>3, <1>5, <3>1 DEF In
    <2>2. ASSUME NEW k \in 1..Len(r), r[k] = u
          PROVE  In(u, s)
      BY <1>3, <1>5, <1>6, <2>2 DEF In
    <2> QED BY <2>1, <2>2 DEF In
  <1> QED BY <1>5, <1>7, <1>8 DEF s, r

LEMMA EmptyTargets ==
  ASSUME TargetsTyped(targets), NEW i \in Instances
  PROVE  TargetsTyped([targets EXCEPT ![i] = <<>>])
  <1>1. <<>> \in Seq(Wrapped) /\ Len(<<>>) = 0
    BY EmptySeq
  <1> QED BY <1>1 DEF TargetsTyped

(* The frame that remains once _uninstrument() is done. *)
RestoringFrame == [Top EXCEPT !.todo = Reverse(targets[Top.inst])]

LEMMA CustomWork ==
  ASSUME Typed, NEW raised \in BOOLEAN, Custom(raised)
  PROVE  /\ work' = Replace(RestoringFrame) /\ RestoringFrame \in FrameType
         /\ FrameIs(RestoringFrame) /\ Top.op # "install" /\ Top \in FrameType
         /\ RestoringFrame.op = Top.op /\ RestoringFrame.inst = Top.inst
         /\ RestoringFrame.todo = Reverse(targets[Top.inst])
         /\ RestoringFrame.todo # <<"custom">>
         /\ ~Idle /\ Top.inst \in Instances /\ WorkTyped(work') /\ TargetsTyped(targets')
  <1>1. ~Idle /\ Top.op # "install" /\ Top.op \in {"rollback", "uninstall"}
    BY DEF Custom, Undoing, Busy
  <1>2. Top \in FrameType /\ Top.inst \in Instances
    BY <1>1, WorkIs DEF Typed, BooksTyped, FrameType
  <1> DEFINE r == Reverse(targets[Top.inst])
  <1>3. /\ r \in Seq(Wrapped) /\ Wrapped \subseteq StepNames
        /\ \A k \in 1..Len(r) : r[k] \in Mine \cap Wrapped
    BY <1>2, ReverseIs DEF Typed, BooksTyped, Wrapped, StepNames, Slots
  <1> HIDE DEF r
  <1>4. r \in Seq(StepNames)
    BY <1>3, SeqMonotonic
  <1>5. RestoringFrame = [Top EXCEPT !.todo = r]
    BY DEF RestoringFrame, r
  <1>6. /\ RestoringFrame \in FrameType /\ RestoringFrame.op = Top.op
        /\ RestoringFrame.inst = Top.inst /\ RestoringFrame.todo = r
    BY <1>2, <1>4, <1>5 DEF FrameType
  <1>7. FrameIs(RestoringFrame)
    BY <1>1, <1>3, <1>6 DEF FrameIs
  <1>8. r # <<"custom">>
    <2> SUFFICES ASSUME r = <<"custom">>
                 PROVE  FALSE
      OBVIOUS
    <2>1. 1 \in 1..Len(r) /\ r[1] = "custom" /\ "custom" \notin Wrapped
      BY CustomIs DEF Wrapped
    <2> QED BY <1>3, <2>1
  <1>9. work' = Replace(RestoringFrame) /\ targets' = [targets EXCEPT ![Top.inst] = <<>>]
    BY DEF Custom, RestoresAfter, RestoringFrame
  <1>10. WorkTyped(work') /\ TargetsTyped(targets')
    BY <1>1, <1>2, <1>6, <1>7, <1>9, WorkIs, EmptyTargets DEF Typed, BooksTyped
  <1> QED BY <1>1, <1>2, <1>6, <1>7, <1>8, <1>9, <1>10 DEF r

(* What Instrument, Raise and Uninstrument start. *)
InstallFrame(i) == [op |-> "install", inst |-> i, todo |-> Steps[focus]]
UndoFrame == [op |-> "uninstall", inst |-> registry, todo |-> <<"custom">>]
RaisedFrame == [Top EXCEPT !.op = "rollback", !.todo = <<"custom">>]

LEMMA NewFrames ==
  ASSUME focus \in Classes, BooksTyped
  PROVE  /\ \A i \in Instances : InstallFrame(i) \in FrameType /\ FrameIs(InstallFrame(i))
         /\ registry # None => UndoFrame \in FrameType /\ FrameIs(UndoFrame)
         /\ ~Idle => RaisedFrame \in FrameType /\ FrameIs(RaisedFrame)
  <1>1. ASSUME NEW i \in Instances
        PROVE  InstallFrame(i) \in FrameType /\ FrameIs(InstallFrame(i))
    <2>1. InstallFrame(i) \in FrameType
      BY StepsAre DEF InstallFrame, FrameType
    <2>2. InstallFrame(i).todo = Steps[focus] /\ InstallFrame(i).op = "install"
      BY DEF InstallFrame
    <2> QED BY <2>1, <2>2, StepsAre DEF FrameIs
  <1>2. ASSUME NEW f, f.op # "install", f.todo = <<"custom">>
        PROVE  FrameIs(f)
    <2>1. \A k \in 1..Len(f.todo) : f.todo[k] = "custom"
      BY <1>2, CustomIs
    <2> QED BY <1>2, <2>1 DEF FrameIs
  <1>3. ASSUME registry # None
        PROVE  UndoFrame \in FrameType /\ FrameIs(UndoFrame)
    <2>1. UndoFrame \in FrameType
      BY <1>3, CustomIs DEF UndoFrame, FrameType, BooksTyped
    <2>2. UndoFrame.op # "install" /\ UndoFrame.todo = <<"custom">>
      BY DEF UndoFrame
    <2> QED BY <1>2, <2>1, <2>2
  <1>4. ASSUME ~Idle
        PROVE  RaisedFrame \in FrameType /\ FrameIs(RaisedFrame)
    <2>1. Top \in FrameType
      BY <1>4, WorkIs DEF BooksTyped
    <2>2. RaisedFrame \in FrameType
      BY <2>1, CustomIs DEF RaisedFrame, FrameType
    <2>3. RaisedFrame.op # "install" /\ RaisedFrame.todo = <<"custom">>
      BY <2>1 DEF RaisedFrame, FrameType
    <2> QED BY <1>2, <2>2, <2>3
  <1> QED BY <1>1, <1>3, <1>4

LEMMA NextBooks ==
  ASSUME Typed, Unimported, [Next]_vars
  PROVE  BooksStep /\ focus' = focus
  <1> USE DEF BooksStep
  <1>1. BooksTyped /\ FlagsTyped /\ focus \in Classes
    BY DEF Typed, FlagsTyped
  <1>2. ASSUME UNCHANGED install, focus' = focus
        PROVE  BooksStep /\ focus' = focus
    BY <1>1, <1>2 DEF install, BooksTyped
  <1>3. ASSUME NEW i \in Instances, Instrument(i)
        PROVE  BooksStep /\ focus' = focus
    <2>1. WorkTyped(Append(work, InstallFrame(i)))
      BY <1>1, NewFrames, WorkGrows DEF BooksTyped
    <2> QED BY <1>1, <1>3, <2>1 DEF Instrument, InstallFrame, BooksTyped
  <1>4. CASE WrapStep
    <2>1. WorkTyped(Advanced)
      BY <1>1, <1>4, Advances DEF WrapStep
    <2> QED BY <1>1, <1>4, <2>1, WrapStepTargets DEF WrapStep, BooksTyped
  <1>5. CASE WrapFails \/ ConnectStep \/ FactoryStep \/ ClassStep
    <2>1. WorkTyped(Advanced)
      BY <1>1, <1>5, Advances DEF WrapFails, ConnectStep, FactoryStep, ClassStep
    <2>2. /\ work' = Advanced
          /\ UNCHANGED <<focus, registry, targets, installing, installed, hooks>>
      BY <1>5 DEF WrapFails, ConnectStep, FactoryStep, ClassStep
    <2> QED BY <1>1, <2>1, <2>2 DEF BooksTyped
  <1>6. CASE DeferStep
    <2>1. WorkTyped(Advanced) /\ Top.inst \in Instances
      BY <1>1, <1>6, Advances DEF DeferStep
    <2>2. hooks' \in Seq(Instances)
      BY <1>1, <1>6, <2>1, AppendProperties DEF DeferStep, BooksTyped
    <2>3. /\ work' = Advanced
          /\ UNCHANGED <<focus, registry, targets, installing, installed>>
      BY <1>6 DEF DeferStep
    <2> QED BY <1>1, <2>1, <2>2, <2>3 DEF BooksTyped
  <1>7. CASE Raise
    <2>1. ~Idle /\ work' = Replace(RaisedFrame)
      BY <1>7 DEF Raise, Busy, RaisedFrame
    <2>2. WorkTyped(work')
      BY <1>1, <2>1, NewFrames, WorkIs DEF BooksTyped
    <2> QED BY <1>1, <1>7, <2>2 DEF Raise, BooksTyped
  <1>8. CASE InstallEnds \/ RollbackEnds \/ UninstallEnds
    <2>1. ~Idle
      BY <1>8 DEF InstallEnds, RollbackEnds, UninstallEnds, Busy
    <2>2. WorkTyped(Popped) /\ Top.inst \in Instances
      BY <1>1, <2>1, WorkIs DEF BooksTyped, FrameType
    <2>3. /\ work' = Popped /\ UNCHANGED <<focus, targets, hooks>>
          /\ registry' \in {Top.inst, registry, None}
          /\ installing' \subseteq installing /\ installed' \subseteq installed \cup {Top.inst}
      BY <1>8 DEF InstallEnds, RollbackEnds, UninstallEnds
    <2> QED BY <1>1, <2>2, <2>3 DEF BooksTyped
  <1>9. CASE Uninstrument
    <2>1. work' = <<UndoFrame>> /\ registry # None
      BY <1>9 DEF Uninstrument, UndoFrame
    <2>2. WorkTyped(work')
      BY <1>1, <2>1, NewFrames, WorkGrows DEF BooksTyped
    <2> QED BY <1>1, <1>9, <2>2 DEF Uninstrument, BooksTyped
  <1>10. CASE Restore
    <2>1. WorkTyped(Advanced)
      BY <1>1, <1>10, Advances DEF Restore
    <2> QED BY <1>1, <1>10, <2>1 DEF Restore, BooksTyped
  <1>11. ASSUME NEW raised \in BOOLEAN, Custom(raised)
         PROVE  BooksStep /\ focus' = focus
    BY <1>1, <1>11, CustomWork DEF Custom, BooksTyped
  <1>12. ASSUME NEW t \in Slots, DeferredImport(t)
         PROVE  BooksStep /\ focus' = focus
    <2>1. /\ t \in Wrapped /\ t \in Mine
          /\ \/ targets' = targets
             \/ \E i \in Instances : targets' = [targets EXCEPT ![i] = Append(@, t)]
      BY <1>12, DeferredImportChain
    <2>2. TargetsTyped(targets')
      BY <1>1, <2>1, RecordedIs DEF BooksTyped
    <2> QED BY <1>1, <1>12, <2>2 DEF DeferredImport, BooksTyped
  <1>13. ASSUME NEW t \in Slots, ForeignUnwrap(t)
         PROVE  BooksStep /\ focus' = focus
    BY <1>2, <1>13 DEF ForeignUnwrap
  <1>14. ASSUME NEW t \in Slots, NEW kind \in Foreign, ForeignWrap(t, kind)
         PROVE  BooksStep /\ focus' = focus
    BY <1>2, <1>14 DEF ForeignWrap
  <1>15. ASSUME NEW thread \in Threads, NEW base \in Bases, LookUp(thread, base)
         PROVE  BooksStep /\ focus' = focus
    BY <1>2, <1>15 DEF LookUp
  <1>16. ASSUME NEW thread \in Threads, Publish(thread)
         PROVE  BooksStep /\ focus' = focus
    BY <1>2, <1>16 DEF Publish
  <1>17. CASE UNCHANGED vars
    BY <1>2, <1>17 DEF vars
  <1> QED BY <1>3, <1>4, <1>5, <1>6, <1>7, <1>8, <1>9, <1>10, <1>11, <1>12, <1>13, <1>14,
             <1>15, <1>16, <1>17 DEF Next

LEMMA WhoConnects ==
  ASSUME [Next]_vars
  PROVE  \/ UNCHANGED cursors
         \/ \E thread \in Threads, base \in Bases : LookUp(thread, base)
         \/ \E thread \in Threads : Publish(thread)
  <1>1. CASE \E i \in Instances : Instrument(i)
    BY <1>1 DEF Instrument
  <1>2. CASE WrapStep \/ WrapFails \/ DeferStep \/ ConnectStep \/ FactoryStep \/ ClassStep
    BY <1>2 DEF WrapStep, WrapFails, DeferStep, ConnectStep, FactoryStep, ClassStep
  <1>3. CASE Raise \/ InstallEnds \/ Uninstrument \/ Restore \/ RollbackEnds \/ UninstallEnds
    BY <1>3 DEF Raise, InstallEnds, Uninstrument, Restore, RollbackEnds, UninstallEnds
  <1>4. CASE \E raised \in BOOLEAN : Custom(raised)
    BY <1>4 DEF Custom
  <1>5. CASE \E t \in Slots : DeferredImport(t) \/ ForeignUnwrap(t)
    BY <1>5 DEF DeferredImport, ForeignUnwrap
  <1>6. CASE \E t \in Slots, kind \in Foreign : ForeignWrap(t, kind)
    BY <1>6 DEF ForeignWrap
  <1>7. CASE UNCHANGED vars
    BY <1>7 DEF vars
  <1> QED BY <1>1, <1>2, <1>3, <1>4, <1>5, <1>6, <1>7 DEF Next

LEMMA PublishedIs ==
  ASSUME CursorsTyped, NEW thread \in Threads, NEW base \in Bases
  PROVE  /\ DOMAIN Published(base, thread) = DOMAIN cache \cup {base}
         /\ \A b \in DOMAIN cache : Published(base, thread)[b] = cache[b]
         /\ base \notin DOMAIN cache => Published(base, thread)[base] = thread
  BY DEF Published

LEMMA PublishCursors ==
  ASSUME CursorsTyped, NEW thread \in Threads, Publish(thread)
  PROVE  /\ CursorsTyped' /\ connecting[thread] \in Bases
         /\ LET base == connecting[thread]
            IN \/ /\ Cardinality(DOMAIN cache) >= MaxCache /\ cache' = cache
               \/ /\ ~(Cardinality(DOMAIN cache) >= MaxCache)
                  /\ DOMAIN cache' = DOMAIN cache \cup {base}
                  /\ \A b \in DOMAIN cache : cache'[b] = cache[b]
                  /\ given' = given \cup {<<base, cache'[base]>>}
  <1> DEFINE base == connecting[thread]
             full == Cardinality(DOMAIN cache) >= MaxCache
  <1>1. /\ base # None /\ connecting' = [connecting EXCEPT ![thread] = None]
        /\ cache' = IF full THEN cache ELSE Published(base, thread)
        /\ given' = given \cup {<<base, IF full THEN thread
                                        ELSE (IF full THEN cache
                                              ELSE Published(base, thread))[base]>>}
    BY DEF Publish
  <1>2. base \in Bases
    BY <1>1 DEF CursorsTyped
  <1> HIDE DEF base, full
  <1>3. connecting' \in [Threads -> Bases \cup {None}]
    BY <1>1 DEF CursorsTyped
  <1>4. CASE full
    <2>1. cache' = cache /\ given' = given \cup {<<base, thread>>}
      BY <1>1, <1>4
    <2>2. given' \subseteq Bases \X Threads
      BY <1>2, <2>1 DEF CursorsTyped
    <2> QED BY <1>2, <1>3, <1>4, <2>1, <2>2 DEF CursorsTyped, full, base
  <1>5. CASE ~full
    <2>1. cache' = Published(base, thread) /\ given' = given \cup {<<base, cache'[base]>>}
      BY <1>1, <1>5
    <2>2. /\ DOMAIN cache' = DOMAIN cache \cup {base}
          /\ \A b \in DOMAIN cache : cache'[b] = cache[b]
          /\ base \notin DOMAIN cache => cache'[base] = thread
      BY <1>2, <2>1, PublishedIs
    <2>3. \A b \in DOMAIN cache' : cache'[b] \in Threads
      BY <2>2 DEF CursorsTyped
    <2>4. given' \subseteq Bases \X Threads
      <3>1. cache'[base] \in Threads
        BY <2>2, <2>3
      <3> QED BY <1>2, <2>1, <3>1 DEF CursorsTyped
    <2> QED BY <1>2, <1>3, <1>5, <2>1, <2>2, <2>3, <2>4 DEF CursorsTyped, full, base
  <1> QED BY <1>4, <1>5

LEMMA NextTyped ==
  ASSUME Typed, Unimported, [Next]_vars
  PROVE  Typed' /\ Unimported'
  <1>1. ChainStep /\ Unimported' /\ BooksStep /\ focus' = focus
    BY NextChain, NextBooks
  <1>2. ChainTyped'
    BY <1>1 DEF ChainStep
  <1>3. BooksTyped'
    <2>1. Mine' = Mine
      BY <1>1 DEF Mine
    <2>2. TargetsTyped(targets)' /\ WorkTyped(work)'
      BY <1>1, <2>1 DEF BooksStep, TargetsTyped, WorkTyped, FrameIs
    <2> QED BY <1>1, <2>2 DEF BooksStep, BooksTyped
  <1>4. FlagsTyped'
    <2> DEFINE Keeps == /\ imported' \subseteq Deferred /\ stranded' \subseteq Slots
                        /\ listening' \in BOOLEAN /\ guard' \in BOOLEAN
                        /\ reentered' \in BOOLEAN
    <2>1. FlagsTyped
      BY DEF Typed
    <2>2. ASSUME NEW i \in Instances, Instrument(i)
          PROVE  Keeps
      BY <2>1, <2>2 DEF Instrument, patched, others, FlagsTyped
    <2>3. ASSUME WrapStep \/ WrapFails \/ DeferStep \/ ConnectStep \/ FactoryStep \/ ClassStep
          PROVE  Keeps
      <3>1. GuardAfterInstall \in BOOLEAN
        BY <2>1 DEF GuardAfterInstall, FlagsTyped
      <3> QED BY <2>1, <2>3, <3>1 DEF WrapStep, WrapFails, DeferStep, ConnectStep,
                  FactoryStep, ClassStep, patched, others, FlagsTyped
    <2>4. ASSUME Raise \/ InstallEnds \/ Uninstrument \/ RollbackEnds \/ UninstallEnds
          PROVE  Keeps
      BY <2>1, <2>4 DEF Raise, InstallEnds, Uninstrument, RollbackEnds, UninstallEnds,
           patched, others, FlagsTyped
    <2>5. ASSUME Restore
          PROVE  Keeps
      BY <2>1, <2>5 DEF Restore, others, FlagsTyped, Wrapped, Slots
    <2>6. ASSUME NEW raised \in BOOLEAN, Custom(raised)
          PROVE  Keeps
      BY <2>1, <2>6 DEF Custom, others, FlagsTyped, Slots
    <2>7. ASSUME NEW t \in Slots, DeferredImport(t)
          PROVE  Keeps
      BY <2>1, <2>7 DEF DeferredImport, FlagsTyped
    <2>8. ASSUME NEW t \in Slots, ForeignUnwrap(t)
          PROVE  Keeps
      BY <2>1, <2>8 DEF ForeignUnwrap, FlagsTyped
    <2>9. ASSUME NEW t \in Slots, NEW kind \in Foreign, ForeignWrap(t, kind)
          PROVE  Keeps
      BY <2>1, <2>9 DEF ForeignWrap, FlagsTyped
    <2>10. ASSUME NEW thread \in Threads, NEW base \in Bases, LookUp(thread, base)
           PROVE  Keeps
      BY <2>1, <2>10 DEF LookUp, patched, others, FlagsTyped
    <2>11. ASSUME NEW thread \in Threads, Publish(thread)
           PROVE  Keeps
      BY <2>1, <2>11 DEF Publish, patched, others, FlagsTyped
    <2>12. ASSUME UNCHANGED vars
           PROVE  Keeps
      BY <2>1, <2>12 DEF vars, patched, others, FlagsTyped
    <2> HIDE DEF Keeps
    <2>13. Keeps
      BY <2>2, <2>3, <2>4, <2>5, <2>6, <2>7, <2>8, <2>9, <2>10, <2>11, <2>12 DEF Next
    <2> QED BY <1>1, <2>1, <2>13 DEF FlagsTyped, Keeps
  <1>5. CursorsTyped'
    <2>1. CursorsTyped
      BY DEF Typed
    <2>2. ASSUME UNCHANGED cursors
          PROVE  CursorsTyped'
      BY <2>1, <2>2 DEF cursors, CursorsTyped
    <2>3. ASSUME NEW thread \in Threads, NEW base \in Bases, LookUp(thread, base)
          PROVE  CursorsTyped'
      <3>1. CASE base \in DOMAIN cache
        BY <2>1, <2>3, <3>1 DEF LookUp, CursorsTyped
      <3>2. CASE base \notin DOMAIN cache
        BY <2>1, <2>3, <3>2 DEF LookUp, CursorsTyped
      <3> QED BY <3>1, <3>2
    <2>4. \/ UNCHANGED cursors
          \/ \E thread \in Threads, base \in Bases : LookUp(thread, base)
          \/ \E thread \in Threads : Publish(thread)
      BY WhoConnects
    <2> QED BY <2>1, <2>2, <2>3, <2>4, PublishCursors
  <1> QED BY <1>1, <1>2, <1>3, <1>4, <1>5 DEF Typed

-----------------------------------------------------------------------------
(* Layers, records and classes. *)

(* The factory can come to call itself only when two of ours are on it. *)
Guarded == OnlyOne(chain["factory"]) \/ guard

LEMMA GuardedStays ==
  ASSUME Typed, Unimported, [Next]_vars, Guarded
  PROVE  Guarded'
  <1>1. ChainTyped /\ "factory" \in Slots /\ "factory" \notin Wrapped
    BY DEF Typed, Slots, Wrapped
  <1>2. /\ ChainStep /\ chain["factory"] \in Seq(Layers) /\ foreign["factory"] \in Seq(Foreign)
        /\ chain'["factory"] \in Seq(Layers) /\ foreign'["factory"] \in Seq(Foreign)
    BY <1>1, NextChain DEF ChainTyped, ChainStep
  <1>3. ASSUME Stays("factory"), guard' = guard
        PROVE  Guarded'
    BY <1>3 DEF Guarded, Stays
  <1>4. ASSUME Foreigners("factory"), guard' = guard
        PROVE  Guarded'
    <2>1. CASE \E kind \in Foreign : /\ Pushes(chain["factory"], chain'["factory"], kind)
                                     /\ Pushes(foreign["factory"], foreign'["factory"], kind)
      <3>1. OnlyOne(chain["factory"]) => OnlyOne(chain'["factory"])
        BY <1>2, <2>1, PushTheirs, OursAre
      <3> QED BY <1>4, <3>1 DEF Guarded
    <2>2. CASE /\ chain["factory"] # <<>> /\ ~Ours(chain["factory"][1])
               /\ Drops(chain["factory"], chain'["factory"], 1)
               /\ foreign["factory"] # <<>> => Drops(foreign["factory"], foreign'["factory"], 1)
      <3>1. OnlyOne(chain["factory"]) => OnlyOne(chain'["factory"])
        BY <1>2, <2>2, DropTheirs
      <3> QED BY <1>4, <3>1 DEF Guarded
    <2> QED BY <1>4, <2>1, <2>2 DEF Foreigners
  <1>5. ASSUME NEW i \in Instances, Instrument(i)
        PROVE  Guarded'
    BY <1>3, <1>5 DEF Instrument, patched, others, Stays
  <1>6. CASE WrapStep
    <2>1. Next1 # "factory" /\ guard' = guard
      BY <1>1, <1>6 DEF WrapStep
    <2> QED BY <1>1, <1>3, <1>6, <2>1, WrapStepChain
  <1>7. CASE WrapFails \/ DeferStep \/ ConnectStep \/ Raise \/ InstallEnds
    <2>1. Stays("factory") /\ guard' = guard
      BY <1>7 DEF WrapFails, DeferStep, ConnectStep, Raise, InstallEnds, patched, others,
                  Stays
    <2> QED BY <1>3, <2>1
  <1>8. CASE FactoryStep
    <2>1. CASE Ours(Outermost("factory"))
      <3>1. chain' = chain /\ guard' = guard
        BY <1>8, <2>1, FactoryStepChain DEF FactoryStep, GuardAfterInstall
      <3> QED BY <3>1 DEF Guarded
    <2>2. CASE ~Ours(Outermost("factory")) /\ chain["factory"] # <<>>
      BY <1>8, <2>2 DEF FactoryStep, GuardAfterInstall, Guarded
    <2>3. CASE ~Ours(Outermost("factory")) /\ chain["factory"] = <<>>
      <3>1. PICK i \in Instances : Pushes(chain["factory"], chain'["factory"], i)
        BY <1>8, <2>3, FactoryStepChain DEF PushesOurs
      <3>2. Ours(i) /\ ~HasOurs(chain["factory"])
        BY <2>3, OursAre, EmptyLayers
      <3>3. OnlyOne(chain'["factory"])
        BY <1>2, <3>1, <3>2, PushOurs
      <3> QED BY <3>3 DEF Guarded
    <2> QED BY <2>1, <2>2, <2>3
  <1>9. CASE ClassStep
    <2>1. guard' = guard
      BY <1>9 DEF ClassStep
    <2> QED BY <1>1, <1>3, <1>9, <2>1, ClassStepChain
  <1>10. CASE Uninstrument \/ RollbackEnds \/ UninstallEnds
    <2>1. Stays("factory") /\ guard' = guard
      BY <1>10 DEF Uninstrument, RollbackEnds, UninstallEnds, patched, others, Stays
    <2> QED BY <1>3, <2>1
  <1>11. CASE Restore
    <2>1. Next1 # "factory" /\ guard' = guard
      BY <1>1, <1>11 DEF Restore
    <2> QED BY <1>1, <1>3, <1>11, <2>1, RestoreChain
  <1>12. ASSUME NEW raised \in BOOLEAN, Custom(raised)
         PROVE  Guarded'
    <2>1. chain'["factory"] = FactoryRestored /\ OnlyOne(FactoryRestored)
      BY <1>1, <1>12, CustomChain, FactoryRestoredIs
    <2> QED BY <2>1 DEF Guarded
  <1>13. ASSUME NEW t \in Slots, DeferredImport(t)
         PROVE  Guarded'
    <2>1. guard' = guard /\ t # "factory"
      BY <1>1, <1>13, DeferredImportChain DEF DeferredImport
    <2> QED BY <1>1, <1>3, <1>13, <2>1, DeferredImportChain
  <1>14. ASSUME NEW t \in Slots, ForeignUnwrap(t)
         PROVE  Guarded'
    <2>1. guard' = guard /\ (t = "factory" => Foreigners("factory"))
          /\ (t # "factory" => Stays("factory"))
      BY <1>1, <1>14, ForeignUnwrapChain DEF ForeignUnwrap
    <2> QED BY <1>3, <1>4, <2>1
  <1>15. ASSUME NEW t \in Slots, NEW kind \in Foreign, ForeignWrap(t, kind)
         PROVE  Guarded'
    <2>1. guard' = guard /\ (t = "factory" => Foreigners("factory"))
          /\ (t # "factory" => Stays("factory"))
      BY <1>1, <1>15, ForeignWrapChain DEF ForeignWrap
    <2> QED BY <1>3, <1>4, <2>1
  <1>16. ASSUME NEW thread \in Threads, NEW base \in Bases, LookUp(thread, base)
         PROVE  Guarded'
    BY <1>3, <1>16 DEF LookUp, patched, others, Stays
  <1>17. ASSUME NEW thread \in Threads, Publish(thread)
         PROVE  Guarded'
    BY <1>3, <1>17 DEF Publish, patched, others, Stays
  <1>18. CASE UNCHANGED vars
    BY <1>3, <1>18 DEF vars, patched, others, Stays
  <1> QED BY <1>5, <1>6, <1>7, <1>8, <1>9, <1>10, <1>11, <1>12, <1>13, <1>14, <1>15, <1>16,
             <1>17, <1>18 DEF Next

(* What connections got of a class is what the cache holds, as long as     *)
(* everything published fits in it.                                        *)
OneClass ==
  /\ IsFiniteSet(DOMAIN cache)
  /\ Cardinality(DOMAIN cache) < MaxCache =>
       \A x \in given : x[1] \in DOMAIN cache /\ x[2] = cache[x[1]]

LEMMA OneClassStays ==
  ASSUME Typed, [Next]_vars, OneClass
  PROVE  OneClass'
  <1>1. CursorsTyped /\ MaxCache \in Nat /\ Cardinality(DOMAIN cache) \in Nat
    BY InstrumentationAssumption, FS_CardinalityType DEF Typed, OneClass
  <1>2. ASSUME UNCHANGED <<cache, given>>
        PROVE  OneClass'
    BY <1>2 DEF OneClass
  <1>3. ASSUME NEW thread \in Threads, NEW base \in Bases, LookUp(thread, base)
        PROVE  OneClass'
    <2>1. /\ cache' = cache
          /\ \/ given' = given
             \/ base \in DOMAIN cache /\ given' = given \cup {<<base, cache[base]>>}
      BY <1>3 DEF LookUp
    <2>2. \A x \in given' : x \in given \/ (base \in DOMAIN cache /\ x[1] = base
                                            /\ x[2] = cache[base])
      BY <2>1
    <2> QED BY <2>1, <2>2 DEF OneClass
  <1>4. ASSUME NEW thread \in Threads, Publish(thread)
        PROVE  OneClass'
    <2>1. CursorsTyped' /\ connecting[thread] \in Bases
      BY <1>1, <1>4, PublishCursors
    <2>2. PICK base \in Bases : base = connecting[thread]
      BY <2>1
    <2>3. CASE Cardinality(DOMAIN cache) >= MaxCache /\ cache' = cache
      BY <1>1, <2>3 DEF OneClass
    <2>4. CASE /\ ~(Cardinality(DOMAIN cache) >= MaxCache)
               /\ DOMAIN cache' = DOMAIN cache \cup {base}
               /\ \A b \in DOMAIN cache : cache'[b] = cache[b]
               /\ given' = given \cup {<<base, cache'[base]>>}
      <3>1. IsFiniteSet(DOMAIN cache')
        BY <2>4, FS_AddElement DEF OneClass
      <3>2. \A x \in given : x[1] \in DOMAIN cache /\ x[2] = cache[x[1]]
        BY <1>1, <2>4 DEF OneClass
      <3>3. ASSUME NEW x \in given'
            PROVE  x[1] \in DOMAIN cache' /\ x[2] = cache'[x[1]]
        <4>1. CASE x \in given
          BY <2>4, <3>2, <4>1
        <4>2. CASE x = <<base, cache'[base]>>
          BY <2>4, <4>2
        <4> QED BY <2>4, <4>1, <4>2
      <3> QED BY <3>1, <3>3 DEF OneClass
    <2> QED BY <1>1, <1>4, <2>2, <2>3, <2>4, PublishCursors
  <1>5. \/ UNCHANGED cursors
        \/ \E thread \in Threads, base \in Bases : LookUp(thread, base)
        \/ \E thread \in Threads : Publish(thread)
    BY WhoConnects
  <1> QED BY <1>2, <1>3, <1>4, <1>5 DEF cursors

LayersInv ==
  /\ Typed /\ Unimported /\ Guarded /\ OneClass
  /\ \A t \in Slots : Apart(chain[t])
  /\ ForeignLayersKept

LEMMA InitLayers == Init => LayersInv
  <1> SUFFICES ASSUME Init
               PROVE  LayersInv
    OBVIOUS
  <1>1. \A t \in Slots : chain[t] = <<>> /\ foreign[t] = <<>>
    BY DEF Init
  <1>2. <<>> \in Seq(Layers) /\ <<>> \in Seq(Foreign) /\ <<>> \in Seq(Instances)
        /\ <<>> \in Seq(Wrapped) /\ <<>> \in Seq(FrameType) /\ Len(<<>>) = 0
    BY EmptySeq
  <1>3. ChainTyped
    BY <1>2 DEF Init, ChainTyped
  <1>4. BooksTyped
    BY <1>2 DEF Init, BooksTyped, TargetsTyped, WorkTyped
  <1>5. FlagsTyped
    BY DEF Init, FlagsTyped
  <1>6. DOMAIN cache = {}
    BY DEF Init
  <1>7. CursorsTyped
    BY <1>6 DEF Init, CursorsTyped
  <1>8. Unimported
    BY <1>1 DEF Unimported, Deferred, Slots
  <1>9. Guarded
    BY <1>1, EmptyLayers DEF Guarded, Slots
  <1>10. OneClass
    BY <1>6, FS_EmptySet DEF Init, OneClass
  <1>11. \A t \in Slots : Apart(chain[t])
    BY <1>1, EmptyLayers
  <1>12. ForeignLayersKept
    BY <1>1, EmptyLayers DEF ForeignLayersKept
  <1> QED BY <1>3, <1>4, <1>5, <1>7, <1>8, <1>9, <1>10, <1>11, <1>12 DEF LayersInv, Typed

LEMMA NextLayers == LayersInv /\ [Next]_vars => LayersInv'
  <1> SUFFICES ASSUME LayersInv, [Next]_vars
               PROVE  LayersInv'
    OBVIOUS
  <1>1. Typed /\ Unimported /\ Guarded /\ OneClass
    BY DEF LayersInv
  <1>2. Typed' /\ Unimported' /\ Guarded' /\ OneClass' /\ ChainStep
    BY <1>1, NextTyped, GuardedStays, OneClassStays, NextChain
  <1>3. \A t \in Slots : Apart(chain'[t])
    BY <1>1, <1>2, ApartStays DEF LayersInv
  <1>4. ForeignLayersKept'
    BY <1>1, <1>2, OrderStays DEF LayersInv, ForeignLayersKept
  <1> QED BY <1>2, <1>3, <1>4 DEF LayersInv

-----------------------------------------------------------------------------
(* Where ours are, as far as instrument() was not called inside itself. *)

Cleared(f) == f.op # "install" /\ f.todo # <<"custom">>

(* A slot of ours that an installation has yet to undo. *)
WrittenDown(f, t) == /\ Cleared(f) => In(t, f.todo)
                     /\ ~Cleared(f) /\ t \in Wrapped => In(t, targets[f.inst])

(* An instance installs itself, or is being undone. *)
Working(f) ==
  /\ work = <<f>>
  /\ registry = (IF f.op = "uninstall" THEN f.inst ELSE None)
  /\ installing = (IF f.op = "uninstall" THEN {} ELSE {f.inst})
  /\ installed = (IF f.op = "uninstall" THEN {f.inst} ELSE {})
  /\ \A i \in Instances : i # f.inst \/ Cleared(f) => targets[i] = <<>>
  /\ \A t \in Slots : In(t, targets[f.inst]) => HasOurs(chain[t])
  /\ \A t \in Slots \ stranded : OnlyOne(chain[t])
  /\ \A t \in Slots \ stranded : HasOurs(chain[t]) => WrittenDown(f, t)
  /\ f.op = "install" => \A t \in Slots \ stranded : In(t, f.todo) => ~HasOurs(chain[t])

(* Nothing is in progress: what the registry says is so. *)
Resting ==
  /\ work = <<>> /\ installing = {}
  /\ installed = (IF registry = None THEN {} ELSE {registry})
  /\ \A i \in Instances : i # registry => targets[i] = <<>>
  /\ \A t \in Slots \ stranded : OnlyOne(chain[t])
  /\ registry = None => \A t \in Slots \ stranded : ~HasOurs(chain[t])
  /\ registry # None =>
       /\ \A t \in Slots : In(t, targets[registry]) => HasOurs(chain[t])
       /\ \A t \in Slots \ stranded :
            HasOurs(chain[t]) /\ t \in Wrapped => In(t, targets[registry])

Shown == reentered \/ Resting \/ \E f \in FrameType : Working(f)

LEMMA OneFrame ==
  ASSUME NEW f, work = <<f>>
  PROVE  /\ Top = f /\ ~Idle /\ Popped = <<>>
         /\ \A g : Replace(g) = <<g>>
  <1>1. Len(work) = 1 /\ work[1] = f /\ work # <<>>
    OBVIOUS
  <1>2. Popped = SubSeq(work, 1, 0)
    BY <1>1 DEF Popped, Front
  <1>3. \A g : [work EXCEPT ![1] = g] = <<g>>
    OBVIOUS
  <1> QED BY <1>1, <1>2, <1>3, SubSeqEmpty DEF Top, Idle, Replace

LEMMA InNothing == \A x : ~In(x, <<>>)
  BY DEF In

LEMMA WrappedSlots == Slots = Wrapped \cup {"factory", "producer"}
  BY DEF Slots, Wrapped

LEMMA NowWorking ==
  ASSUME Typed, Shown, ~reentered, ~Idle
  PROVE  /\ Working(Top) /\ work = <<Top>> /\ Top \in FrameType /\ FrameIs(Top)
         /\ Popped = <<>> /\ \A g : Replace(g) = <<g>>
  <1>1. PICK f \in FrameType : Working(f)
    BY DEF Shown, Resting, Idle
  <1>2. work = <<f>>
    BY <1>1 DEF Working
  <1>3. Top = f
    BY <1>2, OneFrame
  <1> QED BY <1>1, <1>2, <1>3, OneFrame, WorkIs DEF Typed, BooksTyped

LEMMA NowResting ==
  ASSUME Shown, ~reentered, Idle
  PROVE  Resting
  <1>1. ASSUME NEW f \in FrameType, Working(f)
        PROVE  FALSE
    <2>1. work = <<f>>
      BY <1>1 DEF Working
    <2> QED BY <2>1, OneFrame
  <1> QED BY <1>1 DEF Shown

(* As far as Resting and Working can tell, the slots are as they were. *)
SlotsAlike ==
  \A t \in Slots : /\ HasOurs(chain'[t]) <=> HasOurs(chain[t])
                   /\ OnlyOne(chain[t]) => OnlyOne(chain'[t])

LEMMA AlikeStays ==
  ASSUME Shown, SlotsAlike, UNCHANGED <<install, stranded, reentered>>
  PROVE  Shown'
  <1>1. CASE reentered
    BY <1>1 DEF Shown
  <1>2. CASE Resting
    BY <1>2 DEF Shown, Resting, SlotsAlike, install
  <1>3. ASSUME NEW f \in FrameType, Working(f)
        PROVE  Shown'
    <2>1. Working(f)'
      BY <1>3 DEF Working, WrittenDown, SlotsAlike, install
    <2> QED BY <2>1 DEF Shown
  <1> QED BY <1>1, <1>2, <1>3 DEF Shown

LEMMA ForeignersAlike ==
  ASSUME Typed, ChainStep, NEW t \in Slots, Foreigners(t), \A u \in Slots \ {t} : Stays(u)
  PROVE  SlotsAlike
  <1>1. /\ chain[t] \in Seq(Layers) /\ foreign[t] \in Seq(Foreign)
        /\ chain'[t] \in Seq(Layers) /\ foreign'[t] \in Seq(Foreign)
    BY DEF Typed, ChainTyped, ChainStep
  <1>2. /\ HasOurs(chain'[t]) <=> HasOurs(chain[t])
        /\ OnlyOne(chain[t]) => OnlyOne(chain'[t])
    <2>1. CASE \E kind \in Foreign : /\ Pushes(chain[t], chain'[t], kind)
                                     /\ Pushes(foreign[t], foreign'[t], kind)
      BY <1>1, <2>1, PushTheirs, OursAre
    <2>2. CASE /\ chain[t] # <<>> /\ ~Ours(chain[t][1]) /\ Drops(chain[t], chain'[t], 1)
               /\ foreign[t] # <<>> => Drops(foreign[t], foreign'[t], 1)
      BY <1>1, <2>2, DropTheirs
    <2> QED BY <2>1, <2>2 DEF Foreigners
  <1> QED BY <1>2 DEF SlotsAlike, Stays

(* A slot where one of ours was put, or from which one was taken. *)
LEMMA PushedSlot ==
  ASSUME Typed, ChainStep, NEW t \in Slots, PushesOurs(t)
  PROVE  HasOurs(chain'[t]) /\ (~HasOurs(chain[t]) => OnlyOne(chain'[t]))
  <1>1. chain[t] \in Seq(Layers) /\ chain'[t] \in Seq(Layers) /\ foreign[t] \in Seq(Foreign)
    BY DEF Typed, ChainTyped, ChainStep
  <1>2. PICK i \in Instances : Pushes(chain[t], chain'[t], i)
    BY DEF PushesOurs
  <1>3. Ours(i)
    BY OursAre
  <1> QED BY <1>1, <1>2, <1>3, PushOurs

LEMMA DroppedSlot ==
  ASSUME Typed, ChainStep, NEW t \in Slots, DropsOurs(t)
  PROVE  OnlyOne(chain[t]) => ~HasOurs(chain'[t]) /\ OnlyOne(chain'[t])
  <1>1. chain[t] \in Seq(Layers) /\ chain'[t] \in Seq(Layers) /\ foreign[t] \in Seq(Foreign)
    BY DEF Typed, ChainTyped, ChainStep
  <1> QED BY <1>1, FirstOursIs, DropOurs DEF DropsOurs, Typed

LEMMA NothingThere == \A s : ~HasOurs(s) => OnlyOne(s)
  BY DEF HasOurs, OnlyOne

-----------------------------------------------------------------------------
(* What is left of a list once its first step is taken. *)
RestFrame == [Top EXCEPT !.todo = Tail(@)]

LEMMA RestIs ==
  ASSUME Typed, Busy("install") \/ Undoing, Top.todo # <<>>,
         Busy("install") \/ Next1 \in Wrapped, Top \in FrameType, FrameIs(Top)
  PROVE  /\ RestFrame \in FrameType /\ RestFrame.op = Top.op /\ RestFrame.inst = Top.inst
         /\ Cleared(RestFrame) <=> Cleared(Top)
         /\ \A u : In(u, RestFrame.todo) => In(u, Top.todo)
         /\ \A u : In(u, Top.todo) => u = Next1 \/ In(u, RestFrame.todo)
         /\ Top.op = "install" => ~In(Next1, RestFrame.todo)
         /\ In(Next1, Top.todo) /\ Next1 = Top.todo[1]
  <1> DEFINE s == Top.todo
             r == Tail(Top.todo)
  <1>1. focus \in Classes /\ (Top.op = "install" \/ Head(Top.todo) \in Wrapped)
    BY DEF Typed, FlagsTyped, Busy, Next1
  <1>2. /\ Head(s) = s[1] /\ 1 \in 1..Len(s)
        /\ RestFrame \in FrameType
        /\ Top.op # "install" => s # <<"custom">> /\ r # <<"custom">>
        /\ Drops(s, r, 1) /\ s \in Seq(StepNames) /\ r \in Seq(StepNames)
    BY <1>1, AdvanceIs DEF RestFrame
  <1>3. RestFrame.op = Top.op /\ RestFrame.inst = Top.inst /\ RestFrame.todo = r
    BY DEF RestFrame, FrameType
  <1> HIDE DEF s, r
  <1>4. /\ Len(s) \in Nat /\ Len(r) \in Nat /\ Len(s) = Len(r) + 1
        /\ \A m \in 1..Len(r) : m >= 1 => m + 1 \in 1..Len(s) /\ r[m] = s[m + 1]
        /\ \A j \in 1..Len(s) : j > 1 => j - 1 \in 1..Len(r) /\ r[j - 1] = s[j]
    BY <1>2, DroppedAre
  <1>5. \A m \in 1..Len(r) : m + 1 \in 1..Len(s) /\ r[m] = s[m + 1] /\ m + 1 # 1
    BY <1>4
  <1>6. \A u : In(u, r) => In(u, s)
    BY <1>5 DEF In
  <1>7. \A u : In(u, s) => u = s[1] \/ In(u, r)
    <2> SUFFICES ASSUME NEW u, NEW j \in 1..Len(s), s[j] = u, u # s[1]
                 PROVE  In(u, r)
      BY DEF In
    <2>1. j > 1
      BY <1>4
    <2> QED BY <1>4, <2>1 DEF In
  <1>8. Top.op = "install" => ~In(s[1], r)
    <2> SUFFICES ASSUME Top.op = "install", NEW m \in 1..Len(r), r[m] = s[1]
                 PROVE  FALSE
      BY DEF In
    <2>1. \A j, k \in 1..Len(s) : s[j] = s[k] => j = k
      BY DEF FrameIs, s
    <2> QED BY <1>2, <1>5, <2>1
  <1>9. Cleared(RestFrame) <=> Cleared(Top)
    BY <1>2, <1>3 DEF Cleared, s
  <1>10. In(s[1], s) /\ Next1 = s[1]
    BY <1>2 DEF In, Next1, s
  <1> QED BY <1>2, <1>3, <1>6, <1>7, <1>8, <1>9, <1>10 DEF s

(* A step of an installation that leaves every slot as it was. *)
LEMMA SkipShown ==
  ASSUME Typed, Shown, ~reentered, Busy("install"), Top.todo # <<>>,
         work' = Advanced, chain' = chain,
         UNCHANGED <<registry, targets, installing, installed, stranded>>
  PROVE  Shown'
  <1>1. ~Idle /\ Top.op = "install"
    BY DEF Busy
  <1>2. /\ Working(Top) /\ Top \in FrameType /\ FrameIs(Top)
        /\ work' = <<RestFrame>>
    BY <1>1, NowWorking DEF Advanced, RestFrame
  <1>3. /\ RestFrame \in FrameType /\ RestFrame.op = Top.op /\ RestFrame.inst = Top.inst
        /\ Cleared(RestFrame) <=> Cleared(Top)
        /\ \A u : In(u, RestFrame.todo) => In(u, Top.todo)
    BY <1>2, RestIs
  <1>4. PICK g \in FrameType : g = RestFrame
    BY <1>3
  <1>5. ~Cleared(Top)
    BY <1>1 DEF Cleared
  <1>6. Working(g)'
    BY <1>1, <1>2, <1>3, <1>4, <1>5 DEF Working, WrittenDown
  <1> QED BY <1>6 DEF Shown

(* A step of an installation that puts this instance around a slot. *)
LEMMA PushShown ==
  ASSUME Typed, Shown, ~reentered, Busy("install"), Top.todo # <<>>,
         work' = Advanced, ChainStep, Next1 \in Slots, PushesOurs(Next1),
         \A u \in Slots \ {Next1} : Stays(u),
         UNCHANGED <<registry, installing, installed, stranded>>,
         TargetsTyped(targets'),
         \/ targets' = targets /\ (Next1 \in Wrapped => In(Next1, targets[Top.inst]))
         \/ /\ Next1 \in Wrapped
            /\ targets' = [targets EXCEPT ![Top.inst] = Append(targets[Top.inst], Next1)]
  PROVE  Shown'
  <1>1. ~Idle /\ Top.op = "install" /\ ~Cleared(Top)
    BY DEF Busy, Cleared
  <1>2. /\ Working(Top) /\ Top \in FrameType /\ FrameIs(Top)
        /\ work' = <<RestFrame>> /\ Top.inst \in Instances
    BY <1>1, NowWorking DEF Advanced, RestFrame, FrameType
  <1>3. /\ RestFrame \in FrameType /\ RestFrame.op = Top.op /\ RestFrame.inst = Top.inst
        /\ Cleared(RestFrame) <=> Cleared(Top)
        /\ \A u : In(u, RestFrame.todo) => In(u, Top.todo)
        /\ ~In(Next1, RestFrame.todo) /\ In(Next1, Top.todo)
    BY <1>1, <1>2, RestIs
  <1>4. PICK g \in FrameType : g = RestFrame
    BY <1>3
  <1>5. HasOurs(chain'[Next1]) /\ (~HasOurs(chain[Next1]) => OnlyOne(chain'[Next1]))
    BY PushedSlot
  <1>6. \A u \in Slots \ {Next1} : chain'[u] = chain[u]
    BY DEF Stays
  <1>7. Next1 \notin stranded => ~HasOurs(chain[Next1])
    BY <1>1, <1>2, <1>3 DEF Working
  <1>8. /\ \A u : In(u, targets'[Top.inst]) => u = Next1 \/ In(u, targets[Top.inst])
        /\ \A u : In(u, targets[Top.inst]) => In(u, targets'[Top.inst])
        /\ Next1 \in Wrapped => In(Next1, targets'[Top.inst])
        /\ \A i \in Instances \ {Top.inst} : targets'[i] = targets[i]
    <2>1. CASE targets' = targets /\ (Next1 \in Wrapped => In(Next1, targets[Top.inst]))
      BY <2>1
    <2>2. CASE /\ Next1 \in Wrapped
               /\ targets' = [targets EXCEPT ![Top.inst] = Append(targets[Top.inst], Next1)]
      <3>1. Next1 \in Mine
        BY Advances DEF Typed
      <3>2. /\ \A k \in 1..Len(Append(targets[Top.inst], Next1)) :
                 \/ Append(targets[Top.inst], Next1)[k] = Next1
                 \/ In(Append(targets[Top.inst], Next1)[k], targets[Top.inst])
            /\ In(Next1, Append(targets[Top.inst], Next1))
            /\ \A u : In(u, targets[Top.inst]) => In(u, Append(targets[Top.inst], Next1))
        BY <1>2, <2>2, <3>1, RecordedIs DEF Typed, BooksTyped
      <3>3. /\ targets'[Top.inst] = Append(targets[Top.inst], Next1)
            /\ \A i \in Instances \ {Top.inst} : targets'[i] = targets[i]
        BY <1>2, <2>2 DEF Typed, BooksTyped, TargetsTyped
      <3>4. \A u : In(u, Append(targets[Top.inst], Next1))
                     => u = Next1 \/ In(u, targets[Top.inst])
        <4> SUFFICES ASSUME NEW k \in 1..Len(Append(targets[Top.inst], Next1))
                     PROVE  \/ Append(targets[Top.inst], Next1)[k] = Next1
                            \/ In(Append(targets[Top.inst], Next1)[k], targets[Top.inst])
          BY DEF In
        <4> QED BY <3>2
      <3> QED BY <3>2, <3>3, <3>4
    <2> QED BY <2>1, <2>2
  <1>9. /\ g.inst = Top.inst /\ g.op = "install" /\ ~Cleared(g)
    BY <1>1, <1>3, <1>4
  <1>10. \A t \in Slots : In(t, targets'[g.inst]) => HasOurs(chain'[t])
    BY <1>2, <1>5, <1>6, <1>8, <1>9 DEF Working
  <1>11. \A t \in Slots \ stranded : OnlyOne(chain'[t])
    BY <1>2, <1>5, <1>6, <1>7 DEF Working
  <1>12. \A t \in Slots \ stranded : HasOurs(chain'[t]) => WrittenDown(g, t)'
    <2> SUFFICES ASSUME NEW t \in Slots \ stranded, HasOurs(chain'[t]), t \in Wrapped
                 PROVE  In(t, targets'[g.inst])
      BY <1>9 DEF WrittenDown, Cleared
    <2>1. CASE t = Next1
      BY <1>8, <1>9, <2>1
    <2>2. CASE t # Next1
      <3>1. In(t, targets[Top.inst])
        BY <1>1, <1>2, <1>6, <2>2 DEF Working, WrittenDown
      <3> QED BY <1>8, <1>9, <3>1
    <2> QED BY <2>1, <2>2
  <1>13. \A t \in Slots \ stranded : In(t, g.todo) => ~HasOurs(chain'[t])
    BY <1>1, <1>2, <1>3, <1>4, <1>6 DEF Working
  <1>14. \A i \in Instances : i # g.inst => targets'[i] = <<>>
    BY <1>2, <1>8, <1>9 DEF Working
  <1>15. /\ registry' = None /\ installing' = {g.inst} /\ installed' = {} /\ work' = <<g>>
    BY <1>1, <1>2, <1>4, <1>9 DEF Working
  <1>16. Working(g)'
    BY <1>9, <1>10, <1>11, <1>12, <1>13, <1>14, <1>15 DEF Working, Cleared
  <1> QED BY <1>16 DEF Shown

LEMMA WrapStepShown ==
  ASSUME Typed, Shown, ~reentered, WrapStep
  PROVE  Shown'
  <1>1. /\ Busy("install") /\ Top.todo # <<>> /\ work' = Advanced
        /\ UNCHANGED <<registry, installing, installed, stranded>>
    BY DEF WrapStep
  <1>2. /\ ChainStep /\ Next1 \in Slots /\ \A u \in Slots \ {Next1} : Stays(u)
        /\ Ours(Outermost(Next1)) => chain' = chain
        /\ ~Ours(Outermost(Next1)) => PushesOurs(Next1)
    BY WrapStepChain
  <1>3. /\ TargetsTyped(targets') /\ Top.inst \in Instances /\ Next1 \in Wrapped
        /\ \/ targets' = targets /\ Ours(Outermost(Next1)) /\ Outermost(Next1) # Top.inst
           \/ targets' = targets /\ In(Next1, targets[Top.inst])
           \/ targets' = [targets EXCEPT ![Top.inst] = Append(targets[Top.inst], Next1)]
    BY WrapStepTargets
  <1>4. CASE ~Ours(Outermost(Next1))
    BY <1>1, <1>2, <1>3, <1>4, PushShown
  <1>5. CASE Ours(Outermost(Next1)) /\ targets' = targets
    BY <1>1, <1>2, <1>5, SkipShown
  <1>6. CASE /\ Ours(Outermost(Next1))
             /\ targets' = [targets EXCEPT ![Top.inst] = Append(targets[Top.inst], Next1)]
    <2>1. ~Idle /\ Top.op = "install" /\ ~Cleared(Top)
      BY <1>1 DEF Busy, Cleared
    <2>2. /\ Working(Top) /\ Top \in FrameType /\ FrameIs(Top) /\ work' = <<RestFrame>>
      BY <1>1, <2>1, NowWorking DEF Advanced, RestFrame
    <2>3. /\ RestFrame \in FrameType /\ RestFrame.op = Top.op /\ RestFrame.inst = Top.inst
          /\ Cleared(RestFrame) <=> Cleared(Top)
          /\ \A u : In(u, RestFrame.todo) => In(u, Top.todo)
      BY <1>1, <2>2, RestIs
    <2>4. PICK g \in FrameType : g = RestFrame
      BY <2>3
    <2>5. HasOurs(chain[Next1])
      BY <1>2, <1>6, OutermostIs DEF Typed
    <2>6. Next1 \in Mine
      BY <1>1, Advances DEF Typed
    <2>7. /\ \A k \in 1..Len(Append(targets[Top.inst], Next1)) :
               \/ Append(targets[Top.inst], Next1)[k] = Next1
               \/ In(Append(targets[Top.inst], Next1)[k], targets[Top.inst])
          /\ \A u : In(u, targets[Top.inst]) => In(u, Append(targets[Top.inst], Next1))
      BY <1>3, <2>6, RecordedIs DEF Typed, BooksTyped
    <2>8. /\ targets'[Top.inst] = Append(targets[Top.inst], Next1)
          /\ \A i \in Instances \ {Top.inst} : targets'[i] = targets[i]
      BY <1>3, <1>6 DEF Typed, BooksTyped, TargetsTyped
    <2>9. \A t : In(t, targets'[Top.inst]) => t = Next1 \/ In(t, targets[Top.inst])
      <3> SUFFICES ASSUME NEW k \in 1..Len(Append(targets[Top.inst], Next1))
                   PROVE  \/ Append(targets[Top.inst], Next1)[k] = Next1
                          \/ In(Append(targets[Top.inst], Next1)[k], targets[Top.inst])
        BY <2>8 DEF In
      <3> QED BY <2>7
    <2>10. chain' = chain /\ g.inst = Top.inst /\ g.op = "install" /\ ~Cleared(g)
      BY <1>2, <1>6, <2>1, <2>3, <2>4
    <2>11. \A t \in Slots : In(t, targets'[g.inst]) => HasOurs(chain'[t])
      BY <2>2, <2>5, <2>9, <2>10 DEF Working
    <2>12. \A t \in Slots \ stranded : HasOurs(chain'[t]) => WrittenDown(g, t)'
      BY <2>1, <2>2, <2>7, <2>8, <2>10 DEF Working, WrittenDown, Cleared
    <2>13. \A i \in Instances : i # g.inst => targets'[i] = <<>>
      BY <2>2, <2>8, <2>10 DEF Working
    <2>14. /\ registry' = None /\ installing' = {g.inst} /\ installed' = {} /\ work' = <<g>>
           /\ stranded' = stranded
      BY <1>1, <2>1, <2>2, <2>4, <2>10 DEF Working
    <2>15. \A t \in Slots \ stranded :
             OnlyOne(chain'[t]) /\ (In(t, g.todo) => ~HasOurs(chain'[t]))
      BY <2>1, <2>2, <2>3, <2>4, <2>10 DEF Working
    <2>16. Working(g)'
      BY <2>10, <2>11, <2>12, <2>13, <2>14, <2>15 DEF Working, Cleared
    <2> QED BY <2>16 DEF Shown
  <1> QED BY <1>3, <1>4, <1>5, <1>6

(* The other steps of an installation. *)
LEMMA InstallStepShown ==
  ASSUME Typed, Shown, ~reentered,
         WrapFails \/ DeferStep \/ ConnectStep \/ FactoryStep \/ ClassStep
  PROVE  Shown'
  <1>1. CASE WrapFails \/ DeferStep \/ ConnectStep
    <2>1. /\ Busy("install") /\ Top.todo # <<>> /\ work' = Advanced /\ chain' = chain
          /\ UNCHANGED <<registry, targets, installing, installed, stranded>>
      BY <1>1 DEF WrapFails, DeferStep, ConnectStep, patched
    <2> QED BY <2>1, SkipShown
  <1>2. CASE FactoryStep
    <2>1. /\ Busy("install") /\ Top.todo # <<>> /\ work' = Advanced /\ Next1 = "factory"
          /\ Next1 \in Slots /\ Next1 \notin Wrapped
          /\ UNCHANGED <<registry, targets, installing, installed, stranded>>
      BY <1>2 DEF FactoryStep, Slots, Wrapped
    <2>2. /\ ChainStep /\ \A u \in Slots \ {Next1} : Stays(u)
          /\ Ours(Outermost("factory")) => chain' = chain
          /\ ~Ours(Outermost("factory")) => PushesOurs(Next1)
      BY <1>2, <2>1, FactoryStepChain
    <2>3. CASE Ours(Outermost("factory"))
      BY <2>1, <2>2, <2>3, SkipShown
    <2>4. CASE ~Ours(Outermost("factory"))
      <3>1. TargetsTyped(targets')
        BY <2>1 DEF Typed, BooksTyped
      <3> QED BY <2>1, <2>2, <2>4, <3>1, PushShown
    <2> QED BY <2>3, <2>4
  <1>3. CASE ClassStep
    <2>1. /\ Busy("install") /\ Top.todo # <<>> /\ work' = Advanced /\ Next1 = "producer"
          /\ Next1 \in Slots /\ Next1 \notin Wrapped
          /\ UNCHANGED <<registry, targets, installing, installed, stranded>>
      BY <1>3 DEF ClassStep, Slots, Wrapped
    <2>2. /\ ChainStep /\ \A u \in Slots \ {Next1} : Stays(u)
          /\ ClassPatched => chain' = chain
          /\ ~ClassPatched => PushesOurs(Next1)
      BY <1>3, <2>1, ClassStepChain
    <2>3. CASE ClassPatched
      BY <2>1, <2>2, <2>3, SkipShown
    <2>4. CASE ~ClassPatched
      <3>1. TargetsTyped(targets')
        BY <2>1 DEF Typed, BooksTyped
      <3> QED BY <2>1, <2>2, <2>4, <3>1, PushShown
    <2> QED BY <2>3, <2>4
  <1> QED BY <1>1, <1>2, <1>3

LEMMA InstrumentShown ==
  ASSUME Typed, Shown, ~reentered, ~reentered', NEW i \in Instances, Instrument(i)
  PROVE  Shown'
  <1>1. Idle /\ registry = None
    BY DEF Instrument
  <1>2. Resting
    BY <1>1, NowResting
  <1>3. InstallFrame(i) \in FrameType /\ InstallFrame(i).op = "install"
        /\ InstallFrame(i).inst = i
    BY NewFrames DEF InstallFrame, Typed, FlagsTyped
  <1>4. PICK g \in FrameType : g = InstallFrame(i)
    BY <1>3
  <1>5. g.op = "install" /\ g.inst = i /\ ~Cleared(g)
    BY <1>3, <1>4 DEF Cleared
  <1>6. work' = Append(work, g) /\ work = <<>>
    BY <1>1, <1>4 DEF Instrument, InstallFrame, Idle
  <1>7. /\ work' = <<g>> /\ registry' = None /\ installing' = {i} /\ installed' = {}
        /\ targets' = targets /\ chain' = chain /\ stranded' = stranded
    BY <1>1, <1>2, <1>6 DEF Instrument, Resting, patched
  <1>8. \A j \in Instances : targets[j] = <<>>
    BY <1>1, <1>2, NamesAssumption DEF Resting
  <1>9. \A t \in Slots \ stranded : OnlyOne(chain[t]) /\ ~HasOurs(chain[t])
    BY <1>1, <1>2 DEF Resting
  <1>10. Working(g)'
    BY <1>5, <1>7, <1>8, <1>9, InNothing DEF Working
  <1> QED BY <1>10 DEF Shown

LEMMA RaiseShown ==
  ASSUME Typed, Shown, ~reentered, Raise
  PROVE  Shown'
  <1>1. ~Idle /\ Top.op = "install" /\ ~Cleared(Top)
    BY DEF Raise, Busy, Cleared
  <1>2. /\ Working(Top) /\ Top \in FrameType /\ RaisedFrame \in FrameType
        /\ work' = <<RaisedFrame>>
    BY <1>1, NowWorking, NewFrames DEF Raise, RaisedFrame, Typed, FlagsTyped
  <1>3. PICK g \in FrameType : g = RaisedFrame
    BY <1>2
  <1>4. g.op = "rollback" /\ g.inst = Top.inst /\ ~Cleared(g)
    BY <1>2, <1>3 DEF RaisedFrame, FrameType, Cleared
  <1>5. UNCHANGED <<registry, targets, installing, installed, chain, stranded>>
    BY DEF Raise, patched
  <1>6. Working(g)'
    BY <1>1, <1>2, <1>3, <1>4, <1>5 DEF Working, WrittenDown
  <1> QED BY <1>6 DEF Shown

LEMMA InstallEndsShown ==
  ASSUME Typed, Shown, ~reentered, InstallEnds
  PROVE  Shown'
  <1>1. ~Idle /\ Top.op = "install" /\ ~Cleared(Top)
    BY DEF InstallEnds, Busy, Cleared
  <1>2. Working(Top) /\ Popped = <<>> /\ Top.inst \in Instances
    BY <1>1, NowWorking DEF FrameType
  <1>3. PICK i \in Instances : i = Top.inst
    BY <1>2
  <1>4. /\ registry' = i /\ installed' = installed \cup {i} /\ installing' = installing \ {i}
        /\ work' = <<>> /\ UNCHANGED <<targets, chain, stranded>>
    BY <1>2, <1>3 DEF InstallEnds, patched
  <1>5. i # None
    BY NamesAssumption
  <1>6. installing' = {} /\ installed' = {i}
    BY <1>1, <1>2, <1>3, <1>4 DEF Working
  <1>7. /\ \A j \in Instances : j # i => targets[j] = <<>>
        /\ \A t \in Slots : In(t, targets[i]) => HasOurs(chain[t])
        /\ \A t \in Slots \ stranded : OnlyOne(chain[t])
        /\ \A t \in Slots \ stranded : HasOurs(chain[t]) /\ t \in Wrapped => In(t, targets[i])
    BY <1>1, <1>2, <1>3 DEF Working, WrittenDown
  <1>8. Resting'
    BY <1>4, <1>5, <1>6, <1>7 DEF Resting
  <1> QED BY <1>8 DEF Shown

LEMMA UninstrumentShown ==
  ASSUME Typed, Shown, ~reentered, Uninstrument
  PROVE  Shown'
  <1>1. Idle /\ registry # None /\ work' = <<UndoFrame>>
    BY DEF Uninstrument, UndoFrame
  <1>2. Resting
    BY <1>1, NowResting
  <1>3. UndoFrame \in FrameType /\ UndoFrame.op = "uninstall" /\ UndoFrame.inst = registry
        /\ UndoFrame.todo = <<"custom">>
    BY <1>1, NewFrames DEF UndoFrame, Typed, FlagsTyped
  <1>4. PICK g \in FrameType : g = UndoFrame
    BY <1>3
  <1>5. g.op = "uninstall" /\ g.inst = registry /\ ~Cleared(g)
    BY <1>3, <1>4 DEF Cleared
  <1>6. UNCHANGED <<registry, targets, installing, installed, chain, stranded>>
    BY DEF Uninstrument, patched
  <1>7. Working(g)'
    BY <1>1, <1>2, <1>4, <1>5, <1>6 DEF Resting, Working, WrittenDown
  <1> QED BY <1>7 DEF Shown

LEMMA CustomShown ==
  ASSUME Typed, Shown, ~reentered, NEW raised \in BOOLEAN, Custom(raised)
  PROVE  Shown'
  <1>1. /\ work' = Replace(RestoringFrame) /\ RestoringFrame \in FrameType
        /\ Top.op # "install" /\ ~Idle /\ Top.inst \in Instances
        /\ RestoringFrame.op = Top.op /\ RestoringFrame.inst = Top.inst
        /\ RestoringFrame.todo = Reverse(targets[Top.inst])
        /\ RestoringFrame.todo # <<"custom">>
    BY CustomWork
  <1>2. Working(Top) /\ work' = <<RestoringFrame>>
    BY <1>1, NowWorking
  <1>3. PICK g \in FrameType : g = RestoringFrame
    BY <1>1
  <1>4. /\ g.op = Top.op /\ g.inst = Top.inst /\ g.todo = Reverse(targets[Top.inst])
        /\ Cleared(g) /\ g.op # "install"
    BY <1>1, <1>3 DEF Cleared
  <1>5. ~Cleared(Top)
    BY DEF Custom, Cleared
  <1>6. /\ targets' = [targets EXCEPT ![Top.inst] = <<>>]
        /\ stranded' = stranded \cup {t \in {"factory", "producer"} : FirstOurs(t) > 1}
        /\ UNCHANGED <<registry, installing, installed>>
    BY DEF Custom
  <1>7. \A i \in Instances : targets'[i] = <<>>
    BY <1>2, <1>6 DEF Working, Typed, BooksTyped, TargetsTyped
  <1>8. \A t \in Slots \ stranded' : t \in Slots \ stranded /\ OnlyOne(chain[t])
    BY <1>2, <1>6 DEF Working
  <1>9. /\ ChainStep /\ \A u \in Slots \ {"factory", "producer"} : Stays(u)
        /\ chain'["factory"] = FactoryRestored
        /\ DropsOurs("producer") \/ (Stays("producer") /\ FirstOurs("producer") # 1)
    BY CustomChain
  <1>10. "factory" \in Slots /\ "producer" \in Slots /\ ChainTyped
    BY DEF Slots, Typed
  <1>11. OnlyOne(chain'["factory"])
    BY <1>9, <1>10, FactoryRestoredIs
  <1>12. "factory" \notin stranded' => ~HasOurs(chain'["factory"])
    <2> SUFFICES ASSUME "factory" \notin stranded'
                 PROVE  ~HasOurs(chain'["factory"])
      OBVIOUS
    <2>1. ~(FirstOurs("factory") > 1)
      BY <1>6
    <2>2. FirstOurs("factory") <= 1
      BY <1>10, <2>1, FirstOursIs
    <2>3. OnlyOne(chain["factory"])
      BY <1>8, <1>10
    <2> QED BY <1>9, <1>10, <2>2, <2>3, FactoryRestoredIs
  <1>13. "producer" \notin stranded' =>
           OnlyOne(chain'["producer"]) /\ ~HasOurs(chain'["producer"])
    <2> SUFFICES ASSUME "producer" \notin stranded'
                 PROVE  OnlyOne(chain'["producer"]) /\ ~HasOurs(chain'["producer"])
      OBVIOUS
    <2>1. ~(FirstOurs("producer") > 1)
      BY <1>6
    <2>2. OnlyOne(chain["producer"])
      BY <1>8, <1>10
    <2>3. CASE DropsOurs("producer")
      BY <1>9, <1>10, <2>2, <2>3, DroppedSlot
    <2>4. CASE Stays("producer") /\ FirstOurs("producer") # 1
      <3>1. FirstOurs("producer") \in Nat
        BY <1>10, FirstOursIs
      <3>2. FirstOurs("producer") = 0
        BY <2>1, <2>4, <3>1
      <3>3. ~HasOurs(chain["producer"])
        BY <1>10, <3>2, FirstOursIs
      <3> QED BY <2>2, <2>4, <3>3 DEF Stays
    <2> QED BY <1>9, <2>3, <2>4
  <1>14. ASSUME NEW t \in Slots \ stranded'
         PROVE  OnlyOne(chain'[t]) /\ (HasOurs(chain'[t]) => WrittenDown(g, t)')
    <2>1. CASE t = "factory"
      BY <1>11, <1>12, <2>1
    <2>2. CASE t = "producer"
      BY <1>13, <2>2
    <2>3. CASE t \notin {"factory", "producer"}
      <3>1. chain'[t] = chain[t] /\ t \in Wrapped
        BY <1>9, <2>3, WrappedSlots DEF Stays
      <3>2. HasOurs(chain[t]) => In(t, targets[Top.inst])
        BY <1>2, <1>5, <1>8, <3>1 DEF Working, WrittenDown
      <3>3. In(t, targets[Top.inst]) => In(t, g.todo)
        BY <1>1, <1>4, ReverseIs DEF Typed, BooksTyped
      <3> QED BY <1>4, <1>8, <3>1, <3>2, <3>3 DEF WrittenDown
    <2> QED BY <2>1, <2>2, <2>3
  <1>15. /\ work' = <<g>>
         /\ registry' = (IF g.op = "uninstall" THEN g.inst ELSE None)
         /\ installing' = (IF g.op = "uninstall" THEN {} ELSE {g.inst})
         /\ installed' = (IF g.op = "uninstall" THEN {g.inst} ELSE {})
    BY <1>2, <1>3, <1>4, <1>6 DEF Working
  <1>16. \A t \in Slots : ~In(t, targets'[g.inst])
    BY <1>1, <1>4, <1>7, InNothing
  <1>17. Working(g)'
    BY <1>4, <1>7, <1>14, <1>15, <1>16 DEF Working
  <1> QED BY <1>17 DEF Shown

LEMMA RestoreShown ==
  ASSUME Typed, Shown, ~reentered, Restore
  PROVE  Shown'
  <1>1. /\ ~Idle /\ Undoing /\ Top.todo # <<>> /\ Next1 \in Wrapped /\ work' = Advanced
        /\ Top.op # "install" /\ stranded' = stranded \cup {t \in {Next1} : Refused(t)}
        /\ UNCHANGED <<registry, targets, installing, installed>>
    BY DEF Restore, Undoing, Busy
  <1>2. /\ Working(Top) /\ Top \in FrameType /\ FrameIs(Top) /\ work' = <<RestFrame>>
    BY <1>1, NowWorking DEF Advanced, RestFrame
  <1>3. /\ RestFrame \in FrameType /\ RestFrame.op = Top.op /\ RestFrame.inst = Top.inst
        /\ Cleared(RestFrame) <=> Cleared(Top)
        /\ \A u : In(u, Top.todo) => u = Next1 \/ In(u, RestFrame.todo)
        /\ Next1 = Top.todo[1]
    BY <1>1, <1>2, RestIs
  <1>4. Cleared(Top)
    BY <1>1, <1>3, CustomIs DEF Cleared, Wrapped
  <1>5. PICK g \in FrameType : g = RestFrame
    BY <1>3
  <1>6. /\ ChainStep /\ Next1 \in Slots /\ \A u \in Slots \ {Next1} : Stays(u)
        /\ FirstOurs(Next1) = 0 \/ Refused(Next1) => chain' = chain
        /\ FirstOurs(Next1) # 0 /\ ~Refused(Next1) => DropsOurs(Next1)
    BY RestoreChain
  <1>7. ASSUME Next1 \notin stranded'
        PROVE  OnlyOne(chain'[Next1]) /\ ~HasOurs(chain'[Next1])
    <2>1. ~Refused(Next1) /\ Next1 \notin stranded
      BY <1>1, <1>7
    <2>2. OnlyOne(chain[Next1])
      BY <1>2, <1>6, <2>1 DEF Working
    <2>3. CASE FirstOurs(Next1) = 0
      <3>1. ~HasOurs(chain[Next1])
        BY <1>6, <2>3, FirstOursIs DEF Typed
      <3> QED BY <1>6, <2>2, <2>3, <3>1
    <2>4. CASE FirstOurs(Next1) # 0
      BY <1>6, <2>1, <2>2, <2>4, DroppedSlot
    <2> QED BY <2>3, <2>4
  <1>8. ASSUME NEW t \in Slots \ stranded'
        PROVE  OnlyOne(chain'[t]) /\ (HasOurs(chain'[t]) => In(t, g.todo))
    <2>1. CASE t = Next1
      BY <1>7, <2>1
    <2>2. CASE t # Next1
      <3>1. chain'[t] = chain[t] /\ t \in Slots \ stranded
        BY <1>1, <1>6, <2>2 DEF Stays
      <3>2. OnlyOne(chain[t]) /\ (HasOurs(chain[t]) => In(t, Top.todo))
        BY <1>2, <1>4, <3>1 DEF Working, WrittenDown
      <3> QED BY <1>3, <1>5, <2>2, <3>1, <3>2
    <2> QED BY <2>1, <2>2
  <1>9. g.op = Top.op /\ g.inst = Top.inst /\ Cleared(g) /\ g.op # "install"
    BY <1>1, <1>3, <1>4, <1>5
  <1>10. \A i \in Instances : targets'[i] = <<>>
    BY <1>1, <1>2, <1>4 DEF Working
  <1>11. \A t \in Slots : ~In(t, targets'[g.inst])
    BY <1>2, <1>9, <1>10, InNothing DEF FrameType
  <1>12. /\ work' = <<g>>
         /\ registry' = (IF g.op = "uninstall" THEN g.inst ELSE None)
         /\ installing' = (IF g.op = "uninstall" THEN {} ELSE {g.inst})
         /\ installed' = (IF g.op = "uninstall" THEN {g.inst} ELSE {})
    BY <1>1, <1>2, <1>5, <1>9 DEF Working
  <1>13. Working(g)'
    BY <1>8, <1>9, <1>10, <1>11, <1>12 DEF Working, WrittenDown
  <1> QED BY <1>13 DEF Shown

LEMMA UndoneShown ==
  ASSUME Typed, Shown, ~reentered, RollbackEnds \/ UninstallEnds
  PROVE  Shown'
  <1>1. ~Idle /\ Top.op \in {"rollback", "uninstall"} /\ Top.todo = <<>>
        /\ work' = Popped /\ UNCHANGED <<targets, chain, stranded>>
    BY DEF RollbackEnds, UninstallEnds, Busy, patched
  <1>2. Working(Top) /\ Popped = <<>>
    BY <1>1, NowWorking
  <1>3. Cleared(Top)
    BY <1>1, CustomIs DEF Cleared
  <1>4. registry' = None /\ installing' = {} /\ installed' = {}
    BY <1>1, <1>2 DEF RollbackEnds, UninstallEnds, Busy, Working
  <1>5. /\ \A i \in Instances : targets'[i] = <<>>
        /\ \A t \in Slots \ stranded : OnlyOne(chain[t]) /\ ~HasOurs(chain[t])
    BY <1>1, <1>2, <1>3, InNothing DEF Working, WrittenDown
  <1>6. Resting'
    BY <1>1, <1>2, <1>4, <1>5 DEF Resting
  <1> QED BY <1>6 DEF Shown

LEMMA DeferredImportShown ==
  ASSUME Typed, Unimported, Shown, ~reentered, NEW t \in Slots, DeferredImport(t)
  PROVE  Shown'
  <1>1. /\ Idle
        /\ UNCHANGED <<registry, installing, installed, work, hooks, stranded, reentered>>
    BY DEF DeferredImport
  <1>2. Resting
    BY <1>1, NowResting
  <1>3. /\ ChainStep /\ \A u \in Slots \ {t} : Stays(u)
        /\ t \in Wrapped /\ t \in Mine /\ chain[t] = <<>>
        /\ \/ Stays(t) /\ targets' = targets
           \/ \E i \in Instances : /\ PushesOurs(t) /\ Live(i)
                                   /\ targets' = [targets EXCEPT ![i] = Append(@, t)]
    BY DeferredImportChain
  <1>4. CASE Stays(t) /\ targets' = targets
    <2>1. SlotsAlike /\ UNCHANGED install
      BY <1>1, <1>3, <1>4 DEF SlotsAlike, Stays, install
    <2> QED BY <1>1, <2>1, AlikeStays
  <1>5. ASSUME NEW i \in Instances, PushesOurs(t), Live(i),
               targets' = [targets EXCEPT ![i] = Append(@, t)]
        PROVE  Shown'
    <2>1. registry = i
      BY <1>2, <1>5 DEF Resting, Live
    <2>2. i # None
      BY NamesAssumption
    <2>3. HasOurs(chain'[t]) /\ OnlyOne(chain'[t])
      BY <1>3, <1>5, PushedSlot, EmptyLayers
    <2>4. \A u \in Slots \ {t} : chain'[u] = chain[u]
      BY <1>3 DEF Stays
    <2>5. /\ targets'[i] = Append(targets[i], t)
          /\ \A j \in Instances \ {i} : targets'[j] = targets[j]
      BY <1>5 DEF Typed, BooksTyped, TargetsTyped
    <2>6. /\ \A k \in 1..Len(Append(targets[i], t)) :
               Append(targets[i], t)[k] = t \/ In(Append(targets[i], t)[k], targets[i])
          /\ In(t, Append(targets[i], t))
          /\ \A u : In(u, targets[i]) => In(u, Append(targets[i], t))
      BY <1>3, RecordedIs DEF Typed, BooksTyped
    <2>7. \A u : In(u, targets'[i]) => u = t \/ In(u, targets[i])
      <3> SUFFICES ASSUME NEW k \in 1..Len(Append(targets[i], t))
                   PROVE  \/ Append(targets[i], t)[k] = t
                          \/ In(Append(targets[i], t)[k], targets[i])
        BY <2>5 DEF In
      <3> QED BY <2>6
    <2>8. /\ registry' = i /\ installing' = {} /\ installed' = {i} /\ work' = <<>>
          /\ stranded' = stranded
      BY <1>1, <1>2, <2>1, <2>2 DEF Resting
    <2>9. \A j \in Instances : j # i => targets'[j] = <<>>
      BY <1>2, <2>1, <2>5 DEF Resting
    <2>10. \A u \in Slots : In(u, targets'[i]) => HasOurs(chain'[u])
      BY <1>2, <2>1, <2>2, <2>3, <2>4, <2>7 DEF Resting
    <2>11. \A u \in Slots \ stranded : OnlyOne(chain'[u])
      BY <1>2, <2>3, <2>4 DEF Resting
    <2>12. \A u \in Slots \ stranded :
             HasOurs(chain'[u]) /\ u \in Wrapped => In(u, targets'[i])
      BY <1>2, <2>1, <2>2, <2>4, <2>5, <2>6 DEF Resting
    <2>13. Resting'
      BY <2>2, <2>8, <2>9, <2>10, <2>11, <2>12 DEF Resting
    <2> QED BY <2>13 DEF Shown
  <1> QED BY <1>3, <1>4, <1>5

-----------------------------------------------------------------------------
LEMMA InitShown == Init => Shown
  <1> SUFFICES ASSUME Init
               PROVE  Shown
    OBVIOUS
  <1>1. \A t \in Slots : OnlyOne(chain[t]) /\ ~HasOurs(chain[t])
    BY EmptyLayers DEF Init
  <1>2. /\ work = <<>> /\ installing = {} /\ installed = {} /\ registry = None
        /\ \A i \in Instances : targets[i] = <<>>
    BY DEF Init
  <1>3. Resting
    BY <1>1, <1>2 DEF Resting
  <1> QED BY <1>3 DEF Shown

LEMMA NextShown ==
  ASSUME Typed, Unimported, Shown, [Next]_vars
  PROVE  Shown'
  <1>1. CASE reentered'
    BY <1>1 DEF Shown
  <1>2. CASE ~reentered'
    <2>1. ASSUME NEW i \in Instances, Instrument(i)
          PROVE  Shown'
      <3>1. ~reentered
        BY <1>2, <2>1 DEF Instrument
      <3> QED BY <1>2, <2>1, <3>1, InstrumentShown
    <2>2. ASSUME UNCHANGED <<install, stranded, reentered, chain>>
          PROVE  Shown'
      BY <2>2, AlikeStays DEF SlotsAlike
    <2>3. CASE WrapStep
      BY <1>2, <2>3, WrapStepShown DEF WrapStep
    <2>4. CASE WrapFails \/ DeferStep \/ ConnectStep \/ FactoryStep \/ ClassStep
      <3>1. ~reentered
        BY <1>2, <2>4 DEF WrapFails, DeferStep, ConnectStep, FactoryStep, ClassStep
      <3> QED BY <2>4, <3>1, InstallStepShown
    <2>5. CASE Raise
      BY <1>2, <2>5, RaiseShown DEF Raise
    <2>6. CASE InstallEnds
      BY <1>2, <2>6, InstallEndsShown DEF InstallEnds
    <2>7. CASE Uninstrument
      BY <1>2, <2>7, UninstrumentShown DEF Uninstrument
    <2>8. CASE Restore
      BY <1>2, <2>8, RestoreShown DEF Restore
    <2>9. CASE RollbackEnds \/ UninstallEnds
      <3>1. ~reentered
        BY <1>2, <2>9 DEF RollbackEnds, UninstallEnds
      <3> QED BY <2>9, <3>1, UndoneShown
    <2>10. ASSUME NEW raised \in BOOLEAN, Custom(raised)
           PROVE  Shown'
      BY <1>2, <2>10, CustomShown DEF Custom
    <2>11. ASSUME NEW t \in Slots, DeferredImport(t)
           PROVE  Shown'
      BY <1>2, <2>11, DeferredImportShown DEF DeferredImport
    <2>12. ASSUME NEW t \in Slots, ForeignUnwrap(t)
           PROVE  Shown'
      <3>1. SlotsAlike
        BY <2>12, ForeignUnwrapChain, ForeignersAlike
      <3>2. UNCHANGED <<install, stranded, reentered>>
        BY <2>12 DEF ForeignUnwrap
      <3> QED BY <3>1, <3>2, AlikeStays
    <2>13. ASSUME NEW t \in Slots, NEW kind \in Foreign, ForeignWrap(t, kind)
           PROVE  Shown'
      <3>1. SlotsAlike
        BY <2>13, ForeignWrapChain, ForeignersAlike
      <3>2. UNCHANGED <<install, stranded, reentered>>
        BY <2>13 DEF ForeignWrap
      <3> QED BY <3>1, <3>2, AlikeStays
    <2>14. ASSUME NEW thread \in Threads, NEW base \in Bases, LookUp(thread, base)
           PROVE  Shown'
      BY <2>2, <2>14 DEF LookUp, patched
    <2>15. ASSUME NEW thread \in Threads, Publish(thread)
           PROVE  Shown'
      BY <2>2, <2>15 DEF Publish, patched
    <2>16. CASE UNCHANGED vars
      BY <2>2, <2>16 DEF vars, patched
    <2> QED BY <2>1, <2>3, <2>4, <2>5, <2>6, <2>7, <2>8, <2>9, <2>10, <2>11, <2>12, <2>13,
               <2>14, <2>15, <2>16 DEF Next
  <1> QED BY <1>1, <1>2

InstrumentationInv == LayersInv /\ Shown

(* What is layered on the slots and what the instrumentors keep of it hold *)
(* together, whoever wraps, imports, installs and removes: two of ours are *)
(* apart, other libraries' layers are the ones they put, and between       *)
(* operations the books are those of the registered instance               *)
(* (instrumentor.py:100-180, _util.py:330-420).                            *)
THEOREM InstrumentationInvariant == Spec => []InstrumentationInv
  <1>1. Init => InstrumentationInv
    BY InitLayers, InitShown DEF InstrumentationInv
  <1>2. InstrumentationInv /\ [Next]_vars => InstrumentationInv'
    <2> SUFFICES ASSUME InstrumentationInv, [Next]_vars
                 PROVE  InstrumentationInv'
      OBVIOUS
    <2>1. LayersInv /\ Typed /\ Unimported /\ Shown
      BY DEF InstrumentationInv, LayersInv
    <2> QED BY <2>1, NextLayers, NextShown DEF InstrumentationInv
  <1> QED BY <1>1, <1>2, PTL DEF Spec

(* The model's type invariant is a part of the proofs'. *)
LEMMA TypedIs == Typed => TypeOK
  <1> SUFFICES ASSUME Typed
               PROVE  TypeOK
    OBVIOUS
  <1>1. /\ chain \in [Slots -> Seq(Instances \cup Foreign)]
        /\ foreign \in [Slots -> Seq(Foreign)]
    BY DEF Typed, ChainTyped, Layers
  <1>2. /\ registry \in Instances \cup {None} /\ targets \in [Instances -> Seq(Wrapped)]
        /\ installing \subseteq Instances /\ installed \subseteq Instances
    BY DEF Typed, BooksTyped, TargetsTyped
  <1>3. ToSet(hooks) \subseteq Instances
    <2>1. hooks \in Seq(Instances)
      BY DEF Typed, BooksTyped
    <2>2. DOMAIN hooks = 1..Len(hooks) /\ \A n \in 1..Len(hooks) : hooks[n] \in Instances
      BY <2>1, LenProperties, ElementOfSeq
    <2> QED BY <2>2 DEF ToSet
  <1>4. ASSUME NEW n \in DOMAIN work
        PROVE  /\ work[n].op \in {"install", "rollback", "uninstall"}
               /\ work[n].inst \in Instances
               /\ ToSet(work[n].todo) \subseteq Mine \cup {"custom"}
    <2>1. work \in Seq(FrameType) /\ \A k \in 1..Len(work) : FrameIs(work[k])
      BY DEF Typed, BooksTyped, WorkTyped
    <2>2. work[n] \in FrameType /\ FrameIs(work[n])
      BY <2>1, LenProperties, ElementOfSeq
    <2>3. /\ work[n].op \in {"install", "rollback", "uninstall"}
          /\ work[n].inst \in Instances /\ work[n].todo \in Seq(StepNames)
      BY <2>2 DEF FrameType
    <2>4. DOMAIN work[n].todo = 1..Len(work[n].todo)
      BY <2>3, LenProperties
    <2>5. \A k \in DOMAIN work[n].todo : work[n].todo[k] \in Mine \cup {"custom"}
      BY <2>2, <2>4 DEF FrameIs
    <2>6. ToSet(work[n].todo) \subseteq Mine \cup {"custom"}
      BY <2>5 DEF ToSet
    <2> QED BY <2>3, <2>6
  <1>5. /\ focus \in Classes /\ imported \subseteq Deferred /\ stranded \subseteq Slots
        /\ {listening, guard, reentered} \subseteq BOOLEAN
    BY DEF Typed, FlagsTyped
  <1>6. CursorsTyped
    BY DEF Typed
  <1> QED BY <1>1, <1>2, <1>3, <1>4, <1>5, <1>6 DEF TypeOK, CursorsTyped

(* Between operations the registry is true: a class that is not registered *)
(* has no wrapper of ours left, but where another library's refused to let *)
(* go, and one that is registered has every wrapper it recorded            *)
(* (instrumentor.py:25, 147).                                              *)
THEOREM RegistryIsTrue == Spec => []RegistryTellsTruth
  <1>1. InstrumentationInv => RegistryTellsTruth
    <2> SUFFICES ASSUME InstrumentationInv
                 PROVE  RegistryTellsTruth
      OBVIOUS
    <2>1. Typed /\ TypeOK /\ Shown /\ ChainTyped
      BY TypedIs DEF InstrumentationInv, LayersInv, Typed
    <2>2. ASSUME Idle, ~reentered, registry = None, NEW t \in Slots \ stranded
          PROVE  FirstOurs(t) = 0
      BY <2>1, <2>2, NowResting, FirstOursIs DEF Resting
    <2>3. ASSUME Idle, ~reentered, registry # None, NEW t \in ToSet(targets[registry])
          PROVE  FirstOurs(t) # 0
      <3>1. targets[registry] \in Seq(Wrapped)
        BY <2>1, <2>3 DEF Typed, BooksTyped, TargetsTyped
      <3>2. DOMAIN targets[registry] = 1..Len(targets[registry])
            /\ \A k \in 1..Len(targets[registry]) : targets[registry][k] \in Wrapped
        BY <3>1, LenProperties, ElementOfSeq
      <3>3. In(t, targets[registry]) /\ t \in Wrapped
        BY <2>3, <3>2 DEF ToSet, In
      <3>4. t \in Slots
        BY <3>3, WrappedSlots
      <3>5. HasOurs(chain[t])
        BY <2>1, <2>3, <3>3, <3>4, NowResting DEF Resting
      <3> QED BY <2>1, <3>4, <3>5, FirstOursIs
    <2> QED BY <2>1, <2>2, <2>3 DEF RegistryTellsTruth
  <1> QED BY <1>1, InstrumentationInvariant, PTL

(* Wrappers of ours never stack, also through instrument() inside itself   *)
(* and wrappers of other libraries between them (_util.py:336).            *)
THEOREM WrappersStayApart == Spec => []WrappersNeverStack
  <1>1. InstrumentationInv => WrappersNeverStack
    BY DEF InstrumentationInv, LayersInv, Apart, WrappersNeverStack
  <1> QED BY <1>1, InstrumentationInvariant, PTL

(* What other libraries layered on a slot stays, in its order, whatever we *)
(* install and remove under it, over it and between (_util.py:371).        *)
THEOREM ForeignLayersStay == Spec => []ForeignLayersKept
  <1>1. InstrumentationInv => ForeignLayersKept
    BY DEF InstrumentationInv, LayersInv
  <1> QED BY <1>1, InstrumentationInvariant, PTL

(* A record factory that reaches itself through the one it captured has    *)
(* its guard up (logging_ext/__init__.py:66).                              *)
THEOREM FactoryTerminates == Spec => []RecordsEnd
  <1>1. InstrumentationInv => RecordsEnd
    <2> SUFFICES ASSUME InstrumentationInv
                 PROVE  RecordsEnd
      OBVIOUS
    <2> DEFINE ours == {n \in DOMAIN chain["factory"] : Ours(chain["factory"][n])}
    <2>1. Guarded /\ chain["factory"] \in Seq(Layers)
      BY DEF InstrumentationInv, LayersInv, Typed, ChainTyped, Slots
    <2>2. DOMAIN chain["factory"] = 1..Len(chain["factory"])
      BY <2>1, LenProperties
    <2>3. ASSUME OnlyOne(chain["factory"])
          PROVE  ~(Cardinality(ours) > 1)
      <3>1. \A m, n \in ours : m = n
        BY <2>2, <2>3 DEF OnlyOne
      <3> HIDE DEF ours
      <3>2. CASE ours = {}
        <4>1. Cardinality(ours) = 0
          BY <3>2, FS_EmptySet
        <4> QED BY <4>1
      <3>3. CASE ours # {}
        <4>1. PICK m \in ours : ours = {m}
          BY <3>1, <3>3
        <4>2. Cardinality(ours) = 1
          BY <4>1, FS_Singleton
        <4> QED BY <4>2
      <3> QED BY <3>2, <3>3
    <2> HIDE DEF ours
    <2>4. Cardinality(ours) > 1 => guard
      BY <2>1, <2>3 DEF Guarded
    <2> QED BY <2>4 DEF RecordsEnd, ours
  <1> QED BY <1>1, InstrumentationInvariant, PTL

(* Connections of one cursor class get one traced class, however many      *)
(* threads build one at once, while the cache has room                     *)
(* (psycopg/__init__.py:88).                                               *)
THEOREM ClassIsStable == Spec => []OneTracedClass
  <1>1. InstrumentationInv => OneTracedClass
    BY DEF InstrumentationInv, LayersInv, OneClass, OneTracedClass
  <1> QED BY <1>1, InstrumentationInvariant, PTL
===============================================================================
