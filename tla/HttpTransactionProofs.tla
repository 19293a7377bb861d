------------------------- MODULE HttpTransactionProofs -------------------------
(***************************************************************************)
(* Proofs about HttpTransaction, for any messages, settings, generations,  *)
(* children and number of verdicts kept.                                   *)
(***************************************************************************)
EXTENDS HttpTransaction, FiniteSetTheorems, SequenceTheorems,
        WellFoundedInduction, TLAPS

-----------------------------------------------------------------------------
(* First and last places *)
LEMMA LeastNumber ==
  ASSUME NEW T, T \subseteq Nat, T # {}
  PROVE  Min(T) \in T /\ \A j \in T : Min(T) <= j
  <1>1. \E i \in T : \A j \in T : <<j, i>> \notin OpToRel(<, Nat)
    BY WFMin, NatLessThanWellFounded
  <1>2. PICK i \in T : \A j \in T : <<j, i>> \notin OpToRel(<, Nat)
    BY <1>1
  <1>3. ASSUME NEW j \in T PROVE i <= j
    <2>1. ~(j < i)
      BY <1>2 DEF OpToRel
    <2> QED BY <2>1
  <1> QED BY <1>3 DEF Min

LEMMA LastPlace ==
  ASSUME NEW n \in Nat, NEW T, T \subseteq 1..n, T # {}
  PROVE  Max(T) \in T /\ \A j \in T : Max(T) >= j
  <1> DEFINE R == {n - i : i \in T}
  <1>1. R \subseteq Nat
    <2>1. ASSUME NEW i \in T PROVE n - i \in Nat
      <3>1. i \in 1..n
        OBVIOUS
      <3> QED BY <3>1
    <2> QED BY <2>1
  <1>2. R # {}
    OBVIOUS
  <1>3. PICK k \in R : \A l \in R : k <= l
    <2> HIDE DEF R
    <2> QED BY <1>1, <1>2, LeastNumber
  <1>4. PICK i \in T : k = n - i
    BY <1>3
  <1>5. ASSUME NEW j \in T PROVE i >= j
    <2>1. k <= n - j
      BY <1>3
    <2>2. i \in Int /\ j \in Int
      <3>1. i \in 1..n /\ j \in 1..n
        OBVIOUS
      <3> QED BY <3>1
    <2> QED BY <1>4, <2>1, <2>2
  <1> QED BY <1>5 DEF Max

-----------------------------------------------------------------------------
(* The readers *)

(* What a reader that lets later headers win has under a name, when it     *)
(* went through the places s of the message.                               *)
Places(m, s, name) == {i \in s : m[i].name = name}
LastOf(m, s, name) == m[Max(Places(m, s, name))].value

Entered(d, m, i) == Put(d, m[i].name, m[i].value)
(* g is the function by which the fold of Lower computes.                  *)
Decodes(g, m) ==
  g = [s \in SUBSET DOMAIN m |->
         IF s = {} THEN <<>> ELSE Entered(g[s \ {Max(s)}], m, Max(s))]

LEMMA LowerByFold ==
  ASSUME NEW m
  PROVE  Lower(m) = (CHOOSE g : Decodes(g, m))[DOMAIN m]
  BY DEF Lower, FoldLeft, MapThenFoldSet, Decodes, Entered

(* A decoder knows that function in closed form. *)
Decoded(m, s) == [n \in {m[i].name : i \in s} |-> LastOf(m, s, n)]

LEMMA DecodedIsEmpty ==
  ASSUME NEW m
  PROVE  Decoded(m, {}) = <<>>
  <1>1. DOMAIN <<>> = {}
    OBVIOUS
  <1> QED BY <1>1 DEF Decoded

LEMMA DecodedStep ==
  ASSUME NEW n \in Nat, NEW m, NEW s, s \subseteq 1..n, s # {}
  PROVE  /\ Max(s) \in s
         /\ Decoded(m, s) = Entered(Decoded(m, s \ {Max(s)}), m, Max(s))
  <1> DEFINE k == Max(s)
             t == s \ {k}
  <1>1. k \in s /\ \A j \in s : k >= j
    BY LastPlace
  <1>3. {m[i].name : i \in s} = {m[k].name} \cup {m[i].name : i \in t}
    BY <1>1
  <1>4. LastOf(m, s, m[k].name) = m[k].value
    <2>1. k \in Places(m, s, m[k].name) /\ Places(m, s, m[k].name) \subseteq s
      BY <1>1 DEF Places
    <2>2. Max(Places(m, s, m[k].name)) \in s
          /\ Max(Places(m, s, m[k].name)) >= k
      <3> HIDE DEF k
      <3>1. Places(m, s, m[k].name) \subseteq 1..n /\ Places(m, s, m[k].name) # {}
        BY <2>1
      <3> QED BY <2>1, <3>1, LastPlace
    <2>3. k \in Int /\ Max(Places(m, s, m[k].name)) \in Int
      <3>1. k \in 1..n /\ Max(Places(m, s, m[k].name)) \in 1..n
        BY <1>1, <2>2
      <3> QED BY <3>1
    <2>4. Max(Places(m, s, m[k].name)) = k
      BY <1>1, <2>2, <2>3
    <2> QED BY <2>4 DEF LastOf
  <1>5. ASSUME NEW a \in {m[i].name : i \in t}, a # m[k].name
        PROVE  LastOf(m, s, a) = LastOf(m, t, a)
    <2>1. Places(m, s, a) = Places(m, t, a)
      BY <1>5 DEF Places
    <2> QED BY <2>1 DEF LastOf
  <1>6. Entered(Decoded(m, t), m, k)
          = [a \in {m[k].name} \cup {m[i].name : i \in t} |->
               IF a = m[k].name THEN m[k].value ELSE LastOf(m, t, a)]
    BY DEF Entered, Put, Decoded
  <1>7. Decoded(m, s) = [a \in {m[k].name} \cup {m[i].name : i \in t} |-> LastOf(m, s, a)]
    BY <1>3 DEF Decoded
  <1> HIDE DEF k, t
  <1>8. Decoded(m, s) = Entered(Decoded(m, t), m, k)
    BY <1>4, <1>5, <1>6, <1>7
  <1> QED BY <1>1, <1>8 DEF k, t

LEMMA SmallestSet ==
  ASSUME NEW S, NEW T \in SUBSET FiniteSubsetsOf(S), T # {}
  PROVE  \E U \in T : \A V \in T : V \subseteq U => V = U
  <1>1. \E x \in T : \A y \in T : <<y, x>> \notin StrictSubsetOrdering(S)
    BY WFMin, FS_StrictSubsetOrderingWellFounded
  <1> QED BY <1>1 DEF StrictSubsetOrdering, FiniteSubsetsOf

LEMMA DecodedDecodes ==
  ASSUME NEW n \in Nat, NEW m, DOMAIN m = 1..n
  PROVE  Decodes([s \in SUBSET DOMAIN m |-> Decoded(m, s)], m)
  <1> DEFINE f == [s \in SUBSET DOMAIN m |-> Decoded(m, s)]
             rule(s) == IF s = {} THEN <<>> ELSE Entered(f[s \ {Max(s)}], m, Max(s))
  <1>1. ASSUME NEW s \in SUBSET DOMAIN m
        PROVE  f[s] = rule(s)
    <2>1. CASE s = {}
      BY <2>1, DecodedIsEmpty
    <2>2. CASE s # {}
      <3>1. Decoded(m, s) = Entered(Decoded(m, s \ {Max(s)}), m, Max(s))
        BY <2>2, DecodedStep
      <3>2. f[s \ {Max(s)}] = Decoded(m, s \ {Max(s)})
        OBVIOUS
      <3>3. rule(s) = Entered(f[s \ {Max(s)}], m, Max(s))
        BY <2>2
      <3> QED BY <3>1, <3>2, <3>3
    <2> QED BY <2>1, <2>2
  <1>2. f = [s \in SUBSET DOMAIN m |-> f[s]]
    OBVIOUS
  <1>3. f = [s \in SUBSET DOMAIN m |-> rule(s)]
    <2> HIDE DEF f, rule
    <2> QED BY <1>1, <1>2
  <1> QED BY <1>3 DEF Decodes

(* There is no other such function. *)
LEMMA DecodesIsUnique ==
  ASSUME NEW n \in Nat, NEW m, DOMAIN m = 1..n,
         NEW g, NEW h, Decodes(g, m), Decodes(h, m)
  PROVE  g[1..n] = h[1..n]
  <1> DEFINE U == 1..n
             T == {t \in FiniteSubsetsOf(U) : g[t] # h[t]}
  <1>1. U \in FiniteSubsetsOf(U)
    BY FS_Interval DEF FiniteSubsetsOf
  <1>2. CASE T # {}
    <2>1. PICK t \in T : \A v \in T : v \subseteq t => v = t
      <3>1. T \in SUBSET FiniteSubsetsOf(U)
        OBVIOUS
      <3> HIDE DEF T
      <3> QED BY <1>2, <3>1, SmallestSet
    <2>2. t \subseteq U /\ IsFiniteSet(t) /\ g[t] # h[t]
      BY <2>1 DEF FiniteSubsetsOf
    <2>3. t # {}
      BY <2>2 DEF Decodes
    <2>4. Max(t) \in t
      BY <2>2, <2>3, LastPlace
    <2>5. IsFiniteSet(t \ {Max(t)})
      BY <2>2, FS_RemoveElement
    <2>6. g[t \ {Max(t)}] = h[t \ {Max(t)}]
      BY <2>1, <2>2, <2>4, <2>5 DEF FiniteSubsetsOf
    <2>7. /\ g[t] = Entered(g[t \ {Max(t)}], m, Max(t))
          /\ h[t] = Entered(h[t \ {Max(t)}], m, Max(t))
      BY <2>2, <2>3 DEF Decodes
    <2> QED BY <2>2, <2>6, <2>7
  <1> QED BY <1>1, <1>2

LEMMA LowerIs ==
  ASSUME NEW n \in Nat, NEW m, DOMAIN m = 1..n
  PROVE  Lower(m) = Decoded(m, DOMAIN m)
  <1> DEFINE f == [s \in SUBSET DOMAIN m |-> Decoded(m, s)]
             g == CHOOSE x : Decodes(x, m)
  <1>1. Decodes(f, m)
    BY DecodedDecodes
  <1>2. Decodes(g, m)
    <2> HIDE DEF f
    <2> QED BY <1>1
  <1>3. g[1..n] = f[1..n]
    <2> HIDE DEF f, g
    <2> QED BY <1>1, <1>2, DecodesIsUnique
  <1>4. Lower(m) = g[DOMAIN m]
    BY LowerByFold
  <1>5. f[1..n] = Decoded(m, DOMAIN m)
    OBVIOUS
  <1> HIDE DEF f, g
  <1> QED BY <1>3, <1>4, <1>5

(* What a carrier holds under a name.                                      *)
Holds(carry, m, name) ==
  IF Named(m, name) = {} THEN Absent
  ELSE m[IF carry = "mapping" THEN Min(Named(m, name)) ELSE Max(Named(m, name))].value

LEMMA LookupIs ==
  ASSUME NEW n \in Nat, NEW m, DOMAIN m = 1..n, NEW name, NEW carry, carry # "mapping"
  PROVE  Lookup(Lower(m), name) = Holds(carry, m, name)
  <1>1. Lower(m) = Decoded(m, DOMAIN m)
    BY LowerIs
  <1>2. Places(m, DOMAIN m, name) = Named(m, name)
    BY DEF Places, Named
  <1>3. name \in DOMAIN Decoded(m, DOMAIN m) <=> Named(m, name) # {}
    BY DEF Decoded, Named
  <1>4. Named(m, name) # {} => Decoded(m, DOMAIN m)[name] = m[Max(Named(m, name))].value
    BY <1>2, <1>3 DEF Decoded, LastOf
  <1> QED BY <1>1, <1>3, <1>4 DEF Lookup, Holds

(* Scanned from the end, the first match is the last place. *)
LEMMA ReverseScanIs ==
  ASSUME NEW m, NEW n \in Nat, DOMAIN m = 1..n, Len(m) = n, NEW name, NEW carry,
         carry # "mapping"
  PROVE  ReverseScan(m, name) = Holds(carry, m, name)
  <1> DEFINE r == Reverse(m)
             I == {i \in 1..Len(r) : r[i].name = name}
             N == Named(m, name)
             k == IF I # {} THEN Min(I) ELSE 0
  <1>1. r = [i \in 1..n |-> m[(n - i) + 1]] /\ r \in [1..n -> {m[i] : i \in 1..n}]
    BY DEF Reverse
  <1>2. Len(r) = n
    BY <1>1
  <1>3. ReverseScan(m, name) = IF k = 0 THEN Absent ELSE r[k].value
    BY DEF ReverseScan, SelectInSeq
  <1>4. N \subseteq 1..n
    BY DEF Named
  <1>5. I = {i \in 1..n : (n - i) + 1 \in N}
    <2>1. ASSUME NEW i \in 1..n
          PROVE  r[i].name = name <=> (n - i) + 1 \in N
      BY <1>1 DEF Named
    <2> HIDE DEF N, r
    <2> QED BY <1>2, <2>1
  <1>6. CASE N = {}
    <2>1. I = {}
      BY <1>5, <1>6
    <2> HIDE DEF I
    <2> QED BY <1>3, <1>6, <2>1 DEF Holds
  <1>7. CASE N # {}
    <2> DEFINE x == Max(N)
    <2>1. x \in N /\ \A j \in N : x >= j
      <3> HIDE DEF N
      <3> QED BY <1>4, <1>7, LastPlace
    <2>2. x \in 1..n
      BY <1>4, <2>1
    <2> DEFINE y == (n - x) + 1
    <2> HIDE DEF x, N, I, r
    <2>3. y \in 1..n /\ (n - y) + 1 = x
      BY <2>2
    <2>4. y \in I
      BY <1>5, <2>1, <2>3
    <2>5. I \subseteq Nat
      BY <1>5
    <2>6. Min(I) \in I /\ Min(I) <= y
      BY <2>4, <2>5, LeastNumber
    <2>7. Min(I) \in 1..n /\ (n - Min(I)) + 1 <= x
      BY <1>5, <2>1, <2>6
    <2>8. Min(I) = y
      BY <2>2, <2>6, <2>7
    <2>9. k = y /\ k # 0
      BY <2>3, <2>4, <2>8
    <2>10. r[y] = m[x]
      BY <1>1, <2>3
    <2> HIDE DEF k, y
    <2> QED BY <1>3, <1>7, <2>9, <2>10 DEF Holds, N, x
  <1> QED BY <1>6, <1>7

(* Every reader gives what its carrier holds, whatever it was asked before.*)
LEMMA GetIs ==
  ASSUME NEW H, NEW m \in Seq(H), NEW carry \in Carriers, NEW name, NEW probe
  PROVE  Get(carry, m, name, probe) = Holds(carry, m, name)
  <1>1. Len(m) \in Nat /\ DOMAIN m = 1..Len(m)
    OBVIOUS
  <1>2. carry # "mapping" => Lookup(Lower(m), name) = Holds(carry, m, name)
    BY <1>1, LookupIs
  <1>3. carry # "mapping" => ReverseScan(m, name) = Holds(carry, m, name)
    BY <1>1, ReverseScanIs
  <1>4. CASE carry = "pairs"
    BY <1>2, <1>3, <1>4 DEF Get, AsgiGet
  <1>5. CASE carry = "environ"
    BY <1>2, <1>5 DEF Get, EnvironGet
  <1>6. CASE carry = "metadata"
    BY <1>2, <1>6 DEF Get, MetadataGet
  <1>7. CASE carry = "mapping"
    BY <1>7 DEF Get, MultiDictGet, Holds
  <1> QED BY <1>4, <1>5, <1>6, <1>7 DEF Carriers

-----------------------------------------------------------------------------
(* The wrappers *)

(* What the proofs need to know of a wrapper. *)
Sound(w) ==
  LET x == Wrappers[w]
  IN /\ x.guard \in {"sentinel", "local"}
     /\ x.route \in {"before", "after", "returned", "never"}
     /\ x.classify \in {"status", "django", None}
     /\ x.scope \in BOOLEAN /\ x.opens \in BOOLEAN /\ x.precheck \in BOOLEAN
     /\ x.inner \in BOOLEAN /\ x.post \in BOOLEAN /\ x.always \in BOOLEAN
     /\ x.post => x.guard = "sentinel"
     /\ x.inner /\ x.opens => w = "handle"
     /\ x.inner => x.route = "before"
     /\ x.precheck => x.route = "never"
     /\ ~x.scope => x.guard = "local"
     /\ x.route = "returned" => ~x.opens
     /\ x.scope <=> w # "traced"
     /\ x.opens => (x.classify = None <=> w \in Unclassified)
     /\ x.classify = "django" <=> w \in {"get_response", "get_response_async"}

LEMMA WrapperFacts == \A w \in DOMAIN Wrappers : Sound(w)
  <1>1. ASSUME NEW w \in DOMAIN Wrappers
        PROVE  Sound(w)
    <2> USE DEF Wrappers, Wrapper, Sound, Unclassified, None
    <2>1. CASE w = "dispatch"
      BY <2>1 DEF FlaskDispatch
    <2>2. CASE w = "finalize"
      BY <2>2 DEF FlaskFinalize
    <2>3. CASE w = "call_view"
      BY <2>3 DEF PyramidView
    <2>4. CASE w = "get_response"
      BY <2>4 DEF DjangoView
    <2>5. CASE w = "get_response_async"
      BY <2>5 DEF DjangoAsyncView, DjangoView
    <2>6. CASE w = "get_responder"
      BY <2>6 DEF FalconGetResponder
    <2>7. CASE w = "responder"
      BY <2>7 DEF FalconResponder
    <2>8. CASE w = "handle"
      BY <2>8 DEF StarletteRoute, None
    <2>9. CASE w = "fastapi_handle"
      BY <2>9 DEF FastAPIRoute, StarletteRoute, None
    <2>10. CASE w = "run_endpoint"
      BY <2>10 DEF FastAPIEndpoint, None
    <2>11. CASE w = "resolve"
      BY <2>11 DEF AiohttpResolve, FalconGetResponder
    <2>12. CASE w = "traced"
      BY <2>12 DEF AiohttpHandler
    <2>13. \/ w = "dispatch" \/ w = "finalize" \/ w = "call_view" \/ w = "get_response"
           \/ w = "get_response_async" \/ w = "get_responder" \/ w = "responder"
           \/ w = "handle" \/ w = "fastapi_handle" \/ w = "run_endpoint" \/ w = "resolve"
           \/ w = "traced"
      OBVIOUS
    <2> QED BY <2>1, <2>2, <2>3, <2>4, <2>5, <2>6, <2>7, <2>8, <2>9, <2>10, <2>11, <2>12, <2>13
  <1> QED BY <1>1

(* The exceptions that are control flow. *)
Answered(classify, o) ==
  o \in {"abort"} \cup (IF classify = "status" THEN {"finish"} ELSE {}) /\ classify # None

LEMMA ControlFlowIs ==
  \A o \in DOMAIN Exceptions, c \in {"status", "django", None} :
     ControlFlow(c, o) <=> Answered(c, o)
  <1>1. DOMAIN Exceptions = {"abort", "finish", "server", "namesake", "error"}
    BY DEF Exceptions
  <1>2. /\ \A o \in DOMAIN Exceptions : MroHas(o) <=> o \in {"abort", "finish", "server"}
        /\ Exceptions["abort"].status = 404 /\ Exceptions["finish"].status = 0
        /\ Exceptions["server"].status = 500
    BY DEF Exceptions, MroHas
  <1>3. \A o \in DOMAIN Exceptions : ControlFlowPredicate(o) <=> o \in {"abort", "finish"}
    BY <1>1, <1>2 DEF ControlFlowPredicate, HttpExceptionStatus
  <1>4. \A o \in DOMAIN Exceptions : DjangoControlFlow(o) <=> o = "abort"
    BY <1>1, <1>2 DEF DjangoControlFlow
  <1> QED BY <1>3, <1>4 DEF ControlFlow, Answered, IsException, None
-----------------------------------------------------------------------------
(* The inductive invariant *)

Phases == {"idle", "received", "admitted", "refresh", "opened", "annotated", "serving",
           "answered", "over"}
Errors == {"ignored", "real"}

RequestTyped ==
  /\ phase \in Phases /\ app \in Apps \cup {None} /\ todo \in Seq(DOMAIN Wrappers)
  /\ collects \in BOOLEAN /\ carrier \in Carriers \cup {None} /\ raw \in Messages \cup {<<>>}
  /\ span \in {None, "null", "unsampled", "sampled"}

ConfigTyped ==
  /\ revision \in 1..MaxRevision
  /\ used \subseteq {"request", "client", "response"} \X Generations
  /\ cached \in 0..revision /\ reloading \in 0..revision /\ other \in 0..revision
  /\ admitted \in 0..revision /\ snapshot \in 0..revision

SpanTyped ==
  /\ children \in [Children -> {None, "null", "sampled_child", "unsampled_child"}]
  /\ ended \in BOOLEAN /\ failed \in BOOLEAN
  /\ verdicts \in Seq(Errors) /\ Len(verdicts) <= MaxVerdicts
  /\ marked \subseteq Errors /\ erred \subseteq Errors
  /\ ToSet(verdicts) \cup marked \subseteq erred
  /\ status \in {0, 200, 404, 500} /\ urlStat.status \in {0, status}

CallTyped ==
  /\ broken \in BOOLEAN /\ matched \in BOOLEAN /\ stashed \in BOOLEAN
  /\ wrapper \in DOMAIN Wrappers \cup {None}
  /\ step \in {"idle", "precheck", "body", "target", "leave", "guard", "over"}
  /\ mode \in {None, "traced", "plain", "inner", "untraced", "raw"}
  /\ event \in {None, "open", "clean", "failed"}
  /\ outcome \in Outcomes \cup {None, "ours", "classifier"}
  /\ seen \in Outcomes \cup {None, "ours", "classifier"}

Early   == {"idle", "received"}
Pending == {"admitted", "refresh"}
Before  == Early \cup Pending
Later   == {"serving", "answered", "over"}

(* What has not happened yet, and what the end settled.                    *)
InOrder ==
  /\ phase \in Early => span = None
  /\ phase \in Pending \cup {"annotated"} => span = "sampled"
  /\ phase # "over" => urlStat = NoStat /\ ended = FALSE
  /\ phase = "over" => ended = TRUE
  /\ phase \notin Later => \A c \in Children : children[c] = None

(* Settings are those of the span's own generation, or none.               *)
OneConfig ==
  /\ phase \in Before => snapshot = 0 /\ used = {}
  /\ phase \notin Before /\ span = "sampled" => snapshot \in {admitted, 0}
  /\ \A u \in used : u[2] = snapshot

(* Until the end every error is in one of two places, and none of them is  *)
(* there before the span.                                                  *)
ErrorsKept ==
  /\ phase \notin {"serving", "answered", "over"} => verdicts = <<>> /\ marked = {}
  /\ phase # "over" => erred = ToSet(verdicts) \cup marked
  /\ phase = "over" /\ span = "unsampled" => (failed <=> "real" \in erred)

(* A child is of its root's kind. *)
KindPasses ==
  \A c \in Children :
    /\ span = None       => children[c] = None
    /\ span = "sampled"   => children[c] \in {None, "sampled_child", "null"}
    /\ span = "unsampled" => children[c] \in {None, "unsampled_child"}
    /\ span = "null"      => children[c] \in {None, "null"}

(* The message is there until the application runs, and so is its trace.   *)
Undecided ==
  /\ phase \notin {"idle", "serving", "answered", "over"} => raw \in Messages /\ carrier \in Carriers
  /\ phase \in {"admitted", "refresh", "opened"} /\ span = "sampled" =>
       /\ Claimed(Sampled) # <<"s0">>
       /\ (\A n \in ToSet(PinpointHeaders) \ {Sampled} : Claimed(n) # Absent)
            => trace = Claimed(TraceID)

(* Where a call is tells how often the target ran and what is to be seen.  *)
Untouched == mode = None /\ event = None /\ ran = 0 /\ outcome = None /\ seen = None

(* The target ran once; Starlette's a second time, after a failure.        *)
HasRun ==
  /\ outcome \in Outcomes
  /\ ran = 1 \/ (ran = 2 /\ wrapper = "handle" /\ mode = "untraced")

(* What may have been made of its outcome. *)
PassedOn ==
  \/ seen = outcome
  \/ seen = "ours" /\ W.post /\ mode = "plain" /\ outcome = "returns"
  \/ seen = "classifier" /\ broken /\ ~W.scope /\ mode = "traced"

EventTells ==
  /\ mode = "traced" => event \in {"clean", "failed"}
  /\ broken => mode = "traced" /\ IsException(outcome) /\ (event = "failed" <=> W.scope)
  /\ mode = "traced" /\ ~broken =>
       (event = "failed" <=> IsException(outcome) /\ ~Answered(W.classify, outcome))

ModeFits ==
  /\ mode = "raw" => W.precheck
  /\ mode \in {"inner", "traced", "untraced"} => W.opens
  /\ mode = "inner" => W.inner

CallInv ==
  /\ step = "idle" => Untouched /\ ~broken /\ wrapper = None
  /\ step # "idle" => wrapper \in DOMAIN Wrappers /\ ModeFits
  /\ step \in {"precheck", "body"} => Untouched /\ ~broken
  /\ step = "target" =>
       /\ mode # None /\ ~broken
       /\ \/ ran = 0 /\ outcome = None
          \/ ran = 1 /\ outcome # "returns" /\ mode = "untraced" /\ wrapper = "handle"
  /\ step = "leave" => mode # None /\ ~broken /\ HasRun
  /\ step = "guard" =>
       \/ mode = None /\ ran = 0 /\ seen = "interrupt"
       \/ /\ mode = "traced" /\ ran = 0 /\ outcome = None /\ seen = "ours"
          /\ W.guard = "sentinel" /\ ~broken
       \/ HasRun /\ PassedOn /\ EventTells
  /\ step = "over" =>
       \/ mode = None /\ ran = 0 /\ seen = "interrupt"
       \/ /\ HasRun /\ EventTells
          /\ seen = outcome \/ (ran = 1 /\ seen = "classifier" /\ broken /\ ~W.scope)

(* The template of a route that was matched is with the root, but for the  *)
(* moment between the two, and for calls whose event could not be opened.  *)
WantsRoute == span = "sampled" \/ (span = "unsampled" /\ collects)
Leaving ==
  step = "leave" /\ mode \in {"traced", "plain"}
    /\ (W.route = "after" \/ (W.route = "returned" /\ outcome = "returns"))
RouteKept ==
  matched /\ WantsRoute /\ ~stashed =>
    \/ Leaving
    \/ step # "idle" /\ mode = "untraced" /\ W.route = "after"
    \/ step = "idle" /\ todo = <<>>
(* Nothing follows a wrapper that stashes on its way out. *)
AfterIsLast ==
  /\ step # "idle" /\ W.route = "after" => todo = <<>>
  /\ \A i \in DOMAIN todo : Wrappers[todo[i]].route = "after" => i = Len(todo)
AtRest ==
  /\ phase # "serving" => step = "idle"
  /\ app = Bare => todo = <<>> /\ step = "idle"
  /\ phase \notin Later => ~matched /\ ~stashed
Told == phase = "over" => urlStat = UrlStat

RouteInv == RouteKept /\ AfterIsLast /\ AtRest /\ Told

TransactionInv ==
  /\ RequestTyped /\ ConfigTyped /\ SpanTyped /\ CallTyped
  /\ InOrder /\ OneConfig /\ ErrorsKept /\ KindPasses /\ Undecided
  /\ RecordedFromTheRequest /\ CallInv /\ RouteInv

LEMMA TypedIsTypeOK ==
  ASSUME RequestTyped, ConfigTyped, SpanTyped, CallTyped
  PROVE  TypeOK
  <1>1. ToSet(todo) \subseteq DOMAIN Wrappers
    <2> DEFINE D == DOMAIN Wrappers
    <2>1. todo \in Seq(D)
      BY DEF RequestTyped
    <2> HIDE DEF D
    <2>2. \A i \in DOMAIN todo : todo[i] \in D
      BY <2>1
    <2>3. ToSet(todo) \subseteq D
      BY <2>2 DEF ToSet
    <2> QED BY <2>3 DEF D
  <1>2. /\ phase \in {"idle", "received", "admitted", "refresh", "opened", "annotated",
                      "serving", "answered", "over"}
        /\ app \in Apps \cup {None} /\ carrier \in Carriers \cup {None}
        /\ raw \in Messages \cup {<<>>} /\ span \in {None, "null", "unsampled", "sampled"}
    BY DEF RequestTyped, Phases
  <1>3. {collects, ended, failed, broken, matched, stashed} \subseteq BOOLEAN
    <2>1. ASSUME NEW S, NEW a \in S, NEW b \in S, NEW c \in S, NEW d \in S,
                 NEW e \in S, NEW f \in S
          PROVE  {a, b, c, d, e, f} \subseteq S
      OBVIOUS
    <2>2. /\ collects \in BOOLEAN /\ ended \in BOOLEAN /\ failed \in BOOLEAN
          /\ broken \in BOOLEAN /\ matched \in BOOLEAN /\ stashed \in BOOLEAN
      BY Zenon DEF RequestTyped, SpanTyped, CallTyped
    <2> QED BY <2>1, <2>2, Zenon
  <1> QED BY <1>1, <1>2, <1>3 DEF TypeOK, ConfigTyped, SpanTyped, CallTyped

(* What a framework calls. *)
LEMMA FrameworksCall ==
  \A f \in DOMAIN Frameworks : Frameworks[f] \in Seq(DOMAIN Wrappers)
  <1>1. DOMAIN Wrappers = {"dispatch", "finalize", "call_view", "get_response",
                           "get_response_async", "get_responder", "responder", "handle",
                           "fastapi_handle", "run_endpoint", "resolve", "traced"}
    BY DEF Wrappers
  <1>2. \A w \in DOMAIN Wrappers : <<w>> \in Seq(DOMAIN Wrappers)
    OBVIOUS
  <1>3. \A v, w \in DOMAIN Wrappers : <<v, w>> \in Seq(DOMAIN Wrappers)
    OBVIOUS
  <1>4. DOMAIN Frameworks = {"flask", "pyramid", "django", "django_asgi", "falcon",
                             "starlette", "fastapi", "aiohttp"}
    BY DEF Frameworks
  <1>5. /\ Frameworks["flask"] = <<"dispatch", "finalize">>
        /\ Frameworks["pyramid"] = <<"call_view">>
        /\ Frameworks["django"] = <<"get_response">>
        /\ Frameworks["django_asgi"] = <<"get_response_async">>
        /\ Frameworks["falcon"] = <<"get_responder", "responder">>
        /\ Frameworks["starlette"] = <<"handle">>
        /\ Frameworks["fastapi"] = <<"fastapi_handle", "run_endpoint">>
        /\ Frameworks["aiohttp"] = <<"resolve", "traced">>
    BY DEF Frameworks
  <1> DEFINE D == DOMAIN Wrappers
  <1>6. /\ "dispatch" \in D /\ "finalize" \in D /\ "call_view" \in D /\ "get_response" \in D
        /\ "get_response_async" \in D /\ "get_responder" \in D /\ "responder" \in D
        /\ "handle" \in D /\ "fastapi_handle" \in D /\ "run_endpoint" \in D
        /\ "resolve" \in D /\ "traced" \in D
    BY <1>1
  <1> HIDE DEF D
  <1>7. /\ Frameworks["flask"] \in Seq(D) /\ Frameworks["pyramid"] \in Seq(D)
        /\ Frameworks["django"] \in Seq(D) /\ Frameworks["django_asgi"] \in Seq(D)
    BY <1>5, <1>6
  <1>8. /\ Frameworks["falcon"] \in Seq(D) /\ Frameworks["starlette"] \in Seq(D)
        /\ Frameworks["fastapi"] \in Seq(D) /\ Frameworks["aiohttp"] \in Seq(D)
    BY <1>5, <1>6
  <1>9. \A f \in DOMAIN Frameworks : Frameworks[f] \in Seq(D)
    BY <1>4, <1>7, <1>8
  <1> QED BY <1>9 DEF D

-----------------------------------------------------------------------------
(* Types *)

(* The configuration moves on other threads, and in new_span().            *)
ConfigSteps ==
  NewSpan \/ CompareRevision \/ Refresh \/ HotReload \/ ReloadFetches \/ ReloadStores
  \/ OtherAdmitted \/ OtherRefreshes \/ AnnotateServerRequest \/ ClientRequest
  \/ EndServerSpan \/ NextRequest

LEMMA ConfigRests ==
  ASSUME [Next]_vars, ~ConfigSteps
  PROVE  UNCHANGED configVars
  BY DEF Next, ConfigSteps, vars, configVars, Receive, AgentDisabled, Serve, CallView, InView,
         ViewDone, Answer, SetError, TakeChild

LEMMA ConfigTypedKeeps ==
  ASSUME TransactionInv, [Next]_vars
  PROVE  ConfigTyped'
  <1>1. ConfigTyped /\ MaxRevision \in Nat /\ revision \in Nat /\ revision <= MaxRevision
        /\ revision > 0
    BY HttpTransactionAssumption DEF TransactionInv, ConfigTyped
  <1>2. snapshot \in Generations
    BY <1>1 DEF ConfigTyped, Generations
  <1>3. CASE ~ConfigSteps
    BY <1>1, <1>3, ConfigRests DEF ConfigTyped, configVars
  <1>4. CASE NewSpan
    <2>1. /\ revision' = revision /\ used' = used /\ cached' = cached /\ reloading' = reloading
          /\ other' = other /\ admitted' = revision /\ snapshot' = snapshot
      BY <1>4 DEF NewSpan
    <2> QED BY <1>1, <2>1 DEF ConfigTyped
  <1>5. CASE CompareRevision
    BY <1>1, <1>5 DEF ConfigTyped, CompareRevision
  <1>6. CASE Refresh
    BY <1>1, <1>6 DEF ConfigTyped, Refresh, LoadSpanConfig
  <1>7. CASE HotReload
    BY <1>1, <1>7 DEF ConfigTyped, HotReload
  <1>8. CASE ReloadFetches
    BY <1>1, <1>8 DEF ConfigTyped, ReloadFetches
  <1>9. CASE ReloadStores
    BY <1>1, <1>9 DEF ConfigTyped, ReloadStores
  <1>10. CASE OtherAdmitted
    BY <1>1, <1>10 DEF ConfigTyped, OtherAdmitted
  <1>11. CASE OtherRefreshes
    BY <1>1, <1>11 DEF ConfigTyped, OtherRefreshes
  <1>12. CASE AnnotateServerRequest
    BY <1>1, <1>2, <1>12 DEF ConfigTyped, AnnotateServerRequest, Settings
  <1>13. CASE ClientRequest
    BY <1>1, <1>2, <1>13 DEF ConfigTyped, ClientRequest, Settings
  <1>14. CASE EndServerSpan
    BY <1>1, <1>2, <1>14 DEF ConfigTyped, EndServerSpan, Settings
  <1>15. CASE NextRequest
    BY <1>1, <1>15 DEF ConfigTyped, NextRequest
  <1> QED BY <1>3, <1>4, <1>5, <1>6, <1>7, <1>8, <1>9, <1>10, <1>11, <1>12, <1>13, <1>14,
             <1>15 DEF ConfigSteps

RequestSteps ==
  Receive \/ NewSpan \/ AgentDisabled \/ CompareRevision \/ Refresh \/ AnnotateServerRequest
  \/ Serve \/ CallView \/ ViewDone \/ Answer \/ EndServerSpan \/ NextRequest

LEMMA RequestRests ==
  ASSUME [Next]_vars, ~RequestSteps
  PROVE  phase' = phase /\ UNCHANGED requestVars
  BY DEF Next, RequestSteps, vars, requestVars, HotReload, ReloadFetches, ReloadStores,
         OtherAdmitted, OtherRefreshes, ClientRequest, InView, SetError, TakeChild

LEMMA TailOfTodo ==
  ASSUME NEW D, NEW t \in Seq(D), t # <<>>
  PROVE  Tail(t) \in Seq(D) /\ Head(t) \in D
  OBVIOUS

LEMMA RequestTypedKeeps ==
  ASSUME TransactionInv, [Next]_vars
  PROVE  RequestTyped'
  <1>1. RequestTyped
    BY DEF TransactionInv
  <1>2. CASE ~RequestSteps
    BY <1>1, <1>2, RequestRests DEF RequestTyped, requestVars
  <1>3. CASE Receive
    <2>1. PICK a \in Apps, c \in Carriers, m \in Messages :
            /\ app' = a /\ carrier' = c /\ raw' = m
            /\ todo' = IF a = Bare THEN <<>> ELSE Frameworks[a]
      BY <1>3 DEF Receive
    <2>2. <<>> \in Seq(DOMAIN Wrappers)
      OBVIOUS
    <2>3. todo' \in Seq(DOMAIN Wrappers)
      BY <2>1, <2>2, FrameworksCall DEF Apps
    <2>4. phase' = "received" /\ collects' = collects /\ span' = span
      BY <1>3 DEF Receive
    <2> QED BY <1>1, <2>1, <2>3, <2>4 DEF RequestTyped, Phases
  <1>4. CASE NewSpan
    <2>1. PICK s \in NativeNewSpan(Inbound(carrier, raw)) :
            span' = s /\ phase' = IF s = "sampled" THEN "admitted" ELSE "opened"
      BY <1>4 DEF NewSpan
    <2>2. UNCHANGED <<app, todo, collects, carrier, raw>>
      BY <1>4 DEF NewSpan
    <2>3. span' \in {"sampled", "unsampled", "null"}
      BY <2>1 DEF NativeNewSpan
    <2> QED BY <1>1, <2>1, <2>2, <2>3 DEF RequestTyped, Phases
  <1>5. CASE AgentDisabled
    BY <1>1, <1>5 DEF RequestTyped, AgentDisabled, requestVars, Phases
  <1>6. CASE CompareRevision
    BY <1>1, <1>6 DEF RequestTyped, CompareRevision, requestVars, Phases
  <1>7. CASE Refresh
    BY <1>1, <1>7 DEF RequestTyped, Refresh, requestVars, Phases
  <1>8. CASE AnnotateServerRequest
    BY <1>1, <1>8 DEF RequestTyped, AnnotateServerRequest, requestVars, Phases
  <1>9. CASE Serve
    BY <1>1, <1>9 DEF RequestTyped, Serve, Phases
  <1>10. CASE CallView
    <2>1. todo' = Tail(todo) /\ todo # <<>>
          /\ UNCHANGED <<phase, app, collects, carrier, raw, span, trace>>
      BY <1>10 DEF CallView
    <2>2. todo' \in Seq(DOMAIN Wrappers)
      BY <1>1, <2>1, TailOfTodo DEF RequestTyped
    <2> QED BY <1>1, <2>1, <2>2 DEF RequestTyped
  <1>11. CASE ViewDone
    <2>1. /\ phase' = phase \/ phase' = "answered"
          /\ todo' = todo \/ todo' = <<>>
          /\ UNCHANGED <<app, collects, carrier, raw, span, trace>>
      BY <1>11 DEF ViewDone
    <2>2. <<>> \in Seq(DOMAIN Wrappers)
      OBVIOUS
    <2>3. todo' \in Seq(DOMAIN Wrappers)
      BY <1>1, <2>1, <2>2 DEF RequestTyped
    <2> QED BY <1>1, <2>1, <2>3 DEF RequestTyped, Phases
  <1>12. CASE Answer
    BY <1>1, <1>12 DEF RequestTyped, Answer, requestVars, Phases
  <1>13. CASE EndServerSpan
    BY <1>1, <1>13 DEF RequestTyped, EndServerSpan, requestVars, Phases
  <1>14. CASE NextRequest
    <2>1. <<>> \in Seq(DOMAIN Wrappers)
      OBVIOUS
    <2> QED BY <1>1, <1>14, <2>1 DEF RequestTyped, NextRequest, Phases
  <1> QED BY <1>2, <1>3, <1>4, <1>5, <1>6, <1>7, <1>8, <1>9, <1>10, <1>11, <1>12, <1>13,
             <1>14 DEF RequestSteps

LEMMA CallTypedKeeps ==
  ASSUME TransactionInv, [Next]_vars
  PROVE  CallTyped'
  <1>1. CallTyped
    BY DEF TransactionInv
  <1>2. CASE UNCHANGED <<callVars, routeVars>>
    BY <1>1, <1>2 DEF CallTyped, callVars, routeVars
  <1>3. CASE CallView
    <2>1. Head(todo) \in DOMAIN Wrappers
      BY <1>3, TailOfTodo DEF TransactionInv, RequestTyped, CallView
    <2> QED BY <1>1, <1>3, <2>1 DEF CallTyped, CallView, Call, routeVars
  <1>4. CASE InView
    <2>1. CallNext(span, collects)
      BY <1>4 DEF InView
    <2>2. CASE Precheck(span)
      BY <1>1, <2>2 DEF CallTyped, Precheck, routeVars
    <2>3. ASSUME StashBefore(span, collects)
          PROVE  matched' \in BOOLEAN /\ stashed' \in BOOLEAN
      BY <1>1, <2>3, Zenon DEF CallTyped, StashBefore, routeVars
    <2>4. CASE BodyPlain(span, collects)
      BY <1>1, <2>3, <2>4 DEF CallTyped, BodyPlain
    <2>5. CASE BodyOpens(span, collects)
      BY <1>1, <2>3, <2>5 DEF CallTyped, BodyOpens
    <2>6. CASE SetUpFails(span, collects)
      BY <1>1, <2>3, <2>6 DEF CallTyped, SetUpFails
    <2>7. CASE Interrupted
      BY <1>1, <2>7 DEF CallTyped, Interrupted, routeVars, Outcomes
    <2>8. CASE Target
      <3>1. matched' \in BOOLEAN
        BY <1>1, <2>8, Zenon DEF CallTyped, Target
      <3>2. outcome' \in Outcomes /\ step' = "leave"
            /\ UNCHANGED <<wrapper, mode, event, seen, broken, stashed>>
        BY <2>8 DEF Target
      <3> QED BY <1>1, <3>1, <3>2 DEF CallTyped
    <2>9. CASE LeaveScope(span, collects)
      <3>1. stashed' \in BOOLEAN
        BY <1>1, <2>9, Zenon DEF CallTyped, LeaveScope
      <3>2. broken' \in BOOLEAN
        BY <1>1, <2>9, Zenon DEF CallTyped, LeaveScope
      <3>3. /\ step' = "guard" /\ event' \in {"failed", "clean"}
            /\ seen' = outcome \/ seen' = "classifier"
            /\ UNCHANGED <<wrapper, mode, outcome, matched>>
        BY <2>9 DEF LeaveScope
      <3> QED BY <1>1, <3>1, <3>2, <3>3 DEF CallTyped
    <2>10. CASE LeavePlain(span, collects)
      <3>1. stashed' \in BOOLEAN
        BY <1>1, <2>10, Zenon DEF CallTyped, LeavePlain
      <3>2. /\ step' = "guard" /\ (seen' = outcome \/ seen' = "ours")
            /\ UNCHANGED <<wrapper, mode, event, outcome, broken, matched>>
        BY <2>10 DEF LeavePlain
      <3> QED BY <1>1, <3>1, <3>2 DEF CallTyped
    <2>11. CASE Guard
      BY <1>1, <2>11 DEF CallTyped, Guard, routeVars
    <2> QED BY <2>1, <2>2, <2>4, <2>5, <2>6, <2>7, <2>8, <2>9, <2>10, <2>11 DEF CallNext
  <1>5. CASE ViewDone
    BY <1>1, <1>5 DEF CallTyped, ViewDone, Forget, routeVars
  <1>6. CASE NextRequest
    <2>1. matched' \in BOOLEAN /\ stashed' \in BOOLEAN /\ UNCHANGED callVars
      BY <1>6 DEF NextRequest
    <2>2. broken' \in BOOLEAN
      BY <1>1, <2>1, Zenon DEF CallTyped, callVars
    <2> QED BY <1>1, <2>1, <2>2 DEF CallTyped, callVars
  <1>7. \/ CallView \/ InView \/ ViewDone \/ NextRequest
        \/ UNCHANGED <<callVars, routeVars>>
    BY DEF Next, vars, Receive, NewSpan, AgentDisabled, CompareRevision, Refresh, HotReload,
           ReloadFetches, ReloadStores, OtherAdmitted, OtherRefreshes, AnnotateServerRequest,
           Serve, ClientRequest, Answer, SetError, TakeChild, EndServerSpan
  <1> QED BY <1>2, <1>3, <1>4, <1>5, <1>6, <1>7

(* The steps that touch the span's own fields. *)
SpanSteps == SetError \/ TakeChild \/ EndServerSpan \/ NextRequest \/ ViewDone \/ Answer
             \/ Serve \/ AnnotateServerRequest

LEMMA SpanRests ==
  ASSUME [Next]_vars, ~SpanSteps
  PROVE  UNCHANGED spanVars
  BY DEF Next, SpanSteps, vars, spanVars, Receive, NewSpan, AgentDisabled, CompareRevision,
         Refresh, HotReload, ReloadFetches, ReloadStores, OtherAdmitted, OtherRefreshes,
         ClientRequest, CallView, InView

LEMMA EmptyHasNone == ToSet(<<>>) = {}
  <1>1. DOMAIN <<>> = {}
    OBVIOUS
  <1> QED BY <1>1 DEF ToSet

LEMMA AppendHas ==
  ASSUME NEW D, NEW q \in Seq(D), NEW e \in D
  PROVE  /\ Append(q, e) \in Seq(D) /\ Len(Append(q, e)) = Len(q) + 1
         /\ ToSet(Append(q, e)) = ToSet(q) \cup {e}
  <1>1. /\ Append(q, e) \in Seq(D) /\ Len(Append(q, e)) = Len(q) + 1
        /\ \A i \in 1..Len(q) : Append(q, e)[i] = q[i]
        /\ Append(q, e)[Len(q) + 1] = e
    OBVIOUS
  <1>2. DOMAIN Append(q, e) = 1..(Len(q) + 1) /\ DOMAIN q = 1..Len(q) /\ Len(q) \in Nat
    BY <1>1
  <1>3. 1..(Len(q) + 1) = (1..Len(q)) \cup {Len(q) + 1}
    BY <1>2
  <1>4. ToSet(Append(q, e)) \subseteq ToSet(q) \cup {e}
    BY <1>1, <1>2, <1>3 DEF ToSet
  <1>5. ToSet(q) \cup {e} \subseteq ToSet(Append(q, e))
    BY <1>1, <1>2, <1>3 DEF ToSet
  <1> QED BY <1>1, <1>4, <1>5

(* An error goes to exactly one of the two places. *)
LEMMA VerdictIsKept ==
  ASSUME SpanTyped, NEW e \in Errors, RecordErrorVerdict(e)
  PROVE  /\ verdicts' \in Seq(Errors) /\ Len(verdicts') <= MaxVerdicts /\ marked' \subseteq Errors
         /\ ToSet(verdicts') \cup marked' = ToSet(verdicts) \cup marked \cup {e}
  <1>1. verdicts \in Seq(Errors) /\ Len(verdicts) <= MaxVerdicts /\ marked \subseteq Errors
        /\ MaxVerdicts \in Nat /\ Len(verdicts) \in Nat
    BY HttpTransactionAssumption DEF SpanTyped
  <1>2. CASE Len(verdicts) >= MaxVerdicts
    <2>1. marked' = marked \cup {e} /\ verdicts' = verdicts
      BY <1>2 DEF RecordErrorVerdict
    <2> QED BY <1>1, <2>1
  <1>3. CASE ~(Len(verdicts) >= MaxVerdicts)
    <2>1. verdicts' = Append(verdicts, e) /\ marked' = marked
      BY <1>3 DEF RecordErrorVerdict
    <2>2. /\ Append(verdicts, e) \in Seq(Errors) /\ Len(Append(verdicts, e)) = Len(verdicts) + 1
          /\ ToSet(Append(verdicts, e)) = ToSet(verdicts) \cup {e}
      BY <1>1, AppendHas
    <2>3. Len(verdicts') <= MaxVerdicts
      BY <1>1, <1>3, <2>1, <2>2
    <2> QED BY <1>1, <2>1, <2>2, <2>3
  <1> QED BY <1>2, <1>3

LEMMA SpanTypedKeeps ==
  ASSUME TransactionInv, [Next]_vars
  PROVE  SpanTyped'
  <1>1. SpanTyped /\ InOrder
    BY DEF TransactionInv
  <1>2. CASE ~SpanSteps
    BY <1>1, <1>2, SpanRests DEF SpanTyped, spanVars
  <1>3. CASE SetError
    <2>1. PICK e \in Errors : erred' = erred \cup {e} /\ RecordErrorVerdict(e)
      BY <1>3 DEF SetError, Errors
    <2>2. UNCHANGED <<children, ended, failed, status, urlStat>>
      BY <1>3 DEF SetError
    <2>3. /\ verdicts' \in Seq(Errors) /\ Len(verdicts') <= MaxVerdicts /\ marked' \subseteq Errors
          /\ ToSet(verdicts') \cup marked' = ToSet(verdicts) \cup marked \cup {e}
      BY <1>1, <2>1, VerdictIsKept
    <2>4. ended' \in BOOLEAN /\ failed' \in BOOLEAN
      <3>1. ended \in BOOLEAN /\ failed \in BOOLEAN
        BY <1>1 DEF SpanTyped
      <3> QED BY <2>2, <3>1, Zenon
    <2> QED BY <1>1, <2>1, <2>2, <2>3, <2>4 DEF SpanTyped
  <1>4. CASE TakeChild
    <2>1. /\ UNCHANGED <<ended, verdicts, marked, erred, failed, status, urlStat>>
          /\ \E c \in Children, kind \in {"sampled_child", "unsampled_child", "null"} :
               children' = [children EXCEPT ![c] = kind]
      <3>1. PICK c \in Children, from \in ({span} \cup {children[d] : d \in Children}) \ {None} :
              \E kind \in ChildOf(from) : children' = [children EXCEPT ![c] = kind]
        BY <1>4 DEF TakeChild
      <3>2. from \in {"null", "unsampled", "sampled", "sampled_child", "unsampled_child"}
        BY <1>1, <3>1 DEF SpanTyped, TransactionInv, RequestTyped
      <3>3. ChildOf(from) \subseteq {"sampled_child", "unsampled_child", "null"}
        BY <3>2 DEF ChildOf
      <3>4. UNCHANGED <<ended, verdicts, marked, erred, failed, status, urlStat>>
        BY <1>4 DEF TakeChild
      <3> QED BY <3>1, <3>3, <3>4
    <2>2. children' \in [Children -> {None, "null", "sampled_child", "unsampled_child"}]
      BY <1>1, <2>1 DEF SpanTyped
    <2>3. ended' \in BOOLEAN /\ failed' \in BOOLEAN
      <3>1. ended \in BOOLEAN /\ failed \in BOOLEAN
        BY <1>1 DEF SpanTyped
      <3> QED BY <2>1, <3>1, Zenon
    <2> QED BY <1>1, <2>1, <2>2, <2>3 DEF SpanTyped
  <1>5. CASE EndServerSpan
    <2>1. /\ ended' = TRUE /\ urlStat' = UrlStat /\ verdicts' = <<>> /\ marked' = {}
          /\ failed' = ("real" \in ToSet(verdicts) \cup marked)
          /\ UNCHANGED <<children, erred, status>>
      BY <1>5 DEF EndServerSpan
    <2>2. failed' \in BOOLEAN
      <3>1. ("real" \in ToSet(verdicts) \cup marked) \in BOOLEAN
        OBVIOUS
      <3> QED BY <2>1, <3>1, Zenon
    <2>3. urlStat'.status \in {0, status}
      BY <2>1 DEF UrlStat, NoStat
    <2>4. Len(<<>>) <= MaxVerdicts /\ <<>> \in Seq(Errors)
      BY HttpTransactionAssumption
    <2> QED BY <1>1, <2>1, <2>2, <2>3, <2>4, EmptyHasNone DEF SpanTyped
  <1>6. CASE NextRequest
    <2>1. Len(<<>>) <= MaxVerdicts /\ <<>> \in Seq(Errors)
      BY HttpTransactionAssumption
    <2>2. /\ children' = [c \in Children |-> None] /\ ended' = FALSE /\ verdicts' = <<>>
          /\ marked' = {} /\ erred' = {} /\ failed' = FALSE /\ status' = 0
          /\ urlStat' = NoStat
      BY <1>6 DEF NextRequest
    <2> QED BY <2>1, <2>2, EmptyHasNone DEF SpanTyped, NoStat
  <1>7. ASSUME ViewDone \/ Answer PROVE SpanTyped'
    <2>1. /\ UNCHANGED <<children, ended, verdicts, marked, erred, failed, urlStat>>
          /\ phase = "serving"
      BY <1>7 DEF ViewDone, Answer
    <2>2. status' \in {0, 200, 404, 500}
      BY <1>1, <1>7 DEF SpanTyped, ViewDone, Answer, StatusOf
    <2>3. urlStat.status = 0
      BY <1>1, <2>1 DEF InOrder, NoStat
    <2>4. ended' \in BOOLEAN /\ failed' \in BOOLEAN
      <3>1. ended \in BOOLEAN /\ failed \in BOOLEAN
        BY <1>1 DEF SpanTyped
      <3> QED BY <2>1, <3>1, Zenon
    <2> QED BY <1>1, <2>1, <2>2, <2>3, <2>4 DEF SpanTyped
  <1>8. ASSUME Serve \/ AnnotateServerRequest PROVE SpanTyped'
    <2>1. UNCHANGED <<children, ended, verdicts, marked, erred, failed, status, urlStat>>
      BY <1>8 DEF Serve, AnnotateServerRequest
    <2>2. ended' \in BOOLEAN /\ failed' \in BOOLEAN
      <3>1. ended \in BOOLEAN /\ failed \in BOOLEAN
        BY <1>1 DEF SpanTyped
      <3> QED BY <2>1, <3>1, Zenon
    <2> QED BY <1>1, <2>1, <2>2 DEF SpanTyped
  <1> QED BY <1>2, <1>3, <1>4, <1>5, <1>6, <1>7, <1>8 DEF SpanSteps

-----------------------------------------------------------------------------
(* The order of a request, and the settings it lives under *)

(* A step of the configuration or of a view. *)
AsideSteps ==
  HotReload \/ ReloadFetches \/ ReloadStores \/ OtherAdmitted \/ OtherRefreshes
  \/ ClientRequest \/ CallView \/ InView \/ UNCHANGED vars

(* The span and its request rest in them. *)
LEMMA AsideRests ==
  ASSUME AsideSteps
  PROVE  /\ UNCHANGED <<phase, app, collects, carrier, raw, span, trace, spanVars>>
         /\ admitted' = admitted /\ snapshot' = snapshot
  BY DEF AsideSteps, vars, requestVars, configVars, HotReload, ReloadFetches, ReloadStores,
         OtherAdmitted, OtherRefreshes, ClientRequest, CallView, InView

(* The steps of the request itself. *)
LEMMA StepsAre ==
  ASSUME [Next]_vars
  PROVE  \/ AsideSteps
         \/ Receive \/ NewSpan \/ AgentDisabled \/ CompareRevision \/ Refresh
         \/ AnnotateServerRequest \/ Serve \/ ViewDone \/ Answer \/ SetError \/ TakeChild
         \/ EndServerSpan \/ NextRequest
  BY DEF Next, AsideSteps

LEMMA InOrderKeeps ==
  ASSUME TransactionInv, [Next]_vars
  PROVE  InOrder'
  <1> DEFINE None0 == \A c \in Children : children[c] = None
  <1>1. InOrder /\ phase \in Phases
    BY DEF TransactionInv, RequestTyped
  <1> USE DEF Early, Pending, Later, Before, Phases
  <1>2. CASE AsideSteps
    BY <1>1, <1>2, AsideRests DEF InOrder, spanVars
  <1>3. CASE Receive
    BY <1>1, <1>3 DEF InOrder, Receive, spanVars
  <1>4. CASE NewSpan
    <2>1. /\ phase = "received" /\ phase' \in {"admitted", "opened"} /\ UNCHANGED spanVars
          /\ phase' = "admitted" => span' = "sampled"
      BY <1>4 DEF NewSpan
    <2> QED BY <1>1, <2>1 DEF InOrder, spanVars
  <1>5. CASE AgentDisabled
    BY <1>1, <1>5 DEF InOrder, AgentDisabled, spanVars, requestVars
  <1>6. CASE CompareRevision
    BY <1>1, <1>6 DEF InOrder, CompareRevision, spanVars, requestVars
  <1>7. CASE Refresh
    BY <1>1, <1>7 DEF InOrder, Refresh, spanVars, requestVars
  <1>8. CASE AnnotateServerRequest
    BY <1>1, <1>8 DEF InOrder, AnnotateServerRequest, requestVars
  <1>9. CASE Serve
    BY <1>1, <1>9 DEF InOrder, Serve
  <1>10. CASE ViewDone
    <2>1. phase = "serving" /\ phase' \in {"serving", "answered"}
          /\ UNCHANGED <<span, children, ended, urlStat>>
      BY <1>10 DEF ViewDone
    <2> QED BY <1>1, <2>1 DEF InOrder
  <1>11. CASE Answer
    BY <1>1, <1>11 DEF InOrder, Answer, requestVars
  <1>12. CASE SetError
    BY <1>1, <1>12 DEF InOrder, SetError, requestVars
  <1>13. CASE TakeChild
    BY <1>1, <1>13 DEF InOrder, TakeChild, requestVars
  <1>14. CASE EndServerSpan
    BY <1>1, <1>14 DEF InOrder, EndServerSpan, requestVars
  <1>15. CASE NextRequest
    BY <1>1, <1>15 DEF InOrder, NextRequest
  <1> QED BY <1>2, <1>3, <1>4, <1>5, <1>6, <1>7, <1>8, <1>9, <1>10, <1>11, <1>12, <1>13,
             <1>14, <1>15, StepsAre

LEMMA OneConfigKeeps ==
  ASSUME TransactionInv, [Next]_vars
  PROVE  OneConfig'
  <1>1. OneConfig /\ InOrder /\ phase \in Phases
    BY DEF TransactionInv, RequestTyped
  <1> USE DEF Early, Pending, Later, Before, Phases
  <1>2. CASE AsideSteps
    <2>1. \/ used' = used
          \/ used' = used \cup {<<"client", snapshot>>} /\ phase = "serving"
      BY <1>2 DEF AsideSteps, vars, configVars, HotReload, ReloadFetches, ReloadStores,
             OtherAdmitted, OtherRefreshes, ClientRequest, CallView, InView, Settings
    <2> QED BY <1>1, <1>2, <2>1, AsideRests DEF OneConfig
  <1>3. CASE Receive
    BY <1>1, <1>3 DEF OneConfig, Receive, configVars
  <1>4. CASE NewSpan
    <2>1. /\ phase = "received" /\ phase' \in {"admitted", "opened"}
          /\ phase' = "opened" => span' # "sampled"
          /\ used' = used /\ snapshot' = snapshot
      BY <1>4 DEF NewSpan
    <2> QED BY <1>1, <2>1 DEF OneConfig
  <1>5. CASE AgentDisabled
    BY <1>1, <1>5 DEF OneConfig, InOrder, AgentDisabled, configVars, requestVars
  <1>6. CASE CompareRevision
    BY <1>1, <1>6 DEF OneConfig, CompareRevision, requestVars
  <1>7. CASE Refresh
    BY <1>1, <1>7 DEF OneConfig, Refresh, LoadSpanConfig, requestVars
  <1>8. CASE AnnotateServerRequest
    BY <1>1, <1>8 DEF OneConfig, AnnotateServerRequest, Settings, requestVars
  <1>9. CASE Serve
    BY <1>1, <1>9 DEF OneConfig, Serve, configVars
  <1>10. CASE ViewDone
    <2>1. phase = "serving" /\ phase' \in {"serving", "answered"}
          /\ UNCHANGED <<span, admitted, snapshot, used>>
      BY <1>10 DEF ViewDone, configVars
    <2> QED BY <1>1, <2>1 DEF OneConfig
  <1>11. CASE Answer
    BY <1>1, <1>11 DEF OneConfig, Answer, configVars, requestVars
  <1>12. CASE SetError
    BY <1>1, <1>12 DEF OneConfig, SetError, configVars, requestVars
  <1>13. CASE TakeChild
    BY <1>1, <1>13 DEF OneConfig, TakeChild, configVars, requestVars
  <1>14. CASE EndServerSpan
    BY <1>1, <1>14 DEF OneConfig, EndServerSpan, Settings, requestVars
  <1>15. CASE NextRequest
    BY <1>1, <1>15 DEF OneConfig, NextRequest
  <1> QED BY <1>2, <1>3, <1>4, <1>5, <1>6, <1>7, <1>8, <1>9, <1>10, <1>11, <1>12, <1>13,
             <1>14, <1>15, StepsAre

LEMMA ErrorsKeptKeeps ==
  ASSUME TransactionInv, [Next]_vars
  PROVE  ErrorsKept'
  <1>1. ErrorsKept /\ InOrder /\ SpanTyped /\ phase \in Phases
    BY DEF TransactionInv, RequestTyped
  <1> USE DEF Phases
  <1>2. CASE AsideSteps
    BY <1>1, <1>2, AsideRests DEF ErrorsKept, spanVars
  <1>3. CASE Receive
    BY <1>1, <1>3 DEF ErrorsKept, Receive, spanVars
  <1>4. CASE NewSpan
    <2>1. phase = "received" /\ phase' \in {"admitted", "opened"} /\ UNCHANGED spanVars
      BY <1>4 DEF NewSpan
    <2> QED BY <1>1, <2>1 DEF ErrorsKept, spanVars
  <1>5. CASE AgentDisabled
    BY <1>1, <1>5 DEF ErrorsKept, AgentDisabled, spanVars
  <1>6. CASE CompareRevision
    BY <1>1, <1>6 DEF ErrorsKept, CompareRevision, spanVars
  <1>7. CASE Refresh
    BY <1>1, <1>7 DEF ErrorsKept, Refresh, spanVars
  <1>8. CASE AnnotateServerRequest
    BY <1>1, <1>8 DEF ErrorsKept, AnnotateServerRequest
  <1>9. CASE Serve
    BY <1>1, <1>9 DEF ErrorsKept, Serve
  <1>10. CASE ViewDone
    <2>1. phase = "serving" /\ phase' \in {"serving", "answered"}
          /\ UNCHANGED <<span, verdicts, marked, erred, failed>>
      BY <1>10 DEF ViewDone
    <2> QED BY <1>1, <2>1 DEF ErrorsKept
  <1>11. CASE Answer
    BY <1>1, <1>11 DEF ErrorsKept, Answer
  <1>12. CASE SetError
    <2>1. PICK e \in Errors : erred' = erred \cup {e} /\ RecordErrorVerdict(e)
      BY <1>12 DEF SetError, Errors
    <2>2. phase \in {"serving", "answered"} /\ phase' = phase
      BY <1>12 DEF SetError
    <2>3. ToSet(verdicts') \cup marked' = ToSet(verdicts) \cup marked \cup {e}
      BY <1>1, <2>1, VerdictIsKept
    <2> QED BY <1>1, <2>1, <2>2, <2>3 DEF ErrorsKept
  <1>13. CASE TakeChild
    BY <1>1, <1>13 DEF ErrorsKept, TakeChild, requestVars
  <1>14. CASE EndServerSpan
    <2>1. /\ phase = "answered" /\ phase' = "over" /\ erred' = erred
          /\ failed' = ("real" \in ToSet(verdicts) \cup marked)
      BY <1>14 DEF EndServerSpan
    <2>2. erred = ToSet(verdicts) \cup marked
      BY <1>1, <2>1 DEF ErrorsKept
    <2>3. failed' <=> "real" \in erred'
      BY <2>1, <2>2, Zenon
    <2> QED BY <2>1, <2>3 DEF ErrorsKept
  <1>15. CASE NextRequest
    BY <1>1, <1>15, EmptyHasNone DEF ErrorsKept, NextRequest
  <1> QED BY <1>2, <1>3, <1>4, <1>5, <1>6, <1>7, <1>8, <1>9, <1>10, <1>11, <1>12, <1>13,
             <1>14, <1>15, StepsAre

LEMMA KindPassesKeeps ==
  ASSUME TransactionInv, [Next]_vars
  PROVE  KindPasses'
  <1>1. KindPasses /\ InOrder /\ span \in {None, "null", "unsampled", "sampled"}
        /\ phase \in Phases
    BY DEF TransactionInv, RequestTyped
  <1>2. \A c \in Children : children[c] \in {None, "null", "sampled_child", "unsampled_child"}
    BY DEF TransactionInv, SpanTyped
  <1>3. CASE span' = span /\ children' = children
    BY <1>1, <1>3 DEF KindPasses
  <1>4. CASE NewSpan
    <2>1. phase = "received" /\ children' = children
      BY <1>4 DEF NewSpan, spanVars
    <2>2. \A c \in Children : children'[c] = None
      BY <1>1, <2>1 DEF InOrder, Later
    <2> QED BY <2>2 DEF KindPasses
  <1>5. CASE NextRequest
    BY <1>5 DEF NextRequest, KindPasses
  <1>6. CASE TakeChild
    <2>1. PICK c \in Children, from \in ({span} \cup {children[d] : d \in Children}) \ {None} :
            \E k \in ChildOf(from) : children' = [children EXCEPT ![c] = k]
      BY <1>6 DEF TakeChild
    <2> PICK kind \in ChildOf(from) : children' = [children EXCEPT ![c] = kind]
      BY <2>1
    <2>2. span' = span /\ span # None
      BY <1>6 DEF TakeChild, requestVars
    <2>3. /\ span = "sampled"   => kind \in {"sampled_child", "null"}
          /\ span = "unsampled" => kind = "unsampled_child"
          /\ span = "null"      => kind = "null"
      BY <1>1, <1>2, <2>1, <2>2 DEF ChildOf, KindPasses
    <2>4. \A d \in Children : children'[d] = children[d] \/ children'[d] = kind
      BY <2>1 DEF TransactionInv, SpanTyped
    <2> QED BY <1>1, <2>2, <2>3, <2>4 DEF KindPasses
  <1>7. (span' = span /\ children' = children) \/ NewSpan \/ NextRequest \/ TakeChild
    <2>1. CASE AsideSteps
      BY <2>1, AsideRests DEF spanVars
    <2>2. CASE ~AsideSteps
      BY <2>2, StepsAre DEF Receive, AgentDisabled, CompareRevision, Refresh,
         AnnotateServerRequest, Serve, ViewDone, Answer, SetError, EndServerSpan, spanVars,
         requestVars
    <2> QED BY <2>1, <2>2
  <1> QED BY <1>3, <1>4, <1>5, <1>6, <1>7

-----------------------------------------------------------------------------
(* The headers decide *)

LEMMA MessageIs ==
  ASSUME NEW m \in Messages
  PROVE  m \in Seq(ToSet(m)) /\ \A i \in DOMAIN m : m[i].value # Absent
  BY HttpTransactionAssumption

(* new_span() is given what the carrier holds, also where nothing is read. *)
LEMMA InboundIs ==
  ASSUME NEW m \in Messages, NEW carry \in Carriers, NEW name \in ToSet(PinpointHeaders)
  PROVE  Inbound(carry, m)[name] = Holds(carry, m, name)
  <1>1. CASE HasPinpoint(carry, m)
    <2> DEFINE probe == CHOOSE i \in DOMAIN PinpointHeaders : PinpointHeaders[i] = name
    <2>1. Inbound(carry, m)[name] = Get(carry, m, name, probe)
      BY <1>1 DEF Inbound, ExtractPinpointHeaders
    <2> HIDE DEF probe
    <2>2. Get(carry, m, name, probe) = Holds(carry, m, name)
      BY MessageIs, GetIs
    <2> QED BY <2>1, <2>2
  <1>2. CASE ~HasPinpoint(carry, m)
    <2>1. Named(m, name) = {}
      BY <1>2 DEF HasPinpoint, HasPinpointEnviron, HasPinpointKey, Prefixed
    <2>2. Inbound(carry, m)[name] = Absent
      BY <1>2 DEF Inbound, NoContext
    <2> QED BY <2>1, <2>2 DEF Holds
  <1> QED BY <1>1, <1>2

LEMMA UndecidedKeeps ==
  ASSUME TransactionInv, [Next]_vars
  PROVE  Undecided'
  <1>1. Undecided /\ InOrder /\ phase \in Phases
    BY DEF TransactionInv, RequestTyped
  <1> USE DEF Phases
  <1>2. CASE NewSpan
    <2>1. phase = "received" /\ carrier' = carrier /\ raw' = raw
          /\ phase' \in {"admitted", "opened"}
      BY <1>2 DEF NewSpan
    <2>2. raw \in Messages /\ carrier \in Carriers
      BY <1>1, <2>1 DEF Undecided
    <2> DEFINE h == Inbound(carrier, raw)
    <2>3. PICK s \in NativeNewSpan(h) :
            /\ span' = s
            /\ trace' = IF s = "sampled" /\ ContinuedContext(h) THEN h[TraceID] ELSE Absent
      BY <1>2 DEF NewSpan
    <2>4. \A n \in ToSet(PinpointHeaders) : h[n] = Claimed(n) /\ Claimed(n)' = Claimed(n)
      BY <2>1, <2>2, InboundIs DEF Claimed, Holds
    <2>5. TraceID \in ToSet(PinpointHeaders) /\ Sampled \in ToSet(PinpointHeaders)
      <3>1. DOMAIN PinpointHeaders = 1..4
        BY DEF PinpointHeaders
      <3>2. PinpointHeaders[1] = TraceID /\ PinpointHeaders[4] = Sampled
        BY DEF PinpointHeaders
      <3> QED BY <3>1, <3>2 DEF ToSet
    <2> HIDE DEF h
    <2>6. CASE s = "sampled"
      <3>1. h[Sampled] # <<"s0">>
        BY <2>3, <2>6 DEF NativeNewSpan
      <3>2. (\A n \in ToSet(PinpointHeaders) \ {Sampled} : h[n] # Absent) => trace' = h[TraceID]
        BY <2>3, <2>6 DEF ContinuedContext
      <3>3. Claimed(Sampled)' # <<"s0">>
        BY <2>4, <2>5, <3>1
      <3>4. (\A n \in ToSet(PinpointHeaders) \ {Sampled} : Claimed(n)' # Absent)
              => trace' = Claimed(TraceID)'
        BY <2>4, <2>5, <3>2
      <3> QED BY <2>1, <2>2, <3>3, <3>4 DEF Undecided
    <2>7. CASE s # "sampled"
      BY <2>1, <2>2, <2>3, <2>7 DEF Undecided
    <2> QED BY <2>6, <2>7
  <1>3. CASE Receive
    <2>1. phase' = "received" /\ raw' \in Messages /\ carrier' \in Carriers
      BY <1>3 DEF Receive
    <2> QED BY <2>1 DEF Undecided
  <1>4. CASE UNCHANGED <<carrier, raw, span, trace>> /\ phase' = phase
    BY <1>1, <1>4 DEF Undecided, Claimed
  <1>5. CASE CompareRevision \/ Refresh
    BY <1>1, <1>5 DEF Undecided, Claimed, CompareRevision, Refresh, requestVars
  <1>6. CASE AgentDisabled
    <2>1. phase = "received" /\ phase' = "opened" /\ UNCHANGED <<carrier, raw, span>>
      BY <1>6 DEF AgentDisabled, requestVars
    <2>2. raw \in Messages /\ carrier \in Carriers /\ span = None
      BY <1>1, <2>1 DEF Undecided, InOrder, Early
    <2> QED BY <2>1, <2>2 DEF Undecided, None
  <1>7. CASE AnnotateServerRequest
    BY <1>1, <1>7 DEF Undecided, AnnotateServerRequest, requestVars
  <1>8. CASE phase' \in {"idle", "serving", "answered", "over"}
    BY <1>8 DEF Undecided
  <1>9. \/ NewSpan \/ Receive \/ CompareRevision \/ Refresh \/ AgentDisabled
        \/ AnnotateServerRequest \/ phase' \in {"idle", "serving", "answered", "over"}
        \/ UNCHANGED <<carrier, raw, span, trace>> /\ phase' = phase
    <2>1. CASE AsideSteps
      BY <2>1, AsideRests
    <2>2. CASE ~AsideSteps
      BY <2>2, StepsAre DEF Serve, ViewDone, Answer, SetError, TakeChild, EndServerSpan,
         NextRequest
    <2> QED BY <2>1, <2>2
  <1> QED BY <1>2, <1>3, <1>4, <1>5, <1>6, <1>7, <1>8, <1>9

(* The address is that of the first header that names one. *)
LEMMA AddressIs ==
  ASSUME NEW H, NEW m \in Seq(H), NEW carry \in Carriers, NEW config, NEW R,
         config.realIp \in Seq(R), NEW probes
  PROVE  LET names == {n \in ToSet(config.realIp) :
                         /\ Holds(carry, m, n) \notin {Absent, <<>>}
                         /\ Usable(Head(Holds(carry, m, n)), config)}
             found == ResolveRemoteAddr(carry, m, config, probes)
         IN IF names = {} THEN found = SocketAddress
            ELSE \E i \in DOMAIN config.realIp :
                   /\ config.realIp[i] \in names
                   /\ found = Head(Holds(carry, m, config.realIp[i]))
                   /\ \A j \in DOMAIN config.realIp : config.realIp[j] \in names => i <= j
  <1> DEFINE ips == config.realIp
             names == {n \in ToSet(ips) : /\ Holds(carry, m, n) \notin {Absent, <<>>}
                                          /\ Usable(Head(Holds(carry, m, n)), config)}
             hop(i) == LET v == Get(carry, m, ips[i], probes + i)
                       IN IF v = Absent THEN "" ELSE FirstHop(v)
             usable == {i \in DOMAIN ips : Usable(hop(i), config)}
  <1>1. ResolveRemoteAddr(carry, m, config, probes)
          = IF usable = {} THEN SocketAddress ELSE hop(Min(usable))
    BY DEF ResolveRemoteAddr, GetRemoteAddr
  <1>2. DOMAIN ips \subseteq Nat
    OBVIOUS
  <1>3. ASSUME NEW i \in DOMAIN ips
        PROVE  hop(i) = IF Holds(carry, m, ips[i]) \in {Absent, <<>>} THEN ""
                        ELSE Head(Holds(carry, m, ips[i]))
    <2>1. Get(carry, m, ips[i], probes + i) = Holds(carry, m, ips[i])
      BY GetIs
    <2> QED BY <2>1 DEF FirstHop
  <1>4. \A i \in DOMAIN ips : ips[i] \in ToSet(ips)
    BY DEF ToSet
  <1>5. ASSUME NEW i \in DOMAIN ips
        PROVE  i \in usable <=> ips[i] \in names
    <2> HIDE DEF hop
    <2> QED BY <1>3, <1>4 DEF Usable
  <1>6. \A n \in names : \E i \in DOMAIN ips : n = ips[i]
    BY DEF ToSet
  <1>7. CASE usable = {}
    <2>1. names = {}
      <3> HIDE DEF names, usable
      <3> QED BY <1>5, <1>6, <1>7
    <2> HIDE DEF usable, hop
    <2> QED BY <1>1, <1>7, <2>1
  <1>8. CASE usable # {}
    <2>1. usable \subseteq Nat /\ usable \subseteq DOMAIN ips
      BY <1>2
    <2> DEFINE k == Min(usable)
    <2>2. k \in usable /\ \A j \in usable : k <= j
      <3> HIDE DEF usable
      <3> QED BY <1>8, <2>1, LeastNumber
    <2> HIDE DEF k
    <2>3. ips[k] \in names /\ k \in DOMAIN ips
      BY <1>5, <2>1, <2>2
    <2>4. hop(k) = Head(Holds(carry, m, ips[k]))
      <3> HIDE DEF hop
      <3> QED BY <1>3, <2>3
    <2>5. \A j \in DOMAIN ips : ips[j] \in names => k <= j
      <3> HIDE DEF names, usable, ips
      <3> QED BY <1>5, <2>2
    <2>6. ResolveRemoteAddr(carry, m, config, probes) = hop(k)
      <3> HIDE DEF hop, usable
      <3> QED BY <1>1, <1>8 DEF k
    <2> HIDE DEF hop, usable
    <2> QED BY <2>3, <2>4, <2>5, <2>6
  <1> QED BY <1>7, <1>8

LEMMA RecordedKeeps ==
  ASSUME TransactionInv, [Next]_vars
  PROVE  RecordedFromTheRequest'
  <1>1. /\ RecordedFromTheRequest /\ Undecided /\ ConfigTyped /\ RequestTyped
    BY DEF TransactionInv
  <1>2. CASE AnnotateServerRequest
    <2> DEFINE config == Configs[snapshot]
               probes == ProbesOfInbound(carrier, raw)
               cookie == Get(carrier, raw, "Cookie", probes + 1)
    <2>1. UNCHANGED <<carrier, raw, snapshot>> /\ phase = "opened"
      BY <1>2 DEF AnnotateServerRequest, requestVars
    <2>2. raw \in Seq(ToSet(raw)) /\ carrier \in Carriers
      BY <1>1, <2>1, MessageIs DEF Undecided
    <2>3. snapshot \in DOMAIN Configs
      BY <1>1, HttpTransactionAssumption DEF ConfigTyped
    <2>4. config.realIp \in Seq(ToSet(config.realIp))
      BY <2>3, HttpTransactionAssumption
    <2>5. \E x : address' = ResolveRemoteAddr(carrier, raw, config, x)
      <3> HIDE DEF probes
      <3> QED BY <1>2 DEF AnnotateServerRequest, Settings
    <2>6. \E x : recorded'.headers = RecordHeader(carrier, raw, config.requestHeaders, x)
      <3> HIDE DEF probes
      <3> QED BY <1>2 DEF AnnotateServerRequest, Settings
    <2> HIDE DEF config
    <2>7. \A n : Claimed(n)' = Holds(carrier, raw, n)
      BY <2>1 DEF Claimed, Holds
    <2> DEFINE names == {n \in ToSet(config.realIp) :
                           /\ Holds(carrier, raw, n) \notin {Absent, <<>>}
                           /\ Usable(Head(Holds(carrier, raw, n)), config)}
    <2>8. IF names = {} THEN address' = SocketAddress
          ELSE \E i \in DOMAIN config.realIp :
                 /\ config.realIp[i] \in names
                 /\ address' = Head(Holds(carrier, raw, config.realIp[i]))
                 /\ \A j \in DOMAIN config.realIp : config.realIp[j] \in names => i <= j
      <3>1. PICK x : address' = ResolveRemoteAddr(carrier, raw, config, x)
        BY <2>5
      <3> DEFINE R == ToSet(config.realIp)
      <3>2. config.realIp \in Seq(R)
        BY <2>4
      <3> HIDE DEF R
      <3>3. LET found == ResolveRemoteAddr(carrier, raw, config, x)
            IN IF names = {} THEN found = SocketAddress
               ELSE \E i \in DOMAIN config.realIp :
                      /\ config.realIp[i] \in names
                      /\ found = Head(Holds(carrier, raw, config.realIp[i]))
                      /\ \A j \in DOMAIN config.realIp : config.realIp[j] \in names => i <= j
        BY <2>2, <3>2, AddressIs
      <3> QED BY <3>1, <3>3
    <2>9. config.requestHeaders # HeadersAll =>
            \A q \in recorded'.headers : q[2] = Holds(carrier, raw, q[1])
      BY <2>2, <2>6, GetIs DEF RecordHeader
    <2>10. config' = config
      BY <2>1 DEF config
    <2> QED BY <2>1, <2>7, <2>8, <2>9, <2>10 DEF RecordedFromTheRequest, config
  <1>3. CASE UNCHANGED <<phase, carrier, raw, snapshot, address, recorded>>
    <2>1. \A n : Claimed(n)' = Claimed(n)
      BY <1>3 DEF Claimed
    <2>2. Configs[snapshot]' = Configs[snapshot]
      BY <1>3
    <2> QED BY <1>1, <1>3, <2>1, <2>2 DEF RecordedFromTheRequest
  <1>4. CASE phase' # "annotated"
    BY <1>4 DEF RecordedFromTheRequest
  <1>5. \/ AnnotateServerRequest \/ phase' # "annotated"
        \/ UNCHANGED <<phase, carrier, raw, snapshot, address, recorded>>
    <2>1. CASE AsideSteps
      BY <2>1, AsideRests DEF spanVars
    <2>2. CASE ~AsideSteps
      BY <2>2, StepsAre DEF Receive, NewSpan, AgentDisabled, CompareRevision, Refresh, Serve,
         ViewDone, Answer, SetError, TakeChild, EndServerSpan, NextRequest
    <2> QED BY <2>1, <2>2
  <1> QED BY <1>2, <1>3, <1>4, <1>5

-----------------------------------------------------------------------------
(* The views *)

LEMMA OutcomesAre ==
  /\ Outcomes = {"abort", "finish", "server", "namesake", "error", "returns", "interrupt"}
  /\ DOMAIN Exceptions = {"abort", "finish", "server", "namesake", "error"}
  BY DEF Outcomes, Exceptions

LEMMA CallStarts ==
  ASSUME CallInv, NEW w \in DOMAIN Wrappers, Call(w)
  PROVE  CallInv'
  <1>1. /\ step = "idle" /\ wrapper' = w /\ step' = "precheck"
        /\ UNCHANGED <<mode, event, ran, outcome, seen, broken>>
    BY DEF Call
  <1>2. Untouched /\ ~broken
    BY <1>1 DEF CallInv
  <1> QED BY <1>1, <1>2 DEF CallInv, Untouched, ModeFits, None

LEMMA PrecheckKeeps ==
  ASSUME CallInv, Precheck(span)
  PROVE  CallInv'
  <1>1. /\ step = "precheck" /\ UNCHANGED <<wrapper, event, ran, outcome, seen, broken>>
        /\ \/ W.precheck /\ step' = "target" /\ mode' = "raw"
           \/ step' = "body" /\ mode' = mode
    BY DEF Precheck
  <1>2. Untouched /\ ~broken /\ wrapper \in DOMAIN Wrappers /\ ModeFits
    BY <1>1 DEF CallInv
  <1>3. W' = W
    BY <1>1 DEF W
  <1> QED BY <1>1, <1>2, <1>3 DEF CallInv, Untouched, ModeFits, None

LEMMA BodyKeeps ==
  ASSUME CallInv,
         BodyPlain(span, collects) \/ BodyOpens(span, collects)
           \/ SetUpFails(span, collects) \/ Interrupted
  PROVE  CallInv'
  <1>1. step = "body" /\ UNCHANGED <<wrapper, ran, outcome, broken>>
    BY DEF BodyPlain, BodyOpens, SetUpFails, Interrupted
  <1>2. Untouched /\ ~broken /\ wrapper \in DOMAIN Wrappers
    BY <1>1 DEF CallInv
  <1>3. W' = W /\ W.guard \in {"sentinel", "local"}
    BY <1>1, <1>2, WrapperFacts DEF W, Sound
  <1>4. CASE BodyPlain(span, collects)
    <2>1. /\ step' = "target" /\ UNCHANGED <<event, seen>>
          /\ mode' = "plain" \/ (mode' = "inner" /\ W.inner /\ W.opens)
      BY <1>4 DEF BodyPlain
    <2> QED BY <1>1, <1>2, <1>3, <2>1 DEF CallInv, Untouched, ModeFits, None
  <1>5. CASE BodyOpens(span, collects)
    <2>1. step' = "target" /\ mode' = "traced" /\ W.opens
      BY <1>5 DEF BodyOpens
    <2> QED BY <1>1, <1>2, <1>3, <2>1 DEF CallInv, Untouched, ModeFits, None
  <1>6. CASE SetUpFails(span, collects)
    <2>1. /\ W.opens
          /\ \/ mode' = "untraced" /\ step' = "target"
             \/ /\ mode' = "traced" /\ step' = "guard" /\ seen' = "ours"
                /\ W.guard = "sentinel"
      BY <1>3, <1>6 DEF SetUpFails
    <2> QED BY <1>1, <1>2, <1>3, <2>1 DEF CallInv, Untouched, ModeFits, None
  <1>7. CASE Interrupted
    <2>1. step' = "guard" /\ seen' = "interrupt" /\ UNCHANGED <<mode, event>>
      BY <1>7 DEF Interrupted
    <2> QED BY <1>1, <1>2, <1>3, <2>1 DEF CallInv, Untouched, ModeFits, None
  <1> QED BY <1>4, <1>5, <1>6, <1>7

LEMMA TargetKeeps ==
  ASSUME CallInv, Target
  PROVE  CallInv'
  <1>1. /\ step = "target" /\ step' = "leave" /\ ran' = ran + 1 /\ outcome' \in Outcomes
        /\ UNCHANGED <<wrapper, mode, event, seen, broken>>
    BY DEF Target
  <1>2. /\ mode # None /\ ~broken /\ wrapper \in DOMAIN Wrappers /\ ModeFits
        /\ \/ ran = 0 /\ outcome = None
           \/ ran = 1 /\ outcome # "returns" /\ mode = "untraced" /\ wrapper = "handle"
    BY <1>1 DEF CallInv
  <1>3. W' = W
    BY <1>1 DEF W
  <1>4. HasRun'
    BY <1>1, <1>2 DEF HasRun
  <1> QED BY <1>1, <1>2, <1>3, <1>4 DEF CallInv, ModeFits

LEMMA LeaveKeeps ==
  ASSUME CallInv, LeaveScope(span, collects) \/ LeavePlain(span, collects)
  PROVE  CallInv'
  <1>1. step = "leave" /\ step' = "guard" /\ UNCHANGED <<wrapper, mode, ran, outcome>>
    BY DEF LeaveScope, LeavePlain
  <1>2. /\ mode # None /\ ~broken /\ HasRun /\ wrapper \in DOMAIN Wrappers /\ ModeFits
    BY <1>1 DEF CallInv
  <1>3. W' = W /\ HasRun' /\ ModeFits'
    BY <1>1, <1>2 DEF W, HasRun, ModeFits
  <1>4. CASE LeaveScope(span, collects)
    <2>1. PICK fails \in {FALSE} \cup {W.classify # None /\ IsException(outcome)} :
            /\ broken' = fails
            /\ event' = IF Records(fails) /\ (W.scope \/ ~fails) THEN "failed" ELSE "clean"
            /\ seen' = IF fails /\ ~W.scope THEN "classifier" ELSE outcome
      BY <1>4 DEF LeaveScope
    <2>2. mode = "traced"
      BY <1>4 DEF LeaveScope
    <2>3. IsException(outcome) =>
            (ControlFlow(W.classify, outcome) <=> Answered(W.classify, outcome))
      <3>1. W.classify \in {"status", "django", None}
        BY <1>2, WrapperFacts DEF W, Sound
      <3> QED BY <3>1, ControlFlowIs DEF IsException
    <2>4. CASE fails = FALSE
      <3>1. seen' = outcome /\ ~broken'
        BY <2>1, <2>4
      <3>2. event' = "failed" <=> IsException(outcome) /\ ~Answered(W.classify, outcome)
        BY <2>1, <2>3, <2>4 DEF Records
      <3>3. PassedOn' /\ EventTells'
        BY <1>1, <1>3, <2>1, <2>2, <3>1, <3>2 DEF PassedOn, EventTells
      <3> QED BY <1>1, <1>2, <1>3, <3>3 DEF CallInv
    <2>5. CASE fails = TRUE
      <3>1. IsException(outcome)
        BY <2>1, <2>5
      <3>2. Records(fails)
        BY <2>5, <3>1 DEF Records
      <3>3. event' = "failed" <=> W.scope
        BY <2>1, <2>5, <3>2
      <3>4. seen' = outcome \/ (seen' = "classifier" /\ ~W.scope)
        BY <2>1, <2>5
      <3>5. broken'
        BY <2>1, <2>5
      <3>6. PassedOn'
        BY <1>1, <1>3, <2>2, <3>4, <3>5 DEF PassedOn
      <3>7. EventTells'
        BY <1>1, <1>3, <2>1, <2>2, <3>1, <3>3, <3>5 DEF EventTells, IsException
      <3> QED BY <1>1, <1>2, <1>3, <3>6, <3>7 DEF CallInv
    <2>6. fails = TRUE \/ fails = FALSE
      BY <2>1
    <2> QED BY <2>4, <2>5, <2>6
  <1>5. CASE LeavePlain(span, collects)
    <2>1. /\ mode # "traced" /\ broken' = broken
          /\ \/ seen' = outcome
             \/ W.post /\ mode = "plain" /\ ~Raised(outcome) /\ seen' = "ours"
      BY <1>5 DEF LeavePlain
    <2>2. PassedOn'
      BY <1>1, <1>3, <2>1 DEF PassedOn, Raised
    <2>3. EventTells'
      BY <1>1, <1>2, <2>1 DEF EventTells
    <2> QED BY <1>1, <1>2, <1>3, <2>2, <2>3 DEF CallInv
  <1> QED BY <1>4, <1>5

LEMMA GuardKeeps ==
  ASSUME CallInv, CallTyped, Guard
  PROVE  CallInv'
  <1> DEFINE judged == W.guard = "sentinel" /\ mode \in {"traced", "plain"} /\ Raised(seen)
             again == \/ judged /\ Verdict(seen) = "call"
                      \/ mode = "inner" /\ IsException(seen)
  <1>1. /\ step = "guard" /\ UNCHANGED <<wrapper, event, ran, outcome, broken>>
        /\ step' = IF again THEN "target" ELSE "over"
        /\ mode' = IF again THEN "untraced" ELSE mode
        /\ seen' = IF judged /\ Verdict(seen) = "keep" THEN outcome ELSE seen
    BY DEF Guard
  <1>2. wrapper \in DOMAIN Wrappers /\ ModeFits /\ W' = W
    BY <1>1 DEF CallInv, W
  <1>3. Sound(wrapper) /\ W = Wrappers[wrapper]
    BY <1>2, WrapperFacts DEF W
  <1>4. CASE mode = None /\ ran = 0 /\ seen = "interrupt"
    <2>1. ~judged /\ ~again
      BY <1>4 DEF None
    <2> HIDE DEF judged, again
    <2> QED BY <1>1, <1>2, <1>4, <2>1 DEF CallInv, ModeFits
  <1>5. CASE /\ mode = "traced" /\ ran = 0 /\ outcome = None /\ seen = "ours"
             /\ W.guard = "sentinel" /\ ~broken
    <2>1. Verdict(seen) = "call" /\ judged
      BY <1>5 DEF Verdict, Raised, None
    <2>2. again
      BY <2>1
    <2>3. W.opens
      BY <1>2, <1>5 DEF ModeFits
    <2> HIDE DEF judged, again
    <2> QED BY <1>1, <1>2, <1>5, <2>2, <2>3 DEF CallInv, ModeFits, None
  <1>6. CASE HasRun /\ PassedOn /\ EventTells
    <2>1. outcome \in Outcomes /\ outcome # None /\ (mode # "untraced" => ran = 1)
      BY <1>6, OutcomesAre DEF HasRun, None
    <2>2. CASE seen = outcome
      <3>1. judged => Verdict(seen) = "raise"
        BY <2>1, <2>2 DEF Verdict, Raised
      <3>2. again => mode = "inner" /\ IsException(outcome)
        BY <2>2, <3>1
      <3>3. seen' = outcome
        <4> HIDE DEF judged, again
        <4> QED BY <1>1, <2>2
      <3>4. CASE again
        <4>1. wrapper = "handle" /\ W.opens
          BY <1>2, <1>3, <3>2, <3>4 DEF ModeFits, Sound
        <4>2. ran = 1 /\ outcome # "returns" /\ ~broken
          BY <1>6, <2>1, <3>2, <3>4, OutcomesAre DEF IsException, EventTells
        <4>3. step' = "target" /\ mode' = "untraced"
          <5> HIDE DEF judged, again
          <5> QED BY <1>1, <3>4
        <4> QED BY <1>1, <1>2, <4>1, <4>2, <4>3 DEF CallInv, ModeFits, None
      <3>5. CASE ~again
        <4>1. step' = "over" /\ mode' = mode
          <5> HIDE DEF judged, again
          <5> QED BY <1>1, <3>5
        <4>2. HasRun' /\ EventTells' /\ ModeFits'
          BY <1>1, <1>2, <1>6, <4>1 DEF HasRun, EventTells, ModeFits
        <4> QED BY <1>1, <1>2, <3>3, <4>1, <4>2 DEF CallInv
      <3> QED BY <3>4, <3>5
    <2>3. CASE seen = "ours" /\ W.post /\ mode = "plain" /\ outcome = "returns"
      <3>1. judged /\ Verdict(seen) = "keep"
        <4>1. W.guard = "sentinel"
          BY <1>3, <2>3 DEF Sound
        <4>2. Verdict("ours") = "keep"
          <5>1. "ours" # "interrupt" /\ outcome = "returns" /\ outcome # None
            BY <2>3 DEF None
          <5> HIDE <2>3
          <5> QED BY <5>1 DEF Verdict, None
        <4> QED BY <2>3, <4>1, <4>2 DEF Raised
      <3>2. ~again
        BY <2>3, <3>1
      <3>3. step' = "over" /\ mode' = mode /\ seen' = outcome
        <4> HIDE DEF judged, again
        <4> QED BY <1>1, <3>1, <3>2
      <3>4. HasRun' /\ EventTells' /\ ModeFits'
        BY <1>1, <1>2, <1>6, <3>3 DEF HasRun, EventTells, ModeFits
      <3> QED BY <1>1, <1>2, <3>3, <3>4 DEF CallInv
    <2>4. CASE seen = "classifier" /\ broken /\ ~W.scope /\ mode = "traced"
      <3>1. ~judged /\ ~again
        BY <1>3, <2>4 DEF Sound
      <3>2. step' = "over" /\ mode' = mode /\ seen' = seen
        <4> HIDE DEF judged, again
        <4> QED BY <1>1, <3>1
      <3>3. HasRun' /\ EventTells' /\ ModeFits'
        BY <1>1, <1>2, <1>6, <3>2 DEF HasRun, EventTells, ModeFits
      <3> QED BY <1>1, <1>2, <2>1, <2>4, <3>2, <3>3 DEF CallInv
    <2> QED BY <1>6, <2>2, <2>3, <2>4 DEF PassedOn
  <1> QED BY <1>1, <1>4, <1>5, <1>6 DEF CallInv

LEMMA ViewSteps ==
  ASSUME [Next]_vars
  PROVE  \/ CallView \/ InView \/ ViewDone \/ NextRequest \/ Answer \/ Serve \/ Receive
         \/ NewSpan \/ EndServerSpan \/ AgentDisabled \/ CompareRevision \/ Refresh
         \/ AnnotateServerRequest
         \/ UNCHANGED <<phase, requestVars, status, urlStat, callVars, routeVars>>
  BY DEF Next, vars, spanVars, HotReload, ReloadFetches, ReloadStores, OtherAdmitted,
         OtherRefreshes, ClientRequest, SetError, TakeChild

LEMMA CallInvKeeps ==
  ASSUME TransactionInv, [Next]_vars
  PROVE  CallInv'
  <1>1. CallInv /\ CallTyped /\ RequestTyped
    BY DEF TransactionInv
  <1>2. CASE UNCHANGED callVars
    <2>1. W' = W
      BY <1>2 DEF W, callVars
    <2> QED BY <1>1, <1>2, <2>1 DEF CallInv, callVars, Untouched, HasRun, PassedOn,
               EventTells, ModeFits
  <1>3. CASE CallView
    <2>1. Call(Head(todo)) /\ Head(todo) \in DOMAIN Wrappers
      BY <1>1, <1>3, TailOfTodo DEF CallView, RequestTyped
    <2> QED BY <1>1, <2>1, CallStarts
  <1>4. CASE InView
    BY <1>1, <1>4, PrecheckKeeps, BodyKeeps, TargetKeeps, LeaveKeeps, GuardKeeps
       DEF InView, CallNext
  <1>5. CASE ViewDone
    <2>1. Forget
      BY <1>5 DEF ViewDone
    <2> QED BY <2>1 DEF Forget, CallInv, Untouched
  <1>6. CallView \/ InView \/ ViewDone \/ UNCHANGED callVars
    BY ViewSteps DEF NextRequest, Answer, Serve, Receive, NewSpan, EndServerSpan,
       AgentDisabled, CompareRevision, Refresh, AnnotateServerRequest
  <1> QED BY <1>2, <1>3, <1>4, <1>5, <1>6

-----------------------------------------------------------------------------
(* The template *)

LEMMA InViewSteps ==
  ASSUME InView
  PROVE  /\ phase = "serving" /\ step # "idle" /\ step' # "idle" /\ wrapper' = wrapper
         /\ UNCHANGED <<phase, requestVars, spanVars>>
  BY DEF InView, CallNext, Precheck, BodyPlain, BodyOpens, SetUpFails, Interrupted, Target,
         LeaveScope, LeavePlain, Guard

LEMMA LastInFrameworks ==
  \A f \in DOMAIN Frameworks : \A i \in DOMAIN Frameworks[f] :
     Wrappers[Frameworks[f][i]].route = "after" => i = Len(Frameworks[f])
  <1>1. /\ Wrappers["dispatch"].route = "before" /\ Wrappers["get_responder"].route = "returned"
        /\ Wrappers["fastapi_handle"].route = "before" /\ Wrappers["resolve"].route = "returned"
    BY DEF Wrappers, FlaskDispatch, FalconGetResponder, FastAPIRoute, StarletteRoute,
           AiohttpResolve, Wrapper
  <1> DEFINE Route(w) == Wrappers[w].route
             AtEnd(s) == \A i \in DOMAIN s : Route(s[i]) = "after" => i = Len(s)
  <1>2. /\ Route("dispatch") = "before" /\ Route("get_responder") = "returned"
        /\ Route("fastapi_handle") = "before" /\ Route("resolve") = "returned"
    BY <1>1
  <1> HIDE DEF Route
  <1>3. AtEnd(<<"dispatch", "finalize">>)
    BY <1>2
  <1>4. AtEnd(<<"get_responder", "responder">>)
    BY <1>2
  <1>5. AtEnd(<<"fastapi_handle", "run_endpoint">>)
    BY <1>2
  <1>6. AtEnd(<<"resolve", "traced">>)
    BY <1>2
  <1>7. /\ AtEnd(<<"call_view">>) /\ AtEnd(<<"get_response">>) /\ AtEnd(<<"get_response_async">>)
        /\ AtEnd(<<"handle">>)
    OBVIOUS
  <1>8. \A f \in DOMAIN Frameworks : AtEnd(Frameworks[f])
    <2> HIDE DEF AtEnd
    <2> QED BY <1>3, <1>4, <1>5, <1>6, <1>7 DEF Frameworks
  <1> QED BY <1>8 DEF Route

LEMMA AfterIsLastKeeps ==
  ASSUME TransactionInv, [Next]_vars
  PROVE  AfterIsLast'
  <1>1. AfterIsLast /\ AtRest /\ RequestTyped
    BY DEF TransactionInv, RouteInv
  <1>2. CASE UNCHANGED <<todo, step, wrapper>>
    <2>1. W' = W
      BY <1>2 DEF W
    <2> QED BY <1>1, <1>2, <2>1 DEF AfterIsLast
  <1>3. CASE Receive
    <2>1. step' = "idle"
      BY <1>1, <1>3 DEF Receive, AtRest, callVars
    <2>2. todo' = <<>> \/ \E f \in DOMAIN Frameworks : todo' = Frameworks[f]
      BY <1>3 DEF Receive, Apps
    <2> QED BY <2>1, <2>2, LastInFrameworks DEF AfterIsLast
  <1>4. CASE CallView
    <2>1. /\ todo # <<>> /\ todo' = Tail(todo) /\ wrapper' = Head(todo)
          /\ todo \in Seq(DOMAIN Wrappers)
      BY <1>1, <1>4 DEF CallView, Call, RequestTyped
    <2>2. /\ Len(todo) \in Nat /\ Len(todo) >= 1 /\ Head(todo) = todo[1]
          /\ DOMAIN todo = 1..Len(todo)
          /\ Len(todo') = Len(todo) - 1 /\ DOMAIN todo' = 1..(Len(todo) - 1)
          /\ \A i \in 1..(Len(todo) - 1) : todo'[i] = todo[i + 1]
      <3> DEFINE D == DOMAIN Wrappers
      <3>1. todo \in Seq(D)
        BY <2>1
      <3> HIDE DEF D
      <3> QED BY <2>1, <3>1
    <2>3. W' = Wrappers[todo[1]]
      BY <2>1, <2>2 DEF W
    <2>4. Wrappers[todo[1]].route = "after" => todo' = <<>>
      <3> DEFINE D == DOMAIN Wrappers
      <3>1. todo \in Seq(D)
        BY <2>1
      <3>2. Wrappers[todo[1]].route = "after" => Len(todo) = 1
        BY <1>1, <2>2 DEF AfterIsLast
      <3> HIDE DEF D
      <3>3. Len(todo) = 1 => Tail(todo) = <<>>
        BY <2>1, <3>1
      <3> QED BY <2>1, <3>2, <3>3
    <2>5. \A i \in DOMAIN todo' : Wrappers[todo'[i]].route = "after" => i = Len(todo')
      <3>1. ASSUME NEW i \in 1..(Len(todo) - 1), Wrappers[todo'[i]].route = "after"
            PROVE  i = Len(todo) - 1
        <4>1. i + 1 \in DOMAIN todo /\ todo'[i] = todo[i + 1]
          BY <2>2
        <4>2. i + 1 = Len(todo)
          BY <1>1, <3>1, <4>1 DEF AfterIsLast
        <4>3. i \in Int /\ Len(todo) \in Int
          BY <2>2
        <4> QED BY <4>2, <4>3
      <3> QED BY <2>2, <3>1
    <2> QED BY <2>3, <2>4, <2>5 DEF AfterIsLast
  <1>5. CASE InView
    <2>1. step # "idle" /\ W' = W /\ todo' = todo
      BY <1>5, InViewSteps DEF requestVars, W
    <2> QED BY <1>1, <2>1 DEF AfterIsLast
  <1>6. CASE ViewDone \/ NextRequest
    <2>1. step' = "idle"
      BY <1>1, <1>6 DEF ViewDone, Forget, NextRequest, AtRest, callVars
    <2>2. todo' = todo \/ todo' = <<>>
      BY <1>6 DEF ViewDone, NextRequest
    <2> QED BY <1>1, <2>1, <2>2 DEF AfterIsLast
  <1>7. Receive \/ CallView \/ InView \/ ViewDone \/ NextRequest
          \/ UNCHANGED <<todo, step, wrapper>>
    BY ViewSteps DEF Answer, Serve, NewSpan, EndServerSpan, AgentDisabled, CompareRevision,
       Refresh, AnnotateServerRequest, requestVars, callVars
  <1> QED BY <1>2, <1>3, <1>4, <1>5, <1>6, <1>7

LEMMA AtRestKeeps ==
  ASSUME TransactionInv, [Next]_vars
  PROVE  AtRest'
  <1>1. AtRest
    BY DEF TransactionInv, RouteInv
  <1>2. CASE UNCHANGED <<phase, app, todo, step, matched, stashed>>
    BY <1>1, <1>2 DEF AtRest
  <1>3. CASE Receive
    BY <1>1, <1>3 DEF Receive, AtRest, Later, callVars, routeVars
  <1>4. CASE NewSpan \/ AgentDisabled \/ CompareRevision \/ Refresh \/ AnnotateServerRequest
               \/ Serve
    BY <1>1, <1>4 DEF NewSpan, AgentDisabled, CompareRevision, Refresh, AnnotateServerRequest,
       Serve, AtRest, Later, requestVars, callVars, routeVars
  <1>5. CASE CallView
    BY <1>1, <1>5 DEF CallView, AtRest, Later
  <1>6. CASE InView
    BY <1>1, <1>6, InViewSteps DEF AtRest, Later, requestVars
  <1>7. CASE ViewDone
    BY <1>1, <1>7 DEF ViewDone, Forget, AtRest, Later
  <1>8. CASE Answer \/ EndServerSpan
    BY <1>1, <1>8 DEF Answer, EndServerSpan, AtRest, Later, requestVars, callVars, routeVars
  <1>9. CASE NextRequest
    BY <1>1, <1>9 DEF NextRequest, AtRest, callVars, None, Bare
  <1>10. UNCHANGED <<phase, app, todo, step, matched, stashed>>
           \/ Receive \/ NewSpan \/ AgentDisabled \/ CompareRevision \/ Refresh
           \/ AnnotateServerRequest \/ Serve \/ CallView \/ InView \/ ViewDone \/ Answer
           \/ EndServerSpan \/ NextRequest
    BY ViewSteps DEF requestVars, callVars, routeVars
  <1> QED BY <1>2, <1>3, <1>4, <1>5, <1>6, <1>7, <1>8, <1>9, <1>10

LEMMA ToldKeeps ==
  ASSUME TransactionInv, [Next]_vars
  PROVE  Told'
  <1>1. Told
    BY DEF TransactionInv, RouteInv
  <1>2. CASE EndServerSpan
    <2>1. UrlStat' = UrlStat /\ urlStat' = UrlStat
      BY <1>2 DEF EndServerSpan, UrlStat, requestVars, routeVars
    <2> QED BY <2>1 DEF Told
  <1>3. CASE UNCHANGED <<phase, requestVars, status, urlStat, callVars, routeVars>>
    <2>1. UrlStat' = UrlStat
      BY <1>3 DEF UrlStat, requestVars, routeVars
    <2> QED BY <1>1, <1>3, <2>1 DEF Told
  <1>4. phase' # "over" \/ EndServerSpan
          \/ UNCHANGED <<phase, requestVars, status, urlStat, callVars, routeVars>>
    BY ViewSteps, InViewSteps DEF CallView, ViewDone, NextRequest, Answer, Serve, Receive, NewSpan,
       AgentDisabled, CompareRevision, Refresh, AnnotateServerRequest
  <1> QED BY <1>2, <1>3, <1>4 DEF Told

LEMMA StashesWhatIsWanted ==
  ASSUME WantsRoute
  PROVE  Stashes(span, collects)
  BY DEF WantsRoute, Stashes

LEMMA RouteKeptInView ==
  ASSUME TransactionInv, InView
  PROVE  RouteKept'
  <1>1. RouteKept /\ CallInv /\ CallTyped /\ AfterIsLast
    BY DEF TransactionInv, RouteInv
  <1>2. /\ W' = W /\ WantsRoute' = WantsRoute /\ todo' = todo /\ step # "idle"
        /\ step' # "idle" /\ wrapper \in DOMAIN Wrappers
    BY <1>1, InViewSteps DEF requestVars, W, WantsRoute, CallInv
  <1>3. Sound(wrapper) /\ W = Wrappers[wrapper]
    BY <1>2, WrapperFacts DEF W
  <1> SUFFICES ASSUME matched', WantsRoute, ~stashed'
               PROVE  Leaving' \/ (mode' = "untraced" /\ W.route = "after")
    BY <1>2 DEF RouteKept
  <1>4. Stashes(span, collects)
    BY StashesWhatIsWanted
  <1>5. CASE step \in {"precheck", "body"}
    <2>1. ~matched \/ stashed
      BY <1>1, <1>5 DEF RouteKept, CallInv, Untouched, Leaving, None
    <2>2. CASE Precheck(span) \/ Interrupted
      BY <2>1, <2>2 DEF Precheck, Interrupted, routeVars
    <2>3. CASE StashBefore(span, collects)
      <3>1. CASE stashed' = (stashed \/ Stashes(span, collects))
        BY <1>4, <3>1
      <3>2. CASE UNCHANGED routeVars
        BY <2>1, <3>2 DEF routeVars
      <3> QED BY <2>3, <3>1, <3>2 DEF StashBefore
    <2>4. Precheck(span) \/ Interrupted \/ StashBefore(span, collects)
      BY <1>5 DEF InView, CallNext, BodyPlain, BodyOpens, SetUpFails, Target, LeaveScope,
         LeavePlain, Guard
    <2> QED BY <2>2, <2>3, <2>4
  <1>6. CASE Target
    <2>1. /\ step = "target" /\ step' = "leave" /\ mode' = mode /\ stashed' = stashed
          /\ \/ W.route = "after"
             \/ W.route = "returned" /\ outcome' = "returns"
             \/ matched' = matched
      BY <1>6 DEF Target, Raised
    <2>2. /\ mode \in {"traced", "plain", "inner", "untraced", "raw"} /\ ModeFits
      BY <1>1, <1>2, <2>1 DEF CallInv, CallTyped
    <2>3. CASE W.route = "after" \/ (W.route = "returned" /\ outcome' = "returns")
      <3>1. mode # "inner" /\ mode # "raw"
        BY <1>3, <2>2, <2>3 DEF ModeFits, Sound
      <3>2. mode = "untraced" => W.route = "after"
        BY <1>3, <2>2, <2>3 DEF ModeFits, Sound
      <3>3. mode' \in {"traced", "plain"} => Leaving'
        BY <1>2, <2>1, <2>3 DEF Leaving
      <3> QED BY <2>1, <2>2, <3>1, <3>2, <3>3
    <2>4. CASE matched' = matched
      <3>1. mode = "untraced" /\ W.route = "after"
        BY <1>1, <1>2, <2>1, <2>4 DEF RouteKept, Leaving
      <3> QED BY <2>1, <3>1
    <2> QED BY <2>1, <2>3, <2>4
  <1>7. CASE LeaveScope(span, collects) \/ LeavePlain(span, collects)
    <2>1. /\ step = "leave" /\ mode' = mode /\ matched' = matched
          /\ stashed' = (stashed \/ StashAfter(span, collects))
      BY <1>7 DEF LeaveScope, LeavePlain
    <2>2. ~stashed /\ ~StashAfter(span, collects)
      BY <2>1
    <2>3. ~Leaving
      BY <1>4, <2>1, <2>2 DEF Leaving, StashAfter
    <2> QED BY <1>1, <1>2, <2>1, <2>2, <2>3 DEF RouteKept
  <1>8. CASE Guard
    <2>1. /\ step = "guard" /\ UNCHANGED routeVars
          /\ mode' = "untraced" \/ mode' = mode
      BY <1>8 DEF Guard
    <2>2. mode = "untraced" /\ W.route = "after"
      BY <1>1, <1>2, <2>1 DEF RouteKept, Leaving, routeVars
    <2> QED BY <2>1, <2>2
  <1>9. step \in {"precheck", "body"} \/ Target \/ LeaveScope(span, collects)
          \/ LeavePlain(span, collects) \/ Guard
    BY DEF InView, CallNext, Precheck, BodyPlain, BodyOpens, SetUpFails, Interrupted
  <1> QED BY <1>5, <1>6, <1>7, <1>8, <1>9

LEMMA RouteKeptKeeps ==
  ASSUME TransactionInv, [Next]_vars
  PROVE  RouteKept'
  <1>1. RouteKept /\ AfterIsLast /\ AtRest
    BY DEF TransactionInv, RouteInv
  <1>2. CASE UNCHANGED <<collects, todo, span, callVars, routeVars>>
    <2>1. W' = W /\ WantsRoute' = WantsRoute
      BY <1>2 DEF W, WantsRoute, callVars
    <2>2. Leaving' = Leaving
      BY <1>2, <2>1 DEF Leaving, callVars
    <2> QED BY <1>1, <1>2, <2>1, <2>2 DEF RouteKept, callVars, routeVars
  <1>3. CASE Receive \/ NewSpan \/ NextRequest
    <2>1. ~matched'
      BY <1>1, <1>3 DEF Receive, NewSpan, NextRequest, AtRest, Later, routeVars
    <2> QED BY <2>1 DEF RouteKept
  <1>4. CASE CallView
    <2>1. /\ step = "idle" /\ todo # <<>> /\ UNCHANGED <<span, collects, matched, stashed>>
      BY <1>4 DEF CallView, Call, routeVars
    <2>2. ~(matched /\ WantsRoute /\ ~stashed)
      BY <1>1, <2>1 DEF RouteKept, Leaving
    <2>3. WantsRoute' = WantsRoute
      BY <2>1 DEF WantsRoute
    <2> QED BY <2>1, <2>2, <2>3 DEF RouteKept
  <1>5. CASE ViewDone
    <2>1. /\ step = "over" /\ step' = "idle" /\ (todo' = todo \/ todo' = <<>>)
          /\ UNCHANGED <<span, collects, matched, stashed>>
      BY <1>5 DEF ViewDone, Forget, routeVars
    <2>2. matched /\ WantsRoute /\ ~stashed => todo = <<>>
      BY <1>1, <2>1 DEF RouteKept, Leaving, AfterIsLast
    <2>3. WantsRoute' = WantsRoute
      BY <2>1 DEF WantsRoute
    <2> QED BY <2>1, <2>2, <2>3 DEF RouteKept
  <1>6. Receive \/ NewSpan \/ NextRequest \/ CallView \/ InView \/ ViewDone
          \/ UNCHANGED <<collects, todo, span, callVars, routeVars>>
    BY ZenonT(40), ViewSteps DEF Answer, Serve, EndServerSpan, AgentDisabled, CompareRevision, Refresh,
       AnnotateServerRequest, requestVars
  <1> QED BY <1>2, <1>3, <1>4, <1>5, <1>6, RouteKeptInView

-----------------------------------------------------------------------------
(* The theorems *)

LEMMA InitHolds ==
  ASSUME Init
  PROVE  TransactionInv
  <1> USE HttpTransactionAssumption
  <1>1. Fresh /\ CallInit
    BY DEF Init
  <1>2. RequestTyped
    BY <1>1 DEF Init, Fresh, RequestTyped, Phases
  <1>3. ConfigTyped
    BY <1>1 DEF Init, Fresh, ConfigTyped
  <1>4. SpanTyped
    <2>1. ToSet(verdicts) = {} /\ verdicts \in Seq(Errors) /\ Len(verdicts) = 0
      BY <1>1, EmptyHasNone DEF Fresh
    <2>2. children \in [Children -> {None, "null", "sampled_child", "unsampled_child"}]
      BY <1>1 DEF Fresh
    <2>3. /\ ended \in BOOLEAN /\ failed \in BOOLEAN /\ status = 0 /\ urlStat.status = 0
          /\ marked = {} /\ erred = {}
      BY <1>1 DEF Fresh, NoStat
    <2> QED BY <2>1, <2>2, <2>3 DEF SpanTyped
  <1>5. CallTyped
    BY <1>1 DEF CallInit, CallTyped
  <1>6. InOrder /\ OneConfig /\ KindPasses
    BY <1>1 DEF Fresh, InOrder, OneConfig, KindPasses, Early, Pending, Before, Later, None
  <1>7. ErrorsKept
    BY <1>1, EmptyHasNone DEF Fresh, ErrorsKept
  <1>8. Undecided /\ RecordedFromTheRequest
    BY <1>1 DEF Fresh, Undecided, RecordedFromTheRequest
  <1>9. CallInv
    BY <1>1 DEF CallInit, CallInv, Untouched
  <1>10. RouteInv
    <2>1. RouteKept /\ AfterIsLast
      BY <1>1 DEF Fresh, CallInit, RouteKept, AfterIsLast
    <2>2. AtRest /\ Told
      BY <1>1 DEF Fresh, CallInit, AtRest, Told
    <2> QED BY <2>1, <2>2 DEF RouteInv
  <1> QED BY <1>2, <1>3, <1>4, <1>5, <1>6, <1>7, <1>8, <1>9, <1>10 DEF TransactionInv

LEMMA StepKeeps ==
  ASSUME TransactionInv, [Next]_vars
  PROVE  TransactionInv'
  <1>1. RequestTyped' /\ ConfigTyped' /\ SpanTyped' /\ CallTyped'
    BY RequestTypedKeeps, ConfigTypedKeeps, SpanTypedKeeps, CallTypedKeeps
  <1>2. InOrder' /\ OneConfig' /\ ErrorsKept' /\ KindPasses'
    BY InOrderKeeps, OneConfigKeeps, ErrorsKeptKeeps, KindPassesKeeps
  <1>3. Undecided' /\ RecordedFromTheRequest' /\ CallInv'
    BY UndecidedKeeps, RecordedKeeps, CallInvKeeps
  <1>4. RouteInv'
    BY RouteKeptKeeps, AfterIsLastKeeps, AtRestKeeps, ToldKeeps DEF RouteInv
  <1> QED BY <1>1, <1>2, <1>3, <1>4 DEF TransactionInv

(* The inductive invariant: a transaction has its settings from one        *)
(* generation, its errors in one of two places and its children from its   *)
(* own kind; where a call is tells how often the target ran and what is to *)
(* be seen of it, and whether a matched template may still be missing.     *)
THEOREM TransactionInvariant == Spec => []TransactionInv
  <1>1. Init => TransactionInv
    BY InitHolds
  <1>2. TransactionInv /\ [Next]_vars => TransactionInv'
    BY StepKeeps
  <1> QED BY <1>1, <1>2, PTL DEF Spec

(* Whatever the carrier, the headers and their order, the caller's s0 and  *)
(* its trace are the ones found, and everything that an unsampled request  *)
(* starts sends s0, for any number of children.                            *)
THEOREM CallersDecisionTravels == Spec => []DecisionTravels
  <1>1. ASSUME TransactionInv
        PROVE  DecisionTravels
    <2>1. Undecided /\ KindPasses /\ InOrder /\ RequestTyped /\ SpanTyped
      BY <1>1 DEF TransactionInv
    <2>2. ASSUME NEW c \in Children, children[c] # None
          PROVE  /\ (span = "unsampled") = (Injected(children[c], ended) = "s0")
                 /\ span = "null" => Injected(children[c], ended) = "nothing"
      <3>1. CASE span = "unsampled"
        <4>1. children[c] = "unsampled_child"
          BY <2>1, <2>2, <3>1 DEF KindPasses
        <4>2. Injected("unsampled_child", ended) = "s0"
          BY DEF Injected, None
        <4> QED BY <3>1, <4>1, <4>2
      <3>2. CASE span = "null"
        <4>1. children[c] = "null"
          BY <2>1, <2>2, <3>2 DEF KindPasses
        <4> QED BY <3>2, <4>1 DEF Injected
      <3>3. CASE span = "sampled"
        <4>1. children[c] \in {"sampled_child", "null"}
          BY <2>1, <2>2, <3>3 DEF KindPasses
        <4> QED BY <3>3, <4>1 DEF Injected
      <3>4. span # None
        BY <2>1, <2>2 DEF KindPasses
      <3> QED BY <2>1, <3>1, <3>2, <3>3, <3>4 DEF RequestTyped
    <2> QED BY <2>1, <2>2 DEF DecisionTravels, Undecided
  <1> QED BY <1>1, TransactionInvariant, PTL

(* However the native side reloads, and whoever refreshes the cache, a     *)
(* span records by the settings it was admitted under, or by none.         *)
THEOREM OneGenerationPerSpan == Spec => []AdmittedUnderOneConfig
  <1>1. TransactionInv => AdmittedUnderOneConfig
    BY DEF TransactionInv, OneConfig, AdmittedUnderOneConfig, Before, Early, Pending
  <1> QED BY <1>1, TransactionInvariant, PTL

(* The remote address and the recorded headers are those of the request,   *)
(* for every message, every settings and every reader.                     *)
THEOREM RecordsAreTrue == Spec => []RecordedFromTheRequest
  <1>1. TransactionInv => RecordedFromTheRequest
    BY DEF TransactionInv
  <1> QED BY <1>1, TransactionInvariant, PTL

(* An error that is not ignored reaches the native policy, whatever the    *)
(* limit on the verdicts kept; and every variable has its type.            *)
THEOREM RealErrorFails == Spec => []FailureReachesNative
  <1>1. ASSUME TransactionInv
        PROVE  FailureReachesNative
    <2>1. TypeOK
      BY <1>1, TypedIsTypeOK DEF TransactionInv
    <2>2. phase = "over" /\ span = "unsampled" => (failed <=> "real" \in erred)
      BY <1>1 DEF TransactionInv, ErrorsKept
    <2>3. failed \in BOOLEAN
      BY <1>1 DEF TransactionInv, SpanTyped
    <2> QED BY <2>1, <2>2, <2>3 DEF FailureReachesNative
  <1> QED BY <1>1, TransactionInvariant, PTL

(* A matched template is left for the root by every wrapper of every       *)
(* framework, and URL statistics follow it and the status.                 *)
THEOREM TemplateIsKnown == Spec => []RouteIsKnown
  <1>1. ASSUME TransactionInv
        PROVE  RouteIsKnown
    <2>1. RouteKept /\ Told
      BY <1>1 DEF TransactionInv, RouteInv
    <2>2. step = "over" /\ mode \in {"traced", "plain", "inner"} /\ matched
            /\ (span = "sampled" \/ (span = "unsampled" /\ collects)) => stashed
      BY <2>1 DEF RouteKept, Leaving, WantsRoute
    <2>3. ASSUME phase = "over", collects, span \in {"sampled", "unsampled"}
          PROVE  /\ (urlStat = NoStat) = (status = 0)
                 /\ (urlStat # NoStat /\ stashed => urlStat.pattern = "route")
      BY <2>1, <2>3 DEF Told, UrlStat, NoStat
    <2> QED BY <2>2, <2>3 DEF RouteIsKnown
  <1> QED BY <1>1, TransactionInvariant, PTL

(* No wrapper of any framework runs its target twice or hides what it did, *)
(* whichever of its own statements fails, but for the two exceptions.      *)
THEOREM WrappersAreTransparent == Spec => []CallIsTransparent
  <1>1. ASSUME TransactionInv
        PROVE  CallIsTransparent
    <2>1. CallInv /\ CallTyped
      BY <1>1 DEF TransactionInv
    <2>2. ran <= 1 \/ (ran = 2 /\ wrapper = "handle" /\ mode = "untraced")
      <3>1. step \in {"idle", "precheck", "body"} => ran = 0
        BY <2>1 DEF CallInv, Untouched
      <3>2. step = "target" => ran \in {0, 1}
        BY <2>1 DEF CallInv
      <3>3. step \in {"leave", "guard", "over"} =>
              ran \in {0, 1} \/ (ran = 2 /\ wrapper = "handle" /\ mode = "untraced")
        BY <2>1 DEF CallInv, HasRun
      <3> QED BY <2>1, <3>1, <3>2, <3>3 DEF CallTyped
    <2>3. step = "over" =>
            \/ ran > 0 /\ seen = outcome
            \/ ran = 0 /\ seen = "interrupt"
            \/ ran = 1 /\ seen = "classifier" /\ broken /\ ~W.scope
      BY <2>1 DEF CallInv, HasRun
    <2> QED BY <2>2, <2>3 DEF CallIsTransparent
  <1> QED BY <1>1, TransactionInvariant, PTL

(* The event of a call is closed with it and tells whether the view        *)
(* failed, for every wrapper and every outcome, with the exceptions that   *)
(* ErrorsAreFailures names: the two wrappers that classify nothing, and a  *)
(* classifier that fails.                                                  *)
THEOREM EventsTellFailures == Spec => []ErrorsAreFailures
  <1>1. ASSUME TransactionInv
        PROVE  ErrorsAreFailures
    <2>1. CallInv /\ CallTyped
      BY <1>1 DEF TransactionInv
    <2> SUFFICES ASSUME step = "over", mode = "traced", ran = 1
                 PROVE  /\ event \in {"clean", "failed"}
                        /\ event = "failed" <=>
                             /\ IsException(outcome) /\ ~(broken /\ wrapper = "traced")
                             /\ outcome \in Answers(wrapper) =>
                                  broken \/ wrapper \in Unclassified
      BY DEF ErrorsAreFailures
    <2>2. EventTells /\ ModeFits /\ wrapper \in DOMAIN Wrappers
      BY <2>1 DEF CallInv, None
    <2>3. /\ W.scope <=> wrapper # "traced"
          /\ W.classify = None <=> wrapper \in Unclassified
          /\ W.classify = "django" <=> wrapper \in {"get_response", "get_response_async"}
          /\ W.classify \in {"status", "django", None}
      BY <2>2, WrapperFacts DEF W, Sound, ModeFits
    <2>4. CASE broken
      <3>1. event = "failed" <=> W.scope
        BY <2>2, <2>4 DEF EventTells
      <3>2. IsException(outcome)
        BY <2>2, <2>4 DEF EventTells
      <3> QED BY <2>2, <2>3, <2>4, <3>1, <3>2 DEF EventTells
    <2>5. CASE ~broken
      <3>1. event = "failed" <=> IsException(outcome) /\ ~Answered(W.classify, outcome)
        BY <2>2, <2>5 DEF EventTells
      <3>2. Answered(W.classify, outcome)
              <=> outcome \in Answers(wrapper) /\ wrapper \notin Unclassified
        BY <2>3 DEF Answered, Answers, None
      <3> QED BY <2>2, <2>5, <3>1, <3>2 DEF EventTells
    <2> QED BY <2>1, <2>4, <2>5 DEF CallTyped
  <1> QED BY <1>1, TransactionInvariant, PTL

=============================================================================
