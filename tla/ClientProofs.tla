------------------------------ MODULE ClientProofs ------------------------------
(***************************************************************************)
(* The outbound side: proofs about the clients of Clients, and below them  *)
(* about the producers and consumers of Messaging.                         *)
(*                                                                         *)
(* Clients.  ClientsInv says of the stack of calls that each one is in     *)
(* `below` of all those around it, that the flags it restores are those    *)
(* that were up when it was entered, and that what a traced one raised is  *)
(* up for as long as it lasts: so a layer that could trace under another   *)
(* one finds a flag to yield to.  Of the event stack it says that the open *)
(* events are those of calls, in their order, with the abandoned ones      *)
(* apart, and that each call has its own open, save the one whose event    *)
(* ended when it started and those below which another task of the thread  *)
(* ended one.  Of the table of MongoDB commands it says that an entry that *)
(* a caller has under the key of its command is of that command.           *)
(*                                                                         *)
(* Messaging.  MessagingInv says of what is published that a message which *)
(* is new has headers only while its one sender is about to send it        *)
(* (WireInv); of the delivery spans that one which records has a scope,    *)
(* held by its handler or by a finalizer of its consumer, that the span of *)
(* a scope is current on the worker that opened it, and that what a scope  *)
(* restores hides nothing (ScopeInv); and of the consumers which of their  *)
(* scopes they hold (RestInv).                                             *)
(***************************************************************************)
EXTENDS Clients, Messaging, FiniteSetTheorems, SequenceTheorems, TLAPS

-----------------------------------------------------------------------------
(* What the table of the wrapped methods says *)

FlagNames == {"http", "many", "orm", "cql"}

(* The layers that drive others. *)
Drivers == {"executemany", "before_cursor_execute", "cassandra", "perform_request",
            "async_perform", "send", "urlopen"}

Fields(l, yields, raises, unsampled, failed, spanless, below) ==
  /\ l.yields = yields /\ l.raises = raises /\ l.unsampled = unsampled
  /\ l.failed = failed /\ l.spanless = spanless /\ l.below = below

LEMMA LayersTell ==
  /\ \A s \in DOMAIN Surface :
       /\ Surface[s].yields \subseteq FlagNames /\ Surface[s].raises \subseteq FlagNames
       /\ Surface[s].unsampled \subseteq FlagNames /\ Surface[s].failed \subseteq FlagNames
       /\ Surface[s].spanless \subseteq FlagNames
       /\ Surface[s].below \subseteq DOMAIN Surface
       /\ Surface[s].http \in BOOLEAN
       /\ s \notin Drivers => Surface[s].below = {}
  /\ \A s \in {"send", "urlopen", "httpx", "async_httpx", "_request"} : "http" \in Surface[s].yields
  /\ \A s \in {"execute", "async_cursor", "executemany", "fetch"} :
       "many" \in Surface[s].yields /\ "orm" \in Surface[s].yields
  /\ "cql" \in Surface["execute_async"].yields
  /\ Surface["executemany"].below = {"execute"} /\ "many" \in Surface["executemany"].raises
  /\ Fields(Surface["before_cursor_execute"], {}, {"orm"}, {"orm"}, {}, {"orm"},
            {"execute", "async_cursor", "executemany", "fetch"})
  /\ Surface["cassandra"].below = {"execute_async"} /\ "cql" \in Surface["cassandra"].raises
  /\ Surface["perform_request"].below = {"send", "urlopen"}
  /\ "http" \in Surface["perform_request"].raises /\ ~Surface["perform_request"].http
  /\ Surface["async_perform"].below = {"async_httpx", "_request"}
  /\ "http" \in Surface["async_perform"].raises /\ ~Surface["async_perform"].http
  /\ Surface["send"].below = {"urlopen"} /\ "http" \in Surface["send"].raises
  /\ Surface["urlopen"].below = {"urlopen"} /\ Surface["urlopen"].raises = {}
  /\ {"mongo", "before_cursor_execute", "send", "urlopen", "cassandra"} \subseteq DOMAIN Surface
  <1>1. /\ Fields(Layer, {}, {}, {}, {}, {}, {}) /\ Layer.http = FALSE
        /\ Fields(CursorExecute, DriverFlags, {}, {}, {}, {}, {}) /\ CursorExecute.http = FALSE
        /\ Fields(MultiStatement, DriverFlags, {"many"}, {}, {}, {}, {"execute"})
        /\ MultiStatement.http = FALSE
        /\ Fields(AsyncpgFetch, DriverFlags, {}, {}, {}, {}, {}) /\ AsyncpgFetch.http = FALSE
    BY DEF Fields, Layer, CursorExecute, MultiStatement, AsyncpgFetch
  <1>2. /\ Fields(EngineExecute, {}, {"orm"}, {"orm"}, {}, {"orm"},
                  {"execute", "async_cursor", "executemany", "fetch"})
        /\ EngineExecute.http = FALSE
        /\ Fields(SessionExecute, {}, {"cql"}, {}, {}, {}, {"execute_async"})
        /\ SessionExecute.http = FALSE
        /\ Fields(SessionExecuteAsync, {"cql"}, {}, {}, {}, {}, {})
        /\ SessionExecuteAsync.http = FALSE
    BY DEF Fields, Layer, EngineExecute, SessionExecute, SessionExecuteAsync
  <1>3. /\ Fields(PerformRequest, {}, {"http"}, {"http"}, {"http"}, {}, {"send", "urlopen"})
        /\ PerformRequest.http = FALSE
        /\ Fields(AsyncPerformRequest, {}, {"http"}, {"http"}, {"http"}, {},
                  {"async_httpx", "_request"})
        /\ AsyncPerformRequest.http = FALSE
    BY DEF Fields, Layer, PerformRequest, AsyncPerformRequest
  <1>4. /\ Fields(SessionSend, {"http"}, {"http"}, {"http"}, {"http"}, {}, {"urlopen"})
        /\ Fields(Urlopen, {"http"}, {}, {}, {}, {}, {"urlopen"})
        /\ Fields(HttpxSend, {"http"}, {}, {}, {}, {}, {})
        /\ Fields(AiohttpRequest, {"http"}, {}, {}, {}, {}, {})
        /\ Fields(GrpcCall, {}, {}, {}, {}, {}, {})
        /\ SessionSend.http = TRUE /\ Urlopen.http = TRUE /\ HttpxSend.http = TRUE
        /\ AiohttpRequest.http = TRUE /\ GrpcCall.http = TRUE
    BY DEF Fields, Layer, SessionSend, Urlopen, HttpxSend, AiohttpRequest, GrpcCall
  <1>5. /\ Surface["execute"] = CursorExecute /\ Surface["async_cursor"] = CursorExecute
        /\ Surface["executemany"] = MultiStatement /\ Surface["fetch"] = AsyncpgFetch
        /\ Surface["before_cursor_execute"] = EngineExecute
        /\ Surface["cassandra"] = SessionExecute /\ Surface["execute_async"] = SessionExecuteAsync
        /\ Surface["perform_request"] = PerformRequest
        /\ Surface["async_perform"] = AsyncPerformRequest
        /\ Surface["send"] = SessionSend /\ Surface["urlopen"] = Urlopen
        /\ Surface["grpc"] = GrpcCall /\ Surface["httpx"] = HttpxSend
        /\ Surface["async_httpx"] = HttpxSend /\ Surface["_request"] = AiohttpRequest
        /\ \A s \in {"redis", "pipeline", "async_redis", "async_pipeline", "memcached", "mongo"} :
             Surface[s] = Layer
    BY DEF Surface, AsyncCursorExecute, RedisCommand, RedisPipeline, AsyncRedisCommand,
           AsyncRedisPipeline, MemcachedCommand, AsyncHttpxSend, MongoCommand
  <1>6. DOMAIN Surface =
          Drivers \cup {"execute", "async_cursor", "fetch", "execute_async", "grpc", "httpx",
                       "async_httpx", "_request"}
            \cup {"redis", "pipeline", "async_redis", "async_pipeline", "memcached", "mongo"}
    BY DEF Surface, Drivers
  <1>7. ASSUME NEW l \in {CursorExecute, MultiStatement, AsyncpgFetch, EngineExecute,
                          SessionExecute, SessionExecuteAsync, PerformRequest,
                          AsyncPerformRequest, SessionSend, Urlopen, HttpxSend,
                          AiohttpRequest, GrpcCall, Layer}
        PROVE  /\ l.yields \subseteq FlagNames /\ l.raises \subseteq FlagNames
               /\ l.unsampled \subseteq FlagNames /\ l.failed \subseteq FlagNames
               /\ l.spanless \subseteq FlagNames /\ l.http \in BOOLEAN
    <2>1. /\ {} \subseteq FlagNames /\ DriverFlags \subseteq FlagNames /\ {"many"} \subseteq FlagNames
          /\ {"orm"} \subseteq FlagNames /\ {"cql"} \subseteq FlagNames /\ {"http"} \subseteq FlagNames
      BY DEF FlagNames, DriverFlags
    <2>2. /\ l.yields \in {{}, DriverFlags, {"cql"}, {"http"}}
          /\ l.raises \in {{}, {"many"}, {"orm"}, {"cql"}, {"http"}}
          /\ l.unsampled \in {{}, {"orm"}, {"http"}} /\ l.failed \in {{}, {"http"}}
          /\ l.spanless \in {{}, {"orm"}}
      BY <1>1, <1>2, <1>3, <1>4 DEF Fields
    <2>3. l.http \in BOOLEAN
      BY <1>1, <1>2, <1>3, <1>4
    <2> QED BY <2>1, <2>2, <2>3
  <1>8. \A s \in DOMAIN Surface :
          /\ Surface[s] \in {CursorExecute, MultiStatement, AsyncpgFetch, EngineExecute,
                             SessionExecute, SessionExecuteAsync, PerformRequest,
                             AsyncPerformRequest, SessionSend, Urlopen, HttpxSend,
                             AiohttpRequest, GrpcCall, Layer}
          /\ Surface[s].below \subseteq DOMAIN Surface
          /\ s \notin Drivers => Surface[s].below = {}
    BY <1>1, <1>2, <1>3, <1>4, <1>5, <1>6 DEF Fields, Drivers
  <1>9. \A s \in DOMAIN Surface :
          /\ Surface[s].yields \subseteq FlagNames /\ Surface[s].raises \subseteq FlagNames
          /\ Surface[s].unsampled \subseteq FlagNames /\ Surface[s].failed \subseteq FlagNames
          /\ Surface[s].spanless \subseteq FlagNames /\ Surface[s].http \in BOOLEAN
    BY <1>7, <1>8
  <1>10. \A s \in {"send", "urlopen", "httpx", "async_httpx", "_request"} :
           "http" \in Surface[s].yields
    BY <1>4, <1>5 DEF Fields
  <1>11. \A s \in {"execute", "async_cursor", "executemany", "fetch"} :
           "many" \in Surface[s].yields /\ "orm" \in Surface[s].yields
    BY <1>1, <1>5 DEF Fields, DriverFlags
  <1>12. /\ "cql" \in Surface["execute_async"].yields
         /\ Surface["executemany"].below = {"execute"} /\ "many" \in Surface["executemany"].raises
         /\ Fields(Surface["before_cursor_execute"], {}, {"orm"}, {"orm"}, {}, {"orm"},
                   {"execute", "async_cursor", "executemany", "fetch"})
         /\ Surface["cassandra"].below = {"execute_async"} /\ "cql" \in Surface["cassandra"].raises
    BY <1>1, <1>2, <1>5 DEF Fields
  <1>13. /\ Surface["perform_request"].below = {"send", "urlopen"}
         /\ "http" \in Surface["perform_request"].raises /\ ~Surface["perform_request"].http
         /\ Surface["async_perform"].below = {"async_httpx", "_request"}
         /\ "http" \in Surface["async_perform"].raises /\ ~Surface["async_perform"].http
         /\ Surface["send"].below = {"urlopen"} /\ "http" \in Surface["send"].raises
         /\ Surface["urlopen"].below = {"urlopen"} /\ Surface["urlopen"].raises = {}
    BY <1>3, <1>4, <1>5 DEF Fields
  <1> QED BY <1>6, <1>8, <1>9, <1>10, <1>11, <1>12, <1>13 DEF Drivers

(* A layer that another one drives, and what it drives in turn, which the  *)
(* first one drives as well.                                               *)
LEMMA DrivenIs ==
  ASSUME NEW s \in DOMAIN Surface, NEW t \in Surface[s].below
  PROVE  /\ t \in DOMAIN Surface /\ t \notin {"mongo", "before_cursor_execute"} /\ s # "mongo"
         /\ Surface[t].below \subseteq Surface[s].below
         /\ Surface[s].raises \cap Surface[t].yields # {} \/ (s = "urlopen" /\ t = "urlopen")
         /\ t \in {"send", "httpx", "async_httpx", "grpc"} => ~Surface[s].http
         /\ s = "before_cursor_execute" => "orm" \in Surface[t].yields
  <1>1. s \in Drivers /\ t \in DOMAIN Surface
    BY LayersTell
  <1>2. CASE s = "executemany"
    BY <1>2, LayersTell DEF Drivers
  <1>3. CASE s = "before_cursor_execute"
    <2>1. t \in {"execute", "async_cursor", "executemany", "fetch"}
      BY <1>3, LayersTell DEF Fields
    <2>2. /\ "orm" \in Surface[s].raises /\ "orm" \in Surface[t].yields
          /\ Surface[s].below = {"execute", "async_cursor", "executemany", "fetch"}
      BY <1>3, <2>1, LayersTell DEF Fields
    <2>3. Surface[t].below \subseteq {"execute"}
      BY <1>1, <2>1, LayersTell DEF Drivers
    <2> QED BY <1>1, <1>3, <2>1, <2>2, <2>3
  <1>4. CASE s = "cassandra"
    BY <1>4, LayersTell DEF Drivers
  <1>5. CASE s = "perform_request"
    BY <1>5, LayersTell DEF Drivers
  <1>6. CASE s = "async_perform"
    BY <1>6, LayersTell DEF Drivers
  <1>7. CASE s = "send"
    BY <1>7, LayersTell DEF Drivers
  <1>8. CASE s = "urlopen"
    BY <1>8, LayersTell DEF Drivers
  <1> QED BY <1>1, <1>2, <1>3, <1>4, <1>5, <1>6, <1>7, <1>8 DEF Drivers

-----------------------------------------------------------------------------
(* Pushing and popping a sequence *)

LEMMA PushIs ==
  ASSUME NEW S, NEW s \in Seq(S), NEW x \in S
  PROVE  \E n \in Nat :
           /\ n = Len(s) /\ Append(s, x) \in Seq(S) /\ Len(Append(s, x)) = n + 1
           /\ DOMAIN s = 1..n /\ DOMAIN Append(s, x) = 1..(n + 1)
           /\ \A i \in 1..n : Append(s, x)[i] = s[i] /\ s[i] \in S
           /\ Append(s, x)[n + 1] = x
  OBVIOUS

LEMMA PopIs ==
  ASSUME NEW S, NEW s \in Seq(S), s # <<>>
  PROVE  \E n \in Nat \ {0} :
           /\ n = Len(s) /\ Front(s) \in Seq(S) /\ Len(Front(s)) = n - 1
           /\ DOMAIN s = 1..n /\ DOMAIN Front(s) = 1..(n - 1)
           /\ \A i \in 1..(n - 1) : Front(s)[i] = s[i]
           /\ \A i \in 1..n : s[i] \in S
           /\ Last(s) = s[n] /\ n \in 1..n
           /\ n = 1 => Front(s) = <<>>
  <1>1. PICK n \in Nat \ {0} : /\ n = Len(s) /\ DOMAIN s = 1..n /\ \A i \in 1..n : s[i] \in S
    OBVIOUS
  <1>2. Front(s) = SubSeq(s, 1, n - 1) /\ Last(s) = s[n]
    BY <1>1 DEF Front, Last
  <1>3. /\ SubSeq(s, 1, n - 1) \in Seq(S) /\ Len(SubSeq(s, 1, n - 1)) = n - 1
        /\ \A i \in 1..(n - 1) : SubSeq(s, 1, n - 1)[i] = s[i]
    BY <1>1
  <1>4. DOMAIN Front(s) = 1..(n - 1) /\ (n = 1 => Front(s) = <<>>)
    BY <1>2, <1>3
  <1> QED BY <1>1, <1>2, <1>3, <1>4

LEMMA FrontIs ==
  ASSUME NEW S, NEW s \in Seq(S), s # <<>>
  PROVE  \A i \in DOMAIN Front(s) : i \in DOMAIN s /\ Front(s)[i] = s[i]
  <1>1. PICK n \in Nat \ {0} : /\ n = Len(s) /\ DOMAIN s = 1..n /\ DOMAIN Front(s) = 1..(n - 1)
                               /\ \A i \in 1..(n - 1) : Front(s)[i] = s[i]
    BY PopIs
  <1> QED BY <1>1

-----------------------------------------------------------------------------
(* The stack of calls and the flags of a context *)

Carried == {None, "s0"} \cup (Callers \X Nat)

CallType ==
  [surface : DOMAIN Surface, event : Nat, restores : SUBSET FlagNames,
   carries : Carried, rid : RequestIds \cup {None}, again : BOOLEAN, clash : BOOLEAN]

(* The flags that are up while call i of the stack is the innermost one.   *)
FlagsIn(cs, up, i) == IF i = Len(cs) THEN up ELSE cs[i + 1].restores

Engine == "before_cursor_execute"

DrivenBelow(cs) ==
  \A i, j \in DOMAIN cs : i < j => cs[j].surface \in Surface[cs[i].surface].below

(* A flag that a traced call raised is up for as long as it is in progress *)
(* and no flag outlives its call, but for one that a statement lost.       *)
FlagsNest(cs, up, lost) ==
  /\ FlagsIn(cs, up, 0) = lost
  /\ \A i, j \in DOMAIN cs :
       i <= j /\ Traced(cs[i]) => Surface[cs[i].surface].raises \subseteq FlagsIn(cs, up, j)
  /\ \A i \in DOMAIN cs : cs[i].surface = Engine => FlagsIn(cs, up, i) \subseteq {"orm"}
  /\ \A i \in DOMAIN cs : cs[i].surface = "mongo" => FlagsIn(cs, up, i) = FlagsIn(cs, up, i - 1)

OneTraced(cs) ==
  \A i, j \in DOMAIN cs :
    i < j /\ Traced(cs[i]) /\ Traced(cs[j])
      => cs[i].surface = "urlopen" /\ cs[j].surface = "urlopen"

StackIsSound(cs, up, lost) == DrivenBelow(cs) /\ FlagsNest(cs, up, lost) /\ OneTraced(cs)

LEMMA EmptyStack == ASSUME NEW up PROVE StackIsSound(<<>>, up, up)
  BY DEF StackIsSound, DrivenBelow, FlagsNest, OneTraced, FlagsIn

LEMMA LastOfStack ==
  ASSUME NEW cs \in Seq(CallType), NEW up, NEW lost, StackIsSound(cs, up, lost), cs # <<>>
  PROVE  /\ Last(cs) \in CallType
         /\ Last(cs).surface = "mongo" => Len(cs) = 1 /\ Front(cs) = <<>> /\ up = Last(cs).restores
         /\ Last(cs).surface = Engine => Len(cs) = 1 /\ Front(cs) = <<>> /\ up \subseteq {"orm"}
  <1>1. PICK n \in Nat \ {0} : /\ n = Len(cs) /\ DOMAIN cs = 1..n /\ Last(cs) = cs[n]
                               /\ \A i \in 1..n : cs[i] \in CallType
                               /\ n = 1 => Front(cs) = <<>>
                               /\ n \in 1..n
    BY PopIs
  <1>2. ASSUME n # 1 PROVE cs[n].surface \notin {"mongo", Engine}
    <2>1. 1 \in DOMAIN cs /\ 1 < n /\ cs[1].surface \in DOMAIN Surface
      BY <1>1, <1>2 DEF CallType
    <2>2. cs[n].surface \in Surface[cs[1].surface].below
      BY <1>1, <2>1 DEF StackIsSound, DrivenBelow
    <2> QED BY <2>1, <2>2, DrivenIs DEF Engine
  <1>3. FlagsIn(cs, up, n) = up /\ (n = 1 => FlagsIn(cs, up, n - 1) = cs[n].restores)
    BY <1>1 DEF FlagsIn
  <1>4. /\ cs[n].surface = Engine => FlagsIn(cs, up, n) \subseteq {"orm"}
        /\ cs[n].surface = "mongo" => FlagsIn(cs, up, n) = FlagsIn(cs, up, n - 1)
    BY <1>1 DEF StackIsSound, FlagsNest
  <1> QED BY <1>1, <1>2, <1>3, <1>4

LEMMA PopKeeps ==
  ASSUME NEW cs \in Seq(CallType), NEW up, NEW lost, StackIsSound(cs, up, lost), cs # <<>>
  PROVE  StackIsSound(Front(cs), Last(cs).restores, lost)
  <1> DEFINE ds == Front(cs)
             down == Last(cs).restores
  <1>1. PICK n \in Nat \ {0} : /\ n = Len(cs) /\ DOMAIN cs = 1..n /\ Last(cs) = cs[n]
                               /\ Len(ds) = n - 1 /\ DOMAIN ds = 1..(n - 1)
                               /\ \A i \in 1..(n - 1) : ds[i] = cs[i]
    BY PopIs
  <1>2. down = cs[n].restores
    BY <1>1
  <1> HIDE DEF ds, down
  <1>3. \A i \in 0..(n - 1) : FlagsIn(ds, down, i) = FlagsIn(cs, up, i)
    BY <1>1, <1>2 DEF FlagsIn
  <1>4. \A i \in DOMAIN ds : /\ i \in DOMAIN cs /\ ds[i] = cs[i] /\ i \in 0..(n - 1)
                             /\ i - 1 \in 0..(n - 1) /\ 0 \in 0..(n - 1)
    BY <1>1
  <1>5. DrivenBelow(ds)
    BY <1>4 DEF StackIsSound, DrivenBelow
  <1>6. OneTraced(ds)
    BY <1>4 DEF StackIsSound, OneTraced
  <1>7. FlagsNest(ds, down, lost)
    <2>1. FlagsIn(ds, down, 0) = lost
      BY <1>3 DEF StackIsSound, FlagsNest
    <2> QED BY <1>3, <1>4, <2>1 DEF StackIsSound, FlagsNest
  <1> QED BY <1>5, <1>6, <1>7 DEF StackIsSound, ds, down

(* A call enters: f with the flags `more` on top of those that are up.     *)
LEMMA PushKeeps ==
  ASSUME NEW cs \in Seq(CallType), NEW up, NEW lost \in {{}, {"orm"}},
         StackIsSound(cs, up, lost),
         NEW f \in CallType, NEW more, NEW still,
         cs # <<>> => f.surface \in Surface[Last(cs).surface].below,
         f.restores = IF f.surface = Engine THEN up \ {"orm"} ELSE up,
         still = IF f.surface = Engine THEN {} ELSE lost,
         Traced(f) => /\ Surface[f.surface].raises \subseteq more
                      /\ Surface[f.surface].yields \cap up = {},
         f.surface = Engine => more \subseteq {"orm"},
         f.surface = "mongo" => more = {}
  PROVE  StackIsSound(Append(cs, f), f.restores \cup more, still)
  <1> DEFINE ds == Append(cs, f)
             all == f.restores \cup more
  <1>1. PICK n \in Nat : /\ n = Len(cs) /\ DOMAIN cs = 1..n
                         /\ Len(ds) = n + 1 /\ DOMAIN ds = 1..(n + 1)
                         /\ \A i \in 1..n : ds[i] = cs[i] /\ cs[i] \in CallType
                         /\ ds[n + 1] = f
    BY PushIs
  <1>2. n = 0 => cs = <<>>
    BY <1>1
  <1>3. n # 0 => n \in 1..n /\ f.surface \in Surface[cs[n].surface].below /\ cs[n] \in CallType
    <2> SUFFICES ASSUME n # 0
                 PROVE  n \in 1..n /\ f.surface \in Surface[cs[n].surface].below /\ cs[n] \in CallType
      OBVIOUS
    <2>1. cs # <<>> /\ n \in 1..n
      BY <1>1
    <2>2. Last(cs) = cs[n]
      BY <1>1 DEF Last
    <2> QED BY <1>1, <2>1, <2>2
  <1> HIDE DEF ds, all
  <1>4. \A i \in 1..n : /\ f.surface \in Surface[cs[i].surface].below
                        /\ cs[i].surface \in DOMAIN Surface
    <2> TAKE i \in 1..n
    <2>1. cs[i].surface \in DOMAIN Surface /\ cs[n].surface \in DOMAIN Surface
      BY <1>1, <1>3 DEF CallType
    <2>2. CASE i = n
      BY <1>3, <2>1, <2>2
    <2>3. CASE i # n
      <3>1. n \in 1..n /\ i < n
        BY <2>3
      <3>2. cs[n].surface \in Surface[cs[i].surface].below
        BY <1>1, <3>1 DEF StackIsSound, DrivenBelow
      <3> QED BY <1>3, <2>1, <3>1, <3>2, DrivenIs
    <2> QED BY <2>2, <2>3
  <1>5. f.surface = Engine => n = 0
    <2> SUFFICES ASSUME f.surface = Engine, n # 0 PROVE FALSE
      OBVIOUS
    <2> QED BY <1>3, <1>4, DrivenIs DEF Engine
  <1>6. /\ FlagsIn(ds, all, n + 1) = all /\ FlagsIn(ds, all, n) = f.restores
        /\ FlagsIn(cs, up, n) = up
    BY <1>1 DEF FlagsIn
  <1>7. \A i \in 0..n : i < n \/ f.surface # Engine => FlagsIn(ds, all, i) = FlagsIn(cs, up, i)
    <2> TAKE i \in 0..n
    <2>1. CASE i = n
      BY <1>6, <2>1
    <2>2. CASE i # n
      <3>1. i + 1 \in 1..n /\ i # n + 1
        BY <2>2
      <3> QED BY <1>1, <2>2, <3>1 DEF FlagsIn
    <2> QED BY <2>1, <2>2
  <1>8. FlagsIn(cs, up, 0) = lost
    BY DEF StackIsSound, FlagsNest
  <1>9. FlagsIn(ds, all, 0) = still
    <2>1. CASE f.surface = Engine
      <3>1. up = lost
        BY <1>5, <1>6, <1>8, <2>1
      <3> QED BY <1>5, <1>6, <2>1, <3>1
    <2>2. CASE f.surface # Engine
      BY <1>7, <1>8, <2>2
    <2> QED BY <2>1, <2>2
  <1>10. \A i \in DOMAIN ds : (i \in 1..n /\ i \in DOMAIN cs /\ ds[i] = cs[i]) \/ (i = n + 1 /\ ds[i] = f)
    BY <1>1
  <1>11. DrivenBelow(ds)
    <2> SUFFICES ASSUME NEW i \in DOMAIN ds, NEW j \in DOMAIN ds, i < j
                 PROVE  ds[j].surface \in Surface[ds[i].surface].below
      BY DEF DrivenBelow
    <2>1. i \in 1..n /\ i \in DOMAIN cs /\ ds[i] = cs[i]
      BY <1>1, <1>10
    <2>2. CASE j = n + 1
      BY <1>1, <1>4, <2>1, <2>2
    <2>3. CASE j # n + 1
      BY <1>10, <2>1, <2>3 DEF StackIsSound, DrivenBelow
    <2> QED BY <2>2, <2>3
  <1>12. OneTraced(ds)
    <2> SUFFICES ASSUME NEW i \in DOMAIN ds, NEW j \in DOMAIN ds, i < j,
                        Traced(ds[i]), Traced(ds[j])
                 PROVE  ds[i].surface = "urlopen" /\ ds[j].surface = "urlopen"
      BY DEF OneTraced
    <2>1. i \in 1..n /\ i \in DOMAIN cs /\ ds[i] = cs[i]
      BY <1>1, <1>10
    <2>2. CASE j = n + 1
      <3>1. ds[j] = f /\ Surface[f.surface].yields \cap up = {}
        BY <1>1, <2>2
      <3>2. n \in DOMAIN cs /\ i <= n
        BY <1>1, <2>1
      <3>3. Surface[cs[i].surface].raises \subseteq up
        BY <1>6, <2>1, <3>2 DEF StackIsSound, FlagsNest
      <3>4. Surface[cs[i].surface].raises \cap Surface[f.surface].yields = {}
        BY <3>1, <3>3
      <3> QED BY <1>4, <2>1, <3>1, <3>4, DrivenIs
    <2>3. CASE j # n + 1
      BY <1>10, <2>1, <2>3 DEF StackIsSound, OneTraced
    <2> QED BY <2>2, <2>3
  <1>13. FlagsNest(ds, all, still)
    <2>1. ASSUME NEW i \in DOMAIN ds, NEW j \in DOMAIN ds, i <= j, Traced(ds[i])
          PROVE  Surface[ds[i].surface].raises \subseteq FlagsIn(ds, all, j)
      <3>1. CASE i = n + 1
        <4>1. j = n + 1 /\ ds[i] = f
          BY <1>1, <2>1, <3>1
        <4> QED BY <1>6, <2>1, <4>1 DEF all
      <3>2. CASE i # n + 1
        <4>1. i \in 1..n /\ i \in DOMAIN cs /\ ds[i] = cs[i] /\ n \in DOMAIN cs /\ i <= n /\ n # 0
          BY <1>1, <1>10, <3>2
        <4>2. Surface[cs[i].surface].raises \subseteq up
          BY <1>6, <2>1, <4>1 DEF StackIsSound, FlagsNest
        <4>3. CASE j = n + 1
          BY <1>5, <1>6, <4>1, <4>2, <4>3 DEF all
        <4>4. CASE j # n + 1
          <5>1. j \in DOMAIN cs /\ j \in 0..n /\ f.surface # Engine
            BY <1>1, <1>5, <1>10, <4>1, <4>4
          <5>2. FlagsIn(ds, all, j) = FlagsIn(cs, up, j)
            BY <1>7, <5>1
          <5> QED BY <2>1, <4>1, <5>1, <5>2 DEF StackIsSound, FlagsNest
        <4> QED BY <4>3, <4>4
      <3> QED BY <3>1, <3>2
    <2>2. ASSUME NEW i \in DOMAIN ds, ds[i].surface = Engine
          PROVE  FlagsIn(ds, all, i) \subseteq {"orm"}
      <3>1. CASE i = n + 1
        <4>1. f.surface = Engine /\ up = lost
          BY <1>1, <1>5, <1>6, <1>8, <2>2, <3>1
        <4> QED BY <1>6, <3>1, <4>1 DEF all
      <3>2. CASE i # n + 1
        <4>1. i \in DOMAIN cs /\ ds[i] = cs[i] /\ i \in 0..n /\ f.surface # Engine
          BY <1>1, <1>5, <1>10, <3>2
        <4>2. FlagsIn(ds, all, i) = FlagsIn(cs, up, i)
          BY <1>7, <4>1
        <4> QED BY <2>2, <4>1, <4>2 DEF StackIsSound, FlagsNest
      <3> QED BY <3>1, <3>2
    <2>3. ASSUME NEW i \in DOMAIN ds, ds[i].surface = "mongo"
          PROVE  FlagsIn(ds, all, i) = FlagsIn(ds, all, i - 1)
      <3>1. CASE i = n + 1
        <4>1. f.surface = "mongo" /\ i - 1 = n
          BY <1>1, <2>3, <3>1
        <4>2. all = up /\ f.restores = up
          BY <4>1 DEF all, Engine
        <4> QED BY <1>6, <3>1, <4>1, <4>2
      <3>2. CASE i # n + 1
        <4>1. /\ i \in DOMAIN cs /\ ds[i] = cs[i] /\ i \in 0..n /\ i - 1 \in 0..n
              /\ f.surface # Engine
          BY <1>1, <1>5, <1>10, <3>2
        <4>2. /\ FlagsIn(ds, all, i) = FlagsIn(cs, up, i)
              /\ FlagsIn(ds, all, i - 1) = FlagsIn(cs, up, i - 1)
          BY <1>7, <4>1
        <4> QED BY <2>3, <4>1, <4>2 DEF StackIsSound, FlagsNest
      <3> QED BY <3>1, <3>2
    <2> QED BY <1>9, <2>1, <2>2, <2>3 DEF FlagsNest
  <1> QED BY <1>11, <1>12, <1>13 DEF StackIsSound, ds, all

-----------------------------------------------------------------------------
(* What the calls of a stack send *)

HeadersAreOwn(cs, w, state) ==
  \A i \in DOMAIN cs :
    /\ ~Surface[cs[i].surface].http => cs[i].carries = None
    /\ cs[i].carries # None =>
         \/ state = "unsampled" /\ cs[i].carries = "s0"
         \/ \E j \in 1..i : /\ Traced(cs[j]) /\ cs[i].carries = <<w, cs[j].event>>
                            /\ \A k \in (j + 1)..i : ~Traced(cs[k])

LEMMA PopKeepsHeaders ==
  ASSUME NEW cs \in Seq(CallType), NEW w, NEW state, HeadersAreOwn(cs, w, state), cs # <<>>
  PROVE  HeadersAreOwn(Front(cs), w, state)
  <1>1. PICK n \in Nat \ {0} : /\ n = Len(cs) /\ DOMAIN cs = 1..n /\ DOMAIN Front(cs) = 1..(n - 1)
                               /\ \A i \in 1..(n - 1) : Front(cs)[i] = cs[i]
    BY PopIs
  <1>2. \A i \in DOMAIN Front(cs) : /\ i \in DOMAIN cs /\ Front(cs)[i] = cs[i]
                                    /\ \A j \in 1..i : j \in DOMAIN Front(cs) /\ Front(cs)[j] = cs[j]
                                    /\ \A j \in 1..i : \A k \in (j + 1)..i : k \in 1..i
    BY <1>1
  <1> QED BY <1>2 DEF HeadersAreOwn

LEMMA PushKeepsHeaders ==
  ASSUME NEW cs \in Seq(CallType), NEW w, NEW state, HeadersAreOwn(cs, w, state),
         NEW f \in CallType,
         ~Surface[f.surface].http => f.carries = None,
         \/ f.carries = None
         \/ state = "unsampled" /\ f.carries = "s0"
         \/ Traced(f) /\ f.carries = <<w, f.event>>
         \/ cs # <<>> /\ ~Traced(f) /\ f.carries = Last(cs).carries
  PROVE  HeadersAreOwn(Append(cs, f), w, state)
  <1> DEFINE ds == Append(cs, f)
  <1>1. PICK n \in Nat : /\ n = Len(cs) /\ DOMAIN cs = 1..n /\ DOMAIN ds = 1..(n + 1)
                         /\ \A i \in 1..n : ds[i] = cs[i]
                         /\ ds[n + 1] = f
    BY PushIs
  <1>2. Last(cs) = cs[n] /\ (cs # <<>> => n \in 1..n)
    BY <1>1 DEF Last
  <1> HIDE DEF ds
  <1> SUFFICES ASSUME NEW i \in DOMAIN ds
               PROVE  /\ ~Surface[ds[i].surface].http => ds[i].carries = None
                      /\ ds[i].carries # None =>
                           \/ state = "unsampled" /\ ds[i].carries = "s0"
                           \/ \E j \in 1..i : /\ Traced(ds[j]) /\ ds[i].carries = <<w, ds[j].event>>
                                              /\ \A k \in (j + 1)..i : ~Traced(ds[k])
    BY DEF HeadersAreOwn, ds
  <1>3. CASE i # n + 1
    <2>1. /\ i \in DOMAIN cs /\ ds[i] = cs[i] /\ \A j \in 1..i : ds[j] = cs[j]
          /\ \A j \in 1..i : \A k \in (j + 1)..i : k \in 1..i
      BY <1>1, <1>3
    <2> QED BY <2>1 DEF HeadersAreOwn
  <1>4. CASE i = n + 1
    <2>1. ds[i] = f
      BY <1>1, <1>4
    <2>2. CASE Traced(f) /\ f.carries = <<w, f.event>>
      <3>1. i \in 1..i /\ \A k \in (i + 1)..i : ~Traced(ds[k])
        BY <1>1, <1>4
      <3> QED BY <2>1, <2>2, <3>1
    <2>3. CASE cs # <<>> /\ ~Traced(f) /\ f.carries = Last(cs).carries
      <3>1. n \in DOMAIN cs /\ f.carries = cs[n].carries
        BY <1>1, <1>2, <2>3
      <3>2. CASE \E j \in 1..n : /\ Traced(cs[j]) /\ cs[n].carries = <<w, cs[j].event>>
                                 /\ \A k \in (j + 1)..n : ~Traced(cs[k])
        <4>1. PICK j \in 1..n : /\ Traced(cs[j]) /\ cs[n].carries = <<w, cs[j].event>>
                                /\ \A k \in (j + 1)..n : ~Traced(cs[k])
          BY <3>2
        <4>2. \A k \in (j + 1)..i : k = n + 1 \/ (k \in (j + 1)..n /\ k \in 1..n)
          BY <1>1, <1>4
        <4>3. j \in 1..i /\ ds[j] = cs[j] /\ \A k \in (j + 1)..i : ~Traced(ds[k])
          BY <1>1, <1>4, <2>3, <4>1, <4>2
        <4> QED BY <2>1, <2>3, <3>1, <4>1, <4>3
      <3> QED BY <2>1, <2>3, <3>1, <3>2 DEF HeadersAreOwn
    <2> QED BY <2>1, <2>2, <2>3
  <1> QED BY <1>3, <1>4

(* Calls that differ in their marks only.                                  *)
Alike(ds, cs) ==
  /\ DOMAIN ds = DOMAIN cs /\ Len(ds) = Len(cs)
  /\ \A i \in DOMAIN cs :
       /\ ds[i].surface = cs[i].surface /\ ds[i].event = cs[i].event
       /\ ds[i].restores = cs[i].restores /\ ds[i].carries = cs[i].carries
       /\ ds[i].rid = cs[i].rid /\ ds[i].again = cs[i].again

LEMMA AlikeKeeps ==
  ASSUME NEW cs \in Seq(CallType), NEW ds \in Seq(CallType), Alike(ds, cs),
         NEW up, NEW lost, NEW w, NEW state
  PROVE  /\ StackIsSound(cs, up, lost) => StackIsSound(ds, up, lost)
         /\ HeadersAreOwn(cs, w, state) => HeadersAreOwn(ds, w, state)
  <1>1. \A i \in DOMAIN ds : /\ i \in DOMAIN cs /\ ds[i].surface = cs[i].surface
                             /\ Traced(ds[i]) = Traced(cs[i]) /\ ds[i].event = cs[i].event
                             /\ ds[i].carries = cs[i].carries
    BY DEF Alike, Traced
  <1>2. PICK n \in Nat : n = Len(cs) /\ n = Len(ds) /\ DOMAIN cs = 1..n /\ DOMAIN ds = 1..n
    <2>1. Len(cs) \in Nat /\ DOMAIN cs = 1..Len(cs) /\ DOMAIN ds = DOMAIN cs
      BY DEF Alike
    <2>2. Len(ds) = Len(cs)
      BY DEF Alike
    <2> QED BY <2>1, <2>2
  <1>3. \A i \in 0..n : FlagsIn(ds, up, i) = FlagsIn(cs, up, i)
    <2> SUFFICES ASSUME NEW i \in 0..n, i # n PROVE ds[i + 1].restores = cs[i + 1].restores
      BY <1>2 DEF FlagsIn
    <2>1. i + 1 \in DOMAIN cs
      BY <1>2
    <2> QED BY <2>1 DEF Alike
  <1>4. \A i \in DOMAIN ds : i \in 0..n /\ i - 1 \in 0..n /\ 0 \in 0..n
    BY <1>2
  <1>5. ASSUME StackIsSound(cs, up, lost) PROVE StackIsSound(ds, up, lost)
    <2>1. DrivenBelow(ds) /\ OneTraced(ds)
      BY <1>1, <1>5 DEF StackIsSound, DrivenBelow, OneTraced
    <2>2. FlagsIn(ds, up, 0) = lost
      BY <1>2, <1>3, <1>5 DEF StackIsSound, FlagsNest
    <2>3. FlagsNest(ds, up, lost)
      BY <1>1, <1>3, <1>4, <1>5, <2>2 DEF StackIsSound, FlagsNest
    <2> QED BY <2>1, <2>3 DEF StackIsSound
  <1>6. ASSUME HeadersAreOwn(cs, w, state) PROVE HeadersAreOwn(ds, w, state)
    <2>1. \A i \in DOMAIN ds : \A j \in 1..i : /\ j \in DOMAIN ds
                                             /\ \A k \in (j + 1)..i : k \in DOMAIN ds
      BY <1>2
    <2> SUFFICES ASSUME NEW i \in DOMAIN ds
                 PROVE  /\ ~Surface[ds[i].surface].http => ds[i].carries = None
                        /\ ds[i].carries # None =>
                             \/ state = "unsampled" /\ ds[i].carries = "s0"
                             \/ \E j \in 1..i :
                                  /\ Traced(ds[j]) /\ ds[i].carries = <<w, ds[j].event>>
                                  /\ \A k \in (j + 1)..i : ~Traced(ds[k])
      BY DEF HeadersAreOwn
    <2>2. /\ i \in DOMAIN cs /\ ds[i].surface = cs[i].surface
          /\ ds[i].carries = cs[i].carries
      BY <1>1
    <2>3. /\ ~Surface[cs[i].surface].http => cs[i].carries = None
          /\ cs[i].carries # None =>
               \/ state = "unsampled" /\ cs[i].carries = "s0"
               \/ \E j \in 1..i : /\ Traced(cs[j]) /\ cs[i].carries = <<w, cs[j].event>>
                                  /\ \A k \in (j + 1)..i : ~Traced(cs[k])
      BY <1>6, <2>2 DEF HeadersAreOwn
    <2>4. ASSUME NEW j \in 1..i, Traced(cs[j]), cs[i].carries = <<w, cs[j].event>>,
                 \A k \in (j + 1)..i : ~Traced(cs[k])
          PROVE  /\ Traced(ds[j]) /\ ds[i].carries = <<w, ds[j].event>>
                 /\ \A k \in (j + 1)..i : ~Traced(ds[k])
      <3>1. Traced(ds[j]) /\ ds[j].event = cs[j].event
        BY <1>1, <2>1, <2>4
      <3>2. \A k \in (j + 1)..i : ~Traced(ds[k])
        BY <1>1, <2>1, <2>4
      <3> QED BY <2>2, <2>4, <3>1, <3>2
    <2> QED BY <2>2, <2>3, <2>4
  <1> QED BY <1>5, <1>6

-----------------------------------------------------------------------------
(* The event stack of a span *)

Distinct(es) == \A k, l \in DOMAIN es : es[k] = es[l] => k = l

Events == Nat \ {0}

(* Ending an event leaves the events opened before it.                     *)
LEMMA WithoutIs ==
  ASSUME NEW es \in Seq(Events), Distinct(es), NEW e
  PROVE  /\ e \notin ToSet(es) => Without(es, e) = es
         /\ e \in ToSet(es) =>
              \E p \in DOMAIN es :
                /\ es[p] = e /\ Without(es, e) \in Seq(Events)
                /\ DOMAIN Without(es, e) = 1..(p - 1)
                /\ \A k \in 1..(p - 1) : k \in DOMAIN es /\ Without(es, e)[k] = es[k]
  <1>1. e \notin ToSet(es) => Without(es, e) = es
    BY DEF Without
  <1>2. ASSUME e \in ToSet(es)
        PROVE  \E p \in DOMAIN es :
                 /\ es[p] = e /\ Without(es, e) \in Seq(Events)
                 /\ DOMAIN Without(es, e) = 1..(p - 1)
                 /\ \A k \in 1..(p - 1) : k \in DOMAIN es /\ Without(es, e)[k] = es[k]
    <2>1. PICK p : p = CHOOSE i \in DOMAIN es : es[i] = e
      OBVIOUS
    <2>2. p \in DOMAIN es /\ es[p] = e
      BY <1>2, <2>1 DEF ToSet
    <2>3. Without(es, e) = SubSeq(es, 1, p - 1)
      BY <1>2, <2>1 DEF Without
    <2>4. PICK n \in Nat : n = Len(es) /\ DOMAIN es = 1..n /\ \A i \in 1..n : es[i] \in Events
      OBVIOUS
    <2>5. /\ SubSeq(es, 1, p - 1) \in Seq(Events) /\ Len(SubSeq(es, 1, p - 1)) = p - 1
          /\ \A k \in 1..(p - 1) : SubSeq(es, 1, p - 1)[k] = es[k]
      BY <2>2, <2>4
    <2>6. DOMAIN SubSeq(es, 1, p - 1) = 1..(p - 1)
      BY <2>2, <2>4, <2>5
    <2>7. \A k \in 1..(p - 1) : k \in DOMAIN es
      BY <2>2, <2>4
    <2> QED BY <2>2, <2>3, <2>5, <2>6, <2>7
  <1> QED BY <1>1, <1>2

(* The calls that have an event, and those that surely have it open.       *)
Tracked(cs) == {i \in DOMAIN cs : Traced(cs[i]) /\ ~cs[i].again}

Mine(cs) == {i \in Tracked(cs) : ~cs[i].clash}

InOrder(cs, es) ==
  \A i, j \in Mine(cs) :
    i < j => \E k, l \in DOMAIN es : k < l /\ es[k] = cs[i].event /\ es[l] = cs[j].event

EventsAreMine(cs, es, ab) ==
  /\ {cs[i].event : i \in Mine(cs)} \subseteq ToSet(es) \ ab
  /\ ToSet(es) \ ab \subseteq {cs[i].event : i \in Tracked(cs)}
  /\ InOrder(cs, es) /\ Distinct(es)

(* The calls that were in progress at a clash are those below the others.  *)
EventsAreSound(cs, es, ab) ==
  /\ EventsAreMine(cs, es, ab) /\ ab \subseteq ToSet(es)
  /\ \A i \in DOMAIN cs : cs[i].again => cs[i].surface = "mongo" /\ cs[i].event \notin ToSet(es)
  /\ \A i, j \in DOMAIN cs : i < j /\ cs[j].clash => cs[i].clash

LEMMA NoCalls == EventsAreSound(<<>>, <<>>, {})
  BY DEF EventsAreSound, EventsAreMine, Mine, Tracked, InOrder, Distinct, ToSet

LEMMA AppendEvent ==
  ASSUME NEW es \in Seq(Events), NEW e \in Events
  PROVE  /\ Append(es, e) \in Seq(Events) /\ ToSet(Append(es, e)) = ToSet(es) \cup {e}
         /\ \A k \in DOMAIN es : k \in DOMAIN Append(es, e) /\ Append(es, e)[k] = es[k]
         /\ \E n \in Nat : /\ DOMAIN es = 1..n /\ DOMAIN Append(es, e) = 1..(n + 1)
                           /\ Append(es, e)[n + 1] = e
         /\ Distinct(es) /\ e \notin ToSet(es) => Distinct(Append(es, e))
  <1> DEFINE fs == Append(es, e)
  <1>1. PICK n \in Nat : /\ n = Len(es) /\ fs \in Seq(Events) /\ DOMAIN es = 1..n
                         /\ DOMAIN fs = 1..(n + 1) /\ fs[n + 1] = e
                         /\ \A i \in 1..n : fs[i] = es[i]
    BY PushIs
  <1> HIDE DEF fs
  <1>2. \A k \in DOMAIN es : k \in DOMAIN fs /\ fs[k] = es[k]
    BY <1>1
  <1>3. \A k \in DOMAIN fs : k \in DOMAIN es \/ k = n + 1
    BY <1>1
  <1>4. n + 1 \in DOMAIN fs
    BY <1>1
  <1>5. ToSet(fs) = ToSet(es) \cup {e}
    BY <1>1, <1>2, <1>3, <1>4 DEF ToSet
  <1>6. Distinct(es) /\ e \notin ToSet(es) => Distinct(fs)
    BY <1>1, <1>2, <1>3 DEF ToSet, Distinct
  <1> QED BY <1>1, <1>2, <1>5, <1>6 DEF fs

NewEvent(e, cs, es) ==
  e \in Events /\ e \notin ToSet(es) /\ \A i \in DOMAIN cs : e # cs[i].event

(* A traced call opens an event on top ...                                 *)
LEMMA PushEvent ==
  ASSUME NEW cs \in Seq(CallType), NEW es \in Seq(Events), NEW ab, EventsAreSound(cs, es, ab),
         NEW f \in CallType, ~f.again, ~f.clash, NewEvent(f.event, cs, es)
  PROVE  EventsAreSound(Append(cs, f), Append(es, f.event), ab)
  <1> DEFINE ds == Append(cs, f)
  <1>1. PICK n \in Nat : /\ n = Len(cs) /\ DOMAIN cs = 1..n /\ DOMAIN ds = 1..(n + 1)
                         /\ \A i \in 1..n : ds[i] = cs[i]
                         /\ ds[n + 1] = f
    BY PushIs
  <1> DEFINE fs == Append(es, f.event)
  <1>2. PICK m \in Nat : /\ DOMAIN es = 1..m /\ DOMAIN fs = 1..(m + 1) /\ fs[m + 1] = f.event
    BY AppendEvent DEF NewEvent
  <1>3. /\ ToSet(fs) = ToSet(es) \cup {f.event} /\ Distinct(fs)
        /\ \A k \in DOMAIN es : k \in DOMAIN fs /\ fs[k] = es[k]
    BY AppendEvent DEF NewEvent, EventsAreSound, EventsAreMine
  <1> HIDE DEF ds, fs
  <1>4. /\ \A i \in DOMAIN cs : i \in DOMAIN ds /\ ds[i] = cs[i] /\ i < n + 1
        /\ \A i \in DOMAIN ds : i \in DOMAIN cs \/ i = n + 1
        /\ n + 1 \in DOMAIN ds
    BY <1>1
  <1>5. Traced(f)
    BY DEF NewEvent, Traced, Events
  <1>6. Tracked(ds) = Tracked(cs) \cup {n + 1} /\ Mine(ds) = Mine(cs) \cup {n + 1}
    BY <1>1, <1>4, <1>5 DEF Tracked, Mine
  <1>7. /\ \A i \in Tracked(cs) : i \in DOMAIN cs /\ ds[i] = cs[i]
        /\ \A i \in Mine(cs) : i \in DOMAIN cs /\ ds[i] = cs[i]
    BY <1>4 DEF Tracked, Mine
  <1>8. /\ {ds[i].event : i \in Mine(ds)} = {cs[i].event : i \in Mine(cs)} \cup {f.event}
        /\ {ds[i].event : i \in Tracked(ds)} = {cs[i].event : i \in Tracked(cs)} \cup {f.event}
    BY <1>1, <1>6, <1>7
  <1>9. /\ ab \subseteq ToSet(es) /\ {cs[i].event : i \in Mine(cs)} \subseteq ToSet(es) \ ab
        /\ ToSet(es) \ ab \subseteq {cs[i].event : i \in Tracked(cs)}
        /\ f.event \notin ToSet(es)
    BY DEF NewEvent, EventsAreSound, EventsAreMine
  <1>10. /\ {ds[i].event : i \in Mine(ds)} \subseteq ToSet(fs) \ ab
         /\ ToSet(fs) \ ab \subseteq {ds[i].event : i \in Tracked(ds)}
    BY <1>3, <1>8, <1>9
  <1>11. InOrder(ds, fs)
    <2> SUFFICES ASSUME NEW i \in Mine(ds), NEW j \in Mine(ds), i < j
                 PROVE  \E k, l \in DOMAIN fs :
                          k < l /\ fs[k] = ds[i].event /\ fs[l] = ds[j].event
      BY DEF InOrder
    <2>1. i \in Mine(cs) /\ i \in DOMAIN cs /\ ds[i] = cs[i]
      <3>1. j \in 1..(n + 1) /\ i \in 1..(n + 1)
        BY <1>1 DEF Mine, Tracked
      <3>2. i # n + 1
        BY <3>1
      <3> QED BY <1>4, <1>6, <1>7, <3>2
    <2>2. CASE j = n + 1
      <3>1. cs[i].event \in ToSet(es)
        BY <1>9, <2>1
      <3>2. PICK k \in DOMAIN es : es[k] = cs[i].event
        BY <3>1 DEF ToSet
      <3>3. k \in DOMAIN fs /\ m + 1 \in DOMAIN fs /\ k < m + 1
        BY <1>2, <1>3
      <3> QED BY <1>1, <1>2, <1>3, <2>1, <2>2, <3>2, <3>3
    <2>3. CASE j # n + 1
      <3>1. j \in Mine(cs) /\ ds[j] = cs[j]
        BY <1>4, <1>6, <1>7, <2>3
      <3>2. PICK k \in DOMAIN es, l \in DOMAIN es :
              k < l /\ es[k] = cs[i].event /\ es[l] = cs[j].event
        BY <2>1, <3>1 DEF EventsAreSound, EventsAreMine, InOrder
      <3> QED BY <1>3, <2>1, <3>1, <3>2
    <2> QED BY <2>2, <2>3
  <1>12. \A i \in DOMAIN ds : ds[i].again => ds[i].surface = "mongo" /\ ds[i].event \notin ToSet(fs)
    BY <1>1, <1>3, <1>4 DEF EventsAreSound, NewEvent
  <1>13. ab \subseteq ToSet(fs)
    BY <1>3, <1>9
  <1>14. \A i, j \in DOMAIN ds : i < j /\ ds[j].clash => ds[i].clash
    <2> SUFFICES ASSUME NEW i \in DOMAIN ds, NEW j \in DOMAIN ds, i < j, ds[j].clash
                 PROVE  ds[i].clash
      OBVIOUS
    <2>1. j # n + 1 /\ j \in DOMAIN cs /\ ds[j] = cs[j]
      BY <1>1, <1>4
    <2>2. i \in DOMAIN cs /\ ds[i] = cs[i]
      BY <1>1, <1>4, <2>1
    <2> QED BY <2>1, <2>2 DEF EventsAreSound
  <1> QED BY <1>3, <1>10, <1>11, <1>12, <1>13, <1>14 DEF EventsAreSound, EventsAreMine, ds, fs

(* ... and one that runs untraced does not.                                *)
LEMMA PushQuietly ==
  ASSUME NEW cs \in Seq(CallType), NEW es, NEW ab, EventsAreSound(cs, es, ab),
         NEW f \in CallType, ~Traced(f), ~f.again, ~f.clash
  PROVE  EventsAreSound(Append(cs, f), es, ab)
  <1> DEFINE ds == Append(cs, f)
  <1>1. PICK n \in Nat : /\ n = Len(cs) /\ DOMAIN cs = 1..n /\ DOMAIN ds = 1..(n + 1)
                         /\ \A i \in 1..n : ds[i] = cs[i]
                         /\ ds[n + 1] = f
    <2>1. cs \in Seq(CallType) /\ f \in CallType
      OBVIOUS
    <2> QED BY <2>1, PushIs
  <1> HIDE DEF ds
  <1>2. /\ \A i \in DOMAIN cs : i \in DOMAIN ds /\ ds[i] = cs[i]
        /\ \A i \in DOMAIN ds : i \in DOMAIN cs \/ (i = n + 1 /\ ds[i] = f)
    BY <1>1
  <1>3. /\ Tracked(ds) = Tracked(cs) /\ \A i \in Tracked(cs) : ds[i] = cs[i]
        /\ Mine(ds) = Mine(cs) /\ \A i \in Mine(cs) : ds[i] = cs[i]
    BY <1>2 DEF Tracked, Mine
  <1>4. /\ {ds[i].event : i \in Mine(ds)} = {cs[i].event : i \in Mine(cs)}
        /\ {ds[i].event : i \in Tracked(ds)} = {cs[i].event : i \in Tracked(cs)}
    BY <1>3
  <1>5. InOrder(ds, es)
    BY <1>3 DEF EventsAreSound, EventsAreMine, InOrder
  <1>6. \A i \in DOMAIN ds : ds[i].again => ds[i].surface = "mongo" /\ ds[i].event \notin ToSet(es)
    BY <1>2 DEF EventsAreSound
  <1>7. \A i, j \in DOMAIN ds : i < j /\ ds[j].clash => ds[i].clash
    <2> SUFFICES ASSUME NEW i \in DOMAIN ds, NEW j \in DOMAIN ds, i < j, ds[j].clash
                 PROVE  ds[i].clash
      OBVIOUS
    <2>1. j \in DOMAIN cs /\ ds[j] = cs[j]
      BY <1>2
    <2>2. i \in DOMAIN cs /\ ds[i] = cs[i]
      BY <1>1, <1>2, <2>1
    <2> QED BY <2>1, <2>2 DEF EventsAreSound
  <1> QED BY <1>4, <1>5, <1>6, <1>7 DEF EventsAreSound, EventsAreMine, ds

(* A call that ends, ends its event and those that were abandoned since.   *)
LEMMA PopEvent ==
  ASSUME NEW cs \in Seq(CallType), NEW es \in Seq(Events), NEW ab, EventsAreSound(cs, es, ab),
         cs # <<>>, NEW fs, fs = Without(es, Last(cs).event)
  PROVE  /\ fs \in Seq(Events) /\ Last(cs).event \notin ToSet(fs)
         /\ EventsAreSound(Front(cs), fs, ab \cap ToSet(fs))
  <1> DEFINE ds == Front(cs)
             f  == Last(cs)
  <1>1. PICK n \in Nat \ {0} : /\ n = Len(cs) /\ DOMAIN cs = 1..n /\ DOMAIN ds = 1..(n - 1)
                               /\ \A i \in 1..(n - 1) : ds[i] = cs[i]
                               /\ f = cs[n]
                               /\ \A i \in 1..n : cs[i] \in CallType
    BY PopIs
  <1> HIDE DEF ds, f
  <1>2. /\ \A i \in DOMAIN ds : i \in DOMAIN cs /\ ds[i] = cs[i] /\ i < n
        /\ \A i \in DOMAIN cs : i \in DOMAIN ds \/ i = n
        /\ n \in DOMAIN cs /\ n \notin DOMAIN ds
    BY <1>1
  <1>3. /\ Mine(ds) = Mine(cs) \ {n} /\ \A i \in Mine(ds) : ds[i] = cs[i] /\ i < n
        /\ Tracked(ds) = Tracked(cs) \ {n} /\ \A i \in Tracked(ds) : ds[i] = cs[i] /\ i < n
    BY <1>2 DEF Mine, Tracked
  <1>4. /\ ab \subseteq ToSet(es) /\ {cs[i].event : i \in Mine(cs)} \subseteq ToSet(es) \ ab
        /\ ToSet(es) \ ab \subseteq {cs[i].event : i \in Tracked(cs)}
        /\ Distinct(es) /\ InOrder(cs, es)
    BY DEF EventsAreSound, EventsAreMine
  <1>5. \A i, j \in DOMAIN ds : i < j /\ ds[j].clash => ds[i].clash
    <2>1. \A i \in DOMAIN ds : i \in DOMAIN cs /\ ds[i] = cs[i]
      BY <1>2
    <2> QED BY <2>1 DEF EventsAreSound
  <1>6. ASSUME f.event \notin ToSet(es)
        PROVE  /\ fs \in Seq(Events) /\ f.event \notin ToSet(fs)
               /\ EventsAreSound(ds, fs, ab \cap ToSet(fs))
    <2>1. fs = es /\ ab \cap ToSet(fs) = ab
      BY <1>4, <1>6, WithoutIs DEF f
    <2>2. n \notin Mine(cs)
      BY <1>1, <1>4, <1>6
    <2>3. Mine(ds) = Mine(cs) /\ {ds[i].event : i \in Mine(ds)} = {cs[i].event : i \in Mine(cs)}
      BY <1>3, <2>2
    <2>4. InOrder(ds, es)
      BY <1>3, <1>4, <2>3 DEF InOrder
    <2>5. \A i \in DOMAIN ds : ds[i].again => ds[i].surface = "mongo" /\ ds[i].event \notin ToSet(es)
      BY <1>2 DEF EventsAreSound
    <2>6. ToSet(es) \ ab \subseteq {ds[i].event : i \in Tracked(ds)}
      <3> SUFFICES ASSUME NEW e \in ToSet(es) \ ab PROVE e \in {ds[i].event : i \in Tracked(ds)}
        OBVIOUS
      <3>1. PICK i \in Tracked(cs) : e = cs[i].event
        BY <1>4
      <3>2. i # n
        BY <1>1, <1>6, <3>1
      <3> QED BY <1>3, <3>1, <3>2
    <2> QED BY <1>4, <1>5, <1>6, <2>1, <2>3, <2>4, <2>5, <2>6 DEF EventsAreSound, EventsAreMine
  <1>7. ASSUME f.event \in ToSet(es)
        PROVE  /\ fs \in Seq(Events) /\ f.event \notin ToSet(fs)
               /\ EventsAreSound(ds, fs, ab \cap ToSet(fs))
    <2>1. PICK p \in DOMAIN es : /\ es[p] = f.event /\ fs \in Seq(Events) /\ DOMAIN fs = 1..(p - 1)
                                 /\ \A k \in 1..(p - 1) : k \in DOMAIN es /\ fs[k] = es[k]
      BY <1>4, <1>7, WithoutIs DEF f
    <2>2. /\ \A k \in DOMAIN fs : k \in DOMAIN es /\ fs[k] = es[k] /\ k < p
          /\ \A k \in DOMAIN es : k < p => k \in DOMAIN fs
      BY <2>1
    <2>3. /\ ToSet(fs) \subseteq ToSet(es) /\ f.event \notin ToSet(fs)
      BY <1>4, <2>1, <2>2 DEF ToSet, Distinct
    <2>4. \A i \in Mine(ds) : cs[i].event \in ToSet(fs)
      <3> TAKE i \in Mine(ds)
      <3>1. i \in Mine(cs) /\ i < n /\ i \in DOMAIN cs /\ ~cs[i].clash
        BY <1>3 DEF Mine, Tracked
      <3>2. n \in Mine(cs)
        <4>1. ~f.again
          BY <1>1, <1>2, <1>7 DEF EventsAreSound
        <4>2. ~f.clash
          BY <1>1, <1>2, <3>1 DEF EventsAreSound
        <4>3. f.event # 0
          BY <2>1 DEF Events
        <4> QED BY <1>1, <1>2, <4>1, <4>2, <4>3 DEF Mine, Tracked, Traced
      <3>3. PICK k \in DOMAIN es, l \in DOMAIN es :
              k < l /\ es[k] = cs[i].event /\ es[l] = cs[n].event
        BY <1>4, <3>1, <3>2 DEF InOrder
      <3>4. l = p
        BY <1>1, <1>4, <2>1, <3>3 DEF Distinct
      <3>5. k \in DOMAIN fs /\ fs[k] = cs[i].event
        BY <2>2, <3>3, <3>4
      <3> QED BY <3>5 DEF ToSet
    <2>5. /\ {ds[i].event : i \in Mine(ds)} \subseteq ToSet(fs) \ (ab \cap ToSet(fs))
          /\ ToSet(fs) \ (ab \cap ToSet(fs)) \subseteq {ds[i].event : i \in Tracked(ds)}
      <3>1. ASSUME NEW e \in ToSet(fs), e \notin ab
            PROVE  e \in {ds[i].event : i \in Tracked(ds)}
        <4>1. PICK i \in Tracked(cs) : e = cs[i].event
          BY <1>4, <2>3, <3>1
        <4>2. i # n
          BY <1>1, <2>3, <3>1, <4>1
        <4> QED BY <1>3, <4>1, <4>2
      <3>2. ASSUME NEW i \in Mine(ds)
            PROVE  ds[i].event \in ToSet(fs) /\ ds[i].event \notin ab
        <4>1. ds[i] = cs[i] /\ i \in Mine(cs)
          BY <1>3
        <4> QED BY <1>4, <2>4, <4>1
      <3> QED BY <3>1, <3>2
    <2>6. InOrder(ds, fs)
      <3> SUFFICES ASSUME NEW i \in Mine(ds), NEW j \in Mine(ds), i < j
                   PROVE  \E k, l \in DOMAIN fs :
                            k < l /\ fs[k] = ds[i].event /\ fs[l] = ds[j].event
        BY DEF InOrder
      <3>1. i \in Mine(cs) /\ j \in Mine(cs) /\ ds[i] = cs[i] /\ ds[j] = cs[j]
        BY <1>3
      <3>2. PICK k \in DOMAIN es, l \in DOMAIN es :
              k < l /\ es[k] = cs[i].event /\ es[l] = cs[j].event
        BY <1>4, <3>1 DEF InOrder
      <3>3. PICK x \in DOMAIN fs : fs[x] = cs[i].event
        BY <2>4 DEF ToSet
      <3>4. PICK y \in DOMAIN fs : fs[y] = cs[j].event
        BY <2>4 DEF ToSet
      <3>5. x = k /\ y = l
        BY <1>4, <2>2, <3>2, <3>3, <3>4 DEF Distinct
      <3> QED BY <3>1, <3>2, <3>3, <3>4, <3>5
    <2>7. Distinct(fs)
      BY <1>4, <2>2 DEF Distinct
    <2>8. \A i \in DOMAIN ds : ds[i].again => ds[i].surface = "mongo" /\ ds[i].event \notin ToSet(fs)
      BY <1>2, <2>3 DEF EventsAreSound
    <2> QED BY <1>5, <2>1, <2>3, <2>5, <2>6, <2>7, <2>8 DEF EventsAreSound, EventsAreMine
  <1> QED BY <1>6, <1>7 DEF ds, f

(* The only call in progress ends without ending its event.                *)
LEMMA PopAbandons ==
  ASSUME NEW cs \in Seq(CallType), NEW es, NEW ab, EventsAreSound(cs, es, ab), Len(cs) = 1
  PROVE  EventsAreSound(<<>>, es, (ab \cup {Last(cs).event}) \cap ToSet(es))
  <1>1. DOMAIN cs = {1} /\ Last(cs) = cs[1]
    BY DEF Last
  <1>2. Mine(<<>>) = {} /\ Tracked(<<>>) = {} /\ InOrder(<<>>, es)
    BY DEF Mine, Tracked, InOrder
  <1>3. \A i \in Tracked(cs) : cs[i].event = Last(cs).event
    BY <1>1 DEF Tracked
  <1>4. ToSet(es) \ ab \subseteq {Last(cs).event} /\ Distinct(es)
    BY <1>3 DEF EventsAreSound, EventsAreMine
  <1>5. ToSet(es) \ ((ab \cup {Last(cs).event}) \cap ToSet(es)) = {}
    BY <1>4
  <1> QED BY <1>2, <1>4, <1>5 DEF EventsAreSound, EventsAreMine

(* A command of the same key as one of its caller whose event is still     *)
(* open, which it ends, and its own event with it.                         *)
LEMMA PushOverOld ==
  ASSUME NEW es \in Seq(Events), NEW ab, EventsAreSound(<<>>, es, ab),
         NEW f \in CallType, f.surface = "mongo", f.again, ~f.clash, f.event \in Events,
         f.event \notin ToSet(es), NEW old \in ToSet(es),
         NEW fs, fs = Without(Append(es, f.event), old)
  PROVE  fs \in Seq(Events) /\ EventsAreSound(Append(<<>>, f), fs, ab \cap ToSet(fs))
  <1> DEFINE gs == Append(es, f.event)
             ds == Append(<<>>, f)
  <1>1. /\ gs \in Seq(Events) /\ ToSet(gs) = ToSet(es) \cup {f.event} /\ Distinct(gs)
        /\ \A k \in DOMAIN es : k \in DOMAIN gs /\ gs[k] = es[k]
        /\ \E n \in Nat : DOMAIN es = 1..n
    BY AppendEvent DEF EventsAreSound, EventsAreMine
  <1>2. DOMAIN ds = {1} /\ ds[1] = f
    OBVIOUS
  <1> HIDE DEF gs, ds
  <1>3. PICK p \in DOMAIN gs : /\ gs[p] = old /\ fs \in Seq(Events) /\ DOMAIN fs = 1..(p - 1)
                               /\ \A k \in 1..(p - 1) : k \in DOMAIN gs /\ fs[k] = gs[k]
    <2>1. fs = Without(gs, old) /\ old \in ToSet(gs)
      BY <1>1 DEF gs
    <2>2. \E q \in DOMAIN gs :
            /\ gs[q] = old /\ Without(gs, old) \in Seq(Events)
            /\ DOMAIN Without(gs, old) = 1..(q - 1)
            /\ \A k \in 1..(q - 1) : k \in DOMAIN gs /\ Without(gs, old)[k] = gs[k]
      <3>1. gs \in Seq(Events) /\ Distinct(gs)
        BY <1>1
      <3> QED BY <2>1, <3>1, WithoutIs
    <2> QED BY Zenon, <2>1, <2>2
  <1>4. p \in DOMAIN es
    <2>1. PICK k \in DOMAIN es : es[k] = old
      BY DEF ToSet
    <2> QED BY <1>1, <1>3, <2>1 DEF Distinct
  <1>5. \A k \in DOMAIN fs : k \in DOMAIN es /\ k \in DOMAIN gs /\ fs[k] = es[k] /\ fs[k] = gs[k]
    BY <1>1, <1>3, <1>4
  <1>6. ToSet(fs) \subseteq ToSet(es) /\ Distinct(fs)
    BY <1>1, <1>5 DEF ToSet, Distinct
  <1>7. ToSet(es) \ ab = {}
    BY DEF EventsAreSound, EventsAreMine, Tracked
  <1>8. Mine(ds) = {} /\ Tracked(ds) = {}
    BY <1>2 DEF Mine, Tracked
  <1>9. ToSet(fs) \ (ab \cap ToSet(fs)) = {} /\ InOrder(ds, fs)
    BY <1>6, <1>7, <1>8 DEF InOrder
  <1>10. \A i \in DOMAIN ds : ds[i].again => ds[i].surface = "mongo" /\ ds[i].event \notin ToSet(fs)
    BY <1>2, <1>6
  <1>11. \A i, j \in DOMAIN ds : i < j /\ ds[j].clash => ds[i].clash
    BY <1>2
  <1> QED BY <1>3, <1>6, <1>8, <1>9, <1>10, <1>11 DEF EventsAreSound, EventsAreMine, ds

(* Another task of the thread ends an event of these calls, all of which   *)
(* are marked.                                                             *)
LEMMA MarkedEvents ==
  ASSUME NEW cs \in Seq(CallType), NEW ds \in Seq(CallType), Alike(ds, cs),
         \A i \in DOMAIN ds : ds[i].clash, NEW es \in Seq(Events), NEW ab,
         EventsAreSound(cs, es, ab), NEW e, NEW fs, fs = Without(es, e)
  PROVE  fs \in Seq(Events) /\ EventsAreSound(ds, fs, ab \cap ToSet(fs))
  <1>1. ToSet(fs) \subseteq ToSet(es) /\ Distinct(fs) /\ fs \in Seq(Events)
    <2>1. Distinct(es)
      BY DEF EventsAreSound, EventsAreMine
    <2>2. CASE e \notin ToSet(es)
      BY <2>1, <2>2, WithoutIs
    <2>3. CASE e \in ToSet(es)
      <3>1. PICK p \in DOMAIN es : /\ fs \in Seq(Events) /\ DOMAIN fs = 1..(p - 1)
                                   /\ \A k \in 1..(p - 1) : k \in DOMAIN es /\ fs[k] = es[k]
        BY <2>1, <2>3, WithoutIs
      <3> QED BY <2>1, <3>1 DEF ToSet, Distinct
    <2> QED BY <2>2, <2>3
  <1>2. Mine(ds) = {} /\ InOrder(ds, fs)
    BY DEF Mine, Tracked, InOrder
  <1>3. Tracked(ds) = Tracked(cs) /\ \A i \in Tracked(cs) : ds[i].event = cs[i].event
    BY DEF Alike, Tracked, Traced
  <1>4. {ds[i].event : i \in Tracked(ds)} = {cs[i].event : i \in Tracked(cs)}
    BY <1>3
  <1>5. ToSet(fs) \ (ab \cap ToSet(fs)) \subseteq {ds[i].event : i \in Tracked(ds)}
    BY <1>1, <1>4 DEF EventsAreSound, EventsAreMine
  <1>6. \A i \in DOMAIN ds : ds[i].again => ds[i].surface = "mongo" /\ ds[i].event \notin ToSet(fs)
    BY <1>1 DEF EventsAreSound, Alike
  <1> QED BY <1>1, <1>2, <1>5, <1>6 DEF EventsAreSound, EventsAreMine

-----------------------------------------------------------------------------
(* The inductive invariant *)

(* The flag of a statement that was lost.                                  *)
Lost(w) == IF stale[w] THEN {"orm"} ELSE {}

ClientTypes ==
  /\ loop \subseteq Callers
  /\ root \in [Callers -> {"none", "sampled", "unsampled"}]
  /\ calls \in [Callers -> Seq(CallType)] /\ flags \in [Callers -> SUBSET FlagNames]
  /\ stale \in [Callers -> BOOLEAN] /\ shared = None
  /\ events \in [Callers -> Seq(Events)] /\ DOMAIN abandoned = Callers

Clashes(cs) == \E i \in DOMAIN cs : cs[i].clash

CallsAreSound ==
  \A w \in Callers : /\ StackIsSound(calls[w], flags[w], Lost(w))
                     /\ HeadersAreOwn(calls[w], w, root[w])
                     /\ EventsAreSound(calls[w], events[w], abandoned[w])
                     /\ Clashes(calls[w]) => w \in loop

(* The table of commands: an entry is of a caller of the thread in its     *)
(* key, and a command in progress finds its own event or that of another.  *)
TableIsSound ==
  /\ DOMAIN inflight \subseteq RequestIds \X SUBSET Callers /\ IsFiniteSet(DOMAIN inflight)
  /\ \A k \in DOMAIN inflight : /\ inflight[k].of \in Callers /\ k[2] = Ident(inflight[k].of)
                                /\ inflight[k].event \in Events
  /\ \A w \in Callers : \A i \in DOMAIN calls[w] :
       LET k == KeyOf(w, calls[w][i].rid)
       IN calls[w][i].rid # None /\ k \in DOMAIN inflight /\ inflight[k].of = w
            => inflight[k].event = calls[w][i].event

ClientsInv == ClientTypes /\ CallsAreSound /\ TableIsSound

(* Another caller of the thread is another task of the loop.               *)
LEMMA SameThread ==
  ASSUME NEW v \in Callers, NEW w \in Callers, v # w, Ident(v) = Ident(w)
  PROVE  v \in loop
  BY DEF Ident

LEMMA LostIs == ASSUME ClientTypes, NEW w \in Callers PROVE Lost(w) \in {{}, {"orm"}}
  BY DEF Lost

-----------------------------------------------------------------------------
(* A fresh name *)

LEMMA FiniteImage ==
  ASSUME NEW S, IsFiniteSet(S), NEW g, g = [x \in S |-> g[x]]
  PROVE  IsFiniteSet({g[x] : x \in S})
  <1> DEFINE T == {g[x] : x \in S}
  <1>1. g \in Surjection(S, T)
    BY DEF Surjection
  <1> QED BY <1>1, FS_Surjection

LEMMA FreshIs ==
  ASSUME ClientsInv, NEW w \in Callers
  PROVE  /\ NewEvent(Fresh(w), calls[w], events[w])
         /\ \A k \in DOMAIN inflight : inflight[k].of = w => inflight[k].event # Fresh(w)
  <1> DEFINE mine == {calls[w][i].event : i \in DOMAIN calls[w]}
             kept == {x.event : x \in {y \in Range(inflight) : y.of = w}}
             used == Open(w) \cup mine \cup kept
  <1>1. IsFiniteSet(Open(w))
    <2>1. events[w] \in Seq(Events)
      BY DEF ClientsInv, ClientTypes
    <2>2. PICK n \in Nat : DOMAIN events[w] = 1..n
      BY <2>1
    <2>3. IsFiniteSet(1..n)
      BY FS_Interval
    <2>4. PICK g : g = [i \in 1..n |-> events[w][i]]
      OBVIOUS
    <2>5. IsFiniteSet({g[i] : i \in 1..n})
      BY <2>3, <2>4, FiniteImage
    <2>6. Open(w) = {g[i] : i \in 1..n}
      BY <2>2, <2>4 DEF Open, ToSet
    <2> QED BY <2>5, <2>6
  <1>2. IsFiniteSet(mine)
    <2>1. PICK n \in Nat : DOMAIN calls[w] = 1..n
      BY DEF ClientsInv, ClientTypes
    <2>2. IsFiniteSet(1..n)
      BY FS_Interval
    <2>3. PICK g : g = [i \in 1..n |-> calls[w][i].event]
      OBVIOUS
    <2>4. IsFiniteSet({g[i] : i \in 1..n})
      BY <2>2, <2>3, FiniteImage
    <2>5. mine = {g[i] : i \in 1..n}
      BY <2>1, <2>3
    <2> QED BY <2>4, <2>5
  <1>3. IsFiniteSet(kept)
    <2>1. PICK g : g = [k \in DOMAIN inflight |-> inflight[k].event]
      OBVIOUS
    <2>2. IsFiniteSet({g[k] : k \in DOMAIN inflight})
      BY <2>1, FiniteImage DEF ClientsInv, TableIsSound
    <2>3. kept \subseteq {g[k] : k \in DOMAIN inflight}
      BY <2>1 DEF Range
    <2> QED BY <2>2, <2>3, FS_Subset
  <1>4. IsFiniteSet(used)
    BY <1>1, <1>2, <1>3, FS_Union
  <1>5. PICK c \in Nat : c = Cardinality(used)
    BY <1>4, FS_CardinalityType
  <1>6. \E n \in 1..(c + 1) : n \notin used
    <2> SUFFICES ASSUME 1..(c + 1) \subseteq used PROVE FALSE
      OBVIOUS
    <2>1. Cardinality(1..(c + 1)) = c + 1
      BY FS_Interval
    <2>2. Cardinality(1..(c + 1)) <= c
      BY <1>4, <1>5, FS_Subset
    <2> QED BY <2>1, <2>2
  <1>7. Fresh(w) = CHOOSE n \in 1..(c + 1) : n \notin used
    BY <1>5 DEF Fresh
  <1>8. Fresh(w) \in 1..(c + 1) /\ Fresh(w) \notin used
    <2> HIDE DEF used
    <2> QED BY <1>6, <1>7
  <1>9. Fresh(w) \in Events /\ Fresh(w) \notin ToSet(events[w])
    BY <1>8 DEF Events, Open
  <1>10. \A i \in DOMAIN calls[w] : Fresh(w) # calls[w][i].event
    BY <1>8
  <1>11. ASSUME NEW k \in DOMAIN inflight, inflight[k].of = w PROVE inflight[k].event # Fresh(w)
    <2>1. inflight[k] \in Range(inflight)
      BY DEF Range
    <2>2. inflight[k].event \in kept
      BY <1>11, <2>1
    <2> QED BY <1>8, <2>2
  <1> QED BY <1>9, <1>10, <1>11 DEF NewEvent

-----------------------------------------------------------------------------
(* A call enters *)

(* The other callers keep their calls but for marks.                       *)
OthersAre(w) ==
  \A v \in Callers \ {w} :
    /\ calls'[v] \in Seq(CallType) /\ Alike(calls'[v], calls[v])
    /\ EventsAreSound(calls'[v], events'[v], abandoned'[v])
    /\ Clashes(calls'[v]) => v \in loop

LEMMA OthersStay ==
  ASSUME ClientsInv, NEW w \in Callers,
         \A v \in Callers : v # w => /\ calls'[v] = calls[v] /\ events'[v] = events[v]
                                     /\ abandoned'[v] = abandoned[v]
  PROVE  OthersAre(w)
  <1> SUFFICES ASSUME NEW v \in Callers, v # w
               PROVE  /\ calls[v] \in Seq(CallType) /\ Alike(calls[v], calls[v])
                      /\ EventsAreSound(calls[v], events[v], abandoned[v])
                      /\ Clashes(calls[v]) => v \in loop
    BY DEF OthersAre
  <1> QED BY DEF ClientsInv, ClientTypes, CallsAreSound, Alike

(* The call f of w is entered, with the flags `more`.                      *)
CallEnters(w, f, more) ==
  /\ calls' \in [Callers -> Seq(CallType)] /\ calls'[w] = Append(calls[w], f)
  /\ flags' = [flags EXCEPT ![w] = f.restores \cup more]
  /\ stale' \in [Callers -> BOOLEAN]
  /\ \A v \in Callers : v # w => Lost(v)' = Lost(v)
  /\ Lost(w)' = IF f.surface = Engine THEN {} ELSE Lost(w)
  /\ loop' = loop /\ root' = root /\ shared' = None

(* What its wrapper sees to.                                               *)
MayEnter(w, f, more) ==
  /\ f \in CallType /\ more \in SUBSET FlagNames /\ ~f.clash
  /\ calls[w] # <<>> => f.surface \in Surface[Last(calls[w]).surface].below
  /\ f.restores = IF f.surface = Engine THEN flags[w] \ {"orm"} ELSE flags[w]
  /\ Traced(f) => /\ Surface[f.surface].raises \subseteq more
                  /\ Surface[f.surface].yields \cap flags[w] = {}
  /\ f.surface = Engine => more \subseteq {"orm"}
  /\ f.surface = "mongo" => more = {}
  /\ ~Surface[f.surface].http => f.carries = None
  /\ \/ f.carries = None
     \/ root[w] = "unsampled" /\ f.carries = "s0"
     \/ Traced(f) /\ f.carries = <<w, f.event>>
     \/ calls[w] # <<>> /\ ~Traced(f) /\ f.carries = Last(calls[w]).carries

LEMMA EnteringKeeps ==
  ASSUME ClientsInv, NEW w \in Callers, NEW f, NEW more,
         CallEnters(w, f, more), MayEnter(w, f, more),
         events' \in [Callers -> Seq(Events)], DOMAIN abandoned' = Callers, OthersAre(w),
         EventsAreSound(Append(calls[w], f), events'[w], abandoned'[w])
  PROVE  ClientTypes' /\ CallsAreSound'
  <1>1. /\ calls[w] \in Seq(CallType) /\ f \in CallType /\ flags[w] \in SUBSET FlagNames
        /\ calls \in [Callers -> Seq(CallType)] /\ flags \in [Callers -> SUBSET FlagNames]
        /\ root' = root /\ shared' = None /\ more \in SUBSET FlagNames
        /\ root \in [Callers -> {"none", "sampled", "unsampled"}]
        /\ stale' \in [Callers -> BOOLEAN] /\ loop' = loop /\ loop \subseteq Callers
    BY DEF ClientsInv, ClientTypes, CallEnters, MayEnter
  <1>2. f.restores \in SUBSET FlagNames
    BY <1>1 DEF CallType
  <1>3. /\ calls'[w] = Append(calls[w], f) /\ flags'[w] = f.restores \cup more
        /\ \A v \in Callers : v # w => flags'[v] = flags[v]
        /\ calls' \in [Callers -> Seq(CallType)] /\ flags' \in [Callers -> SUBSET FlagNames]
    BY <1>1, <1>2 DEF CallEnters
  <1>4. ClientTypes'
    BY <1>1, <1>3 DEF ClientTypes
  <1>5. ASSUME NEW v \in Callers, v # w
        PROVE  /\ StackIsSound(calls[v], flags[v], Lost(v))'
               /\ HeadersAreOwn(calls[v], v, root[v])'
               /\ EventsAreSound(calls[v], events[v], abandoned[v])'
               /\ (Clashes(calls[v]) => v \in loop)'
    <2>1. /\ calls'[v] \in Seq(CallType) /\ calls[v] \in Seq(CallType) /\ Alike(calls'[v], calls[v])
          /\ flags'[v] = flags[v] /\ Lost(v)' = Lost(v) /\ root'[v] = root[v]
          /\ EventsAreSound(calls'[v], events'[v], abandoned'[v])
          /\ Clashes(calls'[v]) => v \in loop'
      BY <1>1, <1>3, <1>5 DEF CallEnters, OthersAre
    <2>2. StackIsSound(calls[v], flags[v], Lost(v)) /\ HeadersAreOwn(calls[v], v, root[v])
      BY DEF ClientsInv, CallsAreSound
    <2>3. StackIsSound(calls'[v], flags[v], Lost(v)) /\ HeadersAreOwn(calls'[v], v, root[v])
      BY <2>1, <2>2, AlikeKeeps
    <2>4. StackIsSound(calls'[v], flags'[v], Lost(v)') /\ HeadersAreOwn(calls'[v], v, root'[v])
      BY <2>1, <2>3
    <2> QED BY <2>1, <2>4 DEF Clashes
  <1>6. StackIsSound(calls'[w], flags'[w], Lost(w)')
    <2>1. StackIsSound(calls[w], flags[w], Lost(w)) /\ Lost(w) \in {{}, {"orm"}}
      BY LostIs DEF ClientsInv, CallsAreSound
    <2>2. Lost(w)' = IF f.surface = Engine THEN {} ELSE Lost(w)
      BY DEF CallEnters
    <2>3. /\ f \in CallType /\ calls[w] # <<>> => f.surface \in Surface[Last(calls[w]).surface].below
          /\ f.restores = IF f.surface = Engine THEN flags[w] \ {"orm"} ELSE flags[w]
          /\ Traced(f) => /\ Surface[f.surface].raises \subseteq more
                          /\ Surface[f.surface].yields \cap flags[w] = {}
          /\ f.surface = Engine => more \subseteq {"orm"}
          /\ f.surface = "mongo" => more = {}
      BY DEF MayEnter
    <2>4. StackIsSound(Append(calls[w], f), f.restores \cup more, Lost(w)')
      BY <1>1, <2>1, <2>2, <2>3, PushKeeps, ZenonT(30)
    <2> QED BY <1>3, <2>4
  <1>7. HeadersAreOwn(calls'[w], w, root'[w])
    <2>1. HeadersAreOwn(calls[w], w, root[w])
      BY DEF ClientsInv, CallsAreSound
    <2>2. HeadersAreOwn(Append(calls[w], f), w, root[w])
      BY <1>1, <2>1, PushKeepsHeaders DEF MayEnter
    <2> QED BY <1>1, <1>3, <2>2
  <1>8. EventsAreSound(calls'[w], events'[w], abandoned'[w])
    BY <1>3
  <1>9. Clashes(calls'[w]) => w \in loop'
    <2> SUFFICES ASSUME NEW i \in DOMAIN Append(calls[w], f), Append(calls[w], f)[i].clash
                 PROVE  w \in loop
      BY <1>1, <1>3 DEF Clashes
    <2>1. i \in DOMAIN calls[w] /\ calls[w][i].clash
      <3>1. PICK n \in Nat : /\ DOMAIN calls[w] = 1..n /\ DOMAIN Append(calls[w], f) = 1..(n + 1)
                             /\ \A j \in 1..n : Append(calls[w], f)[j] = calls[w][j]
                             /\ Append(calls[w], f)[n + 1] = f
        <4>1. PICK cs \in Seq(CallType), g \in CallType : cs = calls[w] /\ g = f
          BY <1>1
        <4>2. \E n \in Nat : /\ DOMAIN cs = 1..n /\ DOMAIN Append(cs, g) = 1..(n + 1)
                             /\ \A j \in 1..n : Append(cs, g)[j] = cs[j]
                             /\ Append(cs, g)[n + 1] = g
          BY PushIs
        <4> QED BY Zenon, <4>1, <4>2
      <3>2. i # n + 1
        BY <3>1 DEF MayEnter
      <3> QED BY <3>1, <3>2
    <2> QED BY <2>1 DEF ClientsInv, CallsAreSound, Clashes
  <1>10. (Clashes(calls[w]) => w \in loop)'
    BY <1>9 DEF Clashes
  <1> QED BY <1>4, <1>5, <1>6, <1>7, <1>8, <1>10 DEF CallsAreSound

EntersAs(f, w, s, e, c, more) ==
  /\ f.surface = s /\ f.event = e /\ f.carries = c /\ f.rid = None /\ ~f.again /\ ~f.clash
  /\ calls' = [calls EXCEPT ![w] = Append(calls[w], f)]
  /\ f.restores = IF f.surface = Engine THEN flags[w] \ {"orm"} ELSE flags[w]
  /\ CallEnters(w, f, more)

(* The frame of a call that is not a command.                              *)
LEMMA FrameIs ==
  ASSUME ClientsInv, NEW w \in Callers, NEW s \in DOMAIN Surface, NEW e \in Nat,
         NEW more \in SUBSET FlagNames, NEW c \in Carried, Enters(w, s, e, more, c),
         loop' = loop, root' = root, shared' = None
  PROVE  \E f \in CallType : EntersAs(f, w, s, e, c, more)
  <1>1. PICK r \in SUBSET FlagNames : r = Restored(w, s)
    BY DEF ClientsInv, ClientTypes, Restored
  <1>2. PICK f : f = [surface |-> s, event |-> e, restores |-> r, carries |-> c,
                      rid |-> None, again |-> FALSE, clash |-> FALSE]
    OBVIOUS
  <1>3. f \in CallType
    BY <1>2 DEF CallType
  <1>4. f = Frame(w, s, e, c)
    BY <1>1, <1>2 DEF Frame
  <1>5. /\ calls' = [calls EXCEPT ![w] = Append(calls[w], f)]
        /\ flags' = [flags EXCEPT ![w] = f.restores \cup more]
    <2>1. r = f.restores
      BY <1>2
    <2>2. flags' = [flags EXCEPT ![w] = r \cup more]
      BY Zenon, <1>1 DEF Enters
    <2>3. calls' = [calls EXCEPT ![w] = Append(calls[w], f)]
      BY Zenon, <1>4 DEF Enters
    <2> QED BY Zenon, <2>1, <2>2, <2>3
  <1>6. PICK b \in BOOLEAN : b = (stale[w] /\ s # Engine)
    OBVIOUS
  <1>7. stale' = [stale EXCEPT ![w] = b]
    BY <1>6 DEF Enters, Engine
  <1>8. /\ stale' \in [Callers -> BOOLEAN] /\ stale'[w] = b
        /\ \A v \in Callers : v # w => stale'[v] = stale[v]
    BY <1>7 DEF ClientsInv, ClientTypes
  <1>9. /\ \A v \in Callers : v # w => Lost(v)' = Lost(v)
        /\ Lost(w)' = IF s = Engine THEN {} ELSE Lost(w)
    BY <1>6, <1>8 DEF Lost
  <1>10. f.restores = IF f.surface = Engine THEN flags[w] \ {"orm"} ELSE flags[w]
    BY <1>1, <1>2 DEF Restored, Engine
  <1>11. CallEnters(w, f, more)
    <2>1. calls \in [Callers -> Seq(CallType)]
      BY DEF ClientsInv, ClientTypes
    <2>2. Append(calls[w], f) \in Seq(CallType)
      BY <1>3, <2>1
    <2>3. calls' \in [Callers -> Seq(CallType)] /\ calls'[w] = Append(calls[w], f)
      BY <1>5, <2>1, <2>2
    <2> QED BY <1>2, <1>5, <1>8, <1>9, <2>3 DEF CallEnters
  <1> QED BY <1>2, <1>3, <1>5, <1>10, <1>11 DEF EntersAs

(* The table does not change, and the new call has no entry in it.         *)
LEMMA TableWithCall ==
  ASSUME ClientsInv, NEW w \in Callers, NEW f \in CallType, f.rid = None,
         calls' = [calls EXCEPT ![w] = Append(calls[w], f)], inflight' = inflight, loop' = loop
  PROVE  TableIsSound'
  <1>1. PICK n \in Nat : /\ n = Len(calls[w]) /\ DOMAIN calls[w] = 1..n
                         /\ DOMAIN Append(calls[w], f) = 1..(n + 1)
                         /\ \A i \in 1..n : Append(calls[w], f)[i] = calls[w][i]
                         /\ Append(calls[w], f)[n + 1] = f
    <2>1. calls[w] \in Seq(CallType)
      BY DEF ClientsInv, ClientTypes
    <2> QED BY <2>1, PushIs
  <1>2. calls'[w] = Append(calls[w], f) /\ \A v \in Callers : v # w => calls'[v] = calls[v]
    BY DEF ClientsInv, ClientTypes
  <1>3. ASSUME NEW v \in Callers, NEW i \in DOMAIN calls'[v], calls'[v][i].rid # None
        PROVE  i \in DOMAIN calls[v] /\ calls'[v][i] = calls[v][i]
    <2>1. CASE v # w
      BY <1>2, <2>1
    <2>2. CASE v = w
      <3>1. i \in 1..(n + 1) /\ i # n + 1
        BY <1>1, <1>2, <1>3, <2>2
      <3> QED BY <1>1, <1>2, <2>2, <3>1
    <2> QED BY <2>1, <2>2
  <1>4. ASSUME NEW v \in Callers, NEW i \in DOMAIN calls'[v], calls'[v][i].rid # None,
               NEW k, k = KeyOf(v, calls'[v][i].rid), k \in DOMAIN inflight, inflight[k].of = v
        PROVE  inflight[k].event = calls'[v][i].event
    <2>1. i \in DOMAIN calls[v] /\ calls'[v][i] = calls[v][i]
      BY <1>3, <1>4
    <2> QED BY <1>4, <2>1 DEF ClientsInv, TableIsSound
  <1>5. /\ DOMAIN inflight \subseteq RequestIds \X SUBSET Callers /\ IsFiniteSet(DOMAIN inflight)
        /\ \A k \in DOMAIN inflight : /\ inflight[k].of \in Callers /\ k[2] = Ident(inflight[k].of)
                                      /\ inflight[k].event \in Events
    BY DEF ClientsInv, TableIsSound
  <1>6. inflight' = inflight /\ \A v \in Callers : Ident(v)' = Ident(v)
    BY DEF Ident
  <1>7. \A v \in Callers : \A i \in DOMAIN calls'[v] :
          KeyOf(v, calls'[v][i].rid) = KeyOf(v, calls[v][i].rid)'
    BY <1>6 DEF KeyOf
  <1>8. \A v \in Callers : \A i \in DOMAIN calls'[v] :
          LET k == KeyOf(v, calls[v][i].rid)'
          IN calls'[v][i].rid # None /\ k \in DOMAIN inflight /\ inflight[k].of = v
               => inflight[k].event = calls'[v][i].event
    BY <1>4, <1>7
  <1>9. (\A k \in DOMAIN inflight : /\ inflight[k].of \in Callers
                                     /\ k[2] = Ident(inflight[k].of)
                                     /\ inflight[k].event \in Events)'
    BY <1>5, <1>6 DEF Ident
  <1>10. (DOMAIN inflight \subseteq RequestIds \X SUBSET Callers
          /\ IsFiniteSet(DOMAIN inflight))'
    BY <1>5, <1>6
  <1>11. (\A v \in Callers : \A i \in DOMAIN calls[v] :
            LET k == KeyOf(v, calls[v][i].rid)
            IN calls[v][i].rid # None /\ k \in DOMAIN inflight /\ inflight[k].of = v
                 => inflight[k].event = calls[v][i].event)'
    BY <1>6, <1>8
  <1> QED BY <1>9, <1>10, <1>11 DEF TableIsSound

(* What a caller that is about to call gives.                              *)
LEMMA GivenIs ==
  ASSUME ClientsInv, NEW w \in Callers, NEW s \in DOMAIN Surface
  PROVE  /\ Given(w, s) \in Carried /\ (~Surface[s].http => Given(w, s) = None)
         /\ \/ Given(w, s) = None
            \/ calls[w] # <<>> /\ Given(w, s) = Last(calls[w]).carries
  <1>1. calls[w] # <<>> => Last(calls[w]) \in CallType
    <2>1. calls[w] \in Seq(CallType)
      BY DEF ClientsInv, ClientTypes
    <2> SUFFICES ASSUME calls[w] # <<>> PROVE Last(calls[w]) \in CallType
      OBVIOUS
    <2>2. PICK n : Last(calls[w]) = calls[w][n] /\ calls[w][n] \in CallType
      BY <2>1, PopIs
    <2> QED BY <2>2
  <1>2. shared = None /\ None \in Carried
    BY DEF ClientsInv, ClientTypes, Carried
  <1>3. CASE ~Surface[s].http
    BY <1>2, <1>3 DEF Given
  <1>4. CASE Surface[s].http /\ calls[w] = <<>>
    BY <1>2, <1>4 DEF Given
  <1>5. CASE Surface[s].http /\ calls[w] # <<>>
    <2>1. Given(w, s) = Last(calls[w]).carries
      BY <1>5 DEF Given
    <2>2. Last(calls[w]).carries \in Carried
      BY <1>1, <1>5 DEF CallType
    <2> QED BY <1>5, <2>1, <2>2
  <1> QED BY <1>3, <1>4, <1>5

(* The layers whose request may not be copied are not driven by one that   *)
(* sends a request of its own.                                             *)
LEMMA NotCopiedIs ==
  ASSUME ClientsInv, NEW w \in Callers, NEW s \in DOMAIN Surface, MayCall(w, s),
         s \in {"send", "httpx", "async_httpx", "grpc"} \/ ~Surface[s].http
  PROVE  Given(w, s) = None
  <1> SUFFICES ASSUME calls[w] # <<>>, Surface[s].http PROVE Last(calls[w]).carries = None
    BY GivenIs
  <1>1. calls[w] \in Seq(CallType) /\ HeadersAreOwn(calls[w], w, root[w])
    BY DEF ClientsInv, ClientTypes, CallsAreSound
  <1>2. PICK n \in Nat \ {0} : /\ DOMAIN calls[w] = 1..n /\ Last(calls[w]) = calls[w][n]
                               /\ n \in 1..n /\ calls[w][n] \in CallType
    BY <1>1, PopIs
  <1>3. calls[w][n].surface \in DOMAIN Surface /\ s \in Surface[calls[w][n].surface].below
    BY <1>2 DEF MayCall, CallType
  <1>4. ~Surface[calls[w][n].surface].http
    BY <1>3, DrivenIs
  <1> QED BY <1>1, <1>2, <1>4 DEF HeadersAreOwn

SameEvents ==
  /\ events' = events /\ DOMAIN abandoned' = Callers
  /\ \A v \in Callers : abandoned'[v] = abandoned[v]

(* A call that runs untraced.                                              *)
LEMMA QuietEnters ==
  ASSUME ClientsInv, NEW w \in Callers, NEW s \in DOMAIN Surface,
         NEW more \in SUBSET FlagNames, NEW c \in Carried, Enters(w, s, 0, more, c),
         MayCall(w, s), s = Engine => more \subseteq {"orm"}, s = "mongo" => more = {},
         ~Surface[s].http => c = None,
         \/ c = None
         \/ root[w] = "unsampled" /\ c = "s0"
         \/ calls[w] # <<>> /\ c = Last(calls[w]).carries,
         loop' = loop, root' = root, shared' = shared, SameEvents, inflight' = inflight
  PROVE  ClientsInv'
  <1>1. shared' = None
    BY DEF ClientsInv, ClientTypes
  <1>2. PICK f \in CallType : EntersAs(f, w, s, 0, c, more)
    BY <1>1, FrameIs
  <1>3. ~Traced(f)
    BY <1>2 DEF Traced, EntersAs
  <1>4. MayEnter(w, f, more)
    BY <1>2, <1>3 DEF MayEnter, MayCall, EntersAs
  <1>5. calls[w] \in Seq(CallType) /\ EventsAreSound(calls[w], events[w], abandoned[w])
    BY DEF ClientsInv, ClientTypes, CallsAreSound
  <1>6. EventsAreSound(Append(calls[w], f), events[w], abandoned[w])
    BY <1>2, <1>3, <1>5, PushQuietly DEF EntersAs
  <1>7. /\ events' \in [Callers -> Seq(Events)] /\ DOMAIN abandoned' = Callers
        /\ events'[w] = events[w] /\ abandoned'[w] = abandoned[w]
        /\ OthersAre(w)
    <2>1. \A v \in Callers : v # w => calls'[v] = calls[v]
      BY <1>2 DEF EntersAs, ClientsInv, ClientTypes
    <2> QED BY <2>1, OthersStay DEF SameEvents, ClientsInv, ClientTypes
  <1>8. EventsAreSound(Append(calls[w], f), events'[w], abandoned'[w])
    BY <1>6, <1>7
  <1>9. ClientTypes' /\ CallsAreSound'
    BY <1>2, <1>4, <1>7, <1>8, EnteringKeeps DEF EntersAs
  <1>10. TableIsSound'
    BY <1>2, TableWithCall DEF EntersAs
  <1> QED BY <1>9, <1>10 DEF ClientsInv

LEMMA CallUntracedKeeps ==
  ASSUME ClientsInv, NEW w \in Callers, NEW s \in DOMAIN Surface, CallUntraced(w, s)
  PROVE  ClientsInv'
  <1>1. PICK more : /\ more = IF Yields(w, s) THEN {} ELSE Surface[s].spanless
                    /\ Enters(w, s, 0, more, Given(w, s))
    BY DEF CallUntraced
  <1>2. more \in SUBSET FlagNames /\ (s = Engine => more \subseteq {"orm"})
    BY <1>1, LayersTell DEF Engine, Fields
  <1>3. PICK c \in Carried : c = Given(w, s)
    BY GivenIs
  <1>4. Enters(w, s, 0, more, c) /\ MayCall(w, s) /\ s # "mongo"
    BY <1>1, <1>3 DEF CallUntraced
  <1>5. /\ ~Surface[s].http => c = None
        /\ c = None \/ (calls[w] # <<>> /\ c = Last(calls[w]).carries)
    BY <1>3, GivenIs
  <1>6. loop' = loop /\ root' = root /\ shared' = shared /\ SameEvents /\ inflight' = inflight
    BY DEF CallUntraced, SameEvents, ClientsInv, ClientTypes
  <1> QED BY <1>2, <1>4, <1>5, <1>6, QuietEnters

LEMMA CallUnsampledKeeps ==
  ASSUME ClientsInv, NEW w \in Callers, NEW s \in DOMAIN Surface, CallUnsampled(w, s)
  PROVE  ClientsInv'
  <1>1. PICK more : more = Surface[s].unsampled
    OBVIOUS
  <1>2. more \in SUBSET FlagNames /\ (s = Engine => more \subseteq {"orm"})
    BY <1>1, LayersTell DEF Engine, Fields
  <1>3. PICK c \in Carried : c = IF Surface[s].http THEN "s0" ELSE None
    BY DEF Carried
  <1>4. Enters(w, s, 0, more, c) /\ MayCall(w, s) /\ s # "mongo" /\ root[w] = "unsampled"
    BY <1>1, <1>3 DEF CallUnsampled
  <1>5. /\ ~Surface[s].http => c = None
        /\ c = None \/ (root[w] = "unsampled" /\ c = "s0")
    BY <1>3, <1>4
  <1>6. loop' = loop /\ root' = root /\ shared' = shared /\ SameEvents /\ inflight' = inflight
    BY DEF CallUnsampled, SameEvents, ClientsInv, ClientTypes
  <1> QED BY <1>2, <1>4, <1>5, <1>6, QuietEnters

LEMMA CallTracedKeeps ==
  ASSUME ClientsInv, NEW w \in Callers, NEW s \in DOMAIN Surface, CallTraced(w, s)
  PROVE  ClientsInv'
  <1>1. PICK e : e = Fresh(w)
    OBVIOUS
  <1>2. NewEvent(e, calls[w], events[w]) /\ e \in Nat /\ e \in Events
    BY <1>1, FreshIs DEF NewEvent, Events
  <1>3. PICK more : more = Surface[s].raises
    OBVIOUS
  <1>4. more \in SUBSET FlagNames /\ (s = Engine => more \subseteq {"orm"})
    BY <1>3, LayersTell DEF Engine, Fields
  <1>5. /\ MayCall(w, s) /\ s # "mongo" /\ root[w] = "sampled" /\ ~Yields(w, s)
        /\ events' = [events EXCEPT ![w] = Append(events[w], e)]
        /\ loop' = loop /\ root' = root /\ abandoned' = abandoned /\ inflight' = inflight
        /\ shared = None
    BY <1>1 DEF CallTraced, ClientsInv, ClientTypes
  <1>6. PICK c \in Carried :
          /\ Enters(w, s, e, more, c) /\ shared' = None
          /\ c = None \/ c = <<w, e>>
          /\ ~Surface[s].http => c = None
    <2>1. \/ /\ Surface[s].http
             /\ Enters(w, s, e, more, Context(w, e)) /\ shared' = None
          \/ /\ s \in {"send", "httpx", "async_httpx", "grpc"} \/ ~Surface[s].http
             /\ Enters(w, s, e, more, Given(w, s)) /\ shared' = None
      BY <1>1, <1>3, <1>5 DEF CallTraced, RequestAfter
    <2>2. Context(w, e) = <<w, e>> /\ <<w, e>> \in Carried /\ None \in Carried
      BY <1>2, <1>5 DEF Context, Carried
    <2>3. s \in {"send", "httpx", "async_httpx", "grpc"} \/ ~Surface[s].http => Given(w, s) = None
      BY <1>5, NotCopiedIs
    <2> QED BY <2>1, <2>2, <2>3
  <1>7. PICK f \in CallType : EntersAs(f, w, s, e, c, more)
    BY <1>2, <1>4, <1>5, <1>6, FrameIs
  <1>8. MayEnter(w, f, more)
    <2>1. calls[w] # <<>> => f.surface \in Surface[Last(calls[w]).surface].below
      BY <1>5, <1>7 DEF MayCall, EntersAs
    <2>2. Surface[f.surface].raises \subseteq more /\ Surface[f.surface].yields \cap flags[w] = {}
      BY <1>3, <1>5, <1>7 DEF Yields, EntersAs
    <2>3. Traced(f)
      BY <1>2, <1>7 DEF Traced, EntersAs, Events
    <2> QED BY <1>4, <1>5, <1>6, <1>7, <2>1, <2>2, <2>3 DEF MayEnter, EntersAs
  <1>9. /\ calls[w] \in Seq(CallType) /\ EventsAreSound(calls[w], events[w], abandoned[w])
        /\ events[w] \in Seq(Events) /\ events \in [Callers -> Seq(Events)]
        /\ DOMAIN abandoned = Callers
    BY DEF ClientsInv, ClientTypes, CallsAreSound
  <1>10. EventsAreSound(Append(calls[w], f), Append(events[w], e), abandoned[w])
    <2>1. f.event = e /\ ~f.again /\ ~f.clash
      BY <1>7 DEF EntersAs
    <2> QED BY <1>2, <1>9, <2>1, PushEvent
  <1>11. Append(events[w], e) \in Seq(Events)
    BY <1>2, <1>9, AppendEvent
  <1>12. /\ events' \in [Callers -> Seq(Events)] /\ DOMAIN abandoned' = Callers
         /\ events'[w] = Append(events[w], e) /\ abandoned'[w] = abandoned[w]
         /\ OthersAre(w)
    <2>1. \A v \in Callers : v # w => /\ calls'[v] = calls[v] /\ events'[v] = events[v]
                                       /\ abandoned'[v] = abandoned[v]
      BY <1>5, <1>7, <1>9 DEF EntersAs, ClientsInv, ClientTypes
    <2> QED BY <1>5, <1>9, <1>11, <2>1, OthersStay
  <1>13. EventsAreSound(Append(calls[w], f), events'[w], abandoned'[w])
    BY <1>10, <1>12
  <1>14. ClientTypes' /\ CallsAreSound'
    BY <1>7, <1>8, <1>12, <1>13, EnteringKeeps DEF EntersAs
  <1>15. TableIsSound'
    BY <1>5, <1>7, TableWithCall DEF EntersAs
  <1> QED BY <1>14, <1>15 DEF ClientsInv

(* An event that ends right away leaves the stack as it was.               *)
LEMMA AfterFailureIs ==
  ASSUME NEW es \in Seq(Events), NEW e \in Events, Distinct(es), e \notin ToSet(es)
  PROVE  Without(Append(es, e), e) = es
  <1> DEFINE gs == Append(es, e)
  <1>1. /\ gs \in Seq(Events) /\ ToSet(gs) = ToSet(es) \cup {e} /\ Distinct(gs)
        /\ \A k \in DOMAIN es : k \in DOMAIN gs /\ gs[k] = es[k]
    BY AppendEvent
  <1>2. PICK n \in Nat : DOMAIN es = 1..n /\ DOMAIN gs = 1..(n + 1) /\ gs[n + 1] = e
    BY AppendEvent
  <1> HIDE DEF gs
  <1>3. PICK p \in DOMAIN gs : /\ gs[p] = e /\ Without(gs, e) \in Seq(Events)
                               /\ DOMAIN Without(gs, e) = 1..(p - 1)
                               /\ \A k \in 1..(p - 1) : k \in DOMAIN gs /\ Without(gs, e)[k] = gs[k]
    <2>1. e \in ToSet(gs)
      BY <1>1
    <2> QED BY Zenon, <1>1, <2>1, WithoutIs
  <1>4. p = n + 1
    <2>1. n + 1 \in DOMAIN gs
      BY <1>2
    <2> QED BY <1>1, <1>2, <1>3, <2>1 DEF Distinct
  <1>5. DOMAIN Without(gs, e) = 1..n /\ \A k \in 1..n : Without(gs, e)[k] = es[k]
    BY <1>1, <1>2, <1>3, <1>4
  <1>6. Len(Without(gs, e)) = n /\ Len(es) = n
    BY <1>2, <1>3, <1>5, LenProperties
  <1>7. Without(gs, e) = es
    BY <1>3, <1>5, <1>6, SeqEqual
  <1> QED BY <1>7 DEF gs

LEMMA FreshFails ==
  ASSUME ClientsInv, NEW w \in Callers
  PROVE  AfterFailure(w, Fresh(w)) = events[w]
  <1>1. /\ events[w] \in Seq(Events) /\ Distinct(events[w])
        /\ Fresh(w) \in Events /\ Fresh(w) \notin ToSet(events[w])
    BY FreshIs
       DEF NewEvent, ClientsInv, ClientTypes, CallsAreSound, EventsAreSound, EventsAreMine
  <1> QED BY <1>1, AfterFailureIs DEF AfterFailure

LEMMA CallSetUpFailsKeeps ==
  ASSUME ClientsInv, NEW w \in Callers, NEW s \in DOMAIN Surface, CallSetUpFails(w, s)
  PROVE  ClientsInv'
  <1>1. PICK more : more = Surface[s].failed
    OBVIOUS
  <1>2. more \in SUBSET FlagNames /\ (s = Engine => more \subseteq {"orm"})
    BY <1>1, LayersTell DEF Engine, Fields
  <1>3. PICK c \in Carried : c = Given(w, s)
    BY GivenIs
  <1>4. Enters(w, s, 0, more, c) /\ MayCall(w, s) /\ s # "mongo"
    BY <1>1, <1>3 DEF CallSetUpFails
  <1>5. /\ ~Surface[s].http => c = None
        /\ c = None \/ (calls[w] # <<>> /\ c = Last(calls[w]).carries)
    BY <1>3, GivenIs
  <1>6. events' = events
    BY FreshFails DEF CallSetUpFails, ClientsInv, ClientTypes
  <1>7. /\ loop' = loop /\ root' = root /\ shared' = shared /\ SameEvents /\ inflight' = inflight
    BY <1>6 DEF CallSetUpFails, SameEvents, ClientsInv, ClientTypes
  <1> QED BY <1>2, <1>4, <1>5, <1>6, <1>7, QuietEnters

-----------------------------------------------------------------------------
(* A call leaves *)

CallLeaves(w) ==
  /\ calls[w] # <<>> /\ calls' \in [Callers -> Seq(CallType)] /\ calls'[w] = Front(calls[w])
  /\ flags' \in [Callers -> SUBSET FlagNames] /\ stale' \in [Callers -> BOOLEAN]
  /\ events' \in [Callers -> Seq(Events)] /\ DOMAIN abandoned' = Callers
  /\ loop' = loop /\ root' = root /\ shared' = None /\ OthersAre(w)
  /\ \A v \in Callers : v # w => flags'[v] = flags[v] /\ Lost(v)' = Lost(v)

(* A call leaves, and nothing happens to the other callers.                *)
LEMMA OnlyPops ==
  ASSUME ClientsInv, NEW w \in Callers, calls[w] # <<>>,
         calls' = [calls EXCEPT ![w] = Front(calls[w])],
         \A v \in Callers : v # w => events'[v] = events[v] /\ abandoned'[v] = abandoned[v]
  PROVE  /\ calls' \in [Callers -> Seq(CallType)] /\ calls'[w] = Front(calls[w])
         /\ OthersAre(w)
  <1>1. calls \in [Callers -> Seq(CallType)] /\ calls[w] \in Seq(CallType)
    BY DEF ClientsInv, ClientTypes
  <1>2. Front(calls[w]) \in Seq(CallType)
    BY <1>1, PopIs
  <1>3. \A v \in Callers : v # w => calls'[v] = calls[v]
    BY <1>1
  <1> QED BY <1>1, <1>2, <1>3, OthersStay

LEMMA LeavingKeeps ==
  ASSUME ClientsInv, NEW w \in Callers, CallLeaves(w),
         StackIsSound(Front(calls[w]), flags'[w], Lost(w)'),
         EventsAreSound(Front(calls[w]), events'[w], abandoned'[w])
  PROVE  ClientTypes' /\ CallsAreSound'
  <1>1. /\ calls[w] \in Seq(CallType) /\ calls \in [Callers -> Seq(CallType)]
        /\ root \in [Callers -> {"none", "sampled", "unsampled"}] /\ calls[w] # <<>>
        /\ root' = root /\ loop' = loop /\ HeadersAreOwn(calls[w], w, root[w])
        /\ loop \subseteq Callers
    BY DEF ClientsInv, ClientTypes, CallsAreSound, CallLeaves
  <1>2. \A i \in DOMAIN Front(calls[w]) : /\ i \in DOMAIN calls[w]
                                          /\ Front(calls[w])[i] = calls[w][i]
    BY Zenon, <1>1, FrontIs
  <1>3. calls'[w] = Front(calls[w])
    BY DEF CallLeaves
  <1>4. ClientTypes'
    BY <1>1 DEF ClientTypes, CallLeaves
  <1>5. ASSUME NEW v \in Callers, v # w
        PROVE  /\ StackIsSound(calls[v], flags[v], Lost(v))'
               /\ HeadersAreOwn(calls[v], v, root[v])'
               /\ EventsAreSound(calls[v], events[v], abandoned[v])'
               /\ (Clashes(calls[v]) => v \in loop)'
    <2>1. /\ calls'[v] \in Seq(CallType) /\ calls[v] \in Seq(CallType) /\ Alike(calls'[v], calls[v])
          /\ flags'[v] = flags[v] /\ Lost(v)' = Lost(v) /\ root'[v] = root[v]
          /\ EventsAreSound(calls'[v], events'[v], abandoned'[v])
          /\ Clashes(calls'[v]) => v \in loop'
      BY <1>1, <1>5 DEF CallLeaves, OthersAre
    <2>2. StackIsSound(calls[v], flags[v], Lost(v)) /\ HeadersAreOwn(calls[v], v, root[v])
      BY DEF ClientsInv, CallsAreSound
    <2>3. StackIsSound(calls'[v], flags[v], Lost(v)) /\ HeadersAreOwn(calls'[v], v, root[v])
      BY <2>1, <2>2, AlikeKeeps
    <2>4. StackIsSound(calls'[v], flags'[v], Lost(v)') /\ HeadersAreOwn(calls'[v], v, root'[v])
      BY <2>1, <2>3
    <2> QED BY <2>1, <2>4 DEF Clashes
  <1>6. StackIsSound(calls'[w], flags'[w], Lost(w)')
    BY <1>3
  <1>7. HeadersAreOwn(calls'[w], w, root'[w])
    <2>1. HeadersAreOwn(Front(calls[w]), w, root[w])
      BY <1>1, PopKeepsHeaders
    <2> QED BY <1>1, <1>3, <2>1
  <1>8. EventsAreSound(calls'[w], events'[w], abandoned'[w])
    BY <1>3
  <1>9. (Clashes(calls[w]) => w \in loop)'
    <2>1. Clashes(Front(calls[w])) => Clashes(calls[w])
      BY <1>2 DEF Clashes
    <2>2. Clashes(calls[w]) => w \in loop
      BY DEF ClientsInv, CallsAreSound
    <2>3. Clashes(calls'[w]) => w \in loop'
      BY <1>1, <1>3, <2>1, <2>2
    <2> QED BY <2>3 DEF Clashes
  <1> QED BY <1>4, <1>5, <1>6, <1>7, <1>8, <1>9 DEF CallsAreSound

(* The table loses entries at most.                                        *)
TableShrinks ==
  /\ DOMAIN inflight' \subseteq DOMAIN inflight
  /\ \A k \in DOMAIN inflight' : inflight'[k] = inflight[k]

LEMMA TableWithoutCall ==
  ASSUME ClientsInv, NEW w \in Callers, CallLeaves(w), TableShrinks
  PROVE  TableIsSound'
  <1>1. calls[w] \in Seq(CallType) /\ calls[w] # <<>> /\ loop' = loop
    BY DEF ClientsInv, ClientTypes, CallLeaves
  <1>2. \A i \in DOMAIN Front(calls[w]) : /\ i \in DOMAIN calls[w]
                                          /\ Front(calls[w])[i] = calls[w][i]
    BY Zenon, <1>1, FrontIs
  <1>3. calls'[w] = Front(calls[w]) /\ \A v \in Callers : v # w => Alike(calls'[v], calls[v])
    BY DEF CallLeaves, OthersAre
  <1>4. ASSUME NEW v \in Callers, NEW i \in DOMAIN calls'[v]
        PROVE  /\ i \in DOMAIN calls[v] /\ calls'[v][i].rid = calls[v][i].rid
               /\ calls'[v][i].event = calls[v][i].event
    BY <1>2, <1>3 DEF Alike
  <1>5. IsFiniteSet(DOMAIN inflight')
    BY FS_Subset DEF ClientsInv, TableIsSound, TableShrinks
  <1>6. ASSUME NEW v \in Callers, NEW i \in DOMAIN calls'[v], calls'[v][i].rid # None,
               NEW k, k = KeyOf(v, calls'[v][i].rid), k \in DOMAIN inflight', inflight'[k].of = v
        PROVE  inflight'[k].event = calls'[v][i].event
    <2>1. k = KeyOf(v, calls[v][i].rid) /\ i \in DOMAIN calls[v] /\ calls[v][i].rid # None
      BY <1>4, <1>6
    <2>2. k \in DOMAIN inflight /\ inflight'[k] = inflight[k]
      BY <1>6 DEF TableShrinks
    <2>3. inflight[k].event = calls[v][i].event
      BY <1>6, <2>1, <2>2 DEF ClientsInv, TableIsSound
    <2> QED BY <1>4, <2>2, <2>3
  <1>7. /\ DOMAIN inflight' \subseteq RequestIds \X SUBSET Callers
        /\ \A k \in DOMAIN inflight' : /\ inflight'[k].of \in Callers
                                       /\ k[2] = Ident(inflight'[k].of)
                                       /\ inflight'[k].event \in Events
    BY DEF ClientsInv, TableIsSound, TableShrinks
  <1> QED BY <1>1, <1>5, <1>6, <1>7 DEF TableIsSound, KeyOf, Ident

LEMMA AbandonsIs ==
  ASSUME ClientsInv, NEW w \in Callers, NEW added, Abandons(w, added)
  PROVE  /\ DOMAIN abandoned' = Callers
         /\ abandoned'[w] = (abandoned[w] \cup added) \cap ToSet(events'[w])
         /\ \A v \in Callers : v # w =>
              /\ abandoned'[v] = abandoned[v] \cap ToSet(events'[v])
              /\ events'[v] = events[v] => abandoned'[v] = abandoned[v]
  <1>1. \A v \in Callers : abandoned[v] \subseteq ToSet(events[v])
    BY DEF ClientsInv, CallsAreSound, EventsAreSound
  <1>2. /\ DOMAIN abandoned' = Callers
        /\ abandoned'[w] = (abandoned[w] \cup added) \cap ToSet(events'[w])
        /\ \A v \in Callers : v # w => abandoned'[v] = (abandoned[v] \cup {}) \cap ToSet(events'[v])
    BY DEF Abandons
  <1>3. ASSUME NEW v \in Callers, v # w
        PROVE  /\ abandoned'[v] = abandoned[v] \cap ToSet(events'[v])
               /\ events'[v] = events[v] => abandoned'[v] = abandoned[v]
    <2>1. abandoned'[v] = abandoned[v] \cap ToSet(events'[v])
      BY <1>2, <1>3
    <2> QED BY <1>1, <2>1
  <1> QED BY <1>2, <1>3

(* Ending the event of an entry of one's own thread: the calls of another  *)
(* caller are marked when they may lose their events.                      *)
LEMMA ClosingOthers ==
  ASSUME ClientsInv, NEW w \in Callers, NEW x, x.of \in Callers, Ident(x.of) = Ident(w),
         \A v \in Callers : v # w =>
           /\ calls'[v] = CallsAfter(w, x)[v]
           /\ events'[v] = IF x.of = v THEN Without(events[v], x.event) ELSE events[v]
           /\ abandoned'[v] = abandoned[v] \cap ToSet(events'[v])
           /\ events'[v] = events[v] => abandoned'[v] = abandoned[v]
  PROVE  OthersAre(w) /\ \A v \in Callers : v # w => events'[v] \in Seq(Events)
  <1> SUFFICES ASSUME NEW v \in Callers, v # w
               PROVE  /\ calls'[v] \in Seq(CallType) /\ Alike(calls'[v], calls[v])
                      /\ EventsAreSound(calls'[v], events'[v], abandoned'[v])
                      /\ Clashes(calls'[v]) => v \in loop
                      /\ events'[v] \in Seq(Events)
    BY DEF OthersAre
  <1>1. /\ calls[v] \in Seq(CallType) /\ calls \in [Callers -> Seq(CallType)]
        /\ events[v] \in Seq(Events) /\ EventsAreSound(calls[v], events[v], abandoned[v])
        /\ Clashes(calls[v]) => v \in loop
    BY DEF ClientsInv, ClientTypes, CallsAreSound
  <1>2. Distinct(events[v]) /\ Alike(calls[v], calls[v])
    BY <1>1 DEF EventsAreSound, EventsAreMine, Alike
  <1>3. CASE x.of = v /\ IsOpen(x)
    <2>1. PICK ds : ds = [i \in DOMAIN calls[v] |-> [calls[v][i] EXCEPT !.clash = TRUE]]
      OBVIOUS
    <2>2. CallsAfter(w, x) = [calls EXCEPT ![v] = ds]
      BY <1>3, <2>1 DEF CallsAfter
    <2>3. calls'[v] = ds
      BY <1>1, <2>2
    <2>4. PICK n \in Nat : /\ n = Len(calls[v]) /\ DOMAIN calls[v] = 1..n
                           /\ \A i \in 1..n : calls[v][i] \in CallType
      BY <1>1
    <2>5. \A i \in 1..n : /\ ds[i] = [calls[v][i] EXCEPT !.clash = TRUE]
                          /\ calls[v][i] \in CallType
      BY <2>1, <2>4
    <2>6. \A i \in 1..n : /\ ds[i] \in CallType /\ ds[i].clash
                          /\ ds[i].surface = calls[v][i].surface /\ ds[i].event = calls[v][i].event
                          /\ ds[i].restores = calls[v][i].restores
                          /\ ds[i].carries = calls[v][i].carries
                          /\ ds[i].rid = calls[v][i].rid /\ ds[i].again = calls[v][i].again
      <3> SUFFICES ASSUME NEW i \in 1..n
                   PROVE  /\ ds[i] \in CallType /\ ds[i].clash
                          /\ ds[i].surface = calls[v][i].surface
                          /\ ds[i].event = calls[v][i].event
                          /\ ds[i].restores = calls[v][i].restores
                          /\ ds[i].carries = calls[v][i].carries
                          /\ ds[i].rid = calls[v][i].rid /\ ds[i].again = calls[v][i].again
        OBVIOUS
      <3>1. PICK c \in CallType : c = calls[v][i]
        BY <2>5
      <3>2. PICK d : d = [c EXCEPT !.clash = TRUE]
        OBVIOUS
      <3>3. d = ds[i]
        BY <2>5, <3>1, <3>2
      <3>4. /\ d \in CallType /\ d.clash /\ d.surface = c.surface /\ d.event = c.event
            /\ d.restores = c.restores /\ d.carries = c.carries
            /\ d.rid = c.rid /\ d.again = c.again
        BY <3>2 DEF CallType
      <3> QED BY Zenon, <3>1, <3>3, <3>4
    <2>7. DOMAIN ds = 1..n
      BY <2>1, <2>4
    <2>8. ds \in [1..n -> CallType]
      BY <2>1, <2>4, <2>6
    <2>9. ds \in Seq(CallType) /\ Len(ds) = n
      BY <2>8
    <2>10. Alike(ds, calls[v])
      BY <2>4, <2>6, <2>7, <2>9 DEF Alike
    <2>11. \A i \in DOMAIN ds : ds[i].clash
      BY <2>6, <2>7
    <2>12. events'[v] = Without(events[v], x.event)
      BY <1>3
    <2>13. /\ events'[v] \in Seq(Events)
           /\ EventsAreSound(ds, events'[v], abandoned[v] \cap ToSet(events'[v]))
      BY <1>1, <2>9, <2>10, <2>11, <2>12, MarkedEvents
    <2>14. v \in loop
      BY <1>3, SameThread
    <2> QED BY <2>3, <2>9, <2>10, <2>13, <2>14
  <1>4. CASE ~(x.of = v /\ IsOpen(x))
    <2>1. calls'[v] = calls[v]
      BY <1>1, <1>4 DEF CallsAfter
    <2>2. events'[v] = events[v]
      BY <1>2, <1>1, <1>4, WithoutIs DEF IsOpen, Open
    <2> QED BY <1>1, <1>2, <2>1, <2>2
  <1> QED BY <1>3, <1>4

LEMMA LeavesCallKeeps ==
  ASSUME ClientsInv, NEW w \in Callers, calls[w] # <<>>, LeavesCall(w, Last(calls[w]))
  PROVE  ClientsInv'
  <1>1. /\ calls[w] \in Seq(CallType) /\ events[w] \in Seq(Events)
        /\ events \in [Callers -> Seq(Events)] /\ flags \in [Callers -> SUBSET FlagNames]
        /\ StackIsSound(calls[w], flags[w], Lost(w))
        /\ EventsAreSound(calls[w], events[w], abandoned[w])
    BY DEF ClientsInv, ClientTypes, CallsAreSound
  <1>2. PICK f \in CallType : f = Last(calls[w])
    BY <1>1, LastOfStack
  <1>3. PICK fs : fs = Without(events[w], f.event)
    OBVIOUS
  <1>4. /\ fs \in Seq(Events)
        /\ EventsAreSound(Front(calls[w]), fs, abandoned[w] \cap ToSet(fs))
    BY <1>1, <1>2, <1>3, PopEvent
  <1>5. /\ calls' = [calls EXCEPT ![w] = Front(calls[w])]
        /\ flags' = [flags EXCEPT ![w] = f.restores] /\ events' = [events EXCEPT ![w] = fs]
        /\ Abandons(w, {}) /\ loop' = loop /\ root' = root /\ stale' = stale /\ shared' = shared
        /\ inflight' = inflight
    BY <1>2, <1>3 DEF LeavesCall
  <1>6. /\ flags' \in [Callers -> SUBSET FlagNames] /\ flags'[w] = f.restores
        /\ events' \in [Callers -> Seq(Events)] /\ events'[w] = fs
        /\ \A v \in Callers : v # w => flags'[v] = flags[v] /\ events'[v] = events[v]
    BY <1>1, <1>2, <1>4, <1>5 DEF CallType
  <1>7. /\ DOMAIN abandoned' = Callers /\ abandoned'[w] = abandoned[w] \cap ToSet(fs)
        /\ \A v \in Callers : v # w => abandoned'[v] = abandoned[v]
    <2>1. abandoned'[w] = (abandoned[w] \cup {}) \cap ToSet(events'[w])
      BY <1>5, <1>6, AbandonsIs
    <2> QED BY <1>5, <1>6, <2>1, AbandonsIs
  <1>8. \A v \in Callers : Lost(v)' = Lost(v)
    BY <1>5 DEF Lost
  <1>9. CallLeaves(w)
    <2>1. calls' \in [Callers -> Seq(CallType)] /\ calls'[w] = Front(calls[w]) /\ OthersAre(w)
      BY <1>5, <1>6, <1>7, OnlyPops, ZenonT(30)
    <2>2. stale' \in [Callers -> BOOLEAN] /\ shared' = None
      BY <1>5 DEF ClientsInv, ClientTypes
    <2>3. \A v \in Callers : v # w => flags'[v] = flags[v] /\ Lost(v)' = Lost(v)
      BY <1>6, <1>8
    <2> QED BY <1>5, <1>6, <1>7, <2>1, <2>2, <2>3 DEF CallLeaves
  <1>10. StackIsSound(Front(calls[w]), flags'[w], Lost(w)')
    BY <1>1, <1>2, <1>6, <1>8, PopKeeps
  <1>11. EventsAreSound(Front(calls[w]), events'[w], abandoned'[w])
    BY <1>4, <1>6, <1>7
  <1>12. ClientTypes' /\ CallsAreSound'
    BY <1>9, <1>10, <1>11, LeavingKeeps
  <1>13. TableIsSound'
    BY <1>5, <1>9, TableWithoutCall DEF TableShrinks
  <1> QED BY <1>12, <1>13 DEF ClientsInv

(* The end of the only call of a stack is not seen, or not that of its     *)
(* event.                                                                  *)
LEMMA LosingKeeps ==
  ASSUME ClientsInv, NEW w \in Callers, calls[w] # <<>>, Len(calls[w]) = 1,
         Front(calls[w]) = <<>>,
         calls' = [calls EXCEPT ![w] = Front(calls[w])], flags' = flags, events' = events,
         loop' = loop, root' = root, shared' = shared, Abandons(w, {Last(calls[w]).event}),
         stale' \in [Callers -> BOOLEAN], \A v \in Callers : v # w => Lost(v)' = Lost(v),
         Lost(w)' = flags[w], inflight' = inflight
  PROVE  ClientsInv'
  <1>1. /\ calls[w] \in Seq(CallType) /\ EventsAreSound(calls[w], events[w], abandoned[w])
        /\ flags \in [Callers -> SUBSET FlagNames] /\ events \in [Callers -> Seq(Events)]
    BY DEF ClientsInv, ClientTypes, CallsAreSound
  <1>2. /\ DOMAIN abandoned' = Callers
        /\ abandoned'[w] = (abandoned[w] \cup {Last(calls[w]).event}) \cap ToSet(events[w])
        /\ \A v \in Callers : v # w => abandoned'[v] = abandoned[v]
    BY AbandonsIs
  <1>3. CallLeaves(w)
    <2>1. calls' \in [Callers -> Seq(CallType)] /\ calls'[w] = Front(calls[w]) /\ OthersAre(w)
      BY <1>2, OnlyPops
    <2> QED BY <1>1, <1>2, <2>1 DEF CallLeaves, ClientsInv, ClientTypes
  <1>4. EventsAreSound(Front(calls[w]), events'[w], abandoned'[w])
    <2>1. EventsAreSound(<<>>, events[w],
                         (abandoned[w] \cup {Last(calls[w]).event}) \cap ToSet(events[w]))
      BY Zenon, <1>1, PopAbandons
    <2> QED BY <1>2, <2>1
  <1>5. StackIsSound(Front(calls[w]), flags'[w], Lost(w)')
    BY EmptyStack
  <1>6. ClientTypes' /\ CallsAreSound'
    BY <1>3, <1>4, <1>5, LeavingKeeps
  <1>7. TableIsSound'
    BY <1>3, TableWithoutCall DEF TableShrinks
  <1> QED BY <1>6, <1>7 DEF ClientsInv

LEMMA LoseStatementKeeps == ASSUME ClientsInv, NEW w \in Callers, LoseStatement(w) PROVE ClientsInv'
  <1>1. /\ calls[w] \in Seq(CallType) /\ StackIsSound(calls[w], flags[w], Lost(w))
        /\ flags[w] \in SUBSET FlagNames /\ stale \in [Callers -> BOOLEAN]
    BY DEF ClientsInv, ClientTypes, CallsAreSound
  <1>2. calls[w] # <<>> /\ Last(calls[w]).surface = Engine
    BY DEF LoseStatement, Engine
  <1>3. Len(calls[w]) = 1 /\ Front(calls[w]) = <<>> /\ flags[w] \subseteq {"orm"}
    BY <1>1, <1>2, LastOfStack
  <1>4. PICK b \in BOOLEAN : b = ("orm" \in flags[w])
    <2>1. CASE "orm" \in flags[w]
      <3>1. TRUE = ("orm" \in flags[w])
        BY <2>1
      <3> QED BY Zenon, <3>1
    <2>2. CASE "orm" \notin flags[w]
      <3>1. FALSE = ("orm" \in flags[w])
        BY <2>2
      <3> QED BY Zenon, <3>1
    <2> QED BY <2>1, <2>2
  <1>5. /\ stale' = [stale EXCEPT ![w] = b] /\ calls' = [calls EXCEPT ![w] = Front(calls[w])]
        /\ flags' = flags /\ events' = events /\ loop' = loop /\ root' = root /\ shared' = shared
        /\ inflight' = inflight /\ Abandons(w, {Last(calls[w]).event})
    BY <1>4 DEF LoseStatement
  <1>6. /\ stale' \in [Callers -> BOOLEAN] /\ stale'[w] = b
        /\ \A v \in Callers : v # w => stale'[v] = stale[v]
    BY <1>1, <1>5
  <1>7. Lost(w)' = flags[w] /\ \A v \in Callers : v # w => Lost(v)' = Lost(v)
    BY <1>3, <1>4, <1>6 DEF Lost
  <1> QED BY Zenon, <1>2, <1>3, <1>5, <1>6, <1>7, LosingKeeps

(* The command in progress is the only call of its stack.                  *)
LEMMA CommandIs ==
  ASSUME ClientsInv, NEW w \in Callers, calls[w] # <<>>, Last(calls[w]).surface = "mongo"
  PROVE  /\ Len(calls[w]) = 1 /\ Front(calls[w]) = <<>> /\ DOMAIN calls[w] = {1}
         /\ Last(calls[w]) = calls[w][1] /\ Last(calls[w]) \in CallType /\ flags[w] = Lost(w)
  <1>1. calls[w] \in Seq(CallType) /\ StackIsSound(calls[w], flags[w], Lost(w))
    BY DEF ClientsInv, ClientTypes, CallsAreSound
  <1>2. /\ Len(calls[w]) = 1 /\ Front(calls[w]) = <<>> /\ flags[w] = Last(calls[w]).restores
        /\ Last(calls[w]) \in CallType
    BY <1>1, LastOfStack
  <1>3. DOMAIN calls[w] = {1} /\ Last(calls[w]) = calls[w][1]
    BY <1>1, <1>2 DEF Last
  <1>4. FlagsIn(calls[w], flags[w], 0) = calls[w][1].restores
    BY <1>2 DEF FlagsIn
  <1>5. FlagsIn(calls[w], flags[w], 0) = Lost(w)
    BY <1>1 DEF StackIsSound, FlagsNest
  <1> QED BY <1>2, <1>3, <1>4, <1>5

LEMMA LoseCommandKeeps == ASSUME ClientsInv, NEW w \in Callers, LoseCommand(w) PROVE ClientsInv'
  <1>1. calls[w] # <<>> /\ Last(calls[w]).surface = "mongo"
    BY DEF LoseCommand
  <1>2. Len(calls[w]) = 1 /\ Front(calls[w]) = <<>> /\ flags[w] = Lost(w)
    BY <1>1, CommandIs
  <1>3. /\ stale' = stale /\ calls' = [calls EXCEPT ![w] = Front(calls[w])]
        /\ flags' = flags /\ events' = events /\ loop' = loop /\ root' = root /\ shared' = shared
        /\ inflight' = inflight /\ Abandons(w, {Last(calls[w]).event})
    BY DEF LoseCommand
  <1>4. /\ stale' \in [Callers -> BOOLEAN] /\ \A v \in Callers : v # w => Lost(v)' = Lost(v)
        /\ Lost(w)' = flags[w]
    BY <1>2, <1>3 DEF Lost, ClientsInv, ClientTypes
  <1> QED BY Zenon, <1>1, <1>2, <1>3, <1>4, LosingKeeps

(* The entry that a callback finds is that of its own command, or of one   *)
(* of another task of its thread.                                          *)
LEMMA CommandEndsKeeps == ASSUME ClientsInv, NEW w \in Callers, CommandEnds(w) PROVE ClientsInv'
  <1>1. calls[w] # <<>> /\ Last(calls[w]).surface = "mongo"
    BY DEF CommandEnds
  <1>2. PICK f \in CallType : f = Last(calls[w]) /\ f = calls[w][1] /\ DOMAIN calls[w] = {1}
    BY <1>1, CommandIs
  <1>3. Len(calls[w]) = 1 /\ Front(calls[w]) = <<>> /\ flags[w] = Lost(w)
    BY <1>1, CommandIs
  <1>4. PICK k : k = KeyOf(w, f.rid)
    OBVIOUS
  <1>5. /\ calls[w] \in Seq(CallType) /\ events[w] \in Seq(Events)
        /\ calls \in [Callers -> Seq(CallType)]
        /\ events \in [Callers -> Seq(Events)] /\ flags \in [Callers -> SUBSET FlagNames]
        /\ EventsAreSound(calls[w], events[w], abandoned[w])
    BY DEF ClientsInv, ClientTypes, CallsAreSound
  <1>6. /\ flags' = flags /\ loop' = loop /\ root' = root /\ stale' = stale /\ shared' = shared
        /\ Abandons(w, {Last(calls[w]).event})
    BY DEF CommandEnds
  <1>7. \A v \in Callers : Lost(v)' = Lost(v)
    BY <1>6 DEF Lost
  <1>8. ASSUME f.rid # None, k \in DOMAIN inflight PROVE ClientsInv'
    <2>1. PICK x : x = inflight[k]
      OBVIOUS
    <2>2. x.of \in Callers /\ k[2] = Ident(x.of) /\ x.event \in Events
      BY <1>8, <2>1 DEF ClientsInv, TableIsSound
    <2>3. Ident(x.of) = Ident(w)
      BY <1>4, <2>2 DEF KeyOf
    <2>4. x.of = w => x.event = f.event
      BY <1>2, <1>4, <1>8, <2>1 DEF ClientsInv, TableIsSound
    <2>5. /\ events' = Closed(events, x)
          /\ calls' = [CallsAfter(w, x) EXCEPT ![w] = Front(@)]
          /\ inflight' = [j \in DOMAIN inflight \ {k} |-> inflight[j]]
      BY <1>2, <1>4, <1>8, <2>1 DEF CommandEnds
    <2>6. /\ DOMAIN CallsAfter(w, x) = Callers /\ CallsAfter(w, x)[w] = calls[w]
      BY <1>5, <2>2 DEF CallsAfter
    <2>7. /\ DOMAIN calls' = Callers /\ calls'[w] = Front(calls[w])
          /\ \A v \in Callers : v # w => calls'[v] = CallsAfter(w, x)[v]
      BY <2>5, <2>6
    <2>8. /\ DOMAIN events' = Callers
          /\ \A v \in Callers :
               events'[v] = IF x.of = v THEN Without(events[v], x.event) ELSE events[v]
      BY <1>5, <2>2, <2>5 DEF Closed
    <2>9. /\ DOMAIN abandoned' = Callers
          /\ abandoned'[w] = (abandoned[w] \cup {f.event}) \cap ToSet(events'[w])
          /\ \A v \in Callers : v # w =>
               /\ abandoned'[v] = abandoned[v] \cap ToSet(events'[v])
               /\ events'[v] = events[v] => abandoned'[v] = abandoned[v]
      BY <1>2, <1>6, AbandonsIs
    <2>10. OthersAre(w) /\ \A v \in Callers : v # w => events'[v] \in Seq(Events)
      BY <2>2, <2>3, <2>7, <2>8, <2>9, ClosingOthers
    <2>11. /\ events'[w] \in Seq(Events)
           /\ EventsAreSound(Front(calls[w]), events'[w], abandoned'[w])
      <3>1. CASE x.of = w
        <4>1. events'[w] = Without(events[w], Last(calls[w]).event)
          BY <1>2, <2>4, <2>8, <3>1
        <4>2. /\ events'[w] \in Seq(Events) /\ Last(calls[w]).event \notin ToSet(events'[w])
              /\ EventsAreSound(Front(calls[w]), events'[w], abandoned[w] \cap ToSet(events'[w]))
          BY <1>1, <1>5, <4>1, PopEvent
        <4>3. abandoned'[w] = abandoned[w] \cap ToSet(events'[w])
          BY <1>2, <2>9, <4>2
        <4> QED BY <4>2, <4>3
      <3>2. CASE x.of # w
        <4>1. events'[w] = events[w]
          BY <2>8, <3>2
        <4>2. EventsAreSound(<<>>, events[w],
                             (abandoned[w] \cup {Last(calls[w]).event}) \cap ToSet(events[w]))
          BY Zenon, <1>3, <1>5, PopAbandons
        <4> QED BY <1>2, <1>3, <1>5, <2>9, <4>1, <4>2
      <3> QED BY <3>1, <3>2
    <2>12. calls' \in [Callers -> Seq(CallType)] /\ events' \in [Callers -> Seq(Events)]
      <3>1. calls'[w] \in Seq(CallType) /\ \A v \in Callers \ {w} : calls'[v] \in Seq(CallType)
        BY <1>1, <1>5, <2>7, <2>10, PopIs DEF OthersAre
      <3>2. calls' = [v \in Callers |-> calls'[v]] /\ events' = [v \in Callers |-> events'[v]]
        BY <2>5, <2>6, <2>7, <2>8, <1>5 DEF Closed
      <3> QED BY <2>10, <2>11, <3>1, <3>2
    <2>13. CallLeaves(w)
      BY <1>1, <1>5, <1>6, <1>7, <2>7, <2>9, <2>10, <2>12 DEF CallLeaves, ClientsInv, ClientTypes
    <2>14. StackIsSound(Front(calls[w]), flags'[w], Lost(w)')
      BY <1>3, <1>6, <1>7, EmptyStack
    <2>15. ClientTypes' /\ CallsAreSound'
      BY <2>11, <2>13, <2>14, LeavingKeeps
    <2>16. TableIsSound'
      BY <2>5, <2>13, TableWithoutCall DEF TableShrinks
    <2> QED BY <2>15, <2>16 DEF ClientsInv
  <1>9. ASSUME ~(f.rid # None /\ k \in DOMAIN inflight) PROVE ClientsInv'
    <2>1. inflight' = inflight /\ events' = events /\ calls' = [calls EXCEPT ![w] = Front(calls[w])]
      BY <1>2, <1>4, <1>9 DEF CommandEnds
    <2>2. /\ stale' \in [Callers -> BOOLEAN] /\ \A v \in Callers : v # w => Lost(v)' = Lost(v)
          /\ Lost(w)' = flags[w]
      BY <1>3, <1>6, <1>7 DEF ClientsInv, ClientTypes
    <2> QED BY Zenon, <1>1, <1>3, <1>6, <2>1, <2>2, LosingKeeps
  <1> QED BY <1>8, <1>9

(* The entry of a command that starts, and those that are kept.            *)
TableGains(k, w, e) ==
  \E kept \in SUBSET DOMAIN inflight :
    inflight' = [j \in kept \cup {k} |-> IF j = k THEN [of |-> w, event |-> e] ELSE inflight[j]]

LEMMA TableWithCommand ==
  ASSUME ClientsInv, NEW w \in Callers, NEW r \in RequestIds, NEW f \in CallType, f.rid = r,
         f.event \in Events, calls[w] = <<>>, loop' = loop,
         calls'[w] = Append(calls[w], f), OthersAre(w), TableGains(KeyOf(w, r), w, f.event)
  PROVE  TableIsSound'
  <1>1. PICK k : k = <<r, Ident(w)>> /\ k = KeyOf(w, r)
    BY DEF KeyOf
  <1>2. PICK kept \in SUBSET DOMAIN inflight :
          inflight' = [j \in kept \cup {k} |->
                         IF j = k THEN [of |-> w, event |-> f.event] ELSE inflight[j]]
    <2>1. TableGains(k, w, f.event)
      BY <1>1
    <2> QED BY <2>1 DEF TableGains
  <1>3. /\ DOMAIN inflight' = kept \cup {k} /\ inflight'[k] = [of |-> w, event |-> f.event]
        /\ \A j \in kept : j # k => inflight'[j] = inflight[j]
    BY <1>2
  <1>4. /\ DOMAIN inflight \subseteq RequestIds \X SUBSET Callers /\ IsFiniteSet(DOMAIN inflight)
        /\ \A j \in DOMAIN inflight : /\ inflight[j].of \in Callers /\ j[2] = Ident(inflight[j].of)
                                      /\ inflight[j].event \in Events
    BY DEF ClientsInv, TableIsSound
  <1>5. IsFiniteSet(DOMAIN inflight')
    <2>1. IsFiniteSet(kept)
      BY <1>2, <1>4, FS_Subset
    <2> QED BY <1>3, <2>1, FS_AddElement
  <1>6. DOMAIN inflight' \subseteq RequestIds \X SUBSET Callers
    <2>1. Ident(w) \in SUBSET Callers
      BY DEF Ident, ClientsInv, ClientTypes
    <2> QED BY <1>1, <1>2, <1>3, <1>4, <2>1
  <1>7. \A j \in DOMAIN inflight' : /\ inflight'[j].of \in Callers
                                    /\ j[2] = Ident(inflight'[j].of)
                                    /\ inflight'[j].event \in Events
    <2> TAKE j \in DOMAIN inflight'
    <2>1. CASE j = k
      BY <1>1, <1>3, <2>1
    <2>2. CASE j # k
      BY <1>2, <1>3, <1>4, <2>2
    <2> QED BY <2>1, <2>2
  <1>8. ASSUME NEW v \in Callers, NEW i \in DOMAIN calls'[v], calls'[v][i].rid # None,
               NEW j, j = KeyOf(v, calls'[v][i].rid), j \in DOMAIN inflight', inflight'[j].of = v
        PROVE  inflight'[j].event = calls'[v][i].event
    <2>1. CASE v = w
      <3>1. calls'[w] = Append(<<>>, f)
        OBVIOUS
      <3>2. DOMAIN calls'[w] = {1} /\ calls'[w][1] = f
        BY <3>1
      <3>3. calls'[v][i] = f
        BY <2>1, <3>2
      <3> QED BY <1>1, <1>3, <1>8, <2>1, <3>3
    <2>2. CASE v # w
      <3>1. /\ i \in DOMAIN calls[v] /\ calls'[v][i].rid = calls[v][i].rid
            /\ calls'[v][i].event = calls[v][i].event
        BY <1>8, <2>2 DEF OthersAre, Alike
      <3>2. j # k
        BY <1>3, <1>8, <2>2
      <3>3. j \in DOMAIN inflight /\ inflight'[j] = inflight[j]
        BY <1>2, <1>3, <1>8, <3>2
      <3>4. inflight[j].event = calls[v][i].event
        BY <1>8, <3>1, <3>3 DEF ClientsInv, TableIsSound
      <3> QED BY <3>1, <3>3, <3>4
    <2> QED BY <2>1, <2>2
  <1> QED BY <1>5, <1>6, <1>7, <1>8 DEF TableIsSound, KeyOf, Ident

(* A command calls nothing and is called by nothing.                       *)
LEMMA CommandCanStart ==
  ASSUME ClientsInv, NEW w \in Callers, MayCall(w, "mongo")
  PROVE  calls[w] = <<>>
  <1> SUFFICES ASSUME calls[w] # <<>> PROVE FALSE
    OBVIOUS
  <1>1. calls[w] \in Seq(CallType)
    BY DEF ClientsInv, ClientTypes
  <1>2. Last(calls[w]) \in CallType
    <2>1. PICK n : Last(calls[w]) = calls[w][n] /\ calls[w][n] \in CallType
      BY <1>1, PopIs
    <2> QED BY <2>1
  <1>3. Last(calls[w]).surface \in DOMAIN Surface
    BY <1>2 DEF CallType
  <1>4. "mongo" \in Surface[Last(calls[w]).surface].below
    BY DEF MayCall
  <1> QED BY <1>3, <1>4, DrivenIs

LEMMA StartsTrackedKeeps ==
  ASSUME ClientsInv, NEW w \in Callers, NEW r \in RequestIds, MayCall(w, "mongo"),
         root[w] = "sampled", StartsTracked(w, r), Abandons(w, {}),
         loop' = loop, root' = root, shared' = shared
  PROVE  ClientsInv'
  <1>1. /\ calls[w] \in Seq(CallType) /\ events[w] \in Seq(Events)
        /\ calls \in [Callers -> Seq(CallType)]
        /\ events \in [Callers -> Seq(Events)] /\ flags \in [Callers -> SUBSET FlagNames]
        /\ flags[w] \in SUBSET FlagNames /\ stale \in [Callers -> BOOLEAN] /\ shared = None
        /\ EventsAreSound(calls[w], events[w], abandoned[w]) /\ DOMAIN abandoned = Callers
    BY DEF ClientsInv, ClientTypes, CallsAreSound
  <1>2. calls[w] = <<>>
    BY CommandCanStart
  <1>3. /\ "mongo" \in DOMAIN Surface /\ Surface["mongo"].raises = {}
        /\ Surface["mongo"].yields = {} /\ ~Surface["mongo"].http /\ "mongo" # Engine
    BY DEF Surface, MongoCommand, Layer, Engine
  <1>4. PICK e : e = Fresh(w)
    OBVIOUS
  <1>5. NewEvent(e, calls[w], events[w]) /\ e \in Events /\ e \in Nat /\ e \notin ToSet(events[w])
    BY <1>4, FreshIs DEF NewEvent, Events
  <1>6. PICK k : k = KeyOf(w, r)
    OBVIOUS
  <1>7. PICK found \in BOOLEAN : found <=> k \in DOMAIN inflight
    <2>1. CASE k \in DOMAIN inflight
      BY <2>1
    <2>2. CASE k \notin DOMAIN inflight
      BY <2>2
    <2> QED BY <2>1, <2>2
  <1>8. PICK x : x = inflight[k]
    OBVIOUS
  <1>9. found => x.of \in Callers /\ Ident(x.of) = Ident(w) /\ x.event \in Events
    BY <1>6, <1>7, <1>8 DEF ClientsInv, TableIsSound, KeyOf
  <1>10. PICK ag \in BOOLEAN : ag = (found /\ x.of = w /\ IsOpen(x))
    OBVIOUS
  <1>11. PICK f : f = [surface |-> "mongo", event |-> e, restores |-> flags[w], carries |-> None,
                       rid |-> r, again |-> ag, clash |-> FALSE]
    OBVIOUS
  <1>12. f \in CallType /\ f.surface = "mongo" /\ f.event = e /\ f.rid = r
         /\ f.again = ag /\ ~f.clash
    BY <1>1, <1>3, <1>5, <1>11 DEF CallType, Carried
  <1>13. f = [Frame(w, "mongo", e, None) EXCEPT !.rid = r, !.again = ag]
    <2>1. PICK no : no = FALSE
      OBVIOUS
    <2>2. PICK z : z = ag
      OBVIOUS
    <2>3. PICK g : g = [surface |-> "mongo", event |-> e, restores |-> flags[w],
                        carries |-> None, rid |-> None, again |-> no, clash |-> no]
      OBVIOUS
    <2>4. g = Frame(w, "mongo", e, None)
      <3>1. Restored(w, "mongo") = flags[w]
        BY DEF Restored
      <3> QED BY Zenon, <2>1, <2>3, <3>1 DEF Frame
    <2>5. PICK h : h = [g EXCEPT !.rid = r]
      OBVIOUS
    <2>6. h = [surface |-> "mongo", event |-> e, restores |-> flags[w], carries |-> None,
               rid |-> r, again |-> no, clash |-> no]
      BY <2>3, <2>5
    <2>7. [h EXCEPT !.again = z] =
            [surface |-> "mongo", event |-> e, restores |-> flags[w], carries |-> None,
             rid |-> r, again |-> z, clash |-> no]
      BY <2>6
    <2>8. f = [h EXCEPT !.again = z]
      BY Zenon, <1>11, <2>1, <2>2, <2>7
    <2>9. [h EXCEPT !.again = z] = [g EXCEPT !.rid = r, !.again = z]
      BY <2>5
    <2> QED BY Zenon, <2>2, <2>4, <2>8, <2>9
  <1>14. PICK pushed : pushed = [events EXCEPT ![w] = Append(events[w], e)]
    OBVIOUS
  <1>15. PICK others : others = IF found THEN CallsAfter(w, x) ELSE calls
    OBVIOUS
  <1>16. /\ calls' = [others EXCEPT ![w] = Append(others[w], f)]
         /\ events' = IF found THEN Closed(pushed, x) ELSE pushed
         /\ flags' = flags /\ stale' = stale
    BY <1>4, <1>6, <1>7, <1>8, <1>10, <1>13, <1>14, <1>15 DEF StartsTracked
  <1>17. TableGains(KeyOf(w, r), w, e)
    <2>1. Stashes(KeyOf(w, r), [of |-> w, event |-> e])
      BY <1>4 DEF StartsTracked
    <2> QED BY <2>1 DEF Stashes, TableGains
  <1>18. DOMAIN others = Callers /\ others[w] = calls[w]
    BY <1>1, <1>9, <1>15 DEF CallsAfter
  <1>19. /\ DOMAIN calls' = Callers /\ calls'[w] = Append(calls[w], f)
         /\ \A v \in Callers : v # w => calls'[v] = others[v]
    BY <1>16, <1>18
  <1>20. Append(events[w], e) \in Seq(Events)
    BY <1>1, <1>5, AppendEvent
  <1>21. /\ DOMAIN pushed = Callers /\ pushed[w] = Append(events[w], e)
         /\ \A v \in Callers : v # w => pushed[v] = events[v]
    BY <1>1, <1>14
  <1>22. /\ DOMAIN events' = Callers
         /\ \A v \in Callers :
              events'[v] = IF found /\ x.of = v THEN Without(pushed[v], x.event) ELSE pushed[v]
    BY <1>9, <1>16, <1>21 DEF Closed
  <1>23. /\ DOMAIN abandoned' = Callers
         /\ abandoned'[w] = abandoned[w] \cap ToSet(events'[w])
         /\ \A v \in Callers : v # w =>
              /\ abandoned'[v] = abandoned[v] \cap ToSet(events'[v])
              /\ events'[v] = events[v] => abandoned'[v] = abandoned[v]
    <2>1. abandoned'[w] = (abandoned[w] \cup {}) \cap ToSet(events'[w])
      BY AbandonsIs
    <2> QED BY <2>1, AbandonsIs
  <1>24. OthersAre(w) /\ \A v \in Callers : v # w => events'[v] \in Seq(Events)
    <2>1. CASE found
      <3>1. \A v \in Callers : v # w =>
              /\ calls'[v] = CallsAfter(w, x)[v]
              /\ events'[v] = IF x.of = v THEN Without(events[v], x.event) ELSE events[v]
        BY <1>15, <1>19, <1>21, <1>22, <2>1
      <3> QED BY <1>9, <1>23, <2>1, <3>1, ClosingOthers
    <2>2. CASE ~found
      <3>1. \A v \in Callers : v # w => /\ calls'[v] = calls[v] /\ events'[v] = events[v]
                                        /\ abandoned'[v] = abandoned[v]
        BY <1>15, <1>19, <1>21, <1>22, <1>23, <2>2
      <3> QED BY <1>1, <3>1, OthersStay
    <2> QED BY <2>1, <2>2
  <1>25. /\ events'[w] \in Seq(Events)
         /\ EventsAreSound(Append(calls[w], f), events'[w], abandoned'[w])
    <2>1. CASE ag
      <3>1. /\ EventsAreSound(<<>>, events[w], abandoned[w]) /\ x.event \in ToSet(events[w])
            /\ events'[w] = Without(Append(events[w], f.event), x.event)
        BY <1>1, <1>2, <1>10, <1>12, <1>21, <1>22, <2>1 DEF IsOpen, Open
      <3>2. /\ events'[w] \in Seq(Events)
            /\ EventsAreSound(Append(<<>>, f), events'[w], abandoned[w] \cap ToSet(events'[w]))
        BY <1>1, <1>5, <1>12, <2>1, <3>1, PushOverOld
      <3> QED BY <1>2, <1>23, <3>2
    <2>2. CASE ~ag
      <3>1. EventsAreSound(Append(calls[w], f), Append(events[w], e), abandoned[w])
        BY <1>1, <1>5, <1>12, <2>2, PushEvent
      <3>2. events'[w] = Append(events[w], e)
        <4>1. CASE found /\ x.of = w
          <5>1. x.event \notin ToSet(events[w])
            BY <1>10, <2>2, <4>1 DEF IsOpen, Open
          <5>2. PICK es : es = Append(events[w], e)
            OBVIOUS
          <5>3. es \in Seq(Events) /\ Distinct(es) /\ ToSet(es) = ToSet(events[w]) \cup {e}
            BY <1>1, <1>5, <3>1, <5>2, AppendEvent DEF EventsAreSound, EventsAreMine
          <5>4. x.event # e
            BY <1>4, <1>7, <1>8, <4>1, FreshIs
          <5>5. Without(es, x.event) = es
            BY <5>1, <5>3, <5>4, WithoutIs
          <5>6. events'[w] = Without(pushed[w], x.event)
            BY <1>22, <4>1
          <5> QED BY <1>21, <5>2, <5>5, <5>6
        <4>2. CASE ~(found /\ x.of = w)
          BY <1>21, <1>22, <4>2
        <4> QED BY <4>1, <4>2
      <3>3. abandoned[w] \cap ToSet(events'[w]) = abandoned[w]
        BY <3>1, <3>2 DEF EventsAreSound
      <3> QED BY <1>20, <1>23, <3>1, <3>2, <3>3
    <2> QED BY <2>1, <2>2
  <1>26. calls' \in [Callers -> Seq(CallType)] /\ events' \in [Callers -> Seq(Events)]
    <2>1. calls'[w] \in Seq(CallType) /\ \A v \in Callers \ {w} : calls'[v] \in Seq(CallType)
      BY <1>1, <1>12, <1>19, <1>24 DEF OthersAre
    <2>2. calls' = [v \in Callers |-> calls'[v]] /\ events' = [v \in Callers |-> events'[v]]
      BY <1>9, <1>14, <1>16, <1>18, <1>19, <1>21, <1>22 DEF Closed
    <2> QED BY <1>24, <1>25, <2>1, <2>2
  <1>27. CallEnters(w, f, {})
    <2>1. f.surface # Engine /\ f.restores = flags[w]
      BY <1>3, <1>11
    <2>2. flags' = [flags EXCEPT ![w] = f.restores \cup {}]
      BY <1>1, <1>16, <2>1
    <2>3. \A v \in Callers : Lost(v)' = Lost(v)
      BY <1>16 DEF Lost
    <2> QED BY <1>1, <1>16, <1>19, <1>26, <2>1, <2>2, <2>3 DEF CallEnters
  <1>28. MayEnter(w, f, {})
    BY <1>2, <1>3, <1>11, <1>12 DEF MayEnter
  <1>29. ClientTypes' /\ CallsAreSound'
    BY <1>23, <1>24, <1>25, <1>26, <1>27, <1>28, EnteringKeeps
  <1>30. TableIsSound'
    BY <1>2, <1>5, <1>12, <1>17, <1>19, <1>24, TableWithCommand
  <1> QED BY <1>29, <1>30 DEF ClientsInv

LEMMA CommandStartedKeeps ==
  ASSUME ClientsInv, NEW w \in Callers, NEW r \in RequestIds, CommandStarted(w, r)
  PROVE  ClientsInv'
  <1>1. MayCall(w, "mongo") /\ loop' = loop /\ root' = root /\ shared' = shared /\ Abandons(w, {})
    BY DEF CommandStarted
  <1>2. CASE root[w] = "sampled" /\ StartsTracked(w, r)
    BY <1>1, <1>2, StartsTrackedKeeps
  <1>3. ASSUME Enters(w, "mongo", 0, {}, None), events' = events, inflight' = inflight
        PROVE  ClientsInv'
    <2>1. /\ DOMAIN abandoned' = Callers
          /\ abandoned'[w] = (abandoned[w] \cup {}) \cap ToSet(events'[w])
          /\ \A v \in Callers : v # w => abandoned'[v] = abandoned[v]
      BY <1>1, <1>3, AbandonsIs
    <2>2. abandoned[w] \subseteq ToSet(events[w])
      BY DEF ClientsInv, CallsAreSound, EventsAreSound
    <2>3. SameEvents
      BY <1>3, <2>1, <2>2 DEF SameEvents
    <2>4. {} \in SUBSET FlagNames /\ None \in Carried /\ "mongo" \in DOMAIN Surface
          /\ "mongo" # Engine
      BY DEF Carried, Surface, Engine
    <2> QED BY <1>1, <1>3, <2>3, <2>4, QuietEnters
  <1>4. CASE /\ root[w] = "sampled" /\ Enters(w, "mongo", 0, {}, None)
             /\ events' = [events EXCEPT ![w] = AfterFailure(w, Fresh(w))]
             /\ inflight' = inflight
    <2>1. AfterFailure(w, Fresh(w)) = events[w]
      BY FreshFails
    <2>2. events' = events
      BY <1>4, <2>1 DEF ClientsInv, ClientTypes
    <2> QED BY <1>3, <1>4, <2>2
  <1> QED BY <1>2, <1>3, <1>4 DEF CommandStarted

-----------------------------------------------------------------------------
(* The request of a caller, and all steps *)

(* A request begins or ends while its caller makes no call.                *)
LEMMA RequestKeeps ==
  ASSUME ClientsInv, NEW w \in Callers, BeginRequest(w) \/ EndRequest(w)
  PROVE  ClientsInv'
  <1>1. /\ calls[w] = <<>> /\ calls' = calls /\ flags' = flags /\ stale' = stale
        /\ shared' = shared /\ inflight' = inflight /\ loop' = loop
    BY DEF BeginRequest, EndRequest
  <1>2. /\ root' \in [Callers -> {"none", "sampled", "unsampled"}]
        /\ events' \in [Callers -> Seq(Events)] /\ DOMAIN abandoned' = Callers
        /\ \A v \in Callers : v # w => /\ root'[v] = root[v] /\ events'[v] = events[v]
                                       /\ abandoned'[v] = abandoned[v]
        /\ \/ events'[w] = events[w] /\ abandoned'[w] = abandoned[w]
           \/ events'[w] = <<>> /\ abandoned'[w] = {}
    <2>1. CASE BeginRequest(w)
      BY <2>1 DEF BeginRequest, ClientsInv, ClientTypes
    <2>2. CASE EndRequest(w)
      <3>1. <<>> \in Seq(Events)
        OBVIOUS
      <3> QED BY <2>2, <3>1 DEF EndRequest, ClientsInv, ClientTypes
    <2> QED BY <2>1, <2>2
  <1>3. ClientTypes'
    BY <1>1, <1>2 DEF ClientsInv, ClientTypes
  <1>4. \A v \in Callers : Lost(v)' = Lost(v)
    BY <1>1 DEF Lost
  <1>5. ASSUME NEW v \in Callers
        PROVE  /\ StackIsSound(calls'[v], flags'[v], Lost(v)')
               /\ HeadersAreOwn(calls'[v], v, root'[v])
               /\ EventsAreSound(calls'[v], events'[v], abandoned'[v])
               /\ Clashes(calls'[v]) => v \in loop'
    <2>1. /\ StackIsSound(calls[v], flags[v], Lost(v)) /\ HeadersAreOwn(calls[v], v, root[v])
          /\ EventsAreSound(calls[v], events[v], abandoned[v])
          /\ Clashes(calls[v]) => v \in loop
      BY DEF ClientsInv, CallsAreSound
    <2>2. StackIsSound(calls'[v], flags'[v], Lost(v)') /\ (Clashes(calls'[v]) => v \in loop')
      BY <1>1, <1>4, <2>1
    <2>3. CASE v # w
      BY <1>1, <1>2, <2>1, <2>2, <2>3
    <2>4. CASE v = w
      <3>1. HeadersAreOwn(<<>>, w, root'[w]) /\ EventsAreSound(<<>>, <<>>, {})
        BY NoCalls DEF HeadersAreOwn
      <3> QED BY <1>1, <1>2, <2>1, <2>2, <2>4, <3>1
    <2> QED BY <2>3, <2>4
  <1>6. CallsAreSound'
    BY <1>5 DEF CallsAreSound, Clashes
  <1>7. TableIsSound'
    BY <1>1 DEF ClientsInv, TableIsSound, KeyOf, Ident
  <1> QED BY <1>3, <1>6, <1>7 DEF ClientsInv

LEMMA StepKeeps == ASSUME ClientsInv, [Next]_vars PROVE ClientsInv'
  <1>1. CASE UNCHANGED vars
    <2>1. \A v \in Callers : Lost(v)' = Lost(v)
      BY <1>1 DEF vars, Lost
    <2>2. CallsAreSound'
      BY <1>1, <2>1 DEF vars, ClientsInv, CallsAreSound, Clashes
    <2>3. ClientTypes'
      BY <1>1 DEF vars, ClientsInv, ClientTypes
    <2>4. TableIsSound'
      BY <1>1 DEF vars, ClientsInv, TableIsSound, KeyOf, Ident
    <2> QED BY <2>2, <2>3, <2>4 DEF ClientsInv
  <1>2. ASSUME NEW w \in Callers, NEW s \in DOMAIN Surface,
               CallUntraced(w, s) \/ CallUnsampled(w, s) \/ CallTraced(w, s) \/ CallSetUpFails(w, s)
        PROVE  ClientsInv'
    BY <1>2, CallUntracedKeeps, CallUnsampledKeeps, CallTracedKeeps, CallSetUpFailsKeeps
  <1>3. ASSUME NEW w \in Callers, Leave(w) \/ StatementEnds(w) PROVE ClientsInv'
    BY <1>3, LeavesCallKeeps DEF Leave, StatementEnds
  <1>4. ASSUME NEW w \in Callers, NEW r \in RequestIds, CommandStarted(w, r) PROVE ClientsInv'
    BY <1>4, CommandStartedKeeps
  <1>5. ASSUME NEW w \in Callers, LoseStatement(w) \/ CommandEnds(w) \/ LoseCommand(w)
        PROVE  ClientsInv'
    BY <1>5, LoseStatementKeeps, CommandEndsKeeps, LoseCommandKeeps
  <1>6. ASSUME NEW w \in Callers, BeginRequest(w) \/ EndRequest(w) PROVE ClientsInv'
    BY <1>6, RequestKeeps
  <1> QED BY <1>1, <1>2, <1>3, <1>4, <1>5, <1>6 DEF Next

LEMMA ClientsStart == Init => ClientsInv
  <1> SUFFICES ASSUME Init PROVE ClientsInv
    OBVIOUS
  <1>1. /\ \A w \in Callers : /\ calls[w] = <<>> /\ flags[w] = {} /\ events[w] = <<>>
                              /\ abandoned[w] = {} /\ stale[w] = FALSE
        /\ inflight = <<>> /\ DOMAIN inflight = {}
    BY DEF Init
  <1>2. ClientTypes
    <2>1. <<>> \in Seq(CallType) /\ <<>> \in Seq(Events) /\ {} \in SUBSET FlagNames
      OBVIOUS
    <2> QED BY <2>1 DEF Init, ClientTypes
  <1>3. CallsAreSound
    <2> SUFFICES ASSUME NEW w \in Callers
                 PROVE  /\ StackIsSound(calls[w], flags[w], Lost(w))
                        /\ HeadersAreOwn(calls[w], w, root[w])
                        /\ EventsAreSound(calls[w], events[w], abandoned[w])
                        /\ Clashes(calls[w]) => w \in loop
      BY DEF CallsAreSound
    <2>1. Lost(w) = {}
      BY <1>1 DEF Lost
    <2>2. StackIsSound(<<>>, {}, {})
      BY EmptyStack
    <2>3. HeadersAreOwn(<<>>, w, root[w]) /\ EventsAreSound(<<>>, <<>>, {}) /\ ~Clashes(<<>>)
      BY NoCalls DEF HeadersAreOwn, Clashes
    <2> QED BY <1>1, <2>1, <2>2, <2>3
  <1>4. TableIsSound
    BY <1>1, FS_EmptySet DEF TableIsSound
  <1> QED BY <1>2, <1>3, <1>4 DEF ClientsInv

LEMMA ClientsInvariant == Spec => []ClientsInv
  <1>1. ClientsInv /\ [Next]_vars => ClientsInv'
    BY StepKeeps
  <1> QED BY <1>1, ClientsStart, PTL DEF Spec

-----------------------------------------------------------------------------
(* What follows from it *)

(* Of the layers that serve one exchange, only one opens an event, but for *)
(* urlopen() that calls itself: whatever stack of wrapped calls a caller   *)
(* builds, however deep (OneEventPerExchange).                             *)
THEOREM OneLayerTraces == Spec => []OneEventPerExchange
  <1>1. ASSUME ClientsInv PROVE OneEventPerExchange
    <2>1. \A w \in Callers : abandoned[w] \cup Open(w) \subseteq Nat
      <3> TAKE w \in Callers
      <3>1. abandoned[w] \subseteq Open(w)
        BY <1>1 DEF ClientsInv, CallsAreSound, EventsAreSound, Open
      <3>2. events[w] \in Seq(Events)
        BY <1>1 DEF ClientsInv, ClientTypes
      <3>3. Open(w) \subseteq Nat
        BY <3>2 DEF Open, ToSet, Events
      <3> QED BY <3>1, <3>3
    <2>2. \A w \in Callers : \A i \in DOMAIN calls[w] : calls[w][i].surface \in DOMAIN Surface
      <3> TAKE w \in Callers
      <3> TAKE i \in DOMAIN calls[w]
      <3>1. calls[w] \in Seq(CallType)
        BY <1>1 DEF ClientsInv, ClientTypes
      <3>2. calls[w][i] \in CallType
        BY <3>1
      <3> QED BY <3>2 DEF CallType
    <2>3. TypeOK
      BY <1>1, <2>1, <2>2 DEF TypeOK, ClientsInv, ClientTypes, TableIsSound, FlagNames
    <2>4. \A w \in Callers : OneTraced(calls[w])
      BY <1>1 DEF ClientsInv, CallsAreSound, StackIsSound
    <2> QED BY <2>3, <2>4 DEF OneEventPerExchange, OneTraced
  <1> QED BY <1>1, ClientsInvariant, PTL

(* Outside of all calls no suppression flag is up, but for the one of a    *)
(* statement whose hooks were lost (SuppressionEnds).                      *)
THEOREM FlagsComeDown == Spec => []SuppressionEnds
  <1>1. ASSUME ClientsInv PROVE SuppressionEnds
    <2> SUFFICES ASSUME NEW w \in Callers, calls[w] = <<>>
                 PROVE  flags[w] = IF stale[w] THEN {"orm"} ELSE {}
      BY DEF SuppressionEnds
    <2>1. FlagsIn(calls[w], flags[w], 0) = Lost(w)
      BY <1>1 DEF ClientsInv, CallsAreSound, StackIsSound, FlagsNest
    <2>2. FlagsIn(calls[w], flags[w], 0) = flags[w]
      BY DEF FlagsIn
    <2> QED BY <2>1, <2>2 DEF Lost
  <1> QED BY <1>1, ClientsInvariant, PTL

(* The event stack of a span holds the events of the traced calls in       *)
(* progress in their order, and those whose hook never came: no layer      *)
(* leaves its event open, and no MongoDB callback ends that of another     *)
(* thread.  A command ends its own event when it takes the key of one of   *)
(* its caller that is open, and tasks of one thread may end each other's   *)
(* when their commands share a key; nothing else does (EventsFollowCalls). *)
THEOREM StackFollowsCalls == Spec => []EventsFollowCalls
  <1>1. ASSUME ClientsInv PROVE EventsFollowCalls
    <2>1. ASSUME NEW w \in Callers
          PROVE  /\ EventsAreMine(calls[w], events[w], abandoned[w])
                 /\ Clashes(calls[w]) => w \in loop
      BY <1>1 DEF ClientsInv, CallsAreSound, EventsAreSound
    <2> QED BY <2>1
         DEF EventsFollowCalls, EventsAreMine, InOrder, Distinct, Mine, Tracked, Open, Clashes
  <1> QED BY <1>1, ClientsInvariant, PTL

(* What a layer sends names the innermost event around it, of its own      *)
(* caller, or nothing, although callers share request objects              *)
(* (CarriesOwnContext).                                                    *)
THEOREM RequestsNameTheirCaller == Spec => []CarriesOwnContext
  <1>1. ASSUME ClientsInv PROVE CarriesOwnContext
    <2>1. ASSUME NEW w \in Callers PROVE HeadersAreOwn(calls[w], w, root[w])
      BY <1>1 DEF ClientsInv, CallsAreSound
    <2> QED BY <2>1 DEF CarriesOwnContext, HeadersAreOwn
  <1> QED BY <1>1, ClientsInvariant, PTL

SpanStates == {"open", "unsampled", "none", "null", "ended"}

ScopeType == [msg : Messages, worker : Workers, restores : Messages \cup {Nobody}]

HeaderType == [trace : Messages \cup {Nobody, Upstream}, s0 : BOOLEAN]

Objects == Messages \cup {Template}

SentType == [object : Objects \cup {Nobody},
             by : {Nobody, "nobody", "sampled", "unsampled"}]

-----------------------------------------------------------------------------
(* Publishing: what is in flight, and what it carries *)

WireTypes ==
  /\ at \in [Workers -> {"free", "fetching", "handling", "sending"}]
  /\ DOMAIN with = Workers /\ DOMAIN outer = Workers
  /\ event \in [Workers -> BOOLEAN]
  /\ place \in [Messages -> {"new", "wire", "buffered", "taken", "lost"}]
  /\ header \in [Messages -> HeaderType]
  /\ carrier \in [Objects -> HeaderType]
  /\ sent \in [Messages -> SentType]

(* A message that is being sent is new, and has one sender. *)
SendingInv ==
  \A w \in Workers :
    /\ at[w] = "sending" => /\ with[w] \in Messages /\ place[with[w]] = "new"
                            /\ outer[w] \in Messages \cup {Nobody}
    /\ at[w] = "free" => with[w] = Nobody
    /\ at[w] = "fetching" => with[w] \in Pulled
    /\ at[w] = "handling" => with[w] \in Messages
    /\ at[w] # "sending" => ~event[w]

OneSender == \A w, v \in Workers : at[w] = "sending" /\ at[v] = "sending"
                                     /\ with[w] = with[v] => w = v

(* What is published is of an object that keeps its headers, and a message *)
(* that is new has headers only while its sender is about to send it.      *)
Origins ==
  /\ carrier[Template] = NoHeader
  /\ \A m \in Messages : place[m] = "taken" => carrier[m] = header[m]
  /\ \A m \in Messages :
       sent[m].object # Nobody =>
         /\ sent[m].by \in {"nobody", "sampled", "unsampled"}
         /\ sent[m].object = Template \/ (/\ sent[m].object \in Messages
                                          /\ place[sent[m].object] = "taken")
         /\ place[m] = "new" => \E w \in Workers : at[w] = "sending" /\ with[w] = m

WireInv == WireTypes /\ SendingInv /\ OneSender /\ Origins /\ MessagesCarryContext

-----------------------------------------------------------------------------
LEMMA HeaderTypes ==
  /\ NoHeader \in HeaderType
  /\ \A t \in Messages \cup {Nobody, Upstream}, s \in BOOLEAN :
       /\ Header(t, s) \in HeaderType
       /\ Header(t, s).trace = t /\ Header(t, s).s0 = s
  BY DEF NoHeader, Header, HeaderType

LEMMA SenderIs ==
  ASSUME NEW w
  PROVE  Sender(w) \in {"nobody", "sampled", "unsampled"}
  <1>1. CASE ~Visible(w) \/ ctx[w] = App
    BY <1>1 DEF Sender
  <1>2. ASSUME Visible(w), ctx[w] # App
        PROVE  Sender(w) \in {"nobody", "sampled", "unsampled"}
    <2>1. span[ctx[w]] \in {"open", "unsampled", "null"}
      BY <1>2 DEF Visible
    <2>2. CASE span[ctx[w]] = "open"
      BY <1>2, <2>2 DEF Sender
    <2>3. CASE span[ctx[w]] = "unsampled"
      BY <1>2, <2>3 DEF Sender
    <2>4. CASE span[ctx[w]] = "null"
      BY <1>2, <2>4 DEF Sender
    <2> QED BY <2>1, <2>2, <2>3, <2>4
  <1> QED BY <1>1, <1>2

LEMMA InjectedIs ==
  ASSUME NEW m \in Messages, NEW by \in {"nobody", "sampled", "unsampled"},
         NEW old \in HeaderType, NEW replaces \in BOOLEAN
  PROVE  /\ Injected(m, by, old, replaces) \in HeaderType
         /\ by = "nobody" => Injected(m, by, old, replaces) = old
         /\ by = "sampled" => Injected(m, by, old, replaces).trace = m
         /\ by = "unsampled" => Injected(m, by, old, replaces).s0
  <1>1. PICK s \in BOOLEAN, t \in Messages \cup {Nobody, Upstream}, u \in BOOLEAN :
          /\ s = (old.s0 /\ ~replaces) /\ u = TRUE
          /\ t = IF replaces THEN Nobody ELSE old.trace
    BY DEF HeaderType
  <1>2. by = "nobody" => Injected(m, by, old, replaces) = old
    BY DEF Injected
  <1>3. by = "sampled" => Injected(m, by, old, replaces) = Header(m, s)
    BY <1>1 DEF Injected, Header
  <1>4. by = "unsampled" => Injected(m, by, old, replaces) = Header(t, u)
    BY <1>1 DEF Injected, Header
  <1>5. /\ Header(m, s) \in HeaderType /\ Header(m, s).trace = m
        /\ Header(t, u) \in HeaderType /\ Header(t, u).s0
    BY <1>1, HeaderTypes
  <1>6. CASE by = "nobody"
    BY <1>2, <1>6
  <1>7. CASE by = "sampled"
    BY <1>3, <1>5, <1>7
  <1>8. CASE by = "unsampled"
    BY <1>4, <1>5, <1>8
  <1> QED BY <1>6, <1>7, <1>8

(* Steps that leave the headers alone, and the workers and messages as far *)
(* as they are sent.                                                       *)
WireVars == <<at, with, outer, event, place, header, carrier, sent>>

LEMMA NothingOnTheWire ==
  ASSUME WireInv, UNCHANGED WireVars
  PROVE  WireInv'
  <1>1. WireTypes' /\ SendingInv' /\ OneSender'
    BY DEF WireInv, WireVars, WireTypes, SendingInv, OneSender
  <1>2. Origins'
    BY DEF WireInv, WireVars, Origins
  <1>3. MessagesCarryContext'
    BY DEF WireInv, WireVars, MessagesCarryContext, Original
  <1> QED BY <1>1, <1>2, <1>3 DEF WireInv

(* A worker moves between the states in which it does not send. *)
Moves(w) ==
  /\ \A v \in Workers : v # w => at'[v] = at[v] /\ with'[v] = with[v]
  /\ DOMAIN with' = Workers
  /\ at' \in [Workers -> {"free", "fetching", "handling", "sending"}]
  /\ at[w] # "sending" /\ at'[w] # "sending"
  /\ at'[w] = "free" => with'[w] = Nobody
  /\ at'[w] = "fetching" => with'[w] \in Pulled
  /\ at'[w] = "handling" => with'[w] \in Messages
  /\ UNCHANGED <<outer, event>>

LEMMA MovingKeepsSenders ==
  ASSUME WireInv, NEW w \in Workers, Moves(w),
         place' \in [Messages -> {"new", "wire", "buffered", "taken", "lost"}],
         \A m \in Messages : place[m] = "new" => place'[m] = "new"
  PROVE  SendingInv' /\ OneSender'
  BY DEF WireInv, WireTypes, SendingInv, OneSender, Moves

LEMMA MovingKeepsWire ==
  ASSUME WireInv, NEW w \in Workers, Moves(w),
         UNCHANGED <<place, header, carrier, sent>>
  PROVE  WireInv'
  <1>1. SendingInv' /\ OneSender'
    BY MovingKeepsSenders DEF WireInv, WireTypes
  <1>2. WireTypes'
    BY DEF WireInv, WireTypes, Moves
  <1>3. Origins'
    BY DEF WireInv, Origins, Moves
  <1>4. MessagesCarryContext'
    BY DEF WireInv, MessagesCarryContext, Original
  <1> QED BY <1>1, <1>2, <1>3, <1>4 DEF WireInv

(* A message is taken, whatever its worker does then. *)
LEMMA TakingKeepsWire ==
  ASSUME WireInv, NEW w \in Workers, NEW c, NEW m \in Messages, Takes(c, m),
         Moves(w) \/ UNCHANGED <<at, with, outer, event>>,
         UNCHANGED <<header, sent>>
  PROVE  WireInv'
  <1> USE MessagingAssumption
  <1>1. /\ place[m] \in {"wire", "buffered"}
        /\ place' = [place EXCEPT ![m] = "taken"]
        /\ carrier' = [carrier EXCEPT ![m] = header[m]]
    BY DEF Takes
  <1>2. place' \in [Messages -> {"new", "wire", "buffered", "taken", "lost"}]
        /\ \A n \in Messages : place[n] = "new" => place'[n] = "new"
    BY <1>1 DEF WireInv, WireTypes
  <1>3. SendingInv' /\ OneSender'
    <2>1. CASE Moves(w)
      BY <1>2, <2>1, MovingKeepsSenders
    <2>2. CASE UNCHANGED <<at, with, outer, event>>
      BY <1>2, <2>2 DEF WireInv, WireTypes, SendingInv, OneSender
    <2> QED BY <2>1, <2>2
  <1>4. WireTypes'
    <2>1. carrier' \in [Objects -> HeaderType]
      BY <1>1 DEF WireInv, WireTypes
    <2> QED BY <1>2, <2>1 DEF WireInv, WireTypes, Moves
  <1>5. Origins'
    <2>1. carrier'[Template] = NoHeader
      BY <1>1 DEF WireInv, WireTypes, Origins, Objects
    <2>2. ASSUME NEW n \in Messages, place'[n] = "taken" PROVE carrier'[n] = header'[n]
      BY <1>1, <2>2 DEF WireInv, WireTypes, Origins, Objects
    <2>3. \A v \in Workers, n \in Messages :
            at[v] = "sending" /\ with[v] = n => at'[v] = "sending" /\ with'[v] = n
      BY DEF Moves
    <2>4. ASSUME NEW n \in Messages, sent'[n].object # Nobody
          PROVE  /\ sent'[n].by \in {"nobody", "sampled", "unsampled"}
                 /\ sent'[n].object = Template \/ (/\ sent'[n].object \in Messages
                                                   /\ place'[sent'[n].object] = "taken")
                 /\ place'[n] = "new" =>
                      \E v \in Workers : at'[v] = "sending" /\ with'[v] = n
      <3>1. /\ sent'[n] = sent[n]
            /\ place'[n] = "new" => place[n] = "new"
            /\ \A k \in Messages : place[k] = "taken" => place'[k] = "taken"
        BY <1>1 DEF WireInv, WireTypes
      <3> QED BY <2>3, <2>4, <3>1 DEF WireInv, Origins
    <2> QED BY <2>1, <2>2, <2>4 DEF Origins
  <1>6. MessagesCarryContext'
    BY DEF WireInv, MessagesCarryContext, Original
  <1> QED BY <1>3, <1>4, <1>5, <1>6 DEF WireInv

(* A message that is on its way, or arrives. *)
LEMMA ArriveKeepsWire ==
  ASSUME WireInv, NEW m \in Messages, Arrive(m)
  PROVE  WireInv'
  <1>1. /\ place[m] = "new" /\ \A w \in Workers : with[w] # m
        /\ place' = [place EXCEPT ![m] = "wire"]
        /\ UNCHANGED <<at, with, outer, event, carrier, sent>>
    BY DEF Arrive, workers
  <1>2. PICK h \in HeaderType : header' = [header EXCEPT ![m] = h]
    <2>1. \A h \in {Header(Upstream, FALSE), Header(Nobody, TRUE)} : h \in HeaderType
      BY HeaderTypes
    <2> QED BY <2>1 DEF Arrive
  <1>3. sent[m].object = Nobody
    BY <1>1 DEF WireInv, Origins
  <1>4. WireTypes'
    BY <1>1, <1>2 DEF WireInv, WireTypes
  <1>5. SendingInv' /\ OneSender'
    BY <1>1 DEF WireInv, WireTypes, SendingInv, OneSender
  <1>6. \A n \in Messages : /\ place'[n] = "taken" <=> place[n] = "taken"
                            /\ n # m => header'[n] = header[n] /\ place'[n] = place[n]
    BY <1>1, <1>2 DEF WireInv, WireTypes
  <1>7. Origins'
    BY <1>1, <1>3, <1>6 DEF WireInv, Origins
  <1>8. MessagesCarryContext'
    BY <1>1, <1>3, <1>6 DEF WireInv, MessagesCarryContext, Original, Origins
  <1> QED BY <1>4, <1>5, <1>7, <1>8 DEF WireInv

LEMMA BufferKeepsWire ==
  ASSUME WireInv, NEW m \in Messages, Buffer(m)
  PROVE  WireInv'
  <1>1. /\ place[m] = "wire" /\ place' = [place EXCEPT ![m] = "buffered"]
        /\ UNCHANGED <<at, with, outer, event, header, carrier, sent>>
    BY DEF Buffer, workers
  <1>2. \A n \in Messages : /\ place'[n] = "taken" <=> place[n] = "taken"
                            /\ place'[n] = "new" <=> place[n] = "new"
    BY <1>1 DEF WireInv, WireTypes
  <1>3. WireTypes'
    BY <1>1 DEF WireInv, WireTypes
  <1>4. SendingInv' /\ OneSender'
    BY <1>1, <1>2 DEF WireInv, SendingInv, OneSender
  <1>5. Origins'
    BY <1>1, <1>2 DEF WireInv, Origins
  <1>6. MessagesCarryContext'
    BY <1>1 DEF WireInv, MessagesCarryContext, Original
  <1> QED BY <1>3, <1>4, <1>5, <1>6 DEF WireInv

(* What Prepare makes of the headers: those of the object, or of the event. *)
LEMMA PreparedHeaders ==
  ASSUME WireInv, NEW w \in Workers, NEW m \in Messages, NEW o \in Objects,
         NEW p \in Publishers, Prepare(w, m, o, p)
  PROVE  /\ event' \in [Workers -> BOOLEAN]
         /\ \A v \in Workers : v # w => event'[v] = event[v]
         /\ carrier' = carrier
         /\ \E h \in HeaderType, by \in {"nobody", "sampled", "unsampled"} :
              /\ header' = [header EXCEPT ![m] = h]
              /\ sent' = [sent EXCEPT ![m] = [object |-> o, by |-> by]]
              /\ by = "nobody" => h = carrier[o]
              /\ by = "sampled" => h.trace = m
              /\ by = "unsampled" => h.s0
  <1>1. PICK by \in {"nobody", "sampled", "unsampled"} : by = Sender(w)
    BY SenderIs
  <1>2. carrier[o] \in HeaderType
    BY DEF WireInv, WireTypes
  <1>3. \A b \in BOOLEAN :
          LET e == [event EXCEPT ![w] = b]
          IN e \in [Workers -> BOOLEAN] /\ \A v \in Workers : v # w => e[v] = event[v]
    BY DEF WireInv, WireTypes
  <1>4. PICK replaces \in BOOLEAN : replaces = Publisher[p].replaces
    <2> USE DEF Publisher, KafkaSend, ConfluentProduce, AiokafkaSend, PikaPublish,
                AioPikaPublish, CeleryApplyAsync
    <2>1. p \in {"kafka", "confluent", "aiokafka", "pika", "aio_pika", "celery"}
      BY MessagingAssumption
    <2>2. CASE p = "kafka"
      BY <2>2
    <2>3. CASE p = "confluent"
      BY <2>3
    <2>4. CASE p = "aiokafka"
      BY <2>4
    <2>5. CASE p = "pika"
      BY <2>5
    <2>6. CASE p = "aio_pika"
      BY <2>6
    <2>7. CASE p = "celery"
      BY <2>7
    <2> QED BY <2>1, <2>2, <2>3, <2>4, <2>5, <2>6, <2>7
  <1> DEFINE h == Injected(m, by, carrier[o], replaces)
  <1>5. /\ h \in HeaderType
        /\ by = "nobody" => h = carrier[o]
        /\ by = "sampled" => h.trace = m
        /\ by = "unsampled" => h.s0
    BY <1>2, InjectedIs
  <1>6. CASE /\ header' = [header EXCEPT ![m] = h] /\ carrier' = carrier
             /\ sent' = [sent EXCEPT ![m] = [object |-> o, by |-> by]]
             /\ \E b \in BOOLEAN : event' = [event EXCEPT ![w] = b]
    <2> HIDE DEF h
    <2> QED BY <1>3, <1>5, <1>6
  <1>7. CASE /\ header' = [header EXCEPT ![m] = carrier[o]] /\ carrier' = carrier
             /\ sent' = [sent EXCEPT ![m] = [object |-> o, by |-> "nobody"]]
             /\ \E b \in BOOLEAN : event' = [event EXCEPT ![w] = b]
    BY <1>2, <1>3, <1>7
  <1>8. \A x \in BOOLEAN : \E b \in BOOLEAN : b = (x /\ by = "sampled")
    OBVIOUS
  <1>9. \E b \in BOOLEAN : b = (FALSE \in Publisher[p].carries)
    <2>1. (FALSE \in Publisher[p].carries) \in BOOLEAN
      OBVIOUS
    <2> QED BY <2>1, Zenon
  <1>10. \/ /\ header' = [header EXCEPT ![m] = h] /\ carrier' = carrier
            /\ sent' = [sent EXCEPT ![m] = [object |-> o, by |-> by]]
            /\ \E x \in BOOLEAN : event' = [event EXCEPT ![w] = x /\ by = "sampled"]
         \/ /\ header' = [header EXCEPT ![m] = carrier[o]] /\ carrier' = carrier
            /\ sent' = [sent EXCEPT ![m] = [object |-> o, by |-> "nobody"]]
            /\ event' = [event EXCEPT ![w] = FALSE \in Publisher[p].carries]
    BY <1>1, <1>4 DEF Prepare, UserObjects
  <1> HIDE DEF h
  <1>11. CASE /\ header' = [header EXCEPT ![m] = h] /\ carrier' = carrier
              /\ sent' = [sent EXCEPT ![m] = [object |-> o, by |-> by]]
              /\ \E x \in BOOLEAN : event' = [event EXCEPT ![w] = x /\ by = "sampled"]
    <2>1. PICK x \in BOOLEAN : event' = [event EXCEPT ![w] = x /\ by = "sampled"]
      BY <1>11
    <2>2. PICK b \in BOOLEAN : b = (x /\ by = "sampled")
      BY <1>8
    <2>3. event' = [event EXCEPT ![w] = b]
      BY <2>1, <2>2
    <2> QED BY <1>6, <1>11, <2>3
  <1>12. CASE /\ header' = [header EXCEPT ![m] = carrier[o]] /\ carrier' = carrier
              /\ sent' = [sent EXCEPT ![m] = [object |-> o, by |-> "nobody"]]
              /\ event' = [event EXCEPT ![w] = FALSE \in Publisher[p].carries]
    <2>1. PICK b \in BOOLEAN : b = (FALSE \in Publisher[p].carries)
      BY <1>9
    <2>2. event' = [event EXCEPT ![w] = b]
      BY <1>12, <2>1
    <2> QED BY <1>7, <1>12, <2>2
  <1> QED BY <1>10, <1>11, <1>12

LEMMA PrepareKeepsWire ==
  ASSUME WireInv, NEW w \in Workers, NEW m \in Messages, NEW o \in Objects,
         NEW p \in Publishers, Prepare(w, m, o, p)
  PROVE  WireInv'
  <1> USE MessagingAssumption
  <1>1. /\ at[w] \in {"free", "handling"} /\ place[m] = "new"
        /\ \A v \in Workers : with[v] # m
        /\ o = Template \/ (o \in Messages /\ place[o] = "taken")
        /\ at' = [at EXCEPT ![w] = "sending"] /\ with' = [with EXCEPT ![w] = m]
        /\ outer' = [outer EXCEPT ![w] = with[w]]
        /\ place' = place
    BY DEF Prepare
  <1>2. /\ event' \in [Workers -> BOOLEAN]
        /\ \A v \in Workers : v # w => event'[v] = event[v]
        /\ carrier' = carrier
    BY PreparedHeaders
  <1>3. PICK h \in HeaderType, by \in {"nobody", "sampled", "unsampled"} :
          /\ header' = [header EXCEPT ![m] = h]
          /\ sent' = [sent EXCEPT ![m] = [object |-> o, by |-> by]]
          /\ by = "nobody" => h = carrier[o]
          /\ by = "sampled" => h.trace = m
          /\ by = "unsampled" => h.s0
    BY PreparedHeaders
  <1>4. PICK s \in SentType : s = [object |-> o, by |-> by]
    BY DEF SentType, Objects
  <1>5. /\ s.object = o /\ s.by = by /\ sent' = [sent EXCEPT ![m] = s]
        /\ o # Nobody
    BY <1>1, <1>3, <1>4 DEF Template, Nobody
  <1> HIDE DEF Prepare
  <1>6. /\ sent'[m] = s /\ header'[m] = h
        /\ \A n \in Messages : n # m => sent'[n] = sent[n] /\ header'[n] = header[n]
    BY <1>3, <1>5 DEF WireInv, WireTypes
  <1>7. /\ at'[w] = "sending" /\ with'[w] = m /\ outer'[w] = with[w]
        /\ \A v \in Workers : v # w => /\ at'[v] = at[v] /\ with'[v] = with[v]
                                       /\ outer'[v] = outer[v]
    BY <1>1 DEF WireInv, WireTypes
  <1>8. WireTypes'
    <2>1. at' \in [Workers -> {"free", "fetching", "handling", "sending"}]
      BY <1>1 DEF WireInv, WireTypes
    <2>2. header' \in [Messages -> HeaderType] /\ sent' \in [Messages -> SentType]
      BY <1>3, <1>5 DEF WireInv, WireTypes
    <2> QED BY <1>1, <1>2, <2>1, <2>2 DEF WireInv, WireTypes
  <1>9. SendingInv' /\ OneSender'
    <2>1. outer'[w] \in Messages \cup {Nobody}
      BY <1>1, <1>7 DEF WireInv, SendingInv
    <2> QED BY <1>1, <1>2, <1>7, <2>1 DEF WireInv, SendingInv, OneSender
  <1>10. Origins'
    <2>1. /\ carrier'[Template] = NoHeader
          /\ \A n \in Messages : place'[n] = "taken" => carrier'[n] = header'[n]
      BY <1>1, <1>2, <1>6 DEF WireInv, Origins
    <2>2. ASSUME NEW n \in Messages, sent'[n].object # Nobody
          PROVE  /\ sent'[n].by \in {"nobody", "sampled", "unsampled"}
                 /\ sent'[n].object = Template \/ (/\ sent'[n].object \in Messages
                                                   /\ place'[sent'[n].object] = "taken")
                 /\ place'[n] = "new" =>
                      \E v \in Workers : at'[v] = "sending" /\ with'[v] = n
      <3>1. CASE n = m
        BY <1>1, <1>5, <1>6, <1>7, <3>1
      <3>2. CASE n # m
        <4>1. sent'[n] = sent[n]
          BY <1>6, <3>2
        <4> QED BY <1>1, <1>7, <2>2, <3>2, <4>1 DEF WireInv, Origins
      <3> QED BY <3>1, <3>2
    <2> QED BY <2>1, <2>2 DEF Origins
  <1>11. MessagesCarryContext'
    <2> SUFFICES ASSUME NEW n \in Messages, NEW q \in SentType, q = sent'[n],
                        q.object # Nobody
                 PROVE  /\ q.by = "nobody" => header'[n] = Original(q.object)'
                        /\ q.by = "sampled" => header'[n].trace = n
                        /\ q.by = "unsampled" => header'[n].s0
      <3>1. \A n \in Messages : sent'[n] \in SentType
        BY <1>8 DEF WireTypes
      <3> QED BY <3>1 DEF MessagesCarryContext, Original
    <2>1. CASE n = m
      <3>1. Original(o)' = carrier[o]
        BY <1>1, <1>6 DEF Original, WireInv, Origins
      <3>2. q.object = o /\ q.by = by
        BY <1>5, <1>6, <2>1
      <3>3. by = "nobody" => header'[n] = Original(o)'
        BY <1>3, <1>6, <2>1, <3>1
      <3> QED BY <1>3, <1>6, <2>1, <3>2, <3>3
    <2>2. CASE n # m
      <3>1. sent'[n] = sent[n] /\ header'[n] = header[n]
        BY <1>6, <2>2
      <3>2. Original(q.object)' = Original(q.object)
        <4>1. \/ q.object = Template
              \/ q.object \in Messages /\ place[q.object] = "taken"
          BY <3>1 DEF WireInv, Origins
        <4> QED BY <1>1, <1>6, <4>1 DEF Original
      <3>3. /\ q.by = "nobody" => header[n] = Original(q.object)
            /\ q.by = "sampled" => header[n].trace = n
            /\ q.by = "unsampled" => header[n].s0
        BY <3>1 DEF WireInv, MessagesCarryContext
      <3> QED BY <3>1, <3>2, <3>3
    <2> QED BY <2>1, <2>2
  <1> QED BY <1>8, <1>9, <1>10, <1>11 DEF WireInv

LEMMA SendKeepsWire ==
  ASSUME WireInv, NEW w \in Workers, Send(w)
  PROVE  WireInv'
  <1> USE MessagingAssumption
  <1>1. PICK p \in {"wire", "lost"} : place' = [place EXCEPT ![with[w]] = p]
    BY DEF Send
  <1>2. /\ at[w] = "sending" /\ event' = [event EXCEPT ![w] = FALSE]
        /\ at' = [at EXCEPT ![w] = IF outer[w] = Nobody THEN "free" ELSE "handling"]
        /\ with' = [with EXCEPT ![w] = outer[w]]
        /\ outer' = [outer EXCEPT ![w] = Nobody]
        /\ UNCHANGED <<header, carrier, sent>>
    BY DEF Send, EventAfter
  <1>3. /\ with[w] \in Messages /\ place[with[w]] = "new"
        /\ outer[w] \in Messages \cup {Nobody}
    BY <1>2 DEF WireInv, SendingInv
  <1>4. WireTypes'
    BY <1>1, <1>2, <1>3 DEF WireInv, WireTypes
  <1>5. /\ at'[w] = IF outer[w] = Nobody THEN "free" ELSE "handling"
        /\ with'[w] = outer[w] /\ event'[w] = FALSE
        /\ \A v \in Workers : v # w => /\ at'[v] = at[v] /\ with'[v] = with[v]
                                       /\ outer'[v] = outer[v] /\ event'[v] = event[v]
        /\ place'[with[w]] = p
        /\ \A n \in Messages : n # with[w] => place'[n] = place[n]
    BY <1>1, <1>2, <1>3 DEF WireInv, WireTypes
  <1>6. SendingInv' /\ OneSender'
    <2>1. \A v \in Workers : v # w /\ at[v] = "sending" => with[v] # with[w]
      BY <1>2 DEF WireInv, OneSender
    <2> QED BY <1>3, <1>5, <2>1 DEF WireInv, SendingInv, OneSender
  <1>7. \A n \in Messages : /\ place'[n] = "taken" <=> place[n] = "taken"
                            /\ place'[n] = "new" => place[n] = "new" /\ n # with[w]
    BY <1>3, <1>5
  <1>8. Origins'
    <2>1. /\ carrier'[Template] = NoHeader
          /\ \A n \in Messages : place'[n] = "taken" => carrier'[n] = header'[n]
      BY <1>2, <1>7 DEF WireInv, Origins
    <2>2. ASSUME NEW n \in Messages, sent'[n].object # Nobody
          PROVE  /\ sent'[n].by \in {"nobody", "sampled", "unsampled"}
                 /\ sent'[n].object = Template \/ (/\ sent'[n].object \in Messages
                                                   /\ place'[sent'[n].object] = "taken")
                 /\ place'[n] = "new" =>
                      \E v \in Workers : at'[v] = "sending" /\ with'[v] = n
      <3>1. sent'[n] = sent[n]
        BY <1>2
      <3> QED BY <1>5, <1>7, <2>2, <3>1 DEF WireInv, Origins
    <2> QED BY <2>1, <2>2 DEF Origins
  <1>9. MessagesCarryContext'
    BY <1>2 DEF WireInv, MessagesCarryContext, Original
  <1> QED BY <1>4, <1>6, <1>8, <1>9 DEF WireInv

-----------------------------------------------------------------------------
(* Spans and scopes *)

(* A value of _current_span that hides nothing. *)
Dead(x) == x = Nobody \/ (x \in Messages /\ span[x] = "ended")

(* The scope of a delivery that goes on: its span is current on the worker *)
(* that opened it, and has not ended.                                      *)
Running(sc) == /\ ctx[sc.worker] = sc.msg
               /\ span[sc.msg] \in {"open", "unsampled", "null"}
               /\ Dead(sc.restores)

ScopeTypes ==
  /\ ctx \in [Workers -> Messages \cup {Nobody, App}]
  /\ scope \in [Workers -> ScopeType \cup {NoScope}]
  /\ request \in [Workers -> BOOLEAN]
  /\ before \in [Workers -> Messages \cup {Nobody}]
  /\ finalizers \in [Pulled -> SUBSET ScopeType]
  /\ from \in [Messages -> Consumers \cup {Nobody}]
  /\ span \in [Messages -> SpanStates]

InRequest == \A w \in Workers : /\ request[w] <=> ctx[w] = App
                                /\ Dead(before[w])

HandlersRun ==
  /\ \A w \in Workers : scope[w] # NoScope =>
                          /\ scope[w].worker = w /\ Running(scope[w])
                          /\ from[scope[w].msg] \in Pushed
  /\ \A w, v \in Workers : scope[w] # NoScope /\ scope[v] # NoScope
                              /\ scope[w].msg = scope[v].msg => w = v

FinalizersRun ==
  \A c \in Pulled : \A sc \in finalizers[c] :
    /\ Running(sc) /\ from[sc.msg] = c
    /\ \A other \in finalizers[c] : other.msg = sc.msg => other = sc

(* A span that records has a scope, of the worker it is current on or of   *)
(* the consumer it came from.                                              *)
SpansHaveScopes ==
  \A m \in Messages :
    /\ span[m] \in Recording =>
         /\ from[m] \in Consumers
         /\ from[m] \in Pulled => \E sc \in finalizers[from[m]] : sc.msg = m
         /\ from[m] \in Pushed =>
              \A w \in Workers : ctx[w] = m => scope[w].msg = m
    /\ span[m] = "none" => \A w \in Workers : ctx[w] # m

ScopeInv ==
  ScopeTypes /\ InRequest /\ HandlersRun /\ FinalizersRun /\ SpansHaveScopes

ScopeVars == <<ctx, scope, request, before, finalizers, from, span>>

LEMMA ScopesAreTyped ==
  /\ NoScope.msg = Nobody /\ NoScope \notin ScopeType
  /\ Nobody \notin Messages /\ App \notin Messages /\ App # Nobody
  BY MessagingAssumption DEF NoScope, Scope, ScopeType, App, Nobody

LEMMA NothingToScopes ==
  ASSUME ScopeInv, UNCHANGED ScopeVars
  PROVE  ScopeInv'
  <1>1. ScopeTypes' /\ InRequest'
    BY DEF ScopeInv, ScopeVars, ScopeTypes, InRequest, Dead
  <1>2. HandlersRun'
    BY DEF ScopeInv, ScopeVars, HandlersRun, Running, Dead
  <1>3. FinalizersRun'
    BY DEF ScopeInv, ScopeVars, FinalizersRun, Running, Dead
  <1>4. SpansHaveScopes'
    BY DEF ScopeInv, ScopeVars, SpansHaveScopes
  <1> QED BY <1>1, <1>2, <1>3, <1>4 DEF ScopeInv

(* Where current_span() is None there is nothing that a scope could hide.  *)
LEMMA InvisibleIsDead ==
  ASSUME ScopeInv, NEW w \in Workers, ~Visible(w)
  PROVE  /\ Dead(ctx[w]) /\ ctx[w] \in Messages \cup {Nobody} /\ ~request[w]
         /\ scope[w] = NoScope
         /\ \A sc \in ScopeType : Running(sc) => sc.worker # w
  <1>1. ctx[w] # App /\ ~request[w]
    BY DEF ScopeInv, InRequest, Visible
  <1>2. Dead(ctx[w]) /\ ctx[w] \in Messages \cup {Nobody}
    BY <1>1 DEF ScopeInv, ScopeTypes, SpansHaveScopes, Visible, Dead, SpanStates
  <1>3. \A sc \in ScopeType : Running(sc) => sc.worker # w
    BY DEF Running, Visible, ScopeType
  <1>4. scope[w] = NoScope
    BY <1>3 DEF ScopeInv, ScopeTypes, HandlersRun
  <1> QED BY <1>1, <1>2, <1>3, <1>4

(* A worker that is in a request has no scope. *)
LEMMA EnterKeepsScopes ==
  ASSUME ScopeInv, NEW w \in Workers, EnterRequest(w)
  PROVE  ScopeInv'
  <1> USE ScopesAreTyped
  <1>1. /\ request' = [request EXCEPT ![w] = TRUE]
        /\ before' = [before EXCEPT ![w] = ctx[w]]
        /\ ctx' = [ctx EXCEPT ![w] = App]
        /\ UNCHANGED <<scope, finalizers, from, span>>
    BY DEF EnterRequest, consumers, messages
  <1>2. /\ Dead(ctx[w]) /\ ctx[w] \in Messages \cup {Nobody} /\ scope[w] = NoScope
        /\ \A sc \in ScopeType : Running(sc) => sc.worker # w
    BY InvisibleIsDead DEF EnterRequest
  <1>3. ScopeTypes'
    BY <1>1, <1>2 DEF ScopeInv, ScopeTypes
  <1>4. \A x \in Messages \cup {Nobody} : Dead(x) => Dead(x)'
    BY <1>1 DEF Dead
  <1>5. \A sc \in ScopeType : Running(sc) => Running(sc)'
    BY <1>1, <1>2, <1>4 DEF ScopeInv, ScopeTypes, Running, ScopeType
  <1>6. InRequest'
    <2>1. PICK x \in Messages \cup {Nobody} : x = ctx[w] /\ Dead(x)
      BY <1>2
    <2>2. Dead(x)' /\ before'[w] = x
      BY <1>1, <1>4, <2>1 DEF ScopeInv, ScopeTypes
    <2>3. Dead(before[w])'
      BY <2>2 DEF Dead
    <2> QED BY <1>1, <1>4, <2>3 DEF ScopeInv, ScopeTypes, InRequest, Dead
  <1>7. HandlersRun'
    BY <1>1, <1>5 DEF ScopeInv, ScopeTypes, HandlersRun, Running, Dead
  <1>8. FinalizersRun'
    BY <1>1, <1>5 DEF ScopeInv, ScopeTypes, FinalizersRun
  <1>9. SpansHaveScopes'
    BY <1>1 DEF ScopeInv, ScopeTypes, SpansHaveScopes
  <1> QED BY <1>3, <1>6, <1>7, <1>8, <1>9 DEF ScopeInv

LEMMA LeaveKeepsScopes ==
  ASSUME ScopeInv, NEW w \in Workers, LeaveRequest(w)
  PROVE  ScopeInv'
  <1> USE ScopesAreTyped
  <1>1. /\ request[w] /\ request' = [request EXCEPT ![w] = FALSE]
        /\ before' = [before EXCEPT ![w] = Nobody]
        /\ ctx' = [ctx EXCEPT ![w] = before[w]]
        /\ UNCHANGED <<scope, finalizers, from, span>>
    BY DEF LeaveRequest, consumers, messages
  <1>2. /\ ctx[w] = App /\ Dead(before[w]) /\ before[w] \in Messages \cup {Nobody}
    BY <1>1 DEF ScopeInv, InRequest, ScopeTypes
  <1>3. ScopeTypes'
    BY <1>1, <1>2 DEF ScopeInv, ScopeTypes
  <1>4. \A x \in Messages \cup {Nobody} : Dead(x) => Dead(x)'
    BY <1>1 DEF Dead
  <1>5. \A sc \in ScopeType : Running(sc) => sc.worker # w /\ Running(sc)'
    BY <1>1, <1>2, <1>4 DEF ScopeInv, ScopeTypes, Running, ScopeType
  <1>6. InRequest'
    <2>1. ctx'[w] # App /\ ~request'[w] /\ before'[w] = Nobody
      BY <1>1, <1>2 DEF ScopeInv, ScopeTypes
    <2> QED BY <1>1, <1>4, <2>1 DEF ScopeInv, ScopeTypes, InRequest, Dead
  <1>7. HandlersRun'
    BY <1>1, <1>5 DEF ScopeInv, ScopeTypes, HandlersRun, Running, Dead
  <1>8. FinalizersRun'
    BY <1>1, <1>5 DEF ScopeInv, ScopeTypes, FinalizersRun
  <1>9. SpansHaveScopes'
    <2>1. span[before[w]] = "ended" \/ before[w] = Nobody
      BY <1>2 DEF Dead
    <2>2. \A v \in Workers : ctx'[v] = ctx[v] \/ (v = w /\ ctx'[v] = before[w])
      BY <1>1 DEF ScopeInv, ScopeTypes
    <2> QED BY <1>1, <2>1, <2>2 DEF ScopeInv, SpansHaveScopes, Recording
  <1> QED BY <1>3, <1>6, <1>7, <1>8, <1>9 DEF ScopeInv

(* A scope is closed, on its worker or on another. *)
Ends(sc) ==
  /\ ctx' = ctx \/ ctx' = [ctx EXCEPT ![sc.worker] = sc.restores]
  /\ span' = [span EXCEPT ![sc.msg] = IF @ = "null" THEN "null" ELSE "ended"]

LEMMA ClosingEnds ==
  ASSUME ScopeInv, NEW w \in Workers, NEW sc \in ScopeType, Running(sc),
         CloseSpanScope(w, sc)
  PROVE  Ends(sc)
  <1> USE ScopesAreTyped
  <1>1. ctx' = AfterReset(w, sc) /\ span' = [span EXCEPT ![sc.msg] = Ended(@)]
    BY DEF CloseSpanScope, SpansAfter
  <1>2. span' = [span EXCEPT ![sc.msg] = IF @ = "null" THEN "null" ELSE "ended"]
    BY <1>1 DEF Running, Ended
  <1>3. ctx' = ctx \/ ctx' = [ctx EXCEPT ![sc.worker] = sc.restores]
    BY <1>1 DEF AfterReset
  <1> QED BY <1>2, <1>3 DEF Ends

LEMMA EndingFacts ==
  ASSUME ScopeInv, NEW sc \in ScopeType, Running(sc), Ends(sc)
  PROVE  /\ ctx' \in [Workers -> Messages \cup {Nobody, App}]
         /\ span' \in [Messages -> SpanStates]
         /\ span'[sc.msg] \notin Recording
         /\ \A m \in Messages : /\ m # sc.msg => span'[m] = span[m]
                                /\ span'[m] = "none" <=> span[m] = "none"
         /\ \A w \in Workers : \/ ctx'[w] = ctx[w]
                               \/ ctx[w] = sc.msg /\ ctx'[w] = sc.restores
         /\ \A x \in Messages \cup {Nobody} : Dead(x) => Dead(x)'
         /\ \A other \in ScopeType :
              Running(other) /\ other.msg # sc.msg => Running(other)'
  <1> USE ScopesAreTyped
  <1>1. /\ sc.msg \in Messages /\ sc.worker \in Workers
        /\ sc.restores \in Messages \cup {Nobody}
    BY DEF ScopeType
  <1>2. PICK s \in {"null", "ended"} : span' = [span EXCEPT ![sc.msg] = s]
    BY DEF Ends
  <1>3. /\ ctx' \in [Workers -> Messages \cup {Nobody, App}]
        /\ span' \in [Messages -> SpanStates]
    BY <1>1, <1>2 DEF Ends, ScopeInv, ScopeTypes, SpanStates
  <1>4. /\ span'[sc.msg] = s
        /\ \A m \in Messages : m # sc.msg => span'[m] = span[m]
        /\ span[sc.msg] # "none" /\ s # "none" /\ span[sc.msg] # "ended"
    BY <1>1, <1>2 DEF ScopeInv, ScopeTypes, Running
  <1>5. \A w \in Workers : \/ ctx'[w] = ctx[w]
                           \/ ctx[w] = sc.msg /\ ctx'[w] = sc.restores
    BY <1>1 DEF Ends, ScopeInv, ScopeTypes, Running
  <1>6. \A x \in Messages \cup {Nobody} : Dead(x) => Dead(x)'
    BY <1>1, <1>4 DEF Dead
  <1>7. ASSUME NEW other \in ScopeType, Running(other), other.msg # sc.msg
        PROVE  Running(other)'
    <2>1. /\ other.worker \in Workers /\ other.msg \in Messages
          /\ other.restores \in Messages \cup {Nobody}
      BY DEF ScopeType
    <2>2. ctx'[other.worker] = other.msg
      BY <1>5, <1>7, <2>1 DEF Running
    <2>3. span'[other.msg] = span[other.msg] /\ Dead(other.restores)'
      BY <1>4, <1>6, <1>7, <2>1 DEF Running
    <2> QED BY <1>7, <2>2, <2>3 DEF Running
  <1>8. span'[sc.msg] \notin Recording
    BY <1>4 DEF Recording
  <1> QED BY <1>3, <1>4, <1>5, <1>6, <1>7, <1>8

LEMMA EndsRequest ==
  ASSUME ScopeInv, NEW sc \in ScopeType, Running(sc), Ends(sc),
         UNCHANGED <<request, before>>
  PROVE  InRequest'
  <1> USE ScopesAreTyped
  <1>1. sc.msg \in Messages /\ sc.restores \in Messages \cup {Nobody}
    BY DEF ScopeType
  <1>2. \A w \in Workers : ctx'[w] = App <=> ctx[w] = App
    BY <1>1, EndingFacts
  <1>3. \A w \in Workers : Dead(before[w])'
    <2> SUFFICES ASSUME NEW w \in Workers, NEW x \in Messages \cup {Nobody},
                        x = before[w]
                 PROVE  Dead(x)'
      BY DEF ScopeInv, ScopeTypes, Dead
    <2> QED BY EndingFacts DEF ScopeInv, InRequest
  <1> QED BY <1>2, <1>3 DEF ScopeInv, InRequest, Dead

LEMMA EndsHandler ==
  ASSUME ScopeInv, NEW w \in Workers, NEW sc \in ScopeType, sc = scope[w],
         Ends(sc), scope' = [scope EXCEPT ![w] = NoScope],
         UNCHANGED <<request, before, finalizers, from>>
  PROVE  ScopeInv'
  <1> USE ScopesAreTyped
  <1>1. /\ Running(sc) /\ sc.worker = w /\ sc.msg \in Messages
        /\ from[sc.msg] \in Pushed
    BY DEF ScopeInv, HandlersRun, Running, Dead, ScopeType
  <1>2. /\ scope'[w] = NoScope /\ \A v \in Workers : v # w => scope'[v] = scope[v]
        /\ scope' \in [Workers -> ScopeType \cup {NoScope}]
    BY DEF ScopeInv, ScopeTypes
  <1>3. ScopeTypes'
    BY <1>1, <1>2, EndingFacts DEF ScopeInv, ScopeTypes
  <1>4. InRequest'
    BY <1>1, EndsRequest
  <1>5. HandlersRun'
    <2> SUFFICES ASSUME NEW v \in Workers, NEW other \in ScopeType, v # w,
                        other = scope[v]
                 PROVE  /\ other.worker = v /\ Running(other)'
                        /\ from[other.msg] \in Pushed
                        /\ \A x \in Workers : scope[x] # NoScope
                                              /\ other.msg = scope[x].msg => x = v
      BY <1>2 DEF HandlersRun, Running, Dead
    <2>1. /\ other.worker = v /\ Running(other) /\ from[other.msg] \in Pushed
          /\ other.msg # sc.msg
          /\ \A x \in Workers : scope[x] # NoScope
                                /\ other.msg = scope[x].msg => x = v
      BY DEF ScopeInv, HandlersRun, Running, Dead
    <2> QED BY <1>1, <2>1, EndingFacts
  <1>6. FinalizersRun'
    <2> SUFFICES ASSUME NEW c \in Pulled, NEW other \in finalizers[c]
                 PROVE  Running(other)'
      BY DEF FinalizersRun, ScopeInv
    <2>1. /\ other \in ScopeType /\ Running(other) /\ from[other.msg] = c
      BY DEF ScopeInv, ScopeTypes, FinalizersRun
    <2>2. other.msg # sc.msg
      BY <1>1, <2>1, MessagingAssumption
    <2> QED BY <1>1, <2>1, <2>2, EndingFacts
  <1>7. SpansHaveScopes'
    <2> SUFFICES ASSUME NEW m \in Messages
                 PROVE  /\ span'[m] \in Recording =>
                             /\ from[m] \in Consumers
                             /\ from[m] \in Pulled =>
                                  \E s \in finalizers[from[m]] : s.msg = m
                             /\ from[m] \in Pushed =>
                                  \A v \in Workers : ctx'[v] = m => scope'[v].msg = m
                        /\ span'[m] = "none" => \A v \in Workers : ctx'[v] # m
      BY DEF SpansHaveScopes
    <2>1. /\ m # sc.msg => span'[m] = span[m]
          /\ m = sc.msg => span'[m] \notin Recording
          /\ span'[m] = "none" <=> span[m] = "none"
          /\ \A v \in Workers : \/ ctx'[v] = ctx[v]
                                \/ ctx[v] = sc.msg /\ ctx'[v] = sc.restores
          /\ m = sc.restores => span[m] = "ended" /\ span'[m] = "ended"
      <3>1. sc.restores = m => Dead(m) /\ Dead(m)'
        BY <1>1, EndingFacts DEF Running
      <3>2. /\ m # sc.msg => span'[m] = span[m]
            /\ m = sc.msg => span'[m] \notin Recording
            /\ span'[m] = "none" <=> span[m] = "none"
        BY <1>1, EndingFacts
      <3>3. m = sc.restores => span[m] = "ended" /\ span'[m] = "ended"
        BY <3>1 DEF Dead
      <3> QED BY <1>1, <3>2, <3>3, EndingFacts
    <2>2. ASSUME span'[m] = "none"
          PROVE  \A v \in Workers : ctx'[v] # m
      BY <2>1, <2>2 DEF ScopeInv, SpansHaveScopes
    <2>3. ASSUME span'[m] \in Recording
          PROVE  m # sc.msg /\ span[m] \in Recording /\ m # sc.restores
      BY <2>1, <2>3 DEF Recording
    <2>4. ASSUME span'[m] \in Recording, from[m] \in Pushed, NEW v \in Workers,
                 ctx'[v] = m
          PROVE  scope'[v].msg = m
      <3>1. ctx[v] = m /\ scope[v].msg = m
        BY <1>1, <2>3, <2>4, EndingFacts DEF ScopeInv, SpansHaveScopes
      <3>2. v # w
        BY <2>3, <2>4, <3>1
      <3> QED BY <1>2, <3>1, <3>2
    <2> QED BY <2>2, <2>3, <2>4 DEF ScopeInv, SpansHaveScopes
  <1> QED BY <1>3, <1>4, <1>5, <1>6, <1>7 DEF ScopeInv

LEMMA EndsFinalizer ==
  ASSUME ScopeInv, NEW c \in Pulled, NEW sc \in finalizers[c], Ends(sc),
         finalizers' = [finalizers EXCEPT ![c] = @ \ {sc}],
         UNCHANGED <<scope, request, before, from>>
  PROVE  ScopeInv'
  <1> USE ScopesAreTyped
  <1>1. /\ sc \in ScopeType /\ Running(sc) /\ sc.msg \in Messages
        /\ from[sc.msg] = c
    BY DEF ScopeInv, ScopeTypes, FinalizersRun, ScopeType
  <1>2. /\ finalizers'[c] = finalizers[c] \ {sc}
        /\ \A d \in Pulled : d # c => finalizers'[d] = finalizers[d]
        /\ finalizers' \in [Pulled -> SUBSET ScopeType]
    BY DEF ScopeInv, ScopeTypes
  <1>3. ScopeTypes'
    BY <1>1, <1>2, EndingFacts DEF ScopeInv, ScopeTypes
  <1>4. InRequest'
    BY <1>1, EndsRequest
  <1>5. HandlersRun'
    <2> SUFFICES ASSUME NEW v \in Workers, NEW other \in ScopeType, other = scope[v]
                 PROVE  Running(other)'
      BY DEF ScopeInv, ScopeTypes, HandlersRun, Running, Dead
    <2>1. Running(other) /\ from[other.msg] \in Pushed
      BY DEF ScopeInv, HandlersRun, Running, Dead
    <2>2. other.msg # sc.msg
      BY <1>1, <2>1, MessagingAssumption
    <2> QED BY <1>1, <2>1, <2>2, EndingFacts
  <1>6. FinalizersRun'
    <2> SUFFICES ASSUME NEW d \in Pulled, NEW other \in finalizers'[d]
                 PROVE  /\ Running(other)' /\ from[other.msg] = d
                        /\ \A more \in finalizers'[d] :
                             more.msg = other.msg => more = other
      BY DEF FinalizersRun
    <2>1. other # sc \/ d # c
      BY <1>2
    <2>2. other \in finalizers[d] /\ finalizers'[d] \subseteq finalizers[d]
      BY <1>2
    <2>3. /\ other \in ScopeType /\ Running(other) /\ from[other.msg] = d
          /\ \A more \in finalizers[d] : more.msg = other.msg => more = other
      BY <2>2 DEF ScopeInv, ScopeTypes, FinalizersRun
    <2>4. other.msg # sc.msg
      BY <1>1, <2>1, <2>2, <2>3 DEF ScopeInv, FinalizersRun
    <2> QED BY <1>1, <2>2, <2>3, <2>4, EndingFacts
  <1>7. SpansHaveScopes'
    <2> SUFFICES ASSUME NEW m \in Messages
                 PROVE  /\ span'[m] \in Recording =>
                             /\ from[m] \in Consumers
                             /\ from[m] \in Pulled =>
                                  \E s \in finalizers'[from[m]] : s.msg = m
                             /\ from[m] \in Pushed =>
                                  \A v \in Workers : ctx'[v] = m => scope[v].msg = m
                        /\ span'[m] = "none" => \A v \in Workers : ctx'[v] # m
      BY DEF SpansHaveScopes
    <2>1. /\ m # sc.msg => span'[m] = span[m]
          /\ m = sc.msg => span'[m] \notin Recording
          /\ span'[m] = "none" <=> span[m] = "none"
          /\ \A v \in Workers : \/ ctx'[v] = ctx[v]
                                \/ ctx[v] = sc.msg /\ ctx'[v] = sc.restores
          /\ m = sc.restores => span[m] = "ended" /\ span'[m] = "ended"
      <3>1. sc.restores = m => Dead(m) /\ Dead(m)'
        BY <1>1, EndingFacts DEF Running
      <3>2. /\ m # sc.msg => span'[m] = span[m]
            /\ m = sc.msg => span'[m] \notin Recording
            /\ span'[m] = "none" <=> span[m] = "none"
        BY <1>1, EndingFacts
      <3>3. m = sc.restores => span[m] = "ended" /\ span'[m] = "ended"
        BY <3>1 DEF Dead
      <3> QED BY <1>1, <3>2, <3>3, EndingFacts
    <2>2. ASSUME span'[m] = "none"
          PROVE  \A v \in Workers : ctx'[v] # m
      BY <2>1, <2>2 DEF ScopeInv, SpansHaveScopes
    <2>3. ASSUME span'[m] \in Recording
          PROVE  m # sc.msg /\ span[m] \in Recording /\ m # sc.restores
      BY <2>1, <2>3 DEF Recording
    <2>4. ASSUME span'[m] \in Recording, from[m] \in Pushed, NEW v \in Workers,
                 ctx'[v] = m
          PROVE  scope[v].msg = m
      <3>1. ctx[v] = m
        BY <1>1, <2>3, <2>4, EndingFacts
      <3> QED BY <2>3, <2>4, <3>1 DEF ScopeInv, SpansHaveScopes
    <2>5. ASSUME span'[m] \in Recording, from[m] \in Pulled
          PROVE  \E s \in finalizers'[from[m]] : s.msg = m
      <3>1. PICK s \in finalizers[from[m]] : s.msg = m
        BY <2>3, <2>5 DEF ScopeInv, SpansHaveScopes
      <3> QED BY <1>2, <2>3, <2>5, <3>1
    <2> QED BY <2>2, <2>3, <2>4, <2>5 DEF ScopeInv, SpansHaveScopes
  <1> QED BY <1>3, <1>4, <1>5, <1>6, <1>7 DEF ScopeInv

(* A message reaches a consumer without a span that goes on. *)
LEMMA MarkKeepsScopes ==
  ASSUME ScopeInv, NEW m \in Messages, NEW c \in Consumers,
         NEW s \in {"none", "null", "ended"}, span[m] = "none",
         from' = [from EXCEPT ![m] = c], span' = [span EXCEPT ![m] = s],
         UNCHANGED <<ctx, scope, request, before, finalizers>>
  PROVE  ScopeInv'
  <1> USE ScopesAreTyped
  <1>1. ScopeTypes'
    BY DEF ScopeInv, ScopeTypes, SpanStates
  <1>2. /\ span'[m] = s /\ from'[m] = c
        /\ \A n \in Messages : n # m => span'[n] = span[n] /\ from'[n] = from[n]
    BY DEF ScopeInv, ScopeTypes
  <1>3. \A x \in Messages \cup {Nobody} : Dead(x) => Dead(x)'
    BY <1>2 DEF Dead
  <1>4. \A sc \in ScopeType : Running(sc) => Running(sc)' /\ sc.msg # m
    BY <1>2, <1>3 DEF Running, ScopeType
  <1>5. InRequest'
    <2> SUFFICES ASSUME NEW w \in Workers, NEW x \in Messages \cup {Nobody},
                        x = before[w]
                 PROVE  Dead(x)'
      BY DEF ScopeInv, ScopeTypes, InRequest, Dead
    <2> QED BY <1>3 DEF ScopeInv, InRequest
  <1>6. HandlersRun'
    <2>1. ASSUME NEW w \in Workers, NEW sc \in ScopeType, sc = scope[w]
          PROVE  Running(sc)' /\ from'[sc.msg] = from[sc.msg]
      <3>1. Running(sc)
        BY <2>1 DEF ScopeInv, HandlersRun, Running, Dead
      <3> QED BY <1>2, <1>4, <3>1 DEF ScopeType
    <2> QED BY <2>1 DEF ScopeInv, ScopeTypes, HandlersRun, Running, Dead
  <1>7. FinalizersRun'
    <2>1. ASSUME NEW d \in Pulled, NEW sc \in finalizers[d]
          PROVE  Running(sc)' /\ from'[sc.msg] = from[sc.msg]
      <3>1. sc \in ScopeType /\ Running(sc)
        BY DEF ScopeInv, ScopeTypes, FinalizersRun
      <3> QED BY <1>2, <1>4, <3>1 DEF ScopeType
    <2> QED BY <2>1 DEF ScopeInv, FinalizersRun
  <1>8. SpansHaveScopes'
    <2>1. s \notin Recording
      BY DEF Recording
    <2> QED BY <1>2, <2>1 DEF ScopeInv, SpansHaveScopes
  <1> QED BY <1>1, <1>5, <1>6, <1>7, <1>8 DEF ScopeInv

(* It may be left current on a worker where nothing was, without a scope.  *)
LEMMA LeftKeepsScopes ==
  ASSUME ScopeInv, NEW w \in Workers, NEW m \in Messages, NEW c \in Consumers,
         NEW s \in {"null", "ended"}, ~Visible(w), span[m] = "none",
         ctx' = [ctx EXCEPT ![w] = m], span' = [span EXCEPT ![m] = s],
         from' = [from EXCEPT ![m] = c],
         UNCHANGED <<scope, request, before, finalizers>>
  PROVE  ScopeInv'
  <1> USE ScopesAreTyped
  <1>1. ScopeTypes'
    BY DEF ScopeInv, ScopeTypes, SpanStates
  <1>2. /\ ctx'[w] = m /\ \A v \in Workers : v # w => ctx'[v] = ctx[v]
        /\ span'[m] = s /\ from'[m] = c
        /\ \A n \in Messages : n # m => span'[n] = span[n] /\ from'[n] = from[n]
    BY DEF ScopeInv, ScopeTypes
  <1>3. \A x \in Messages \cup {Nobody} : Dead(x) => Dead(x)'
    BY <1>2 DEF Dead
  <1>4. ~request[w] /\ \A sc \in ScopeType : Running(sc) => sc.worker # w
    BY InvisibleIsDead
  <1>5. \A sc \in ScopeType : Running(sc) => /\ Running(sc)' /\ sc.msg # m
                                            /\ from'[sc.msg] = from[sc.msg]
    BY <1>2, <1>3, <1>4 DEF Running, ScopeType
  <1>6. InRequest'
    <2>1. \A v \in Workers : request[v] <=> ctx'[v] = App
      BY <1>2, <1>4 DEF ScopeInv, InRequest
    <2>2. ASSUME NEW v \in Workers PROVE Dead(before[v])'
      <3>1. PICK y \in Messages \cup {Nobody} : y = before[v] /\ Dead(y)
        BY DEF ScopeInv, ScopeTypes, InRequest
      <3>2. Dead(y)' /\ before'[v] = y
        BY <1>3, <3>1
      <3> QED BY <3>2 DEF Dead
    <2> QED BY <2>1, <2>2 DEF InRequest
  <1>7. HandlersRun'
    <2>1. ASSUME NEW v \in Workers, NEW sc \in ScopeType, sc = scope[v]
          PROVE  Running(sc)' /\ from'[sc.msg] = from[sc.msg]
      <3>1. Running(sc)
        BY <2>1 DEF ScopeInv, HandlersRun, Running, Dead
      <3> QED BY <1>5, <3>1
    <2> QED BY <2>1 DEF ScopeInv, ScopeTypes, HandlersRun, Running, Dead
  <1>8. FinalizersRun'
    <2>1. ASSUME NEW d \in Pulled, NEW sc \in finalizers[d]
          PROVE  Running(sc)' /\ from'[sc.msg] = from[sc.msg]
      <3>1. sc \in ScopeType /\ Running(sc)
        BY DEF ScopeInv, ScopeTypes, FinalizersRun
      <3> QED BY <1>5, <3>1
    <2> QED BY <2>1 DEF ScopeInv, FinalizersRun
  <1>9. SpansHaveScopes'
    <2>1. s \notin Recording /\ s # "none"
      BY DEF Recording
    <2>2. \A n \in Messages, v \in Workers : n # m /\ ctx'[v] = n => ctx[v] = n
      BY <1>2
    <2> QED BY <1>2, <2>1, <2>2 DEF ScopeInv, SpansHaveScopes
  <1> QED BY <1>1, <1>6, <1>7, <1>8, <1>9 DEF ScopeInv

(* The span of a message that reaches worker w is made current there. *)
Opens(w, m, c, s) ==
  /\ ctx' = [ctx EXCEPT ![w] = m] /\ span' = [span EXCEPT ![m] = s]
  /\ from' = [from EXCEPT ![m] = c]

LEMMA OpeningFacts ==
  ASSUME ScopeInv, NEW w \in Workers, NEW m \in Messages, NEW c \in Consumers,
         NEW s \in {"open", "unsampled", "null"}, ~Visible(w), span[m] = "none",
         Opens(w, m, c, s), UNCHANGED <<request, before>>
  PROVE  /\ ctx' \in [Workers -> Messages \cup {Nobody, App}]
         /\ span' \in [Messages -> SpanStates]
         /\ from' \in [Messages -> Consumers \cup {Nobody}]
         /\ InRequest'
         /\ \E sc \in ScopeType : /\ sc = Scope(m, w, ctx[w]) /\ sc.msg = m
                                  /\ sc.worker = w /\ Running(sc)'
         /\ \A sc \in ScopeType :
              Running(sc) => /\ Running(sc)' /\ sc.msg # m
                             /\ from'[sc.msg] = from[sc.msg]
         /\ \A v \in Workers : v # w => ctx'[v] = ctx[v]
         /\ \A v \in Workers : ctx'[v] = m <=> v = w
         /\ \A n \in Messages : n # m => span'[n] = span[n] /\ from'[n] = from[n]
         /\ span'[m] = s /\ from'[m] = c
  <1> USE ScopesAreTyped
  <1>1. /\ ctx' \in [Workers -> Messages \cup {Nobody, App}]
        /\ span' \in [Messages -> SpanStates]
        /\ from' \in [Messages -> Consumers \cup {Nobody}]
    BY DEF Opens, ScopeInv, ScopeTypes, SpanStates
  <1>2. /\ ctx'[w] = m /\ \A v \in Workers : v # w => ctx'[v] = ctx[v]
        /\ span'[m] = s /\ from'[m] = c
        /\ \A n \in Messages : n # m => span'[n] = span[n] /\ from'[n] = from[n]
    BY DEF Opens, ScopeInv, ScopeTypes
  <1>3. \A x \in Messages \cup {Nobody} : Dead(x) => Dead(x)'
    BY <1>2 DEF Dead
  <1>4. PICK x \in Messages \cup {Nobody} : x = ctx[w] /\ Dead(x)
    BY InvisibleIsDead
  <1>5. /\ ~request[w] /\ \A sc \in ScopeType : Running(sc) => sc.worker # w
    BY InvisibleIsDead
  <1>6. \A sc \in ScopeType :
          Running(sc) => /\ Running(sc)' /\ sc.msg # m
                         /\ from'[sc.msg] = from[sc.msg]
    BY <1>2, <1>3, <1>5 DEF Running, ScopeType
  <1>7. \A v \in Workers : ctx'[v] = m <=> v = w
    BY <1>2 DEF ScopeInv, SpansHaveScopes
  <1>8. PICK own \in ScopeType : own = Scope(m, w, x)
    BY DEF Scope, ScopeType
  <1>9. own.worker = w /\ own.msg = m /\ own.restores = x /\ Running(own)'
    <2>1. own.worker = w /\ own.msg = m /\ own.restores = x
      BY <1>8 DEF Scope
    <2> QED BY <1>2, <1>3, <1>4, <2>1 DEF Running
  <1>10. InRequest'
    <2>1. \A v \in Workers : request[v] <=> ctx'[v] = App
      BY <1>2, <1>5 DEF ScopeInv, InRequest
    <2>2. ASSUME NEW v \in Workers PROVE Dead(before[v])'
      <3>1. PICK y \in Messages \cup {Nobody} : y = before[v] /\ Dead(y)
        BY DEF ScopeInv, ScopeTypes, InRequest
      <3>2. Dead(y)' /\ before'[v] = y
        BY <1>3, <3>1
      <3> QED BY <3>2 DEF Dead
    <2> QED BY <2>1, <2>2 DEF InRequest
  <1> QED BY <1>1, <1>2, <1>4, <1>6, <1>7, <1>8, <1>9, <1>10

LEMMA OpensFinalizer ==
  ASSUME ScopeInv, NEW w \in Workers, NEW m \in Messages, NEW c \in Pulled,
         NEW s \in {"open", "unsampled", "null"}, ~Visible(w), span[m] = "none",
         Opens(w, m, c, s),
         finalizers' = [finalizers EXCEPT ![c] = @ \cup {Scope(m, w, ctx[w])}],
         UNCHANGED <<scope, request, before>>
  PROVE  ScopeInv'
  <1> USE ScopesAreTyped
  <1>1. c \in Consumers
    BY DEF Consumers
  <1>2. PICK sc \in ScopeType :
          sc = Scope(m, w, ctx[w]) /\ sc.msg = m /\ Running(sc)'
    BY <1>1, OpeningFacts
  <1>3. /\ finalizers'[c] = finalizers[c] \cup {sc}
        /\ \A d \in Pulled : d # c => finalizers'[d] = finalizers[d]
        /\ finalizers' \in [Pulled -> SUBSET ScopeType]
    BY <1>2 DEF ScopeInv, ScopeTypes
  <1>4. ScopeTypes' /\ InRequest'
    BY <1>1, <1>3, OpeningFacts DEF ScopeInv, ScopeTypes
  <1>5. HandlersRun'
    <2>1. ASSUME NEW v \in Workers, NEW other \in ScopeType, other = scope[v]
          PROVE  Running(other)' /\ from'[other.msg] = from[other.msg]
      <3>1. Running(other)
        BY <2>1 DEF ScopeInv, HandlersRun, Running, Dead
      <3> QED BY <1>1, <3>1, OpeningFacts
    <2> QED BY <2>1 DEF ScopeInv, ScopeTypes, HandlersRun, Running, Dead
  <1>6. FinalizersRun'
    <2>1. ASSUME NEW d \in Pulled, NEW other \in finalizers[d]
          PROVE  /\ Running(other)' /\ from'[other.msg] = d /\ other.msg # m
                 /\ \A more \in finalizers[d] : more.msg = other.msg => more = other
      <3>1. /\ other \in ScopeType /\ Running(other) /\ from[other.msg] = d
            /\ \A more \in finalizers[d] : more.msg = other.msg => more = other
        BY DEF ScopeInv, ScopeTypes, FinalizersRun
      <3> QED BY <1>1, <3>1, OpeningFacts
    <2>2. from'[m] = c
      BY <1>1, OpeningFacts
    <2>3. ASSUME NEW d \in Pulled, NEW other \in finalizers'[d]
          PROVE  /\ Running(other)' /\ from'[other.msg] = d
                 /\ \A more \in finalizers'[d] : more.msg = other.msg => more = other
      <3>1. CASE other \in finalizers[d]
        BY <1>2, <1>3, <2>1, <3>1
      <3>2. CASE other \notin finalizers[d]
        <4>1. d = c /\ other = sc
          BY <1>3, <3>2
        <4> QED BY <1>2, <1>3, <2>1, <2>2, <4>1
      <3> QED BY <3>1, <3>2
    <2> QED BY <2>3 DEF FinalizersRun
  <1>7. SpansHaveScopes'
    <2>1. /\ \A v \in Workers : v # w => ctx'[v] = ctx[v]
          /\ \A v \in Workers : ctx'[v] = m <=> v = w
          /\ \A n \in Messages : n # m => span'[n] = span[n] /\ from'[n] = from[n]
          /\ span'[m] = s /\ from'[m] = c /\ s # "none" /\ c \notin Pushed
      BY <1>1, OpeningFacts, MessagingAssumption
    <2>2. ASSUME NEW n \in Messages, n # m
          PROVE  /\ span'[n] \in Recording =>
                      /\ from'[n] \in Consumers
                      /\ from'[n] \in Pulled =>
                           \E x \in finalizers'[from'[n]] : x.msg = n
                      /\ from'[n] \in Pushed =>
                           \A v \in Workers : ctx'[v] = n => scope[v].msg = n
                 /\ span'[n] = "none" => \A v \in Workers : ctx'[v] # n
      <3>1. /\ span'[n] = span[n] /\ from'[n] = from[n]
            /\ \A v \in Workers : ctx'[v] = n => ctx[v] = n
        BY <2>1, <2>2
      <3>2. \A d \in Pulled : finalizers[d] \subseteq finalizers'[d]
        BY <1>3
      <3> QED BY <3>1, <3>2 DEF ScopeInv, SpansHaveScopes
    <2>3. /\ from'[m] \in Pulled /\ from'[m] \in Consumers /\ from'[m] \notin Pushed
          /\ \E x \in finalizers'[from'[m]] : x.msg = m
          /\ span'[m] # "none"
      BY <1>1, <1>2, <1>3, <2>1
    <2> QED BY <2>2, <2>3 DEF SpansHaveScopes
  <1> QED BY <1>4, <1>5, <1>6, <1>7 DEF ScopeInv

LEMMA OpensHandler ==
  ASSUME ScopeInv, NEW w \in Workers, NEW m \in Messages, NEW c \in Pushed,
         NEW s \in {"open", "unsampled", "null"}, ~Visible(w), span[m] = "none",
         Opens(w, m, c, s),
         scope' = [scope EXCEPT ![w] = Scope(m, w, ctx[w])],
         UNCHANGED <<finalizers, request, before>>
  PROVE  ScopeInv'
  <1> USE ScopesAreTyped
  <1>1. c \in Consumers /\ c \notin Pulled
    BY MessagingAssumption DEF Consumers
  <1>2. PICK sc \in ScopeType : /\ sc = Scope(m, w, ctx[w]) /\ sc.msg = m
                                /\ sc.worker = w /\ Running(sc)'
    BY <1>1, OpeningFacts
  <1>3. /\ scope'[w] = sc /\ sc # NoScope
        /\ \A v \in Workers : v # w => scope'[v] = scope[v]
        /\ scope' \in [Workers -> ScopeType \cup {NoScope}]
    BY <1>2 DEF ScopeInv, ScopeTypes
  <1>4. ScopeTypes' /\ InRequest'
    BY <1>1, <1>3, OpeningFacts DEF ScopeInv, ScopeTypes
  <1>5. /\ \A v \in Workers : v # w => ctx'[v] = ctx[v]
        /\ \A v \in Workers : ctx'[v] = m <=> v = w
        /\ \A n \in Messages : n # m => span'[n] = span[n] /\ from'[n] = from[n]
        /\ span'[m] = s /\ from'[m] = c /\ s # "none" /\ scope[w] = NoScope
    BY <1>1, OpeningFacts, InvisibleIsDead
  <1>6. HandlersRun'
    <2>1. ASSUME NEW v \in Workers, v # w, NEW other \in ScopeType, other = scope[v]
          PROVE  /\ Running(other)' /\ from'[other.msg] = from[other.msg]
                 /\ other.msg # m
      <3>1. Running(other)
        BY <2>1 DEF ScopeInv, HandlersRun, Running, Dead
      <3> QED BY <1>1, <3>1, OpeningFacts
    <2>2. Running(scope[w])'
      BY <1>2, <1>3 DEF Running, Dead
    <2>3. ASSUME NEW v \in Workers, scope'[v] # NoScope
          PROVE  /\ scope'[v].worker = v /\ Running(scope[v])'
                 /\ from'[scope'[v].msg] \in Pushed
      <3>1. CASE v = w
        BY <1>2, <1>3, <1>5, <2>2, <3>1
      <3>2. CASE v # w
        <4>1. PICK other \in ScopeType : other = scope[v] /\ other = scope'[v]
          BY <1>3, <2>3, <3>2 DEF ScopeInv, ScopeTypes
        <4>2. Running(other)' /\ from'[other.msg] = from[other.msg]
          BY <2>1, <3>2, <4>1
        <4>3. other.worker = v /\ from[other.msg] \in Pushed
          <5>1. scope[v] # NoScope /\ HandlersRun
            BY <2>3, <4>1 DEF ScopeInv
          <5>2. scope[v].worker = v /\ from[scope[v].msg] \in Pushed
            BY <5>1 DEF HandlersRun
          <5> QED BY <4>1, <5>2
        <4>4. Running(scope[v])'
          BY <4>1, <4>2 DEF Running, Dead
        <4> QED BY <4>1, <4>2, <4>3, <4>4
      <3> QED BY <3>1, <3>2
    <2>4. ASSUME NEW v \in Workers, NEW u \in Workers, scope'[v] # NoScope,
                 scope'[u] # NoScope, scope'[v].msg = scope'[u].msg
          PROVE  v = u
      <3>1. \A x \in Workers : x # w /\ scope[x] # NoScope => scope[x].msg # m
        BY <2>1 DEF ScopeInv, ScopeTypes
      <3> QED BY <1>2, <1>3, <2>4, <3>1 DEF ScopeInv, HandlersRun
    <2> QED BY <2>3, <2>4 DEF HandlersRun
  <1>7. FinalizersRun'
    <2>1. ASSUME NEW d \in Pulled, NEW other \in finalizers[d]
          PROVE  Running(other)' /\ from'[other.msg] = from[other.msg]
      <3>1. other \in ScopeType /\ Running(other)
        BY DEF ScopeInv, ScopeTypes, FinalizersRun
      <3> QED BY <1>1, <3>1, OpeningFacts
    <2> QED BY <2>1 DEF ScopeInv, FinalizersRun
  <1>8. SpansHaveScopes'
    <2>1. ASSUME NEW n \in Messages, n # m
          PROVE  /\ span'[n] \in Recording =>
                      /\ from'[n] \in Consumers
                      /\ from'[n] \in Pulled =>
                           \E x \in finalizers[from'[n]] : x.msg = n
                      /\ from'[n] \in Pushed =>
                           \A v \in Workers : ctx'[v] = n => scope'[v].msg = n
                 /\ span'[n] = "none" => \A v \in Workers : ctx'[v] # n
      BY <1>3, <1>5, <2>1 DEF ScopeInv, SpansHaveScopes
    <2>2. /\ from'[m] \notin Pulled /\ from'[m] \in Consumers /\ span'[m] # "none"
          /\ \A v \in Workers : ctx'[v] = m => scope'[v].msg = m
      BY <1>1, <1>2, <1>3, <1>5
    <2> QED BY <2>1, <2>2 DEF SpansHaveScopes
  <1> QED BY <1>4, <1>6, <1>7, <1>8 DEF ScopeInv

-----------------------------------------------------------------------------
(* Workers and consumers *)

(* A message has no span before it reaches the user, and one at most then. *)
Counted ==
  /\ opened \in [Messages -> 0..1]
  /\ \A m \in Messages :
       place[m] # "taken" => opened[m] = 0 /\ span[m] = "none" /\ from[m] = Nobody

(* A worker has a handler's scope only while it handles. *)
Idle == \A w \in Workers : at[w] \in {"free", "fetching"}
                            \/ (at[w] = "sending" /\ outer[w] = Nobody)
                              => scope[w] = NoScope

(* The scope that a consumer holds has its finalizer alive. *)
HeldInv ==
  /\ held \in [Pulled -> ScopeType \cup {NoScope}]
  /\ life \in [Consumers -> {"live", "closed", "dropped", "collected"}]
  /\ \A c \in Pulled : life[c] = "live" => held[c] = NoScope \/ held[c] \in finalizers[c]
  /\ \A w \in Workers : at[w] = "fetching" => life[with[w]] = "live"
  /\ enabled \in BOOLEAN

(* Nobody else fetches from a consumer that is not shared, so its one      *)
(* scope is the one that it holds, and is closed before it waits.          *)
OwnConsumers ==
  \A c \in Pulled :
    /\ life[c] = "collected" => finalizers[c] = {}
    /\ c \notin Shared =>
         /\ life[c] \in {"live", "closed"} => finalizers[c] \subseteq {held[c]}
         /\ \A w \in Workers :
              at[w] = "fetching" /\ with[w] = c => finalizers[c] = {}
         /\ \A w, v \in Workers :
              /\ at[w] = "fetching" /\ at[v] = "fetching"
              /\ with[w] = c /\ with[v] = c
              => w = v

RestInv == Counted /\ Idle /\ HeldInv /\ OwnConsumers

MessagingInv == WireInv /\ ScopeInv /\ RestInv

RestVars == <<place, opened, span, from, at, outer, with, scope, held, life,
              finalizers>>

LEMMA NothingToTheRest ==
  ASSUME RestInv, UNCHANGED RestVars, enabled' \in BOOLEAN
  PROVE  RestInv'
  <1>1. Counted' /\ Idle'
    BY DEF RestInv, RestVars, Counted, Idle
  <1>2. HeldInv'
    BY DEF RestInv, RestVars, HeldInv
  <1>3. OwnConsumers'
    BY DEF RestInv, RestVars, OwnConsumers
  <1> QED BY <1>1, <1>2, <1>3 DEF RestInv

LEMMA RequestsKeep ==
  ASSUME MessagingInv, NEW w \in Workers, EnterRequest(w) \/ LeaveRequest(w)
  PROVE  MessagingInv'
  <1>1. UNCHANGED WireVars /\ UNCHANGED RestVars /\ enabled' = enabled
    BY DEF EnterRequest, LeaveRequest, WireVars, RestVars, consumers, messages
  <1>2. WireInv' /\ RestInv'
    BY <1>1, NothingOnTheWire, NothingToTheRest DEF MessagingInv, RestInv, HeldInv
  <1>3. ScopeInv'
    BY EnterKeepsScopes, LeaveKeepsScopes DEF MessagingInv
  <1> QED BY <1>2, <1>3 DEF MessagingInv

LEMMA DisableKeeps ==
  ASSUME MessagingInv, Disable
  PROVE  MessagingInv'
  <1>1. /\ UNCHANGED WireVars /\ UNCHANGED ScopeVars /\ UNCHANGED RestVars
        /\ enabled' \in BOOLEAN
    BY DEF Disable, WireVars, ScopeVars, RestVars, workers, consumers, messages
  <1> QED BY <1>1, NothingOnTheWire, NothingToScopes, NothingToTheRest DEF MessagingInv

LEMMA ArriveKeeps ==
  ASSUME MessagingInv, NEW m \in Messages, Arrive(m) \/ Buffer(m)
  PROVE  MessagingInv'
  <1>1. WireInv'
    BY ArriveKeepsWire, BufferKeepsWire DEF MessagingInv
  <1>2. ~TracesPlumbing
    BY DEF TracesPlumbing, BasicConsumeWraps, QueueConsumeWraps, PollTraces
  <1>3. /\ UNCHANGED <<workers, consumers, from, span, opened, enabled>>
        /\ \E p \in {"wire", "buffered"} : place' = [place EXCEPT ![m] = p]
        /\ place[m] # "taken"
    BY <1>2 DEF Arrive, Buffer
  <1>4. ScopeInv'
    BY <1>3, NothingToScopes DEF MessagingInv, ScopeVars, workers, consumers
  <1>5. Counted'
    <2>1. \A n \in Messages : place'[n] = "taken" <=> place[n] = "taken"
      BY <1>3 DEF MessagingInv, WireInv, WireTypes
    <2> QED BY <1>3, <2>1 DEF MessagingInv, RestInv, Counted
  <1>6. Idle' /\ HeldInv' /\ OwnConsumers'
    BY <1>3 DEF MessagingInv, RestInv, Idle, HeldInv, OwnConsumers, workers, consumers
  <1> QED BY <1>1, <1>4, <1>5, <1>6 DEF MessagingInv, RestInv

LEMMA PrepareKeeps ==
  ASSUME MessagingInv, NEW w \in Workers, NEW m \in Messages, NEW o \in Objects,
         NEW p \in Publishers, Prepare(w, m, o, p)
  PROVE  MessagingInv'
  <1>1. WireInv'
    BY PrepareKeepsWire DEF MessagingInv
  <1>2. /\ at[w] \in {"free", "handling"}
        /\ at' = [at EXCEPT ![w] = "sending"] /\ with' = [with EXCEPT ![w] = m]
        /\ outer' = [outer EXCEPT ![w] = with[w]]
        /\ UNCHANGED <<ctx, scope, request, before, consumers, place, from, span,
                      opened, enabled>>
    BY DEF Prepare
  <1>3. /\ at'[w] = "sending" /\ outer'[w] = with[w]
        /\ \A v \in Workers : v # w => /\ at'[v] = at[v] /\ with'[v] = with[v]
                                       /\ outer'[v] = outer[v]
    BY <1>2 DEF MessagingInv, WireInv, WireTypes
  <1>4. ScopeInv'
    BY <1>2, NothingToScopes DEF MessagingInv, ScopeVars, consumers
  <1>5. Counted'
    BY <1>2 DEF MessagingInv, RestInv, Counted
  <1>6. Idle'
    <2>1. at[w] = "handling" => with[w] # Nobody
      BY ScopesAreTyped DEF MessagingInv, WireInv, SendingInv
    <2> QED BY <1>2, <1>3, <2>1 DEF MessagingInv, RestInv, Idle
  <1>7. HeldInv' /\ OwnConsumers'
    BY <1>2, <1>3 DEF MessagingInv, RestInv, HeldInv, OwnConsumers, consumers
  <1> QED BY <1>1, <1>4, <1>5, <1>6, <1>7 DEF MessagingInv, RestInv

LEMMA SendKeeps ==
  ASSUME MessagingInv, NEW w \in Workers, Send(w)
  PROVE  MessagingInv'
  <1>1. WireInv'
    BY SendKeepsWire DEF MessagingInv
  <1>2. /\ at[w] = "sending"
        /\ at' = [at EXCEPT ![w] = IF outer[w] = Nobody THEN "free" ELSE "handling"]
        /\ with' = [with EXCEPT ![w] = outer[w]]
        /\ outer' = [outer EXCEPT ![w] = Nobody]
        /\ \E p \in {"wire", "lost"} : place' = [place EXCEPT ![with[w]] = p]
        /\ UNCHANGED <<ctx, scope, request, before, consumers, from, span, opened,
                      enabled>>
    BY DEF Send
  <1>3. /\ at'[w] = IF outer[w] = Nobody THEN "free" ELSE "handling"
        /\ \A v \in Workers : v # w => /\ at'[v] = at[v] /\ with'[v] = with[v]
                                       /\ outer'[v] = outer[v]
    BY <1>2 DEF MessagingInv, WireInv, WireTypes
  <1>4. ScopeInv'
    BY <1>2, NothingToScopes DEF MessagingInv, ScopeVars, consumers
  <1>5. Counted'
    <2>1. with[w] \in Messages /\ place[with[w]] = "new"
      BY <1>2 DEF MessagingInv, WireInv, SendingInv
    <2>2. \A n \in Messages : place'[n] = "taken" <=> place[n] = "taken"
      BY <1>2, <2>1 DEF MessagingInv, WireInv, WireTypes
    <2> QED BY <1>2, <2>2 DEF MessagingInv, RestInv, Counted
  <1>6. Idle'
    BY <1>2, <1>3 DEF MessagingInv, RestInv, Idle
  <1>7. HeldInv' /\ OwnConsumers'
    BY <1>2, <1>3 DEF MessagingInv, RestInv, HeldInv, OwnConsumers, consumers
  <1> QED BY <1>1, <1>4, <1>5, <1>6, <1>7 DEF MessagingInv, RestInv

(* Closing the scope of a consumer leaves nothing that it held. *)
LEMMA ConsumerCloses ==
  ASSUME MessagingInv, NEW w \in Workers, NEW c \in Pulled, life[c] = "live",
         CloseConsumerScope(w, c), UNCHANGED <<scope, request, before, from>>
  PROVE  /\ ScopeInv'
         /\ held' = [held EXCEPT ![c] = NoScope]
         /\ finalizers'[c] = finalizers[c] \ {held[c]}
         /\ \A d \in Pulled : d # c => finalizers'[d] = finalizers[d]
         /\ \A m \in Messages : span[m] = "none" => span'[m] = "none"
  <1> USE ScopesAreTyped
  <1>1. /\ held' = [held EXCEPT ![c] = NoScope]
        /\ finalizers' = [finalizers EXCEPT ![c] = @ \ {held[c]}]
        /\ CloseSpanScope(w, held[c])
    BY DEF CloseConsumerScope, TakenScope
  <1>2. /\ finalizers'[c] = finalizers[c] \ {held[c]}
        /\ \A d \in Pulled : d # c => finalizers'[d] = finalizers[d]
    BY <1>1 DEF MessagingInv, ScopeInv, ScopeTypes
  <1>3. CASE held[c] = NoScope
    <2>1. ctx' = ctx /\ span' = span
      BY <1>1, <1>3 DEF CloseSpanScope
    <2>2. finalizers' = finalizers
      BY <1>1, <1>3 DEF MessagingInv, ScopeInv, ScopeTypes
    <2> QED BY <1>1, <1>2, <2>1, <2>2, NothingToScopes DEF ScopeVars, MessagingInv
  <1>4. CASE held[c] # NoScope
    <2>1. PICK sc \in finalizers[c] : sc = held[c]
      BY <1>4 DEF MessagingInv, RestInv, HeldInv
    <2>2. sc \in ScopeType /\ Running(sc)
      BY DEF MessagingInv, ScopeInv, ScopeTypes, FinalizersRun
    <2>3. Ends(sc)
      BY <1>1, <2>1, <2>2, ClosingEnds DEF MessagingInv
    <2>4. finalizers' = [finalizers EXCEPT ![c] = @ \ {sc}]
      BY <1>1, <2>1
    <2>5. ScopeInv'
      BY <2>3, <2>4, EndsFinalizer DEF MessagingInv
    <2>6. \A m \in Messages : span[m] = "none" => span'[m] = "none"
      BY <2>2, <2>3, EndingFacts DEF MessagingInv
    <2> QED BY <1>1, <1>2, <2>5, <2>6
  <1> QED BY <1>3, <1>4

LEMMA FetchKeeps ==
  ASSUME MessagingInv, NEW w \in Workers, NEW c \in Pulled, NEW s, Fetch(w, c, s)
  PROVE  MessagingInv'
  <1> USE ScopesAreTyped
  <1>1. /\ at[w] = "free" /\ life[c] = "live"
        /\ c \in Shared \/ (\A v \in Workers : at[v] = "fetching" => with[v] # c)
        /\ at' = [at EXCEPT ![w] = "fetching"] /\ with' = [with EXCEPT ![w] = c]
        /\ UNCHANGED <<outer, scope, request, before, event, life, place, from,
                      opened, header, carrier, sent, enabled>>
    BY DEF Fetch, MayFetch
  <1>2. /\ ScopeInv' /\ held' = [held EXCEPT ![c] = NoScope]
        /\ finalizers'[c] = finalizers[c] \ {held[c]}
        /\ \A d \in Pulled : d # c => finalizers'[d] = finalizers[d]
        /\ \A m \in Messages : span[m] = "none" => span'[m] = "none"
    <2>1. CASE CloseConsumerScope(w, c)
      BY <1>1, <2>1, ConsumerCloses
    <2>2. CASE held[c] = NoScope /\ UNCHANGED <<ctx, span, held, finalizers>>
      <3>1. ScopeInv'
        BY <1>1, <2>2, NothingToScopes DEF ScopeVars, MessagingInv
      <3>2. held' = [held EXCEPT ![c] = NoScope]
        BY <2>2 DEF MessagingInv, RestInv, HeldInv
      <3>3. finalizers[c] = finalizers[c] \ {held[c]}
        BY <2>2 DEF MessagingInv, ScopeInv, ScopeTypes
      <3> QED BY <2>2, <3>1, <3>2, <3>3
    <2> QED BY <2>1, <2>2 DEF Fetch
  <1>3. /\ at'[w] = "fetching" /\ with'[w] = c /\ held'[c] = NoScope
        /\ \A v \in Workers : v # w => at'[v] = at[v] /\ with'[v] = with[v]
        /\ \A d \in Pulled : d # c => held'[d] = held[d]
        /\ held' \in [Pulled -> ScopeType \cup {NoScope}]
    BY <1>1, <1>2 DEF MessagingInv, WireInv, WireTypes, RestInv, HeldInv
  <1>4. WireInv'
    <2>1. Moves(w)
      BY <1>1, <1>3 DEF Moves, MessagingInv, WireInv, WireTypes
    <2> QED BY <1>1, <2>1, MovingKeepsWire DEF MessagingInv
  <1>5. Counted'
    BY <1>1, <1>2 DEF MessagingInv, RestInv, Counted
  <1>6. Idle'
    BY <1>1, <1>3 DEF MessagingInv, RestInv, Idle
  <1>7. HeldInv'
    BY <1>1, <1>2, <1>3 DEF MessagingInv, RestInv, HeldInv
  <1>8. OwnConsumers'
    <2>1. c \notin Shared => finalizers'[c] = {}
      BY <1>1, <1>2 DEF MessagingInv, RestInv, OwnConsumers
    <2>2. ASSUME NEW d \in Pulled, d # c
          PROVE  /\ finalizers'[d] = finalizers[d] /\ held'[d] = held[d]
                 /\ \A v \in Workers : at'[v] = "fetching" /\ with'[v] = d =>
                                       at[v] = "fetching" /\ with[v] = d
      BY <1>1, <1>2, <1>3, <2>2
    <2>3. c \notin Shared => \A v \in Workers : at'[v] = "fetching" /\ with'[v] = c
                                                => v = w
      BY <1>1, <1>3
    <2> QED BY <1>1, <2>1, <2>2, <2>3 DEF MessagingInv, RestInv, OwnConsumers
  <1> QED BY <1>2, <1>4, <1>5, <1>6, <1>7, <1>8 DEF MessagingInv, RestInv

LEMMA CloseKeeps ==
  ASSUME MessagingInv, NEW w \in Workers, NEW c \in Pulled, Close(w, c)
  PROVE  MessagingInv'
  <1> USE ScopesAreTyped
  <1>1. /\ life[c] = "live" /\ \A v \in Workers : with[v] # c
        /\ CloseConsumerScope(w, c) /\ life' = [life EXCEPT ![c] = "closed"]
        /\ UNCHANGED <<at, with, outer, scope, request, before, event, place, from,
                      opened, header, carrier, sent, enabled>>
    BY DEF Close
  <1>2. /\ ScopeInv' /\ held' = [held EXCEPT ![c] = NoScope]
        /\ finalizers'[c] = finalizers[c] \ {held[c]}
        /\ \A d \in Pulled : d # c => finalizers'[d] = finalizers[d]
        /\ \A m \in Messages : span[m] = "none" => span'[m] = "none"
    BY <1>1, ConsumerCloses
  <1>3. WireInv'
    BY <1>1, NothingOnTheWire DEF MessagingInv, WireVars
  <1>4. Counted' /\ Idle'
    BY <1>1, <1>2 DEF MessagingInv, RestInv, Counted, Idle
  <1>5. /\ life'[c] = "closed" /\ \A d \in Consumers : d # c => life'[d] = life[d]
        /\ life' \in [Consumers -> {"live", "closed", "dropped", "collected"}]
        /\ held' \in [Pulled -> ScopeType \cup {NoScope}]
        /\ held'[c] = NoScope /\ \A d \in Pulled : d # c => held'[d] = held[d]
    BY <1>1, <1>2 DEF MessagingInv, RestInv, HeldInv, Consumers
  <1>6. \A v \in Workers : at[v] = "fetching" =>
                           with[v] \in Pulled /\ with[v] # c /\ life'[with[v]] = "live"
    BY <1>1, <1>5 DEF MessagingInv, WireInv, SendingInv, RestInv, HeldInv, Consumers
  <1>7. HeldInv'
    BY <1>1, <1>2, <1>5, <1>6 DEF MessagingInv, RestInv, HeldInv, Consumers
  <1>8. OwnConsumers'
    <2>1. ASSUME NEW d \in Pulled, d # c
          PROVE  life'[d] = life[d] /\ finalizers'[d] = finalizers[d] /\ held'[d] = held[d]
      BY <1>2, <1>5, <2>1 DEF Consumers
    <2>2. c \notin Shared => finalizers'[c] = {}
      BY <1>1, <1>2 DEF MessagingInv, RestInv, OwnConsumers
    <2> QED BY <1>1, <1>5, <2>1, <2>2 DEF MessagingInv, RestInv, OwnConsumers
  <1> QED BY <1>2, <1>3, <1>4, <1>7, <1>8 DEF MessagingInv, RestInv

LEMMA DropKeeps ==
  ASSUME MessagingInv, NEW c \in Pulled, Drop(c)
  PROVE  MessagingInv'
  <1>1. /\ life[c] \in {"live", "closed"} /\ \A v \in Workers : with[v] # c
        /\ life' = [life EXCEPT ![c] = "dropped"]
        /\ UNCHANGED <<workers, held, finalizers, messages, enabled>>
    BY DEF Drop
  <1>2. WireInv' /\ ScopeInv'
    BY <1>1, NothingOnTheWire, NothingToScopes
    DEF MessagingInv, WireVars, ScopeVars, workers, messages
  <1>3. Counted' /\ Idle'
    BY <1>1 DEF MessagingInv, RestInv, Counted, Idle, workers, messages
  <1>4. /\ life'[c] = "dropped" /\ \A d \in Consumers : d # c => life'[d] = life[d]
        /\ life' \in [Consumers -> {"live", "closed", "dropped", "collected"}]
    BY <1>1 DEF MessagingInv, RestInv, HeldInv, Consumers
  <1>5. \A v \in Workers : at[v] = "fetching" =>
                           with[v] \in Pulled /\ with[v] # c /\ life'[with[v]] = "live"
    BY <1>1, <1>4 DEF MessagingInv, WireInv, SendingInv, RestInv, HeldInv, Consumers
  <1>6. HeldInv'
    BY <1>1, <1>4, <1>5 DEF MessagingInv, RestInv, HeldInv, Consumers, workers
  <1>7. OwnConsumers'
    BY <1>1, <1>4 DEF MessagingInv, RestInv, OwnConsumers, Consumers, workers
  <1> QED BY <1>2, <1>3, <1>6, <1>7 DEF MessagingInv, RestInv

LEMMA CollectKeeps ==
  ASSUME MessagingInv, NEW w \in Workers, NEW c \in Pulled, Collect(w, c)
  PROVE  MessagingInv'
  <1>1. /\ life[c] = "dropped"
        /\ UNCHANGED <<at, with, outer, scope, request, before, event, held, place,
                      from, opened, header, carrier, sent, enabled>>
    BY DEF Collect
  <1>2. WireInv'
    BY <1>1, NothingOnTheWire DEF MessagingInv, WireVars
  <1>3. \A v \in Workers : at[v] = "fetching" => with[v] \in Pulled /\ with[v] # c
    BY <1>1 DEF MessagingInv, WireInv, SendingInv, RestInv, HeldInv
  <1>4. CASE /\ finalizers[c] = {} /\ life' = [life EXCEPT ![c] = "collected"]
             /\ UNCHANGED <<ctx, span, finalizers>>
    <2>1. ScopeInv'
      BY <1>1, <1>4, NothingToScopes DEF MessagingInv, ScopeVars
    <2>2. Counted' /\ Idle'
      BY <1>1, <1>4 DEF MessagingInv, RestInv, Counted, Idle
    <2>3. /\ life'[c] = "collected" /\ \A d \in Consumers : d # c => life'[d] = life[d]
          /\ life' \in [Consumers -> {"live", "closed", "dropped", "collected"}]
      BY <1>4 DEF MessagingInv, RestInv, HeldInv, Consumers
    <2>4. HeldInv' /\ OwnConsumers'
      BY <1>1, <1>3, <1>4, <2>3
      DEF MessagingInv, RestInv, HeldInv, OwnConsumers, Consumers
    <2> QED BY <1>2, <2>1, <2>2, <2>4 DEF MessagingInv, RestInv
  <1>5. ASSUME NEW sc \in finalizers[c], CloseSpanScope(w, sc), life' = life,
               finalizers' = [finalizers EXCEPT ![c] = @ \ {sc}]
        PROVE  MessagingInv'
    <2>1. sc \in ScopeType /\ Running(sc)
      BY DEF MessagingInv, ScopeInv, ScopeTypes, FinalizersRun
    <2>2. Ends(sc)
      BY <1>5, <2>1, ClosingEnds DEF MessagingInv
    <2>3. ScopeInv'
      BY <1>1, <1>5, <2>2, EndsFinalizer DEF MessagingInv
    <2>4. \A m \in Messages : span[m] = "none" => span'[m] = "none"
      BY <2>1, <2>2, EndingFacts DEF MessagingInv
    <2>5. Counted' /\ Idle'
      BY <1>1, <2>4 DEF MessagingInv, RestInv, Counted, Idle
    <2>6. /\ finalizers'[c] \subseteq finalizers[c]
          /\ \A d \in Pulled : d # c => finalizers'[d] = finalizers[d]
      BY <1>5 DEF MessagingInv, ScopeInv, ScopeTypes
    <2>7. HeldInv'
      BY <1>1, <1>5, <2>6 DEF MessagingInv, RestInv, HeldInv
    <2>8. OwnConsumers'
      BY <1>1, <1>5, <2>6 DEF MessagingInv, RestInv, OwnConsumers
    <2> QED BY <1>2, <2>3, <2>5, <2>7, <2>8 DEF MessagingInv, RestInv
  <1> QED BY <1>4, <1>5 DEF Collect

(* Returns ends a fetch or a handler. *)
LEMMA ReturningMoves ==
  ASSUME MessagingInv, NEW w \in Workers, at[w] # "sending", Returns(w),
         UNCHANGED <<outer, event>>
  PROVE  /\ Moves(w) /\ at'[w] = "free" /\ with'[w] = Nobody
         /\ \A v \in Workers : v # w => at'[v] = at[v] /\ with'[v] = with[v]
  BY DEF Returns, Moves, MessagingInv, WireInv, WireTypes

LEMMA FetchEndsKeeps ==
  ASSUME MessagingInv, NEW w \in Workers, FetchEnds(w)
  PROVE  MessagingInv'
  <1>1. /\ at[w] = "fetching" /\ Returns(w)
        /\ UNCHANGED <<ctx, outer, scope, request, before, event, consumers,
                      messages, enabled>>
    BY DEF FetchEnds
  <1>2. /\ Moves(w) /\ at'[w] = "free" /\ with'[w] = Nobody
        /\ \A v \in Workers : v # w => at'[v] = at[v] /\ with'[v] = with[v]
    BY <1>1, ReturningMoves
  <1>3. WireInv' /\ ScopeInv'
    BY <1>1, <1>2, MovingKeepsWire, NothingToScopes
    DEF MessagingInv, ScopeVars, consumers, messages
  <1>4. Counted' /\ Idle'
    BY <1>1, <1>2 DEF MessagingInv, RestInv, Counted, Idle, messages
  <1>5. HeldInv' /\ OwnConsumers'
    BY <1>1, <1>2 DEF MessagingInv, RestInv, HeldInv, OwnConsumers, consumers
  <1> QED BY <1>3, <1>4, <1>5 DEF MessagingInv, RestInv

LEMMA HandlerEndsKeeps ==
  ASSUME MessagingInv, NEW w \in Workers, HandlerEnds(w)
  PROVE  MessagingInv'
  <1> USE ScopesAreTyped
  <1>1. /\ at[w] = "handling" /\ Returns(w) /\ CloseSpanScope(w, scope[w])
        /\ scope' = [scope EXCEPT ![w] = NoScope]
        /\ UNCHANGED <<outer, request, before, event, consumers, place, from,
                      opened, header, carrier, sent, enabled>>
    BY DEF HandlerEnds
  <1>2. /\ Moves(w) /\ at'[w] = "free" /\ with'[w] = Nobody
        /\ \A v \in Workers : v # w => at'[v] = at[v] /\ with'[v] = with[v]
    BY <1>1, ReturningMoves
  <1>3. WireInv'
    BY <1>1, <1>2, MovingKeepsWire DEF MessagingInv
  <1>4. /\ ScopeInv'
        /\ \A m \in Messages : span[m] = "none" => span'[m] = "none"
    <2>1. CASE scope[w] = NoScope
      <3>1. ctx' = ctx /\ span' = span
        BY <1>1, <2>1 DEF CloseSpanScope
      <3>2. scope' = scope
        BY <1>1, <2>1 DEF MessagingInv, ScopeInv, ScopeTypes
      <3> QED BY <1>1, <3>1, <3>2, NothingToScopes DEF ScopeVars, MessagingInv, consumers
    <2>2. CASE scope[w] # NoScope
      <3>1. PICK sc \in ScopeType : sc = scope[w]
        BY <2>2 DEF MessagingInv, ScopeInv, ScopeTypes
      <3>2. Running(sc)
        BY <3>1 DEF MessagingInv, ScopeInv, HandlersRun, Running, Dead
      <3>3. Ends(sc)
        BY <1>1, <3>1, <3>2, ClosingEnds DEF MessagingInv
      <3>4. ScopeInv'
        BY <1>1, <3>1, <3>3, EndsHandler DEF MessagingInv, consumers
      <3>5. \A m \in Messages : span[m] = "none" => span'[m] = "none"
        BY <3>2, <3>3, EndingFacts DEF MessagingInv
      <3> QED BY <3>4, <3>5
    <2> QED BY <2>1, <2>2
  <1>5. Counted'
    BY <1>1, <1>4 DEF MessagingInv, RestInv, Counted
  <1>6. Idle'
    <2>1. scope'[w] = NoScope /\ \A v \in Workers : v # w => scope'[v] = scope[v]
      BY <1>1 DEF MessagingInv, ScopeInv, ScopeTypes
    <2> QED BY <1>1, <1>2, <2>1 DEF MessagingInv, RestInv, Idle
  <1>7. HeldInv' /\ OwnConsumers'
    BY <1>1, <1>2 DEF MessagingInv, RestInv, HeldInv, OwnConsumers, consumers
  <1> QED BY <1>3, <1>4, <1>5, <1>6, <1>7 DEF MessagingInv, RestInv

(* A message that is taken had no span yet, and gets one at most. *)
LEMMA NewlyTaken ==
  ASSUME MessagingInv, NEW m \in Messages, NEW c, Takes(c, m)
  PROVE  span[m] = "none" /\ opened[m] = 0 /\ from' = [from EXCEPT ![m] = c]
  BY DEF Takes, MessagingInv, RestInv, Counted

LEMMA TakingCounts ==
  ASSUME MessagingInv, NEW m \in Messages, NEW c, Takes(c, m),
         opened' = opened \/ Count(m), NEW s,
         span' = span \/ span' = [span EXCEPT ![m] = s]
  PROVE  Counted'
  <1>1. \A n \in Messages : n # m => /\ place'[n] = place[n] /\ span'[n] = span[n]
                                     /\ from'[n] = from[n]
    BY DEF Takes, MessagingInv, WireInv, WireTypes, ScopeInv, ScopeTypes
  <1>2. place'[m] = "taken"
    BY DEF Takes, MessagingInv, WireInv, WireTypes
  <1>3. /\ opened' \in [Messages -> 0..1]
        /\ \A n \in Messages : n # m => opened'[n] = opened[n]
    <2>1. opened \in [Messages -> 0..1] /\ opened[m] = 0
      BY NewlyTaken DEF MessagingInv, RestInv, Counted
    <2> QED BY <2>1 DEF Count
  <1> QED BY <1>1, <1>2, <1>3 DEF MessagingInv, RestInv, Counted

(* It reaches the user without a span, or with one that does not go on. *)
LEMMA TakenAside ==
  ASSUME MessagingInv, NEW m \in Messages, NEW c \in Consumers, Takes(c, m),
         NEW s \in {"null", "ended"}, span' = span \/ span' = [span EXCEPT ![m] = s],
         UNCHANGED <<ctx, scope, request, before, finalizers>>
  PROVE  ScopeInv'
  <1>1. span[m] = "none" /\ from' = [from EXCEPT ![m] = c]
    BY NewlyTaken
  <1>2. CASE span' = span
    <2>1. span' = [span EXCEPT ![m] = "none"]
      BY <1>1, <1>2 DEF MessagingInv, ScopeInv, ScopeTypes
    <2> QED BY <1>1, <2>1, MarkKeepsScopes DEF MessagingInv
  <1>3. CASE span' = [span EXCEPT ![m] = s]
    BY <1>1, <1>3, MarkKeepsScopes DEF MessagingInv
  <1> QED BY <1>2, <1>3

LEMMA DeliverKeeps ==
  ASSUME MessagingInv, NEW w \in Workers, NEW m \in Messages, Deliver(w, m)
  PROVE  MessagingInv'
  <1>1. /\ at[w] = "fetching" /\ Takes(with[w], m)
        /\ opened' = opened \/ Count(m)
        /\ span' = span \/ span' = [span EXCEPT ![m] = "ended"]
        /\ UNCHANGED <<workers, consumers, header, sent, enabled>>
    BY DEF Deliver
  <1>2. with[w] \in Pulled /\ with[w] \in Consumers
    BY <1>1 DEF MessagingInv, WireInv, SendingInv, Consumers
  <1>3. WireInv'
    BY <1>1, TakingKeepsWire DEF MessagingInv, workers
  <1>4. ScopeInv'
    BY <1>1, <1>2, TakenAside DEF workers, consumers
  <1>5. Counted'
    BY <1>1, TakingCounts
  <1>6. Idle' /\ HeldInv' /\ OwnConsumers'
    BY <1>1 DEF MessagingInv, RestInv, Idle, HeldInv, OwnConsumers, workers, consumers
  <1> QED BY <1>3, <1>4, <1>5, <1>6 DEF MessagingInv, RestInv

LEMMA NewSpanIs ==
  ASSUME NEW m, NEW s \in NewSpan(m)
  PROVE  s \in {"open", "unsampled", "null"} /\ Ended(s) \in {"null", "ended"}
  BY DEF NewSpan, Ended

(* What Record does, but to its worker. *)
LEMMA RecordDoes ==
  ASSUME MessagingInv, NEW w \in Workers, NEW m \in Messages, Record(w, m)
  PROVE  /\ opened' = opened \/ Count(m)
         /\ \/ /\ \E s \in {"null", "ended"} :
                  span' = span \/ span' = [span EXCEPT ![m] = s]
               /\ UNCHANGED <<ctx, held, finalizers>>
            \/ \E s \in {"open", "unsampled", "null"} :
                 /\ ~Visible(w) /\ ctx' = [ctx EXCEPT ![w] = m]
                 /\ span' = [span EXCEPT ![m] = s]
                 /\ held' = [held EXCEPT ![with[w]] = Scope(m, w, ctx[w])]
                 /\ finalizers' = [finalizers EXCEPT ![with[w]] =
                                     @ \cup {Scope(m, w, ctx[w])}]
  <1>1. CASE UNCHANGED <<ctx, span, opened, held, finalizers>>
    BY <1>1
  <1>2. CASE MayHold(w) /\ \E s \in NewSpan(m) : Advance(w, with[w], m, s)
    <2>1. PICK s \in NewSpan(m) : Advance(w, with[w], m, s)
      BY <1>2
    <2>2. s \in {"open", "unsampled", "null"} /\ Ended(s) \in {"null", "ended"}
      BY NewSpanIs
    <2> QED BY <1>2, <2>1, <2>2 DEF Advance, MayHold
  <1>3. CASE SetUpFails(m) /\ UNCHANGED <<held, finalizers>>
    BY <1>3 DEF SetUpFails
  <1> QED BY <1>1, <1>2, <1>3 DEF Record

LEMMA RecordKeeps ==
  ASSUME MessagingInv, NEW w \in Workers, NEW m \in Messages, Record(w, m)
  PROVE  MessagingInv'
  <1> USE ScopesAreTyped
  <1>1. PICK c \in Pulled : c = with[w] /\ c \in Consumers
    BY DEF Record, MessagingInv, WireInv, SendingInv, Consumers
  <1>2. /\ at[w] = "fetching" /\ Takes(c, m) /\ Returns(w)
        /\ UNCHANGED <<outer, scope, request, before, event, life, header, sent,
                      enabled>>
    BY <1>1 DEF Record
  <1>3. /\ Moves(w) /\ at'[w] = "free" /\ with'[w] = Nobody
        /\ \A v \in Workers : v # w => at'[v] = at[v] /\ with'[v] = with[v]
    BY <1>2, ReturningMoves
  <1>4. WireInv'
    BY <1>2, <1>3, TakingKeepsWire DEF MessagingInv
  <1>5. opened' = opened \/ Count(m)
    BY RecordDoes
  <1>6. Idle'
    BY <1>2, <1>3 DEF MessagingInv, RestInv, Idle
  <1>7. ASSUME NEW s \in {"null", "ended"},
               span' = span \/ span' = [span EXCEPT ![m] = s],
               UNCHANGED <<ctx, held, finalizers>>
        PROVE  MessagingInv'
    <2>1. ScopeInv'
      BY <1>1, <1>2, <1>7, TakenAside
    <2>2. Counted'
      BY <1>1, <1>2, <1>5, <1>7, TakingCounts
    <2>3. HeldInv' /\ OwnConsumers'
      BY <1>2, <1>3, <1>7 DEF MessagingInv, RestInv, HeldInv, OwnConsumers
    <2> QED BY <1>4, <1>6, <2>1, <2>2, <2>3 DEF MessagingInv, RestInv
  <1>8. ASSUME NEW s \in {"open", "unsampled", "null"}, ~Visible(w),
               ctx' = [ctx EXCEPT ![w] = m], span' = [span EXCEPT ![m] = s],
               held' = [held EXCEPT ![c] = Scope(m, w, ctx[w])],
               finalizers' = [finalizers EXCEPT ![c] = @ \cup {Scope(m, w, ctx[w])}]
        PROVE  MessagingInv'
    <2>1. span[m] = "none" /\ Opens(w, m, c, s)
      BY <1>2, <1>8, NewlyTaken DEF Opens
    <2>2. ScopeInv'
      BY <1>2, <1>8, <2>1, OpensFinalizer DEF MessagingInv
    <2>3. Counted'
      BY <1>1, <1>2, <1>5, <1>8, TakingCounts
    <2>4. PICK sc \in ScopeType : sc = Scope(m, w, ctx[w])
      BY <1>1, <1>2, <1>8, <2>1, OpeningFacts DEF MessagingInv
    <2>5. /\ held' = [held EXCEPT ![c] = sc]
          /\ finalizers' = [finalizers EXCEPT ![c] = @ \cup {sc}]
      BY <1>8, <2>4
    <2>6. /\ held'[c] = sc /\ finalizers'[c] = finalizers[c] \cup {sc}
          /\ \A d \in Pulled : d # c => held'[d] = held[d] /\ finalizers'[d] = finalizers[d]
          /\ held' \in [Pulled -> ScopeType \cup {NoScope}]
      BY <2>5 DEF MessagingInv, ScopeInv, ScopeTypes, RestInv, HeldInv
    <2>7. HeldInv'
      BY <1>2, <1>3, <2>6 DEF MessagingInv, RestInv, HeldInv
    <2>8. OwnConsumers'
      <3>1. life[c] = "live" /\ (c \notin Shared => finalizers[c] = {})
        BY <1>1, <1>2 DEF MessagingInv, RestInv, HeldInv, OwnConsumers
      <3>2. c \notin Shared => \A v \in Workers : ~(at'[v] = "fetching" /\ with'[v] = c)
        BY <1>1, <1>2, <1>3 DEF MessagingInv, RestInv, OwnConsumers
      <3> QED BY <1>2, <1>3, <2>6, <3>1, <3>2 DEF MessagingInv, RestInv, OwnConsumers
    <2> QED BY <1>4, <1>6, <2>2, <2>3, <2>7, <2>8 DEF MessagingInv, RestInv
  <1> QED BY <1>1, <1>7, <1>8, RecordDoes

LEMMA DispatchDoes ==
  ASSUME NEW w \in Workers, NEW c \in Pushed, NEW m \in Messages, Dispatch(w, c, m)
  PROVE  /\ opened' = opened \/ Count(m)
         /\ \/ /\ \E s \in {"null", "ended"} :
                  span' = span \/ span' = [span EXCEPT ![m] = s]
               /\ UNCHANGED <<ctx, scope>>
            \/ \E s \in {"null", "ended"} :
                 /\ ~Visible(w) /\ ctx' = [ctx EXCEPT ![w] = m]
                 /\ span' = [span EXCEPT ![m] = s] /\ scope' = scope
            \/ \E s \in {"open", "unsampled", "null"} :
                 /\ ~Visible(w) /\ ctx' = [ctx EXCEPT ![w] = m]
                 /\ span' = [span EXCEPT ![m] = s]
                 /\ scope' = [scope EXCEPT ![w] = Scope(m, w, ctx[w])]
  <1>1. CASE UNCHANGED <<ctx, span, opened, scope>>
    BY <1>1
  <1>2. CASE MayHold(w) /\ OpensScope(w, m)
    <2>1. PICK s \in NewSpan(m) : /\ Count(m) /\ ctx' = [ctx EXCEPT ![w] = m]
                                  /\ scope' = [scope EXCEPT ![w] = Scope(m, w, ctx[w])]
                                  /\ span' = [span EXCEPT ![m] = s]
      BY <1>2 DEF OpensScope
    <2>2. s \in {"open", "unsampled", "null"}
      BY NewSpanIs
    <2> QED BY <1>2, <2>1, <2>2 DEF MayHold
  <1>3. CASE SetUpFails(m) /\ UNCHANGED scope
    BY <1>3 DEF SetUpFails
  <1>4. CASE /\ MayHold(w) /\ Count(m) /\ ctx' = [ctx EXCEPT ![w] = m]
             /\ \E s \in NewSpan(m) : span' = [span EXCEPT ![m] = Ended(s)]
             /\ UNCHANGED scope
    <2>1. PICK s \in NewSpan(m) : span' = [span EXCEPT ![m] = Ended(s)]
      BY <1>4
    <2>2. Ended(s) \in {"null", "ended"}
      BY NewSpanIs
    <2> QED BY <1>4, <2>1, <2>2 DEF MayHold
  <1> QED BY <1>1, <1>2, <1>3, <1>4 DEF Dispatch, OpenConsumerScope, OnPrerun

LEMMA DispatchKeeps ==
  ASSUME MessagingInv, NEW w \in Workers, NEW c \in Pushed, NEW m \in Messages,
         Dispatch(w, c, m)
  PROVE  MessagingInv'
  <1> USE ScopesAreTyped
  <1>1. /\ at[w] = "free" /\ Takes(c, m) /\ c \in Consumers
        /\ at' = [at EXCEPT ![w] = "handling"] /\ with' = [with EXCEPT ![w] = m]
        /\ UNCHANGED <<outer, request, before, event, consumers, header, sent,
                      enabled>>
    BY DEF Dispatch, Consumers
  <1>2. /\ at'[w] = "handling" /\ with'[w] = m
        /\ \A v \in Workers : v # w => at'[v] = at[v] /\ with'[v] = with[v]
    BY <1>1 DEF MessagingInv, WireInv, WireTypes
  <1>3. Moves(w)
    BY <1>1, <1>2 DEF Moves, MessagingInv, WireInv, WireTypes
  <1>4. WireInv'
    BY <1>1, <1>3, TakingKeepsWire DEF MessagingInv
  <1>5. HeldInv' /\ OwnConsumers'
    BY <1>1, <1>2 DEF MessagingInv, RestInv, HeldInv, OwnConsumers, consumers
  <1>6. opened' = opened \/ Count(m)
    BY DispatchDoes
  <1>7. ASSUME NEW s \in {"null", "ended"},
               span' = span \/ span' = [span EXCEPT ![m] = s],
               UNCHANGED <<ctx, scope>>
        PROVE  MessagingInv'
    <2>1. ScopeInv'
      BY <1>1, <1>7, TakenAside DEF consumers
    <2>2. Counted'
      BY <1>1, <1>6, <1>7, TakingCounts
    <2>3. Idle'
      BY <1>1, <1>2, <1>7 DEF MessagingInv, RestInv, Idle
    <2> QED BY <1>4, <1>5, <2>1, <2>2, <2>3 DEF MessagingInv, RestInv
  <1>8. ASSUME NEW s \in {"open", "unsampled", "null"}, ~Visible(w),
               ctx' = [ctx EXCEPT ![w] = m], span' = [span EXCEPT ![m] = s],
               scope' = [scope EXCEPT ![w] = Scope(m, w, ctx[w])]
        PROVE  MessagingInv'
    <2>1. span[m] = "none" /\ Opens(w, m, c, s)
      BY <1>1, <1>8, NewlyTaken DEF Opens
    <2>2. ScopeInv'
      BY <1>1, <1>8, <2>1, OpensHandler DEF MessagingInv, consumers
    <2>3. Counted'
      BY <1>1, <1>6, <1>8, TakingCounts
    <2>4. \A v \in Workers : v # w => scope'[v] = scope[v]
      BY <1>8 DEF MessagingInv, ScopeInv, ScopeTypes
    <2>5. Idle'
      BY <1>1, <1>2, <2>4 DEF MessagingInv, RestInv, Idle
    <2> QED BY <1>4, <1>5, <2>2, <2>3, <2>5 DEF MessagingInv, RestInv
  <1>9. ASSUME NEW s \in {"null", "ended"}, ~Visible(w),
               ctx' = [ctx EXCEPT ![w] = m], span' = [span EXCEPT ![m] = s],
               scope' = scope
        PROVE  MessagingInv'
    <2>1. span[m] = "none" /\ from' = [from EXCEPT ![m] = c]
      BY <1>1, NewlyTaken
    <2>2. ScopeInv'
      BY <1>1, <1>9, <2>1, LeftKeepsScopes DEF MessagingInv, consumers
    <2>3. Counted'
      BY <1>1, <1>6, <1>9, TakingCounts
    <2>4. Idle'
      BY <1>1, <1>2, <1>9 DEF MessagingInv, RestInv, Idle
    <2> QED BY <1>4, <1>5, <2>2, <2>3, <2>4 DEF MessagingInv, RestInv
  <1> QED BY <1>7, <1>8, <1>9, DispatchDoes

-----------------------------------------------------------------------------
LEMMA MessagingNextKeeps == MessagingInv /\ [MessagingNext]_messagingVars => MessagingInv'
  <1> SUFFICES ASSUME MessagingInv, [MessagingNext]_messagingVars
               PROVE  MessagingInv'
    OBVIOUS
  <1>1. CASE UNCHANGED messagingVars
    <2>1. UNCHANGED WireVars /\ UNCHANGED ScopeVars /\ UNCHANGED RestVars
          /\ enabled' = enabled
      BY <1>1 DEF messagingVars, workers, consumers, messages, WireVars, ScopeVars,
                  RestVars
    <2> QED BY <2>1, NothingOnTheWire, NothingToScopes, NothingToTheRest
            DEF MessagingInv, RestInv, HeldInv
  <1>2. ASSUME NEW w \in Workers,
               \/ EnterRequest(w) \/ LeaveRequest(w) \/ FetchEnds(w) \/ HandlerEnds(w)
               \/ Send(w)
        PROVE  MessagingInv'
    BY <1>2, RequestsKeep, FetchEndsKeeps, HandlerEndsKeeps, SendKeeps
  <1>3. ASSUME NEW w \in Workers, NEW c \in Pulled, Close(w, c) \/ Collect(w, c)
        PROVE  MessagingInv'
    BY <1>3, CloseKeeps, CollectKeeps
  <1>4. ASSUME NEW w \in Workers, NEW c \in Pulled, NEW s \in Fetchers,
               Fetch(w, c, Fetcher[s])
        PROVE  MessagingInv'
    BY <1>4, FetchKeeps
  <1>5. ASSUME NEW w \in Workers, NEW m \in Messages, Record(w, m) \/ Deliver(w, m)
        PROVE  MessagingInv'
    BY <1>5, RecordKeeps, DeliverKeeps
  <1>6. ASSUME NEW w \in Workers, NEW m \in Messages, NEW c \in Pushed,
               Dispatch(w, c, m)
        PROVE  MessagingInv'
    BY <1>6, DispatchKeeps
  <1>7. ASSUME NEW w \in Workers, NEW m \in Messages,
               NEW o \in Messages \cup {Template}, NEW p \in Publishers,
               Prepare(w, m, o, p)
        PROVE  MessagingInv'
    BY <1>7, PrepareKeeps DEF Objects
  <1>8. ASSUME NEW c \in Pulled, Drop(c) PROVE MessagingInv'
    BY <1>8, DropKeeps
  <1>9. ASSUME NEW m \in Messages, Arrive(m) \/ Buffer(m) PROVE MessagingInv'
    BY <1>9, ArriveKeeps
  <1>10. CASE Disable
    BY <1>10, DisableKeeps
  <1> QED BY <1>1, <1>2, <1>3, <1>4, <1>5, <1>6, <1>7, <1>8, <1>9, <1>10
          DEF MessagingNext

LEMMA MessagingInitInv == MessagingInit => MessagingInv
  <1> SUFFICES ASSUME MessagingInit PROVE MessagingInv
    OBVIOUS
  <1> USE ScopesAreTyped, HeaderTypes
  <1>1. WireInv
    <2>1. WireTypes
      <3>1. [object |-> Nobody, by |-> Nobody] \in SentType
        BY DEF SentType
      <3> QED BY <3>1 DEF MessagingInit, WireTypes, Objects
    <2>2. SendingInv /\ OneSender
      BY DEF MessagingInit, SendingInv, OneSender
    <2>3. Origins /\ MessagesCarryContext
      BY DEF MessagingInit, Origins, MessagesCarryContext
    <2> QED BY <2>1, <2>2, <2>3 DEF WireInv
  <1>2. ScopeInv
    <2>1. ScopeTypes
      BY DEF MessagingInit, ScopeTypes, SpanStates
    <2>2. InRequest
      BY DEF MessagingInit, InRequest, Dead
    <2>3. HandlersRun /\ FinalizersRun
      BY DEF MessagingInit, HandlersRun, FinalizersRun
    <2>4. SpansHaveScopes
      BY DEF MessagingInit, SpansHaveScopes, Recording
    <2> QED BY <2>1, <2>2, <2>3, <2>4 DEF ScopeInv
  <1>3. RestInv
    <2>1. Counted /\ Idle
      BY DEF MessagingInit, Counted, Idle
    <2>2. HeldInv
      BY DEF MessagingInit, HeldInv
    <2>3. OwnConsumers
      BY DEF MessagingInit, OwnConsumers
    <2> QED BY <2>1, <2>2, <2>3 DEF RestInv
  <1> QED BY <1>1, <1>2, <1>3 DEF MessagingInv

(* One root span per delivered message, whatever layers of the client it   *)
(* passes (the surfaces and the plumbing of kafka, pika and aio_pika).     *)
(* For any number of workers, consumers and messages.                      *)
THEOREM DeliveriesHaveOneSpan == MessagingSpec => []OneSpanPerDelivery
  <1>1. MessagingInv => OneSpanPerDelivery
    BY DEF MessagingInv, RestInv, Counted, OneSpanPerDelivery
  <1> QED BY <1>1, MessagingInitInv, MessagingNextKeeps, PTL DEF MessagingSpec

(* A request keeps its own span current, whatever it fetches and whoever   *)
(* closes or collects consumers (_kafka.py's step-aside and scopes).       *)
THEOREM RequestsKeepTheirSpan == MessagingSpec => []RequestKeepsItsSpan
  <1>1. MessagingInv => RequestKeepsItsSpan
    BY DEF MessagingInv, ScopeInv, InRequest, RequestKeepsItsSpan
  <1> QED BY <1>1, MessagingInitInv, MessagingNextKeeps, PTL DEF MessagingSpec

(* A published message names the event that sent it, not that of an        *)
(* earlier hop or of another publish of the same object, and carries what  *)
(* the user gave where it is sent outside of any trace (_kafka.py,         *)
(* _amqp.py and the producer wrappers).                                    *)
THEOREM MessagesNameTheirSender == MessagingSpec => []MessagesCarryContext
  <1>1. MessagingInv => MessagesCarryContext
    BY DEF MessagingInv, WireInv
  <1> QED BY <1>1, MessagingInitInv, MessagingNextKeeps, PTL DEF MessagingSpec

LEMMA ScopesFollow ==
  ASSUME Shared = {}, MessagingInv
  PROVE  ScopeFollowsRecord
  <1> USE ScopesAreTyped
  <1>1. MessagingTypeOK
    BY DEF MessagingTypeOK, MessagingInv, WireInv, WireTypes, ScopeInv, ScopeTypes,
           RestInv, HeldInv, ScopeType, SpanStates, Recording
  <1>2. ASSUME NEW w \in Workers, ctx[w] \in Messages, span[ctx[w]] \in Recording
        PROVE  HasCloser(w, ctx[w])
    <2>1. PICK m \in Messages : m = ctx[w]
      BY <1>2
    <2>2. CASE from[m] \in Pushed
      BY <1>2, <2>1, <2>2 DEF MessagingInv, ScopeInv, SpansHaveScopes, HasCloser
    <2>3. CASE from[m] \in Pulled
      <3>1. PICK c \in Pulled : c = from[m]
        BY <2>3
      <3>2. PICK sc \in finalizers[c] : sc.msg = m
        BY <1>2, <2>1, <3>1 DEF MessagingInv, ScopeInv, SpansHaveScopes
      <3>3. life[c] \in {"live", "closed", "dropped"}
        BY <3>2 DEF MessagingInv, RestInv, HeldInv, OwnConsumers, Consumers
      <3>4. life[c] # "dropped" => held[c] = sc
        BY <3>2, <3>3 DEF MessagingInv, RestInv, OwnConsumers
      <3> QED BY <2>1, <3>1, <3>2, <3>4 DEF HasCloser
    <2> QED BY <1>2, <2>1, <2>2, <2>3
            DEF MessagingInv, ScopeInv, SpansHaveScopes, Consumers
  <1>3. ASSUME NEW w \in Workers, at[w] = "fetching", NEW m \in Messages,
               from[m] = with[w], span[m] \in Recording
        PROVE  FALSE
    <2>1. with[w] \in Pulled /\ finalizers[with[w]] = {}
      BY <1>3 DEF MessagingInv, WireInv, SendingInv, RestInv, OwnConsumers
    <2> QED BY <1>3, <2>1 DEF MessagingInv, ScopeInv, SpansHaveScopes
  <1>4. \A w \in Workers : at[w] # "sending" => ~event[w]
    BY DEF MessagingInv, WireInv, SendingInv
  <1> QED BY <1>1, <1>2, <1>3, <1>4 DEF ScopeFollowsRecord

(* A delivery span that is current somewhere has somebody who closes it,   *)
(* none is open while its consumer waits, and no producer event outlives   *)
(* its send (_kafka.py, _amqp.py).  No consumer is fetched from by two     *)
(* workers at once: their second record would replace the attribute that   *)
(* holds the scope of the first.                                           *)
THEOREM ScopesFollowRecords ==
  ASSUME Shared = {}
  PROVE  MessagingSpec => []ScopeFollowsRecord
  <1>1. MessagingInv => ScopeFollowsRecord
    BY ScopesFollow
  <1> QED BY <1>1, MessagingInitInv, MessagingNextKeeps, PTL DEF MessagingSpec
=============================================================================
