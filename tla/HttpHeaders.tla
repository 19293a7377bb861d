------------------------------ MODULE HttpHeaders ------------------------------
(***************************************************************************)
(* The headers of an HTTP message as pinpoint/http_helper.py and           *)
(* pinpoint/propagator.py read them: the carriers they come in, the        *)
(* readers over those, the test for an upstream context, the extraction of *)
(* that context, cookies, the client address and the recording of an       *)
(* allow-list.                                                             *)
(*                                                                         *)
(* A header is [name, value]; names are case-insensitive everywhere and    *)
(* carry no case here.  A value is the sequence of its comma- or           *)
(* semicolon-separated parts, an empty header the empty sequence.          *)
(***************************************************************************)
EXTENDS Naturals, Sequences, FiniteSets, SequencesExt, FiniteSetsExt, TLC

CONSTANTS
  Configs,       \* configuration generation -> its Http settings; 0 is the
                 \* Python Config, which no reload changes
  SocketAddress  \* of the peer

Carriers == {"environ", "mapping", "pairs", "metadata"}

(* Stands for no header, no value, no number. *)
Absent == <<"absent">>

(* Of the ten PINPOINT_HEADERS: the trace, and the decision.  They are     *)
(* looked up in this order, the decision fourth.                           *)
TraceID == "Pinpoint-TraceID"
Sampled == "Pinpoint-Sampled"
PinpointHeaders == <<TraceID, "Pinpoint-SpanID", "Pinpoint-pSpanID", Sampled>>
(* Others begin with Pinpoint- and carry no context. *)
Prefixed == ToSet(PinpointHeaders) \cup {"Pinpoint-ProxyNginx"}

Named(raw, name) == {i \in DOMAIN raw : raw[i].name = name}

-----------------------------------------------------------------------------
(* The readers.  probe counts the lookups of one reader, this one          *)
(* included.                                                               *)

(* mutant: the earlier of two headers with one name *)
ForwardScan(raw, name) ==
  LET i == SelectInSeq(raw, LAMBDA h : h.name = name)
  IN IF i = 0 THEN Absent ELSE raw[i].value

(* The first lookups scan the raw pairs from the end. *)
ReverseScan(raw, name) ==
  LET r == Reverse(raw)
      i == SelectInSeq(r, LAMBDA h : h.name = name)
  IN IF i = 0 THEN Absent ELSE r[i].value

(* d[key] = value *)
Put(d, key, value) == [k \in DOMAIN d \cup {key} |-> IF k = key THEN value ELSE d[k]]

(* Decoded once, name by name, a later header over an earlier one. *)
Lower(raw) == FoldLeft(LAMBDA lower, h : Put(lower, h.name, h.value), <<>>, raw)

Lookup(lower, name) == IF name \in DOMAIN lower THEN lower[name] ELSE Absent

DecodeThreshold == 2

AsgiGet(raw, name, probe) ==
  IF probe > DecodeThreshold THEN Lookup(Lower(raw), name) ELSE ReverseScan(raw, name)

(* An environ or request.META has one entry for a name. *)
EnvironGet(raw, name) == Lookup(Lower(raw), name)

(* A multidict answers itself: aiohttp's, with the first. *)
MultiDictGet(raw, name) ==
  IF Named(raw, name) = {} THEN Absent ELSE raw[Min(Named(raw, name))].value

(* dict(pairs): Python's own rule, the last. *)
MetadataGet(raw, name) == Lookup(Lower(raw), name)

Get(carrier, raw, name, probe) ==
  CASE carrier = "pairs"    -> AsgiGet(raw, name, probe)
    [] carrier = "environ"  -> EnvironGet(raw, name)
    [] carrier = "mapping"  -> MultiDictGet(raw, name)
    [] carrier = "metadata" -> MetadataGet(raw, name)

-----------------------------------------------------------------------------
(* Upstream context. *)

HasPinpointEnviron(raw) == \E n \in ToSet(PinpointHeaders) : Named(raw, n) # {}

HasPinpointKey(raw) == \E n \in Prefixed : Named(raw, n) # {}

HasPinpoint(carrier, raw) ==
  IF carrier = "environ" THEN HasPinpointEnviron(raw) ELSE HasPinpointKey(raw)

(* Each name once, in order, on a reader asked nothing before.             *)
ExtractPinpointHeaders(carrier, raw) ==
  [n \in ToSet(PinpointHeaders) |->
     Get(carrier, raw, n, CHOOSE i \in DOMAIN PinpointHeaders : PinpointHeaders[i] = n)]

NoContext == [n \in ToSet(PinpointHeaders) |-> Absent]

(* What new_span() is given: nothing unless the test found something.      *)
Inbound(carrier, raw) ==
  IF HasPinpoint(carrier, raw) THEN ExtractPinpointHeaders(carrier, raw) ELSE NoContext

(* Lookups the reader has served by then. *)
ProbesOfInbound(carrier, raw) ==
  IF HasPinpoint(carrier, raw) THEN Len(PinpointHeaders) ELSE 0

-----------------------------------------------------------------------------
(* The client address. *)

(* The first hop of a list; `Forwarded` names it in a for= pair, which its *)
(* value here is cut down to.                                              *)
FirstHop(value) == IF value = <<>> THEN "" ELSE Head(value)

GetRemoteAddr == SocketAddress

Usable(hop, config) == hop # "" /\ hop # config.emptyValue

(* The configured headers in order, one lookup each. *)
ResolveRemoteAddr(carrier, raw, config, probes) ==
  LET hop(i) == LET v == Get(carrier, raw, config.realIp[i], probes + i)
                IN IF v = Absent THEN "" ELSE FirstHop(v)
      usable == {i \in DOMAIN config.realIp : Usable(hop(i), config)}
  IN IF usable = {} THEN GetRemoteAddr ELSE hop(Min(usable))

-----------------------------------------------------------------------------
(* Recording. *)

(* Pieces are <<name, value>> or, without an "=", <<text>>. *)
ParseCookieHeader(value) ==
  FoldLeft(LAMBDA out, piece : IF Len(piece) = 2 /\ piece[1] # ""
                               THEN Put(out, piece[1], piece[2]) ELSE out,
           <<>>, value)

HeadersAll == <<"HEADERS-ALL">>

(* The pairs one allow-list puts on a span: the configured name with the   *)
(* value the reader has, or every header.                                  *)
RecordHeader(carrier, raw, names, probes) ==
  IF names = HeadersAll THEN {<<h.name, h.value>> : h \in ToSet(raw)}
  ELSE {<<names[i], Get(carrier, raw, names[i], probes + i)>> :
          i \in {j \in DOMAIN names : Get(carrier, raw, names[j], probes + j) # Absent}}

=============================================================================
