--------------------------- MODULE MCHttpTransaction ---------------------------
(***************************************************************************)
(* HttpTransaction for TLC: three generations of settings and the messages *)
(* that tell the carriers, the readers and the lookups apart.              *)
(***************************************************************************)
EXTENDS HttpTransaction

Settings0 == [realIp |-> <<"X-Forwarded-For">>, emptyValue |-> "", cookies |-> FALSE,
              requestHeaders |-> <<>>]
MCConfigs ==
  (0 :> Settings0)
  @@ (1 :> [Settings0 EXCEPT !.realIp = <<"X-Forwarded-For", "X-Real-Ip">>,
                             !.emptyValue = "unknown"])
  @@ (2 :> [Settings0 EXCEPT !.cookies = TRUE, !.realIp = <<>>,
                             !.requestHeaders = <<"X-Real-Ip">>])
  @@ (3 :> [Settings0 EXCEPT !.requestHeaders = HeadersAll])

Header(n, v) == [name |-> n, value |-> v]
Context(id) == <<Header(TraceID, id), Header("Pinpoint-SpanID", <<"1">>),
                 Header("Pinpoint-pSpanID", <<"2">>)>>

MCMessages == {
  <<>>,
  Context(<<"t1">>),
  Context(<<"t1">>) \o <<Header(TraceID, <<"t2">>)>>,
  <<Header(Sampled, <<"s0">>)>>,
  <<Header(Sampled, <<"s1">>), Header(Sampled, <<"s0">>)>>,
  Context(<<"t1">>) \o <<Header(Sampled, <<"s0">>), Header("X-Forwarded-For", <<"ip1", "ip2">>)>>,
  <<Header("X-Forwarded-For", <<"unknown", "ip1">>), Header("X-Real-Ip", <<"ip2">>)>>,
  <<Header("X-Forwarded-For", <<>>), Header("X-Real-Ip", <<"unknown">>)>>,
  <<Header("X-Real-Ip", <<"ip1">>), Header("X-Real-Ip", <<"ip2">>),
    Header("Cookie", << <<"a", "1">>, <<"junk">>, <<"a", "2">> >>)>>,
  <<Header("X-Forwarded-For", <<"ip1">>), Header("X-Forwarded-For", <<"ip2">>),
    Header("Pinpoint-ProxyNginx", <<"t">>)>>}

=============================================================================
