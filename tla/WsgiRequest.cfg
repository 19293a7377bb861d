\* Two server threads and a mounted pool thread around two requests.
SPECIFICATION WsgiFairSpec
CONSTANTS
  Threads = {t1, t2, t3}
  Mounted = {t3}
  Requests = {r1, r2}
  MaxPulls = 2
INVARIANT
  RequestsStayApart
PROPERTY
  WsgiSpansEnd
CHECK_DEADLOCK FALSE
