\* One worker calls every client, the other what shares an object.
SPECIFICATION Spec
CONSTANTS
  Callers = {w1, w2}
  Sharing = {w2}
  RequestIds = {r}
  MaxInflight = 1
  MaxDepth = 3
  MaxAbandoned = 1
INVARIANTS
  OneEventPerExchange
  SuppressionEnds
  EventsFollowCalls
  CarriesOwnContext
CHECK_DEADLOCK FALSE
