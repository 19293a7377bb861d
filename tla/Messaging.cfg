\* Two workers around a pull and a push consumer.
SPECIFICATION FairSpec
CONSTANTS
  Workers = {w1, w2}
  Serving = {w1}
  Pulled = {p}
  Pushed = {q}
  Shared = {}
  Publishers = {"kafka", "celery"}
  Fetchers = {"kafka_next", "generator", "consume", "basic_get"}
  Messages = {m1, m2}
INVARIANTS
  ScopeFollowsRecord
  OneSpanPerDelivery
  RequestKeepsItsSpan
  MessagesCarryContext
PROPERTY
  SpansEnd
CHECK_DEADLOCK FALSE
