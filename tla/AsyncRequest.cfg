\* One connection of any of the servers; two hand-offs, one streamed item.
SPECIFICATION Spec
CONSTANTS
  Connections = {c1}
  Serving = {"asgi", "fastapi", "aiohttp", "tornado", "grpc", "grpc_stream"}
  Slots = {s1, s2}
  MaxWork = 1
INVARIANTS
  RequestHasItsRoot
  HandoffHasOneOwner
PROPERTY SpansEnd
CHECK_DEADLOCK FALSE
