\* One contested slot of each kind: wrapped late, wrapped, a function, a class.
SPECIFICATION Spec
CONSTANTS
  Classes = {"falcon", "celery", "logging", "confluent", "psycopg2"}
  Instances = {i1, i2}
  Contested = {"asgi", "apply_async", "factory", "producer"}
  MaxForeign = 2
  Threads = {t1, t2}
  Bases = {b1, b2}
  MaxCache = 2
INVARIANTS
  RegistryTellsTruth
  WrappersNeverStack
  ForeignLayersKept
  RecordsEnd
  OneTracedClass
SYMMETRY Symmetry
CHECK_DEADLOCK FALSE
