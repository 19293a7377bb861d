\* Three tasks and a worker thread around two spans.
SPECIFICATION FairSpec
CONSTANTS
  Tasks = {t1, t2, t3}
  Main = main
  Worker = worker
  MaxSpans = 2
  MaxOpen = 2
INVARIANT
  SpansAreOwned
PROPERTY
  TaskSpanEnds
CHECK_DEADLOCK FALSE
