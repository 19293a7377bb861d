\* A root span or an async child: two nesting levels, numbers up to three, chunks
\* of two, scopes ended in any order, one downstream id that may be drawn twice,
\* two children, two overflow errors and room for one in the batch.
SPECIFICATION Spec
CONSTANTS
  own = own
  parent = parent
  id1 = id1
  SpanIds = {own, id1}
  OwnId = own
  ParentId = parent
  MaxDepth = 1
  MaxSequence = 3
  ChunkSize = 2
  MaxVerdicts = 1
  MaxEvents = 4
  MaxAsync = 2
  MaxErrors = 2
INVARIANTS
  TreeReconstructible
  CapHasPlaceholder
  VerdictsReachRoot
  RecordedOnce
\* An ended span does nothing more.
CHECK_DEADLOCK FALSE
