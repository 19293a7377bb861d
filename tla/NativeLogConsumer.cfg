\* Three records, a queue of two and batches of one; two shutdown calls, of a thread
\* and of a log handler; one read of the drop count.
SPECIFICATION ConsumerFairSpec
CONSTANTS
  Threads = {t1}
  Consumer = consumer
  QueueSize = 2
  BatchSize = 1
  MaxRecords = 3
  MaxCalls = 2
  MaxReads = 1
INVARIANT
  NothingLost
PROPERTY
  TeardownEnds
CHECK_DEADLOCK FALSE
