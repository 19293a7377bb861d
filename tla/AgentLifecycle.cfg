\* Two threads of a parent and of a child forked from it; in the child user code
\* calls Agent.shutdown() too, and SIGTERM comes at any moment.
SPECIFICATION FairSpec
CONSTANTS
  Processes = {parent, child}
  Root = parent
  Threads = {main1, aux}
  MainThread = main1
  MaxAgents = 2
  MaxCalls = 2
  DirectCallers = {child}
  Interruptible = {child}
  ForkAnywhere = FALSE
INVARIANTS
  OneDrainedAgent
  LockOwnerExists
PROPERTY
  CallsReturn
CHECK_DEADLOCK FALSE
