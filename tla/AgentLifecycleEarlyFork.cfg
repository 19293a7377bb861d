\* fork() on another thread during the first init().
SPECIFICATION Spec
CONSTANTS
  Processes = {parent, child}
  Root = parent
  Threads = {main1, aux}
  MainThread = main1
  MaxAgents = 1
  MaxCalls = 2
  DirectCallers = {}
  Interruptible = {}
  ForkAnywhere = TRUE
INVARIANT
  LockOwnerExists
CHECK_DEADLOCK FALSE
