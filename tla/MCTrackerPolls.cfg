SPECIFICATION FairSpec
CONSTANTS
  f1 = f1
  Jobs = {1}
  ConfirmationDepth = 2
  ResubmitOnRollback = TRUE
  FeedTasks = {f1}
  MaxHeight = 3
  MaxForks = 1
  MaxStops = 1
  MaxCrashes = 1
  MaxDbFaults = 1
INVARIANT PollingConfirmsAtDepth
INVARIANT NothingForgotten
PROPERTY DeepIsConfirmed
\* The chain stops at MaxHeight and a finished tracker has nothing to do.
CHECK_DEADLOCK FALSE
