SPECIFICATION FairSpec
CONSTANTS
  NSIG = 3
  Ops <- AllOps
INVARIANTS TypeOK NoSignalLost
PROPERTIES HandledInAcquireOnly NeverTerminated SignalIsReported
CHECK_DEADLOCK FALSE
