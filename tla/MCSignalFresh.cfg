SPECIFICATION Spec
CONSTANTS
  NSIG = 2
  Ops <- PollingOps
INVARIANTS ReportIsFresh
CHECK_DEADLOCK FALSE
