SPECIFICATION Spec
CONSTANTS
  LONG_MAX = 20
  K = 3
INVARIANTS TypeOK HeldIsExact InfiniteOnDemand RaisesOnlyAtLimit CompareIsOrder ExpiresWhenDue
