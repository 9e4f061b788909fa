SPECIFICATION Spec
CONSTANTS
  LONG_MAX = 20
  K = 3
INVARIANT RaisesOnlyIfUnfit
