SPECIFICATION FairSpec
CONSTANTS
  Threads = {a, b}
  Keys = {k}
  WINDOW_SECONDS = 2
  MAX_REQUESTS_PER_WINDOW = 2
  MaxCalls = 5
  MaxTime = 5
INVARIANTS
  TypeOK
  LimitHoldsAlone
  BucketBounded
  ErrorNeedsOverlap
PROPERTIES
  RefusedOnlyWhenFull
  CallsEnd
