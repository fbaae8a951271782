SPECIFICATION Spec
CONSTANTS
  v1 = v1
  v2 = v2
  i1 = i1
  i2 = i2
  t1 = t1
  t2 = t2
  NoVolume = NoVolume
  NoValue = NoValue
  UnknownId = UnknownId
  Volumes = {v1, v2}
  AgentMetrics = {"mem_used_percent"}
  Instances = {i1, i2}
  Pages <- MCPages
  EC2_METRICS = {}
  FEATURE_THRESHOLDS <- MCThresholds
  Readings <- MCReadings
  Threads = {t1, t2}
  Listers = {t1, t2}
  CWAGENT <- MCMetrics
  CACHE_TTL = 1
  LONGEST_CALL = 1
  StateNames = {" Running ", "stopped", " ", "paused"}
  Cleaned <- MCCleaned
  StateQueries <- MCQueries
  MaxRequests = 3
  MaxChanges = 1
  MaxTime = 3
SYMMETRY Symmetry
INVARIANTS
  TypeOK
  NoFalseAlarm
  OverloadIsReported
  KeyErrorNeedsOverlap
  ListingIsTrue
  SummaryIsTrue
