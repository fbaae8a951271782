SPECIFICATION Spec
CONSTANTS
  Threads = {a, b}
  Ops = {"run_ingestion", "run_full_cycle", "run_inference", "latest_observation", "latest_anomaly"}
  FirstEvents = {e}
  NoEvent = NoEvent
  MaxRequests = 3
  MaxCrashes = 1
INVARIANTS
  TypeOK
  ObservationIsBacked
  LatestIsFresh
  ResultsFollowObservations
