SPECIFICATION Spec
CONSTANTS
  Threads = {a}
  Ops = {"run_ingestion"}
  FirstEvents = {e}
  NoEvent = NoEvent
  MaxRequests = 1
  MaxCrashes = 0
PROPERTY
  IngestionYieldsObservation
