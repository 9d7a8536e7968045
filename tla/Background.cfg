SPECIFICATION ScenarioSpec
CONSTANTS
  Hooks = {h1}
  Events = {e1}
  MaxRetries = 3
  RejectionEndsProcess = {TRUE, FALSE}
  InitialHooks <- NoHooks
  MaxFaults = 1
  Docs = {d1}
  Requests = {r1}
  MaxJobs = 1
  MaxRuns = 4
  Workers = 1
  MaxAttempts = 3
  MaxStalled = 1
  MaxDocumentFaults = 2
  MaxCrashes = 1
  NoDoc = NoDoc
  NoJob = NoJob
  NoRun = NoRun
  NoRequest = NoRequest
PROPERTIES
  DeliveriesEnd QueuedSettles
CHECK_DEADLOCK FALSE
