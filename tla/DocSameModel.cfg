SPECIFICATION ScenarioSpec
CONSTANTS
  t1 = t1
  t2 = t2
  Tenants = {t1, t2}
  Papers = {t1}
  Editors = {e1}
  Readers = {q1}
  TenantOf <- OneEach
  PaperChunks <- TwoEach
  TopK = 1
  MaxChanges <- OneChange
  MaxCalls = 2
  ChunkSize = 7
  Overlap = 3
  MaxParagraph = 6
  MaxParagraphs = 5
  NoDoc = NoDoc
  NoJob = NoJob
  NoRun = NoRun
  NoRequest = NoRequest
  TextChunks <- TwoChunks
  Docs = {d1}
  Requests = {r1, r2}
  MaxJobs = 2
  MaxRuns = 2
  Workers = 2
  MaxAttempts = 3
  MaxStalled = 1
  MaxFaults = 1
  MaxCrashes = 1
INVARIANTS
  SameModel
SYMMETRY RequestSymmetry
CHECK_DEADLOCK FALSE
