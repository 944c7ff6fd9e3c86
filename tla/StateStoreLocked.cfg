SPECIFICATION Spec
CONSTANTS
  Stations = {s1, s2}
  Cameras = {c1, c2}
  Captures = {}
  Threads = {t1, t2}
  IngestThreads = {}
  Listers = {}
  Unsettled = FALSE
  AutoBind = TRUE
  Processes <- MCProcesses
  ProcessOf <- MCProcessOf
  Ingest = "ingest"
  NoStation = NoStation
  Idle = Idle
  Free = Free
INVARIANTS
  TypeOK
  WorksOnSavedState
PROPERTIES
  BindingHolds
