SPECIFICATION FairSpec
CONSTANTS
  Stations = {s1}
  Cameras = {c1}
  Captures = {x1}
  Threads = {t1, t2, t3}
  IngestThreads = {t3}
  Listers = {t1}
  Unsettled = FALSE
  AutoBind = TRUE
  Processes <- MCProcesses
  ProcessOf <- MCProcessOf
  Ingest = "ingest"
  NoStation = NoStation
  Idle = Idle
  Free = Free
INVARIANTS
  SavedStateIsSound
PROPERTIES
  OnlyBindBinds
  CacheRepaired
