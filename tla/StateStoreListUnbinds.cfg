SPECIFICATION Spec
CONSTANTS
  Stations = {s1}
  Cameras = {c1}
  Captures = {}
  Threads = {t1, t2}
  IngestThreads = {}
  Listers = {t1}
  Unsettled = FALSE
  AutoBind = FALSE
  Processes <- MCProcesses
  ProcessOf <- MCProcessOf
  Ingest = "ingest"
  NoStation = NoStation
  Idle = Idle
  Free = Free
PROPERTIES
  BindingHolds
