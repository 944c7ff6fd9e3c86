\* Two handlers at work, one slot, and a second station that only reports.
SPECIFICATION Spec
CONSTANTS
  Cameras = {c1, c2}
  DefaultCamera = c1
  Stations = {s1, s2}
  DefaultStation = s1
  AskedStations = {s1}
  Workers = {w1, w2}
  SlotCount = 1
  Channels = {0}
  AskedChannels = {0}
  ReportedChannels = {0}
  MacReporters = {}
  NoCamera = NoCamera
  NoMac = NoMac
  NoSlot = NoSlot
  Idle = Idle
SYMMETRY WorkerSymmetry
INVARIANTS
  TombstonedIsAbsent
  CameraHasStation
PROPERTIES
  RemovedStaysRemoved
  ReportNeverSteals
