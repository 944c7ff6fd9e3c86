\* A scan asks for channel 1 and gets slot 0.
SPECIFICATION Spec
CONSTANTS
  Cameras = {c1, c2}
  DefaultCamera = c1
  Stations = {s1}
  DefaultStation = s1
  AskedStations = {s1}
  Workers = {w1}
  SlotCount = 2
  Channels = {0, 1}
  AskedChannels = {0, 1}
  ReportedChannels = {}
  MacReporters = {}
  NoCamera = NoCamera
  NoMac = NoMac
  NoSlot = NoSlot
  Idle = Idle
INVARIANTS
  ScanUsesItsSlot
