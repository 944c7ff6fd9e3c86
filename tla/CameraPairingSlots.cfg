\* Two cameras, one with a MAC address, and two slots.
SPECIFICATION Spec
CONSTANTS
  Cameras = {c1, c2}
  DefaultCamera = c1
  Stations = {s1}
  DefaultStation = s1
  AskedStations = {s1}
  Workers = {w1}
  SlotCount = 2
  Channels = {0, 1}
  AskedChannels = {1}
  ReportedChannels = {1}
  MacReporters = {c2}
  NoCamera = NoCamera
  NoMac = NoMac
  NoSlot = NoSlot
  Idle = Idle
INVARIANTS
  TypeOK
PROPERTIES
  HeldSlotNotReassigned
  OnlyRemovalFreesSlot
