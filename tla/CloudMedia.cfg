CONSTANTS
  c1 = c1
  c2 = c2
  k1 = k1
  n1 = n1
  NoFile = NoFile
  Connections = {c1, c2}
  Cameras = {k1}
  Notices = {n1}
  CameraOf <- MCCameraOf
  MaxRecords = 2
  Window = 0
  IdleTime = 1
  MaxCaptures = 3
  MaxTime = 1
  MaxSeq = 2
  MaxUpsets = 1
SPECIFICATION Spec
INVARIANT TypeOK
INVARIANT StreamCodesUnique
INVARIANT NothingElseIsLost
PROPERTY RemovalTakesItsFiles
PROPERTY BurstsEnd
