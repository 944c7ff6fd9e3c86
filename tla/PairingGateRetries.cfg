\* Two accounts that only send station/add, as some app builds do.
SPECIFICATION Retrying
CONSTANTS
  Users = {u1, u2}
  Workers = {w1, w2}
  DefaultUser = u2
  Callers <- WithToken
  Binders <- None
  Askers <- None
  Scanners <- None
  MinAge = 1
  MaxAge = 2
  KeepAge = 3
  MaxStep = 1
  NoUser = NoUser
  NoLock = NoLock
  Idle = Idle
PROPERTIES
  RetriesSucceed
