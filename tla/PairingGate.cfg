\* Two accounts, and requests with a token or with no account at all.
SPECIFICATION Spec
CONSTANTS
  Users = {u1, u2}
  Workers = {w1, w2}
  DefaultUser = u2
  Callers <- MaybeAnonymous
  Binders <- MaybeAnonymous
  Askers <- MaybeAnonymous
  Scanners <- MaybeAnonymous
  MinAge = 1
  MaxAge = 2
  KeepAge = 3
  MaxStep = 5
  NoUser = NoUser
  NoLock = NoLock
  Idle = Idle
SYMMETRY WorkerSymmetry
INVARIANTS
  TypeOK
  OnlyNewerLocksAreReplaced
  CameraScanPasses
PROPERTIES
  OwnerHasTicket
