\* Three accounts, two handlers, the default station and one other, which
\* cameras are also paired with.
SPECIFICATION Spec
CONSTANTS
  Users = {u1, u2, u3}
  DefaultUser = u1
  Stations = {s1, s2}
  DefaultStation = s1
  PairingStations = {s2}
  Workers = {w1, w2}
  NoUser = NoUser
  NoStation = NoStation
INVARIANTS
  TypeOK
  OneOwner
  RowsHaveStation
  OwnerCacheAgrees
  DefaultNeverOrphaned
  HalfRemovedOnlyByPairing
PROPERTIES
  OwnershipNotStolen
  NoSnapBack
  ImplementsOwnership
