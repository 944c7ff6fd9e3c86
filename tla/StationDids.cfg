\* Station DIDs alone, of devices that report none.
SPECIFICATION Spec
CONSTANTS
  Foci = {"dids"}
  s0 = s0
  s1 = s1
  s2 = s2
  d0 = d0
  d1 = d1
  d2 = d2
  d3 = d3
  d4 = d4
  d5 = d5
  k1 = k1
  k2 = k2
  k3 = k3
  u1 = u1
  u2 = u2
  p1 = p1
  p2 = p2
  DidStations = {s0, s1, s2}
  DidOrder <- MCDidOrder
  DefaultBase = s0
  StaticDid = d0
  ConfiguredDid <- MCConfiguredDid
  StaticMode = TRUE
  GeneratedDids <- MCGeneratedDids
  PlaceholderDids = {d0, d1, d2, d4, d5}
  DeviceDids <- MCNoReports
  Free = Free
  NoDid = NoDid
  CloudCams <- MCCloudCams
  CloudAccount <- MCCloudAccount
  PlanSizes = {1, 2}
  OrderNos = {1, 2, 3}
  Payments = {p1, p2}
  MaxOrders = 2
  Term = 1
  LastDay = 1
  Blank = Blank
  NoticeCams = {k1, k2}
  SeenCams = {k1}
  MaxNotices = 3
  PageSize = 1
  LastNotice = 5
  PushTokens = {t1, t2, t3, t4}
  ApnsTokens = {t1}
  SideChannels <- MCSideChannels
  MaxTokens = 2
  MaxRegistrations = 3
  Calls = {h1, h2}
  Runs = {r1, r2}
  Qualities = {qa, qb}
  NoRun = NoRun
  NoQuality = NoQuality
  AccountIds = {a0, a1, a2}
  DefaultAccount = a0
  Names = {x1, x2, x3}
  DefaultName = x1
  AccountStations = {s1}
  MaxIssued = 3
  NoName = NoName
  NoAccount = NoAccount
INVARIANTS
  OneStationPerDid
