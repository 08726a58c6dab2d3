\* One site, two client addresses, and a guard with room for one record.
SPECIFICATION HistorySpec
CONSTANTS
  Sites = {s}
  Users = {u}
  SiteOf <- OnlySite
  Addresses = {a, b}
  Keys <- SitesAndAddresses
  Workers = {w}
  Logins = {l1, l2}
  MaxGen = 2
  Soft = 1
  Hard = 2
  SoftLock = 1
  HardLock = 2
  Retention = 2
  MaxRecords = 1
INVARIANTS
  GateTypeOK
  GuardBounded
  OldPasswordShutOut
  
  LockAdmitsNobody
SYMMETRY Alike
