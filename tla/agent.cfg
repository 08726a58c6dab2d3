\* The agent against an arbitrary feed and ban list: one ordinary address and one on the
\* never-drop list, one failure anywhere.
SPECIFICATION HistorySpec
CONSTANTS
  IPs = {a, m}
  NeverDrop = {m}
  V6 = {m}
  BanTTL = 1
  Resync = 1
  FeedMax = 1
  TicksPerSecond = 1
  MaxFaults = 1
INVARIANTS
  AgentTypeOK
  ProtectedNeverDropped
  ReconcileExact
  
