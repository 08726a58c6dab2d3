\* A lost drop is repaired, with TTLs that have fractions of a second.
SPECIFICATION AgentFairSpec
CONSTANTS
  IPs = {a}
  NeverDrop = {}
  V6 = {}
  BanTTL = 2
  Resync = 1
  FeedMax = 1
  TicksPerSecond = 2
  MaxFaults = 0
PROPERTY BannedReachesKernel
