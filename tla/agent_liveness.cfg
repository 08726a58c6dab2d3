\* What eventually leaves the kernel and what reaches it, with TTLs in half seconds.
SPECIFICATION AgentFairSpec
CONSTANTS
  IPs = {a}
  NeverDrop = {}
  V6 = {}
  BanTTL = 2
  Resync = 1
  FeedMax = 1
  TicksPerSecond = 2
  MaxFaults = 1
PROPERTIES
  LiftedLeavesKernel
  DeadAgentDrains
  ReadBanReachesKernel
