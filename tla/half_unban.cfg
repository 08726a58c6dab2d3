\* An unban while the agent is stopped and its reports have expired.
SPECIFICATION ReportedSpec
CONSTANTS
  IPs = {a}
  NeverDrop = {}
  Private = {}
  V6 = {}
  BanTTL = 6
  Resync = 1
  FeedMax = 1
  TicksPerSecond = 1
  MaxFaults = 1
  EscalateAt = 1
  Workers = {w1}
PROPERTY UnbanIsWhole
