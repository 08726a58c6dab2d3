\* Front end and agent together.
SPECIFICATION FairSpec
CONSTANTS
  IPs = {a}
  NeverDrop = {}
  Private = {}
  V6 = {}
  BanTTL = 1
  Resync = 1
  FeedMax = 1
  TicksPerSecond = 1
  MaxFaults = 0
  EscalateAt = 1
  Workers = {w1}
INVARIANT TypeOK
 
