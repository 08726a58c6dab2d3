\* Two requests a second with a burst of two, one worker and one address: no race is needed.
SPECIFICATION RateSpec
CONSTANTS
  Workers = {w}
  IPs = {a}
  TicksPerSecond = 2
  Interval = 1
  Burst = 2
  MaxDebt = 60
  ChallengeBanAt = 3
  AttackBanAt = 3
  BanTTL = 2
  MaxCredit = 4
  MaxFaults = 1
INVARIANT WithinBudget
