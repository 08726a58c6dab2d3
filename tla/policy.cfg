\* Addresses 0..3 in each family; two access rules, two requests.
SPECIFICATION PolicySpec
CONSTANTS
  Top = 3
  Files <- OneMonth
  MaxRanges = 4
  CountryLists <- Lists
  Drafts <- SomeDrafts
  RuleIds = {r1, r2}
  Kept <- OneRule
  Listed <- SomeListed
  Bundled <- InBinary
  Feeds <- Answers
  MaxWidth = 1
  MaxTotal = 2
  MaxEdits = 2
  MaxFaults = 1
INVARIANTS
  
  CrawlersKnown
PROPERTIES
  DecidesAsIntended
  PolicyInForce
