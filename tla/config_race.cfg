\* The timer of worker 0 and a /sync request in another worker at the same time.
SPECIFICATION FairSpec
CONSTANTS
  Callers = {c1}
  NumTables = 1
  MaxSaves = 2
  MaxPublishes = 2
  MaxFaults = 0
  Syncers = {timer, notified}
  Readers = {r1}
PROPERTY PublishedIsLoaded
