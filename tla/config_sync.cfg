\* Two handlers publish while one worker syncs and another serves.
SPECIFICATION FairSpec
CONSTANTS
  Callers = {c1, c2}
  NumTables = 2
  MaxSaves = 1
  MaxPublishes = 3
  MaxFaults = 1
  Syncers = {timer}
  Readers = {r1}
INVARIANTS
  TypeOK
  AckedIsPublished
  
PROPERTIES
  
  PublishedIsLoaded
