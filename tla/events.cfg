\* Two workers, each the only one of its host: a buffer and a list
\* with room for one event, batches of up to two.
SPECIFICATION RequestSpec
CONSTANTS
  Workers = {w1, w2}
  BufMax = 1
  QueueMax = 1
  BatchSize = 2
  MaxRequests = 2
  MaxFaults = 1
  MaxRepeats = 1
INVARIANTS
  LogTypeOK
  StoredInOrder
  Bounded
  NeverOverstated
PROPERTIES
  ImplementsEventLog
  NeverFalls
  EventsSettle
