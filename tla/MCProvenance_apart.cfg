SPECIFICATION FairSpec
CONSTANTS
  c1 = c1
  c2 = c2
  c3 = c3
  e1 = e1
  e2 = e2
  e3 = e3
  Calls = {c1, c2, c3}
  Events = {e1, e2, e3}
  EventOf <- Apart
  Poison = {e3}
  Worker = worker
  NoCall = nocall
  BatchSize = 2
  MaxFaults = 2
  MaxCrashes = 1
INVARIANTS TypeOK ConfirmedHashesAreCommitted
PROPERTIES ConfirmedIsFinal KeepsPromise QueuedIsConfirmed RecordedIsConfirmed
\* Every call is over and the queue is empty: the recorder is idle.
CHECK_DEADLOCK FALSE
