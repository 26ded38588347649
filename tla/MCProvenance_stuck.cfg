SPECIFICATION Spec
CONSTANTS
  c1 = c1
  c2 = c2
  c3 = c3
  e1 = e1
  e2 = e2
  e3 = e3
  Calls = {c1, c2}
  Events = {e1}
  EventOf <- Twice
  Poison = {}
  Worker = worker
  NoCall = nocall
  BatchSize = 2
  MaxFaults = 2
  MaxCrashes = 0
INVARIANTS PendingIsQueued
\* Every call is over and the queue is empty: the recorder is idle.
CHECK_DEADLOCK FALSE
