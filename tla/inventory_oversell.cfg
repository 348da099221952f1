SPECIFICATION Spec
CONSTANTS
  Workers = {w1, w2}
  Categories = {c1}
  EventRow = EventRow
  NoWorker = NoWorker
  Quantities = {1}
  Capacities = {1}
  TotalCapacity = 1
  MaxRequests = 4
  MaxAborts = 0
CHECK_DEADLOCK FALSE
INVARIANT NeverOversold
