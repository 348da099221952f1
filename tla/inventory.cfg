SPECIFICATION FairSpec
CONSTANTS
  Workers = {w1, w2}
  Categories = {c1, c2}
  EventRow = EventRow
  NoWorker = NoWorker
  Quantities <- SomeQuantities
  Capacities = {1, 2}
  TotalCapacity = 2
  MaxRequests = 4
  MaxAborts = 1
CHECK_DEADLOCK FALSE
INVARIANTS NoPhantomSeat SeatsAccounted NoOversell NoDanglingTicket
PROPERTIES RequestsEnd
