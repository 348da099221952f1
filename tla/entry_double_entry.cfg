SPECIFICATION Spec
CONSTANTS
  Claims = {k1}
  Tickets = {t1}
  Guests = {g1}
  Workers = {w1, w2}
  NoWorker = NoWorker
  NoClaim = NoClaim
  NoGuest = NoGuest
  MaxRequests = 3
  MaxAborts = 0
CHECK_DEADLOCK FALSE
INVARIANT SingleEntry
