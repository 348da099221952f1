SPECIFICATION FairSpec
CONSTANTS
  Claims = {k1}
  Tickets = {t1, t2, t3, t4}
  Guests = {g1}
  Workers = {w1, w2}
  NoWorker = NoWorker
  NoClaim = NoClaim
  NoGuest = NoGuest
  MaxRequests = 4
  MaxAborts = 1
CHECK_DEADLOCK FALSE
INVARIANTS ClaimsBacked ClaimBound EntryBound
PROPERTIES ImplementsGate RequestsEnd
