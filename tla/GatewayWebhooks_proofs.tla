----------------------- MODULE GatewayWebhooks_proofs -----------------------
(* Proofs about GatewayWebhooks: no client the limiter remembers exceeds its *)
(* limit, work on a key starts once per time to live, and a duplicate is one *)
(* of a request that work was begun for.                                     *)
EXTENDS GatewayWebhooks, FiniteSetTheorems, TLAPS

\* Both maps are bounded by what they hold, so they are finite, and so are the lists.
Finite ==
    /\ IsFiniteSet(DOMAIN requests) /\ IsFiniteSet(DOMAIN keys)
    /\ \A c \in DOMAIN requests : IsFiniteSet(requests[c])

\* No list outgrows the limit: it is pruned before it is added to.
Bounded == \A c \in DOMAIN requests : Cardinality(requests[c]) <= limit

\* What was let in within the window is in the client's list.
Listed ==
    \A c \in Client :
       Recent(admitted[c]) \subseteq IF c \in DOMAIN requests THEN requests[c] ELSE {}

\* A key whose work started within its time to live is in the store, as old as that work.
Remembered ==
    \A k \in DOMAIN since :
       clock - since[k] < Ttl => k \in DOMAIN keys /\ keys[k] = since[k]

\* Every key in the store is one that work was begun for.
Worked == DOMAIN keys \subseteq begun

IInv == TypeOK /\ Finite /\ Bounded /\ Listed /\ Remembered /\ Worked
------------------------------------------------------------------------------
LEMMA InitInv == ASSUME Init PROVE IInv
<1>1. /\ DOMAIN requests = {} /\ DOMAIN keys = {} /\ DOMAIN since = {}
      /\ IsFiniteSet(DOMAIN requests) /\ IsFiniteSet(DOMAIN keys)
  BY FS_EmptySet DEF Init
<1>2. Cardinality(DOMAIN requests) = 0 /\ Cardinality(DOMAIN keys) = 0
  BY <1>1, FS_EmptySet
<1>3. Limits \subseteq Nat /\ Horizon \in Nat /\ MaxRequests \in Nat /\ MaxCrashes \in Nat
      /\ MaxClients \in Nat /\ MaxKeys \in Nat
  BY GatewayAssumption
<1>4. call \in [Handler -> Call] /\ outcome \in Outcomes
  BY DEF Init, Call, Outcomes
<1>5. admitted \in [Client -> SUBSET Entries]
  BY DEF Init
<1>6. sweep \in Times /\ clock \in 0 .. Horizon
  BY <1>3 DEF Init, Times
<1>7. TypeOK
  BY <1>1, <1>2, <1>3, <1>4, <1>5, <1>6 DEF Init, TypeOK
<1>8. Listed
  BY DEF Init, Listed, Recent
<1> QED
  BY <1>1, <1>7, <1>8 DEF IInv, Finite, Bounded, Remembered, Worked
------------------------------------------------------------------------------
(* The limiter.                                                              *)

\* s is r after stale entries were dropped and the clients in gone forgotten.
Keeps(r, s, gone) ==
    /\ DOMAIN s \subseteq DOMAIN r
    /\ \A d \in DOMAIN s : s[d] \subseteq r[d] /\ Recent(r[d]) \subseteq s[d]
    /\ \A d \in DOMAIN r \ DOMAIN s : d \in gone \/ Recent(r[d]) = {}

\* Pruning forgets nothing recent (prune_stale).
LEMMA PrunedKeeps == ASSUME NEW r PROVE Keeps(r, Pruned(r), {})
  BY DEF Keeps, Pruned, Recent

LEMMA KeepsAgain ==
    ASSUME NEW r, NEW s, NEW t, NEW gone, Keeps(r, s, {}), Keeps(s, t, gone)
    PROVE  Keeps(r, t, gone)
<1>1. ASSUME NEW d \in DOMAIN t PROVE t[d] \subseteq r[d] /\ Recent(r[d]) \subseteq t[d]
  <2>1. d \in DOMAIN s /\ t[d] \subseteq s[d] /\ s[d] \subseteq r[d]
    BY <1>1 DEF Keeps
  <2>2. Recent(r[d]) \subseteq s[d] /\ Recent(s[d]) \subseteq t[d]
    BY <1>1, <2>1 DEF Keeps
  <2> QED
    BY <2>1, <2>2 DEF Recent
<1>2. ASSUME NEW d \in DOMAIN r \ DOMAIN t PROVE d \in gone \/ Recent(r[d]) = {}
  <2>1. CASE d \in DOMAIN s
    <3>1. d \in gone \/ Recent(s[d]) = {}
      BY <1>2, <2>1 DEF Keeps
    <3>2. Recent(r[d]) \subseteq s[d]
      BY <2>1 DEF Keeps
    <3> QED
      BY <3>1, <3>2 DEF Recent
  <2>2. CASE d \notin DOMAIN s
    BY <1>2, <2>2 DEF Keeps
  <2> QED
    BY <2>1, <2>2
<1> QED
  BY <1>1, <1>2 DEF Keeps

LEMMA SweptKeeps == Keeps(requests, Swept, {})
<1>1. CASE Sweeping
  BY <1>1, PrunedKeeps DEF Swept
<1>2. CASE ~Sweeping
  BY <1>2 DEF Swept, Keeps, Recent
<1> QED
  BY <1>1, <1>2

\* What a client finds when it arrives: room, and nothing recent lost but what was evicted.
LEMMA RoomKeeps ==
    ASSUME NEW c, NEW room \in MakeRoom(c)
    PROVE  Keeps(requests, room.map, room.gone)
<1> DEFINE r == Pruned(Swept)
<1>1. Keeps(requests, Swept, {}) /\ Keeps(requests, r, {})
  BY SweptKeeps, PrunedKeeps, KeepsAgain
<1>2. ASSUME NEW d \in LongestSilent(r) PROVE Keeps(r, Without(r, d), {d})
  BY DEF Keeps, Without, Recent
<1>3. ASSUME NEW d \in LongestSilent(r) PROVE Keeps(requests, Without(r, d), {d})
  BY <1>1, <1>2, <1>3, KeepsAgain
<1>4. \/ room = [map |-> Swept, gone |-> {}]
      \/ room = [map |-> r, gone |-> {}]
      \/ \E d \in LongestSilent(r) : room = [map |-> Without(r, d), gone |-> {d}]
  BY DEF MakeRoom
<1> QED
  BY <1>1, <1>3, <1>4

LEMMA RoomFor ==
    ASSUME MaxClients \in Nat \ {0}, IsFiniteSet(DOMAIN requests),
           Cardinality(DOMAIN requests) <= MaxClients,
           NEW c, NEW room \in MakeRoom(c)
    PROVE  /\ IsFiniteSet(DOMAIN room.map)
           /\ Cardinality(DOMAIN room.map \cup {c}) <= MaxClients
<1> DEFINE r == Pruned(Swept)
<1>1. ASSUME NEW s, DOMAIN s \subseteq DOMAIN requests
      PROVE  /\ IsFiniteSet(DOMAIN s) /\ Cardinality(DOMAIN s) \in Nat
             /\ Cardinality(DOMAIN s) <= MaxClients
  <2>1. IsFiniteSet(DOMAIN s) /\ Cardinality(DOMAIN s) <= Cardinality(DOMAIN requests)
    BY <1>1, FS_Subset
  <2>2. Cardinality(DOMAIN s) \in Nat /\ Cardinality(DOMAIN requests) \in Nat
    BY <2>1, FS_CardinalityType
  <2> QED
    BY <2>1, <2>2
<1>2. DOMAIN Swept \subseteq DOMAIN requests /\ DOMAIN r \subseteq DOMAIN requests
  BY SweptKeeps, PrunedKeeps, KeepsAgain DEF Keeps
<1>3. ASSUME NEW s, DOMAIN s \subseteq DOMAIN requests, ~Crowded(c, s)
      PROVE  Cardinality(DOMAIN s \cup {c}) <= MaxClients
  <2>1. IsFiniteSet(DOMAIN s) /\ Cardinality(DOMAIN s) \in Nat
        /\ Cardinality(DOMAIN s) <= MaxClients
    BY <1>1, <1>3
  <2>2. CASE c \in DOMAIN s
    <3>1. DOMAIN s \cup {c} = DOMAIN s
      BY <2>2
    <3> QED
      BY <2>1, <3>1
  <2>3. CASE c \notin DOMAIN s
    <3>1. Cardinality(DOMAIN s) < MaxClients
      BY <1>3, <2>1, <2>3 DEF Crowded
    <3>2. Cardinality(DOMAIN s \cup {c}) = Cardinality(DOMAIN s) + 1
      BY <2>1, <2>3, FS_AddElement
    <3> QED
      BY <2>1, <3>1, <3>2
  <2> QED
    BY <2>2, <2>3
<1>4. ASSUME NEW d \in DOMAIN r
      PROVE  /\ IsFiniteSet(DOMAIN Without(r, d))
             /\ Cardinality(DOMAIN Without(r, d) \cup {c}) <= MaxClients
  <2>1. DOMAIN Without(r, d) = DOMAIN r \ {d}
    BY DEF Without
  <2>2. IsFiniteSet(DOMAIN r) /\ Cardinality(DOMAIN r) \in Nat
        /\ Cardinality(DOMAIN r) <= MaxClients
    BY <1>1, <1>2
  <2>3. /\ IsFiniteSet(DOMAIN r \ {d})
        /\ Cardinality(DOMAIN r \ {d}) = Cardinality(DOMAIN r) - 1
    BY <2>2, <1>4, FS_RemoveElement
  <2>4. \/ Cardinality((DOMAIN r \ {d}) \cup {c}) = Cardinality(DOMAIN r \ {d}) + 1
        \/ (DOMAIN r \ {d}) \cup {c} = DOMAIN r \ {d}
    BY <2>3, FS_AddElement
  <2>5. Cardinality((DOMAIN r \ {d}) \cup {c}) <= MaxClients
    <3> HIDE DEF r
    <3> QED
      BY <2>2, <2>3, <2>4
  <2> QED
    BY <2>1, <2>3, <2>5
<1>5. CASE room = [map |-> Swept, gone |-> {}] /\ ~Crowded(c, Swept)
  BY <1>1, <1>2, <1>3, <1>5
<1>6. CASE room = [map |-> r, gone |-> {}] /\ ~Crowded(c, r)
  BY <1>1, <1>2, <1>3, <1>6
<1>7. CASE \E d \in LongestSilent(r) : room = [map |-> Without(r, d), gone |-> {d}]
  BY <1>4, <1>7 DEF LongestSilent
<1>8. CASE ~Crowded(c, Swept)
  BY <1>5, <1>8 DEF MakeRoom
<1>9. CASE Crowded(c, Swept) /\ ~Crowded(c, r)
  BY <1>6, <1>9 DEF MakeRoom
<1>10. CASE Crowded(c, Swept) /\ Crowded(c, r)
  BY <1>7, <1>10 DEF MakeRoom
<1> QED
  BY <1>8, <1>9, <1>10

\* A list of at most limit recent requests stands for c, and c's old list is forgotten.
LEMMA ListedAgain ==
    ASSUME IInv, NEW c \in Client, NEW room \in MakeRoom(c), NEW log,
           limit \in Nat, clock' = clock, limit' = limit,
           log = IF c \in DOMAIN room.map THEN Recent(room.map[c]) ELSE {},
           NEW new \in SUBSET Entries', IsFiniteSet(log \cup new),
           Cardinality(log \cup new) <= limit,
           requests' = With(room.map, c, log \cup new),
           admitted' = [d \in Client |->
                          (IF d \in room.gone THEN {} ELSE admitted[d])
                            \cup (IF d = c THEN new ELSE {})]
    PROVE  /\ DOMAIN requests' \subseteq Client /\ IsFiniteSet(DOMAIN requests')
           /\ Cardinality(DOMAIN requests') <= MaxClients
           /\ (\A d \in DOMAIN requests' : IsFiniteSet(requests'[d]))
           /\ Bounded' /\ Listed'
<1>1. Keeps(requests, room.map, room.gone)
  BY RoomKeeps
<1>2. /\ DOMAIN requests \subseteq Client /\ IsFiniteSet(DOMAIN requests)
      /\ Cardinality(DOMAIN requests) <= MaxClients /\ MaxClients \in Nat \ {0}
  BY GatewayAssumption DEF IInv, TypeOK, Finite
<1>3. /\ IsFiniteSet(DOMAIN room.map)
      /\ Cardinality(DOMAIN room.map \cup {c}) <= MaxClients
  BY <1>2, RoomFor
<1>4. /\ DOMAIN requests' = DOMAIN room.map \cup {c}
      /\ requests'[c] = log \cup new
      /\ \A d \in DOMAIN room.map \ {c} : requests'[d] = room.map[d]
  BY DEF With
<1>5. DOMAIN requests' \subseteq Client /\ IsFiniteSet(DOMAIN requests')
      /\ Cardinality(DOMAIN requests') <= MaxClients
  BY <1>1, <1>2, <1>3, <1>4, FS_AddElement DEF Keeps
<1>6. ASSUME NEW d \in DOMAIN requests'
      PROVE  IsFiniteSet(requests'[d]) /\ Cardinality(requests'[d]) <= limit
  <2>1. CASE d = c
    BY <1>4, <2>1
  <2>2. CASE d # c
    <3>1. d \in DOMAIN requests /\ requests'[d] \subseteq requests[d]
      BY <1>1, <1>4, <1>6, <2>2 DEF Keeps
    <3>2. IsFiniteSet(requests[d]) /\ Cardinality(requests[d]) <= limit
      BY <3>1 DEF IInv, Finite, Bounded
    <3>3. IsFiniteSet(requests'[d]) /\ Cardinality(requests'[d]) <= Cardinality(requests[d])
      BY <3>1, <3>2, FS_Subset
    <3>4. Cardinality(requests'[d]) \in Nat /\ Cardinality(requests[d]) \in Nat
      BY <3>2, <3>3, FS_CardinalityType
    <3> QED
      BY <3>2, <3>3, <3>4
  <2> QED
    BY <2>1, <2>2
<1>7. ASSUME NEW d \in Client, NEW e \in Recent(admitted[d]), d \notin room.gone
      PROVE  d \in DOMAIN room.map /\ e \in room.map[d]
  <2>1. d \in DOMAIN requests /\ e \in requests[d] /\ e \in Recent(requests[d])
    BY <1>7 DEF IInv, Listed, Recent
  <2> QED
    BY <1>1, <1>7, <2>1 DEF Keeps
<1>8. Listed'
  <2> SUFFICES ASSUME NEW d \in Client, NEW e \in Recent(admitted[d])'
               PROVE  d \in DOMAIN requests' /\ e \in requests'[d]
    BY DEF Listed
  <2>1. CASE d = c /\ e \in new
    BY <1>4, <2>1
  <2>2. CASE ~(d = c /\ e \in new)
    <3>1. d \notin room.gone /\ e \in Recent(admitted[d])
      BY <2>2 DEF Recent
    <3>2. d \in DOMAIN room.map /\ e \in room.map[d]
      BY <1>7, <3>1
    <3>3. d = c => e \in log
      BY <3>1, <3>2 DEF Recent
    <3> QED
      BY <1>4, <3>2, <3>3
  <2> QED
    BY <2>1, <2>2
<1> QED
  BY <1>5, <1>6, <1>8 DEF Bounded

LEMMA ArriveInv ==
    ASSUME IInv, NEW h \in Handler, NEW c \in Client, NEW k \in Key \cup {NoKey},
           Arrive(h, c, k)
    PROVE  IInv'
<1>1. limit \in Nat /\ clock \in Nat /\ sent \in Nat /\ sent' = sent + 1 /\ sent < MaxRequests
      /\ MaxRequests \in Nat /\ Horizon \in Nat
  BY GatewayAssumption DEF IInv, TypeOK, Arrive
<1>2. sent' \in 0 .. MaxRequests
  BY <1>1
<1>3. Entries \subseteq Entries' /\ Times' = Times /\ Entry(clock, sent) \in Entries'
  BY <1>1 DEF Entries, Times, Entry, Arrive
<1>4. UNCHANGED <<limit, clock, store, processed, crashes>>
  BY DEF Arrive
<1>5. UNCHANGED <<keys, since, begun>>
  BY <1>4 DEF store
<1>6. Remembered' /\ Worked'
  BY <1>4, <1>5 DEF IInv, Remembered, Worked
<1>7. ASSUME /\ sweep' \in Times /\ outcome' \in Outcomes
             /\ call' = call \/ call' = [call EXCEPT ![h] = [phase |-> "checking", key |-> k]]
             /\ DOMAIN requests' \subseteq Client /\ IsFiniteSet(DOMAIN requests')
             /\ Cardinality(DOMAIN requests') <= MaxClients
             /\ \A d \in DOMAIN requests' : requests'[d] \subseteq Entries' /\ IsFiniteSet(requests'[d])
             /\ admitted' \in [Client -> SUBSET Entries']
             /\ Bounded' /\ Listed'
      PROVE  IInv'
  <2>1. [phase |-> "checking", key |-> k] \in Call
    BY DEF Call
  <2>2. call' \in [Handler -> Call]
    BY <1>7, <2>1 DEF IInv, TypeOK
  <2>3. (limit \in Limits /\ clock \in 0 .. Horizon /\ crashes \in 0 .. MaxCrashes
         /\ begun \cup processed \subseteq Key \cup {NoKey})'
    BY <1>4, <1>5 DEF IInv, TypeOK
  <2>4. /\ DOMAIN keys' \subseteq Key /\ Cardinality(DOMAIN keys') <= MaxKeys
        /\ \A l \in DOMAIN keys' : keys'[l] \in Times'
        /\ DOMAIN since' \subseteq Key /\ \A l \in DOMAIN since' : since'[l] \in Times'
    BY <1>3, <1>5 DEF IInv, TypeOK
  <2>5. TypeOK'
    BY <1>2, <1>3, <1>7, <2>2, <2>3, <2>4 DEF TypeOK
  <2>6. Finite'
    BY <1>5, <1>7 DEF IInv, Finite
  <2> QED
    BY <1>6, <1>7, <2>5, <2>6 DEF IInv
<1>8. CASE limit = 0
  <2>1. UNCHANGED <<requests, sweep, admitted, outcome>>
        /\ call' = [call EXCEPT ![h] = [phase |-> "checking", key |-> k]]
    BY <1>8 DEF Arrive, limiter
  <2>2. Bounded' /\ Listed'
    BY <1>4, <2>1 DEF IInv, Bounded, Listed, Recent
  <2>3. /\ sweep \in Times /\ outcome \in Outcomes
        /\ DOMAIN requests \subseteq Client /\ IsFiniteSet(DOMAIN requests)
        /\ Cardinality(DOMAIN requests) <= MaxClients
        /\ \A d \in DOMAIN requests : requests[d] \subseteq Entries /\ IsFiniteSet(requests[d])
        /\ admitted \in [Client -> SUBSET Entries]
    BY DEF IInv, TypeOK, Finite
  <2> QED
    BY <1>3, <1>7, <2>1, <2>2, <2>3
<1>9. CASE limit # 0
  <2>1. PICK room \in MakeRoom(c) :
          LET log == IF c \in DOMAIN room.map THEN Recent(room.map[c]) ELSE {}
              forgetful == [d \in Client |-> IF d \in room.gone THEN {} ELSE admitted[d]]
          IN  /\ sweep' = IF Sweeping \/ Crowded(c, Swept) THEN clock ELSE sweep
              /\ IF Full(log)
                 THEN /\ requests' = With(room.map, c, log)
                      /\ admitted' = forgetful
                      /\ outcome' = "limited"
                      /\ UNCHANGED call
                 ELSE /\ requests' = With(room.map, c, log \cup {Entry(clock, sent)})
                      /\ admitted' = [forgetful EXCEPT ![c] = @ \cup {Entry(clock, sent)}]
                      /\ call' = [call EXCEPT ![h] = [phase |-> "checking", key |-> k]]
                      /\ UNCHANGED outcome
    BY <1>9 DEF Arrive
  <2> DEFINE log == IF c \in DOMAIN room.map THEN Recent(room.map[c]) ELSE {}
             new == IF Full(log) THEN {} ELSE {Entry(clock, sent)}
             forgetful == [d \in Client |-> IF d \in room.gone THEN {} ELSE admitted[d]]
  <2>2. /\ requests' = With(room.map, c, log \cup new)
        /\ admitted' = IF Full(log) THEN forgetful
                       ELSE [forgetful EXCEPT ![c] = @ \cup {Entry(clock, sent)}]
        /\ sweep' \in {sweep, clock} /\ outcome' \in {outcome, "limited"}
        /\ call' = call \/ call' = [call EXCEPT ![h] = [phase |-> "checking", key |-> k]]
    <3>1. CASE Full(log)
      <4>1. log \cup new = log
        BY <3>1
      <4> QED
        BY <2>1, <3>1, <4>1
    <3>2. CASE ~Full(log)
      BY <2>1, <3>2
    <3> QED
      BY <3>1, <3>2
  <2>3. admitted' = [d \in Client |-> (IF d \in room.gone THEN {} ELSE admitted[d])
                                        \cup (IF d = c THEN new ELSE {})]
    BY <2>2
  <2>4. /\ log \subseteq IF c \in DOMAIN requests THEN requests[c] ELSE {}
        /\ new \subseteq Entries'
    BY <1>3, RoomKeeps DEF Keeps, Recent
  <2>5. IsFiniteSet(log) /\ Cardinality(log) \in Nat /\ Cardinality(log) <= limit
    <3>1. CASE c \in DOMAIN requests
      <4>1. IsFiniteSet(requests[c]) /\ Cardinality(requests[c]) <= limit
        BY <3>1 DEF IInv, Finite, Bounded
      <4>2. IsFiniteSet(log) /\ Cardinality(log) <= Cardinality(requests[c])
        BY <2>4, <3>1, <4>1, FS_Subset
      <4>3. Cardinality(log) \in Nat /\ Cardinality(requests[c]) \in Nat
        BY <4>1, <4>2, FS_CardinalityType
      <4> QED
        BY <1>1, <4>1, <4>2, <4>3
    <3>2. CASE c \notin DOMAIN requests
      BY <1>1, <2>4, <3>2, FS_EmptySet
    <3> QED
      BY <3>1, <3>2
  <2>6. IsFiniteSet(log \cup new) /\ Cardinality(log \cup new) <= limit
    <3>1. CASE Full(log)
      <4>1. log \cup new = log
        BY <3>1
      <4> QED
        BY <2>5, <4>1
    <3>2. CASE ~Full(log)
      <4>1. Cardinality(log) < limit
        BY <1>1, <2>5, <3>2 DEF Full
      <4>2. /\ IsFiniteSet(log \cup {Entry(clock, sent)})
            /\ \/ Cardinality(log \cup {Entry(clock, sent)}) = Cardinality(log)
               \/ Cardinality(log \cup {Entry(clock, sent)}) = Cardinality(log) + 1
        BY <2>5, FS_AddElement
      <4>3. new = {Entry(clock, sent)}
        BY <3>2
      <4> HIDE DEF log, new
      <4> QED
        BY <1>1, <2>5, <4>1, <4>2, <4>3
    <3> QED
      BY <3>1, <3>2
  <2> HIDE DEF log, new
  <2>7. /\ DOMAIN requests' \subseteq Client /\ IsFiniteSet(DOMAIN requests')
        /\ Cardinality(DOMAIN requests') <= MaxClients
        /\ (\A d \in DOMAIN requests' : IsFiniteSet(requests'[d]))
        /\ Bounded' /\ Listed'
    BY <1>1, <1>4, <2>2, <2>3, <2>4, <2>6, ListedAgain DEF log
  <2>8. ASSUME NEW d \in DOMAIN requests' PROVE requests'[d] \subseteq Entries'
    <3>1. \A e \in DOMAIN requests : requests[e] \subseteq Entries
      BY DEF IInv, TypeOK
    <3>2. d \in DOMAIN room.map \/ d = c
      BY <2>2, <2>8 DEF With
    <3>3. CASE d = c
      BY <1>3, <2>2, <2>4, <3>1, <3>3 DEF With
    <3>4. CASE d # c
      <4>1. requests'[d] = room.map[d]
        BY <2>2, <3>2, <3>4 DEF With
      <4>2. d \in DOMAIN requests /\ room.map[d] \subseteq requests[d]
        BY <3>2, <3>4, RoomKeeps DEF Keeps
      <4> QED
        BY <1>3, <3>1, <4>1, <4>2
    <3> QED
      BY <3>3, <3>4
  <2>9. admitted' \in [Client -> SUBSET Entries']
    BY <1>3, <2>3, <2>4 DEF IInv, TypeOK
  <2>10. sweep' \in Times /\ outcome' \in Outcomes
    BY <1>1, <2>2 DEF IInv, TypeOK, Times, Outcomes
  <2> QED
    BY <1>7, <2>2, <2>7, <2>8, <2>9, <2>10
<1> QED
  BY <1>8, <1>9
------------------------------------------------------------------------------
(* The idempotency store.                                                    *)

\* Recording k leaves the store within its bound, whichever key made room for it.
LEMMA StoredFits ==
    ASSUME IInv, NEW k \in Key \ LiveKeys,
           NEW gone \in IF Cardinality(LiveKeys) >= MaxKeys
                        THEN {{l} : l \in Oldest(LiveKeys)} ELSE {{}}
    PROVE  /\ DOMAIN Stored(k, gone) = (LiveKeys \ gone) \cup {k}
           /\ IsFiniteSet(DOMAIN Stored(k, gone))
           /\ Cardinality(DOMAIN Stored(k, gone)) <= MaxKeys
<1>1. /\ MaxKeys \in Nat \ {0} /\ LiveKeys \subseteq DOMAIN keys
      /\ IsFiniteSet(DOMAIN keys) /\ Cardinality(DOMAIN keys) <= MaxKeys
  BY GatewayAssumption DEF IInv, TypeOK, Finite, LiveKeys
<1>2. IsFiniteSet(LiveKeys) /\ Cardinality(LiveKeys) <= Cardinality(DOMAIN keys)
  BY <1>1, FS_Subset
<1>3. Cardinality(LiveKeys) \in Nat /\ Cardinality(DOMAIN keys) \in Nat
  BY <1>1, <1>2, FS_CardinalityType
<1>4. DOMAIN Stored(k, gone) = (LiveKeys \ gone) \cup {k}
  BY DEF Stored, With
<1>5. IsFiniteSet(LiveKeys \ gone) /\ Cardinality(LiveKeys \ gone) < MaxKeys
  <2>1. CASE Cardinality(LiveKeys) >= MaxKeys
    <3>1. PICK l \in LiveKeys : gone = {l}
      BY <2>1 DEF Oldest
    <3>2. /\ IsFiniteSet(LiveKeys \ {l})
          /\ Cardinality(LiveKeys \ {l}) = Cardinality(LiveKeys) - 1
      BY <1>2, FS_RemoveElement
    <3> QED
      BY <1>1, <1>2, <1>3, <3>1, <3>2
  <2>2. CASE ~(Cardinality(LiveKeys) >= MaxKeys)
    <3>1. LiveKeys \ gone = LiveKeys
      BY <2>2
    <3> QED
      BY <1>1, <1>2, <1>3, <2>2, <3>1
  <2> QED
    BY <2>1, <2>2
<1>6. Cardinality(LiveKeys \ gone) \in Nat
  BY <1>5, FS_CardinalityType
<1>7. /\ IsFiniteSet((LiveKeys \ gone) \cup {k})
      /\ \/ Cardinality((LiveKeys \ gone) \cup {k}) = Cardinality(LiveKeys \ gone)
         \/ Cardinality((LiveKeys \ gone) \cup {k}) = Cardinality(LiveKeys \ gone) + 1
  BY <1>5, FS_AddElement
<1>8. Cardinality((LiveKeys \ gone) \cup {k}) <= MaxKeys
  BY <1>1, <1>5, <1>6, <1>7
<1> QED
  BY <1>4, <1>7, <1>8

\* Which part of the invariant the idempotency store is concerned with.
Stores ==
    /\ DOMAIN keys \subseteq Key /\ Cardinality(DOMAIN keys) <= MaxKeys
    /\ IsFiniteSet(DOMAIN keys)
    /\ \A k \in DOMAIN keys : keys[k] \in Times
    /\ DOMAIN since \subseteq Key /\ \A k \in DOMAIN since : since[k] \in Times
    /\ begun \subseteq Key \cup {NoKey}
    /\ Remembered /\ Worked

\* A step that leaves the limiter and the clock alone keeps the rest.
LEMMA LimiterKept ==
    ASSUME IInv, UNCHANGED <<limit, clock, limiter, sent>>, Stores',
           call' \in [Handler -> Call], outcome' \in Outcomes,
           processed' \subseteq Key \cup {NoKey}, crashes' = crashes
    PROVE  IInv'
<1>1. UNCHANGED <<requests, sweep, admitted>>
  BY DEF limiter
<1>2. Times' = Times /\ Entries' = Entries
  BY DEF Times, Entries
<1>3. TypeOK'
  BY <1>1, <1>2 DEF IInv, TypeOK, Stores
<1>4. Finite'
  BY <1>1 DEF IInv, Finite, Stores
<1>5. Bounded' /\ Listed'
  BY <1>1 DEF IInv, Bounded, Listed, Recent
<1> QED
  BY <1>3, <1>4, <1>5 DEF IInv, Stores

LEMMA StoresKept ==
    ASSUME IInv, UNCHANGED <<clock, store>> PROVE Stores'
  BY DEF IInv, TypeOK, Finite, Remembered, Worked, Stores, store, Times

\* A checking request has a key of its own, or none.
LEMMA AnsweredType ==
    ASSUME IInv, NEW h \in Handler, NEW o \in Outcomes, Answered(h, o)
    PROVE  call' \in [Handler -> Call] /\ outcome' \in Outcomes
<1>1. Idle \in Call
  BY DEF Call
<1> QED
  BY <1>1 DEF IInv, TypeOK, Answered

LEMMA BusyKey ==
    ASSUME IInv, NEW h \in Handler, call[h].phase \in {"checking", "working"}
    PROVE  /\ call[h] \in [phase : {"checking", "working"}, key : Key \cup {NoKey}]
           /\ call[h].key \in Key \cup {NoKey}
<1>1. call[h] \in Call
  BY DEF IInv, TypeOK
<1>2. call[h] # Idle
  BY DEF Idle
<1> QED
  BY <1>1, <1>2 DEF Call

LEMMA BeginType ==
    ASSUME IInv, NEW h \in Handler, call[h].phase = "checking", Begin(h)
    PROVE  call' \in [Handler -> Call]
<1>1. [call[h] EXCEPT !.phase = "working"] \in Call
  BY BusyKey DEF Call
<1>2. call' = [call EXCEPT ![h] = [call[h] EXCEPT !.phase = "working"]]
  BY DEF Begin
<1> QED
  BY <1>1, <1>2 DEF IInv, TypeOK

LEMMA CheckInInv ==
    ASSUME IInv, NEW h \in Handler, CheckIn(h)
    PROVE  IInv'
<1> DEFINE k == call[h].key
<1>1. /\ call[h].phase = "checking"
      /\ UNCHANGED <<limit, clock, limiter, processed, sent, crashes>>
  BY DEF CheckIn
<1>2. k \in Key \cup {NoKey} /\ NoKey \notin Key
  BY <1>1, BusyKey, GatewayAssumption
<1>3. outcome \in Outcomes /\ processed' \subseteq Key \cup {NoKey} /\ clock \in Nat
  BY <1>1, GatewayAssumption DEF IInv, TypeOK
<1>4. LiveKeys \subseteq DOMAIN keys /\ \A l \in LiveKeys : clock - keys[l] < Ttl
  BY DEF LiveKeys
<1>5. CASE Answered(h, "rejected") /\ UNCHANGED store
  <2>1. "rejected" \in Outcomes
    BY DEF Outcomes
  <2> QED
    BY <1>1, <1>3, <1>5, <2>1, AnsweredType, StoresKept, LimiterKept
<1>6. CASE k = NoKey /\ Begin(h) /\ UNCHANGED <<keys, since, outcome>>
  <2>1. Stores'
    BY <1>1, <1>2, <1>6
       DEF IInv, TypeOK, Finite, Remembered, Worked, Stores, Begin, Times
  <2> QED
    BY <1>1, <1>3, <1>6, <2>1, BeginType, LimiterKept
<1>7. CASE /\ keys' = [l \in LiveKeys |-> keys[l]]
           /\ Answered(h, "duplicate") /\ UNCHANGED <<since, begun>>
  <2>1. "duplicate" \in Outcomes
    BY DEF Outcomes
  <2>2. /\ IsFiniteSet(DOMAIN keys) /\ Cardinality(DOMAIN keys) <= MaxKeys
        /\ MaxKeys \in Nat
    BY GatewayAssumption DEF IInv, TypeOK, Finite
  <2>3. IsFiniteSet(LiveKeys) /\ Cardinality(LiveKeys) <= Cardinality(DOMAIN keys)
    BY <1>4, <2>2, FS_Subset
  <2>4. Cardinality(LiveKeys) \in Nat /\ Cardinality(DOMAIN keys) \in Nat
    BY <2>2, <2>3, FS_CardinalityType
  <2>5. DOMAIN keys' = LiveKeys /\ \A l \in LiveKeys : keys'[l] = keys[l]
    BY <1>7
  <2>6. Remembered' /\ Worked'
    BY <1>1, <1>4, <1>7, <2>5 DEF IInv, Remembered, Worked, LiveKeys
  <2>7. Stores'
    BY <1>1, <1>4, <1>7, <2>2, <2>3, <2>4, <2>5, <2>6 DEF IInv, TypeOK, Stores, Times
  <2> QED
    BY <1>1, <1>3, <1>7, <2>1, <2>7, AnsweredType, LimiterKept
<1>8. CASE /\ k \in Key \ LiveKeys
           /\ \E gone \in IF Cardinality(LiveKeys) >= MaxKeys
                          THEN {{l} : l \in Oldest(LiveKeys)} ELSE {{}} :
                 /\ keys' = Stored(k, gone)
                 /\ since' = With([l \in DOMAIN since \ gone |-> since[l]], k, clock)
           /\ Begin(h) /\ UNCHANGED outcome
  <2>1. PICK gone \in IF Cardinality(LiveKeys) >= MaxKeys
                      THEN {{l} : l \in Oldest(LiveKeys)} ELSE {{}} :
              /\ keys' = Stored(k, gone)
              /\ since' = With([l \in DOMAIN since \ gone |-> since[l]], k, clock)
    BY <1>8
  <2>2. /\ DOMAIN keys' = (LiveKeys \ gone) \cup {k}
        /\ IsFiniteSet(DOMAIN keys') /\ Cardinality(DOMAIN keys') <= MaxKeys
    BY <1>8, <2>1, StoredFits
  <2>3. keys'[k] = clock /\ \A l \in LiveKeys \ gone : l # k /\ keys'[l] = keys[l]
    BY <1>8, <2>1 DEF Stored, With
  <2>4. /\ DOMAIN since' = (DOMAIN since \ gone) \cup {k}
        /\ since'[k] = clock /\ \A l \in DOMAIN since \ gone : l # k => since'[l] = since[l]
    BY <2>1 DEF With
  <2>5. begun' = begun \cup {k}
    BY <1>8 DEF Begin
  <2>6. Worked'
    BY <1>4, <2>2, <2>5 DEF IInv, Worked
  <2>7. Remembered'
    <3> SUFFICES ASSUME NEW l \in DOMAIN since', clock - since'[l] < Ttl
                 PROVE  l \in DOMAIN keys' /\ keys'[l] = since'[l]
      BY <1>1 DEF Remembered
    <3>1. CASE l = k
      BY <2>2, <2>3, <2>4, <3>1
    <3>2. CASE l # k
      <4>1. l \in DOMAIN since \ gone /\ since'[l] = since[l]
        BY <2>4, <3>2
      <4>2. l \in LiveKeys \ gone /\ keys[l] = since[l]
        BY <4>1 DEF IInv, Remembered, LiveKeys
      <4> QED
        BY <2>2, <2>3, <4>1, <4>2
    <3> QED
      BY <3>1, <3>2
  <2>8. clock \in Times' /\ Times' = Times
    BY <1>1, <1>3 DEF Times
  <2>9. /\ DOMAIN keys' \subseteq Key /\ DOMAIN since' \subseteq Key
        /\ begun' \subseteq Key \cup {NoKey}
        /\ \A l \in DOMAIN keys' : keys'[l] \in Times'
        /\ \A l \in DOMAIN since' : since'[l] \in Times'
    BY <1>4, <1>8, <2>2, <2>3, <2>4, <2>5, <2>8 DEF IInv, TypeOK
  <2>10. Stores'
    BY <2>2, <2>6, <2>7, <2>9 DEF Stores
  <2> QED
    BY <1>1, <1>3, <1>8, <2>10, BeginType, LimiterKept
<1> QED
  BY <1>5, <1>6, <1>7, <1>8 DEF CheckIn

LEMMA FinishInv ==
    ASSUME IInv, NEW h \in Handler, Finish(h) \/ Drop(h)
    PROVE  IInv'
<1>1. /\ call[h].phase = "working"
      /\ UNCHANGED <<limit, clock, limiter, store, sent, crashes>>
  BY DEF Finish, Drop
<1>2. \E o \in {"answered", "failed", "dropped"} : Answered(h, o)
  BY DEF Finish, Drop
<1>3. call' \in [Handler -> Call] /\ outcome' \in Outcomes
  BY <1>2, AnsweredType DEF Outcomes
<1>4. processed' \subseteq Key \cup {NoKey}
  <2>1. call[h].key \in Key \cup {NoKey}
    BY <1>1, BusyKey
  <2>2. processed' \subseteq processed \cup {call[h].key}
    BY DEF Finish, Drop
  <2> QED
    BY <2>1, <2>2 DEF IInv, TypeOK
<1> QED
  BY <1>1, <1>3, <1>4, StoresKept, LimiterKept
------------------------------------------------------------------------------
LEMMA TickInv == ASSUME IInv, Tick PROVE IInv'
<1>1. /\ clock < Horizon /\ clock' = clock + 1 /\ clock \in Nat /\ Horizon \in Nat
      /\ Window \in Nat /\ Ttl \in Nat
      /\ UNCHANGED <<limit, limiter, store, call, outcome, processed, sent, crashes>>
  BY GatewayAssumption DEF IInv, TypeOK, Tick
<1>2. UNCHANGED <<requests, sweep, admitted, keys, since, begun>>
  BY <1>1 DEF limiter, store
<1>3. Times \subseteq Times' /\ clock' \in 0 .. Horizon
  BY <1>1 DEF Times
<1>4. Entries \subseteq Entries'
  BY <1>1, <1>3 DEF Entries
<1>5. TypeOK'
  <2>1. \A k \in DOMAIN keys : keys[k] \in Times'
    BY <1>3 DEF IInv, TypeOK
  <2>2. \A k \in DOMAIN since : since[k] \in Times'
    BY <1>3 DEF IInv, TypeOK
  <2>3. \A c \in DOMAIN requests : requests[c] \subseteq Entries'
    BY <1>4 DEF IInv, TypeOK
  <2>4. admitted \in [Client -> SUBSET Entries']
    BY <1>4 DEF IInv, TypeOK
  <2>5. sweep \in Times'
    BY <1>3 DEF IInv, TypeOK
  <2> QED
    BY <1>1, <1>2, <1>3, <2>1, <2>2, <2>3, <2>4, <2>5 DEF IInv, TypeOK
<1>6. ASSUME NEW c \in Client PROVE Recent(admitted[c])' \subseteq Recent(admitted[c])
  BY <1>1, <1>2 DEF IInv, TypeOK, Recent, Entries, Times
<1>7. Listed'
  BY <1>2, <1>6 DEF IInv, Listed
<1>8. Remembered'
  BY <1>1, <1>2 DEF IInv, TypeOK, Remembered, Times
<1> QED
  BY <1>1, <1>2, <1>5, <1>7, <1>8 DEF IInv, Finite, Bounded, Worked

LEMMA CrashInv == ASSUME IInv, Crash PROVE IInv'
<1>1. /\ DOMAIN requests' = {} /\ DOMAIN keys' = {} /\ DOMAIN since' = {}
      /\ IsFiniteSet(DOMAIN requests') /\ IsFiniteSet(DOMAIN keys')
  BY FS_EmptySet DEF Crash
<1>2. Cardinality(DOMAIN requests') = 0 /\ Cardinality(DOMAIN keys') = 0
  BY <1>1, FS_EmptySet
<1>3. /\ MaxCrashes \in Nat /\ MaxClients \in Nat /\ MaxKeys \in Nat /\ clock \in Nat
      /\ crashes \in Nat
  BY GatewayAssumption DEF IInv, TypeOK
<1>4. call' \in [Handler -> Call] /\ outcome' \in Outcomes
  BY DEF Crash, Call, Outcomes
<1>5. admitted' \in [Client -> SUBSET Entries']
  BY DEF Crash
<1>6. crashes' \in 0 .. MaxCrashes /\ sweep' \in Times'
  BY <1>3 DEF Crash, Times
<1>7. UNCHANGED <<limit, clock, begun, processed, sent>>
  BY DEF Crash
<1>8. TypeOK'
  BY <1>1, <1>2, <1>3, <1>4, <1>5, <1>6, <1>7 DEF IInv, TypeOK
<1>9. Listed'
  BY DEF Crash, Listed, Recent
<1> QED
  BY <1>1, <1>8, <1>9 DEF IInv, Finite, Bounded, Remembered, Worked

LEMMA StepInv == ASSUME IInv, [Next]_vars PROVE IInv'
<1>1. CASE UNCHANGED vars
  BY <1>1, StoresKept, LimiterKept DEF vars, IInv, TypeOK
<1>2. CASE Next
  BY <1>2, TickInv, CrashInv, ArriveInv, CheckInInv, FinishInv DEF Next
<1> QED
  BY <1>1, <1>2

LEMMA Invariance == Spec => []IInv
<1>1. Init => IInv
  BY InitInv
<1>2. IInv /\ [Next]_vars => IInv'
  BY StepInv
<1> QED
  BY <1>1, <1>2, PTL DEF Spec
------------------------------------------------------------------------------
(* The state of the gateway stays within its types, and neither map outgrows *)
(* its bound: room is made in the limiter before a client is added (allow),  *)
(* and in the store before a key is (record_if_new).                         *)
THEOREM TypeCorrect == Spec => []TypeOK
<1>1. IInv => TypeOK
  BY DEF IInv
<1> QED
  BY <1>1, Invariance, PTL

(* A client the limiter has not forgotten is let in at most limit times in   *)
(* any window, however allow's sweeps, prunings and evictions interleave:    *)
(* what they drop is stale, or the whole list of a client.                   *)
THEOREM RateCorrect == Spec => []RateLimited
<1>1. IInv => RateLimited
  <2> SUFFICES ASSUME IInv, limit > 0, NEW c \in Client
               PROVE  Cardinality(Recent(admitted[c])) <= limit
    BY DEF RateLimited
  <2>1. limit \in Nat
    BY GatewayAssumption DEF IInv, TypeOK
  <2>2. CASE c \in DOMAIN requests
    <3>1. /\ Recent(admitted[c]) \subseteq requests[c]
          /\ IsFiniteSet(requests[c]) /\ Cardinality(requests[c]) <= limit
      BY <2>2 DEF IInv, Listed, Finite, Bounded
    <3>2. /\ IsFiniteSet(Recent(admitted[c]))
          /\ Cardinality(Recent(admitted[c])) <= Cardinality(requests[c])
      BY <3>1, FS_Subset
    <3>3. Cardinality(Recent(admitted[c])) \in Nat /\ Cardinality(requests[c]) \in Nat
      BY <3>1, <3>2, FS_CardinalityType
    <3> QED
      BY <2>1, <3>1, <3>2, <3>3
  <2>3. CASE c \notin DOMAIN requests
    <3>1. Recent(admitted[c]) = {}
      BY <2>3 DEF IInv, Listed
    <3> QED
      BY <2>1, <3>1, FS_EmptySet
  <2> QED
    BY <2>2, <2>3
<1> QED
  BY <1>1, Invariance, PTL

\* A handler only ever changes its own call.
LEMMA OwnCall ==
    ASSUME IInv, NEW h \in Handler, NEW g \in Handler, g # h,
           CheckIn(g) \/ Finish(g) \/ Drop(g)
    PROVE  call'[h] = call[h]
  BY DEF IInv, TypeOK, CheckIn, Finish, Drop, Answered, Begin

(* Work on a key starts once per time to live (record_if_new): two handlers  *)
(* that deliver the same webhook do not both reach the model, unless the     *)
(* full store or a restart forgot the key in between.                        *)
THEOREM StartCorrect == Spec => StartedOncePerTtl
<1> DEFINE A == \A h \in Handler :
                   call[h].phase = "checking" /\ call'[h].phase = "working"
                   => \/ call[h].key \notin DOMAIN since
                      \/ clock - since[call[h].key] >= Ttl
<1>1. IInv /\ [Next]_vars => [A]_vars
  <2> SUFFICES ASSUME IInv, Next, NEW h \in Handler,
                      call[h].phase = "checking", call'[h].phase = "working"
               PROVE  \/ call[h].key \notin DOMAIN since
                      \/ clock - since[call[h].key] >= Ttl
    BY DEF IInv
  <2>1. CheckIn(h)
    <3>1. ~Tick
      BY DEF Tick
    <3>2. ~Crash
      BY DEF Crash, Idle
    <3>3. ~\E g \in Handler, c \in Client, k \in Key \cup {NoKey} : Arrive(g, c, k)
      <4> SUFFICES ASSUME NEW g \in Handler, NEW c \in Client, NEW k \in Key \cup {NoKey},
                          Arrive(g, c, k)
                   PROVE  FALSE
        OBVIOUS
      <4>1. call' = call \/ call' = [call EXCEPT ![g] = [phase |-> "checking", key |-> k]]
        BY DEF Arrive
      <4> QED
        BY <4>1 DEF IInv, TypeOK
    <3>4. PICK g \in Handler : CheckIn(g) \/ Finish(g) \/ Drop(g)
      BY <3>1, <3>2, <3>3 DEF Next
    <3>5. g = h
      BY <3>4, OwnCall
    <3> QED
      BY <3>4, <3>5 DEF Finish, Drop
  <2>2. ~\E o \in Outcomes : Answered(h, o)
    BY DEF Answered, Idle, IInv, TypeOK
  <2>3. call[h].key \notin DOMAIN since \/ call[h].key \in Key \ LiveKeys
    BY <2>1, <2>2, GatewayAssumption DEF CheckIn, Outcomes, IInv, TypeOK
  <2>4. ASSUME call[h].key \in DOMAIN since, call[h].key \in Key \ LiveKeys
        PROVE  clock - since[call[h].key] >= Ttl
    <3>1. ~(clock - since[call[h].key] < Ttl)
      BY <2>4 DEF IInv, Remembered, LiveKeys
    <3>2. clock \in Nat /\ since[call[h].key] \in Nat /\ Ttl \in Nat
      BY <2>4, GatewayAssumption DEF IInv, TypeOK, Times
    <3> QED
      BY <3>1, <3>2
  <2> QED
    BY <2>3, <2>4
<1>2. Spec => [][A]_vars
  BY <1>1, Invariance, PTL DEF Spec
<1> QED
  BY <1>2 DEF StartedOncePerTtl

(* A request called a duplicate is one of a key that work was begun for: the *)
(* key is recorded after the request was authenticated and parsed, never     *)
(* before (handle_webhook).                                                  *)
THEOREM DuplicateCorrect == Spec => DuplicateWasBegun
<1> DEFINE A == \A h \in Handler : TurnedAway(h) => call[h].key \in begun
<1>1. IInv /\ [Next]_vars => [A]_vars
  <2> SUFFICES ASSUME IInv, Next, NEW h \in Handler, TurnedAway(h)
               PROVE  call[h].key \in begun
    BY DEF IInv
  <2>1. call[h].phase = "checking" /\ call'[h] = Idle /\ outcome' = "duplicate"
    BY DEF TurnedAway
  <2>2. call'[h] # call[h]
    BY <2>1 DEF Idle
  <2>3. CheckIn(h)
    <3>1. ~Tick /\ ~Crash
      BY <2>1, <2>2 DEF Tick, Crash
    <3>2. ~\E g \in Handler, c \in Client, k \in Key \cup {NoKey} : Arrive(g, c, k)
      <4> SUFFICES ASSUME NEW g \in Handler, NEW c \in Client, NEW k \in Key \cup {NoKey},
                          Arrive(g, c, k)
                   PROVE  FALSE
        OBVIOUS
      <4>1. call' = call \/ call' = [call EXCEPT ![g] = [phase |-> "checking", key |-> k]]
        BY DEF Arrive
      <4> QED
        BY <2>1, <2>2, <4>1 DEF IInv, TypeOK, Idle
    <3>3. PICK g \in Handler : CheckIn(g) \/ Finish(g) \/ Drop(g)
      BY <3>1, <3>2 DEF Next
    <3>4. g = h
      BY <2>2, <3>3, OwnCall
    <3> QED
      BY <2>1, <3>3, <3>4 DEF Finish, Drop
  <2>4. ~Begin(h)
    BY <2>1 DEF Begin, Idle, IInv, TypeOK
  <2>5. ~Answered(h, "rejected")
    BY <2>1 DEF Answered
  <2>6. call[h].key \in LiveKeys
    BY <2>3, <2>4, <2>5 DEF CheckIn
  <2> QED
    BY <2>6 DEF IInv, Worked, LiveKeys
<1>2. Spec => [][A]_vars
  BY <1>1, Invariance, PTL DEF Spec
<1> QED
  BY <1>2 DEF DuplicateWasBegun
=============================================================================
