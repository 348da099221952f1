-------------------------- MODULE TicketEntry_proofs --------------------------
(***************************************************************************)
(* Proofs about TicketEntry, for every number of claims, tickets, guests   *)
(* and concurrent requests, and about the abstract door TicketGate that it *)
(* implements, for every set of tickets and every finite set of scans.     *)
(***************************************************************************)
EXTENDS TicketEntry, TicketGate, FiniteSetTheorems, TLAPS

(* Counting those who may still enter with a ticket: e have entered, the   *)
(* scans in g have been granted, the scans in o are open; all scans are in *)
(* the finite set S.                                                       *)

LEMMA HeadsNat ==
  ASSUME NEW S, IsFiniteSet(S), NEW o \in SUBSET S, NEW g \in SUBSET S, NEW e \in Nat
  PROVE  e + Cardinality(g) + Cardinality(o) \in Nat
<1>1. IsFiniteSet(o) /\ IsFiniteSet(g)
  BY FS_Subset
<1> QED
  BY <1>1, FS_CardinalityType

\* Giving up, completing or answering a scan never makes more heads.
LEMMA HeadsKept ==
  ASSUME NEW S, IsFiniteSet(S), NEW s \in S,
         NEW o \in SUBSET S, NEW g \in SUBSET S, NEW e \in Nat,
         NEW o2, NEW g2, NEW e2,
         \/ s \in o /\ o2 = o \ {s} /\ g2 = g /\ e2 = e
         \/ s \in o /\ o2 = o \ {s} /\ g2 = g \cup {s} /\ e2 = e
         \/ s \in g /\ o2 = o /\ g2 = g \ {s} /\ e2 \in {e, e + 1}
  PROVE  e2 + Cardinality(g2) + Cardinality(o2) <= e + Cardinality(g) + Cardinality(o)
<1>1. IsFiniteSet(o) /\ IsFiniteSet(g)
  BY FS_Subset
<1>2. Cardinality(o) \in Nat /\ Cardinality(g) \in Nat
  BY <1>1, FS_CardinalityType
<1>3. CASE s \in o /\ o2 = o \ {s} /\ g2 = g /\ e2 = e
  <2>1. Cardinality(o2) = Cardinality(o) - 1
    BY <1>1, <1>3, FS_RemoveElement
  <2> QED
    BY <1>2, <1>3, <2>1
<1>4. CASE s \in o /\ o2 = o \ {s} /\ g2 = g \cup {s} /\ e2 = e
  <2>1. Cardinality(o2) = Cardinality(o) - 1
    BY <1>1, <1>4, FS_RemoveElement
  <2>2. Cardinality(g2) = Cardinality(g) \/ Cardinality(g2) = Cardinality(g) + 1
    BY <1>1, <1>4, FS_AddElement
  <2> QED
    BY <1>2, <1>4, <2>1, <2>2
<1>5. CASE s \in g /\ o2 = o /\ g2 = g \ {s} /\ e2 \in {e, e + 1}
  <2>1. Cardinality(g2) = Cardinality(g) - 1
    BY <1>1, <1>5, FS_RemoveElement
  <2> QED
    BY <1>2, <1>5, <2>1
<1> QED
  BY <1>3, <1>4, <1>5

\* The first completed scan leaves at most as many heads as there are scans.
LEMMA FirstUse ==
  ASSUME NEW S, IsFiniteSet(S), NEW o \in SUBSET S, NEW s \in o, NEW o2, o2 = o \ {s}
  PROVE  0 + Cardinality({s}) + Cardinality(o2) <= Cardinality(S)
<1>1. IsFiniteSet(o) /\ Cardinality(o) <= Cardinality(S)
  BY FS_Subset
<1>2. Cardinality(o) \in Nat /\ Cardinality(S) \in Nat
  BY <1>1, FS_CardinalityType
<1>3. Cardinality(o2) = Cardinality(o) - 1 /\ Cardinality({s}) = 1
  BY <1>1, FS_RemoveElement, FS_Singleton
<1> QED
  BY <1>1, <1>2, <1>3

\* An exchange that ends with a ticket leaves as many tickets and exchanges as
\* before, and the first ticket leaves at most as many as there are requests.
LEMMA TicketForExchange ==
  ASSUME NEW S, IsFiniteSet(S), NEW o \in SUBSET S, NEW s \in o, NEW o2, o2 = o \ {s},
         NEW T, IsFiniteSet(T), NEW t, NEW T2, T2 = T \cup {t}
  PROVE  /\ IsFiniteSet(T2)
         /\ Cardinality(T2) + Cardinality(o2) <= Cardinality(T) + Cardinality(o)
         /\ T = {} => Cardinality(T2) + Cardinality(o2) <= Cardinality(S)
<1>1. IsFiniteSet(o) /\ Cardinality(o) <= Cardinality(S)
  BY FS_Subset
<1>2. Cardinality(o) \in Nat /\ Cardinality(S) \in Nat /\ Cardinality(T) \in Nat
  BY <1>1, FS_CardinalityType
<1>3. Cardinality(o2) = Cardinality(o) - 1
  BY <1>1, FS_RemoveElement
<1>4. /\ IsFiniteSet(T2)
      /\ Cardinality(T2) = Cardinality(T) \/ Cardinality(T2) = Cardinality(T) + 1
  BY FS_AddElement
<1>5. T = {} => Cardinality(T) = 0
  BY FS_EmptySet
<1> QED
  BY <1>1, <1>2, <1>3, <1>4, <1>5

\* Exchanges that end without a ticket make no more.
LEMMA FewerExchanges ==
  ASSUME NEW S, IsFiniteSet(S), NEW o \in SUBSET S, NEW o2 \in SUBSET o,
         NEW T, IsFiniteSet(T)
  PROVE  Cardinality(T) + Cardinality(o2) <= Cardinality(T) + Cardinality(o)
<1>1. IsFiniteSet(o)
  BY FS_Subset
<1>2. IsFiniteSet(o2) /\ Cardinality(o2) <= Cardinality(o)
  BY <1>1, FS_Subset
<1>3. Cardinality(o) \in Nat /\ Cardinality(o2) \in Nat /\ Cardinality(T) \in Nat
  BY <1>1, <1>2, FS_CardinalityType
<1> QED
  BY <1>2, <1>3
-----------------------------------------------------------------------------
(* The abstract door.                                                      *)

\* Before its first use a ticket has let nobody in; from then on those who may
\* still enter are the scans that were open, and their number never grows.
HeadsBound(t) ==
  IF phase[t] = "used" THEN Heads(t) <= Cardinality(Scans)
                       ELSE entered[t] = 0 /\ granted[t] = {}

GateInv == GateTypeOK /\ \A t \in GateTickets : HeadsBound(t)

LEMMA GateInitInv == ASSUME GateInit PROVE GateInv
  BY DEF GateInit, GateInv, GateTypeOK, HeadsBound

LEMMA GateStepType == ASSUME GateTypeOK, [GateNext]_gateVars PROVE GateTypeOK'
  BY DEF GateTypeOK, GateNext, gateVars, IssueTicket, OpenScan, GiveUpScan, UseUpTicket,
         Enter, LoseAnswer

LEMMA GateStepInv ==
  ASSUME IsFiniteSet(Scans), GateInv, [GateNext]_gateVars
  PROVE  GateInv'
<1>1. GateTypeOK /\ GateTypeOK'
  BY GateStepType DEF GateInv
<1>2. ASSUME NEW t \in GateTickets PROVE HeadsBound(t)'
  <2>1. HeadsBound(t)
    BY DEF GateInv
  <2>2. /\ open[t] \in SUBSET Scans /\ granted[t] \in SUBSET Scans /\ entered[t] \in Nat
        /\ Cardinality(Scans) \in Nat
    BY <1>1, FS_CardinalityType DEF GateTypeOK
  <2>3. CASE UNCHANGED <<phase[t], open[t], granted[t], entered[t]>>
    BY <2>1, <2>3 DEF HeadsBound, Heads
  <2>4. CASE IssueTicket(t)
    <3>1. phase[t] = "none" /\ phase'[t] = "valid"
      BY <1>1, <2>4 DEF IssueTicket, GateTypeOK
    <3> QED
      BY <2>1, <2>4, <3>1 DEF IssueTicket, HeadsBound
  <2>5. ASSUME NEW s \in Scans, OpenScan(s, t) PROVE HeadsBound(t)'
    BY <2>1, <2>5 DEF OpenScan, HeadsBound
  <2>6. ASSUME NEW s \in Scans,
               GiveUpScan(s, t) \/ UseUpTicket(s, t) \/ Enter(s, t) \/ LoseAnswer(s, t)
        PROVE  HeadsBound(t)'
    <3>1. /\ open'[t] \in SUBSET Scans /\ granted'[t] \in SUBSET Scans /\ entered'[t] \in Nat
          /\ \/ /\ s \in open[t] /\ open'[t] = open[t] \ {s}
                /\ granted'[t] = granted[t] /\ entered'[t] = entered[t] /\ phase' = phase
             \/ /\ s \in open[t] /\ open'[t] = open[t] \ {s}
                /\ granted'[t] = granted[t] \cup {s} /\ entered'[t] = entered[t]
                /\ phase'[t] = "used"
             \/ /\ s \in granted[t] /\ open'[t] = open[t] /\ granted'[t] = granted[t] \ {s}
                /\ entered'[t] \in {entered[t], entered[t] + 1} /\ phase' = phase
      BY <1>1, <2>6 DEF GiveUpScan, UseUpTicket, Enter, LoseAnswer, GateTypeOK
    <3>2. entered'[t] + Cardinality(granted'[t]) + Cardinality(open'[t])
            <= entered[t] + Cardinality(granted[t]) + Cardinality(open[t])
      BY <2>2, <3>1, HeadsKept
    <3>3. CASE phase[t] = "used"
      <4>1. phase'[t] = "used" /\ Heads(t) <= Cardinality(Scans)
        BY <2>1, <3>1, <3>3 DEF HeadsBound
      <4>2. Heads(t) \in Nat /\ Heads(t)' \in Nat
        BY <2>2, <3>1, HeadsNat DEF Heads
      <4> QED
        BY <2>2, <3>2, <4>1, <4>2 DEF HeadsBound, Heads
    <3>4. CASE phase[t] # "used"
      <4>1. entered[t] = 0 /\ granted[t] = {}
        BY <2>1, <3>4 DEF HeadsBound
      <4>2. CASE phase'[t] = "used"
        <5>1. /\ s \in open[t] /\ open'[t] = open[t] \ {s} /\ granted'[t] = {s}
              /\ entered'[t] = 0
          BY <3>1, <3>4, <4>1, <4>2
        <5> QED
          BY <2>2, <4>2, <5>1, FirstUse DEF HeadsBound, Heads
      <4>3. CASE phase'[t] # "used"
        BY <3>1, <4>1, <4>3 DEF HeadsBound
      <4> QED
        BY <4>2, <4>3
    <3> QED
      BY <3>3, <3>4
  <2>7. ASSUME NEW u \in GateTickets \ {t}, NEW s \in Scans,
               \/ IssueTicket(u) \/ OpenScan(s, u) \/ GiveUpScan(s, u) \/ UseUpTicket(s, u)
               \/ Enter(s, u) \/ LoseAnswer(s, u)
        PROVE  UNCHANGED <<phase[t], open[t], granted[t], entered[t]>>
    BY <1>1, <2>7 DEF IssueTicket, OpenScan, GiveUpScan, UseUpTicket, Enter, LoseAnswer, GateTypeOK
  <2>8. ASSUME NEW u \in GateTickets \ {t}, IssueTicket(u)
         PROVE  UNCHANGED <<phase[t], open[t], granted[t], entered[t]>>
    BY <1>1, <2>8 DEF IssueTicket, GateTypeOK
  <2> QED
    BY <2>3, <2>4, <2>5, <2>6, <2>7, <2>8 DEF GateNext, gateVars
<1> QED
  BY <1>1, <1>2 DEF GateInv

LEMMA GateInvBound == ASSUME IsFiniteSet(Scans), GateInv PROVE EntriesWithinScans
<1> SUFFICES ASSUME NEW t \in GateTickets
             PROVE  entered[t] <= Cardinality(Scans) /\ (entered[t] > 0 => phase[t] = "used")
  BY DEF EntriesWithinScans
<1>1. /\ HeadsBound(t) /\ open[t] \in SUBSET Scans /\ granted[t] \in SUBSET Scans
      /\ entered[t] \in Nat
  BY DEF GateInv, GateTypeOK
<1>2. /\ Cardinality(open[t]) \in Nat /\ Cardinality(granted[t]) \in Nat
      /\ Cardinality(Scans) \in Nat
  BY <1>1, FS_Subset, FS_CardinalityType
<1> QED
  BY <1>1, <1>2 DEF HeadsBound, Heads

\* However its scans interleave, a ticket lets in at most as many people as there
\* are scans open at once, and nobody before it is used (TicketGate!EntriesWithinScans).
THEOREM GateBoundsEntries == ASSUME IsFiniteSet(Scans) PROVE GateSpec => []EntriesWithinScans
<1>1. GateInit => GateInv
  BY GateInitInv
<1>2. GateInv /\ [GateNext]_gateVars => GateInv'
  BY GateStepInv
<1>3. GateInv => EntriesWithinScans
  BY GateInvBound
<1> QED
  BY <1>1, <1>2, <1>3, PTL DEF GateSpec
-----------------------------------------------------------------------------
(* The requests.                                                           *)

USE DEF bounds

LEMMA InitType == ASSUME Init PROVE TypeOK
<1>1. NoRequest \in Request
  BY DEF NoRequest, Request
<1> QED
  BY <1>1 DEF Init, TypeOK, PCs

\* The lookup of a ticket yields a status the identity map can hold.
LEMMA FoundType == ASSUME TypeOK, NEW t \in Tickets PROVE Found(t) \in {"absent", "valid", "used"}
  BY DEF Found, Committed

LEMMA StartType ==
  ASSUME TypeOK, NEW w \in Workers, NEW rq \in Request, NEW next \in PCs, Start(w, rq, next)
  PROVE  /\ pc' \in [Workers -> PCs] /\ req' \in [Workers -> Request]
         /\ requests' \in Nat /\ aborts' \in Nat
  BY DEF TypeOK, Start

LEMMA GotoType ==
  ASSUME TypeOK, NEW w \in Workers, NEW next \in PCs, Goto(w, next)
  PROVE  pc' \in [Workers -> PCs] /\ requests' \in Nat /\ aborts' \in Nat
  BY DEF TypeOK, Goto

\* What a request in flight is about: the sets its fields are in where they are
\* used, and the status it has read.
Fields(w) ==
  /\ pc[w] \in {"markClaimed", "insertTicket", "send", "commit"} => req[w].claim \in Claims
  /\ pc[w] \in {"send", "commit", "deliver", "validate", "useTicket", "answer"} =>
       req[w].ticket \in Tickets
  /\ pc[w] = "useTicket" => seen[w] = "valid"

\* The ticket a transaction has inserted and not committed is its own.
HasDrawn(w) == pc[w] \in {"send", "commit"}
DrawnTicket(w) ==
  HasDrawn(w) => /\ ticket[req[w].ticket] = "drawn"
                 /\ origin[req[w].ticket] = req[w].claim
                 /\ owner[req[w].ticket] = req[w].guest
                 /\ \A v \in Workers \ {w} : HasDrawn(v) => req[v].ticket # req[w].ticket

\* A scan past its lookup is of a committed ticket.
ScansCommitted(w) ==
  \/ pc[w] = "validate" /\ seen[w] # "absent"
  \/ pc[w] \in {"useTicket", "answer"}
  => Committed(req[w].ticket)

\* A ticket nobody has drawn comes from no claim.
Anonymous == \A t \in Tickets : ticket[t] = "unused" => origin[t] = NoClaim

EInv ==
  /\ TypeOK
  /\ \A w \in Workers : Fields(w)
  /\ \A w \in Workers : DrawnTicket(w)
  /\ \A w \in Workers : ScansCommitted(w)
  /\ Anonymous
  /\ ClaimsBacked

LEMMA InitInv == ASSUME Init PROVE EInv
<1>1. TypeOK
  BY InitType
<1>2. \A w \in Workers : Fields(w) /\ DrawnTicket(w) /\ ScansCommitted(w)
  BY DEF Init, Fields, DrawnTicket, HasDrawn, ScansCommitted
<1>3. Anonymous /\ ClaimsBacked
  BY DEF Init, Anonymous, ClaimsBacked, TicketsOf, Committed
<1> QED
  BY <1>1, <1>2, <1>3 DEF EInv

-----------------------------------------------------------------------------
(* Type correctness, one step per action.                                  *)

LEMMA StepType == ASSUME EInv, [Next]_vars PROVE TypeOK'
<1> TypeOK
  BY DEF EInv
<1> NoRequest \in Request
  BY DEF NoRequest, Request
<1>1. CASE UNCHANGED vars
  BY <1>1 DEF vars, TypeOK
<1>2. CASE Tick
  BY <1>2 DEF Tick, TypeOK
<1>3. ASSUME NEW w \in Workers, BeginClaim(w) PROVE TypeOK'
  <2>1. PICK k \in Claims, g \in Guests :
          Start(w, [NoRequest EXCEPT !.kind = "claim", !.claim = k, !.guest = g], "markClaimed")
    BY <1>3 DEF BeginClaim
  <2>2. [NoRequest EXCEPT !.kind = "claim", !.claim = k, !.guest = g] \in Request
    BY DEF Request
  <2> QED
    BY <1>3, <2>1, <2>2, StartType DEF BeginClaim, TypeOK, PCs
<1>4. ASSUME NEW w \in Workers, PrintTicket(w) PROVE TypeOK'
  <2>1. PICK t \in Tickets :
          /\ ticket' = [ticket EXCEPT ![t] = "valid"]
          /\ Start(w, [NoRequest EXCEPT !.kind = "print", !.ticket = t], "deliver")
    BY <1>4 DEF PrintTicket
  <2>2. [NoRequest EXCEPT !.kind = "print", !.ticket = t] \in Request
    BY DEF Request
  <2> QED
    BY <1>4, <2>1, <2>2, StartType DEF PrintTicket, TypeOK, PCs
<1>5. ASSUME NEW w \in Workers, BeginApiScan(w) PROVE TypeOK'
  <2>1. PICK t \in Tickets, m \in BOOLEAN :
          /\ Start(w, [NoRequest EXCEPT !.kind = "api", !.ticket = t, !.marks = m], "validate")
          /\ seen' = [seen EXCEPT ![w] = Found(t)]
    BY <1>5 DEF BeginApiScan, TypeOK
  <2>2. [NoRequest EXCEPT !.kind = "api", !.ticket = t, !.marks = m] \in Request
    BY DEF Request
  <2> QED
    BY <1>5, <2>1, <2>2, StartType, FoundType DEF BeginApiScan, TypeOK, PCs
<1>6. ASSUME NEW w \in Workers, BeginChatScan(w) PROVE TypeOK'
  <2>1. PICK t \in Tickets :
          Start(w, [NoRequest EXCEPT !.kind = "chat", !.ticket = t, !.marks = TRUE], "useTicket")
    BY <1>6 DEF BeginChatScan, TypeOK
  <2>2. [NoRequest EXCEPT !.kind = "chat", !.ticket = t, !.marks = TRUE] \in Request
    BY DEF Request
  <2> QED
    BY <1>6, <2>1, <2>2, StartType DEF BeginChatScan, TypeOK, PCs
<1>7. ASSUME NEW w \in Workers, Proceed(w) \/ MarkClaimed(w) PROVE TypeOK'
  <2> Fields(w) /\ req[w] \in Request
    BY DEF EInv, TypeOK
  <2>1. CASE MarkClaimed(w)
    BY <2>1, GotoType DEF MarkClaimed, TypeOK, PCs
  <2>2. CASE InsertTicket(w)
    BY <2>2, GotoType DEF InsertTicket, TypeOK, PCs, Request
  <2>3. CASE SendTicket(w)
    BY <2>3, GotoType DEF SendTicket, TypeOK, PCs, Fields
  <2>4. CASE CommitClaim(w)
    BY <2>4, GotoType DEF CommitClaim, TypeOK, PCs, Request
  <2>5. CASE DeliverPrinted(w)
    BY <2>5, GotoType DEF DeliverPrinted, TypeOK, PCs, Fields
  <2>6. CASE ValidateTicket(w)
    <3>1. SeenNow(w) \in {"absent", "valid", "used"}
      BY <2>6, FoundType DEF ValidateTicket, SeenNow, Fields, TypeOK
    <3> QED
      BY <2>6, <3>1, GotoType DEF ValidateTicket, TypeOK, PCs
  <2>7. CASE UseTicket(w)
    BY <2>7, GotoType DEF UseTicket, TypeOK, PCs
  <2>8. CASE Admit(w)
    <3>1. req[w].ticket \in Tickets
      BY <2>8 DEF Admit, Fields
    <3>2. admitted[req[w].ticket] + 1 \in Nat
      BY <3>1 DEF TypeOK
    <3>3. admitted' \in [Tickets -> Nat]
      BY <2>8, <3>2 DEF Admit, TypeOK
    <3> QED
      BY <2>8, <3>3, GotoType DEF Admit, TypeOK, PCs
  <2> QED
    BY <1>7, <2>1, <2>2, <2>3, <2>4, <2>5, <2>6, <2>7, <2>8 DEF Proceed
<1>8. ASSUME NEW w \in Workers, Abort(w) PROVE TypeOK'
  BY <1>8 DEF Abort, TypeOK, PCs
<1> QED
  BY <1>1, <1>2, <1>3, <1>4, <1>5, <1>6, <1>7, <1>8 DEF Next, Begin


-----------------------------------------------------------------------------
(* The invariant, one step per action.                                     *)

Same(v) == pc'[v] = pc[v] /\ req'[v] = req[v] /\ seen'[v] = seen[v]

\* What w must show of its own step so that every request keeps what it knows:
\* committed tickets stay committed, only w touches the ticket w has drawn.
LEMMA RequestsKeep ==
  ASSUME EInv, NEW w \in Workers, \A v \in Workers \ {w} : Same(v),
         \A t \in Tickets : Committed(t) => Committed(t)',
         \A t \in Tickets : ticket[t] = "drawn" =>
           \/ HasDrawn(w) /\ req[w].ticket = t
           \/ ticket'[t] = "drawn" /\ origin'[t] = origin[t] /\ owner'[t] = owner[t],
         Fields(w)', ScansCommitted(w)',
         HasDrawn(w)' => /\ ticket'[req'[w].ticket] = "drawn"
                         /\ origin'[req'[w].ticket] = req'[w].claim
                         /\ owner'[req'[w].ticket] = req'[w].guest
                         /\ \/ HasDrawn(w) /\ req'[w].ticket = req[w].ticket
                            \/ ticket[req'[w].ticket] = "unused"
  PROVE  \A v \in Workers : Fields(v)' /\ DrawnTicket(v)' /\ ScansCommitted(v)'
<1>1. ASSUME NEW v \in Workers \ {w} PROVE Fields(v)' /\ ScansCommitted(v)'
  <2>1. Same(v) /\ Fields(v) /\ ScansCommitted(v)
    BY DEF EInv
  <2>2. pc[v] \in {"validate", "useTicket", "answer"} => req[v].ticket \in Tickets
    BY <2>1 DEF Fields
  <2>3. Fields(v)'
    BY <2>1 DEF Fields, Same
  <2>4. ScansCommitted(v)'
    <3>1. SUFFICES ASSUME \/ pc[v] = "validate" /\ seen[v] # "absent"
                          \/ pc[v] \in {"useTicket", "answer"}
                   PROVE  Committed(req[v].ticket)'
      BY <2>1 DEF ScansCommitted, Same, Committed
    <3> QED
      BY <2>1, <2>2, <3>1 DEF ScansCommitted, Same, Committed
  <2> QED
    BY <2>3, <2>4
<1>2. ASSUME NEW v \in Workers \ {w}, HasDrawn(v)' PROVE DrawnTicket(v)'
  <2>1. Same(v) /\ HasDrawn(v)
    BY <1>2 DEF Same, HasDrawn
  <2>2. /\ req[v].ticket \in Tickets /\ ticket[req[v].ticket] = "drawn"
        /\ origin[req[v].ticket] = req[v].claim /\ owner[req[v].ticket] = req[v].guest
        /\ \A u \in Workers \ {v} : HasDrawn(u) => req[u].ticket # req[v].ticket
    BY <2>1 DEF EInv, DrawnTicket, Fields, HasDrawn
  <2>3. /\ ticket'[req[v].ticket] = "drawn" /\ origin'[req[v].ticket] = req[v].claim
        /\ owner'[req[v].ticket] = req[v].guest
    BY <2>2
  <2>4. \A u \in Workers \ {v} : HasDrawn(u)' => req'[u].ticket # req[v].ticket
    <3>1. ASSUME NEW u \in Workers \ {v, w}, HasDrawn(u)' PROVE req'[u].ticket # req[v].ticket
      BY <2>2, <3>1 DEF Same, HasDrawn
    <3>2. HasDrawn(w)' => req'[w].ticket # req[v].ticket
      BY <2>2
    <3> QED
      BY <3>1, <3>2
  <2> QED
    BY <2>1, <2>3, <2>4 DEF DrawnTicket, Same
<1>3. DrawnTicket(w)'
  <2>1. SUFFICES ASSUME HasDrawn(w)', NEW v \in Workers \ {w}, HasDrawn(v)'
                 PROVE  req'[v].ticket # req'[w].ticket
    BY DEF DrawnTicket
  <2>2. Same(v) /\ HasDrawn(v)
    BY <2>1 DEF Same, HasDrawn
  <2>3. ticket[req[v].ticket] = "drawn" /\ (HasDrawn(w) => req[v].ticket # req[w].ticket)
    BY <2>2 DEF EInv, DrawnTicket
  <2> QED
    BY <2>1, <2>2, <2>3 DEF Same
<1> QED
  BY <1>1, <1>2, <1>3 DEF DrawnTicket

\* A step that commits no claimed ticket and leaves the claims alone keeps them backed.
LEMMA ClaimsKeep ==
  ASSUME EInv, UNCHANGED <<claim, holder>>,
         \A t \in Tickets : Committed(t) => /\ Committed(t)' /\ origin'[t] = origin[t]
                                            /\ owner'[t] = owner[t],
         \A t \in Tickets : Committed(t)' => Committed(t) \/ origin'[t] = NoClaim
  PROVE  ClaimsBacked'
<1> SUFFICES ASSUME NEW k \in Claims
             PROVE  /\ claim[k] = "pending" => TicketsOf(k)' = {}
                    /\ claim[k] = "claimed" =>
                         \E t \in TicketsOf(k)' : owner'[t] = holder[k]
  BY DEF ClaimsBacked
<1>1. TicketsOf(k)' = TicketsOf(k)
  BY NoClaimAssumption DEF TicketsOf
<1> QED
  BY <1>1 DEF EInv, ClaimsBacked, TicketsOf

\* The steps that begin a request without writing a row.
LEMMA BeginInv ==
  ASSUME EInv, TypeOK', NEW w \in Workers,
         BeginClaim(w) \/ BeginApiScan(w) \/ BeginChatScan(w)
  PROVE  EInv'
<1> TypeOK
  BY DEF EInv
<1>1. /\ UNCHANGED <<claim, holder, ticket, origin, owner>>
      /\ \A v \in Workers \ {w} : Same(v)
  BY DEF BeginClaim, BeginApiScan, BeginChatScan, Start, Same, TypeOK
<1>2. Fields(w)' /\ ScansCommitted(w)' /\ ~HasDrawn(w)'
  <2>1. CASE BeginClaim(w)
    <3>1. PICK k \in Claims, g \in Guests :
            /\ req'[w] = [NoRequest EXCEPT !.kind = "claim", !.claim = k, !.guest = g]
            /\ pc'[w] = "markClaimed"
      BY <2>1 DEF BeginClaim, Start, TypeOK
    <3>2. req'[w].claim = k
      BY <3>1 DEF NoRequest
    <3> QED
      BY <3>1, <3>2 DEF Fields, ScansCommitted, HasDrawn
  <2>2. CASE BeginApiScan(w)
    <3>1. PICK t \in Tickets, m \in BOOLEAN :
            /\ Start(w, [NoRequest EXCEPT !.kind = "api", !.ticket = t, !.marks = m],
                     "validate")
            /\ seen' = [seen EXCEPT ![w] = Found(t)]
      BY <2>2 DEF BeginApiScan, TypeOK
    <3>2. /\ req'[w] = [NoRequest EXCEPT !.kind = "api", !.ticket = t, !.marks = m]
          /\ pc'[w] = "validate" /\ seen'[w] = Found(t)
      BY <3>1 DEF Start, TypeOK
    <3>4. req'[w].ticket = t
      BY <3>2 DEF NoRequest
    <3>3. seen'[w] # "absent" => Committed(t)'
      BY <1>1, <3>2 DEF Found, Committed
    <3> QED
      BY <3>2, <3>3, <3>4 DEF Fields, ScansCommitted, HasDrawn, Committed
  <2>3. CASE BeginChatScan(w)
    <3>1. PICK t \in Tickets :
            /\ Found(t) = "valid"
            /\ req'[w] = [NoRequest EXCEPT !.kind = "chat", !.ticket = t, !.marks = TRUE]
            /\ pc'[w] = "useTicket" /\ seen'[w] = "valid"
      BY <2>3 DEF BeginChatScan, Start, TypeOK
    <3>2. req'[w].ticket = t
      BY <3>1 DEF NoRequest
    <3>3. Committed(t)'
      BY <1>1, <3>1 DEF Found, Committed
    <3> QED
      BY <3>1, <3>2, <3>3 DEF Fields, ScansCommitted, HasDrawn, Committed
  <2> QED
    BY <2>1, <2>2, <2>3
<1>3. \A v \in Workers : Fields(v)' /\ DrawnTicket(v)' /\ ScansCommitted(v)'
  BY <1>1, <1>2, RequestsKeep DEF Committed
<1>4. ClaimsBacked' /\ Anonymous'
  BY <1>1, ClaimsKeep DEF EInv, Anonymous, Committed
<1> QED
  BY <1>3, <1>4 DEF EInv

LEMMA PrintTicketInv ==
  ASSUME EInv, TypeOK', NEW w \in Workers, PrintTicket(w)
  PROVE  EInv'
<1> TypeOK
  BY DEF EInv
<1>1. PICK t \in Tickets :
        /\ ticket[t] = "unused"
        /\ ticket' = [ticket EXCEPT ![t] = "valid"]
        /\ Start(w, [NoRequest EXCEPT !.kind = "print", !.ticket = t], "deliver")
        /\ UNCHANGED <<claim, holder, origin, owner, sent, lock, seen, clock, admitted>>
  BY DEF PrintTicket
<1>2. /\ req'[w] = [NoRequest EXCEPT !.kind = "print", !.ticket = t] /\ pc'[w] = "deliver"
      /\ \A v \in Workers \ {w} : Same(v)
  BY <1>1 DEF Start, TypeOK, Same
<1>3. req'[w].ticket = t
  BY <1>2 DEF NoRequest
<1>4. Fields(w)' /\ ScansCommitted(w)' /\ ~HasDrawn(w)'
  BY <1>2, <1>3 DEF Fields, ScansCommitted, HasDrawn
<1>5. \A u \in Tickets : Committed(u)' <=> Committed(u) \/ u = t
  BY <1>1 DEF Committed, TypeOK
<1>6. \A v \in Workers : Fields(v)' /\ DrawnTicket(v)' /\ ScansCommitted(v)'
  <2>1. \A u \in Tickets : ticket[u] = "drawn" => ticket'[u] = "drawn"
    BY <1>1 DEF TypeOK
  <2> QED
    BY <1>1, <1>2, <1>4, <1>5, <2>1, RequestsKeep
<1>7. Anonymous'
  BY <1>1 DEF EInv, Anonymous, TypeOK
<1>8. ClaimsBacked'
  BY <1>1, <1>5, ClaimsKeep DEF EInv, Anonymous
<1> QED
  BY <1>6, <1>7, <1>8 DEF EInv

\* The steps of a request that write neither a claim nor a ticket.
LEMMA QuietInv ==
  ASSUME EInv, TypeOK', NEW w \in Workers,
         MarkClaimed(w) \/ SendTicket(w) \/ DeliverPrinted(w) \/ ValidateTicket(w) \/ Admit(w)
  PROVE  EInv'
<1> TypeOK
  BY DEF EInv
<1>1. /\ UNCHANGED <<claim, holder, ticket, origin, owner, req>>
      /\ \A v \in Workers \ {w} : Same(v)
  BY DEF MarkClaimed, SendTicket, DeliverPrinted, ValidateTicket, Admit, Goto, Same, TypeOK
<1>2. Fields(w) /\ DrawnTicket(w) /\ ScansCommitted(w)
  BY DEF EInv
<1>3. Fields(w)' /\ ScansCommitted(w)' /\ (HasDrawn(w)' => HasDrawn(w))
  <2>1. CASE MarkClaimed(w)
    BY <1>1, <1>2, <2>1 DEF MarkClaimed, Goto, TypeOK, Fields, ScansCommitted, HasDrawn
  <2>2. CASE SendTicket(w)
    BY <1>1, <1>2, <2>2 DEF SendTicket, Goto, TypeOK, Fields, ScansCommitted, HasDrawn
  <2>3. CASE DeliverPrinted(w) \/ Admit(w)
    BY <2>3 DEF DeliverPrinted, Admit, Goto, TypeOK, Fields, ScansCommitted, HasDrawn
  <2>4. CASE ValidateTicket(w)
    <3>1. /\ pc[w] = "validate" /\ req'[w] = req[w] /\ seen'[w] = SeenNow(w)
          /\ pc'[w] \in {"useTicket", "idle"}
          /\ pc'[w] = "useTicket" => SeenNow(w) = "valid"
      BY <2>4 DEF ValidateTicket, Goto, TypeOK
    <3>2. SeenNow(w) = "valid" => Committed(req[w].ticket)
      BY <1>2, <3>1 DEF SeenNow, Found, ScansCommitted
    <3>3. ~HasDrawn(w)' /\ Fields(w)'
      BY <1>2, <3>1 DEF HasDrawn, Fields
    <3> QED
      BY <1>1, <3>1, <3>2, <3>3 DEF ScansCommitted, Committed
  <2> QED
    BY <2>1, <2>2, <2>3, <2>4
<1>4. \A v \in Workers : Fields(v)' /\ DrawnTicket(v)' /\ ScansCommitted(v)'
  BY <1>1, <1>2, <1>3, RequestsKeep DEF Committed, DrawnTicket
<1>5. ClaimsBacked' /\ Anonymous'
  BY <1>1, ClaimsKeep DEF EInv, Anonymous, Committed
<1> QED
  BY <1>4, <1>5 DEF EInv

LEMMA InsertTicketInv ==
  ASSUME EInv, TypeOK', NEW w \in Workers, InsertTicket(w)
  PROVE  EInv'
<1> TypeOK
  BY DEF EInv
<1>1. PICK t \in Tickets :
        /\ ticket[t] = "unused"
        /\ ticket' = [ticket EXCEPT ![t] = "drawn"]
        /\ origin' = [origin EXCEPT ![t] = req[w].claim]
        /\ owner' = [owner EXCEPT ![t] = req[w].guest]
        /\ req' = [req EXCEPT ![w].ticket = t]
  BY DEF InsertTicket
<1>2. /\ pc[w] = "insertTicket" /\ pc'[w] = "send"
      /\ UNCHANGED <<claim, holder>>
      /\ \A v \in Workers \ {w} : Same(v)
  BY <1>1 DEF InsertTicket, Goto, TypeOK, Same
<1>3. req'[w].ticket = t /\ req'[w].claim = req[w].claim /\ req'[w].guest = req[w].guest
  BY <1>1 DEF TypeOK, Request
<1>4. req[w].claim \in Claims
  BY <1>2 DEF EInv, Fields
<1>5. Fields(w)' /\ ScansCommitted(w)' /\ HasDrawn(w)'
  BY <1>2, <1>3, <1>4 DEF Fields, ScansCommitted, HasDrawn
<1>6. /\ ticket'[t] = "drawn" /\ origin'[t] = req[w].claim /\ owner'[t] = req[w].guest
      /\ \A u \in Tickets \ {t} : ticket'[u] = ticket[u] /\ origin'[u] = origin[u]
                                  /\ owner'[u] = owner[u]
  BY <1>1 DEF TypeOK
<1>7. \A v \in Workers : Fields(v)' /\ DrawnTicket(v)' /\ ScansCommitted(v)'
  <2>1. \A u \in Tickets : Committed(u) => Committed(u)'
    BY <1>1, <1>6 DEF Committed
  <2>2. \A u \in Tickets : ticket[u] = "drawn" =>
          ticket'[u] = "drawn" /\ origin'[u] = origin[u] /\ owner'[u] = owner[u]
    BY <1>1, <1>6
  <2> QED
    BY <1>1, <1>2, <1>3, <1>5, <1>6, <2>1, <2>2, RequestsKeep
<1>8. Anonymous'
  BY <1>6 DEF EInv, Anonymous
<1>9. ClaimsBacked'
  BY <1>1, <1>2, <1>6, ClaimsKeep DEF Committed
<1> QED
  BY <1>7, <1>8, <1>9 DEF EInv

LEMMA CommitClaimInv ==
  ASSUME EInv, TypeOK', NEW w \in Workers, CommitClaim(w)
  PROVE  EInv'
<1> TypeOK
  BY DEF EInv
<1> DEFINE t == req[w].ticket  c == req[w].claim
<1>1. /\ pc[w] = "commit" /\ pc'[w] = "idle" /\ \A v \in Workers \ {w} : Same(v)
      /\ claim' = [claim EXCEPT ![c] = "claimed"]
      /\ holder' = [holder EXCEPT ![c] = req[w].guest]
      /\ ticket' = [ticket EXCEPT ![t] = "valid"]
      /\ UNCHANGED <<origin, owner>>
  BY DEF CommitClaim, Goto, Same, TypeOK
<1>2. /\ t \in Tickets /\ c \in Claims /\ ticket[t] = "drawn"
      /\ origin[t] = c /\ owner[t] = req[w].guest
  BY <1>1 DEF EInv, Fields, DrawnTicket, HasDrawn
<1>3. Fields(w)' /\ ScansCommitted(w)' /\ ~HasDrawn(w)' /\ HasDrawn(w)
  BY <1>1 DEF Fields, ScansCommitted, HasDrawn
<1>4. /\ ticket'[t] = "valid"
      /\ \A u \in Tickets \ {t} : ticket'[u] = ticket[u]
  BY <1>1, <1>2 DEF TypeOK
<1>5. \A v \in Workers : Fields(v)' /\ DrawnTicket(v)' /\ ScansCommitted(v)'
  <2>1. \A u \in Tickets : Committed(u) => Committed(u)'
    BY <1>4 DEF Committed
  <2>2. \A u \in Tickets : ticket[u] = "drawn" => u = t \/ ticket'[u] = "drawn"
    BY <1>4
  <2> QED
    BY <1>1, <1>3, <2>1, <2>2, RequestsKeep
<1>6. Anonymous'
  BY <1>1, <1>4 DEF EInv, Anonymous
<1>7. ClaimsBacked'
  <2> SUFFICES ASSUME NEW k \in Claims
               PROVE  /\ claim'[k] = "pending" => TicketsOf(k)' = {}
                      /\ claim'[k] = "claimed" =>
                           \E u \in TicketsOf(k)' : owner'[u] = holder'[k]
    BY DEF ClaimsBacked
  <2>1. CASE k = c
    <3>1. claim'[k] = "claimed" /\ holder'[k] = req[w].guest
      BY <1>1, <1>2, <2>1 DEF TypeOK
    <3>2. t \in TicketsOf(k)' /\ owner'[t] = req[w].guest
      BY <1>1, <1>2, <1>4, <2>1 DEF TicketsOf, Committed
    <3> QED
      BY <3>1, <3>2
  <2>2. CASE k # c
    <3>1. claim'[k] = claim[k] /\ holder'[k] = holder[k]
      BY <1>1, <2>2 DEF TypeOK
    <3>2. TicketsOf(k)' = TicketsOf(k)
      BY <1>1, <1>2, <1>4, <2>2 DEF TicketsOf, Committed
    <3> QED
      BY <1>1, <3>1, <3>2 DEF EInv, ClaimsBacked
  <2> QED
    BY <2>1, <2>2
<1> QED
  BY <1>5, <1>6, <1>7 DEF EInv

LEMMA UseTicketInv ==
  ASSUME EInv, TypeOK', NEW w \in Workers, UseTicket(w)
  PROVE  EInv'
<1> TypeOK
  BY DEF EInv
<1> DEFINE t == req[w].ticket
<1>1. /\ pc[w] = "useTicket" /\ pc'[w] = "answer" /\ req' = req
      /\ \A v \in Workers \ {w} : Same(v)
      /\ ticket' = [ticket EXCEPT ![t] = "used"]
      /\ UNCHANGED <<claim, holder, origin, owner>>
  BY DEF UseTicket, Goto, Same, TypeOK
<1>2. t \in Tickets /\ Committed(t)
  BY <1>1 DEF EInv, Fields, ScansCommitted
<1>3. /\ ticket'[t] = "used"
      /\ \A u \in Tickets \ {t} : ticket'[u] = ticket[u]
  BY <1>1, <1>2 DEF TypeOK
<1>4. Fields(w)' /\ ScansCommitted(w)' /\ ~HasDrawn(w)'
  BY <1>1, <1>2, <1>3 DEF Fields, ScansCommitted, HasDrawn, Committed
<1>5. \A u \in Tickets : Committed(u)' <=> Committed(u)
  BY <1>2, <1>3 DEF Committed
<1>6. \A v \in Workers : Fields(v)' /\ DrawnTicket(v)' /\ ScansCommitted(v)'
  <2>1. \A u \in Tickets : ticket[u] = "drawn" => ticket'[u] = "drawn"
    BY <1>2, <1>3 DEF Committed
  <2> QED
    BY <1>1, <1>4, <1>5, <2>1, RequestsKeep
<1>7. Anonymous' /\ ClaimsBacked'
  BY <1>1, <1>3, <1>5, ClaimsKeep DEF EInv, Anonymous
<1> QED
  BY <1>6, <1>7 DEF EInv

LEMMA AbortInv ==
  ASSUME EInv, TypeOK', NEW w \in Workers, Abort(w)
  PROVE  EInv'
<1> TypeOK
  BY DEF EInv
<1>1. /\ pc'[w] = "idle" /\ req' = req /\ seen' = seen
      /\ \A v \in Workers \ {w} : Same(v)
      /\ UNCHANGED <<claim, holder, origin, owner>>
      /\ \A u \in Tickets : ticket'[u] = IF HasDrawn(w) /\ req[w].ticket = u
                                         THEN "lost" ELSE ticket[u]
  BY DEF Abort, Same, TypeOK, HasDrawn
<1>2. Fields(w)' /\ ScansCommitted(w)' /\ ~HasDrawn(w)'
  BY <1>1 DEF Fields, ScansCommitted, HasDrawn
<1>3. HasDrawn(w) => ticket[req[w].ticket] = "drawn"
  BY DEF EInv, DrawnTicket
<1>4. \A u \in Tickets : Committed(u)' <=> Committed(u)
  BY <1>1, <1>3 DEF Committed
<1>5. \A v \in Workers : Fields(v)' /\ DrawnTicket(v)' /\ ScansCommitted(v)'
  BY <1>1, <1>2, <1>4, RequestsKeep
<1>6. Anonymous' /\ ClaimsBacked'
  BY <1>1, <1>4, ClaimsKeep DEF EInv, Anonymous
<1> QED
  BY <1>5, <1>6 DEF EInv

LEMMA StepInv == EInv /\ [Next]_vars => EInv'
<1> SUFFICES ASSUME EInv, [Next]_vars PROVE EInv'
  OBVIOUS
<1>1. TypeOK'
  BY StepType
<1>2. CASE UNCHANGED vars \/ Tick
  <2>1. /\ UNCHANGED <<claim, holder, ticket, origin, owner, pc, req, seen>>
    BY <1>2 DEF vars, Tick
  <2> QED
    BY <1>1, <2>1 DEF EInv, Fields, DrawnTicket, HasDrawn, ScansCommitted, Committed,
                      Anonymous, ClaimsBacked, TicketsOf
<1>3. ASSUME NEW w \in Workers, Begin(w) PROVE EInv'
  BY <1>1, <1>3, BeginInv, PrintTicketInv DEF Begin
<1>4. ASSUME NEW w \in Workers, Proceed(w) \/ MarkClaimed(w) PROVE EInv'
  BY <1>1, <1>4, QuietInv, InsertTicketInv, CommitClaimInv, UseTicketInv DEF Proceed
<1> QED
  BY <1>1, <1>2, <1>3, <1>4, AbortInv DEF Next

\* The inductive invariant of the exchange and the door holds throughout.
THEOREM Invariance == Spec => []EInv
<1>1. Init => EInv
  BY InitInv
<1> QED
  BY <1>1, StepInv, PTL DEF Spec

\* Every variable keeps its type (TicketEntry!TypeOK).
THEOREM TypeCorrect == Spec => []TypeOK
<1>1. EInv => TypeOK
  BY DEF EInv
<1> QED
  BY <1>1, Invariance, PTL

\* A claim and its ticket change together (TicketEntry!ClaimsBacked), however many
\* guests race for the link and whichever of their transactions roll back.
THEOREM ClaimsAreBacked == Spec => []ClaimsBacked
<1>1. EInv => ClaimsBacked
  BY DEF EInv
<1> QED
  BY <1>1, Invariance, PTL

-----------------------------------------------------------------------------
(* How many tickets a claim link yields.                                   *)

\* Request w has found claim k pending and is exchanging it.
Exchanging(w, k) ==
  pc[w] \in {"markClaimed", "insertTicket", "send", "commit"} /\ req[w].claim = k

\* Only a commit of claim k adds a ticket to it, and no step takes one away.
LEMMA OnlyCommitAdds ==
  ASSUME EInv, NEW w \in Workers, NEW k \in Claims,
         CommitClaim(w) => req[w].claim # k,
         Begin(w) \/ Proceed(w) \/ MarkClaimed(w) \/ Abort(w)
  PROVE  TicketsOf(k)' = TicketsOf(k)
<1> TypeOK
  BY DEF EInv
<1>1. CASE PrintTicket(w)
  <2>1. PICK t \in Tickets : /\ ticket[t] = "unused" /\ origin' = origin
                             /\ ticket' = [ticket EXCEPT ![t] = "valid"]
    BY <1>1 DEF PrintTicket
  <2>2. origin[t] = NoClaim
    BY <2>1 DEF EInv, Anonymous
  <2>3. \A u \in Tickets \ {t} : ticket'[u] = ticket[u]
    BY <2>1 DEF TypeOK
  <2> QED
    BY <2>1, <2>2, <2>3, NoClaimAssumption DEF TicketsOf, Committed
<1>2. CASE InsertTicket(w)
  <2>1. PICK t \in Tickets : /\ ticket[t] = "unused"
                             /\ ticket' = [ticket EXCEPT ![t] = "drawn"]
                             /\ origin' = [origin EXCEPT ![t] = req[w].claim]
    BY <1>2 DEF InsertTicket
  <2>2. ticket'[t] = "drawn" /\ \A u \in Tickets \ {t} : /\ ticket'[u] = ticket[u]
                                                         /\ origin'[u] = origin[u]
    BY <2>1 DEF TypeOK
  <2> QED
    BY <2>1, <2>2 DEF TicketsOf, Committed
<1>3. CASE CommitClaim(w)
  <2>1. /\ req[w].claim # k /\ origin' = origin
        /\ ticket' = [ticket EXCEPT ![req[w].ticket] = "valid"]
    BY <1>3 DEF CommitClaim
  <2>2. origin[req[w].ticket] = req[w].claim /\ ticket[req[w].ticket] = "drawn"
    BY <1>3 DEF CommitClaim, EInv, DrawnTicket, HasDrawn
  <2>3. \A u \in Tickets \ {req[w].ticket} : ticket'[u] = ticket[u]
    BY <2>1 DEF TypeOK
  <2> QED
    BY <2>1, <2>2, <2>3 DEF TicketsOf, Committed
<1>4. CASE UseTicket(w)
  <2>1. /\ origin' = origin /\ ticket' = [ticket EXCEPT ![req[w].ticket] = "used"]
        /\ Committed(req[w].ticket)
    BY <1>4 DEF UseTicket, EInv, ScansCommitted
  <2> QED
    BY <2>1 DEF TicketsOf, Committed, TypeOK
<1>5. CASE Abort(w)
  <2>1. \A u \in Tickets : ticket'[u] = IF HasDrawn(w) /\ req[w].ticket = u
                                        THEN "lost" ELSE ticket[u]
    BY <1>5 DEF Abort, HasDrawn
  <2>2. HasDrawn(w) => ticket[req[w].ticket] = "drawn"
    BY DEF EInv, DrawnTicket
  <2> QED
    BY <1>5, <2>1, <2>2 DEF Abort, TicketsOf, Committed
<1>6. CASE \/ BeginClaim(w) \/ BeginApiScan(w) \/ BeginChatScan(w) \/ MarkClaimed(w)
           \/ SendTicket(w) \/ DeliverPrinted(w) \/ ValidateTicket(w) \/ Admit(w)
  BY <1>6 DEF BeginClaim, BeginApiScan, BeginChatScan, MarkClaimed, SendTicket,
              DeliverPrinted, ValidateTicket, Admit, TicketsOf, Committed
<1> QED
  BY <1>1, <1>2, <1>3, <1>4, <1>5, <1>6 DEF Begin, Proceed

Exchangers(k) == {w \in Workers : Exchanging(w, k)}

\* A claimed claim is taken up by no further request.
LEMMA NoNewExchange ==
  ASSUME EInv, NEW w \in Workers, NEW k \in Claims, claim[k] = "claimed",
         Begin(w) \/ Proceed(w) \/ MarkClaimed(w) \/ Abort(w)
  PROVE  Exchangers(k)' \subseteq Exchangers(k)
<1> TypeOK
  BY DEF EInv
<1>1. \A v \in Workers \ {w} : Same(v)
  <2>1. CASE Begin(w)
    BY <2>1 DEF Begin, BeginClaim, PrintTicket, BeginApiScan, BeginChatScan, Start, Same, TypeOK
  <2>2. CASE Proceed(w) \/ MarkClaimed(w)
    BY <2>2 DEF Proceed, MarkClaimed, InsertTicket, SendTicket, CommitClaim, DeliverPrinted,
                ValidateTicket, UseTicket, Admit, Goto, Same, TypeOK
  <2>3. CASE Abort(w)
    BY <2>3 DEF Abort, Same, TypeOK
  <2> QED
    BY <2>1, <2>2, <2>3
<1>2. Exchanging(w, k)' => Exchanging(w, k)
  <2>1. CASE BeginClaim(w)
    <3>1. PICK c \in Claims, g \in Guests :
            /\ claim[c] = "pending"
            /\ req'[w] = [NoRequest EXCEPT !.kind = "claim", !.claim = c, !.guest = g]
      BY <2>1 DEF BeginClaim, Start, TypeOK
    <3>2. req'[w].claim = c
      BY <3>1 DEF NoRequest
    <3> QED
      BY <3>1, <3>2 DEF Exchanging
  <2>2. CASE PrintTicket(w) \/ BeginApiScan(w) \/ BeginChatScan(w)
    BY <2>2 DEF PrintTicket, BeginApiScan, BeginChatScan, Start, Exchanging, TypeOK
  <2>3. CASE MarkClaimed(w) \/ SendTicket(w)
    BY <2>3 DEF MarkClaimed, SendTicket, Goto, Exchanging, TypeOK
  <2>4. CASE InsertTicket(w)
    <3>1. req'[w].claim = req[w].claim
      BY <2>4 DEF InsertTicket, TypeOK, Request
    <3> QED
      BY <2>4, <3>1 DEF InsertTicket, Exchanging
  <2>5. CASE \/ CommitClaim(w) \/ DeliverPrinted(w) \/ ValidateTicket(w) \/ UseTicket(w)
             \/ Admit(w) \/ Abort(w)
    BY <2>5 DEF CommitClaim, DeliverPrinted, ValidateTicket, UseTicket, Admit, Abort, Goto,
                Exchanging, TypeOK
  <2> QED
    BY <2>1, <2>2, <2>3, <2>4, <2>5 DEF Begin, Proceed
<1> QED
  BY <1>1, <1>2 DEF Exchangers, Exchanging, Same

\* Nobody who finds the claim claimed is added to those who race for it.
CBound(k) ==
  claim[k] = "claimed" =>
    /\ IsFiniteSet(TicketsOf(k))
    /\ Cardinality(TicketsOf(k)) + Cardinality(Exchangers(k)) <= Cardinality(Workers)

LEMMA CBoundStep ==
  ASSUME EInv, [Next]_vars, NEW k \in Claims, CBound(k)
  PROVE  CBound(k)'
<1> TypeOK
  BY DEF EInv
<1>1. Cardinality(Workers) \in Nat /\ Exchangers(k) \in SUBSET Workers
  BY WorkersAssumption, FS_CardinalityType DEF Exchangers
<1>2. CASE UNCHANGED vars \/ Tick
  BY <1>2 DEF vars, Tick, CBound, TicketsOf, Committed, Exchangers, Exchanging
<1>3. ASSUME NEW w \in Workers, CommitClaim(w), req[w].claim = k PROVE CBound(k)'
  <2> DEFINE t == req[w].ticket
  <2>1. /\ pc[w] = "commit" /\ origin' = origin /\ req' = req
        /\ pc' = [pc EXCEPT ![w] = "idle"]
        /\ ticket' = [ticket EXCEPT ![t] = "valid"]
    BY <1>3 DEF CommitClaim, Goto
  <2>2. /\ t \in Tickets /\ origin[t] = k
        /\ ticket'[t] = "valid" /\ \A u \in Tickets \ {t} : ticket'[u] = ticket[u]
    BY <1>3, <2>1 DEF EInv, Fields, DrawnTicket, HasDrawn, TypeOK
  <2>3. TicketsOf(k)' = TicketsOf(k) \cup {t}
    BY <2>1, <2>2 DEF TicketsOf, Committed
  <2>4. w \in Exchangers(k) /\ Exchangers(k)' = Exchangers(k) \ {w}
    BY <1>3, <2>1 DEF Exchangers, Exchanging, TypeOK
  <2>5. claim[k] = "pending" => TicketsOf(k) = {}
    BY DEF EInv, ClaimsBacked
  <2>6. IsFiniteSet(TicketsOf(k))
    BY <2>5, FS_EmptySet DEF CBound, TypeOK
  <2>7. \A n, m, e, f \in Nat : n + m <= e + f /\ e + f <= Cardinality(Workers)
                                  => n + m <= Cardinality(Workers)
    BY <1>1
  <2>8. /\ IsFiniteSet(TicketsOf(k)')
        /\ Cardinality(TicketsOf(k)') + Cardinality(Exchangers(k)')
             <= Cardinality(TicketsOf(k)) + Cardinality(Exchangers(k))
        /\ TicketsOf(k) = {} => Cardinality(TicketsOf(k)') + Cardinality(Exchangers(k)')
                                  <= Cardinality(Workers)
    BY <1>1, <2>3, <2>4, <2>6, WorkersAssumption, TicketForExchange
  <2>9. /\ Cardinality(TicketsOf(k)) \in Nat /\ Cardinality(Exchangers(k)) \in Nat
        /\ Cardinality(TicketsOf(k)') \in Nat /\ Cardinality(Exchangers(k)') \in Nat
    BY <1>1, <2>4, <2>6, <2>8, WorkersAssumption, FS_Subset, FS_CardinalityType
  <2> QED
    BY <2>5, <2>7, <2>8, <2>9 DEF CBound, TypeOK
<1>4. ASSUME NEW w \in Workers, Begin(w) \/ Proceed(w) \/ MarkClaimed(w) \/ Abort(w),
             CommitClaim(w) => req[w].claim # k
      PROVE  CBound(k)'
  <2>1. claim'[k] = claim[k]
    BY <1>4 DEF Begin, BeginClaim, PrintTicket, BeginApiScan, BeginChatScan, Proceed,
                MarkClaimed, InsertTicket, SendTicket, CommitClaim, DeliverPrinted,
                ValidateTicket, UseTicket, Admit, Abort, TypeOK
  <2>2. TicketsOf(k)' = TicketsOf(k)
    BY <1>4, OnlyCommitAdds
  <2>3. CASE claim[k] = "claimed"
    <3>1. Exchangers(k)' \in SUBSET Exchangers(k) /\ IsFiniteSet(TicketsOf(k))
      BY <1>4, <2>3, NoNewExchange DEF CBound
    <3>2. Cardinality(TicketsOf(k)) + Cardinality(Exchangers(k)')
            <= Cardinality(TicketsOf(k)) + Cardinality(Exchangers(k))
      BY <1>1, <3>1, WorkersAssumption, FewerExchanges
    <3>3. /\ Cardinality(TicketsOf(k)) \in Nat /\ Cardinality(Exchangers(k)) \in Nat
          /\ Cardinality(Exchangers(k)') \in Nat
      BY <1>1, <3>1, WorkersAssumption, FS_Subset, FS_CardinalityType
    <3>4. Cardinality(TicketsOf(k)) + Cardinality(Exchangers(k)) <= Cardinality(Workers)
      BY <2>3 DEF CBound
    <3>5. Cardinality(TicketsOf(k)) + Cardinality(Exchangers(k)') <= Cardinality(Workers)
      BY <1>1, <3>2, <3>3, <3>4
    <3> QED
      BY <2>2, <3>1, <3>5 DEF CBound
  <2>4. CASE claim[k] # "claimed"
    BY <2>1, <2>4 DEF CBound
  <2> QED
    BY <2>3, <2>4
<1> QED
  BY <1>2, <1>3, <1>4 DEF Next

\* However guests race for a link, it yields at most one ticket per request that can
\* be in flight (TicketEntry!ClaimBound): late presentations are all refused.
THEOREM ClaimsBounded == Spec => []ClaimBound
<1> DEFINE KInv == EInv /\ \A k \in Claims : CBound(k)
<1>1. Init => KInv
  BY InitInv DEF Init, CBound
<1>2. KInv /\ [Next]_vars => KInv'
  BY StepInv, CBoundStep
<1>3. KInv => ClaimBound
  <2> SUFFICES ASSUME KInv, NEW k \in Claims
               PROVE  Cardinality(TicketsOf(k)) <= Cardinality(Workers)
    BY DEF ClaimBound
  <2>1. Cardinality(Workers) \in Nat
    BY WorkersAssumption, FS_CardinalityType
  <2>2. CASE claim[k] = "pending"
    <3>1. TicketsOf(k) = {}
      BY <2>2 DEF EInv, ClaimsBacked
    <3>2. Cardinality(TicketsOf(k)) = 0
      BY <3>1, FS_EmptySet
    <3> QED
      BY <2>1, <3>2
  <2>3. CASE claim[k] = "claimed"
    <3>1. /\ IsFiniteSet(TicketsOf(k)) /\ IsFiniteSet(Exchangers(k))
          /\ Cardinality(TicketsOf(k)) + Cardinality(Exchangers(k)) <= Cardinality(Workers)
      BY <2>3, WorkersAssumption, FS_Subset DEF CBound, Exchangers
    <3>2. Cardinality(TicketsOf(k)) \in Nat /\ Cardinality(Exchangers(k)) \in Nat
      BY <3>1, FS_CardinalityType
    <3> QED
      BY <2>1, <3>1, <3>2
  <2> QED
    BY <2>2, <2>3 DEF EInv, TypeOK
<1> QED
  BY <1>1, <1>2, <1>3, PTL DEF Spec

-----------------------------------------------------------------------------
(* The refinement of TicketGate.                                           *)

\* The ticket a request is at the door with moves with that request alone.
LEMMA GateMove ==
  ASSUME NEW w \in Workers, \A v \in Workers \ {w} : Same(v)
  PROVE  /\ gateOpen' = [t \in Tickets |-> IF Scanning(w, t)' THEN gateOpen[t] \cup {w}
                                           ELSE gateOpen[t] \ {w}]
         /\ gateGranted' = [t \in Tickets |-> IF Answering(w, t)' THEN gateGranted[t] \cup {w}
                                              ELSE gateGranted[t] \ {w}]
<1>1. ASSUME NEW t \in Tickets, NEW v \in Workers \ {w}
      PROVE  (Scanning(v, t)' <=> Scanning(v, t)) /\ (Answering(v, t)' <=> Answering(v, t))
  BY DEF Same, Scanning, Answering
<1>2. ASSUME NEW t \in Tickets
      PROVE  /\ gateOpen'[t] = IF Scanning(w, t)' THEN gateOpen[t] \cup {w}
                               ELSE gateOpen[t] \ {w}
             /\ gateGranted'[t] = IF Answering(w, t)' THEN gateGranted[t] \cup {w}
                                  ELSE gateGranted[t] \ {w}
  BY <1>1 DEF gateOpen, gateGranted
<1> QED
  BY <1>2 DEF gateOpen, gateGranted

\* A step after which its request is at the door no differently is no step of the gate.
LEMMA GateQuiet ==
  ASSUME NEW w \in Workers, \A v \in Workers \ {w} : Same(v),
         \A t \in Tickets : /\ Committed(t)' <=> Committed(t)
                            /\ Committed(t) => ticket'[t] = ticket[t]
                            /\ Scanning(w, t)' <=> Scanning(w, t)
                            /\ Answering(w, t)' <=> Answering(w, t),
         admitted' = admitted
  PROVE  UNCHANGED <<gatePhase, gateOpen, gateGranted, admitted>>
<1>1. gatePhase' = gatePhase
  BY DEF gatePhase
<1>2. \A t \in Tickets, v \in Workers :
        (Scanning(v, t)' <=> Scanning(v, t)) /\ (Answering(v, t)' <=> Answering(v, t))
  BY DEF Same, Scanning, Answering
<1>3. gateOpen' = gateOpen /\ gateGranted' = gateGranted
  BY <1>2 DEF gateOpen, gateGranted
<1> QED
  BY <1>1, <1>3

\* The rows a step of w writes, as the gate sees them.
GateRows(w) ==
  /\ \A v \in Workers \ {w} : Same(v)
  /\ \A t \in Tickets : /\ Committed(t)' <=> Committed(t)
                        /\ Committed(t) => ticket'[t] = ticket[t]

LEMMA GateOpens ==
  ASSUME NEW w \in Workers, NEW t \in Tickets, GateRows(w), admitted' = admitted,
         ticket[t] = "valid",
         \A u \in Tickets : /\ ~Scanning(w, u) /\ ~Answering(w, u) /\ ~Answering(w, u)'
                            /\ Scanning(w, u)' <=> u = t
  PROVE  Gate!OpenScan(w, t)
<1>1. gatePhase' = gatePhase /\ gatePhase[t] = "valid"
  BY DEF GateRows, gatePhase, Committed
<1>2. \A u \in Tickets : w \notin gateOpen[u] /\ w \notin gateGranted[u]
  BY DEF gateOpen, gateGranted
<1>3. /\ gateOpen' = [u \in Tickets |-> IF Scanning(w, u)' THEN gateOpen[u] \cup {w}
                                        ELSE gateOpen[u] \ {w}]
      /\ gateGranted' = [u \in Tickets |-> IF Answering(w, u)' THEN gateGranted[u] \cup {w}
                                           ELSE gateGranted[u] \ {w}]
  BY GateMove DEF GateRows
<1>4. gateOpen' = [u \in Tickets |-> IF u = t THEN gateOpen[u] \cup {w} ELSE gateOpen[u]]
  BY <1>2, <1>3
<1>5. gateOpen' = [gateOpen EXCEPT ![t] = @ \cup {w}]
  BY <1>4 DEF gateOpen
<1>6. gateGranted' = gateGranted
  BY <1>2, <1>3 DEF gateGranted
<1> QED
  BY <1>1, <1>2, <1>5, <1>6 DEF Gate!OpenScan

LEMMA GateGivesUp ==
  ASSUME NEW w \in Workers, NEW t \in Tickets, GateRows(w), admitted' = admitted,
         Scanning(w, t),
         \A u \in Tickets : ~Scanning(w, u)' /\ ~Answering(w, u)'
  PROVE  Gate!GiveUpScan(w, t)
<1>1. gatePhase' = gatePhase
  BY DEF GateRows, gatePhase
<1>2. w \in gateOpen[t] /\ \A u \in Tickets \ {t} : w \notin gateOpen[u]
  BY DEF gateOpen, Scanning
<1>3. \A u \in Tickets : w \notin gateGranted[u]
  BY DEF gateGranted, Answering, Scanning
<1>4. /\ gateOpen' = [u \in Tickets |-> gateOpen[u] \ {w}]
      /\ gateGranted' = [u \in Tickets |-> gateGranted[u] \ {w}]
  BY GateMove DEF GateRows
<1>5. gateOpen' = [gateOpen EXCEPT ![t] = @ \ {w}]
  BY <1>2, <1>4 DEF gateOpen
<1>6. gateGranted' = gateGranted
  BY <1>3, <1>4 DEF gateGranted
<1> QED
  BY <1>1, <1>2, <1>5, <1>6 DEF Gate!GiveUpScan

LEMMA GateLoses ==
  ASSUME NEW w \in Workers, NEW t \in Tickets, GateRows(w), Answering(w, t),
         \A u \in Tickets : ~Scanning(w, u)' /\ ~Answering(w, u)'
  PROVE  /\ admitted' = admitted => Gate!LoseAnswer(w, t)
         /\ admitted' = [admitted EXCEPT ![t] = @ + 1] => Gate!Enter(w, t)
<1>1. gatePhase' = gatePhase
  BY DEF GateRows, gatePhase
<1>2. w \in gateGranted[t] /\ \A u \in Tickets \ {t} : w \notin gateGranted[u]
  BY DEF gateGranted, Answering
<1>3. \A u \in Tickets : w \notin gateOpen[u]
  BY DEF gateOpen, Answering, Scanning
<1>4. /\ gateOpen' = [u \in Tickets |-> gateOpen[u] \ {w}]
      /\ gateGranted' = [u \in Tickets |-> gateGranted[u] \ {w}]
  BY GateMove DEF GateRows
<1>5. gateGranted' = [gateGranted EXCEPT ![t] = @ \ {w}]
  BY <1>2, <1>4 DEF gateGranted
<1>6. gateOpen' = gateOpen
  BY <1>3, <1>4 DEF gateOpen
<1> QED
  BY <1>1, <1>2, <1>5, <1>6 DEF Gate!LoseAnswer, Gate!Enter

LEMMA GateIssues ==
  ASSUME NEW w \in Workers, NEW t \in Tickets, ~Committed(t),
         \A v \in Workers \ {w} : Same(v), admitted' = admitted,
         ticket' = [ticket EXCEPT ![t] = "valid"], TypeOK,
         \A u \in Tickets : /\ Scanning(w, u)' <=> Scanning(w, u)
                            /\ Answering(w, u)' <=> Answering(w, u)
  PROVE  Gate!IssueTicket(t)
<1>1. ticket'[t] = "valid" /\ \A u \in Tickets \ {t} : ticket'[u] = ticket[u]
  BY DEF TypeOK
<1>2. gatePhase[t] = "none" /\ gatePhase' = [gatePhase EXCEPT ![t] = "valid"]
  BY <1>1 DEF gatePhase, Committed
<1>3. \A u \in Tickets, v \in Workers :
        (Scanning(v, u)' <=> Scanning(v, u)) /\ (Answering(v, u)' <=> Answering(v, u))
  BY DEF Same, Scanning, Answering
<1>4. gateOpen' = gateOpen /\ gateGranted' = gateGranted
  BY <1>3 DEF gateOpen, gateGranted
<1> QED
  BY <1>2, <1>4 DEF Gate!IssueTicket

LEMMA GateUses ==
  ASSUME EInv, NEW w \in Workers, UseTicket(w)
  PROVE  Gate!UseUpTicket(w, req[w].ticket)
<1> TypeOK
  BY DEF EInv
<1> DEFINE t == req[w].ticket
<1>1. /\ pc[w] = "useTicket" /\ pc'[w] = "answer" /\ req' = req /\ seen[w] = "valid"
      /\ \A v \in Workers \ {w} : Same(v)
      /\ ticket' = [ticket EXCEPT ![t] = "used"]
      /\ admitted' = admitted /\ t \in Tickets /\ Committed(t)
  BY DEF UseTicket, Goto, Same, TypeOK, EInv, Fields, ScansCommitted
<1>2. ticket'[t] = "used" /\ \A u \in Tickets \ {t} : ticket'[u] = ticket[u]
  BY <1>1 DEF TypeOK
<1>3. gatePhase' = [gatePhase EXCEPT ![t] = "used"]
  BY <1>1, <1>2 DEF gatePhase, Committed
<1>4. \A u \in Tickets : /\ ~Scanning(w, u)' /\ (Scanning(w, u) <=> u = t)
                         /\ ~Answering(w, u) /\ (Answering(w, u)' <=> u = t)
  BY <1>1 DEF Scanning, Answering
<1>5. w \in gateOpen[t] /\ \A u \in Tickets \ {t} : w \notin gateOpen[u]
  BY <1>1, <1>4 DEF gateOpen
<1>6. \A u \in Tickets : w \notin gateGranted[u]
  BY <1>4 DEF gateGranted
<1>7. /\ gateOpen' = [u \in Tickets |-> gateOpen[u] \ {w}]
      /\ gateGranted' = [u \in Tickets |-> IF u = t THEN gateGranted[u] \cup {w}
                                           ELSE gateGranted[u] \ {w}]
  BY <1>1, <1>4, GateMove
<1>8. gateOpen' = [gateOpen EXCEPT ![t] = @ \ {w}]
  <2>1. gateOpen' = [u \in Tickets |-> IF u = t THEN gateOpen[u] \ {w} ELSE gateOpen[u]]
    BY <1>5, <1>7
  <2> QED
    BY <2>1 DEF gateOpen
<1>9. gateGranted' = [gateGranted EXCEPT ![t] = @ \cup {w}]
  <2>1. gateGranted' = [u \in Tickets |-> IF u = t THEN gateGranted[u] \cup {w}
                                          ELSE gateGranted[u]]
    BY <1>6, <1>7
  <2> QED
    BY <2>1 DEF gateGranted
<1> QED
  BY <1>1, <1>3, <1>5, <1>8, <1>9 DEF Gate!UseUpTicket

\* Every step of the entry is a step of the gate, or none.
LEMMA GateStep ==
  ASSUME EInv, [Next]_vars
  PROVE  [Gate!GateNext]_(Gate!gateVars)
<1> TypeOK
  BY DEF EInv
<1> DEFINE Stutter == UNCHANGED <<gatePhase, gateOpen, gateGranted, admitted>>
<1>1. CASE UNCHANGED vars \/ Tick
  <2>1. UNCHANGED <<ticket, pc, req, seen, admitted>>
    BY <1>1 DEF vars, Tick
  <2>2. Stutter
    BY <2>1 DEF gatePhase, gateOpen, gateGranted, Scanning, Answering, Committed
  <2> QED
    BY <2>2 DEF Gate!gateVars
<1>2. ASSUME NEW w \in Workers,
             \/ BeginClaim(w) \/ MarkClaimed(w) \/ InsertTicket(w) \/ SendTicket(w)
             \/ DeliverPrinted(w)
      PROVE  Stutter
  <2>1. /\ \A v \in Workers \ {w} : Same(v)
        /\ admitted' = admitted
        /\ pc[w] \notin {"validate", "useTicket", "answer"}
        /\ pc'[w] \notin {"validate", "useTicket", "answer"}
    <3>1. CASE BeginClaim(w)
      BY <3>1 DEF BeginClaim, Start, Same, TypeOK
    <3>2. CASE MarkClaimed(w) \/ SendTicket(w) \/ DeliverPrinted(w)
      BY <3>2 DEF MarkClaimed, SendTicket, DeliverPrinted, Goto, Same, TypeOK
    <3>3. CASE InsertTicket(w)
      BY <3>3 DEF InsertTicket, Goto, Same, TypeOK
    <3> QED
      BY <1>2, <3>1, <3>2, <3>3
  <2>2. \A t \in Tickets : /\ Committed(t)' <=> Committed(t)
                           /\ Committed(t) => ticket'[t] = ticket[t]
    BY <1>2 DEF BeginClaim, MarkClaimed, InsertTicket, SendTicket, DeliverPrinted, Committed,
                TypeOK
  <2> QED
    BY <2>1, <2>2, GateQuiet DEF Scanning, Answering
<1>3. ASSUME NEW w \in Workers, PrintTicket(w) PROVE Gate!GateNext
  <2>1. PICK t \in Tickets :
          /\ ticket[t] = "unused" /\ ticket' = [ticket EXCEPT ![t] = "valid"]
          /\ Start(w, [NoRequest EXCEPT !.kind = "print", !.ticket = t], "deliver")
    BY <1>3 DEF PrintTicket
  <2>2. \A u \in Tickets : /\ ~Scanning(w, u) /\ ~Scanning(w, u)'
                           /\ ~Answering(w, u) /\ ~Answering(w, u)'
    BY <2>1 DEF Start, Scanning, Answering, TypeOK
  <2>3. admitted' = admitted /\ \A v \in Workers \ {w} : Same(v)
    BY <1>3, <2>1 DEF PrintTicket, Start, Same, TypeOK
  <2>4. Gate!IssueTicket(t)
    BY <2>1, <2>2, <2>3, GateIssues DEF Committed
  <2> QED
    BY <2>4 DEF Gate!GateNext
<1>4. ASSUME NEW w \in Workers, CommitClaim(w) PROVE Gate!GateNext
  <2>1. /\ req[w].ticket \in Tickets /\ ~Committed(req[w].ticket)
        /\ ticket' = [ticket EXCEPT ![req[w].ticket] = "valid"]
    BY <1>4 DEF CommitClaim, EInv, Fields, DrawnTicket, HasDrawn, Committed
  <2>2. \A u \in Tickets : /\ ~Scanning(w, u) /\ ~Scanning(w, u)'
                           /\ ~Answering(w, u) /\ ~Answering(w, u)'
    BY <1>4 DEF CommitClaim, Goto, Scanning, Answering, TypeOK
  <2>3. admitted' = admitted /\ \A v \in Workers \ {w} : Same(v)
    BY <1>4 DEF CommitClaim, Goto, Same, TypeOK
  <2>4. Gate!IssueTicket(req[w].ticket)
    BY <2>1, <2>2, <2>3, GateIssues
  <2> QED
    BY <2>1, <2>4 DEF Gate!GateNext
<1>5. ASSUME NEW w \in Workers, BeginApiScan(w) \/ BeginChatScan(w)
      PROVE  Stutter \/ Gate!GateNext
  <2>1. PICK t \in Tickets :
          /\ req'[w].ticket = t /\ pc[w] = "idle" /\ pc'[w] \in {"validate", "useTicket"}
          /\ seen'[w] = Found(t)
    <3>1. CASE BeginApiScan(w)
      <4>1. PICK t \in Tickets, m \in BOOLEAN :
              /\ Start(w, [NoRequest EXCEPT !.kind = "api", !.ticket = t, !.marks = m],
                       "validate")
              /\ seen' = [seen EXCEPT ![w] = Found(t)]
        BY <3>1 DEF BeginApiScan, TypeOK
      <4>2. req'[w] = [NoRequest EXCEPT !.kind = "api", !.ticket = t, !.marks = m]
        BY <4>1 DEF Start, TypeOK
      <4>3. req'[w].ticket = t
        BY <4>2 DEF NoRequest
      <4> QED
        BY <4>1, <4>3 DEF Start, TypeOK
    <3>2. CASE BeginChatScan(w)
      <4>1. PICK t \in Tickets :
              /\ Found(t) = "valid"
              /\ Start(w, [NoRequest EXCEPT !.kind = "chat", !.ticket = t, !.marks = TRUE],
                       "useTicket")
              /\ seen' = [seen EXCEPT ![w] = "valid"]
        BY <3>2 DEF BeginChatScan, TypeOK
      <4>2. req'[w] = [NoRequest EXCEPT !.kind = "chat", !.ticket = t, !.marks = TRUE]
        BY <4>1 DEF Start, TypeOK
      <4>3. req'[w].ticket = t
        BY <4>2 DEF NoRequest
      <4> QED
        BY <4>1, <4>3 DEF Start, TypeOK
    <3> QED
      BY <1>5, <3>1, <3>2
  <2>2. GateRows(w) /\ admitted' = admitted
    BY <1>5 DEF BeginApiScan, BeginChatScan, Start, GateRows, Same, Committed, TypeOK
  <2>3. \A u \in Tickets : ~Scanning(w, u) /\ ~Answering(w, u) /\ ~Answering(w, u)'
    BY <2>1 DEF Scanning, Answering
  <2>4. CASE Found(t) = "valid"
    <3>1. \A u \in Tickets : Scanning(w, u)' <=> u = t
      BY <2>1, <2>4 DEF Scanning
    <3>2. ticket[t] = "valid"
      BY <2>4 DEF Found
    <3>3. Gate!OpenScan(w, t)
      BY <2>2, <2>3, <3>1, <3>2, GateOpens
    <3> QED
      BY <3>3 DEF Gate!GateNext
  <2>5. CASE Found(t) # "valid"
    <3>1. \A u \in Tickets : ~Scanning(w, u)'
      BY <2>1, <2>5 DEF Scanning
    <3> QED
      BY <2>2, <2>3, <3>1, GateQuiet DEF GateRows
  <2> QED
    BY <2>4, <2>5
<1>6. ASSUME NEW w \in Workers, ValidateTicket(w) PROVE Stutter \/ Gate!GateNext
  <2> DEFINE t == req[w].ticket
  <2>1. /\ pc[w] = "validate" /\ t \in Tickets /\ req' = req
        /\ seen'[w] = SeenNow(w)
        /\ \/ pc'[w] = "idle"
           \/ pc'[w] = "useTicket" /\ SeenNow(w) = "valid"
    BY <1>6 DEF ValidateTicket, Goto, EInv, Fields, TypeOK
  <2>2. GateRows(w) /\ admitted' = admitted
    BY <1>6 DEF ValidateTicket, Goto, GateRows, Same, Committed, TypeOK
  <2>3. \A u \in Tickets : ~Answering(w, u) /\ ~Answering(w, u)'
    BY <2>1 DEF Answering
  <2>4. CASE pc'[w] = "idle" /\ seen[w] = "valid"
    <3>1. Scanning(w, t) /\ \A u \in Tickets : ~Scanning(w, u)'
      BY <2>1, <2>4 DEF Scanning
    <3>2. Gate!GiveUpScan(w, t)
      BY <2>1, <2>2, <2>3, <3>1, GateGivesUp
    <3> QED
      BY <2>1, <3>2 DEF Gate!GateNext
  <2>5. CASE pc'[w] = "useTicket" /\ seen[w] = "absent"
    <3>1. \A u \in Tickets : ~Scanning(w, u) /\ (Scanning(w, u)' <=> u = t)
      BY <2>1, <2>5 DEF Scanning
    <3>2. ticket[t] = "valid"
      BY <2>1, <2>5 DEF SeenNow, Found
    <3>3. Gate!OpenScan(w, t)
      BY <2>1, <2>2, <2>3, <3>1, <3>2, GateOpens
    <3> QED
      BY <2>1, <3>3 DEF Gate!GateNext
  <2>6. CASE \/ pc'[w] = "idle" /\ seen[w] # "valid"
             \/ pc'[w] = "useTicket" /\ seen[w] # "absent"
    <3>1. \A u \in Tickets : Scanning(w, u)' <=> Scanning(w, u)
      BY <2>1, <2>6 DEF Scanning, SeenNow
    <3> QED
      BY <2>2, <2>3, <3>1, GateQuiet DEF GateRows
  <2> QED
    BY <2>1, <2>4, <2>5, <2>6
<1>7. ASSUME NEW w \in Workers, UseTicket(w) PROVE Gate!GateNext
  <2>1. req[w].ticket \in Tickets
    BY <1>7 DEF UseTicket, EInv, Fields
  <2> QED
    BY <1>7, <2>1, GateUses DEF Gate!GateNext
<1>8. ASSUME NEW w \in Workers, Admit(w) PROVE Gate!GateNext
  <2>1. /\ pc[w] = "answer" /\ pc'[w] = "idle" /\ req[w].ticket \in Tickets
        /\ admitted' = [admitted EXCEPT ![req[w].ticket] = @ + 1]
    BY <1>8 DEF Admit, Goto, EInv, Fields, TypeOK
  <2>2. GateRows(w)
    BY <1>8 DEF Admit, Goto, GateRows, Same, Committed, TypeOK
  <2>3. Gate!Enter(w, req[w].ticket)
    BY <2>1, <2>2, GateLoses DEF Scanning, Answering
  <2> QED
    BY <2>1, <2>3 DEF Gate!GateNext
<1>9. ASSUME NEW w \in Workers, Abort(w) PROVE Stutter \/ Gate!GateNext
  <2>1. /\ pc'[w] = "idle" /\ req' = req /\ admitted' = admitted
        /\ \A v \in Workers \ {w} : Same(v)
        /\ \A u \in Tickets : ticket'[u] = IF HasDrawn(w) /\ req[w].ticket = u
                                           THEN "lost" ELSE ticket[u]
    BY <1>9 DEF Abort, Same, TypeOK, HasDrawn
  <2>2. HasDrawn(w) => ticket[req[w].ticket] = "drawn"
    BY DEF EInv, DrawnTicket
  <2>3. GateRows(w)
    BY <2>1, <2>2 DEF GateRows, Committed
  <2>4. \A u \in Tickets : ~Scanning(w, u)' /\ ~Answering(w, u)'
    BY <2>1 DEF Scanning, Answering
  <2>5. ASSUME NEW t \in Tickets, Scanning(w, t) PROVE Gate!GateNext
    BY <2>1, <2>3, <2>4, <2>5, GateGivesUp DEF Gate!GateNext
  <2>6. ASSUME NEW t \in Tickets, Answering(w, t) PROVE Gate!GateNext
    BY <2>1, <2>3, <2>4, <2>6, GateLoses DEF Gate!GateNext
  <2>7. CASE \A u \in Tickets : ~Scanning(w, u) /\ ~Answering(w, u)
    BY <2>1, <2>3, <2>4, <2>7, GateQuiet DEF GateRows
  <2> QED
    BY <2>5, <2>6, <2>7
<1>10. Stutter => UNCHANGED Gate!gateVars
  BY DEF Gate!gateVars
<1> QED
  BY <1>1, <1>2, <1>3, <1>4, <1>5, <1>6, <1>7, <1>8, <1>9, <1>10 DEF Next, Begin, Proceed

LEMMA GateStart == ASSUME Init PROVE Gate!GateInit
  BY DEF Init, Gate!GateInit, gatePhase, gateOpen, gateGranted, Committed, Scanning, Answering

\* Whatever the channel of a scan and whatever happens to the transaction a QR code
\* was sent from, the door behaves as TicketGate (TicketEntry!ImplementsGate).
THEOREM EntryImplementsGate == Spec => ImplementsGate
<1>1. Init => Gate!GateInit
  BY GateStart
<1>2. EInv /\ [Next]_vars => [Gate!GateNext]_(Gate!gateVars)
  BY GateStep
<1> QED
  BY <1>1, <1>2, Invariance, PTL DEF Spec, ImplementsGate, Gate!GateSpec

-----------------------------------------------------------------------------
(* How many people enter with one ticket.                                  *)

\* Everyone who has entered with t, is being let in, or is at the door with it.
HeadsOf(t) == admitted[t] + Cardinality(gateGranted[t]) + Cardinality(gateOpen[t])

Bounded(t) ==
  IF gatePhase[t] = "used" THEN HeadsOf(t) <= Cardinality(Workers)
                           ELSE admitted[t] = 0 /\ gateGranted[t] = {}

LEMMA BoundedStart == ASSUME Init, NEW t \in Tickets PROVE Bounded(t)
  BY DEF Init, Bounded, gatePhase, gateGranted, Committed, Answering

LEMMA BoundedStep ==
  ASSUME TypeOK, TypeOK', NEW t \in Tickets, Bounded(t), [Gate!GateNext]_(Gate!gateVars)
  PROVE  Bounded(t)'
<1>1. /\ gateOpen[t] \in SUBSET Workers /\ gateGranted[t] \in SUBSET Workers
      /\ gateOpen'[t] \in SUBSET Workers /\ gateGranted'[t] \in SUBSET Workers
      /\ admitted[t] \in Nat /\ admitted'[t] \in Nat /\ Cardinality(Workers) \in Nat
      /\ IsFiniteSet(Workers)
  BY WorkersAssumption, FS_CardinalityType DEF TypeOK, gateOpen, gateGranted
<1>2. \A u \in Tickets : Gate!IssueTicket(u) =>
        \/ u = t /\ gatePhase[t] # "used" /\ gatePhase'[t] # "used"
           /\ UNCHANGED <<gateGranted[t], admitted[t]>>
        \/ UNCHANGED <<gatePhase[t], gateOpen[t], gateGranted[t], admitted[t]>>
  BY DEF Gate!IssueTicket, gatePhase
<1>3. \A u \in Tickets, s \in Workers : Gate!OpenScan(s, u) =>
        \/ u = t /\ gatePhase[t] # "used"
           /\ UNCHANGED <<gatePhase[t], gateGranted[t], admitted[t]>>
        \/ UNCHANGED <<gatePhase[t], gateOpen[t], gateGranted[t], admitted[t]>>
  BY DEF Gate!OpenScan, gateOpen
<1>4. \A u \in Tickets, s \in Workers :
        Gate!GiveUpScan(s, u) \/ Gate!UseUpTicket(s, u) \/ Gate!Enter(s, u) \/ Gate!LoseAnswer(s, u) =>
          \/ /\ s \in gateOpen[t] /\ gateOpen'[t] = gateOpen[t] \ {s}
             /\ UNCHANGED <<gatePhase[t], gateGranted[t], admitted[t]>>
          \/ /\ s \in gateOpen[t] /\ gateOpen'[t] = gateOpen[t] \ {s}
             /\ gateGranted'[t] = gateGranted[t] \cup {s} /\ admitted'[t] = admitted[t]
             /\ gatePhase'[t] = "used"
          \/ /\ s \in gateGranted[t] /\ gateGranted'[t] = gateGranted[t] \ {s}
             /\ UNCHANGED <<gatePhase[t], gateOpen[t]>>
             /\ admitted'[t] \in {admitted[t], admitted[t] + 1}
          \/ UNCHANGED <<gatePhase[t], gateOpen[t], gateGranted[t], admitted[t]>>
  <2> TAKE u \in Tickets, s \in Workers
  <2>1. /\ DOMAIN gatePhase = Tickets /\ DOMAIN gateOpen = Tickets
        /\ DOMAIN gateGranted = Tickets /\ DOMAIN admitted = Tickets
    BY DEF gatePhase, gateOpen, gateGranted, TypeOK
  <2>2. ASSUME Gate!GiveUpScan(s, u)
        PROVE  \/ /\ s \in gateOpen[t] /\ gateOpen'[t] = gateOpen[t] \ {s}
                  /\ UNCHANGED <<gatePhase[t], gateGranted[t], admitted[t]>>
               \/ UNCHANGED <<gatePhase[t], gateOpen[t], gateGranted[t], admitted[t]>>
    BY <2>1, <2>2 DEF Gate!GiveUpScan
  <2>3. ASSUME Gate!UseUpTicket(s, u)
        PROVE  \/ /\ s \in gateOpen[t] /\ gateOpen'[t] = gateOpen[t] \ {s}
                  /\ gateGranted'[t] = gateGranted[t] \cup {s} /\ admitted'[t] = admitted[t]
                  /\ gatePhase'[t] = "used"
               \/ UNCHANGED <<gatePhase[t], gateOpen[t], gateGranted[t], admitted[t]>>
    BY <2>1, <2>3 DEF Gate!UseUpTicket
  <2>4. ASSUME Gate!Enter(s, u) \/ Gate!LoseAnswer(s, u)
        PROVE  \/ /\ s \in gateGranted[t] /\ gateGranted'[t] = gateGranted[t] \ {s}
                  /\ UNCHANGED <<gatePhase[t], gateOpen[t]>>
                  /\ admitted'[t] \in {admitted[t], admitted[t] + 1}
               \/ UNCHANGED <<gatePhase[t], gateOpen[t], gateGranted[t], admitted[t]>>
    BY <2>1, <2>4 DEF Gate!Enter, Gate!LoseAnswer
  <2> QED
    BY <2>2, <2>3, <2>4
<1>5. CASE UNCHANGED <<gatePhase[t], gateOpen[t], gateGranted[t], admitted[t]>>
  BY <1>5 DEF Bounded, HeadsOf
<1>6. CASE /\ gatePhase[t] # "used" /\ gatePhase'[t] # "used"
           /\ UNCHANGED <<gateGranted[t], admitted[t]>>
  BY <1>6 DEF Bounded
<1>7. ASSUME NEW s \in Workers,
             \/ /\ s \in gateOpen[t] /\ gateOpen'[t] = gateOpen[t] \ {s}
                /\ UNCHANGED <<gatePhase[t], gateGranted[t], admitted[t]>>
             \/ /\ s \in gateOpen[t] /\ gateOpen'[t] = gateOpen[t] \ {s}
                /\ gateGranted'[t] = gateGranted[t] \cup {s} /\ admitted'[t] = admitted[t]
                /\ gatePhase'[t] = "used"
             \/ /\ s \in gateGranted[t] /\ gateGranted'[t] = gateGranted[t] \ {s}
                /\ UNCHANGED <<gatePhase[t], gateOpen[t]>>
                /\ admitted'[t] \in {admitted[t], admitted[t] + 1}
      PROVE  Bounded(t)'
  <2>1. admitted'[t] + Cardinality(gateGranted'[t]) + Cardinality(gateOpen'[t])
          <= admitted[t] + Cardinality(gateGranted[t]) + Cardinality(gateOpen[t])
    BY <1>1, <1>7, HeadsKept
  <2>2. HeadsOf(t) \in Nat /\ HeadsOf(t)' \in Nat
    BY <1>1, HeadsNat DEF HeadsOf
  <2>3. CASE gatePhase[t] = "used"
    BY <1>1, <1>7, <2>1, <2>2, <2>3 DEF Bounded, HeadsOf
  <2>4. CASE gatePhase[t] # "used"
    <3>1. admitted[t] = 0 /\ gateGranted[t] = {}
      BY <2>4 DEF Bounded
    <3>2. CASE gatePhase'[t] = "used"
      <4>1. /\ s \in gateOpen[t] /\ gateOpen'[t] = gateOpen[t] \ {s}
            /\ gateGranted'[t] = {s} /\ admitted'[t] = 0
        BY <1>7, <2>4, <3>1, <3>2
      <4> QED
        BY <1>1, <3>2, <4>1, FirstUse DEF Bounded, HeadsOf
    <3>3. CASE gatePhase'[t] # "used"
      BY <1>7, <3>1, <3>3 DEF Bounded
    <3> QED
      BY <3>2, <3>3
  <2> QED
    BY <2>3, <2>4
<1> QED
  BY <1>2, <1>3, <1>4, <1>5, <1>6, <1>7 DEF Gate!GateNext, Gate!gateVars

LEMMA BoundedEntries ==
  ASSUME TypeOK, NEW t \in Tickets, Bounded(t)
  PROVE  admitted[t] <= Cardinality(Workers) /\ (admitted[t] > 0 => ticket[t] = "used")
<1>1. /\ gateOpen[t] \in SUBSET Workers /\ gateGranted[t] \in SUBSET Workers
      /\ admitted[t] \in Nat
  BY DEF TypeOK, gateOpen, gateGranted
<1>2. /\ IsFiniteSet(gateOpen[t]) /\ IsFiniteSet(gateGranted[t])
      /\ Cardinality(Workers) \in Nat
  BY <1>1, WorkersAssumption, FS_Subset, FS_CardinalityType
<1>3. Cardinality(gateOpen[t]) \in Nat /\ Cardinality(gateGranted[t]) \in Nat
  BY <1>2, FS_CardinalityType
<1>4. gatePhase[t] = "used" => ticket[t] = "used"
  BY DEF gatePhase
<1> QED
  BY <1>1, <1>2, <1>3, <1>4 DEF Bounded, HeadsOf

\* A ticket lets in at most as many people as requests can be in flight at once, and
\* nobody before it is used (TicketEntry!EntryBound).
THEOREM EntriesBounded == Spec => []EntryBound
<1> DEFINE BInv == EInv /\ \A t \in Tickets : Bounded(t)
<1>1. Init => BInv
  BY InitInv, BoundedStart
<1>2. BInv /\ [Next]_vars => BInv'
  <2> SUFFICES ASSUME BInv, [Next]_vars PROVE BInv'
    OBVIOUS
  <2>1. EInv' /\ TypeOK /\ TypeOK'
    BY StepInv DEF EInv
  <2>2. [Gate!GateNext]_(Gate!gateVars)
    BY GateStep
  <2> QED
    BY <2>1, <2>2, BoundedStep
<1>3. BInv => EntryBound
  BY BoundedEntries DEF EInv, EntryBound
<1> QED
  BY <1>1, <1>2, <1>3, PTL DEF Spec

-----------------------------------------------------------------------------
(* Row locks.                                                              *)

\* A locked claim row is locked by the exchange of that claim, between its UPDATE
\* and its commit, where it waits for no lock.
LocksAreServed ==
  \A k \in Claims : lock[k] # NoWorker =>
    pc[lock[k]] \in {"insertTicket", "send", "commit"} /\ req[lock[k]].claim = k

LEMMA LocksStep == TypeOK /\ LocksAreServed /\ [Next]_vars => LocksAreServed'
<1> SUFFICES ASSUME TypeOK, LocksAreServed, [Next]_vars PROVE LocksAreServed'
  OBVIOUS
<1>1. CASE UNCHANGED vars \/ Tick
  BY <1>1 DEF LocksAreServed, vars, Tick
<1>2. ASSUME NEW w \in Workers,
             \/ Begin(w) \/ DeliverPrinted(w) \/ ValidateTicket(w) \/ UseTicket(w) \/ Admit(w)
      PROVE  LocksAreServed'
  <2>1. UNCHANGED lock /\ pc[w] \notin {"insertTicket", "send", "commit"}
    BY <1>2 DEF Begin, BeginClaim, PrintTicket, BeginApiScan, BeginChatScan, Start,
                DeliverPrinted, ValidateTicket, UseTicket, Admit
  <2>2. \A v \in Workers \ {w} : pc'[v] = pc[v] /\ req'[v] = req[v]
    BY <1>2 DEF Begin, BeginClaim, PrintTicket, BeginApiScan, BeginChatScan, Start,
                DeliverPrinted, ValidateTicket, UseTicket, Admit, Goto, TypeOK
  <2> QED
    BY <2>1, <2>2 DEF LocksAreServed, TypeOK
<1>3. ASSUME NEW w \in Workers, InsertTicket(w) \/ SendTicket(w) PROVE LocksAreServed'
  <2>1. /\ UNCHANGED lock /\ pc[w] \in {"insertTicket", "send"} /\ pc'[w] \in {"send", "commit"}
        /\ req'[w].claim = req[w].claim
    BY <1>3 DEF InsertTicket, SendTicket, Goto, TypeOK, Request
  <2>2. \A v \in Workers \ {w} : pc'[v] = pc[v] /\ req'[v] = req[v]
    BY <1>3 DEF InsertTicket, SendTicket, Goto, TypeOK
  <2> QED
    BY <2>1, <2>2 DEF LocksAreServed, TypeOK
<1>4. ASSUME NEW w \in Workers, MarkClaimed(w) PROVE LocksAreServed'
  BY <1>4 DEF MarkClaimed, Goto, LocksAreServed, TypeOK, Request
<1>5. ASSUME NEW w \in Workers, CommitClaim(w) PROVE LocksAreServed'
  BY <1>5 DEF CommitClaim, Goto, LocksAreServed, TypeOK, Request
<1>6. ASSUME NEW w \in Workers, Abort(w) PROVE LocksAreServed'
  BY <1>6 DEF Abort, LocksAreServed, TypeOK
<1> QED
  BY <1>1, <1>2, <1>3, <1>4, <1>5, <1>6 DEF Next, Proceed

\* Guests queue for a claim row only behind an exchange of that claim that is under way
\* and needs no other row: however many race for a link and whatever fails, no exchange
\* is left waiting for a lock nobody will release.
THEOREM LocksServed == Spec => []LocksAreServed
<1>1. Init => LocksAreServed
  BY DEF Init, LocksAreServed
<1>2. EInv => TypeOK
  BY DEF EInv
<1> QED
  BY <1>1, <1>2, LocksStep, Invariance, PTL DEF Spec
=============================================================================
