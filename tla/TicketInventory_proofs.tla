------------------------ MODULE TicketInventory_proofs ------------------------
(***************************************************************************)
(* Proofs about TicketInventory, for every number of requests, categories, *)
(* quantities and capacities.                                              *)
(***************************************************************************)
EXTENDS TicketInventory, TLAPS

USE DEF tables

LEMMA RowFacts == Categories \subseteq Rows /\ EventRow \in Rows
  BY DEF Rows

LEMMA InitType == ASSUME Init PROVE TypeOK
<1>1. NoRequest \in Request
  BY RowFacts DEF NoRequest, Request, Kinds
<1>2. [sold |-> 0, cap |-> 0, dflt |-> FALSE, ver |-> 0] \in Snapshot
  BY DEF Snapshot
<1>3. /\ live \in [Categories -> Lives] /\ dflt \in [Categories -> BOOLEAN]
      /\ lock \in [Rows -> Workers \cup {NoWorker}] /\ pc \in [Workers -> PCs]
      /\ stale \in [Rows -> BOOLEAN] /\ created \in BOOLEAN
  BY DEF Init, Lives, PCs
<1>4. /\ sold \in [Rows -> Int] /\ cap \in [Rows -> Nat] /\ seats \in [Rows -> Nat]
      /\ ver \in [Rows -> Nat] /\ lowered \in [Rows -> Nat]
      /\ requests \in Nat /\ aborts \in Nat
  BY DEF Init
<1>5. req \in [Workers -> Request] /\ snap \in [Workers -> Snapshot]
  BY <1>1, <1>2 DEF Init
<1> QED
  BY <1>3, <1>4, <1>5 DEF TypeOK

\* The snapshot a request takes of a row has the snapshot's type.
LEMMA RowNowType ==
  ASSUME TypeOK, NEW r \in Rows
  PROVE  RowNow(r) \in Snapshot
  BY RowFacts DEF TypeOK, RowNow, Snapshot, Rows

LEMMA WroteType ==
  ASSUME TypeOK, NEW w \in Workers, NEW r \in Rows, Wrote(w, r)
  PROVE  ver' \in [Rows -> Nat] /\ stale' \in [Rows -> BOOLEAN]
  BY DEF TypeOK, Wrote

LEMMA StepType == TypeOK /\ [Next]_vars => TypeOK'
<1> SUFFICES ASSUME TypeOK, [Next]_vars PROVE TypeOK'
  OBVIOUS
<1> USE RowFacts DEF TypeOK
<1>1. CASE UNCHANGED vars
  BY <1>1 DEF vars
<1>2. ASSUME NEW w \in Workers, Begin(w) PROVE TypeOK'
  <2>1. NoRequest \in Request
    BY DEF NoRequest, Request, Kinds
  <2>2. \A r \in Rows : RowNow(r) \in Snapshot
    BY RowNowType
  <2>3. ASSUME NEW rq \in Request, NEW r \in Rows, NEW next \in PCs,
               Start(w, rq, r, next)
        PROVE  /\ requests' \in Nat /\ aborts' \in Nat
               /\ pc' \in [Workers -> PCs]
               /\ req' \in [Workers -> Request]
               /\ snap' \in [Workers -> Snapshot]
    BY <2>2, <2>3 DEF Start
  <2>4. CASE BeginSale(w)
    <3>1. PICK k \in SaleKinds, q \in Quantities, c \in Rows :
            /\ Start(w, [NoRequest EXCEPT !.kind = k, !.qty = q, !.row = c], EventRow,
                     IF k = "claims" THEN "write" ELSE "resolve")
            /\ UNCHANGED <<tables, created>>
      BY <2>4 DEF BeginSale
    <3>2. [NoRequest EXCEPT !.kind = k, !.qty = q, !.row = c] \in Request
      BY <2>1, QuantityAssumption DEF Request, Kinds
    <3>3. (IF k = "claims" THEN "write" ELSE "resolve") \in PCs
      BY DEF PCs
    <3> QED
      BY <2>3, <3>1, <3>2, <3>3
  <2>5. CASE BeginCreateEvent(w)
    <3>1. PICK c \in Categories :
            /\ Start(w, [NoRequest EXCEPT !.kind = "createEvent", !.row = c,
                                          !.want = TotalCapacity, !.flag = TRUE],
                     EventRow, "insert")
            /\ created' = TRUE
            /\ live' = [live EXCEPT ![c] = "drawn"]
            /\ cap' = [cap EXCEPT ![EventRow] = TotalCapacity]
            /\ UNCHANGED <<dflt, sold, seats, lock, ver, lowered, stale>>
      BY <2>5 DEF BeginCreateEvent
    <3>2. [NoRequest EXCEPT !.kind = "createEvent", !.row = c,
                            !.want = TotalCapacity, !.flag = TRUE] \in Request
      BY <2>1, CapacityAssumption DEF Request, Kinds
    <3> QED
      BY <2>3, <3>1, <3>2, CapacityAssumption DEF PCs, Lives
  <2>6. CASE BeginCreateCategory(w)
    <3>1. PICK c \in Categories, n \in Capacities, f \in BOOLEAN :
            /\ Start(w, [NoRequest EXCEPT !.kind = "create", !.row = c, !.want = n, !.flag = f],
                     EventRow, IF f THEN "unset" ELSE "insert")
            /\ live' = [live EXCEPT ![c] = "drawn"]
            /\ UNCHANGED <<created, dflt, sold, cap, seats, lock, ver, lowered, stale>>
      BY <2>6 DEF BeginCreateCategory
    <3>2. [NoRequest EXCEPT !.kind = "create", !.row = c, !.want = n, !.flag = f] \in Request
      BY <2>1, CapacityAssumption DEF Request, Kinds
    <3>3. (IF f THEN "unset" ELSE "insert") \in PCs
      BY DEF PCs
    <3> QED
      BY <2>3, <3>1, <3>2, <3>3 DEF Lives
  <2>7. CASE BeginSetDefault(w)
    <3>1. PICK c \in Categories :
            /\ Start(w, [NoRequest EXCEPT !.kind = "setDefault", !.row = c], c, "unset")
            /\ UNCHANGED <<tables, created>>
      BY <2>7 DEF BeginSetDefault, LiveRows
    <3>2. [NoRequest EXCEPT !.kind = "setDefault", !.row = c] \in Request
      BY <2>1 DEF Request, Kinds
    <3> QED
      BY <2>3, <3>1, <3>2 DEF PCs
  <2>8. CASE BeginUpdateCategory(w)
    <3>1. PICK c \in Categories, n \in Capacities :
            /\ Start(w, [NoRequest EXCEPT !.kind = "update", !.row = c, !.want = n],
                     c, "saveCapacity")
            /\ UNCHANGED <<tables, created>>
      BY <2>8 DEF BeginUpdateCategory, LiveRows
    <3>2. [NoRequest EXCEPT !.kind = "update", !.row = c, !.want = n] \in Request
      BY <2>1, CapacityAssumption DEF Request, Kinds
    <3> QED
      BY <2>3, <3>1, <3>2 DEF PCs
  <2>9. CASE BeginDeleteCategory(w)
    <3>1. PICK c \in Categories :
            /\ Start(w, [NoRequest EXCEPT !.kind = "delete", !.row = c, !.other = c],
                     c, IF dflt[c] THEN "promote" ELSE "deleteRow")
            /\ UNCHANGED <<tables, created>>
      BY <2>9 DEF BeginDeleteCategory, LiveRows
    <3>2. [NoRequest EXCEPT !.kind = "delete", !.row = c, !.other = c] \in Request
      BY <2>1 DEF Request, Kinds
    <3>3. (IF dflt[c] THEN "promote" ELSE "deleteRow") \in PCs
      BY DEF PCs
    <3> QED
      BY <2>3, <3>1, <3>2, <3>3
  <2> QED
    BY <1>2, <2>4, <2>5, <2>6, <2>7, <2>8, <2>9 DEF Begin
<1>3. ASSUME NEW w \in Workers, Proceed(w) PROVE TypeOK'
  <2>1. CASE ResolveCategory(w)
    <3>1. Candidates(w) \subseteq Rows
      BY DEF Candidates, AnyCategory, LiveRows, Defaults
    <3>2. \A c \in Rows : SnapshotOf(w, c) \in Snapshot
      BY RowNowType DEF SnapshotOf
    <3> QED
      BY <2>1, <3>1, <3>2 DEF ResolveCategory, Request, PCs
  <2>2. CASE RefuseSale(w)
    BY <2>2 DEF RefuseSale, Goto, PCs
  <2>3. CASE WriteVanished(w)
    BY <2>3 DEF WriteVanished, Goto, PCs
  <2>4. CASE CommitSale(w)
    <3>1. /\ req[w].row \in Rows /\ snap[w].sold + req[w].qty \in Int
          /\ Given(req[w].qty) \in Nat /\ Given(-req[w].qty) \in Nat
      BY DEF Request, Snapshot, Given
    <3>2. ver' \in [Rows -> Nat] /\ stale' \in [Rows -> BOOLEAN]
      BY <2>4, <3>1, WroteType DEF CommitSale
    <3>3. sold' \in [Rows -> Int] /\ seats' \in [Rows -> Nat] /\ lowered' \in [Rows -> Nat]
      BY <2>4, <3>1 DEF CommitSale
    <3> QED
      BY <2>4, <3>2, <3>3 DEF CommitSale, Goto, PCs
  <2>5. CASE InsertCategory(w)
    <3>1. req[w].flag \in BOOLEAN /\ req[w].want \in Nat
      BY DEF Request
    <3>2. dflt' \in [Categories -> BOOLEAN]
      BY <2>5, <3>1 DEF InsertCategory
    <3>3. live' \in [Categories -> Lives] /\ cap' \in [Rows -> Nat]
      BY <2>5, <3>1 DEF InsertCategory, Lives
    <3> QED
      BY <2>5, <3>2, <3>3 DEF InsertCategory, Goto, PCs
  <2>6. CASE PickOther(w)
    <3>1. /\ UNCHANGED <<tables, snap, created, requests, aborts>>
          /\ pc' \in [Workers -> PCs]
      BY <2>6 DEF PickOther, Goto, PCs
    <3>2. ASSUME NEW o \in Rows, NEW f \in BOOLEAN,
                 req' = [req EXCEPT ![w].other = o, ![w].flag = f]
          PROVE  req' \in [Workers -> Request]
      BY <3>2 DEF Request
    <3>3. \A o \in LiveRows : o \in Rows /\ dflt[o] \in BOOLEAN
      BY DEF LiveRows
    <3>4. req' \in [Workers -> Request]
      BY <2>6, <3>2, <3>3 DEF PickOther, Goto
    <3> QED
      BY <3>1, <3>4
  <2> QED
    BY <1>3, <2>1, <2>2, <2>3, <2>4, <2>5, <2>6 DEF Proceed
<1>4. ASSUME NEW w \in Workers, Contend(w) PROVE TypeOK'
  <2>1. CASE WriteSold(w)
    BY <2>1 DEF WriteSold, Goto, PCs, Request
  <2>2. CASE UnsetDefaults(w)
    BY <2>2 DEF UnsetDefaults, Goto, PCs
  <2>3. CASE SetFlag(w)
    <3>1. dflt' \in [Categories -> BOOLEAN]
      BY <2>3 DEF SetFlag
    <3> QED
      BY <2>3, <3>1 DEF SetFlag, Goto, PCs
  <2>4. CASE SaveCapacity(w)
    <3>1. req[w].want \in Nat /\ req[w].row \in Rows
      BY DEF Request
    <3>2. \/ Wrote(w, req[w].row) /\ cap' = [cap EXCEPT ![req[w].row] = req[w].want]
          \/ UNCHANGED <<cap, ver, stale>>
      BY <2>4 DEF SaveCapacity
    <3>3. ver' \in [Rows -> Nat] /\ stale' \in [Rows -> BOOLEAN]
      BY <3>1, <3>2, WroteType
    <3>4. cap' \in [Rows -> Nat]
      BY <3>1, <3>2
    <3> QED
      BY <2>4, <3>3, <3>4 DEF SaveCapacity, Goto, PCs
  <2>5. CASE PromoteOther(w)
    BY <2>5 DEF PromoteOther, Goto, PCs, Request
  <2>6. CASE DeleteRow(w)
    BY <2>6 DEF DeleteRow, Goto, PCs, Lives
  <2> QED
    BY <1>4, <2>1, <2>2, <2>3, <2>4, <2>5, <2>6 DEF Contend
<1>5. ASSUME NEW w \in Workers, Abort(w) PROVE TypeOK'
  BY <1>5 DEF Abort, PCs
<1> QED
  BY <1>1, <1>2, <1>3, <1>4, <1>5 DEF Next

\* Every variable of the inventory keeps its type (TicketInventory!TypeOK).
THEOREM TypeCorrect == Spec => []TypeOK
<1>1. Init => TypeOK
  BY InitType
<1> QED
  BY <1>1, StepType, PTL DEF Spec

-----------------------------------------------------------------------------
(***************************************************************************)
(* The inductive invariant.  NoPhantomSeat, SeatsAccounted, NoOversell and *)
(* NoDanglingTicket are not inductive: they rest on what the requests in   *)
(* flight hold.                                                            *)
(***************************************************************************)

\* The row whose snapshot w holds, while w still needs it.
SnapRow(w) == IF pc[w] = "resolve" THEN EventRow ELSE req[w].row
Holding == {"resolve", "write", "commit", "saveCapacity"}

\* w is creating a category whose row is not inserted yet.
Drawing(w) == pc[w] = "insert" \/ (pc[w] = "unset" /\ req[w].kind = "create")

\* A held snapshot is of an existing row, is no newer than the row, is the row
\* unless the row was written since, and counts no seat that was not given.
SnapshotHeld(w) ==
  pc[w] \in Holding =>
    /\ SnapRow(w) \in Categories => live[SnapRow(w)] \in {"live", "deleted"}
    /\ created
    /\ snap[w].ver <= ver[SnapRow(w)]
    /\ snap[w].ver = ver[SnapRow(w)] =>
         snap[w].sold = sold[SnapRow(w)] /\ snap[w].cap = cap[SnapRow(w)]
    /\ snap[w].sold <= seats[SnapRow(w)]

\* What a request has checked against its snapshot.
Checked(w) ==
  /\ pc[w] \in {"write", "commit"} => snap[w].sold + req[w].qty <= snap[w].cap
  /\ pc[w] = "saveCapacity" => snap[w].sold <= req[w].want

\* A transaction about to commit has locked its row, which cannot be deleted.
Locked(w) ==
  pc[w] = "commit" =>
    /\ lock[req[w].row] = w
    /\ req[w].row \in Categories => live[req[w].row] = "live"

\* A category being created has an id of its own and no row.
Drawn(w) ==
  Drawing(w) => /\ created
                /\ req[w].row \in Categories
                /\ live[req[w].row] = "drawn"
                /\ \A v \in Workers \ {w} : Drawing(v) => req[v].row # req[w].row

\* The category being deleted has existed.
Deleting(w) ==
  pc[w] \in {"promote", "deleteRow"} =>
    req[w].row \in Categories /\ live[req[w].row] \in {"live", "deleted"}

\* No category exists before its event.
CreatedFirst == ~created => LiveRows = {}

\* A row that does not exist has given no seats.
Fresh ==
  /\ \A c \in Categories : live[c] \in {"unused", "drawn"} => seats[c] = 0
  /\ ~created => seats[EventRow] = 0

IInv ==
  /\ TypeOK
  /\ \A w \in Workers : SnapshotHeld(w)
  /\ \A w \in Workers : Checked(w)
  /\ \A w \in Workers : Locked(w)
  /\ \A w \in Workers : Drawn(w)
  /\ \A w \in Workers : Deleting(w)
  /\ CreatedFirst
  /\ Fresh
  /\ NoPhantomSeat
  /\ SeatsAccounted
  /\ NoOversell
  /\ NoDanglingTicket

LEMMA InitInv == ASSUME Init PROVE IInv
<1>1. TypeOK
  BY InitType
<1>2. \A w \in Workers : /\ SnapshotHeld(w) /\ Checked(w) /\ Locked(w)
                         /\ Drawn(w) /\ Deleting(w)
  BY DEF Init, SnapshotHeld, Holding, Checked, Locked, Drawn, Drawing, Deleting
<1>3. CreatedFirst /\ Fresh /\ NoDanglingTicket
  BY RowFacts DEF Init, CreatedFirst, LiveRows, Fresh, NoDanglingTicket
<1>4. NoPhantomSeat /\ SeatsAccounted /\ NoOversell
  BY DEF Init, NoPhantomSeat, SeatsAccounted, NoOversell
<1> QED
  BY <1>1, <1>2, <1>3, <1>4 DEF IInv

\* How a step of any request may change the rows the others have read: counters
\* and capacities change only with ver, existing rows do not become drawn ones.
Evolves ==
  /\ \A r \in Rows :
       /\ ver[r] <= ver'[r]
       /\ seats[r] <= seats'[r]
       /\ ver'[r] = ver[r] =>
            /\ sold'[r] = sold[r]
            /\ \/ cap'[r] = cap[r]
               \/ r = EventRow /\ ~created
               \/ r \in Categories /\ live[r] = "drawn"
  /\ \A c \in Categories : live[c] \in {"live", "deleted"} => live'[c] \in {"live", "deleted"}
  /\ created => created'

SameRequest(v) == pc'[v] = pc[v] /\ req'[v] = req[v] /\ snap'[v] = snap[v]

\* A request that does not move keeps what it knows while the rows evolve.
LEMMA OthersKeep ==
  ASSUME IInv, TypeOK', Evolves, NEW v \in Workers, SameRequest(v)
  PROVE  SnapshotHeld(v)' /\ Checked(v)' /\ Deleting(v)'
<1> DEFINE r == SnapRow(v)
<1>1. TypeOK /\ SnapshotHeld(v) /\ Checked(v) /\ Deleting(v)
  BY DEF IInv
<1>2. r \in Rows /\ SnapRow(v)' = r
  BY <1>1, RowFacts DEF SnapRow, SameRequest, TypeOK, Request
<1>3. SnapshotHeld(v)'
  <2> SUFFICES ASSUME pc[v] \in Holding
               PROVE  /\ r \in Categories => live'[r] \in {"live", "deleted"}
                      /\ created'
                      /\ snap[v].ver <= ver'[r]
                      /\ snap[v].ver = ver'[r] =>
                           snap[v].sold = sold'[r] /\ snap[v].cap = cap'[r]
                      /\ snap[v].sold <= seats'[r]
    BY <1>2 DEF SnapshotHeld, SameRequest, Holding
  <2>1. /\ snap[v].ver \in Nat /\ snap[v].sold \in Int
        /\ ver[r] \in Nat /\ ver'[r] \in Nat /\ seats[r] \in Nat /\ seats'[r] \in Nat
    BY <1>1, <1>2 DEF TypeOK, Snapshot
  <2>2. /\ r \in Categories => live[r] \in {"live", "deleted"}
        /\ created
        /\ snap[v].ver <= ver[r]
        /\ snap[v].ver = ver[r] => snap[v].sold = sold[r] /\ snap[v].cap = cap[r]
        /\ snap[v].sold <= seats[r]
    BY <1>1 DEF SnapshotHeld
  <2>3. /\ ver[r] <= ver'[r] /\ seats[r] <= seats'[r]
        /\ ver'[r] = ver[r] => sold'[r] = sold[r] /\ cap'[r] = cap[r]
    BY <1>2, <2>2 DEF Evolves
  <2>4. created' /\ (r \in Categories => live'[r] \in {"live", "deleted"})
    BY <2>2 DEF Evolves
  <2> QED
    BY <2>1, <2>2, <2>3, <2>4
<1>4. Checked(v)'
  BY <1>1 DEF Checked, SameRequest
<1>5. Deleting(v)'
  BY <1>1 DEF Deleting, SameRequest, Evolves
<1> QED
  BY <1>3, <1>4, <1>5

\* A step of w that leaves counters, capacities, seats, locks and lives alone
\* keeps the invariant if w still knows what its next step relies on.
LEMMA QuietStep ==
  ASSUME IInv, TypeOK', NEW w \in Workers,
         UNCHANGED <<live, sold, cap, seats, lock, ver, lowered, stale, created>>,
         \A v \in Workers \ {w} : SameRequest(v),
         SnapshotHeld(w)', Checked(w)', Deleting(w)', pc'[w] # "commit",
         Drawing(w)' => Drawing(w) /\ req'[w] = req[w]
  PROVE  IInv'
<1>1. Evolves
  BY DEF Evolves, IInv, TypeOK
<1>2. \A v \in Workers : SnapshotHeld(v)' /\ Checked(v)' /\ Deleting(v)'
  BY <1>1, OthersKeep
<1>3. \A v \in Workers : Locked(v)'
  BY DEF IInv, Locked, SameRequest
<1>4. \A v \in Workers : Drawing(v)' => Drawing(v) /\ req'[v] = req[v]
  BY DEF SameRequest, Drawing
<1>5. \A v \in Workers : Drawn(v)'
  BY <1>4 DEF IInv, Drawn
<1>6. /\ CreatedFirst' /\ Fresh' /\ NoPhantomSeat' /\ SeatsAccounted'
      /\ NoOversell' /\ NoDanglingTicket'
  BY DEF IInv, CreatedFirst, LiveRows, Fresh, NoPhantomSeat, SeatsAccounted, NoOversell, NoDanglingTicket
<1> QED
  BY <1>2, <1>3, <1>5, <1>6 DEF IInv

\* A request that ends without writing.
LEMMA GiveUp ==
  ASSUME IInv, TypeOK', NEW w \in Workers,
         UNCHANGED <<live, sold, cap, seats, lock, ver, lowered, stale>>, Goto(w, "idle")
  PROVE  IInv'
<1>1. \A v \in Workers \ {w} : SameRequest(v)
  BY DEF Goto, SameRequest, IInv, TypeOK
<1>2. pc'[w] = "idle" /\ created' = created
  BY DEF Goto, IInv, TypeOK
<1>3. SnapshotHeld(w)' /\ Checked(w)' /\ Deleting(w)' /\ ~Drawing(w)'
  BY <1>2 DEF SnapshotHeld, Holding, Checked, Deleting, Drawing
<1> QED
  BY <1>1, <1>2, <1>3, QuietStep

\* The requests other than the one that starts do not move.
LEMMA StartFacts ==
  ASSUME TypeOK, NEW w \in Workers, NEW rq, NEW r \in Rows, NEW next,
         Start(w, rq, r, next)
  PROVE  /\ \A v \in Workers \ {w} : SameRequest(v)
         /\ pc[w] = "idle" /\ pc'[w] = next /\ req'[w] = rq
         /\ snap'[w].sold = sold[r] /\ snap'[w].cap = cap[r] /\ snap'[w].ver = ver[r]
  BY DEF Start, SameRequest, TypeOK, RowNow

LEMMA BeginSaleInv ==
  ASSUME IInv, TypeOK', NEW w \in Workers, BeginSale(w)
  PROVE  IInv'
<1> TypeOK
  BY DEF IInv
<1>0. PICK k \in SaleKinds, q \in Quantities, c \in Rows :
        /\ created
        /\ k = "claims" => c = EventRow /\ CanSell(RowNow(EventRow), q)
        /\ Start(w, [NoRequest EXCEPT !.kind = k, !.qty = q, !.row = c], EventRow,
                 IF k = "claims" THEN "write" ELSE "resolve")
        /\ UNCHANGED <<tables, created>>
  BY RowFacts DEF BeginSale
<1>1. /\ \A v \in Workers \ {w} : SameRequest(v)
      /\ pc'[w] = IF k = "claims" THEN "write" ELSE "resolve"
      /\ req'[w] = [NoRequest EXCEPT !.kind = k, !.qty = q, !.row = c]
      /\ snap'[w].sold = sold[EventRow] /\ snap'[w].cap = cap[EventRow]
      /\ snap'[w].ver = ver[EventRow]
  <2> DEFINE rq == [NoRequest EXCEPT !.kind = k, !.qty = q, !.row = c]
             next == IF k = "claims" THEN "write" ELSE "resolve"
  <2>1. Start(w, rq, EventRow, next)
    BY <1>0
  <2> HIDE DEF rq, next
  <2>2. /\ \A v \in Workers \ {w} : SameRequest(v)
        /\ pc'[w] = next /\ req'[w] = rq
        /\ snap'[w].sold = sold[EventRow] /\ snap'[w].cap = cap[EventRow]
        /\ snap'[w].ver = ver[EventRow]
    BY <2>1, RowFacts, StartFacts
  <2> QED
    BY <2>2 DEF rq, next
<1>2. req'[w].row = c /\ req'[w].qty = q
  BY <1>1 DEF NoRequest
<1>3. /\ pc'[w] \in {"write", "resolve"}
      /\ pc'[w] = "write" => req'[w].row = EventRow /\ CanSell(RowNow(EventRow), q)
  BY <1>1, <1>0, <1>2
<1>4. SnapRow(w)' = EventRow
  BY <1>3 DEF SnapRow
<1>5. snap'[w].sold = sold[EventRow] /\ snap'[w].cap = cap[EventRow] /\ snap'[w].ver = ver[EventRow]
  BY <1>1
<1>6. SnapshotHeld(w)'
  <2>1. UNCHANGED <<sold, cap, seats, ver, created>>
    BY <1>0
  <2>2. sold[EventRow] <= seats[EventRow] /\ ver[EventRow] \in Nat
    BY RowFacts DEF IInv, NoPhantomSeat, TypeOK
  <2> QED
    BY <1>0, <1>4, <1>5, <2>1, <2>2, EventRowAssumption DEF SnapshotHeld
<1>7. Checked(w)'
  BY <1>0, <1>2, <1>3, <1>5 DEF Checked, CanSell, RowNow
<1>8. Deleting(w)' /\ ~Drawing(w)' /\ pc'[w] # "commit"
  BY <1>3 DEF Deleting, Drawing
<1> QED
  BY <1>1, <1>0, <1>6, <1>7, <1>8, QuietStep

LEMMA BeginSetDefaultInv ==
  ASSUME IInv, TypeOK', NEW w \in Workers, BeginSetDefault(w)
  PROVE  IInv'
<1> TypeOK
  BY DEF IInv
<1>1. PICK c \in LiveRows :
        /\ Start(w, [NoRequest EXCEPT !.kind = "setDefault", !.row = c], c, "unset")
        /\ UNCHANGED <<tables, created>>
  BY DEF BeginSetDefault
<1>2. c \in Rows
  BY RowFacts DEF LiveRows
<1>3. req'[w] = [NoRequest EXCEPT !.kind = "setDefault", !.row = c] /\ pc'[w] = "unset"
  BY <1>1 DEF Start, TypeOK
<1>4. req'[w].kind = "setDefault"
  BY <1>3 DEF NoRequest
<1>5. SnapshotHeld(w)' /\ Checked(w)' /\ Deleting(w)' /\ ~Drawing(w)' /\ pc'[w] # "commit"
  BY <1>3, <1>4 DEF SnapshotHeld, Holding, Checked, Deleting, Drawing
<1> QED
  BY <1>1, <1>2, <1>5, StartFacts, QuietStep

LEMMA BeginUpdateCategoryInv ==
  ASSUME IInv, TypeOK', NEW w \in Workers, BeginUpdateCategory(w)
  PROVE  IInv'
<1> TypeOK
  BY DEF IInv
<1>1. PICK c \in LiveRows, n \in Capacities :
        /\ n >= sold[c]
        /\ Start(w, [NoRequest EXCEPT !.kind = "update", !.row = c, !.want = n],
                 c, "saveCapacity")
        /\ UNCHANGED <<tables, created>>
  BY DEF BeginUpdateCategory
<1>2. c \in Rows /\ c \in Categories /\ live[c] = "live"
  BY RowFacts DEF LiveRows
<1>3. /\ req'[w] = [NoRequest EXCEPT !.kind = "update", !.row = c, !.want = n]
      /\ pc'[w] = "saveCapacity"
      /\ snap'[w].sold = sold[c] /\ snap'[w].cap = cap[c] /\ snap'[w].ver = ver[c]
  BY <1>1 DEF Start, TypeOK, RowNow
<1>4. req'[w].row = c /\ req'[w].want = n
  BY <1>3 DEF NoRequest
<1>5. SnapRow(w)' = c
  BY <1>3, <1>4 DEF SnapRow
<1>6. SnapshotHeld(w)'
  <2>1. UNCHANGED <<live, sold, cap, seats, ver, created>>
    BY <1>1
  <2>2. sold[c] <= seats[c] /\ ver[c] \in Nat /\ created
    BY <1>2 DEF IInv, NoPhantomSeat, TypeOK, CreatedFirst
  <2> QED
    BY <1>2, <1>3, <1>5, <2>1, <2>2 DEF SnapshotHeld
<1>7. Checked(w)'
  <2>1. sold[c] \in Int /\ n \in Nat
    BY <1>2, CapacityAssumption DEF TypeOK
  <2> QED
    BY <1>1, <1>3, <1>4, <2>1 DEF Checked
<1>8. Deleting(w)' /\ ~Drawing(w)' /\ pc'[w] # "commit"
  BY <1>3 DEF Deleting, Drawing
<1> QED
  BY <1>1, <1>2, <1>6, <1>7, <1>8, StartFacts, QuietStep

LEMMA BeginDeleteCategoryInv ==
  ASSUME IInv, TypeOK', NEW w \in Workers, BeginDeleteCategory(w)
  PROVE  IInv'
<1> TypeOK
  BY DEF IInv
<1>1. PICK c \in LiveRows :
        /\ Start(w, [NoRequest EXCEPT !.kind = "delete", !.row = c, !.other = c],
                 c, IF dflt[c] THEN "promote" ELSE "deleteRow")
        /\ UNCHANGED <<tables, created>>
  BY DEF BeginDeleteCategory
<1>2. c \in Rows /\ c \in Categories /\ live[c] = "live"
  BY RowFacts DEF LiveRows
<1>3. /\ req'[w] = [NoRequest EXCEPT !.kind = "delete", !.row = c, !.other = c]
      /\ pc'[w] \in {"promote", "deleteRow"}
  BY <1>1, <1>2, StartFacts
<1>4. req'[w].row = c
  BY <1>3 DEF NoRequest
<1>5. SnapshotHeld(w)' /\ Checked(w)' /\ ~Drawing(w)' /\ pc'[w] # "commit"
  BY <1>3 DEF SnapshotHeld, Holding, Checked, Drawing
<1>6. Deleting(w)'
  BY <1>1, <1>2, <1>4 DEF Deleting
<1> QED
  BY <1>1, <1>2, <1>5, <1>6, StartFacts, QuietStep

LEMMA ResolveCategoryInv ==
  ASSUME IInv, TypeOK', NEW w \in Workers, ResolveCategory(w)
  PROVE  IInv'
<1> TypeOK
  BY DEF IInv
<1>1. PICK c \in Candidates(w) :
        /\ CanSell(SnapshotOf(w, c), req[w].qty)
        /\ snap' = [snap EXCEPT ![w] = SnapshotOf(w, c)]
        /\ req' = [req EXCEPT ![w].row = c]
  BY DEF ResolveCategory
<1>2. /\ pc[w] = "resolve" /\ pc' = [pc EXCEPT ![w] = "write"]
      /\ UNCHANGED <<tables, created>>
  BY DEF ResolveCategory
<1>3. c = EventRow \/ (c \in Categories /\ live[c] = "live")
  BY DEF Candidates, AnyCategory, LiveRows, Defaults
<1>4. /\ pc'[w] = "write" /\ snap'[w] = SnapshotOf(w, c)
      /\ req'[w].row = c /\ req'[w].qty = req[w].qty
  BY <1>1, <1>2 DEF TypeOK, Request
<1>5. SnapRow(w)' = c /\ SnapRow(w) = EventRow
  BY <1>2, <1>4 DEF SnapRow
<1>6. SnapshotHeld(w)'
  <2>1. CASE c = EventRow
    <3>1. snap'[w] = snap[w]
      BY <1>4, <2>1 DEF SnapshotOf
    <3>2. SnapshotHeld(w) /\ pc[w] \in Holding
      BY <1>2 DEF IInv, Holding
    <3> QED
      BY <1>2, <1>5, <2>1, <3>1, <3>2 DEF SnapshotHeld
  <2>2. CASE c \in Categories /\ live[c] = "live"
    <3>1. snap'[w].sold = sold[c] /\ snap'[w].cap = cap[c] /\ snap'[w].ver = ver[c]
      BY <1>4, <2>2, EventRowAssumption DEF SnapshotOf, RowNow
    <3>2. sold[c] <= seats[c] /\ ver[c] \in Nat /\ created
      BY <1>2, <2>2, RowFacts DEF IInv, NoPhantomSeat, TypeOK, SnapshotHeld, Holding
    <3> QED
      BY <1>2, <1>5, <2>2, <3>1, <3>2 DEF SnapshotHeld
  <2> QED
    BY <1>3, <2>1, <2>2
<1>7. Checked(w)'
  BY <1>1, <1>4 DEF Checked, CanSell
<1>8. Deleting(w)' /\ ~Drawing(w)' /\ pc'[w] # "commit"
  BY <1>4 DEF Deleting, Drawing
<1>9. \A v \in Workers \ {w} : SameRequest(v)
  BY <1>1, <1>2 DEF SameRequest, TypeOK
<1> QED
  BY <1>2, <1>6, <1>7, <1>8, <1>9, QuietStep

LEMMA GotoFacts ==
  ASSUME TypeOK, NEW w \in Workers, NEW next, Goto(w, next)
  PROVE  /\ \A v \in Workers \ {w} : SameRequest(v)
         /\ pc'[w] = next /\ req' = req /\ snap' = snap /\ created' = created
  BY DEF Goto, SameRequest, TypeOK

LEMMA PickOtherInv ==
  ASSUME IInv, TypeOK', NEW w \in Workers, PickOther(w)
  PROVE  IInv'
<1> TypeOK
  BY DEF IInv
<1>1. CASE Goto(w, "idle")
  BY <1>1, GiveUp DEF PickOther
<1>2. CASE Goto(w, "deleteRow")
  <2>1. pc'[w] = "deleteRow" /\ req' = req /\ \A v \in Workers \ {w} : SameRequest(v)
    BY <1>2, GotoFacts
  <2>2. SnapshotHeld(w)' /\ Checked(w)' /\ ~Drawing(w)'
    BY <2>1 DEF SnapshotHeld, Holding, Checked, Drawing
  <2>3. Deleting(w)'
    BY <2>1 DEF Deleting, IInv, PickOther
  <2>4. created' = created
    BY <1>2 DEF Goto
  <2> QED
    BY <2>1, <2>2, <2>3, <2>4, QuietStep DEF PickOther
<1>3. CASE UNCHANGED <<pc, snap, created, requests, aborts>>
  <2>1. /\ pc[w] = "promote" /\ pc'[w] = "promote" /\ req'[w].row = req[w].row
        /\ \A v \in Workers \ {w} : SameRequest(v)
    <3>1. \/ req' = req
          \/ \E o \in LiveRows : req' = [req EXCEPT ![w].other = o, ![w].flag = dflt[o]]
      BY DEF PickOther, Goto
    <3>2. pc[w] = "promote" /\ pc'[w] = "promote"
      BY <1>3 DEF PickOther
    <3>3. req'[w].row = req[w].row
      <4>1. CASE req' = req
        BY <4>1
      <4>2. CASE \E o \in LiveRows : req' = [req EXCEPT ![w].other = o, ![w].flag = dflt[o]]
        <5>1. PICK o \in LiveRows : req' = [req EXCEPT ![w].other = o, ![w].flag = dflt[o]]
          BY <4>2
        <5>2. req'[w] = [req[w] EXCEPT !.other = o, !.flag = dflt[o]]
          BY <5>1 DEF TypeOK
        <5> QED
          BY <5>2 DEF TypeOK, Request
      <4> QED
        BY <3>1, <4>1, <4>2
    <3>4. \A v \in Workers \ {w} : req'[v] = req[v]
      BY <3>1 DEF TypeOK
    <3> QED
      BY <1>3, <3>2, <3>3, <3>4 DEF SameRequest
  <2>2. SnapshotHeld(w)' /\ Checked(w)' /\ ~Drawing(w)'
    BY <2>1 DEF SnapshotHeld, Holding, Checked, Drawing
  <2>3. Deleting(w)'
    BY <2>1 DEF Deleting, IInv, PickOther
  <2> QED
    BY <1>3, <2>1, <2>2, <2>3, QuietStep DEF PickOther
<1> QED
  BY <1>1, <1>2, <1>3 DEF PickOther

\* UnsetDefaults, SetFlag and PromoteOther write default flags only.
LEMMA FlagsInv ==
  ASSUME IInv, TypeOK', NEW w \in Workers,
         UnsetDefaults(w) \/ SetFlag(w) \/ PromoteOther(w)
  PROVE  IInv'
<1> TypeOK
  BY DEF IInv
<1>1. CASE UnsetDefaults(w)
  <2>1. /\ pc[w] = "unset" /\ pc'[w] = IF req[w].kind = "create" THEN "insert" ELSE "setFlag"
        /\ req' = req /\ created' = created /\ \A v \in Workers \ {w} : SameRequest(v)
    BY <1>1, GotoFacts DEF UnsetDefaults
  <2>2. /\ SnapshotHeld(w)' /\ Checked(w)' /\ Deleting(w)' /\ pc'[w] # "commit"
        /\ Drawing(w)' => Drawing(w) /\ req'[w] = req[w]
    BY <2>1 DEF SnapshotHeld, Holding, Checked, Deleting, Drawing
  <2> QED
    BY <1>1, <2>1, <2>2, QuietStep DEF UnsetDefaults
<1>2. CASE SetFlag(w)
  BY <1>2, GiveUp DEF SetFlag
<1>3. CASE PromoteOther(w)
  <2>1. /\ pc[w] = "promote" /\ pc'[w] = "deleteRow" /\ req' = req /\ created' = created
        /\ \A v \in Workers \ {w} : SameRequest(v)
    BY <1>3, GotoFacts DEF PromoteOther
  <2>2. SnapshotHeld(w)' /\ Checked(w)' /\ ~Drawing(w)'
    BY <2>1 DEF SnapshotHeld, Holding, Checked, Drawing
  <2>3. Deleting(w)'
    BY <1>3, <2>1 DEF Deleting, IInv, PromoteOther
  <2> QED
    BY <1>3, <2>1, <2>2, <2>3, QuietStep DEF PromoteOther
<1> QED
  BY <1>1, <1>2, <1>3

LEMMA WriteSoldInv ==
  ASSUME IInv, TypeOK', NEW w \in Workers, WriteSold(w)
  PROVE  IInv'
<1> TypeOK
  BY DEF IInv
<1> DEFINE r == req[w].row
<1>1. /\ pc[w] = "write" /\ pc'[w] = "commit" /\ req' = req /\ snap' = snap
      /\ created' = created /\ \A v \in Workers \ {w} : SameRequest(v)
  BY GotoFacts DEF WriteSold
<1>2. /\ r \in Rows /\ lock[r] = NoWorker /\ lock' = [lock EXCEPT ![r] = w]
      /\ r \in Categories => live[r] = "live"
      /\ UNCHANGED <<live, sold, cap, seats, ver, lowered, stale>>
  BY EventRowAssumption DEF WriteSold, Unlocked, Existing, LiveRows, TypeOK, Request
<1>3. Evolves
  BY <1>1, <1>2 DEF Evolves, TypeOK
<1>4. SnapshotHeld(w)' /\ Checked(w)' /\ Deleting(w)'
  <2>1. SnapshotHeld(w) /\ Checked(w) /\ SnapRow(w) = r /\ SnapRow(w)' = r
    BY <1>1 DEF IInv, SnapRow
  <2> QED
    BY <1>1, <1>2, <2>1 DEF SnapshotHeld, Checked, Deleting, Holding
<1>5. \A v \in Workers : SnapshotHeld(v)' /\ Checked(v)' /\ Deleting(v)'
  BY <1>1, <1>3, <1>4, OthersKeep
<1>6. \A v \in Workers : Locked(v)'
  BY <1>1, <1>2, NoWorkerAssumption DEF IInv, Locked, SameRequest, TypeOK
<1>7. \A v \in Workers : Drawn(v)'
  <2>1. \A v \in Workers : Drawing(v)' => Drawing(v) /\ req'[v] = req[v]
    BY <1>1 DEF SameRequest, Drawing
  <2> QED
    BY <1>1, <1>2, <2>1 DEF IInv, Drawn
<1>8. /\ CreatedFirst' /\ Fresh' /\ NoPhantomSeat' /\ SeatsAccounted'
      /\ NoOversell' /\ NoDanglingTicket'
  BY <1>1, <1>2 DEF IInv, CreatedFirst, LiveRows, Fresh, NoPhantomSeat, SeatsAccounted,
                    NoOversell, NoDanglingTicket
<1> QED
  BY <1>5, <1>6, <1>7, <1>8 DEF IInv

LEMMA CommitSaleInv ==
  ASSUME IInv, TypeOK', NEW w \in Workers, CommitSale(w)
  PROVE  IInv'
<1> TypeOK
  BY DEF IInv
<1> DEFINE r == req[w].row
<1>1. /\ pc[w] = "commit" /\ pc'[w] = "idle" /\ req' = req /\ snap' = snap
      /\ created' = created /\ \A v \in Workers \ {w} : SameRequest(v)
  BY GotoFacts DEF CommitSale
<1>2. /\ sold' = [sold EXCEPT ![r] = snap[w].sold + req[w].qty]
      /\ seats' = [seats EXCEPT ![r] = @ + Given(req[w].qty)]
      /\ lowered' = [lowered EXCEPT ![r] = @ + Given(-req[w].qty)]
      /\ lock' = [lock EXCEPT ![r] = NoWorker]
      /\ ver' = [ver EXCEPT ![r] = @ + 1]
      /\ stale' = [stale EXCEPT ![r] = @ \/ snap[w].ver # ver[r]]
      /\ UNCHANGED <<live, dflt, cap>>
  BY DEF CommitSale, Wrote
<1>3. /\ r \in Rows /\ req[w].qty \in Int
      /\ snap[w].sold \in Int /\ snap[w].cap \in Nat /\ snap[w].ver \in Nat
      /\ Given(req[w].qty) \in Nat /\ Given(-req[w].qty) \in Nat
      /\ Given(req[w].qty) - Given(-req[w].qty) = req[w].qty
  BY DEF TypeOK, Request, Snapshot, Given
<1>4. Evolves
  BY <1>1, <1>2, <1>3 DEF Evolves, TypeOK
<1>5. SnapshotHeld(w)' /\ Checked(w)' /\ Deleting(w)' /\ ~Drawing(w)'
  BY <1>1 DEF SnapshotHeld, Holding, Checked, Deleting, Drawing
<1>6. \A v \in Workers : SnapshotHeld(v)' /\ Checked(v)' /\ Deleting(v)'
  BY <1>1, <1>4, <1>5, OthersKeep
<1>7. lock[r] = w /\ (r \in Categories => live[r] = "live")
  BY <1>1 DEF IInv, Locked
<1>8. \A v \in Workers : Locked(v)'
  BY <1>1, <1>2, <1>7 DEF IInv, Locked, SameRequest, TypeOK
<1>9. \A v \in Workers : Drawn(v)'
  <2>1. \A v \in Workers : Drawing(v)' => Drawing(v) /\ req'[v] = req[v]
    BY <1>1, <1>5 DEF SameRequest, Drawing
  <2> QED
    BY <1>1, <1>2, <2>1 DEF IInv, Drawn
<1>10. /\ snap[w].sold <= seats[r] /\ snap[w].sold + req[w].qty <= snap[w].cap
       /\ snap[w].ver = ver[r] => snap[w].sold = sold[r] /\ snap[w].cap = cap[r]
       /\ created
  <2>1. SnapshotHeld(w) /\ Checked(w) /\ SnapRow(w) = r /\ pc[w] \in Holding
    BY <1>1 DEF IInv, SnapRow, Holding
  <2> QED
    BY <1>1, <2>1 DEF SnapshotHeld, Checked
<1>11. /\ sold'[r] = snap[w].sold + req[w].qty /\ seats'[r] = seats[r] + Given(req[w].qty)
       /\ lowered'[r] = lowered[r] + Given(-req[w].qty)
       /\ ~stale'[r] => ~stale[r] /\ snap[w].ver = ver[r]
       /\ cap'[r] = cap[r]
       /\ \A k \in Rows \ {r} : sold'[k] = sold[k] /\ seats'[k] = seats[k]
                                /\ lowered'[k] = lowered[k]
                                /\ stale'[k] = stale[k] /\ cap'[k] = cap[k]
  BY <1>2, <1>3 DEF TypeOK
<1>12. NoPhantomSeat'
  BY <1>3, <1>10, <1>11 DEF IInv, NoPhantomSeat, TypeOK
<1>13. SeatsAccounted'
  BY <1>3, <1>10, <1>11 DEF IInv, SeatsAccounted, TypeOK
<1>14. NoOversell'
  BY <1>3, <1>10, <1>11 DEF IInv, NoOversell, SeatsAccounted, TypeOK
<1>15. CreatedFirst' /\ Fresh' /\ NoDanglingTicket'
  BY <1>1, <1>2, <1>7, <1>10, <1>11, RowFacts
  DEF IInv, CreatedFirst, LiveRows, Fresh, NoDanglingTicket
<1> QED
  BY <1>6, <1>8, <1>9, <1>12, <1>13, <1>14, <1>15 DEF IInv

LEMMA InsertCategoryInv ==
  ASSUME IInv, TypeOK', NEW w \in Workers, InsertCategory(w)
  PROVE  IInv'
<1> TypeOK
  BY DEF IInv
<1> DEFINE c == req[w].row
<1>1. /\ pc[w] = "insert" /\ pc'[w] = "idle" /\ req' = req /\ snap' = snap
      /\ created' = created /\ \A v \in Workers \ {w} : SameRequest(v)
  BY GotoFacts DEF InsertCategory
<1>2. /\ live' = [live EXCEPT ![c] = "live"] /\ cap' = [cap EXCEPT ![c] = req[w].want]
      /\ UNCHANGED <<sold, seats, lock, ver, lowered, stale>>
  BY DEF InsertCategory
<1>3. /\ created /\ c \in Categories /\ live[c] = "drawn"
      /\ \A v \in Workers \ {w} : Drawing(v) => req[v].row # c
  BY <1>1 DEF IInv, Drawn, Drawing
<1>4. seats[c] = 0 /\ c \in Rows /\ req[w].want \in Nat
  BY <1>3, RowFacts DEF IInv, Fresh, TypeOK, Request
<1>5. Evolves
  BY <1>1, <1>2, <1>3, <1>4 DEF Evolves, TypeOK
<1>6. SnapshotHeld(w)' /\ Checked(w)' /\ Deleting(w)' /\ ~Drawing(w)'
  BY <1>1 DEF SnapshotHeld, Holding, Checked, Deleting, Drawing
<1>7. \A v \in Workers : SnapshotHeld(v)' /\ Checked(v)' /\ Deleting(v)'
  BY <1>1, <1>5, <1>6, OthersKeep
<1>8. \A v \in Workers : Locked(v)'
  BY <1>1, <1>2, <1>3 DEF IInv, Locked, SameRequest, TypeOK
<1>9. \A v \in Workers : Drawn(v)'
  <2>1. \A v \in Workers : Drawing(v)' => v # w /\ Drawing(v) /\ req'[v] = req[v]
    BY <1>1, <1>6 DEF SameRequest, Drawing
  <2> QED
    BY <1>1, <1>2, <1>3, <2>1 DEF IInv, Drawn, TypeOK
<1>10. NoPhantomSeat' /\ SeatsAccounted'
  BY <1>2 DEF IInv, NoPhantomSeat, SeatsAccounted
<1>11. NoOversell'
  BY <1>2, <1>4 DEF IInv, NoOversell, TypeOK
<1>12. CreatedFirst' /\ Fresh' /\ NoDanglingTicket'
  BY <1>1, <1>2, <1>3, <1>4 DEF IInv, CreatedFirst, Fresh, NoDanglingTicket, TypeOK
<1> QED
  BY <1>7, <1>8, <1>9, <1>10, <1>11, <1>12 DEF IInv

\* A request that creates a category: the fresh id c becomes its drawn category,
\* and no other request draws it.
LEMMA DrawnFresh ==
  ASSUME IInv, TypeOK', NEW w \in Workers, NEW c \in Categories,
         live[c] = "unused", live' = [live EXCEPT ![c] = "drawn"], created',
         Drawing(w)', req'[w].row = c,
         \A v \in Workers \ {w} : SameRequest(v)
  PROVE  \A v \in Workers : Drawn(v)'
<1> TypeOK
  BY DEF IInv
<1>1. \A v \in Workers \ {w} :
        Drawing(v)' => /\ Drawing(v) /\ req'[v] = req[v]
                       /\ req[v].row \in Categories /\ live[req[v].row] = "drawn"
                       /\ req[v].row # c
  BY DEF SameRequest, Drawing, IInv, Drawn
<1>2. Drawn(w)'
  BY <1>1 DEF Drawn, TypeOK
<1>3. ASSUME NEW v \in Workers \ {w}, Drawing(v)' PROVE Drawn(v)'
  <2>1. /\ req'[v] = req[v] /\ req[v].row \in Categories /\ live[req[v].row] = "drawn"
        /\ req[v].row # c /\ Drawing(v)
    BY <1>1, <1>3
  <2>2. \A u \in Workers \ {v} : Drawing(u)' => req'[u].row # req'[v].row
    <3>1. \A u \in Workers \ {v, w} : Drawing(u)' => Drawing(u) /\ req'[u] = req[u]
      BY <1>1
    <3>2. \A u \in Workers \ {v} : Drawing(u) => req[u].row # req[v].row
      BY <2>1 DEF IInv, Drawn
    <3> QED
      BY <2>1, <3>1, <3>2
  <2>3. live'[req[v].row] = "drawn"
    BY <2>1 DEF TypeOK
  <2> QED
    BY <2>1, <2>2, <2>3 DEF Drawn
<1>4. \A v \in Workers : ~Drawing(v)' => Drawn(v)'
  BY DEF Drawn
<1> QED
  BY <1>2, <1>3, <1>4

LEMMA BeginCreateEventInv ==
  ASSUME IInv, TypeOK', NEW w \in Workers, BeginCreateEvent(w)
  PROVE  IInv'
<1> TypeOK
  BY DEF IInv
<1>1. PICK c \in Categories :
        /\ ~created
        /\ live[c] = "unused"
        /\ Start(w, [NoRequest EXCEPT !.kind = "createEvent", !.row = c,
                                      !.want = TotalCapacity, !.flag = TRUE],
                 EventRow, "insert")
        /\ created' = TRUE
        /\ live' = [live EXCEPT ![c] = "drawn"]
        /\ cap' = [cap EXCEPT ![EventRow] = TotalCapacity]
        /\ UNCHANGED <<dflt, sold, seats, lock, ver, lowered, stale>>
  BY DEF BeginCreateEvent
<1>2. /\ pc'[w] = "insert"
      /\ req'[w] = [NoRequest EXCEPT !.kind = "createEvent", !.row = c,
                                     !.want = TotalCapacity, !.flag = TRUE]
      /\ \A v \in Workers \ {w} : SameRequest(v)
  BY <1>1 DEF Start, TypeOK, SameRequest
<1>3. req'[w].row = c
  BY <1>2 DEF NoRequest
<1>4. Evolves
  BY <1>1, RowFacts, EventRowAssumption DEF Evolves, TypeOK
<1>5. SnapshotHeld(w)' /\ Checked(w)' /\ Deleting(w)' /\ Drawing(w)'
  BY <1>2 DEF SnapshotHeld, Holding, Checked, Deleting, Drawing
<1>6. \A v \in Workers : SnapshotHeld(v)' /\ Checked(v)' /\ Deleting(v)'
  BY <1>2, <1>4, <1>5, OthersKeep
<1>7. \A v \in Workers : Locked(v)'
  BY <1>1, <1>2 DEF IInv, Locked, SameRequest, TypeOK
<1>8. \A v \in Workers : Drawn(v)'
  BY <1>1, <1>2, <1>3, <1>5, DrawnFresh
<1>9. NoPhantomSeat' /\ SeatsAccounted'
  BY <1>1 DEF IInv, NoPhantomSeat, SeatsAccounted
<1>10. NoOversell'
  <2>1. seats[EventRow] = 0
    BY <1>1 DEF IInv, Fresh
  <2> QED
    BY <1>1, <2>1, CapacityAssumption, RowFacts DEF IInv, NoOversell, TypeOK
<1>11. CreatedFirst' /\ Fresh' /\ NoDanglingTicket'
  BY <1>1 DEF IInv, CreatedFirst, Fresh, NoDanglingTicket, TypeOK
<1> QED
  BY <1>6, <1>7, <1>8, <1>9, <1>10, <1>11 DEF IInv

LEMMA BeginCreateCategoryInv ==
  ASSUME IInv, TypeOK', NEW w \in Workers, BeginCreateCategory(w)
  PROVE  IInv'
<1> TypeOK
  BY DEF IInv
<1>1. PICK c \in Categories, n \in Capacities, f \in BOOLEAN :
        /\ created
        /\ live[c] = "unused"
        /\ Start(w, [NoRequest EXCEPT !.kind = "create", !.row = c, !.want = n, !.flag = f],
                 EventRow, IF f THEN "unset" ELSE "insert")
        /\ live' = [live EXCEPT ![c] = "drawn"]
        /\ UNCHANGED <<created, dflt, sold, cap, seats, lock, ver, lowered, stale>>
  BY DEF BeginCreateCategory
<1>2. /\ pc'[w] \in {"insert", "unset"}
      /\ req'[w] = [NoRequest EXCEPT !.kind = "create", !.row = c, !.want = n, !.flag = f]
      /\ \A v \in Workers \ {w} : SameRequest(v)
  BY <1>1 DEF Start, TypeOK, SameRequest
<1>3. req'[w].row = c /\ req'[w].kind = "create"
  BY <1>2 DEF NoRequest
<1>4. Evolves
  BY <1>1 DEF Evolves, TypeOK
<1>5. SnapshotHeld(w)' /\ Checked(w)' /\ Deleting(w)' /\ Drawing(w)'
  BY <1>2, <1>3 DEF SnapshotHeld, Holding, Checked, Deleting, Drawing
<1>6. \A v \in Workers : SnapshotHeld(v)' /\ Checked(v)' /\ Deleting(v)'
  BY <1>2, <1>4, <1>5, OthersKeep
<1>7. \A v \in Workers : Locked(v)'
  BY <1>1, <1>2 DEF IInv, Locked, SameRequest, TypeOK
<1>8. \A v \in Workers : Drawn(v)'
  BY <1>1, <1>2, <1>3, <1>5, DrawnFresh
<1>9. NoPhantomSeat' /\ SeatsAccounted' /\ NoOversell'
  BY <1>1 DEF IInv, NoPhantomSeat, SeatsAccounted, NoOversell
<1>10. CreatedFirst' /\ Fresh' /\ NoDanglingTicket'
  BY <1>1 DEF IInv, CreatedFirst, Fresh, NoDanglingTicket, TypeOK
<1> QED
  BY <1>6, <1>7, <1>8, <1>9, <1>10 DEF IInv

LEMMA SaveCapacityInv ==
  ASSUME IInv, TypeOK', NEW w \in Workers, SaveCapacity(w)
  PROVE  IInv'
<1> TypeOK
  BY DEF IInv
<1> DEFINE c == req[w].row
<1>1. /\ pc[w] = "saveCapacity" /\ pc'[w] = "idle" /\ req' = req /\ snap' = snap
      /\ created' = created /\ \A v \in Workers \ {w} : SameRequest(v)
  BY GotoFacts DEF SaveCapacity
<1>2. UNCHANGED <<live, dflt, sold, seats, lock, lowered>>
  BY DEF SaveCapacity
<1>3. c \in Rows /\ req[w].want \in Nat /\ snap[w].ver \in Nat
  BY DEF TypeOK, Request, Snapshot
<1>4. CASE UNCHANGED <<cap, ver, stale>>
  BY <1>1, <1>2, <1>4, GotoFacts, GiveUp DEF SaveCapacity
<1>5. CASE cap' = [cap EXCEPT ![c] = req[w].want] /\ Wrote(w, c)
  <2>1. /\ ver' = [ver EXCEPT ![c] = @ + 1]
        /\ stale' = [stale EXCEPT ![c] = @ \/ snap[w].ver # ver[c]]
    BY <1>5 DEF Wrote
  <2>2. Evolves
    BY <1>1, <1>2, <1>3, <1>5, <2>1 DEF Evolves, TypeOK
  <2>3. SnapshotHeld(w)' /\ Checked(w)' /\ Deleting(w)' /\ ~Drawing(w)'
    BY <1>1 DEF SnapshotHeld, Holding, Checked, Deleting, Drawing
  <2>4. \A v \in Workers : SnapshotHeld(v)' /\ Checked(v)' /\ Deleting(v)'
    BY <1>1, <2>2, <2>3, OthersKeep
  <2>5. \A v \in Workers : Locked(v)'
    BY <1>1, <1>2 DEF IInv, Locked, SameRequest
  <2>6. \A v \in Workers : Drawn(v)'
    <3>1. \A v \in Workers : Drawing(v)' => Drawing(v) /\ req'[v] = req[v]
      BY <1>1, <2>3 DEF SameRequest, Drawing
    <3> QED
      BY <1>1, <1>2, <3>1 DEF IInv, Drawn
  <2>7. /\ snap[w].sold <= req[w].want
        /\ snap[w].ver = ver[c] => snap[w].sold = sold[c]
    <3>1. SnapshotHeld(w) /\ Checked(w) /\ SnapRow(w) = c
      BY <1>1 DEF IInv, SnapRow
    <3> QED
      BY <1>1, <3>1 DEF SnapshotHeld, Checked, Holding
  <2>8. NoPhantomSeat' /\ SeatsAccounted'
    BY <1>2, <2>1 DEF IInv, NoPhantomSeat, SeatsAccounted, TypeOK
  <2>9. NoOversell'
    <3>1. \A r \in Rows \ {c} : stale'[r] = stale[r] /\ cap'[r] = cap[r]
      BY <1>5, <2>1 DEF TypeOK
    <3>2. ~stale'[c] => seats[c] <= cap'[c] + lowered[c]
      <4> SUFFICES ASSUME ~stale'[c] PROVE seats[c] <= req[w].want + lowered[c]
        BY <1>3, <1>5 DEF TypeOK
      <4>1. ~stale[c] /\ snap[w].ver = ver[c]
        BY <1>3, <2>1 DEF TypeOK
      <4>2. sold[c] = seats[c] - lowered[c] /\ sold[c] <= req[w].want
        BY <1>3, <2>7, <4>1 DEF IInv, SeatsAccounted
      <4> QED
        BY <1>3, <4>2 DEF TypeOK
    <3> QED
      BY <1>2, <3>1, <3>2 DEF IInv, NoOversell
  <2>10. CreatedFirst' /\ Fresh' /\ NoDanglingTicket'
    BY <1>1, <1>2 DEF IInv, CreatedFirst, LiveRows, Fresh, NoDanglingTicket
  <2> QED
    BY <2>4, <2>5, <2>6, <2>8, <2>9, <2>10 DEF IInv
<1> QED
  BY <1>4, <1>5 DEF SaveCapacity

LEMMA DeleteRowInv ==
  ASSUME IInv, TypeOK', NEW w \in Workers, DeleteRow(w)
  PROVE  IInv'
<1> TypeOK
  BY DEF IInv
<1> DEFINE c == req[w].row
<1>1. /\ pc[w] = "deleteRow" /\ pc'[w] = "idle" /\ req' = req /\ snap' = snap
      /\ created' = created /\ \A v \in Workers \ {w} : SameRequest(v)
      /\ lock[c] = NoWorker
      /\ UNCHANGED <<sold, cap, seats, lock, ver, lowered, stale>>
  BY GotoFacts DEF DeleteRow, Unlocked
<1>2. c \in Categories /\ live[c] \in {"live", "deleted"}
  BY <1>1 DEF IInv, Deleting
<1>3. \/ live' = live
      \/ seats[c] = 0 /\ live' = [live EXCEPT ![c] = "deleted"]
  BY DEF DeleteRow
<1>4. Evolves
  BY <1>1, <1>2, <1>3 DEF Evolves, TypeOK
<1>5. SnapshotHeld(w)' /\ Checked(w)' /\ Deleting(w)' /\ ~Drawing(w)'
  BY <1>1 DEF SnapshotHeld, Holding, Checked, Deleting, Drawing
<1>6. \A v \in Workers : SnapshotHeld(v)' /\ Checked(v)' /\ Deleting(v)'
  BY <1>1, <1>4, <1>5, OthersKeep
<1>7. \A v \in Workers : Locked(v)'
  <2>1. \A v \in Workers : pc'[v] = "commit" =>
          /\ pc[v] = "commit" /\ req[v].row # c /\ lock[req[v].row] = v
          /\ req[v].row \in Categories => live[req[v].row] = "live"
    BY <1>1, NoWorkerAssumption DEF IInv, Locked, SameRequest
  <2> QED
    BY <1>1, <1>2, <1>3, <2>1 DEF Locked, TypeOK
<1>8. \A v \in Workers : Drawn(v)'
  <2>1. \A v \in Workers : Drawing(v)' => Drawing(v) /\ req'[v] = req[v]
    BY <1>1, <1>5 DEF SameRequest, Drawing
  <2> QED
    BY <1>1, <1>2, <1>3, <2>1 DEF IInv, Drawn, TypeOK
<1>9. NoPhantomSeat' /\ SeatsAccounted' /\ NoOversell'
  BY <1>1 DEF IInv, NoPhantomSeat, SeatsAccounted, NoOversell
<1>10. Fresh' /\ NoDanglingTicket'
  BY <1>1, <1>2, <1>3, RowFacts DEF IInv, Fresh, NoDanglingTicket, TypeOK
<1>11. CreatedFirst'
  BY <1>1, <1>2, <1>3 DEF IInv, CreatedFirst, LiveRows, TypeOK
<1> QED
  BY <1>6, <1>7, <1>8, <1>9, <1>10, <1>11 DEF IInv

LEMMA AbortInv ==
  ASSUME IInv, TypeOK', NEW w \in Workers, Abort(w)
  PROVE  IInv'
<1> TypeOK
  BY DEF IInv
<1>1. /\ pc'[w] = "idle" /\ \A v \in Workers \ {w} : SameRequest(v)
      /\ lock' = [r \in Rows |-> IF lock[r] = w THEN NoWorker ELSE lock[r]]
      /\ UNCHANGED <<live, dflt, sold, cap, seats, ver, lowered, stale, created>>
  BY DEF Abort, SameRequest, TypeOK
<1>2. Evolves
  BY <1>1 DEF Evolves, TypeOK
<1>3. SnapshotHeld(w)' /\ Checked(w)' /\ Deleting(w)' /\ ~Drawing(w)'
  BY <1>1 DEF SnapshotHeld, Holding, Checked, Deleting, Drawing
<1>4. \A v \in Workers : SnapshotHeld(v)' /\ Checked(v)' /\ Deleting(v)'
  BY <1>1, <1>2, <1>3, OthersKeep
<1>5. \A v \in Workers : Locked(v)'
  BY <1>1 DEF IInv, Locked, SameRequest, TypeOK, Request
<1>6. \A v \in Workers : Drawn(v)'
  <2>1. \A v \in Workers : Drawing(v)' => Drawing(v) /\ req'[v] = req[v]
    BY <1>3 , <1>1 DEF SameRequest, Drawing
  <2> QED
    BY <1>1, <2>1 DEF IInv, Drawn
<1>7. /\ CreatedFirst' /\ Fresh' /\ NoPhantomSeat' /\ SeatsAccounted'
      /\ NoOversell' /\ NoDanglingTicket'
  BY <1>1 DEF IInv, CreatedFirst, LiveRows, Fresh, NoPhantomSeat, SeatsAccounted,
              NoOversell, NoDanglingTicket
<1> QED
  BY <1>4, <1>5, <1>6, <1>7 DEF IInv

LEMMA StepInv == IInv /\ [Next]_vars => IInv'
<1> SUFFICES ASSUME IInv, [Next]_vars PROVE IInv'
  OBVIOUS
<1>1. TypeOK'
  BY StepType DEF IInv
<1>2. CASE UNCHANGED vars
  BY <1>2 DEF vars, IInv, TypeOK, SnapshotHeld, SnapRow, Checked, Locked, Drawn, Drawing,
              Deleting, CreatedFirst, LiveRows, Fresh, NoPhantomSeat, SeatsAccounted,
              NoOversell, NoDanglingTicket
<1>3. ASSUME NEW w \in Workers, Begin(w) PROVE IInv'
  BY <1>1, <1>3, BeginSaleInv, BeginCreateEventInv, BeginCreateCategoryInv,
     BeginSetDefaultInv, BeginUpdateCategoryInv, BeginDeleteCategoryInv DEF Begin
<1>4. ASSUME NEW w \in Workers, Proceed(w) PROVE IInv'
  <2>1. CASE RefuseSale(w)
    BY <1>1, <2>1, GiveUp DEF RefuseSale
  <2>2. CASE WriteVanished(w)
    BY <1>1, <2>2, GiveUp DEF WriteVanished
  <2> QED
    BY <1>1, <1>4, <2>1, <2>2, ResolveCategoryInv, CommitSaleInv, InsertCategoryInv,
       PickOtherInv DEF Proceed
<1>5. ASSUME NEW w \in Workers, Contend(w) PROVE IInv'
  BY <1>1, <1>5, WriteSoldInv, FlagsInv, SaveCapacityInv, DeleteRowInv DEF Contend
<1> QED
  BY <1>1, <1>2, <1>3, <1>4, <1>5, AbortInv DEF Next

\* The strengthening the four results below are read off.
THEOREM Invariance == Spec => []IInv
<1>1. Init => IInv
  BY InitInv
<1> QED
  BY <1>1, StepInv, PTL DEF Spec

\* No seat is ever blocked without a ticket or claim (TicketInventory!NoPhantomSeat):
\* the counter a request commits was computed from a counter no larger than the seats.
THEOREM PhantomFree == Spec => []NoPhantomSeat
<1>1. IInv => NoPhantomSeat
  BY DEF IInv
<1> QED
  BY <1>1, Invariance, PTL

\* On rows no outdated read was written to, a counter is off by what sales of
\* negative quantities took off it, and by nothing else, for quantities of either
\* sign (TicketInventory!SeatsAccounted).
THEOREM CountersExplained == Spec => []SeatsAccounted
<1>1. IInv => SeatsAccounted
  BY DEF IInv
<1> QED
  BY <1>1, Invariance, PTL

\* A row is oversold by an outdated read, or by as many seats as sales of negative
\* quantities took off its counter, and in no other way (TicketInventory!NoOversell).
THEOREM OversellExplained == Spec => []NoOversell
<1>1. IInv => NoOversell
  BY DEF IInv
<1> QED
  BY <1>1, Invariance, PTL

\* No ticket outlives its category (TicketInventory!NoDanglingTicket).
THEOREM TicketsKeepTheirCategory == Spec => []NoDanglingTicket
<1>1. IInv => NoDanglingTicket
  BY DEF IInv
<1> QED
  BY <1>1, Invariance, PTL

-----------------------------------------------------------------------------
(* Row locks.                                                              *)

\* A locked row is locked by a sale that only has to commit: CommitSale waits for
\* no lock, so whoever queues for a row queues for a request that does not queue.
LocksAreServed ==
  \A r \in Rows : lock[r] # NoWorker => pc[lock[r]] = "commit" /\ req[lock[r]].row = r

LEMMA LocksKeep ==
  ASSUME TypeOK, LocksAreServed, UNCHANGED lock, NEW w \in Workers, pc[w] # "commit",
         \A v \in Workers \ {w} : pc'[v] = pc[v] /\ req'[v] = req[v]
  PROVE  LocksAreServed'
  BY DEF LocksAreServed, TypeOK

LEMMA LocksStep == TypeOK /\ LocksAreServed /\ [Next]_vars => LocksAreServed'
<1> SUFFICES ASSUME TypeOK, LocksAreServed, [Next]_vars PROVE LocksAreServed'
  OBVIOUS
<1>1. CASE UNCHANGED vars
  BY <1>1 DEF LocksAreServed, vars
<1>2. ASSUME NEW w \in Workers, Begin(w) PROVE LocksAreServed'
  <2>1. UNCHANGED lock
    BY <1>2 DEF Begin, BeginSale, BeginCreateEvent, BeginCreateCategory, BeginSetDefault,
                BeginUpdateCategory, BeginDeleteCategory
  <2>2. \E rq, r, next : Start(w, rq, r, next)
    BY <1>2 DEF Begin, BeginSale, BeginCreateEvent, BeginCreateCategory, BeginSetDefault,
                BeginUpdateCategory, BeginDeleteCategory
  <2>3. pc[w] = "idle" /\ \A v \in Workers \ {w} : pc'[v] = pc[v] /\ req'[v] = req[v]
    BY <2>2 DEF Start, TypeOK
  <2> QED
    BY <2>1, <2>3, LocksKeep
<1>3. ASSUME NEW w \in Workers,
             \/ ResolveCategory(w) \/ RefuseSale(w) \/ WriteVanished(w) \/ InsertCategory(w)
             \/ PickOther(w) \/ UnsetDefaults(w) \/ SetFlag(w) \/ SaveCapacity(w)
             \/ PromoteOther(w) \/ DeleteRow(w)
      PROVE  LocksAreServed'
  <2>1. UNCHANGED lock /\ pc[w] # "commit"
    BY <1>3 DEF ResolveCategory, RefuseSale, WriteVanished, InsertCategory, PickOther,
                UnsetDefaults, SetFlag, SaveCapacity, PromoteOther, DeleteRow
  <2>2. \A v \in Workers \ {w} : pc'[v] = pc[v] /\ req'[v] = req[v]
    BY <1>3 DEF ResolveCategory, RefuseSale, WriteVanished, InsertCategory, PickOther,
                UnsetDefaults, SetFlag, SaveCapacity, PromoteOther, DeleteRow, Goto, TypeOK
  <2> QED
    BY <2>1, <2>2, LocksKeep
<1>4. ASSUME NEW w \in Workers, WriteSold(w) PROVE LocksAreServed'
  <2>1. req[w].row \in Rows
    BY DEF TypeOK, Request
  <2> QED
    BY <1>4, <2>1 DEF WriteSold, Unlocked, Goto, LocksAreServed, TypeOK
<1>5. ASSUME NEW w \in Workers, CommitSale(w) PROVE LocksAreServed'
  <2>1. req[w].row \in Rows
    BY DEF TypeOK, Request
  <2> QED
    BY <1>5, <2>1 DEF CommitSale, Goto, LocksAreServed, TypeOK
<1>6. ASSUME NEW w \in Workers, Abort(w) PROVE LocksAreServed'
  BY <1>6 DEF Abort, LocksAreServed, TypeOK
<1> QED
  BY <1>1, <1>2, <1>3, <1>4, <1>5, <1>6 DEF Next, Proceed, Contend

\* No request is left waiting for a row for good: a locked row belongs to a sale in
\* flight that only has to commit, and no commit, failure or deletion leaves a lock
\* behind.  So requests that queue for rows never wait for one another in a circle.
THEOREM LocksServed == Spec => []LocksAreServed
<1>1. Init => LocksAreServed
  BY DEF Init, LocksAreServed
<1> QED
  BY <1>1, LocksStep, TypeCorrect, PTL DEF Spec
=============================================================================
