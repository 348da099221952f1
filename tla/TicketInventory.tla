--------------------------- MODULE TicketInventory ---------------------------
(***************************************************************************)
(* The seat inventory of one event of backend/src/ticketing: the event row *)
(* and its ticket_category rows, the use cases that sell seats from them   *)
(* (IssueTicket, GenerateTicketsQR, GenerateClaimLink) and the use cases   *)
(* that administer them (CreateEvent, Create-, Update-, SetDefault- and    *)
(* DeleteCategory).                                                        *)
(*                                                                         *)
(* Requests run concurrently: the WhatsApp queue, the Telegram queue and   *)
(* every HTTP call have an EntityManager of their own.  MikroORM keeps the *)
(* row a request has read (its snapshot) and flush() writes the changed    *)
(* columns by id, with neither a version column nor SELECT FOR UPDATE: an  *)
(* UPDATE waits for the row's lock, then overwrites.  The selling use      *)
(* cases run in em.transactional, so their lock is kept, and their writes  *)
(* are invisible, until commit.  The administrative ones are not           *)
(* transactional: every statement commits on its own.                      *)
(***************************************************************************)
EXTENDS Integers, FiniteSets

CONSTANTS
  Workers,        \* the requests that can be in flight at once
  Categories,     \* the ids of ticket_category rows
  EventRow,       \* the id of the event row, whose counter serves claims and legacy sales
  NoWorker,       \* the lock of a row nobody has updated
  Quantities,     \* the quantities a sale can ask for, where 0 is taken for 1
  Capacities,     \* the capacities a category can be given
  TotalCapacity,  \* Event.totalCapacity
  MaxRequests,    \* bound: how many requests are made in a behaviour
  MaxAborts       \* bound: how many of them throw or die half-way

ASSUME EventRowAssumption == EventRow \notin Categories
ASSUME NoWorkerAssumption == NoWorker \notin Workers
ASSUME QuantityAssumption == Quantities \subseteq Int \ {0}
ASSUME CapacityAssumption ==
  Capacities \subseteq Nat \ {0} /\ TotalCapacity \in Nat \ {0}
ASSUME BoundAssumption == MaxRequests \in Nat /\ MaxAborts \in Nat

Rows == Categories \cup {EventRow}
SaleKinds == {"issue", "generate", "claims"}
Kinds == SaleKinds \cup {"none", "createEvent", "create", "update", "setDefault", "delete"}

VARIABLES
  live,     \* live[c]: the life of category row c ("drawn": its uuid exists, its row does not yet)
  dflt,     \* dflt[c]: is_default
  sold,     \* sold[r]: sold_count of row r
  cap,      \* cap[r]: capacity, or total_capacity of the event
  seats,    \* seats[r]: committed tickets of category r; claims and legacy tickets for the event
  lock,     \* lock[r]: the transaction that has updated row r and not committed
  pc,       \* pc[w]: what request w does next
  req,      \* req[w]: what it was asked, and the row it works on
  snap,     \* snap[w]: that row, as the identity map of w holds it
  created,  \* whether the event row exists
  requests, \* requests made so far
  aborts,   \* requests that failed half-way so far
  ver,      \* history: ver[r] counts the committed writes to counter and capacity of r
  lowered,  \* history: lowered[r]: by how much sales of negative quantities lowered r's counter
  stale     \* history: stale[r] once such a write was computed from an outdated read of r

tables == <<live, dflt, sold, cap, seats, lock, ver, lowered, stale>>
vars == <<tables, pc, req, snap, created, requests, aborts>>

Lives == {"unused", "drawn", "live", "deleted"}
PCs == {"idle", "resolve", "write", "commit", "insert", "unset", "setFlag",
        "saveCapacity", "promote", "deleteRow"}
Request == [kind : Kinds, qty : Int, row : Rows, other : Rows, want : Nat, flag : BOOLEAN]
Snapshot == [sold : Int, cap : Nat, dflt : BOOLEAN, ver : Nat]

NoRequest == [kind |-> "none", qty |-> 0, row |-> EventRow, other |-> EventRow,
              want |-> 0, flag |-> FALSE]

TypeOK ==
  /\ live \in [Categories -> Lives]
  /\ dflt \in [Categories -> BOOLEAN]
  /\ sold \in [Rows -> Int]
  /\ cap \in [Rows -> Nat]
  /\ seats \in [Rows -> Nat]
  /\ lock \in [Rows -> Workers \cup {NoWorker}]
  /\ pc \in [Workers -> PCs]
  /\ req \in [Workers -> Request]
  /\ snap \in [Workers -> Snapshot]
  /\ created \in BOOLEAN
  /\ requests \in Nat
  /\ aborts \in Nat
  /\ ver \in [Rows -> Nat]
  /\ lowered \in [Rows -> Nat]
  /\ stale \in [Rows -> BOOLEAN]

-----------------------------------------------------------------------------
LiveRows == {c \in Categories : live[c] = "live"}
Defaults == {c \in LiveRows : dflt[c]}
Existing == LiveRows \cup {EventRow}
Unlocked(r) == lock[r] = NoWorker

\* findById: the row as the database holds it now.
RowNow(r) == [sold |-> sold[r], cap |-> cap[r], ver |-> ver[r],
              dflt |-> IF r = EventRow THEN FALSE ELSE dflt[r]]

\* Mutant of CanSell: it asks for any free seat instead of q of them.
CanSellAny(s, q) == s.sold < s.cap

\* Event.canSell and TicketCategory.canSell, on the snapshot.
CanSell(s, q) == s.sold + q <= s.cap

Init ==
  /\ live = [c \in Categories |-> "unused"]
  /\ dflt = [c \in Categories |-> FALSE]
  /\ sold = [r \in Rows |-> 0]
  /\ cap = [r \in Rows |-> 0]
  /\ seats = [r \in Rows |-> 0]
  /\ lock = [r \in Rows |-> NoWorker]
  /\ pc = [w \in Workers |-> "idle"]
  /\ req = [w \in Workers |-> NoRequest]
  /\ snap = [w \in Workers |-> [sold |-> 0, cap |-> 0, dflt |-> FALSE, ver |-> 0]]
  /\ created = FALSE
  /\ requests = 0
  /\ aborts = 0
  /\ ver = [r \in Rows |-> 0]
  /\ lowered = [r \in Rows |-> 0]
  /\ stale = [r \in Rows |-> FALSE]

-----------------------------------------------------------------------------
(* How a request starts, moves on and ends.                                *)

\* w starts serving request rq, with row r in its identity map.
Start(w, rq, r, next) ==
  /\ pc[w] = "idle"
  /\ requests < MaxRequests
  /\ requests' = requests + 1
  /\ pc' = [pc EXCEPT ![w] = next]
  /\ req' = [req EXCEPT ![w] = rq]
  /\ snap' = [snap EXCEPT ![w] = RowNow(r)]
  /\ UNCHANGED aborts

Goto(w, next) ==
  /\ pc' = [pc EXCEPT ![w] = next]
  /\ UNCHANGED <<req, snap, created, requests, aborts>>

\* A committed write to sold_count or capacity of r, computed from w's snapshot.
Wrote(w, r) ==
  /\ ver' = [ver EXCEPT ![r] = @ + 1]
  /\ stale' = [stale EXCEPT ![r] = @ \/ snap[w].ver # ver[r]]

-----------------------------------------------------------------------------
(* Selling.                                                                *)

\* The three selling use cases load the event first.  Only the claim links
\* refuse a quantity that is not positive, and refuse on what they read there;
\* the others go on to resolve a category.
BeginSale(w) ==
  \E k \in SaleKinds, q \in Quantities,
     c \in {EventRow} \cup {d \in Categories : live[d] \in {"live", "deleted"}} :
    /\ created
    /\ k = "claims" => c = EventRow /\ q > 0 /\ CanSell(RowNow(EventRow), q)
    /\ Start(w, [NoRequest EXCEPT !.kind = k, !.qty = q, !.row = c], EventRow,
             IF k = "claims" THEN "write" ELSE "resolve")
    /\ UNCHANGED <<tables, created>>

\* The rows a sale can end in.  Without a category id: a default category, else
\* any (findByEventId has no ORDER BY), else the event.  A named category is
\* looked up by id; when it is gone IssueTicket falls back on any category and
\* GenerateTicketsQR throws.
AnyCategory == IF LiveRows = {} THEN {EventRow} ELSE LiveRows
Candidates(w) ==
  LET named == req[w].row
  IN CASE named = EventRow -> IF Defaults = {} THEN AnyCategory ELSE Defaults
       [] named \in LiveRows -> {named}
       [] OTHER -> IF req[w].kind = "issue" THEN AnyCategory ELSE {}

SnapshotOf(w, c) == IF c = EventRow THEN snap[w] ELSE RowNow(c)

\* Resolve the category, check the inventory and increment in memory.
ResolveCategory(w) ==
  /\ pc[w] = "resolve"
  /\ \E c \in Candidates(w) :
       /\ CanSell(SnapshotOf(w, c), req[w].qty)
       /\ snap' = [snap EXCEPT ![w] = SnapshotOf(w, c)]
       /\ req' = [req EXCEPT ![w].row = c]
  /\ pc' = [pc EXCEPT ![w] = "write"]
  /\ UNCHANGED <<tables, created, requests, aborts>>

\* Sold out, or the named category is gone: a message or an exception, no write.
RefuseSale(w) ==
  /\ pc[w] = "resolve"
  /\ Candidates(w) # {} => \E c \in Candidates(w) : ~CanSell(SnapshotOf(w, c), req[w].qty)
  /\ Goto(w, "idle")
  /\ UNCHANGED tables

\* Mutant of WriteSold: the counter is flushed outside the transaction.
WriteSoldAtOnce(w) ==
  /\ pc[w] = "write"
  /\ req[w].row \in Existing
  /\ Unlocked(req[w].row)
  /\ lock' = [lock EXCEPT ![req[w].row] = w]
  /\ sold' = [sold EXCEPT ![req[w].row] = snap[w].sold + req[w].qty]
  /\ Goto(w, "commit")
  /\ UNCHANGED <<live, dflt, cap, seats, ver, lowered, stale>>

\* The UPDATE of sold_count: it waits for the row's lock and keeps it.
WriteSold(w) ==
  /\ pc[w] = "write"
  /\ req[w].row \in Existing
  /\ Unlocked(req[w].row)
  /\ lock' = [lock EXCEPT ![req[w].row] = w]
  /\ Goto(w, "commit")
  /\ UNCHANGED <<live, dflt, sold, cap, seats, ver, lowered, stale>>

\* The category was deleted since it was read: the UPDATE finds no row, and the
\* first INSERT INTO ticket, if there is one, violates ticket.category_id's
\* foreign key.
WriteVanished(w) ==
  /\ pc[w] = "write"
  /\ req[w].row \notin Existing
  /\ Goto(w, "idle")
  /\ UNCHANGED tables

\* The loop that inserts q tickets inserts none when q is negative.
Given(q) == IF q > 0 THEN q ELSE 0

\* Mutant of CommitSale: one ticket is counted whatever the quantity.
CommitSaleOfOne(w) ==
  LET r == req[w].row
  IN /\ pc[w] = "commit"
     /\ sold' = [sold EXCEPT ![r] = snap[w].sold + 1]
     /\ seats' = [seats EXCEPT ![r] = @ + Given(req[w].qty)]
     /\ lowered' = [lowered EXCEPT ![r] = @ + Given(-req[w].qty)]
     /\ lock' = [lock EXCEPT ![r] = NoWorker]
     /\ Wrote(w, r)
     /\ Goto(w, "idle")
     /\ UNCHANGED <<live, dflt, cap>>

\* All tickets (or claims) inserted, all messages sent: the transaction commits.
\* A negative quantity lowers the counter and inserts nothing.
CommitSale(w) ==
  LET r == req[w].row
  IN /\ pc[w] = "commit"
     /\ sold' = [sold EXCEPT ![r] = snap[w].sold + req[w].qty]
     /\ seats' = [seats EXCEPT ![r] = @ + Given(req[w].qty)]
     /\ lowered' = [lowered EXCEPT ![r] = @ + Given(-req[w].qty)]
     /\ lock' = [lock EXCEPT ![r] = NoWorker]
     /\ Wrote(w, r)
     /\ Goto(w, "idle")
     /\ UNCHANGED <<live, dflt, cap>>

-----------------------------------------------------------------------------
(* Administering the event and its categories.                             *)

\* CreateEvent saves the event, then (a second flush) its Standard category.
BeginCreateEvent(w) ==
  \E c \in Categories :
    /\ ~created
    /\ live[c] = "unused"
    /\ Start(w, [NoRequest EXCEPT !.kind = "createEvent", !.row = c,
                                  !.want = TotalCapacity, !.flag = TRUE],
             EventRow, "insert")
    /\ created' = TRUE
    /\ live' = [live EXCEPT ![c] = "drawn"]
    /\ cap' = [cap EXCEPT ![EventRow] = TotalCapacity]
    /\ UNCHANGED <<dflt, sold, seats, lock, ver, lowered, stale>>

BeginCreateCategory(w) ==
  \E c \in Categories, n \in Capacities, f \in BOOLEAN :
    /\ created
    /\ live[c] = "unused"
    /\ Start(w, [NoRequest EXCEPT !.kind = "create", !.row = c, !.want = n, !.flag = f],
             EventRow, IF f THEN "unset" ELSE "insert")
    /\ live' = [live EXCEPT ![c] = "drawn"]
    /\ UNCHANGED <<created, dflt, sold, cap, seats, lock, ver, lowered, stale>>

InsertCategory(w) ==
  LET c == req[w].row
  IN /\ pc[w] = "insert"
     /\ live' = [live EXCEPT ![c] = "live"]
     /\ dflt' = [dflt EXCEPT ![c] = req[w].flag]
     /\ cap' = [cap EXCEPT ![c] = req[w].want]
     /\ Goto(w, "idle")
     /\ UNCHANGED <<sold, seats, lock, ver, lowered, stale>>

\* unsetDefaultForEvent: one UPDATE over all categories of the event.
UnsetDefaults(w) ==
  /\ pc[w] = "unset"
  /\ \A c \in LiveRows : Unlocked(c)
  /\ dflt' = [c \in Categories |-> FALSE]
  /\ Goto(w, IF req[w].kind = "create" THEN "insert" ELSE "setFlag")
  /\ UNCHANGED <<live, sold, cap, seats, lock, ver, lowered, stale>>

BeginSetDefault(w) ==
  \E c \in LiveRows :
    /\ Start(w, [NoRequest EXCEPT !.kind = "setDefault", !.row = c], c, "unset")
    /\ UNCHANGED <<tables, created>>

\* category.isDefault = true, then flush: MikroORM issues the UPDATE only if the
\* flag was false when the entity was loaded, and the bulk update of
\* UnsetDefaults has not touched the entity.
SetFlag(w) ==
  LET c == req[w].row
  IN /\ pc[w] = "setFlag"
     /\ Unlocked(c)
     /\ dflt' = [dflt EXCEPT ![c] = IF ~snap[w].dflt /\ live[c] = "live" THEN TRUE ELSE @]
     /\ Goto(w, "idle")
     /\ UNCHANGED <<live, sold, cap, seats, lock, ver, lowered, stale>>

\* UpdateCategory refuses a capacity below the sold count it has read.
BeginUpdateCategory(w) ==
  \E c \in LiveRows, n \in Capacities :
    /\ n >= sold[c]
    /\ Start(w, [NoRequest EXCEPT !.kind = "update", !.row = c, !.want = n],
             c, "saveCapacity")
    /\ UNCHANGED <<tables, created>>

SaveCapacity(w) ==
  LET c == req[w].row
      writes == live[c] = "live" /\ req[w].want # snap[w].cap
  IN /\ pc[w] = "saveCapacity"
     /\ Unlocked(c)
     /\ \/ /\ writes
           /\ cap' = [cap EXCEPT ![c] = req[w].want]
           /\ Wrote(w, c)
        \/ ~writes /\ UNCHANGED <<cap, ver, stale>>
     /\ Goto(w, "idle")
     /\ UNCHANGED <<live, dflt, sold, seats, lock, lowered>>

\* DeleteCategory refuses a category whose counter is positive.
BeginDeleteCategory(w) ==
  \E c \in LiveRows :
    /\ sold[c] <= 0
    /\ Start(w, [NoRequest EXCEPT !.kind = "delete", !.row = c, !.other = c],
             c, IF dflt[c] THEN "promote" ELSE "deleteRow")
    /\ UNCHANGED <<tables, created>>

\* A default category is deleted only if the event has another one, which is
\* promoted first.  The listing and the promotion are two statements: the
\* first picks req.other, the second writes its flag.
PickOther(w) ==
  LET c == req[w].row
  IN /\ pc[w] = "promote"
     /\ req[w].other = c
     /\ \/ /\ Cardinality(LiveRows) = 1
           /\ Goto(w, "idle")
        \/ /\ LiveRows = {}
           /\ Goto(w, "deleteRow")
        \/ /\ Cardinality(LiveRows) > 1
           /\ \E o \in LiveRows \ {c} :
                /\ req' = [req EXCEPT ![w].other = o, ![w].flag = dflt[o]]
           /\ UNCHANGED <<pc, snap, created, requests, aborts>>
     /\ UNCHANGED tables

PromoteOther(w) ==
  LET o == req[w].other
  IN /\ pc[w] = "promote"
     /\ o # req[w].row
     /\ Unlocked(o)
     /\ dflt' = [dflt EXCEPT ![o] = IF ~req[w].flag /\ live[o] = "live" THEN TRUE ELSE @]
     /\ Goto(w, "deleteRow")
     /\ UNCHANGED <<live, sold, cap, seats, lock, ver, lowered, stale>>

\* Mutant of DeleteRow: no foreign key refuses the delete.
DeleteRowAlways(w) ==
  LET c == req[w].row
  IN /\ pc[w] = "deleteRow"
     /\ Unlocked(c)
     /\ live' = [live EXCEPT ![c] = "deleted"]
     /\ dflt' = [dflt EXCEPT ![c] = FALSE]
     /\ Goto(w, "idle")
     /\ UNCHANGED <<sold, cap, seats, lock, ver, lowered, stale>>

\* DELETE FROM ticket_category: refused by ticket.category_id's foreign key
\* when tickets of the category have been committed meanwhile.
DeleteRow(w) ==
  LET c == req[w].row
  IN /\ pc[w] = "deleteRow"
     /\ Unlocked(c)
     /\ \/ seats[c] > 0 /\ UNCHANGED <<live, dflt>>
        \/ /\ seats[c] = 0
           /\ live' = [live EXCEPT ![c] = "deleted"]
           /\ dflt' = [dflt EXCEPT ![c] = FALSE]
     /\ Goto(w, "idle")
     /\ UNCHANGED <<sold, cap, seats, lock, ver, lowered, stale>>

-----------------------------------------------------------------------------
\* Mutant of Abort: the transaction stays open and keeps its row lock.
AbortKeepingLock(w) ==
  /\ pc[w] # "idle"
  /\ aborts < MaxAborts
  /\ aborts' = aborts + 1
  /\ pc' = [pc EXCEPT ![w] = "idle"]
  /\ UNCHANGED <<tables, req, snap, created, requests>>

\* A statement or a message throws, or the process dies: an open transaction
\* rolls back, a non-transactional request stops where it is.
Abort(w) ==
  /\ pc[w] # "idle"
  /\ aborts < MaxAborts
  /\ aborts' = aborts + 1
  /\ pc' = [pc EXCEPT ![w] = "idle"]
  /\ lock' = [r \in Rows |-> IF lock[r] = w THEN NoWorker ELSE lock[r]]
  /\ UNCHANGED <<live, dflt, sold, cap, seats, ver, lowered, stale, req, snap, created, requests>>

Begin(w) ==
  \/ BeginSale(w) \/ BeginCreateEvent(w) \/ BeginCreateCategory(w)
  \/ BeginSetDefault(w) \/ BeginUpdateCategory(w) \/ BeginDeleteCategory(w)

\* Steps that wait for no row lock.
Proceed(w) ==
  \/ ResolveCategory(w) \/ RefuseSale(w) \/ WriteVanished(w) \/ CommitSale(w)
  \/ InsertCategory(w) \/ PickOther(w)

\* Steps that queue for row locks.
Contend(w) ==
  \/ WriteSold(w) \/ UnsetDefaults(w) \/ SetFlag(w)
  \/ SaveCapacity(w) \/ PromoteOther(w) \/ DeleteRow(w)

Next == \E w \in Workers : Begin(w) \/ Proceed(w) \/ Contend(w) \/ Abort(w)

Spec == Init /\ [][Next]_vars

\* A request in flight keeps running; PostgreSQL serves the waiters of a row
\* lock in order, so a step that finds its lock free again and again is taken.
Fairness == \A w \in Workers : WF_vars(Proceed(w)) /\ SF_vars(Contend(w))

FairSpec == Spec /\ Fairness
-----------------------------------------------------------------------------
(* What the inventory promises.                                            *)

\* The counter of a row never counts a seat nobody was given: a sale that fails
\* after incrementing (a message that cannot be sent, a crash) leaves no seat
\* blocked, whatever runs beside it.
NoPhantomSeat == \A r \in Rows : sold[r] <= seats[r]

\* As long as no write to a row was computed from an outdated read, its counter
\* is the number of seats given from it, less what sales of a negative quantity
\* have taken off it.
SeatsAccounted == \A r \in Rows : ~stale[r] => sold[r] = seats[r] - lowered[r]

\* There are two ways to give more seats of a row than its capacity, and no
\* third: a write that was computed from an outdated read, and sales of a
\* negative quantity, each for as many seats as it took off the counter. The
\* capacity updates of UpdateCategory are included.
NoOversell == \A r \in Rows : ~stale[r] => seats[r] <= cap[r] + lowered[r]

\* A ticket's category exists: DeleteCategory racing a sale of the category it
\* found unsold, or with a counter lowered to 0, never leaves tickets of a deleted
\* category.
NoDanglingTicket == \A c \in Categories : seats[c] > 0 => live[c] = "live"

\* Every request ends, although selling and administering requests queue for the
\* same rows and any of them may abort with a row locked.
RequestsEnd == \A w \in Workers : pc[w] # "idle" ~> pc[w] = "idle"

(* What its messages, comments and tests say of it (see README).           *)

\* "Votre paiement sera remboursé" when a category is complete: no row ever
\* gives more seats than it has.
NeverOversold == \A r \in Rows : seats[r] <= cap[r]
=============================================================================
