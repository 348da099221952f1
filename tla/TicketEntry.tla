----------------------------- MODULE TicketEntry -----------------------------
(***************************************************************************)
(* From claim link to door: ticket_claim rows, ticket rows and the use     *)
(* cases that exchange a claim for a ticket (ClaimTicket), hand out printed *)
(* tickets (GenerateTicketsQR) and admit people (ValidateTicket behind     *)
(* POST /tickets/validate, ScanTicket behind a photo sent in a chat).      *)
(*                                                                         *)
(* A claim is exchanged in one em.transactional: the UPDATE of its row     *)
(* holds the row's lock until commit, and the QR code leaves before the    *)
(* commit.  Scans are not transactional: they read the ticket, decide on   *)
(* the entity in their identity map and flush one UPDATE by id.  Neither   *)
(* write checks the status it overwrites.                                  *)
(***************************************************************************)
EXTENDS Naturals, FiniteSets

CONSTANTS
  Claims,       \* the claim links of the event (GenerateClaimLink has committed them)
  Tickets,      \* the ticket ids the requests can draw (uuid v4)
  Guests,       \* the phone numbers that present claims
  Workers,      \* the requests that can be in flight at once
  NoWorker,     \* the lock of a claim row nobody has updated
  NoClaim,      \* the origin of printed tickets
  NoGuest,      \* the owner of printed (anonymous) tickets
  MaxRequests,  \* bound: how many requests are made in a behaviour
  MaxAborts     \* bound: how many of them throw or die half-way

ASSUME WorkersAssumption == NoWorker \notin Workers /\ IsFiniteSet(Workers)
ASSUME NoClaimAssumption == NoClaim \notin Claims
ASSUME NoGuestAssumption == NoGuest \notin Guests
ASSUME BoundAssumption == MaxRequests \in Nat /\ MaxAborts \in Nat

VARIABLES
  claim,     \* claim[k]: TicketClaim.status as committed
  holder,    \* holder[k]: TicketClaim.claimedBy as committed
  ticket,    \* ticket[t]: "unused", "drawn" (not committed), "lost" (rolled back),
             \*            or Ticket.status as committed
  origin,    \* origin[t]: the claim t was exchanged for
  owner,     \* owner[t]: Ticket.attendeePhone
  sent,      \* the tickets whose QR code somebody has received
  lock,      \* lock[k]: the transaction that has updated claim k and not committed
  pc,        \* pc[w]: what request w does next
  req,       \* req[w]: its kind, and the claim, ticket and guest it is about
  seen,      \* seen[w]: the ticket's status in the identity map of w
  clock,     \* now, against the event's window of 12 hours before and after
  admitted,  \* admitted[t]: how many people were let in with t
  requests,  \* requests made so far
  aborts     \* requests that failed half-way so far

bounds == <<requests, aborts>>
vars == <<claim, holder, ticket, origin, owner, sent, lock, pc, req, seen, clock,
          admitted, bounds>>

PCs == {"idle", "markClaimed", "insertTicket", "send", "commit", "deliver",
        "validate", "useTicket", "answer"}
Request == [kind : {"none", "claim", "print", "api", "chat"}, claim : Claims \cup {NoClaim},
            ticket : Tickets \cup {NoClaim}, guest : Guests \cup {NoGuest}, marks : BOOLEAN]
NoRequest == [kind |-> "none", claim |-> NoClaim, ticket |-> NoClaim, guest |-> NoGuest,
              marks |-> FALSE]

TypeOK ==
  /\ claim \in [Claims -> {"pending", "claimed"}]
  /\ holder \in [Claims -> Guests \cup {NoGuest}]
  /\ ticket \in [Tickets -> {"unused", "drawn", "lost", "valid", "used"}]
  /\ origin \in [Tickets -> Claims \cup {NoClaim}]
  /\ owner \in [Tickets -> Guests \cup {NoGuest}]
  /\ sent \subseteq Tickets
  /\ lock \in [Claims -> Workers \cup {NoWorker}]
  /\ pc \in [Workers -> PCs]
  /\ req \in [Workers -> Request]
  /\ seen \in [Workers -> {"absent", "valid", "used"}]
  /\ clock \in {"early", "open", "over"}
  /\ admitted \in [Tickets -> Nat]
  /\ requests \in Nat
  /\ aborts \in Nat

Init ==
  /\ claim = [k \in Claims |-> "pending"]
  /\ holder = [k \in Claims |-> NoGuest]
  /\ ticket = [t \in Tickets |-> "unused"]
  /\ origin = [t \in Tickets |-> NoClaim]
  /\ owner = [t \in Tickets |-> NoGuest]
  /\ sent = {}
  /\ lock = [k \in Claims |-> NoWorker]
  /\ pc = [w \in Workers |-> "idle"]
  /\ req = [w \in Workers |-> NoRequest]
  /\ seen = [w \in Workers |-> "absent"]
  /\ clock = "early"
  /\ admitted = [t \in Tickets |-> 0]
  /\ requests = 0
  /\ aborts = 0

-----------------------------------------------------------------------------
Committed(t) == ticket[t] \in {"valid", "used"}
TicketsOf(k) == {t \in Tickets : Committed(t) /\ origin[t] = k}

\* Mutant of Found: the signature of the QR code is trusted, the row is not needed.
FoundBySignature(t) == IF ticket[t] = "used" THEN "used" ELSE "valid"

\* findById(ticketId): what the database holds of t now.
Found(t) == IF Committed(t) THEN ticket[t] ELSE "absent"

Start(w, rq, next) ==
  /\ pc[w] = "idle"
  /\ requests < MaxRequests
  /\ requests' = requests + 1
  /\ pc' = [pc EXCEPT ![w] = next]
  /\ req' = [req EXCEPT ![w] = rq]
  /\ UNCHANGED aborts

Goto(w, next) ==
  /\ pc' = [pc EXCEPT ![w] = next]
  /\ UNCHANGED bounds

-----------------------------------------------------------------------------
(* Exchanging a claim link for a ticket.                                   *)

\* Mutant of BeginClaim: the claim's status is not checked.
BeginClaimAgain(w) ==
  \E k \in Claims, g \in Guests :
    /\ Start(w, [NoRequest EXCEPT !.kind = "claim", !.claim = k, !.guest = g], "markClaimed")
    /\ UNCHANGED <<claim, holder, ticket, origin, owner, sent, lock, seen, clock, admitted>>

\* findByToken; a claim that is not PENDING is refused ("déjà été récupéré").
BeginClaim(w) ==
  \E k \in Claims, g \in Guests :
    /\ claim[k] = "pending"
    /\ Start(w, [NoRequest EXCEPT !.kind = "claim", !.claim = k, !.guest = g], "markClaimed")
    /\ UNCHANGED <<claim, holder, ticket, origin, owner, sent, lock, seen, clock, admitted>>

\* claim.claim(phone) and flush: the UPDATE waits for the row's lock and keeps it.
MarkClaimed(w) ==
  LET k == req[w].claim
  IN /\ pc[w] = "markClaimed"
     /\ lock[k] = NoWorker
     /\ lock' = [lock EXCEPT ![k] = w]
     /\ Goto(w, "insertTicket")
     /\ UNCHANGED <<claim, holder, ticket, origin, owner, sent, req, seen, clock, admitted>>

\* Mutant of InsertTicket: the ticket is flushed outside the transaction.
InsertTicketAtOnce(w) ==
  /\ pc[w] = "insertTicket"
  /\ \E t \in Tickets :
       /\ ticket[t] = "unused"
       /\ ticket' = [ticket EXCEPT ![t] = "valid"]
       /\ origin' = [origin EXCEPT ![t] = req[w].claim]
       /\ owner' = [owner EXCEPT ![t] = req[w].guest]
       /\ req' = [req EXCEPT ![w].ticket = t]
  /\ Goto(w, "send")
  /\ UNCHANGED <<claim, holder, sent, lock, seen, clock, admitted>>

\* A ticket with a fresh id and a signed payload is inserted for the guest.
InsertTicket(w) ==
  /\ pc[w] = "insertTicket"
  /\ \E t \in Tickets :
       /\ ticket[t] = "unused"
       /\ ticket' = [ticket EXCEPT ![t] = "drawn"]
       /\ origin' = [origin EXCEPT ![t] = req[w].claim]
       /\ owner' = [owner EXCEPT ![t] = req[w].guest]
       /\ req' = [req EXCEPT ![w].ticket = t]
  /\ Goto(w, "send")
  /\ UNCHANGED <<claim, holder, sent, lock, seen, clock, admitted>>

\* The messages "Billet récupéré" and the QR code go out, still inside the transaction.
SendTicket(w) ==
  /\ pc[w] = "send"
  /\ sent' = sent \cup {req[w].ticket}
  /\ Goto(w, "commit")
  /\ UNCHANGED <<claim, holder, ticket, origin, owner, lock, req, seen, clock, admitted>>

CommitClaim(w) ==
  LET k == req[w].claim
  IN /\ pc[w] = "commit"
     /\ claim' = [claim EXCEPT ![k] = "claimed"]
     /\ holder' = [holder EXCEPT ![k] = req[w].guest]
     /\ ticket' = [ticket EXCEPT ![req[w].ticket] = "valid"]
     /\ lock' = [lock EXCEPT ![k] = NoWorker]
     /\ Goto(w, "idle")
     /\ UNCHANGED <<origin, owner, sent, req, seen, clock, admitted>>

\* GenerateTicketsQR commits an anonymous ticket (its seats: TicketInventory) ...
PrintTicket(w) ==
  \E t \in Tickets :
    /\ ticket[t] = "unused"
    /\ ticket' = [ticket EXCEPT ![t] = "valid"]
    /\ Start(w, [NoRequest EXCEPT !.kind = "print", !.ticket = t], "deliver")
    /\ UNCHANGED <<claim, holder, origin, owner, sent, lock, seen, clock, admitted>>

\* ... and its handler sends the QR code afterwards.
DeliverPrinted(w) ==
  /\ pc[w] = "deliver"
  /\ sent' = sent \cup {req[w].ticket}
  /\ Goto(w, "idle")
  /\ UNCHANGED <<claim, holder, ticket, origin, owner, lock, req, seen, clock, admitted>>

-----------------------------------------------------------------------------
(* At the door.                                                            *)

\* POST /tickets/validate, first half: execute(hash, false) loads the ticket for
\* the ownership check; whatever it answers, the second half follows.
BeginApiScan(w) ==
  \E t \in sent, m \in BOOLEAN :
    /\ Start(w, [NoRequest EXCEPT !.kind = "api", !.ticket = t, !.marks = m], "validate")
    /\ seen' = [seen EXCEPT ![w] = Found(t)]
    /\ UNCHANGED <<claim, holder, ticket, origin, owner, sent, lock, clock, admitted>>

\* The second execute finds the entity of the first in the identity map; only a
\* ticket the first did not find is looked up again. A scan that is not to mark
\* the ticket ends here, whatever it is told: it lets nobody in.
SeenNow(w) == IF seen[w] = "absent" THEN Found(req[w].ticket) ELSE seen[w]

ValidateTicket(w) ==
  LET passes == clock = "open" /\ SeenNow(w) = "valid" /\ req[w].marks
  IN /\ pc[w] = "validate"
     /\ seen' = [seen EXCEPT ![w] = SeenNow(w)]
     /\ Goto(w, IF passes THEN "useTicket" ELSE "idle")
     /\ UNCHANGED <<claim, holder, ticket, origin, owner, sent, lock, req, clock, admitted>>

\* Mutant of BeginChatScan: the status of the ticket is not checked.
BeginChatRescan(w) ==
  \E t \in sent :
    /\ Found(t) # "absent"
    /\ Start(w, [NoRequest EXCEPT !.kind = "chat", !.ticket = t, !.marks = TRUE], "useTicket")
    /\ seen' = [seen EXCEPT ![w] = "valid"]
    /\ UNCHANGED <<claim, holder, ticket, origin, owner, sent, lock, clock, admitted>>

\* ScanTicket reads the ticket and decides at once; it knows no date.
BeginChatScan(w) ==
  \E t \in sent :
    /\ Found(t) = "valid"
    /\ Start(w, [NoRequest EXCEPT !.kind = "chat", !.ticket = t, !.marks = TRUE], "useTicket")
    /\ seen' = [seen EXCEPT ![w] = "valid"]
    /\ UNCHANGED <<claim, holder, ticket, origin, owner, sent, lock, clock, admitted>>

\* ticket.use() succeeds on the entity as it was read; save() updates by id.
UseTicket(w) ==
  /\ pc[w] = "useTicket"
  /\ ticket' = [ticket EXCEPT ![req[w].ticket] = "used"]
  /\ Goto(w, "answer")
  /\ UNCHANGED <<claim, holder, origin, owner, sent, lock, req, seen, clock, admitted>>

\* "Entrée validée" reaches the door.
Admit(w) ==
  /\ pc[w] = "answer"
  /\ admitted' = [admitted EXCEPT ![req[w].ticket] = @ + 1]
  /\ Goto(w, "idle")
  /\ UNCHANGED <<claim, holder, ticket, origin, owner, sent, lock, req, seen, clock>>

-----------------------------------------------------------------------------
\* Mutant of Abort: the transaction stays open and keeps the claim's row lock.
AbortKeepingLock(w) ==
  /\ pc[w] # "idle"
  /\ aborts < MaxAborts
  /\ aborts' = aborts + 1
  /\ pc' = [pc EXCEPT ![w] = "idle"]
  /\ UNCHANGED <<claim, holder, ticket, origin, owner, sent, lock, req, seen, clock, admitted,
                 requests>>

\* A statement, a message or an answer fails, or the process dies: an open
\* transaction rolls back, what was sent stays sent.
Abort(w) ==
  LET drawn == {t \in Tickets : pc[w] \in {"send", "commit"} /\ req[w].ticket = t}
  IN /\ pc[w] # "idle"
     /\ aborts < MaxAborts
     /\ aborts' = aborts + 1
     /\ pc' = [pc EXCEPT ![w] = "idle"]
     /\ lock' = [k \in Claims |-> IF lock[k] = w THEN NoWorker ELSE lock[k]]
     /\ ticket' = [t \in Tickets |-> IF t \in drawn THEN "lost" ELSE ticket[t]]
     /\ UNCHANGED <<claim, holder, origin, owner, sent, req, seen, clock, admitted, requests>>

Tick ==
  /\ clock # "over"
  /\ clock' = IF clock = "early" THEN "open" ELSE "over"
  /\ UNCHANGED <<claim, holder, ticket, origin, owner, sent, lock, pc, req, seen, admitted,
                 bounds>>

Begin(w) ==
  BeginClaim(w) \/ PrintTicket(w) \/ BeginApiScan(w) \/ BeginChatScan(w)

Proceed(w) ==
  \/ InsertTicket(w) \/ SendTicket(w) \/ CommitClaim(w) \/ DeliverPrinted(w)
  \/ ValidateTicket(w) \/ UseTicket(w) \/ Admit(w)

Next ==
  \/ Tick
  \/ \E w \in Workers : Begin(w) \/ Proceed(w) \/ MarkClaimed(w) \/ Abort(w)

Spec == Init /\ [][Next]_vars

\* Requests in flight run on; PostgreSQL serves the waiters of a row lock in order.
Fairness == \A w \in Workers : WF_vars(Proceed(w)) /\ SF_vars(MarkClaimed(w))

FairSpec == Spec /\ Fairness
-----------------------------------------------------------------------------
(* What exchanging and admitting promise.                                  *)

\* The claim row and the ticket change together: a pending claim has no ticket,
\* a claimed one has a ticket of the guest it names, whatever failed in between
\* and however many guests raced for the link.
ClaimsBacked ==
  \A k \in Claims :
    /\ claim[k] = "pending" => TicketsOf(k) = {}
    /\ claim[k] = "claimed" => \E t \in TicketsOf(k) : owner[t] = holder[k]

\* A link yields at most as many tickets as guests can present it at the same
\* time; presented one after the other, it yields one.
ClaimBound == \A k \in Claims : Cardinality(TicketsOf(k)) <= Cardinality(Workers)

\* The door implements TicketGate: a QR code whose transaction was rolled back
\* never opens a scan, and a used ticket is refused by every later scan.
Scanning(w, t) == req[w].ticket = t /\ pc[w] \in {"validate", "useTicket"} /\ seen[w] = "valid"
Answering(w, t) == req[w].ticket = t /\ pc[w] = "answer"
gatePhase == [t \in Tickets |-> IF Committed(t) THEN ticket[t] ELSE "none"]
gateOpen == [t \in Tickets |-> {w \in Workers : Scanning(w, t)}]
gateGranted == [t \in Tickets |-> {w \in Workers : Answering(w, t)}]

Gate == INSTANCE TicketGate WITH GateTickets <- Tickets, Scans <- Workers,
                                 phase <- gatePhase, open <- gateOpen,
                                 granted <- gateGranted, entered <- admitted
ImplementsGate == Gate!GateSpec

\* A ticket lets in at most as many people as scans can overlap, and nobody
\* before it is used; with one door it is good for one entry.
EntryBound ==
  \A t \in Tickets : /\ admitted[t] <= Cardinality(Workers)
                     /\ admitted[t] > 0 => ticket[t] = "used"

\* Every exchange and every scan ends, although guests may queue for a claim row
\* whose transaction waits for a messaging provider.
RequestsEnd == \A w \in Workers : pc[w] # "idle" ~> pc[w] = "idle"

(* What its messages and scripts say of it (see README).                   *)

\* "Votre Billet (Entrée Unique)": nobody follows anybody in with the same ticket.
SingleEntry == \A t \in Tickets : admitted[t] <= 1
=============================================================================
