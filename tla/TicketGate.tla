------------------------------ MODULE TicketGate ------------------------------
(***************************************************************************)
(* What the door of an event promises about each ticket, whatever channel  *)
(* scans it: a scan can only be opened on a ticket that is issued and not  *)
(* yet used, the first completed scan uses the ticket for good, and a      *)
(* person enters only by a completed scan.  Scans that were already open   *)
(* when the ticket was used may still complete.  TicketEntry implements    *)
(* this specification.                                                     *)
(***************************************************************************)
EXTENDS Naturals, FiniteSets

CONSTANTS GateTickets, Scans

VARIABLES
  phase,    \* phase[t]: "none", "valid" or "used"
  open,     \* open[t]: the scans that have seen t valid and not completed
  granted,  \* granted[t]: the completed scans whose answer is on its way
  entered   \* entered[t]: how many people entered with t

gateVars == <<phase, open, granted, entered>>

GateTypeOK ==
  /\ phase \in [GateTickets -> {"none", "valid", "used"}]
  /\ open \in [GateTickets -> SUBSET Scans]
  /\ granted \in [GateTickets -> SUBSET Scans]
  /\ entered \in [GateTickets -> Nat]

GateInit ==
  /\ phase = [t \in GateTickets |-> "none"]
  /\ open = [t \in GateTickets |-> {}]
  /\ granted = [t \in GateTickets |-> {}]
  /\ entered = [t \in GateTickets |-> 0]

IssueTicket(t) ==
  /\ phase[t] = "none"
  /\ phase' = [phase EXCEPT ![t] = "valid"]
  /\ UNCHANGED <<open, granted, entered>>

\* A scan answers one request at a time.
OpenScan(s, t) ==
  /\ phase[t] = "valid"
  /\ \A u \in GateTickets : s \notin open[u] \cup granted[u]
  /\ open' = [open EXCEPT ![t] = @ \cup {s}]
  /\ UNCHANGED <<phase, granted, entered>>

GiveUpScan(s, t) ==
  /\ s \in open[t]
  /\ open' = [open EXCEPT ![t] = @ \ {s}]
  /\ UNCHANGED <<phase, granted, entered>>

UseUpTicket(s, t) ==
  /\ s \in open[t]
  /\ phase' = [phase EXCEPT ![t] = "used"]
  /\ open' = [open EXCEPT ![t] = @ \ {s}]
  /\ granted' = [granted EXCEPT ![t] = @ \cup {s}]
  /\ UNCHANGED entered

Enter(s, t) ==
  /\ s \in granted[t]
  /\ granted' = [granted EXCEPT ![t] = @ \ {s}]
  /\ entered' = [entered EXCEPT ![t] = @ + 1]
  /\ UNCHANGED <<phase, open>>

LoseAnswer(s, t) ==
  /\ s \in granted[t]
  /\ granted' = [granted EXCEPT ![t] = @ \ {s}]
  /\ UNCHANGED <<phase, open, entered>>

GateNext ==
  \E t \in GateTickets :
    \/ IssueTicket(t)
    \/ \E s \in Scans : \/ OpenScan(s, t) \/ GiveUpScan(s, t) \/ UseUpTicket(s, t)
                        \/ Enter(s, t) \/ LoseAnswer(s, t)

GateSpec == GateInit /\ [][GateNext]_gateVars
-----------------------------------------------------------------------------
\* Everyone who may still enter or has entered with t.
Heads(t) == entered[t] + Cardinality(granted[t]) + Cardinality(open[t])

\* A ticket lets in at most as many people as there are scans open at the same
\* time, and nobody before it is used.
EntriesWithinScans ==
  \A t \in GateTickets : /\ entered[t] <= Cardinality(Scans)
                     /\ entered[t] > 0 => phase[t] = "used"
=============================================================================
