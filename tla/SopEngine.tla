----------------------------- MODULE SopEngine -----------------------------
(* The engine of the standard operating procedures (SOPs): runs are started  *)
(* by events and by a tool, driven step by step by the agent, approved by    *)
(* the operator. The engine is one object behind a mutex; the audit records  *)
(* are written after the mutex is released.                                  *)
EXTENDS Naturals, Sequences, FiniteSets

CONSTANTS
    Sop,            \* procedures
    Steps,          \* number of steps of each
    Confirm,        \* steps with requires_confirmation of each
    Mode,           \* execution_mode of each
    Urgent,         \* procedures of critical or high priority
    MaxConcurrent,  \* max_concurrent of each
    Cooldown,       \* cooldown_secs of each
    MaxTotal,       \* max_concurrent_total
    MaxFinished,    \* max_finished_runs; 0: unlimited
    Timeout,        \* approval_timeout_secs; 0: off
    Caller,         \* callers of the engine: tools and dispatchers of events
    Nobody,
    MaxRuns,        \* bound: runs started
    MaxLost,        \* bound: audit records that could not be stored
    Horizon         \* bound: the last instant of the clock

Modes == {"auto", "supervised", "step_by_step", "priority_based"}

ASSUME SopAssumption ==
    /\ Steps \in [Sop -> Nat \ {0}] /\ Confirm \in [Sop -> SUBSET Nat]
    /\ Mode \in [Sop -> Modes] /\ Urgent \subseteq Sop
    /\ MaxConcurrent \in [Sop -> Nat] /\ Cooldown \in [Sop -> Nat]
    /\ MaxTotal \in Nat /\ MaxFinished \in Nat /\ Timeout \in Nat
    /\ MaxRuns \in Nat /\ MaxLost \in Nat /\ Horizon \in Nat
    /\ Nobody \notin Caller

VARIABLES
    loaded,    \* SOPs whose definition is loaded
    counter,   \* run_counter; the runs are numbered by it
    runs,      \* active_runs and finished_runs: a function on run numbers
    finished,  \* the order of finished_runs
    lock,      \* who holds the mutex across several steps
    todo,      \* SOPs a dispatcher has matched and not tried to start yet
    writes,    \* audit records a caller still has to write
    record,    \* status in the stored record of a run, or "none"
    logged,    \* stored approval records, <<run, step>>
    handed,    \* steps the engine has told somebody to execute
    approved,  \* steps approved by the operator or by a timeout
    clock,
    lost

vars == <<loaded, counter, runs, finished, lock, todo, writes, record, logged,
          handed, approved, clock, lost>>
------------------------------------------------------------------------------
Live == {"running", "waiting"}
Final == {"completed", "failed", "cancelled"}
StepStatus == {"passed", "failed"}  \* passed: completed or skipped
Result == [n : Nat, status : StepStatus]
RunState == [sop : Sop, status : Live \cup Final, step : Nat, since : Nat,
             ended : Nat, results : Seq(Result)]
RunId == 1 .. MaxRuns
RunWrite == [kind : {"run"}, run : RunId, status : Live \cup Final]
ApprovalWrite == [kind : {"approval"}, run : RunId, step : Nat]
Write == RunWrite \cup ApprovalWrite

(* resolve_step_action: which steps wait for an approval first. *)
NeedsApproval(s, n) ==
    \/ n \in Confirm[s]
    \/ Mode[s] = "step_by_step"
    \/ Mode[s] = "supervised" /\ n = 1
    \/ Mode[s] = "priority_based" /\ s \notin Urgent /\ n = 1

Active == {r \in DOMAIN runs : runs[r].status \in Live}

(* last_finished_run: the latest finished run of s that is still kept. *)
LastFinished(s) ==
    LET at == {i \in DOMAIN finished : runs[finished[i]].sop = s} IN
    {finished[i] : i \in {k \in at : \A m \in at : m <= k}}

\* Mutant of CanStart: one run too many.
CanStartOneMore(s) ==
    /\ s \in loaded
    /\ Cardinality({r \in Active : runs[r].sop = s}) <= MaxConcurrent[s]
    /\ Cardinality(Active) < MaxTotal
    /\ \A r \in LastFinished(s) : clock - runs[r].ended >= Cooldown[s]

CanStart(s) ==
    /\ s \in loaded
    /\ Cardinality({r \in Active : runs[r].sop = s}) < MaxConcurrent[s]
    /\ Cardinality(Active) < MaxTotal
    /\ \A r \in LastFinished(s) : clock - runs[r].ended >= Cooldown[s]

Init ==
    /\ loaded = Sop
    /\ counter = 0
    /\ runs = [r \in {} |-> {}]
    /\ finished = <<>>
    /\ lock = Nobody
    /\ todo = [c \in Caller |-> {}]
    /\ writes = [c \in Caller |-> <<>>]
    /\ record = [r \in RunId |-> "none"]
    /\ logged = {}
    /\ handed = {}
    /\ approved = {}
    /\ clock = 0
    /\ lost = 0

Idle(c) == lock = Nobody /\ todo[c] = {} /\ writes[c] = <<>>
------------------------------------------------------------------------------
(* The engine's operations, under the mutex.                                 *)

(* start_run; the caller will log the run as it is now. *)
StartRun(c, s) ==
    LET r == counter + 1
        wait == NeedsApproval(s, 1)
        status == IF wait THEN "waiting" ELSE "running"
    IN  /\ counter < MaxRuns
        /\ counter' = r
        /\ runs' = [x \in DOMAIN runs \cup {r} |->
                      IF x = r THEN [sop |-> s, status |-> status, step |-> 1,
                                     since |-> clock, ended |-> 0, results |-> <<>>]
                               ELSE runs[x]]
        /\ handed' = IF wait THEN handed ELSE handed \cup {<<r, 1>>}
        /\ writes' = [writes EXCEPT ![c] =
                        Append(@, [kind |-> "run", run |-> r, status |-> status])]

(* What finished_runs keeps of a list. *)
Kept(q) == IF MaxFinished > 0 /\ Len(q) > MaxFinished
           THEN SubSeq(q, Len(q) - MaxFinished + 1, Len(q)) ELSE q

(* finish_run: moves the run to finished_runs, evicting the oldest. *)
FinishRun(r, status, results) ==
    LET q == Kept(Append(finished, r))
        keep == Active \cup {q[i] : i \in DOMAIN q}
    IN  /\ finished' = q
        /\ runs' = [x \in DOMAIN runs \cap keep |->
                      IF x = r THEN [runs[r] EXCEPT !.status = status, !.ended = clock,
                                                    !.results = results]
                               ELSE runs[x]]

\* Mutant of MoveOn: a run that waits for an approval stays at its step.
MoveOnHeld(r, results) ==
    LET n == IF runs[r].status = "waiting" THEN runs[r].step ELSE runs[r].step + 1
        wait == NeedsApproval(runs[r].sop, n)
    IN  /\ runs' = [runs EXCEPT ![r].step = n, ![r].results = results,
                                ![r].status = IF wait THEN "waiting" ELSE @,
                                ![r].since = IF wait THEN clock ELSE @]
        /\ handed' = IF wait THEN handed ELSE handed \cup {<<r, n>>}
        /\ UNCHANGED finished

\* Mutant of MoveOn: the next step is always handed out.
MoveOnUnasked(r, results) ==
    /\ runs' = [runs EXCEPT ![r].step = @ + 1, ![r].results = results]
    /\ handed' = handed \cup {<<r, runs[r].step + 1>>}
    /\ UNCHANGED finished

(* advance_step, moving on: a run that waits for an approval is advanced     *)
(* like any other, and keeps waiting if the next step needs none.            *)
MoveOn(r, results) ==
    LET n == runs[r].step + 1
        wait == NeedsApproval(runs[r].sop, n)
    IN  /\ runs' = [runs EXCEPT
                      ![r].step = n,
                      ![r].results = results,
                      ![r].status = IF wait THEN "waiting" ELSE @,
                      ![r].since = IF wait THEN clock ELSE @]
        /\ handed' = IF wait THEN handed ELSE handed \cup {<<r, n>>}
        /\ UNCHANGED finished

(* approve_step; when the definition is gone the run is left running and the *)
(* caller gets an error.                                                     *)
ApproveRuns(R) ==
    /\ runs' = [x \in DOMAIN runs |->
                  IF x \in R THEN [runs[x] EXCEPT !.status = "running"] ELSE runs[x]]
    /\ approved' = approved \cup {<<r, runs[r].step>> : r \in R}
    /\ handed' = handed \cup {<<r, runs[r].step>> : r \in {x \in R : runs[x].sop \in loaded}}
    /\ UNCHANGED <<loaded, counter, finished>>
------------------------------------------------------------------------------
(* The callers.                                                              *)

(* Tool sop_execute. *)
Execute(c, s) ==
    /\ Idle(c)
    /\ CanStart(s)
    /\ StartRun(c, s)
    /\ UNCHANGED <<loaded, finished, lock, todo, record, logged, approved, clock, lost>>

\* Mutant of Advance: the end of the last step is logged as a completion.
AdvanceLogsCompleted(c, r, st) ==
    LET results == Append(runs[r].results, [n |-> runs[r].step, status |-> st])
        end == IF st = "failed" THEN "failed" ELSE "completed"
    IN  /\ Idle(c)
        /\ r \in Active
        /\ runs[r].sop \in loaded
        /\ \/ /\ st = "failed" \/ runs[r].step = Steps[runs[r].sop]
              /\ FinishRun(r, end, results)
              /\ writes' = [writes EXCEPT ![c] =
                              <<[kind |-> "run", run |-> r, status |-> "completed"]>>]
              /\ UNCHANGED handed
           \/ /\ st # "failed" /\ runs[r].step < Steps[runs[r].sop]
              /\ MoveOn(r, results)
              /\ UNCHANGED writes
        /\ UNCHANGED <<loaded, counter, lock, todo, record, logged, approved, clock, lost>>

(* Tool sop_advance: the current step is read and advanced under one lock.   *)
Advance(c, r, st) ==
    LET results == Append(runs[r].results, [n |-> runs[r].step, status |-> st])
        end == IF st = "failed" THEN "failed" ELSE "completed"
    IN  /\ Idle(c)
        /\ r \in Active
        /\ runs[r].sop \in loaded
        /\ \/ /\ st = "failed" \/ runs[r].step = Steps[runs[r].sop]
              /\ FinishRun(r, end, results)
              /\ writes' = [writes EXCEPT ![c] = <<[kind |-> "run", run |-> r, status |-> end]>>]
              /\ UNCHANGED handed
           \/ /\ st # "failed" /\ runs[r].step < Steps[runs[r].sop]
              /\ MoveOn(r, results)
              /\ UNCHANGED writes
        /\ UNCHANGED <<loaded, counter, lock, todo, record, logged, approved, clock, lost>>

(* Tool sop_approve. *)
Approve(c, r) ==
    /\ Idle(c)
    /\ r \in Active
    /\ runs[r].status = "waiting"
    /\ ApproveRuns({r})
    /\ writes' = IF runs[r].sop \in loaded
                 THEN [writes EXCEPT ![c] =
                         <<[kind |-> "approval", run |-> r, step |-> runs[r].step]>>]
                 ELSE writes
    /\ UNCHANGED <<lock, todo, record, logged, clock, lost>>

(* cancel_run. *)
CancelRun(r) ==
    /\ lock = Nobody
    /\ r \in Active
    /\ FinishRun(r, "cancelled", runs[r].results)
    /\ UNCHANGED <<loaded, counter, lock, todo, writes, record, logged, handed,
                   approved, clock, lost>>

(* check_approval_timeouts: urgent runs that waited long enough go on.       *)
TimedOut ==
    {r \in Active : /\ runs[r].status = "waiting"
                    /\ clock - runs[r].since >= Timeout
                    /\ runs[r].sop \in Urgent \cap loaded}

CheckApprovalTimeouts ==
    /\ lock = Nobody
    /\ Timeout > 0
    /\ TimedOut # {}
    /\ ApproveRuns(TimedOut)
    /\ UNCHANGED <<lock, todo, writes, record, logged, clock, lost>>

(* reload: the definitions found on disk replace those in memory. *)
Reload ==
    /\ lock = Nobody
    /\ \E L \in SUBSET Sop : L # loaded /\ loaded' = L
    /\ UNCHANGED <<counter, runs, finished, lock, todo, writes, record, logged, handed,
                   approved, clock, lost>>

(* dispatch_sop_event, first lock: the SOPs that match the event.            *)
DispatchMatch(c) ==
    /\ Idle(c)
    /\ \E M \in SUBSET loaded : M # {} /\ todo' = [todo EXCEPT ![c] = M]
    /\ UNCHANGED <<loaded, counter, runs, finished, lock, writes, record, logged,
                   handed, approved, clock, lost>>

(* ... second lock, held until every matched SOP was started or refused.     *)
DispatchStart(c) ==
    /\ lock \in {Nobody, c}
    /\ \E s \in todo[c] :
          /\ IF CanStart(s) /\ counter < MaxRuns
             THEN StartRun(c, s)
             ELSE UNCHANGED <<counter, runs, handed, writes>>
          /\ todo' = [todo EXCEPT ![c] = @ \ {s}]
          /\ lock' = IF todo[c] = {s} THEN Nobody ELSE c
    /\ UNCHANGED <<loaded, finished, record, logged, approved, clock, lost>>

(* SopAuditLogger: the caller's next record is stored, under the run's key   *)
(* or the approval's; a failure is logged and forgotten.                     *)
WriteAudit(c) ==
    /\ writes[c] # <<>> /\ todo[c] = {}
    /\ LET w == Head(writes[c]) IN
       \/ w.kind = "run" /\ record' = [record EXCEPT ![w.run] = w.status]
                         /\ UNCHANGED <<logged, lost>>
       \/ w.kind = "approval" /\ logged' = logged \cup {<<w.run, w.step>>}
                              /\ UNCHANGED <<record, lost>>
       \/ lost < MaxLost /\ lost' = lost + 1 /\ UNCHANGED <<record, logged>>
    /\ writes' = [writes EXCEPT ![c] = Tail(@)]
    /\ UNCHANGED <<loaded, counter, runs, finished, lock, todo, handed, approved, clock>>

Tick ==
    /\ clock < Horizon
    /\ clock' = clock + 1
    /\ UNCHANGED <<loaded, counter, runs, finished, lock, todo, writes, record, logged,
                   handed, approved, lost>>
------------------------------------------------------------------------------
Next ==
    \/ \E c \in Caller :
          \/ \E s \in Sop : Execute(c, s)
          \/ \E r \in RunId : Approve(c, r) \/ \E st \in StepStatus : Advance(c, r, st)
          \/ DispatchMatch(c)
          \/ DispatchStart(c)
          \/ WriteAudit(c)
    \/ \E r \in RunId : CancelRun(r)
    \/ CheckApprovalTimeouts
    \/ Reload
    \/ Tick

Spec == Init /\ [][Next]_vars
------------------------------------------------------------------------------
TypeOK ==
    /\ loaded \subseteq Sop
    /\ counter \in 0 .. MaxRuns
    /\ DOMAIN runs \subseteq 1 .. counter
    /\ \A r \in DOMAIN runs : runs[r] \in RunState
    /\ finished \in Seq(RunId)
    /\ lock \in Caller \cup {Nobody}
    /\ todo \in [Caller -> SUBSET Sop]
    /\ writes \in [Caller -> Seq(Write)]
    /\ record \in [RunId -> Live \cup Final \cup {"none"}]
    /\ logged \subseteq RunId \X Nat
    /\ handed \subseteq RunId \X Nat
    /\ approved \subseteq RunId \X Nat
    /\ clock \in Nat /\ lost \in Nat

(* Events dispatched at once, tools and the batch of one event together      *)
(* never exceed a limit: can_start is asked under the lock that inserts.     *)
ConcurrencyLimits ==
    /\ Cardinality(Active) <= MaxTotal
    /\ \A s \in Sop : Cardinality({r \in Active : runs[r].sop = s}) <= MaxConcurrent[s]

FollowsSteps(run) ==
    LET q == run.results IN
    /\ \A i \in DOMAIN q : q[i].n = i /\ (q[i].status = "failed" => i = Len(q))
    /\ run.status \in Live \cup {"cancelled"} =>
          Len(q) = run.step - 1 /\ \A i \in DOMAIN q : q[i].status # "failed"
    /\ run.status = "completed" =>
          Len(q) = Steps[run.sop] /\ \A i \in DOMAIN q : q[i].status # "failed"
    /\ run.status = "failed" => q # <<>> /\ q[Len(q)].status = "failed"

(* The results of a run are those of its steps in order, each reported once; *)
(* it is completed when all were reported and none failed, failed by its     *)
(* last result (sop_advance reads the step under the lock that advances it). *)
ResultsFollowSteps == \A r \in DOMAIN runs : FollowsSteps(runs[r])

(* The engine tells nobody to execute a step that needs an approval before   *)
(* that very step was approved, whoever advances the run meanwhile.          *)
HandedOutApproved ==
    \A r \in DOMAIN runs : \A n \in 1 .. runs[r].step :
        <<r, n>> \in handed /\ NeedsApproval(runs[r].sop, n) => <<r, n>> \in approved

(* The audit trail holds no end and no approval that did not happen, in      *)
(* whatever order the records are written.                                   *)
AuditTruthful ==
    /\ logged \subseteq approved
    /\ \A r \in RunId :
          record[r] \in Final /\ r \in DOMAIN runs => runs[r].status = record[r]

(* A finished run is never changed: it stays as it ended until it is evicted.*)
FinishedIsFinal ==
    [][\A r \in DOMAIN runs \ Active :
          r \in DOMAIN runs' => runs'[r] = runs[r]]_vars
==============================================================================
