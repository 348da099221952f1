-------------------------- MODULE SopEngine_proofs --------------------------
(* Proofs about SopEngine, for every set of procedures, every configuration  *)
(* and any number of callers.                                                *)
EXTENDS SopEngine, FiniteSetTheorems, TLAPS

(* A new run. *)
Fresh(s) == [sop |-> s, status |-> IF NeedsApproval(s, 1) THEN "waiting" ELSE "running",
             step |-> 1, since |-> clock, ended |-> 0, results |-> <<>>]

LEMMA StartRunFacts ==
    ASSUME TypeOK, NEW c \in Caller, NEW s \in Sop, StartRun(c, s)
    PROVE  /\ counter' = counter + 1 /\ counter' \in RunId
           /\ counter' \notin DOMAIN runs
           /\ DOMAIN runs' = DOMAIN runs \cup {counter'}
           /\ runs'[counter'] = Fresh(s) /\ Fresh(s) \in RunState
           /\ \A x \in DOMAIN runs : runs'[x] = runs[x]
           /\ handed' = IF NeedsApproval(s, 1) THEN handed ELSE handed \cup {<<counter', 1>>}
           /\ writes' \in [Caller -> Seq(Write)]
           /\ writes' = [writes EXCEPT ![c] = Append(@, [kind |-> "run", run |-> counter',
                                                         status |-> Fresh(s).status])]
           /\ handed' \subseteq RunId \X Nat
           /\ counter' \in 0 .. MaxRuns /\ DOMAIN runs' \subseteq 1 .. counter'
<1>1. counter \in Nat /\ counter + 1 \in RunId /\ counter' = counter + 1
  BY SopAssumption DEF TypeOK, StartRun, RunId
<1>2. counter + 1 \notin DOMAIN runs
  BY <1>1 DEF TypeOK
<1>3. Fresh(s) \in RunState
  <2>1. <<>> \in Seq(Result)
    OBVIOUS
  <2> QED
    BY <2>1 DEF Fresh, RunState, Live, TypeOK
<1>4. [kind |-> "run", run |-> counter + 1, status |-> Fresh(s).status] \in Write
  BY <1>1 DEF Write, RunWrite, Fresh, Live
<1>5. writes' = [writes EXCEPT ![c] = Append(@, [kind |-> "run", run |-> counter',
                                                 status |-> Fresh(s).status])]
  BY <1>1 DEF StartRun, Fresh
<1>6. writes' \in [Caller -> Seq(Write)]
  BY <1>1, <1>4, <1>5 DEF TypeOK
<1>7. /\ DOMAIN runs' = DOMAIN runs \cup {counter'} /\ runs'[counter'] = Fresh(s)
      /\ \A x \in DOMAIN runs : runs'[x] = runs[x]
  BY <1>1, <1>2 DEF StartRun, Fresh
<1>8. handed' = IF NeedsApproval(s, 1) THEN handed ELSE handed \cup {<<counter', 1>>}
  BY <1>1 DEF StartRun
<1>9. handed' \subseteq RunId \X Nat
  <2>1. <<counter', 1>> \in RunId \X Nat
    BY <1>1
  <2>2. handed \subseteq RunId \X Nat
    BY DEF TypeOK
  <2> QED
    BY <1>8, <2>1, <2>2
<1>10. counter' \in 0 .. MaxRuns /\ DOMAIN runs' \subseteq 1 .. counter'
  <2>1. DOMAIN runs \subseteq 1 .. counter /\ MaxRuns \in Nat
    BY SopAssumption DEF TypeOK
  <2>2. counter + 1 \in 0 .. MaxRuns
    BY <1>1, <2>1 DEF RunId
  <2> QED
    BY <1>1, <1>7, <2>1, <2>2
<1> QED
  BY <1>1, <1>2, <1>3, <1>5, <1>6, <1>7, <1>8, <1>9, <1>10

LEMMA KeptType ==
    ASSUME NEW q \in Seq(RunId)
    PROVE  Kept(q) \in Seq(RunId)
<1>1. CASE MaxFinished > 0 /\ Len(q) > MaxFinished
  <2>1. Len(q) - MaxFinished + 1 \in 1 .. Len(q) + 1 /\ Len(q) \in Nat
    BY <1>1, SopAssumption
  <2>2. SubSeq(q, Len(q) - MaxFinished + 1, Len(q)) \in Seq(RunId)
    BY <2>1
  <2> QED
    BY <1>1, <2>2 DEF Kept
<1>2. CASE ~(MaxFinished > 0 /\ Len(q) > MaxFinished)
  BY <1>2 DEF Kept
<1> QED
  BY <1>1, <1>2

LEMMA FinishRunFacts ==
    ASSUME TypeOK, NEW r \in Active, NEW status \in Final, NEW results \in Seq(Result),
           FinishRun(r, status, results)
    PROVE  /\ finished' \in Seq(RunId)
           /\ DOMAIN runs' \subseteq DOMAIN runs
           /\ r \in DOMAIN runs'
           /\ runs'[r] = [runs[r] EXCEPT !.status = status, !.ended = clock,
                                         !.results = results]
           /\ runs'[r] \in RunState
           /\ \A x \in DOMAIN runs' \ {r} : runs'[x] = runs[x]
<1>1. r \in RunId
  BY SopAssumption DEF Active, TypeOK, RunId
<1>2. Append(finished, r) \in Seq(RunId)
  BY <1>1 DEF TypeOK
<1>3. r \in DOMAIN runs /\ runs[r] \in RunState
  BY DEF Active, TypeOK
<1>4. [runs[r] EXCEPT !.status = status, !.ended = clock, !.results = results] \in RunState
  BY <1>3 DEF RunState, TypeOK
<1> QED
  BY <1>2, <1>3, <1>4, KeptType DEF FinishRun

LEMMA MoveOnFacts ==
    ASSUME TypeOK, NEW r \in Active, NEW results \in Seq(Result), MoveOn(r, results)
    PROVE  /\ DOMAIN runs' = DOMAIN runs
           /\ runs'[r] \in RunState
           /\ runs'[r].sop = runs[r].sop /\ runs'[r].step = runs[r].step + 1
           /\ runs'[r].results = results /\ runs'[r].status \in Live
           /\ \A x \in DOMAIN runs \ {r} : runs'[x] = runs[x]
           /\ finished' = finished
           /\ handed' = IF NeedsApproval(runs[r].sop, runs[r].step + 1)
                        THEN handed ELSE handed \cup {<<r, runs[r].step + 1>>}
           /\ handed' \subseteq RunId \X Nat
<1>1. r \in DOMAIN runs /\ runs[r] \in RunState /\ runs[r].status \in Live
  BY DEF Active, TypeOK
<1>2. clock \in Nat /\ runs[r].step + 1 \in Nat
  BY <1>1 DEF TypeOK, RunState
<1>3. r \in RunId /\ handed \subseteq RunId \X Nat
  BY <1>1, SopAssumption DEF TypeOK, RunId
<1>4. <<r, runs[r].step + 1>> \in RunId \X Nat
  BY <1>2, <1>3
<1>5. handed' = IF NeedsApproval(runs[r].sop, runs[r].step + 1)
                THEN handed ELSE handed \cup {<<r, runs[r].step + 1>>}
  BY DEF MoveOn
<1>6. handed' \subseteq RunId \X Nat
  BY <1>3, <1>4, <1>5
<1> QED
  BY <1>1, <1>2, <1>5, <1>6 DEF MoveOn, RunState, Live

LEMMA ApproveFacts ==
    ASSUME TypeOK, NEW R \in SUBSET Active, ApproveRuns(R)
    PROVE  /\ DOMAIN runs' = DOMAIN runs
           /\ \A x \in DOMAIN runs : runs'[x] \in RunState
           /\ \A x \in R : runs'[x] = [runs[x] EXCEPT !.status = "running"]
           /\ \A x \in DOMAIN runs \ R : runs'[x] = runs[x]
           /\ approved' = approved \cup {<<x, runs[x].step>> : x \in R}
           /\ handed' \subseteq handed \cup {<<x, runs[x].step>> : x \in R}
           /\ approved' \subseteq RunId \X Nat /\ handed' \subseteq RunId \X Nat
           /\ UNCHANGED <<loaded, counter, finished>>
<1>1. R \subseteq DOMAIN runs /\ R \subseteq RunId /\ \A x \in R : runs[x].step \in Nat
  BY SopAssumption DEF Active, TypeOK, RunState, RunId
<1>2. /\ DOMAIN runs' = DOMAIN runs
      /\ \A x \in R : runs'[x] = [runs[x] EXCEPT !.status = "running"]
      /\ \A x \in DOMAIN runs \ R : runs'[x] = runs[x]
  BY <1>1 DEF ApproveRuns
<1>3. \A x \in DOMAIN runs : runs'[x] \in RunState
  BY <1>2 DEF TypeOK, RunState, Live
<1>4. {<<x, runs[x].step>> : x \in R} \subseteq RunId \X Nat
  BY <1>1
<1>5. /\ approved' = approved \cup {<<x, runs[x].step>> : x \in R}
      /\ handed' \subseteq handed \cup {<<x, runs[x].step>> : x \in R}
      /\ UNCHANGED <<loaded, counter, finished>>
  BY DEF ApproveRuns
<1>6. approved' \subseteq RunId \X Nat /\ handed' \subseteq RunId \X Nat
  BY <1>4, <1>5 DEF TypeOK
<1> QED
  BY <1>2, <1>3, <1>5, <1>6

LEMMA WriteFacts ==
    ASSUME NEW w \in Write
    PROVE  /\ w.run \in RunId
           /\ w.kind = "run" => w.status \in Live \cup Final
           /\ w.kind = "approval" => w.step \in Nat
<1>1. CASE w \in RunWrite
  BY <1>1 DEF RunWrite
<1>2. CASE w \in ApprovalWrite
  BY <1>2 DEF ApprovalWrite
<1> QED
  BY <1>1, <1>2 DEF Write

(* Type correctness.                                                         *)
LEMMA TypeInit == Init => TypeOK
BY SopAssumption DEF Init, TypeOK

LEMMA ResultType ==
    ASSUME TypeOK, NEW r \in Active, NEW st \in StepStatus
    PROVE  Append(runs[r].results, [n |-> runs[r].step, status |-> st]) \in Seq(Result)
<1>1. runs[r].results \in Seq(Result) /\ runs[r].step \in Nat
  BY DEF Active, TypeOK, RunState
<1>2. [n |-> runs[r].step, status |-> st] \in Result
  BY <1>1 DEF Result
<1> QED
  BY <1>1, <1>2

LEMMA TypeStep == TypeOK /\ [Next]_vars => TypeOK'
<1> SUFFICES ASSUME TypeOK, [Next]_vars PROVE TypeOK'
  OBVIOUS
<1>1. ASSUME NEW c \in Caller, NEW s \in Sop, Execute(c, s) PROVE TypeOK'
  <2>1. StartRun(c, s)
    BY <1>1 DEF Execute
  <2> QED
    BY <1>1, <2>1, StartRunFacts DEF Execute, TypeOK
<1>2. ASSUME NEW c \in Caller, NEW r \in RunId, NEW st \in StepStatus, Advance(c, r, st)
      PROVE  TypeOK'
  <2> DEFINE results == Append(runs[r].results, [n |-> runs[r].step, status |-> st])
             end == IF st = "failed" THEN "failed" ELSE "completed"
  <2>1. r \in Active /\ results \in Seq(Result) /\ end \in Final
    BY <1>2, ResultType DEF Advance, Final
  <2>2. CASE FinishRun(r, end, results)
             /\ writes' = [writes EXCEPT ![c] = <<[kind |-> "run", run |-> r, status |-> end]>>]
             /\ UNCHANGED handed
    <3>1. [kind |-> "run", run |-> r, status |-> end] \in Write
      BY <2>1 DEF Write, RunWrite
    <3>2. writes' \in [Caller -> Seq(Write)]
      BY <2>2, <3>1 DEF TypeOK
    <3>3. /\ finished' \in Seq(RunId) /\ DOMAIN runs' \subseteq DOMAIN runs
          /\ \A x \in DOMAIN runs' : runs'[x] \in RunState
      BY <2>1, <2>2, FinishRunFacts DEF TypeOK
    <3> QED
      BY <1>2, <2>2, <3>2, <3>3 DEF Advance, TypeOK
  <2>3. CASE MoveOn(r, results) /\ UNCHANGED writes
    <3>1. /\ finished' = finished /\ DOMAIN runs' = DOMAIN runs
          /\ \A x \in DOMAIN runs' : runs'[x] \in RunState
      BY <2>1, <2>3, MoveOnFacts DEF TypeOK
    <3>2. handed' \subseteq RunId \X Nat
      BY <2>1, <2>3, MoveOnFacts
    <3> QED
      BY <1>2, <2>3, <3>1, <3>2 DEF Advance, TypeOK
  <2> QED
    BY <1>2, <2>2, <2>3 DEF Advance
<1>3. ASSUME NEW c \in Caller, NEW r \in RunId, Approve(c, r) PROVE TypeOK'
  <2>1. r \in Active /\ {r} \subseteq Active /\ ApproveRuns({r})
    BY <1>3 DEF Approve
  <2>2. [kind |-> "approval", run |-> r, step |-> runs[r].step] \in Write
    BY <2>1 DEF Write, ApprovalWrite, Active, TypeOK, RunState
  <2>3. writes' \in [Caller -> Seq(Write)]
    BY <1>3, <2>2 DEF Approve, TypeOK
  <2> QED
    BY <1>3, <2>1, <2>3, ApproveFacts DEF Approve, TypeOK
<1>4. ASSUME NEW r \in RunId, CancelRun(r) PROVE TypeOK'
  <2>1. r \in Active /\ "cancelled" \in Final /\ runs[r].results \in Seq(Result)
    BY <1>4 DEF CancelRun, Active, Final, TypeOK, RunState
  <2>2. /\ finished' \in Seq(RunId) /\ DOMAIN runs' \subseteq DOMAIN runs
        /\ \A x \in DOMAIN runs' : runs'[x] \in RunState
    BY <1>4, <2>1, FinishRunFacts DEF CancelRun, TypeOK
  <2> QED
    BY <1>4, <2>2 DEF CancelRun, TypeOK
<1>5. CASE CheckApprovalTimeouts
  <2>1. TimedOut \subseteq Active /\ ApproveRuns(TimedOut)
    BY <1>5 DEF CheckApprovalTimeouts, TimedOut
  <2> QED
    BY <1>5, <2>1, ApproveFacts DEF CheckApprovalTimeouts, TypeOK
<1>6. ASSUME NEW c \in Caller, DispatchStart(c) PROVE TypeOK'
  <2>1. PICK s \in todo[c] :
          /\ IF CanStart(s) /\ counter < MaxRuns
             THEN StartRun(c, s)
             ELSE UNCHANGED <<counter, runs, handed, writes>>
          /\ todo' = [todo EXCEPT ![c] = @ \ {s}]
          /\ lock' = IF todo[c] = {s} THEN Nobody ELSE c
    BY <1>6 DEF DispatchStart
  <2>2. s \in Sop /\ todo' \in [Caller -> SUBSET Sop] /\ lock' \in Caller \cup {Nobody}
    BY <2>1 DEF TypeOK
  <2>3. CASE StartRun(c, s)
    BY <1>6, <2>2, <2>3, StartRunFacts DEF DispatchStart, TypeOK
  <2>4. CASE UNCHANGED <<counter, runs, handed, writes>>
    BY <1>6, <2>2, <2>4 DEF DispatchStart, TypeOK
  <2> QED
    BY <2>1, <2>3, <2>4
<1>7. ASSUME NEW c \in Caller, DispatchMatch(c) PROVE TypeOK'
  BY <1>7 DEF DispatchMatch, TypeOK
<1>8. ASSUME NEW c \in Caller, WriteAudit(c) PROVE TypeOK'
  <2>1. writes[c] \in Seq(Write) /\ writes[c] # <<>>
    BY <1>8 DEF WriteAudit, TypeOK
  <2>2. Head(writes[c]) \in Write /\ Tail(writes[c]) \in Seq(Write)
    BY <2>1
  <2>3. writes' \in [Caller -> Seq(Write)]
    BY <1>8, <2>2 DEF WriteAudit, TypeOK
  <2>4. /\ record' \in [RunId -> Live \cup Final \cup {"none"}]
        /\ logged' \subseteq RunId \X Nat /\ lost' \in Nat
    <3> DEFINE w == Head(writes[c])
    <3>1. CASE w.kind = "run" /\ record' = [record EXCEPT ![w.run] = w.status]
               /\ UNCHANGED <<logged, lost>>
      BY <2>2, <3>1, WriteFacts DEF TypeOK
    <3>2. CASE w.kind = "approval" /\ logged' = logged \cup {<<w.run, w.step>>}
               /\ UNCHANGED <<record, lost>>
      BY <2>2, <3>2, WriteFacts DEF TypeOK
    <3>3. CASE lost' = lost + 1 /\ UNCHANGED <<record, logged>>
      BY <3>3 DEF TypeOK
    <3> QED
      BY <1>8, <3>1, <3>2, <3>3 DEF WriteAudit
  <2> QED
    BY <1>8, <2>3, <2>4 DEF WriteAudit, TypeOK
<1>9. CASE Reload \/ Tick \/ UNCHANGED vars
  BY <1>9 DEF Reload, Tick, vars, TypeOK
<1> QED
  BY <1>1, <1>2, <1>3, <1>4, <1>5, <1>6, <1>7, <1>8, <1>9 DEF Next

THEOREM TypeCorrect == Spec => []TypeOK
BY TypeInit, TypeStep, PTL DEF Spec
------------------------------------------------------------------------------
(* What a step does to the runs: it starts one, finishes one, moves one on   *)
(* or approves some.                                                         *)
Reported(r, st) == Append(runs[r].results, [n |-> runs[r].step, status |-> st])

Started == \E c \in Caller, s \in Sop : CanStart(s) /\ StartRun(c, s)
Ended == \/ \E c \in Caller, r \in Active, st \in StepStatus :
               LET end == IF st = "failed" THEN "failed" ELSE "completed" IN
               /\ st = "failed" \/ runs[r].step = Steps[runs[r].sop]
               /\ FinishRun(r, end, Reported(r, st))
               /\ writes' = [writes EXCEPT ![c] =
                               <<[kind |-> "run", run |-> r, status |-> end]>>]
               /\ UNCHANGED <<handed, approved>>
         \/ /\ \E r \in Active : FinishRun(r, "cancelled", runs[r].results)
            /\ UNCHANGED <<handed, approved, writes>>
Moved == /\ \E r \in Active, st \in StepStatus \ {"failed"} : MoveOn(r, Reported(r, st))
         /\ UNCHANGED <<approved, writes>>
Granted == \/ \E c \in Caller, r \in Active :
                 /\ ApproveRuns({r})
                 /\ writes' \in {writes, [writes EXCEPT ![c] =
                       <<[kind |-> "approval", run |-> r, step |-> runs[r].step]>>]}
           \/ ApproveRuns(TimedOut) /\ UNCHANGED writes

LEMMA StepKinds ==
    ASSUME TypeOK, [Next]_vars
    PROVE  \/ Started /\ UNCHANGED <<record, logged, approved>>
           \/ (Ended \/ Moved \/ Granted) /\ UNCHANGED <<record, logged, counter>>
           \/ UNCHANGED <<runs, counter, handed, approved, writes, record, logged>>
           \/ (\E c \in Caller : WriteAudit(c))
<1>1. ASSUME NEW c \in Caller, NEW s \in Sop, Execute(c, s)
      PROVE  Started /\ UNCHANGED <<record, logged, approved>>
  BY <1>1 DEF Execute, Started
<1>2. ASSUME NEW c \in Caller, NEW r \in RunId, NEW st \in StepStatus, Advance(c, r, st)
      PROVE  (Ended \/ Moved) /\ UNCHANGED <<record, logged, counter>>
  BY <1>2 DEF Advance, Ended, Moved, Reported
<1>3. ASSUME NEW c \in Caller, NEW r \in RunId, Approve(c, r)
      PROVE  Granted /\ UNCHANGED <<record, logged, counter>>
  BY <1>3 DEF Approve, ApproveRuns, Granted
<1>4. ASSUME NEW r \in RunId, CancelRun(r)
      PROVE  Ended /\ UNCHANGED <<record, logged, counter>>
  BY <1>4 DEF CancelRun, Ended
<1>5. CASE CheckApprovalTimeouts
  BY <1>5 DEF CheckApprovalTimeouts, ApproveRuns, Granted
<1>6. ASSUME NEW c \in Caller, DispatchStart(c)
      PROVE  \/ Started /\ UNCHANGED <<record, logged, approved>>
             \/ UNCHANGED <<runs, counter, handed, approved, writes, record, logged>>
  BY <1>6 DEF DispatchStart, Started, TypeOK
<1>7. ASSUME NEW c \in Caller, DispatchMatch(c)
      PROVE  UNCHANGED <<runs, counter, handed, approved, writes, record, logged>>
  BY <1>7 DEF DispatchMatch
<1>8. CASE Reload \/ Tick \/ UNCHANGED vars
  BY <1>8 DEF Reload, Tick, vars
<1> QED
  BY <1>1, <1>2, <1>3, <1>4, <1>5, <1>6, <1>7, <1>8 DEF Next

(* No step reopens or changes a finished run, or gives a run another SOP.    *)
LEMMA RunsStep ==
    ASSUME TypeOK, [Next]_vars, NEW x \in DOMAIN runs, x \in DOMAIN runs'
    PROVE  runs'[x].sop = runs[x].sop /\ (x \notin Active => runs'[x] = runs[x])
<1>1. CASE Started
  <2>1. PICK c \in Caller, s \in Sop : StartRun(c, s)
    BY <1>1 DEF Started
  <2> QED
    BY <2>1, StartRunFacts
<1>2. ASSUME NEW r \in Active, NEW status \in Final, NEW results \in Seq(Result),
             FinishRun(r, status, results)
      PROVE  runs'[x].sop = runs[x].sop /\ (x \notin Active => runs'[x] = runs[x])
  <2>1. CASE x = r
    BY <1>2, <2>1, FinishRunFacts DEF TypeOK, RunState, Active
  <2>2. CASE x # r
    BY <1>2, <2>2, FinishRunFacts
  <2> QED
    BY <2>1, <2>2
<1>3. CASE Ended
  <2>1. \A r \in Active : runs[r].results \in Seq(Result)
    BY DEF Active, TypeOK, RunState
  <2> QED
    BY <1>2, <1>3, <2>1, ResultType DEF Ended, Reported, Final
<1>4. CASE Moved
  <2>1. PICK r \in Active, st \in StepStatus : MoveOn(r, Reported(r, st))
    BY <1>4 DEF Moved
  <2>2. Reported(r, st) \in Seq(Result)
    BY ResultType DEF Reported
  <2> QED
    BY <2>1, <2>2, MoveOnFacts
<1>5. CASE Granted
  <2>1. PICK R \in SUBSET Active : ApproveRuns(R)
    BY <1>5 DEF Granted, TimedOut
  <2>2. CASE x \in R
    BY <2>1, <2>2, ApproveFacts DEF TypeOK, RunState
  <2>3. CASE x \notin R
    BY <2>1, <2>3, ApproveFacts
  <2> QED
    BY <2>2, <2>3
<1>6. ASSUME UNCHANGED runs PROVE runs'[x] = runs[x]
  BY <1>6
<1> QED
  BY <1>1, <1>3, <1>4, <1>5, <1>6, StepKinds DEF WriteAudit

(* A finished run stays as it ended.                                         *)
THEOREM FinishedCorrect == Spec => FinishedIsFinal
<1>1. ASSUME TypeOK, [Next]_vars
      PROVE  \A r \in DOMAIN runs \ Active : r \in DOMAIN runs' => runs'[r] = runs[r]
  BY <1>1, RunsStep
<1> QED
  BY <1>1, TypeCorrect, PTL DEF Spec, FinishedIsFinal
------------------------------------------------------------------------------
(* New runs have new numbers.                                                *)
LEMMA NumbersStep ==
    ASSUME TypeOK, [Next]_vars
    PROVE  /\ counter \in Nat /\ counter' \in Nat /\ counter <= counter'
           /\ \A x \in DOMAIN runs : x <= counter
           /\ \A x \in DOMAIN runs' : x \in DOMAIN runs \/ x > counter
<1>0. counter \in Nat /\ \A x \in DOMAIN runs : x <= counter
  BY SopAssumption DEF TypeOK
<1>1. CASE Started
  <2>1. PICK c \in Caller, s \in Sop : StartRun(c, s)
    BY <1>1 DEF Started
  <2>2. counter' = counter + 1 /\ DOMAIN runs' = DOMAIN runs \cup {counter'}
    BY <2>1, StartRunFacts
  <2> QED
    BY <1>0, <2>2
<1>2. ASSUME Ended PROVE DOMAIN runs' \subseteq DOMAIN runs
  <2>1. \A r \in Active : runs[r].results \in Seq(Result)
    BY DEF Active, TypeOK, RunState
  <2>2. PICK r \in Active, status \in Final, results \in Seq(Result) :
           FinishRun(r, status, results)
    BY <1>2, <2>1, ResultType DEF Ended, Reported, Final
  <2> QED
    BY <2>2, FinishRunFacts
<1>3. ASSUME Moved PROVE DOMAIN runs' \subseteq DOMAIN runs
  <2>1. PICK r \in Active, st \in StepStatus : MoveOn(r, Reported(r, st))
    BY <1>3 DEF Moved
  <2>2. Reported(r, st) \in Seq(Result)
    BY ResultType DEF Reported
  <2> QED
    BY <2>1, <2>2, MoveOnFacts
<1>4. ASSUME Granted PROVE DOMAIN runs' \subseteq DOMAIN runs
  BY <1>4 DEF Granted, ApproveRuns
<1>5. CASE (Ended \/ Moved \/ Granted) /\ UNCHANGED counter
  BY <1>0, <1>2, <1>3, <1>4, <1>5
<1>6. CASE UNCHANGED <<runs, counter>>
  BY <1>0, <1>6
<1> QED
  BY <1>1, <1>5, <1>6, StepKinds DEF WriteAudit
------------------------------------------------------------------------------
(* A step is handed out to be executed only when its approval, if it needs   *)
(* one, was given; no step of a run that does not exist is handed out.       *)
HandedInv ==
    /\ \A r \in RunId, n \in Nat : <<r, n>> \in handed => r <= counter
    /\ \A r \in DOMAIN runs, n \in Nat :
          <<r, n>> \in handed /\ NeedsApproval(runs[r].sop, n) => <<r, n>> \in approved

LEMMA HandedStep == ASSUME TypeOK, HandedInv, [Next]_vars PROVE HandedInv'
<1>0. /\ counter \in Nat /\ counter' \in Nat /\ counter <= counter'
      /\ DOMAIN runs \subseteq RunId /\ RunId \subseteq Nat
      /\ \A x \in DOMAIN runs : x <= counter
      /\ \A x \in DOMAIN runs' : x \in DOMAIN runs \/ x > counter
  BY NumbersStep, SopAssumption DEF TypeOK, RunId
<1>1. \A x \in DOMAIN runs' : x \in DOMAIN runs => runs'[x].sop = runs[x].sop
  BY RunsStep
<1>2. DOMAIN runs' \subseteq RunId
  BY TypeStep, SopAssumption DEF TypeOK, RunId
<1>3. ASSUME UNCHANGED handed, approved \subseteq approved' PROVE HandedInv'
  <2>1. ASSUME NEW r \in DOMAIN runs', NEW n \in Nat, <<r, n>> \in handed',
               NeedsApproval(runs'[r].sop, n)
        PROVE  <<r, n>> \in approved'
    <3>1. r \in RunId /\ <<r, n>> \in handed
      BY <1>2, <1>3, <2>1
    <3>2. r \in DOMAIN runs
      BY <1>0, <2>1, <3>1 DEF HandedInv
    <3> QED
      BY <1>1, <1>3, <2>1, <3>1, <3>2 DEF HandedInv
  <2>2. \A r \in RunId, n \in Nat : <<r, n>> \in handed' => r <= counter'
    BY <1>0, <1>3 DEF HandedInv
  <2> QED
    BY <2>1, <2>2 DEF HandedInv, NeedsApproval
<1>4. CASE Started /\ UNCHANGED approved
  <2>1. PICK c \in Caller, s \in Sop : StartRun(c, s)
    BY <1>4 DEF Started
  <2>2. /\ counter' = counter + 1 /\ runs'[counter'].sop = s
        /\ handed' = IF NeedsApproval(s, 1) THEN handed ELSE handed \cup {<<counter', 1>>}
    <3>1. /\ counter' = counter + 1 /\ runs'[counter'] = Fresh(s)
          /\ handed' = IF NeedsApproval(s, 1) THEN handed ELSE handed \cup {<<counter', 1>>}
      BY <2>1, StartRunFacts
    <3> QED
      BY <3>1 DEF Fresh
  <2>3. ASSUME NEW r \in RunId, NEW n \in Nat, <<r, n>> \in handed' PROVE r <= counter'
    <3>1. <<r, n>> \in handed \/ r = counter'
      BY <2>2, <2>3
    <3> QED
      BY <1>0, <3>1 DEF HandedInv
  <2>4. ASSUME NEW r \in DOMAIN runs', NEW n \in Nat, <<r, n>> \in handed',
               NeedsApproval(runs'[r].sop, n)
        PROVE  <<r, n>> \in approved'
    <3>1. CASE <<r, n>> \in handed
      <4>1. r \in RunId /\ r \in Nat /\ (r \in DOMAIN runs \/ r > counter)
        BY <1>0, <1>2, <2>4
      <4>2. r <= counter
        BY <3>1, <4>1 DEF HandedInv
      <4>3. r \in DOMAIN runs
        BY <1>0, <4>1, <4>2
      <4> QED
        BY <1>1, <1>4, <2>4, <3>1, <4>3 DEF HandedInv
    <3>2. CASE <<r, n>> \notin handed
      <4>1. r = counter' /\ n = 1 /\ ~NeedsApproval(s, 1)
        BY <2>2, <2>4, <3>2
      <4> QED
        BY <2>2, <2>4, <4>1
    <3> QED
      BY <3>1, <3>2
  <2> QED
    BY <2>3, <2>4 DEF HandedInv, NeedsApproval
<1>5. CASE Moved
  <2>1. PICK r \in Active, st \in StepStatus : MoveOn(r, Reported(r, st))
    BY <1>5 DEF Moved
  <2>2. Reported(r, st) \in Seq(Result)
    BY ResultType DEF Reported
  <2> DEFINE m == runs[r].step + 1
  <2>3. /\ DOMAIN runs' = DOMAIN runs /\ r \in DOMAIN runs
        /\ handed' = IF NeedsApproval(runs[r].sop, m) THEN handed
                     ELSE handed \cup {<<r, m>>}
    BY <2>1, <2>2, MoveOnFacts DEF Active
  <2>4. UNCHANGED approved
    BY <1>5 DEF Moved
  <2>5. ASSUME NEW x \in RunId, NEW n \in Nat, <<x, n>> \in handed' PROVE x <= counter'
    <3>1. <<x, n>> \in handed \/ x = r
      BY <2>3, <2>5
    <3> QED
      BY <1>0, <2>3, <3>1 DEF HandedInv
  <2>6. ASSUME NEW x \in DOMAIN runs', NEW n \in Nat, <<x, n>> \in handed',
               NeedsApproval(runs'[x].sop, n)
        PROVE  <<x, n>> \in approved'
    <3>1. NeedsApproval(runs[x].sop, n) /\ x \in DOMAIN runs
      BY <1>1, <2>3, <2>6
    <3>2. <<x, n>> \in handed
      BY <2>3, <2>6, <3>1
    <3> QED
      BY <2>4, <3>1, <3>2 DEF HandedInv
  <2> QED
    BY <2>5, <2>6 DEF HandedInv, NeedsApproval
<1>6. CASE Granted
  <2>1. PICK R \in SUBSET Active : ApproveRuns(R)
    BY <1>6 DEF Granted, TimedOut
  <2> DEFINE G == {<<x, runs[x].step>> : x \in R}
  <2>2. /\ approved' = approved \cup G /\ handed' \subseteq handed \cup G
        /\ DOMAIN runs' = DOMAIN runs /\ R \subseteq DOMAIN runs
    BY <2>1, ApproveFacts DEF Active
  <2>3. ASSUME NEW x \in RunId, NEW n \in Nat, <<x, n>> \in handed' PROVE x <= counter'
    <3>1. <<x, n>> \in handed \/ x \in R
      BY <2>2, <2>3
    <3> QED
      BY <1>0, <2>2, <3>1 DEF HandedInv
  <2>4. ASSUME NEW x \in DOMAIN runs', NEW n \in Nat, <<x, n>> \in handed',
               NeedsApproval(runs'[x].sop, n)
        PROVE  <<x, n>> \in approved'
    BY <1>1, <2>2, <2>4 DEF HandedInv
  <2> QED
    BY <2>3, <2>4 DEF HandedInv, NeedsApproval
<1>7. CASE Ended
  BY <1>3, <1>7 DEF Ended
<1> QED
  BY <1>3, <1>4, <1>5, <1>6, <1>7, StepKinds DEF WriteAudit

(* The engine tells nobody to execute a step that needs an approval before   *)
(* that very step was approved, whoever advances the run meanwhile.          *)
THEOREM HandedCorrect == Spec => []HandedOutApproved
<1>1. Init => HandedInv
  BY DEF Init, HandedInv
<1>2. TypeOK /\ HandedInv => HandedOutApproved
  BY DEF TypeOK, RunState, HandedInv, HandedOutApproved
<1> QED
  BY <1>1, <1>2, HandedStep, TypeCorrect, PTL DEF Spec
------------------------------------------------------------------------------
(* What a record may say of a run: an end only if the run has ended so.      *)
Agrees(r, st) ==
    /\ r <= counter
    /\ st \in Final /\ r \in DOMAIN runs => runs[r].status = st
AgreesNext(r, st) ==
    /\ r <= counter'
    /\ st \in Final /\ r \in DOMAIN runs' => runs'[r].status = st

AuditInv ==
    /\ logged \subseteq approved
    /\ \A r \in RunId : record[r] # "none" => Agrees(r, record[r])
    /\ \A c \in Caller : \A i \in DOMAIN writes[c] :
          LET w == writes[c][i] IN
          /\ w.kind = "run" => Agrees(w.run, w.status)
          /\ w.kind = "approval" => <<w.run, w.step>> \in approved

LEMMA AgreesStep ==
    ASSUME TypeOK, [Next]_vars, NEW r \in RunId, NEW st, Agrees(r, st)
    PROVE  AgreesNext(r, st)
<1>0. /\ counter \in Nat /\ counter' \in Nat /\ counter <= counter' /\ r \in Nat
      /\ r \in DOMAIN runs' => r \in DOMAIN runs \/ r > counter
  BY NumbersStep DEF RunId
<1>1. r <= counter
  BY DEF Agrees
<1>2. r <= counter'
  BY <1>0, <1>1
<1>3. ASSUME st \in Final, r \in DOMAIN runs' PROVE runs'[r].status = st
  <2>1. r \in DOMAIN runs
    BY <1>0, <1>1, <1>3
  <2>2. runs[r].status = st
    BY <1>3, <2>1 DEF Agrees
  <2>3. r \notin Active
    BY <1>3, <2>2 DEF Active, Live, Final
  <2> QED
    BY <1>3, <2>1, <2>2, <2>3, RunsStep
<1> QED
  BY <1>2, <1>3 DEF AgreesNext

(* What a caller has to write stays true, as every approval stays.           *)
LEMMA WritesStep ==
    ASSUME TypeOK, AuditInv, [Next]_vars, approved \subseteq approved',
           NEW w \in Write,
           \E c \in Caller : \E i \in DOMAIN writes[c] : w = writes[c][i]
    PROVE  /\ w.kind = "run" => AgreesNext(w.run, w.status)
           /\ w.kind = "approval" => <<w.run, w.step>> \in approved'
<1>1. /\ w.kind = "run" => Agrees(w.run, w.status)
      /\ w.kind = "approval" => <<w.run, w.step>> \in approved
  BY DEF AuditInv
<1>2. w.run \in RunId
  BY WriteFacts
<1> QED
  BY <1>1, <1>2, AgreesStep

LEMMA AuditStep == ASSUME TypeOK, AuditInv, [Next]_vars PROVE AuditInv'
<1> DEFINE Good(w) == /\ w.kind = "run" => AgreesNext(w.run, w.status)
                      /\ w.kind = "approval" => <<w.run, w.step>> \in approved'
<1>1. /\ writes \in [Caller -> Seq(Write)]
      /\ \A c \in Caller : \A i \in DOMAIN writes[c] : writes[c][i] \in Write
      /\ approved \subseteq RunId \X Nat
  BY DEF TypeOK
<1>2. TypeOK' /\ counter' \in Nat /\ counter \in Nat
  BY TypeStep, NumbersStep
<1>3. ASSUME approved \subseteq approved'
      PROVE  \A c \in Caller : \A i \in DOMAIN writes[c] : Good(writes[c][i])
  BY <1>1, <1>3, WritesStep
<1>4. ASSUME approved \subseteq approved', UNCHANGED <<record, logged>>,
             \A c \in Caller : \A i \in DOMAIN writes'[c] : Good(writes'[c][i])
      PROVE  AuditInv'
  <2>1. \A r \in RunId : record'[r] # "none" => AgreesNext(r, record'[r])
    BY <1>4, AgreesStep DEF AuditInv
  <2> HIDE DEF Good
  <2>2. \A c \in Caller : \A i \in DOMAIN writes'[c] :
           /\ writes'[c][i].kind = "run" => AgreesNext(writes'[c][i].run, writes'[c][i].status)
           /\ writes'[c][i].kind = "approval" =>
                 <<writes'[c][i].run, writes'[c][i].step>> \in approved'
    BY <1>4 DEF Good
  <2>3. logged' \subseteq approved'
    BY <1>4 DEF AuditInv
  <2> QED
    BY <2>1, <2>2, <2>3 DEF AuditInv, Agrees, AgreesNext
<1>5. CASE Started /\ UNCHANGED <<record, logged, approved>>
  <2>1. PICK d \in Caller, s \in Sop : StartRun(d, s)
    BY <1>5 DEF Started
  <2> DEFINE new == [kind |-> "run", run |-> counter', status |-> Fresh(s).status]
  <2>2. /\ writes' = [writes EXCEPT ![d] = Append(@, new)]
        /\ runs'[counter'] = Fresh(s) /\ counter' = counter + 1
    BY <2>1, StartRunFacts
  <2>3. AgreesNext(counter', Fresh(s).status)
    BY <1>2, <2>2 DEF AgreesNext, Fresh, Final
  <2>4. Good(new)
    BY <2>3
  <2> HIDE DEF Good, new
  <2>5. ASSUME NEW c \in Caller, NEW i \in DOMAIN writes'[c] PROVE Good(writes'[c][i])
    <3>1. CASE c # d
      BY <1>1, <1>3, <1>5, <2>2, <2>5, <3>1
    <3>2. CASE c = d
      <4>1. writes'[c] = Append(writes[c], new) /\ writes[c] \in Seq(Write)
        BY <1>1, <2>2, <3>2
      <4>2. CASE i \in DOMAIN writes[c]
        BY <1>3, <1>5, <4>1, <4>2
      <4>3. CASE i = Len(writes[c]) + 1
        BY <2>4, <4>1, <4>3
      <4> QED
        BY <2>5, <4>1, <4>2, <4>3
    <3> QED
      BY <3>1, <3>2
  <2> QED
    BY <1>4, <1>5, <2>5
<1>6. ASSUME NEW d \in Caller, NEW w, Good(w), approved \subseteq approved',
             UNCHANGED <<record, logged>>, writes' = [writes EXCEPT ![d] = <<w>>]
      PROVE  AuditInv'
  <2> HIDE DEF Good
  <2>1. \A c \in Caller : \A i \in DOMAIN writes'[c] : Good(writes'[c][i])
    BY <1>1, <1>3, <1>6
  <2> QED
    BY <1>4, <1>6, <2>1
<1>7. ASSUME UNCHANGED <<record, logged, writes>>, approved \subseteq approved'
      PROVE  AuditInv'
  <2> HIDE DEF Good
  <2> QED
    BY <1>3, <1>4, <1>7
<1>8. CASE Ended /\ UNCHANGED <<record, logged>>
  <2>1. ASSUME NEW c \in Caller, NEW r \in Active, NEW st \in StepStatus,
               NEW end \in {"failed", "completed"},
               FinishRun(r, end, Reported(r, st)), UNCHANGED approved,
               writes' = [writes EXCEPT ![c] =
                            <<[kind |-> "run", run |-> r, status |-> end]>>]
        PROVE  AuditInv'
    <3>1. Reported(r, st) \in Seq(Result) /\ end \in Final
      BY ResultType DEF Reported, Final
    <3>2. runs'[r].status = end
      <4>1. runs'[r] = [runs[r] EXCEPT !.status = end, !.ended = clock,
                                       !.results = Reported(r, st)]
        BY <2>1, <3>1, FinishRunFacts
      <4>2. runs[r] \in RunState
        BY DEF Active, TypeOK
      <4> QED
        BY <4>1, <4>2 DEF RunState
    <3>3. r <= counter'
      BY <1>2, NumbersStep DEF Active, TypeOK
    <3>4. AgreesNext(r, end)
      BY <3>2, <3>3 DEF AgreesNext
    <3>5. Good([kind |-> "run", run |-> r, status |-> end])
      BY <3>4
    <3> QED
      BY <1>6, <1>8, <2>1, <3>5
  <2> QED
    BY <1>7, <1>8, <2>1 DEF Ended
<1>9. CASE Moved /\ UNCHANGED <<record, logged>>
  BY <1>7, <1>9 DEF Moved
<1>10. CASE Granted /\ UNCHANGED <<record, logged>>
  <2>1. ASSUME NEW R \in SUBSET Active, ApproveRuns(R)
        PROVE  approved' = approved \cup {<<x, runs[x].step>> : x \in R}
    BY <2>1 DEF ApproveRuns
  <2>2. ASSUME NEW c \in Caller, NEW r \in Active, ApproveRuns({r}),
               writes' = [writes EXCEPT ![c] =
                            <<[kind |-> "approval", run |-> r, step |-> runs[r].step]>>]
        PROVE  AuditInv'
    <3>1. Good([kind |-> "approval", run |-> r, step |-> runs[r].step])
      BY <2>1, <2>2
    <3> QED
      BY <1>6, <1>10, <2>1, <2>2, <3>1
  <2>3. TimedOut \in SUBSET Active
    BY DEF TimedOut
  <2> QED
    BY <1>7, <1>10, <2>1, <2>2, <2>3 DEF Granted
<1>11. ASSUME NEW d \in Caller, WriteAudit(d) PROVE AuditInv'
  <2>1. writes[d] \in Seq(Write) /\ writes[d] # <<>> /\ UNCHANGED approved
    BY <1>1, <1>11 DEF WriteAudit
  <2> DEFINE w == Head(writes[d])
  <2>2. w \in Write /\ 1 \in DOMAIN writes[d] /\ w = writes[d][1]
    BY <2>1
  <2>3. Good(w)
    BY <1>3, <2>1, <2>2
  <2>4. w.run \in RunId
    BY <2>2, WriteFacts
  <2>5. ASSUME NEW c \in Caller, NEW i \in DOMAIN writes'[c] PROVE Good(writes'[c][i])
    <3> HIDE DEF Good
    <3>1. writes' = [writes EXCEPT ![d] = Tail(@)]
      BY <1>11 DEF WriteAudit
    <3>2. CASE c # d
      BY <1>1, <1>3, <2>1, <2>5, <3>1, <3>2
    <3>3. CASE c = d
      <4>1. writes'[c] = Tail(writes[c]) /\ writes[c] \in Seq(Write) /\ writes[c] # <<>>
        BY <1>1, <2>1, <3>1, <3>3
      <4>2. i + 1 \in DOMAIN writes[c] /\ writes'[c][i] = writes[c][i + 1]
        BY <2>5, <4>1
      <4> QED
        BY <1>3, <2>1, <4>2
    <3> QED
      BY <3>2, <3>3
  <2>6. CASE UNCHANGED <<record, logged>>
    <3> HIDE DEF Good
    <3> QED
      BY <1>4, <2>1, <2>5, <2>6
  <2>7. logged' \subseteq approved'
    BY <1>11, <2>1, <2>3 DEF WriteAudit, AuditInv
  <2>8. \A r \in RunId : record'[r] # "none" => AgreesNext(r, record'[r])
    <3>1. \A r \in RunId : record[r] # "none" => AgreesNext(r, record[r])
      BY AgreesStep DEF AuditInv
    <3>2. \/ UNCHANGED record
          \/ w.kind = "run" /\ record' = [record EXCEPT ![w.run] = w.status]
      BY <1>11 DEF WriteAudit
    <3>3. record \in [RunId -> Live \cup Final \cup {"none"}]
      BY DEF TypeOK
    <3>4. w.kind = "run" => AgreesNext(w.run, w.status)
      BY <2>3
    <3> HIDE DEF Good, w
    <3> QED
      BY <2>4, <3>1, <3>2, <3>3, <3>4
  <2>9. \A c \in Caller : \A i \in DOMAIN writes'[c] :
           /\ writes'[c][i].kind = "run" => AgreesNext(writes'[c][i].run, writes'[c][i].status)
           /\ writes'[c][i].kind = "approval" =>
                 <<writes'[c][i].run, writes'[c][i].step>> \in approved'
    BY <2>5
  <2> QED
    BY <2>7, <2>8, <2>9 DEF AuditInv, Agrees, AgreesNext
<1>12. CASE UNCHANGED <<runs, counter, handed, approved, writes, record, logged>>
  BY <1>7, <1>12
<1> QED
  BY <1>5, <1>8, <1>9, <1>10, <1>11, <1>12, StepKinds

(* The audit trail holds no end and no approval that did not happen.         *)
THEOREM AuditCorrect == Spec => []AuditTruthful
<1>1. Init => AuditInv
  BY DEF Init, AuditInv, Agrees, RunId
<1>2. AuditInv => AuditTruthful
  <2>1. \A st \in Final : st # "none"
    BY DEF Final
  <2> QED
    BY <2>1 DEF AuditInv, AuditTruthful, Agrees
<1> QED
  BY <1>1, <1>2, AuditStep, TypeCorrect, PTL DEF Spec
------------------------------------------------------------------------------
(* The results of a run.                                                     *)
LEMMA FollowsStep ==
    ASSUME TypeOK, ResultsFollowSteps, [Next]_vars
    PROVE  ResultsFollowSteps'
<1>0. \A x \in DOMAIN runs : runs[x] \in RunState /\ FollowsSteps(runs[x])
  BY DEF TypeOK, ResultsFollowSteps
<1>1. CASE Started
  <2>1. PICK c \in Caller, s \in Sop : StartRun(c, s)
    BY <1>1 DEF Started
  <2>2. /\ DOMAIN runs' = DOMAIN runs \cup {counter'} /\ runs'[counter'] = Fresh(s)
        /\ \A x \in DOMAIN runs : runs'[x] = runs[x]
    BY <2>1, StartRunFacts
  <2>3. FollowsSteps(Fresh(s))
    BY DEF FollowsSteps, Fresh
  <2> QED
    BY <1>0, <2>2, <2>3 DEF ResultsFollowSteps
<1>2. CASE Ended
  <2>1. ASSUME NEW r \in Active, NEW status \in Final, NEW results \in Seq(Result),
               FinishRun(r, status, results),
               FollowsSteps([runs[r] EXCEPT !.status = status, !.ended = clock,
                                            !.results = results])
        PROVE  ResultsFollowSteps'
    <3>1. /\ DOMAIN runs' \subseteq DOMAIN runs
          /\ runs'[r] = [runs[r] EXCEPT !.status = status, !.ended = clock,
                                        !.results = results]
          /\ \A x \in DOMAIN runs' \ {r} : runs'[x] = runs[x]
      BY <2>1, FinishRunFacts
    <3>2. ASSUME NEW x \in DOMAIN runs' PROVE FollowsSteps(runs'[x])
      <4>1. CASE x = r
        BY <2>1, <3>1, <4>1
      <4>2. CASE x # r
        BY <1>0, <3>1, <3>2, <4>2
      <4> QED
        BY <4>1, <4>2
    <3> QED
      BY <3>2 DEF ResultsFollowSteps
  <2>2. ASSUME NEW r \in Active, NEW st \in StepStatus,
               st = "failed" \/ runs[r].step = Steps[runs[r].sop]
        PROVE  LET end == IF st = "failed" THEN "failed" ELSE "completed" IN
               /\ end \in Final
               /\ FollowsSteps([runs[r] EXCEPT !.status = end, !.ended = clock,
                                               !.results = Reported(r, st)])
    <3> DEFINE q == runs[r].results
               end == IF st = "failed" THEN "failed" ELSE "completed"
               done == [runs[r] EXCEPT !.status = end, !.ended = clock,
                                       !.results = Reported(r, st)]
    <3>1. /\ runs[r] \in RunState /\ runs[r].status \in Live /\ FollowsSteps(runs[r])
          /\ q \in Seq(Result) /\ runs[r].step \in Nat
      BY <1>0 DEF Active, RunState
    <3>2. /\ Len(q) = runs[r].step - 1
          /\ \A i \in DOMAIN q : q[i].n = i /\ q[i].status # "failed"
      BY <3>1 DEF FollowsSteps
    <3>3. /\ Len(Reported(r, st)) = runs[r].step
          /\ \A i \in 1 .. Len(q) : Reported(r, st)[i] = q[i]
          /\ Reported(r, st)[runs[r].step] = [n |-> runs[r].step, status |-> st]
          /\ DOMAIN Reported(r, st) = 1 .. runs[r].step
          /\ DOMAIN q = 1 .. Len(q)
      BY <3>1, <3>2 DEF Reported
    <3>4. /\ done.status = end /\ done.results = Reported(r, st)
          /\ done.sop = runs[r].sop
      BY <3>1 DEF RunState
    <3>5. \A i \in DOMAIN Reported(r, st) :
             /\ Reported(r, st)[i].n = i
             /\ Reported(r, st)[i].status = "failed" => i = runs[r].step /\ st = "failed"
      <4>1. ASSUME NEW i \in DOMAIN Reported(r, st)
            PROVE  /\ Reported(r, st)[i].n = i
                   /\ Reported(r, st)[i].status = "failed" => i = runs[r].step /\ st = "failed"
        <5>1. CASE i = runs[r].step
          BY <3>3, <5>1
        <5>2. CASE i # runs[r].step
          <6>1. i \in 1 .. Len(q)
            BY <3>1, <3>2, <3>3, <4>1, <5>2
          <6> QED
            BY <3>2, <3>3, <6>1
        <5> QED
          BY <5>1, <5>2
      <4> QED
        BY <4>1
    <3>6. Reported(r, st) # <<>>
      BY <3>1, <3>2, <3>3
    <3> HIDE DEF q, done
    <3>7. FollowsSteps(done)
      BY <2>2, <3>3, <3>4, <3>5, <3>6 DEF FollowsSteps, Live, StepStatus
    <3>8. end \in Final
      BY DEF Final
    <3> QED
      BY <3>7, <3>8 DEF done
  <2>3. ASSUME NEW r \in Active
        PROVE  /\ runs[r].results \in Seq(Result)
               /\ FollowsSteps([runs[r] EXCEPT !.status = "cancelled", !.ended = clock,
                                               !.results = runs[r].results])
    <3>1. runs[r] \in RunState /\ runs[r].status \in Live /\ FollowsSteps(runs[r])
      BY <1>0 DEF Active
    <3> DEFINE done == [runs[r] EXCEPT !.status = "cancelled", !.ended = clock,
                                       !.results = runs[r].results]
    <3>2. /\ done.status = "cancelled" /\ done.results = runs[r].results
          /\ done.step = runs[r].step
      BY <3>1 DEF RunState
    <3> HIDE DEF done
    <3>3. FollowsSteps(done)
      BY <3>1, <3>2 DEF FollowsSteps
    <3> QED
      BY <3>1, <3>3 DEF done, RunState
  <2>4. "cancelled" \in Final
    BY DEF Final
  <2>5. ASSUME NEW c \in Caller, NEW r \in Active, NEW st \in StepStatus,
               st = "failed" \/ runs[r].step = Steps[runs[r].sop],
               FinishRun(r, IF st = "failed" THEN "failed" ELSE "completed", Reported(r, st))
        PROVE  ResultsFollowSteps'
    <3>1. Reported(r, st) \in Seq(Result)
      BY ResultType DEF Reported
    <3> QED
      BY <2>1, <2>2, <2>5, <3>1
  <2> QED
    BY <1>2, <2>1, <2>3, <2>4, <2>5 DEF Ended
<1>3. CASE Moved
  <2>1. PICK r \in Active, st \in StepStatus \ {"failed"} : MoveOn(r, Reported(r, st))
    BY <1>3 DEF Moved
  <2>2. Reported(r, st) \in Seq(Result)
    BY ResultType DEF Reported
  <2>3. /\ DOMAIN runs' = DOMAIN runs /\ runs'[r].step = runs[r].step + 1
        /\ runs'[r].results = Reported(r, st) /\ runs'[r].status \in Live
        /\ \A x \in DOMAIN runs \ {r} : runs'[x] = runs[x]
    BY <2>1, <2>2, MoveOnFacts
  <2> DEFINE q == runs[r].results
  <2>4. /\ runs[r] \in RunState /\ runs[r].status \in Live /\ FollowsSteps(runs[r])
        /\ q \in Seq(Result) /\ runs[r].step \in Nat
    BY <1>0 DEF Active, RunState
  <2>5. /\ Len(q) = runs[r].step - 1
        /\ \A i \in DOMAIN q : q[i].n = i /\ q[i].status # "failed"
    BY <2>4 DEF FollowsSteps
  <2>6. /\ Len(Reported(r, st)) = runs[r].step
        /\ \A i \in 1 .. Len(q) : Reported(r, st)[i] = q[i]
        /\ Reported(r, st)[runs[r].step] = [n |-> runs[r].step, status |-> st]
        /\ DOMAIN Reported(r, st) = 1 .. runs[r].step
        /\ DOMAIN q = 1 .. Len(q)
    BY <2>4, <2>5 DEF Reported
  <2>7. ASSUME NEW i \in DOMAIN Reported(r, st)
        PROVE  Reported(r, st)[i].n = i /\ Reported(r, st)[i].status # "failed"
    <3>1. CASE i = runs[r].step
      BY <2>6, <3>1
    <3>2. CASE i # runs[r].step
      <4>1. i \in 1 .. Len(q)
        BY <2>4, <2>5, <2>6, <2>7, <3>2
      <4> QED
        BY <2>5, <2>6, <4>1
    <3> QED
      BY <3>1, <3>2
  <2>8. FollowsSteps(runs'[r])
    BY <2>3, <2>4, <2>6, <2>7 DEF FollowsSteps, Live
  <2>9. \A x \in DOMAIN runs' : FollowsSteps(runs'[x])
    BY <1>0, <2>3, <2>8
  <2> QED
    BY <2>9 DEF ResultsFollowSteps
<1>4. CASE Granted
  <2>1. PICK R \in SUBSET Active : ApproveRuns(R)
    BY <1>4 DEF Granted, TimedOut
  <2>2. ASSUME NEW x \in DOMAIN runs' PROVE FollowsSteps(runs'[x])
    <3>1. /\ DOMAIN runs' = DOMAIN runs
          /\ \A y \in R : runs'[y] = [runs[y] EXCEPT !.status = "running"]
          /\ \A y \in DOMAIN runs \ R : runs'[y] = runs[y]
      BY <2>1, ApproveFacts
    <3>2. CASE x \in R
      <4>1. runs[x] \in RunState /\ runs[x].status \in Live /\ FollowsSteps(runs[x])
        BY <1>0, <3>2 DEF Active
      <4>2. /\ runs'[x].status = "running" /\ runs'[x].results = runs[x].results
            /\ runs'[x].step = runs[x].step
        BY <3>1, <3>2, <4>1 DEF RunState
      <4> QED
        BY <4>1, <4>2 DEF FollowsSteps
    <3>3. CASE x \notin R
      BY <1>0, <2>2, <3>1, <3>3
    <3> QED
      BY <3>2, <3>3
  <2> QED
    BY <2>2 DEF ResultsFollowSteps
<1>5. CASE UNCHANGED runs
  BY <1>0, <1>5 DEF ResultsFollowSteps
<1> QED
  BY <1>1, <1>2, <1>3, <1>4, <1>5, StepKinds DEF WriteAudit

(* The results of a run are those of its steps in order, each reported once, *)
(* and its status is what they say.                                          *)
THEOREM ResultsCorrect == Spec => []ResultsFollowSteps
<1>1. Init => ResultsFollowSteps
  BY DEF Init, ResultsFollowSteps
<1> QED
  BY <1>1, FollowsStep, TypeCorrect, PTL DEF Spec
------------------------------------------------------------------------------
(* Only a start adds an active run.                                          *)
LEMMA ActiveStep ==
    ASSUME TypeOK, [Next]_vars
    PROVE  \/ \E s \in Sop : /\ CanStart(s) /\ Active' \subseteq Active \cup {counter'}
                             /\ runs'[counter'].sop = s
           \/ Active' \subseteq Active
<1>1. CASE Started
  <2>1. PICK c \in Caller, s \in Sop : CanStart(s) /\ StartRun(c, s)
    BY <1>1 DEF Started
  <2>2. /\ DOMAIN runs' = DOMAIN runs \cup {counter'} /\ runs'[counter'] = Fresh(s)
        /\ \A x \in DOMAIN runs : runs'[x] = runs[x]
    BY <2>1, StartRunFacts
  <2>3. Fresh(s).sop = s
    BY DEF Fresh
  <2> QED
    BY <2>1, <2>2, <2>3 DEF Active
<1>2. CASE Ended \/ Moved \/ Granted
  <2>1. \A x \in DOMAIN runs' : x \in DOMAIN runs
    <3>1. CASE Ended
      <4>1. PICK r \in Active, status \in Final : \E results : FinishRun(r, status, results)
        BY <3>1 DEF Ended, Final
      <4>2. PICK results : FinishRun(r, status, results)
        BY <4>1
      <4> QED
        BY <4>2 DEF FinishRun
    <3>2. CASE Moved
      BY <3>2 DEF Moved, MoveOn
    <3>3. CASE Granted
      BY <3>3 DEF Granted, ApproveRuns
    <3> QED
      BY <1>2, <3>1, <3>2, <3>3
  <2>2. \A x \in DOMAIN runs' : x \notin Active => x \notin Active'
    BY <2>1, RunsStep DEF Active
  <2> QED
    BY <2>2 DEF Active
<1>3. CASE UNCHANGED runs
  BY <1>3 DEF Active
<1> QED
  BY <1>1, <1>2, <1>3, StepKinds DEF WriteAudit

LEMMA LimitsStep ==
    ASSUME TypeOK, ConcurrencyLimits, [Next]_vars
    PROVE  ConcurrencyLimits'
<1> DEFINE Of(s) == {r \in Active : runs[r].sop = s}
<1>1. /\ DOMAIN runs \subseteq 1 .. counter /\ counter \in Nat
      /\ MaxTotal \in Nat /\ \A s \in Sop : MaxConcurrent[s] \in Nat
  BY SopAssumption DEF TypeOK
<1>2. IsFiniteSet(Active) /\ Cardinality(Active) \in Nat
  <2>1. IsFiniteSet(1 .. counter) /\ Active \in SUBSET (1 .. counter)
    BY <1>1, FS_Interval DEF Active
  <2> QED
    BY <2>1, FS_Subset, FS_CardinalityType
<1>3. \A s \in Sop : IsFiniteSet(Of(s)) /\ Cardinality(Of(s)) \in Nat
  <2>1. \A s \in Sop : Of(s) \in SUBSET Active
    OBVIOUS
  <2> QED
    BY <1>2, <2>1, FS_Subset, FS_CardinalityType
<1>4. \A x \in Active' : x \in Active => runs'[x].sop = runs[x].sop
  BY RunsStep DEF Active
<1>5. ASSUME NEW A, NEW B, NEW r, IsFiniteSet(A), B \subseteq A \cup {r}
      PROVE  Cardinality(B) \in Nat /\ Cardinality(B) <= Cardinality(A) + 1
  <2>1. /\ IsFiniteSet(A \cup {r}) /\ Cardinality(A) \in Nat
        /\ Cardinality(A \cup {r}) \in Nat
        /\ Cardinality(A \cup {r}) <= Cardinality(A) + 1
    BY <1>5, FS_AddElement, FS_CardinalityType
  <2>2. /\ Cardinality(B) <= Cardinality(A \cup {r}) /\ IsFiniteSet(B)
        /\ Cardinality(B) \in Nat
    BY <1>5, <2>1, FS_Subset, FS_CardinalityType
  <2> QED
    BY <2>1, <2>2
<1>6. ASSUME NEW s \in Sop, CanStart(s), Active' \subseteq Active \cup {counter'},
             runs'[counter'].sop = s
      PROVE  ConcurrencyLimits'
  <2>1. Cardinality(Active) < MaxTotal /\ Cardinality(Of(s)) < MaxConcurrent[s]
    BY <1>6 DEF CanStart
  <2>2. Cardinality(Active') <= MaxTotal
    <3>1. Cardinality(Active') \in Nat /\ Cardinality(Active') <= Cardinality(Active) + 1
      BY <1>2, <1>5, <1>6
    <3> QED
      BY <1>1, <1>2, <2>1, <3>1
  <2>3. ASSUME NEW t \in Sop
        PROVE  Cardinality({r \in Active' : runs'[r].sop = t}) <= MaxConcurrent[t]
    <3> DEFINE Next_t == {r \in Active' : runs'[r].sop = t}
    <3>1. CASE t = s
      <4>1. Next_t \subseteq Of(t) \cup {counter'}
        BY <1>4, <1>6
      <4>2. Cardinality(Next_t) \in Nat /\ Cardinality(Next_t) <= Cardinality(Of(t)) + 1
        <5> HIDE DEF Next_t, Of
        <5> QED
          BY <1>3, <1>5, <4>1
      <4> QED
        BY <1>1, <1>3, <2>1, <3>1, <4>2
    <3>2. CASE t # s
      <4>1. Next_t \in SUBSET Of(t)
        BY <1>4, <1>6, <3>2
      <4>2. Cardinality(Next_t) <= Cardinality(Of(t)) /\ Cardinality(Next_t) \in Nat
        <5> HIDE DEF Next_t, Of
        <5> QED
          BY <1>3, <4>1, FS_Subset, FS_CardinalityType
      <4>3. Cardinality(Of(t)) <= MaxConcurrent[t]
        BY DEF ConcurrencyLimits
      <4> QED
        BY <1>1, <1>3, <4>2, <4>3
    <3> QED
      BY <3>1, <3>2
  <2> QED
    BY <2>2, <2>3 DEF ConcurrencyLimits
<1>7. CASE Active' \subseteq Active
  <2>1. Cardinality(Active') <= Cardinality(Active) /\ Cardinality(Active') \in Nat
    BY <1>2, <1>7, FS_Subset, FS_CardinalityType
  <2>2. Cardinality(Active') <= MaxTotal
    BY <1>1, <1>2, <2>1 DEF ConcurrencyLimits
  <2>3. ASSUME NEW t \in Sop
        PROVE  Cardinality({r \in Active' : runs'[r].sop = t}) <= MaxConcurrent[t]
    <3> DEFINE Next_t == {r \in Active' : runs'[r].sop = t}
    <3>1. Next_t \in SUBSET Of(t)
      BY <1>4, <1>7
    <3>2. Cardinality(Next_t) <= Cardinality(Of(t)) /\ Cardinality(Next_t) \in Nat
      <4> HIDE DEF Next_t, Of
      <4> QED
        BY <1>3, <3>1, FS_Subset, FS_CardinalityType
    <3>3. Cardinality(Of(t)) <= MaxConcurrent[t]
      BY DEF ConcurrencyLimits
    <3> QED
      BY <1>1, <1>3, <3>2, <3>3
  <2> QED
    BY <2>2, <2>3 DEF ConcurrencyLimits
<1> QED
  BY <1>6, <1>7, ActiveStep

(* Neither the total nor a procedure's number of active runs exceeds its     *)
(* limit.                                                                    *)
THEOREM LimitsCorrect == Spec => []ConcurrencyLimits
<1>1. Init => ConcurrencyLimits
  <2> SUFFICES ASSUME Init PROVE ConcurrencyLimits
    OBVIOUS
  <2>1. Active = {} /\ \A s \in Sop : {r \in Active : runs[r].sop = s} = {}
    BY DEF Init, Active
  <2>2. MaxTotal >= 0 /\ \A s \in Sop : MaxConcurrent[s] >= 0
    BY SopAssumption
  <2>3. Cardinality({}) = 0
    BY FS_EmptySet
  <2> QED
    BY <2>1, <2>2, <2>3, SopAssumption DEF ConcurrencyLimits
<1> QED
  BY <1>1, LimitsStep, TypeCorrect, PTL DEF Spec
==============================================================================
