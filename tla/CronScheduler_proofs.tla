------------------------ MODULE CronScheduler_proofs ------------------------
(* Proofs about CronScheduler: for every set of jobs and of concurrent       *)
(* calls, every limit of the configuration and any number of crashes.        *)
EXTENDS CronScheduler, TLAPS

LEMMA ScheduleFacts ==
    ASSUME NEW s \in Schedule
    PROVE  /\ s.kind \in {"at", "every", "cron"} /\ s.n \in Nat
           /\ s.kind = "at" \/ s.n > 0
<1>1. CASE s \in OneTime
  BY <1>1 DEF OneTime
<1>2. CASE s \in Recurring
  <2>1. s.kind \in {"every", "cron"} /\ s.n \in Periods
    BY <1>2 DEF Recurring
  <2>2. s.n \in Nat \ {0}
    BY <2>1, CronAssumption
  <2>3. \A n \in Nat \ {0} : n > 0
    OBVIOUS
  <2> QED
    BY <2>1, <2>2, <2>3
<1> QED
  BY <1>1, <1>2 DEF Schedule

LEMMA NextRunType ==
    ASSUME NEW s \in Schedule, NEW now \in Nat
    PROVE  NextRun(s, now) \in Nat
<1>1. s.kind = "cron" => (now \div s.n + 1) * s.n \in Nat
  <2>1. ASSUME NEW n \in Nat, n > 0 PROVE (now \div n + 1) * n \in Nat
    BY <2>1
  <2> QED
    BY <2>1, ScheduleFacts
<1> QED
  BY <1>1, ScheduleFacts DEF NextRun

LEMMA ValidType ==
    ASSUME NEW now \in Nat
    PROVE  ValidSchedules(now) \subseteq Schedule
BY CronAssumption DEF ValidSchedules, Schedule, OneTime, Recurring, At, Every, Cron

LEMMA PatchedType ==
    ASSUME NEW row \in Row, NEW patch \in Patch, NEW s \in Schedule, clock \in Nat
    PROVE  Patched(row, patch, s) \in Row
<1>1. NextRun(s, clock) \in Nat
  BY NextRunType
<1>2. CASE patch = "pause"
  BY <1>2 DEF Patched, Row
<1>3. CASE patch = "resume"
  BY <1>3 DEF Patched, Row
<1>4. CASE patch = "schedule"
  BY <1>1, <1>4 DEF Patched, Row
<1>5. CASE patch = "name"
  BY <1>5 DEF Patched
<1> QED
  BY <1>2, <1>3, <1>4, <1>5 DEF Patch

LEMMA RecordRunType ==
    ASSUME NEW j \in Job, history \in [Job -> 0 .. KeepRuns], RecordRun(j)
    PROVE  history' \in [Job -> 0 .. KeepRuns]
<1>1. KeepRuns \in Nat
  BY CronAssumption
<1>2. CASE j \in DOMAIN jobs /\ history[j] < KeepRuns
  <2>1. history[j] + 1 \in 0 .. KeepRuns
    BY <1>1, <1>2
  <2> QED
    BY <1>2, <2>1 DEF RecordRun
<1>3. CASE ~(j \in DOMAIN jobs /\ history[j] < KeepRuns)
  BY <1>3 DEF RecordRun
<1> QED
  BY <1>2, <1>3

(* Writing whole rows, next_run only or nothing: the rows stay rows.         *)
LEMMA StoreRowType ==
    ASSUME NEW j, NEW row \in Row, \A k \in DOMAIN jobs : jobs[k] \in Row
    PROVE  /\ DOMAIN StoreRow(j, row) = DOMAIN jobs
           /\ \A k \in DOMAIN jobs : StoreRow(j, row)[k] \in Row
           /\ \A k \in DOMAIN jobs \ {j} : StoreRow(j, row)[k] = jobs[k]
           /\ j \in DOMAIN jobs => StoreRow(j, row)[j] = row
BY DEF StoreRow

LEMMA RescheduledType ==
    ASSUME NEW j, \A k \in DOMAIN jobs : jobs[k] \in Row, work[j].snap \in Row,
           clock \in Nat
    PROVE  /\ DOMAIN Rescheduled(j) = DOMAIN jobs
           /\ \A k \in DOMAIN jobs : /\ Rescheduled(j)[k] \in Row
                                     /\ Rescheduled(j)[k].enabled = jobs[k].enabled
<1>1. NextRun(work[j].snap.schedule, clock) \in Nat
  BY NextRunType DEF Row
<1> QED
  BY <1>1 DEF Rescheduled, Row

LEMMA CallFacts ==
    ASSUME NEW c \in Call
    PROVE  c.job \in Job /\ (c.kind = "update" => c.row \in Row /\ c.patch \in Patch)
<1>1. CASE c \in UpdateCall
  BY <1>1 DEF UpdateCall
<1>2. CASE c \in RunCall
  BY <1>2 DEF RunCall
<1> QED
  BY <1>1, <1>2 DEF Call

(* Type correctness: what is stored are rows, what is processed are jobs,    *)
(* and no job has more runs on record than the configured number.            *)
LEMMA TypeInit == Init => TypeOK
BY CronAssumption DEF Init, TypeOK

LEMMA TypeStep == TypeOK /\ [Next]_vars => TypeOK'
<1> SUFFICES ASSUME TypeOK, [Next]_vars PROVE TypeOK'
  OBVIOUS
<1> USE DEF TypeOK
<1>1. ASSUME NEW j \in Job, AddJob(j) PROVE TypeOK'
  <2>1. PICK s \in ValidSchedules(clock), del \in BOOLEAN :
           jobs' = Put(jobs, j, [schedule |-> s, enabled |-> TRUE,
                                 nextRun |-> NextRun(s, clock), delete |-> del])
    BY <1>1 DEF AddJob
  <2>2. [schedule |-> s, enabled |-> TRUE, nextRun |-> NextRun(s, clock), delete |-> del]
          \in Row
    BY ValidType, NextRunType DEF Row
  <2>3. DOMAIN jobs' = DOMAIN jobs \cup {j} /\ \A k \in DOMAIN jobs' : jobs'[k] \in Row
    BY <2>1, <2>2 DEF Put
  <2> QED
    BY <1>1, <2>3 DEF AddJob
<1>2. ASSUME NEW j \in Job, RemoveJob(j) PROVE TypeOK'
  <2>1. /\ DOMAIN jobs' \subseteq DOMAIN jobs /\ \A k \in DOMAIN jobs' : jobs'[k] \in Row
        /\ history' \in [Job -> 0 .. KeepRuns]
    BY <1>2, CronAssumption DEF RemoveJob, Drop
  <2> QED
    BY <1>2, <2>1 DEF RemoveJob
<1>3. ASSUME NEW j \in Job, StartJob(j) \/ JobEnds(j) PROVE TypeOK'
  <2>1. DOMAIN work' = DOMAIN work /\ \A k \in DOMAIN work' : work'[k] \in Work
    BY <1>3 DEF StartJob, JobEnds, Work, Phase
  <2> QED
    BY <1>3, <2>1 DEF StartJob, JobEnds
<1>4. ASSUME NEW j \in Job, RecordResult(j) PROVE TypeOK'
  <2>1. /\ DOMAIN work' = DOMAIN work /\ \A k \in DOMAIN work' : work'[k] \in Work
        /\ successes' \in [Job -> Nat]
    BY <1>4 DEF RecordResult, Work, Phase
  <2>2. history' \in [Job -> 0 .. KeepRuns]
    BY <1>4, RecordRunType DEF RecordResult
  <2> QED
    BY <1>4, <2>1, <2>2 DEF RecordResult
<1>5. ASSUME NEW j \in Job, DeleteOneShot(j) PROVE TypeOK'
  <2>1. /\ DOMAIN jobs' \subseteq DOMAIN jobs /\ \A k \in DOMAIN jobs' : jobs'[k] \in Row
        /\ DOMAIN work' \subseteq DOMAIN work /\ \A k \in DOMAIN work' : work'[k] \in Work
        /\ history' \in [Job -> 0 .. KeepRuns]
    BY <1>5, CronAssumption DEF DeleteOneShot, Drop
  <2> QED
    BY <1>5, <2>1 DEF DeleteOneShot
<1>6. ASSUME NEW j \in Job, DisableOneShotRead(j) PROVE TypeOK'
  <2>1. CASE j \in DOMAIN jobs
    <3>1. DOMAIN work' = DOMAIN work /\ \A k \in DOMAIN work' : work'[k] \in Work
      BY <1>6, <2>1 DEF DisableOneShotRead, Work, Phase, Row
    <3> QED
      BY <1>6, <3>1 DEF DisableOneShotRead
  <2>2. CASE j \notin DOMAIN jobs
    <3>1. DOMAIN work' \subseteq DOMAIN work /\ \A k \in DOMAIN work' : work'[k] \in Work
      BY <1>6, <2>2 DEF DisableOneShotRead, Drop
    <3> QED
      BY <1>6, <3>1 DEF DisableOneShotRead
  <2> QED
    BY <2>1, <2>2
<1>7. ASSUME NEW j \in Job, DisableOneShotWrite(j) PROVE TypeOK'
  <2>1. work[j].snap \in Row
    BY <1>7 DEF DisableOneShotWrite, Work
  <2>2. /\ DOMAIN jobs' = DOMAIN jobs /\ \A k \in DOMAIN jobs' : jobs'[k] \in Row
        /\ DOMAIN work' \subseteq DOMAIN work /\ \A k \in DOMAIN work' : work'[k] \in Work
    BY <1>7, <2>1, StoreRowType DEF DisableOneShotWrite, Drop
  <2> QED
    BY <1>7, <2>2 DEF DisableOneShotWrite
<1>8. ASSUME NEW j \in Job, Reschedule(j) PROVE TypeOK'
  <2>1. work[j].snap \in Row
    BY <1>8 DEF Reschedule, Work
  <2>2. /\ DOMAIN jobs' = DOMAIN jobs /\ \A k \in DOMAIN jobs' : jobs'[k] \in Row
        /\ DOMAIN work' \subseteq DOMAIN work /\ \A k \in DOMAIN work' : work'[k] \in Work
    BY <1>8, <2>1, RescheduledType DEF Reschedule, Drop
  <2> QED
    BY <1>8, <2>2 DEF Reschedule
<1>9. ASSUME NEW w \in Writer, NEW j \in Job, ReadForUpdate(w, j) PROVE TypeOK'
  <2>1. PICK patch \in Patch, s \in ValidSchedules(clock) :
           call' = [call EXCEPT ![w] = [kind |-> "update", job |-> j, patch |-> patch,
                                        row |-> Patched(jobs[j], patch, s)]]
    BY <1>9 DEF ReadForUpdate
  <2>2. Patched(jobs[j], patch, s) \in Row
    BY <1>9, ValidType, PatchedType DEF ReadForUpdate
  <2>3. [kind |-> "update", job |-> j, patch |-> patch, row |-> Patched(jobs[j], patch, s)]
           \in UpdateCall
    BY <2>2 DEF UpdateCall
  <2> QED
    BY <1>9, <2>1, <2>3 DEF ReadForUpdate, Call
<1>10. ASSUME NEW w \in Writer, NEW j \in Job, ForceRun(w, j) PROVE TypeOK'
  <2>1. [kind |-> "run", job |-> j] \in RunCall
    BY DEF RunCall
  <2> QED
    BY <1>10, <2>1 DEF ForceRun, Call
<1>11. ASSUME NEW w \in Writer, WriteUpdate(w) PROVE TypeOK'
  <2>1. call[w].row \in Row
    BY <1>11, CallFacts DEF WriteUpdate
  <2>2. DOMAIN jobs' = DOMAIN jobs /\ \A k \in DOMAIN jobs' : jobs'[k] \in Row
    BY <1>11, <2>1, StoreRowType DEF WriteUpdate
  <2> QED
    BY <1>11, <2>2 DEF WriteUpdate
<1>12. ASSUME NEW w \in Writer, ForcedRunEnds(w) PROVE TypeOK'
  <2>1. call[w].job \in Job
    BY <1>12, CallFacts DEF ForcedRunEnds
  <2>2. history' \in [Job -> 0 .. KeepRuns]
    BY <1>12, <2>1, RecordRunType DEF ForcedRunEnds
  <2> QED
    BY <1>12, <2>2 DEF ForcedRunEnds
<1>13. CASE Poll
  <2>1. PICK B \in DueJobs :
           work' = [j \in B |-> [phase |-> "queued", snap |-> jobs[j], ok |-> FALSE]]
    BY <1>13 DEF Poll
  <2>2. B \subseteq DOMAIN jobs
    BY DEF DueJobs
  <2>3. DOMAIN work' = B /\ \A j \in B : work'[j] \in Work
    BY <2>1, <2>2 DEF Work, Phase
  <2> QED
    BY <1>13, <2>2, <2>3 DEF Poll
<1>14. CASE Crash
  <2>1. DOMAIN work' = {}
    BY <1>14 DEF Crash
  <2> QED
    BY <1>14, <2>1 DEF Crash
<1>15. CASE Tick
  BY <1>15 DEF Tick
<1>16. CASE UNCHANGED vars
  BY <1>16 DEF vars
<1> QED
  BY <1>1, <1>2, <1>3, <1>4, <1>5, <1>6, <1>7, <1>8, <1>9, <1>10, <1>11, <1>12, <1>13,
     <1>14, <1>15, <1>16 DEF Next, JobStep

THEOREM TypeCorrect == Spec => []TypeOK
<1>1. Init => TypeOK
  BY TypeInit
<1>2. TypeOK /\ [Next]_vars => TypeOK'
  BY TypeStep
<1> QED
  BY <1>1, <1>2, PTL DEF Spec
------------------------------------------------------------------------------
(* The table of runs: removing a job removes its runs, and RecordRun, the    *)
(* only step that adds one, asks for the job.                                *)
LEMMA HistoryStep ==
    ASSUME TypeOK, HistoryOfLiveJobs, [Next]_vars
    PROVE  HistoryOfLiveJobs'
<1> USE DEF HistoryOfLiveJobs, TypeOK
<1>1. ASSUME NEW j \in Job, RemoveJob(j) \/ DeleteOneShot(j)
      PROVE  HistoryOfLiveJobs'
  <2>1. DOMAIN jobs' = DOMAIN jobs \ {j} /\ history' = [history EXCEPT ![j] = 0]
    BY <1>1 DEF RemoveJob, DeleteOneShot, Drop
  <2> QED
    BY <2>1
<1>2. ASSUME NEW j \in Job, RecordRun(j), DOMAIN jobs' = DOMAIN jobs
      PROVE  HistoryOfLiveJobs'
  BY <1>2 DEF RecordRun
<1>3. ASSUME DOMAIN jobs \subseteq DOMAIN jobs', UNCHANGED history
      PROVE  HistoryOfLiveJobs'
  BY <1>3
<1>4. ASSUME NEW j \in Job, AddJob(j) PROVE HistoryOfLiveJobs'
  BY <1>3, <1>4 DEF AddJob, Put
<1>5. ASSUME NEW j \in Job, JobStep(j) PROVE HistoryOfLiveJobs'
  <2>1. CASE StartJob(j) \/ JobEnds(j) \/ DisableOneShotRead(j)
    BY <1>3, <2>1 DEF StartJob, JobEnds, DisableOneShotRead
  <2>2. CASE RecordResult(j)
    BY <1>2, <2>2 DEF RecordResult
  <2>3. CASE DisableOneShotWrite(j)
    BY <1>3, <2>3 DEF DisableOneShotWrite, StoreRow
  <2>4. CASE Reschedule(j)
    BY <1>3, <2>4 DEF Reschedule, Rescheduled
  <2> QED
    BY <1>1, <1>5, <2>1, <2>2, <2>3, <2>4 DEF JobStep
<1>6. ASSUME NEW w \in Writer, NEW j \in Job, ReadForUpdate(w, j) \/ ForceRun(w, j)
      PROVE  HistoryOfLiveJobs'
  BY <1>3, <1>6 DEF ReadForUpdate, ForceRun
<1>7. ASSUME NEW w \in Writer, WriteUpdate(w) PROVE HistoryOfLiveJobs'
  BY <1>3, <1>7 DEF WriteUpdate, StoreRow
<1>8. ASSUME NEW w \in Writer, ForcedRunEnds(w) PROVE HistoryOfLiveJobs'
  BY <1>2, <1>8, CallFacts DEF ForcedRunEnds
<1>9. CASE Poll \/ Crash \/ Tick \/ UNCHANGED vars
  BY <1>3, <1>9 DEF Poll, Crash, Tick, vars
<1> QED
  BY <1>1, <1>4, <1>5, <1>6, <1>7, <1>8, <1>9 DEF Next

(* A run that ends after its job was removed leaves no record.               *)
THEOREM HistoryCorrect == Spec => []HistoryOfLiveJobs
<1>1. Init => HistoryOfLiveJobs
  BY DEF Init, HistoryOfLiveJobs
<1>2. TypeOK /\ HistoryOfLiveJobs /\ [Next]_vars => HistoryOfLiveJobs'
  BY HistoryStep
<1> QED
  BY <1>1, <1>2, TypeCorrect, PTL DEF Spec

(* A removed job never comes back: only AddJob enlarges the table, with an   *)
(* id that was never used.                                                   *)
THEOREM RemovedCorrect == Spec => RemovedForGood
<1>1. ASSUME TypeOK, [Next]_vars
      PROVE  \A j \in used \ DOMAIN jobs : j \notin DOMAIN jobs'
  <2>1. DOMAIN jobs' \subseteq DOMAIN jobs
        \/ \E j \in Job \ used : DOMAIN jobs' = DOMAIN jobs \cup {j}
    <3>1. ASSUME NEW j \in Job, AddJob(j) PROVE \E k \in Job \ used : DOMAIN jobs' = DOMAIN jobs \cup {k}
      BY <3>1 DEF AddJob, Put
    <3>2. ASSUME NEW j \in Job, RemoveJob(j) \/ DeleteOneShot(j)
          PROVE  DOMAIN jobs' \subseteq DOMAIN jobs
      BY <3>2 DEF RemoveJob, DeleteOneShot, Drop
    <3>3. ASSUME NEW j \in Job, DisableOneShotWrite(j) \/ Reschedule(j)
          PROVE  DOMAIN jobs' \subseteq DOMAIN jobs
      BY <3>3 DEF DisableOneShotWrite, Reschedule, Rescheduled, StoreRow
    <3>4. ASSUME NEW w \in Writer, WriteUpdate(w) PROVE DOMAIN jobs' \subseteq DOMAIN jobs
      BY <3>4 DEF WriteUpdate, StoreRow
    <3>5. ASSUME UNCHANGED jobs PROVE DOMAIN jobs' \subseteq DOMAIN jobs
      BY <3>5
    <3> QED
      BY <1>1, <3>1, <3>2, <3>3, <3>4, <3>5
      DEF Next, JobStep, StartJob, JobEnds, RecordResult, DisableOneShotRead,
          ReadForUpdate, ForceRun, ForcedRunEnds, Poll, Crash, Tick, vars
  <2> QED
    BY <2>1
<1> QED
  BY <1>1, TypeCorrect, PTL DEF Spec, RemovedForGood
------------------------------------------------------------------------------
(* The row the scheduler writes back after a failed one-shot run is disabled. *)
DisablingInv == \A j \in DOMAIN work : work[j].phase = "disabling" => ~work[j].snap.enabled

(* The repetitions of a one-shot job: a success is on the account of a crash *)
(* as soon as its row and its place in the batch are gone, or may be due     *)
(* again.                                                                    *)
Deleting(j) == /\ j \in DOMAIN work /\ work[j].phase = "recorded"
               /\ work[j].ok /\ OneShot(work[j].snap)

SuccessBound(j) ==
    /\ successes[j] <= crashes + 1
    /\ j \in DOMAIN jobs \cup DOMAIN work /\ ~Deleting(j) => successes[j] <= crashes
    /\ j \notin used => successes[j] = 0

RunInv == DisablingInv /\ \A j \in Job : SuccessBound(j)

LEMMA RunInit == Init => RunInv
BY DEF Init, RunInv, DisablingInv, SuccessBound

LEMMA DisablingStep ==
    ASSUME TypeOK, DisablingInv, [Next]_vars
    PROVE  DisablingInv'
<1> USE DEF DisablingInv
<1>1. ASSUME NEW j \in Job, JobStep(j) PROVE DisablingInv'
  <2>1. CASE StartJob(j) \/ JobEnds(j) \/ RecordResult(j)
    BY <2>1 DEF StartJob, JobEnds, RecordResult, TypeOK, Work
  <2>2. CASE DeleteOneShot(j) \/ DisableOneShotWrite(j) \/ Reschedule(j)
    BY <2>2 DEF DeleteOneShot, DisableOneShotWrite, Reschedule, Drop
  <2>3. CASE DisableOneShotRead(j)
    <3>1. CASE j \in DOMAIN jobs
      BY <2>3, <3>1 DEF DisableOneShotRead, TypeOK, Row, Work
    <3>2. CASE j \notin DOMAIN jobs
      BY <2>3, <3>2 DEF DisableOneShotRead, Drop
    <3> QED
      BY <3>1, <3>2
  <2> QED
    BY <1>1, <2>1, <2>2, <2>3 DEF JobStep
<1>2. CASE Poll \/ Crash
  BY <1>2 DEF Poll, Crash
<1>3. ASSUME UNCHANGED work PROVE DisablingInv'
  BY <1>3
<1> QED
  BY <1>1, <1>2, <1>3
  DEF Next, AddJob, RemoveJob, ReadForUpdate, ForceRun, WriteUpdate, ForcedRunEnds, Tick, vars

LEMMA SuccessStep ==
    ASSUME TypeOK, [Next]_vars, NEW i \in Job, SuccessBound(i)
    PROVE  SuccessBound(i)'
<1>0. successes[i] \in Nat /\ crashes \in Nat
  BY DEF TypeOK
<1>1. ASSUME NEW j \in Job, AddJob(j) PROVE SuccessBound(i)'
  BY <1>0, <1>1 DEF AddJob, Put, SuccessBound, Deleting
<1>2. ASSUME NEW j \in Job, RemoveJob(j) PROVE SuccessBound(i)'
  BY <1>0, <1>2 DEF RemoveJob, Drop, SuccessBound, Deleting
<1>3. ASSUME NEW j \in Job, JobStep(j) PROVE SuccessBound(i)'
  <2>1. CASE StartJob(j) \/ JobEnds(j)
    BY <1>0, <2>1 DEF StartJob, JobEnds, SuccessBound, Deleting, TypeOK, Work
  <2>2. CASE RecordResult(j)
    <3>1. CASE i = j
      <4>1. PICK ok \in {work[j].ok, FALSE} :
              /\ work' = [work EXCEPT ![j].phase = "recorded", ![j].ok = ok]
              /\ successes' = IF ok /\ OneShot(work[j].snap)
                              THEN [successes EXCEPT ![j] = @ + 1] ELSE successes
        BY <2>2 DEF RecordResult
      <4>2. /\ j \in DOMAIN work /\ work[j] \in Work /\ work[j].phase = "ran"
            /\ UNCHANGED <<jobs, used, crashes>>
        BY <2>2 DEF RecordResult, TypeOK
      <4>3. successes[i] <= crashes /\ j \in used
        BY <3>1, <4>2 DEF SuccessBound, Deleting, TypeOK
      <4>4. /\ DOMAIN work' = DOMAIN work
            /\ work'[j].phase = "recorded" /\ work'[j].ok = ok /\ work'[j].snap = work[j].snap
        BY <4>1, <4>2 DEF Work
      <4>5. CASE ok /\ OneShot(work[j].snap)
        <5>1. successes'[i] = successes[i] + 1
          BY <3>1, <4>1, <4>5 DEF TypeOK
        <5>2. Deleting(i)'
          BY <3>1, <4>2, <4>4, <4>5 DEF Deleting, OneShot
        <5> QED
          BY <1>0, <3>1, <4>2, <4>3, <5>1, <5>2 DEF SuccessBound
      <4>6. CASE ~(ok /\ OneShot(work[j].snap))
        BY <1>0, <3>1, <4>1, <4>2, <4>3, <4>6 DEF SuccessBound
      <4> QED
        BY <4>5, <4>6
    <3>2. CASE i # j
      BY <1>0, <2>2, <3>2 DEF RecordResult, SuccessBound, Deleting, TypeOK, Work
    <3> QED
      BY <3>1, <3>2
  <2>3. CASE DeleteOneShot(j)
    BY <1>0, <2>3 DEF DeleteOneShot, Drop, SuccessBound, Deleting, TypeOK, Work
  <2>4. CASE DisableOneShotRead(j)
    <3>1. CASE j \in DOMAIN jobs
      BY <1>0, <2>4, <3>1 DEF DisableOneShotRead, SuccessBound, Deleting, TypeOK, Work
    <3>2. CASE j \notin DOMAIN jobs
      BY <1>0, <2>4, <3>2 DEF DisableOneShotRead, Drop, SuccessBound, Deleting, TypeOK, Work
    <3> QED
      BY <3>1, <3>2
  <2>5. CASE DisableOneShotWrite(j)
    BY <1>0, <2>5 DEF DisableOneShotWrite, StoreRow, Drop, SuccessBound, Deleting, TypeOK
  <2>6. CASE Reschedule(j)
    BY <1>0, <2>6 DEF Reschedule, Rescheduled, Drop, SuccessBound, Deleting, TypeOK
  <2> QED
    BY <1>3, <2>1, <2>2, <2>3, <2>4, <2>5, <2>6 DEF JobStep
<1>4. ASSUME NEW w \in Writer, WriteUpdate(w) PROVE SuccessBound(i)'
  BY <1>0, <1>4 DEF WriteUpdate, StoreRow, SuccessBound, Deleting
<1>5. CASE Poll
  <2>1. DOMAIN work = {} /\ DOMAIN work' \subseteq DOMAIN jobs
    BY <1>5 DEF Poll, DueJobs
  <2> QED
    BY <1>0, <1>5, <2>1 DEF Poll, SuccessBound, Deleting
<1>6. CASE Crash
  BY <1>0, <1>6 DEF Crash, SuccessBound, Deleting
<1>7. ASSUME UNCHANGED <<jobs, used, work, successes, crashes>> PROVE SuccessBound(i)'
  BY <1>7 DEF SuccessBound, Deleting, OneShot
<1> QED
  BY <1>1, <1>2, <1>3, <1>4, <1>5, <1>6, <1>7
  DEF Next, ReadForUpdate, ForceRun, ForcedRunEnds, Tick, vars

THEOREM RunInvCorrect == Spec => []RunInv
<1>1. TypeOK /\ RunInv /\ [Next]_vars => RunInv'
  BY DisablingStep, SuccessStep DEF RunInv
<1> QED
  BY <1>1, RunInit, TypeCorrect, PTL DEF Spec

(* A one-shot job succeeds at most once, plus once for every crash.          *)
THEOREM OneShotCorrect == Spec => []OneShotRunsOnce
<1>1. TypeOK /\ RunInv => OneShotRunsOnce
  BY DEF TypeOK, RunInv, SuccessBound, OneShotRunsOnce
<1> QED
  BY <1>1, TypeCorrect, RunInvCorrect, PTL

(* Only an update enables a job: the end of a run writes next_run alone, or  *)
(* a row that is disabled.                                                   *)
LEMMA PauseStep ==
    ASSUME TypeOK, DisablingInv, [Next]_vars,
           NEW i \in DOMAIN jobs, i \in DOMAIN jobs', ~jobs[i].enabled, jobs'[i].enabled
    PROVE  EnabledByUpdate(i)
<1>1. ASSUME NEW j \in Job, AddJob(j) PROVE FALSE
  BY <1>1 DEF AddJob, Put, TypeOK
<1>2. ASSUME NEW j \in Job, RemoveJob(j) \/ DeleteOneShot(j) PROVE FALSE
  BY <1>2 DEF RemoveJob, DeleteOneShot, Drop
<1>3. ASSUME NEW j \in Job, DisableOneShotWrite(j) PROVE FALSE
  BY <1>3 DEF DisableOneShotWrite, StoreRow, DisablingInv
<1>4. ASSUME NEW j \in Job, Reschedule(j) PROVE FALSE
  <2>1. work[j].snap \in Row /\ clock \in Nat /\ \A k \in DOMAIN jobs : jobs[k] \in Row
    BY <1>4 DEF Reschedule, TypeOK, Work
  <2>2. jobs'[i].enabled = jobs[i].enabled
    BY <1>4, <2>1, RescheduledType DEF Reschedule
  <2> QED
    BY <2>2
<1>5. ASSUME NEW w \in Writer, WriteUpdate(w)
      PROVE  /\ call[w] # NoCall /\ call'[w] = NoCall /\ call[w].kind = "update"
             /\ call[w].job = i /\ call[w].row.enabled
  <2>1. call[w] # NoCall /\ call'[w] = NoCall /\ call[w].kind = "update"
    BY <1>5 DEF WriteUpdate, TypeOK
  <2>2. jobs' = StoreRow(call[w].job, call[w].row)
    BY <1>5 DEF WriteUpdate
  <2>3. call[w].job = i
    BY <2>2 DEF StoreRow
  <2>4. jobs'[i] = call[w].row
    BY <2>2, <2>3 DEF StoreRow
  <2> QED
    BY <2>1, <2>3, <2>4
<1>6. ASSUME UNCHANGED jobs PROVE FALSE
  BY <1>6
<1> QED
  BY <1>1, <1>2, <1>3, <1>4, <1>5, <1>6
  DEF Next, JobStep, StartJob, JobEnds, RecordResult, DisableOneShotRead, ReadForUpdate,
      ForceRun, ForcedRunEnds, Poll, Crash, Tick, vars, EnabledByUpdate

(* The end of a run leaves a job that was paused meanwhile paused.           *)
THEOREM PauseCorrect == Spec => RunKeepsPause
<1>1. ASSUME TypeOK, RunInv, [Next]_vars
      PROVE  \A j \in DOMAIN jobs :
                j \in DOMAIN jobs' /\ ~jobs[j].enabled /\ jobs'[j].enabled
                => EnabledByUpdate(j)
  BY <1>1, PauseStep DEF RunInv
<1> QED
  BY <1>1, TypeCorrect, RunInvCorrect, PTL DEF Spec, RunKeepsPause
==============================================================================
