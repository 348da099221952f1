--------------------------- MODULE CronScheduler ---------------------------
(* The cron jobs of the agent engine: the table cron_jobs, the scheduler     *)
(* task that polls it, runs what is due and stores the result, and the       *)
(* command line and tools that change jobs meanwhile, each over its own      *)
(* database connection.                                                      *)
EXTENDS Naturals, FiniteSets

CONSTANTS
    Job,            \* job ids (UUIDs: an id is never given out twice)
    Writer,         \* calls of `cron update/pause/resume/run` in progress
    Periods,        \* periods of recurring schedules
    MaxTasks,       \* scheduler.max_tasks: rows a poll may take
    MaxConcurrent,  \* scheduler.max_concurrent: jobs executing at once
    KeepRuns,       \* cron.max_run_history
    NoCall,         \* the state of a writer that is not in a call
    Horizon,        \* bound: the last instant of the clock
    MaxCalls,       \* bound: calls of update, pause, resume and run
    MaxCrashes      \* bound: restarts of the daemon

ASSUME CronAssumption ==
    /\ Horizon \in Nat /\ MaxCalls \in Nat /\ MaxCrashes \in Nat
    /\ MaxTasks \in Nat \ {0} /\ MaxConcurrent \in Nat \ {0}
    /\ KeepRuns \in Nat \ {0}
    /\ Periods \subseteq Nat \ {0}

VARIABLES
    jobs,       \* cron_jobs: a function on the ids of its rows
    used,       \* ids given out so far
    history,    \* rows of cron_runs of a job
    work,       \* the batch being processed: a function on its job ids
    call,       \* what each writer is doing
    clock,
    calls, crashes,
    successes   \* how often a one-shot job has run successfully

vars == <<jobs, used, history, work, call, clock, calls, crashes, successes>>
------------------------------------------------------------------------------
At(t)    == [kind |-> "at", n |-> t]
Every(p) == [kind |-> "every", n |-> p]
Cron(p)  == [kind |-> "cron", n |-> p]  \* fires at the multiples of p

OneTime   == [kind : {"at"}, n : Nat]
Recurring == [kind : {"every", "cron"}, n : Periods]
Schedule  == OneTime \cup Recurring

(* The schedules that pass validate_schedule at the time now. *)
ValidSchedules(now) ==
    {At(t) : t \in now + 1 .. Horizon} \cup
    {Every(p) : p \in Periods} \cup {Cron(p) : p \in Periods}

NextRun(s, now) ==
    CASE s.kind = "at"    -> s.n
      [] s.kind = "every" -> now + s.n
      [] s.kind = "cron"  -> (now \div s.n + 1) * s.n

Row == [schedule : Schedule, enabled : BOOLEAN, nextRun : Nat, delete : BOOLEAN]
Phase == {"queued", "running", "ran", "recorded", "disabling"}
Work == [phase : Phase, snap : Row, ok : BOOLEAN]
Patch == {"name", "pause", "resume", "schedule"}
UpdateCall == [kind : {"update"}, job : Job, patch : Patch, row : Row]
RunCall    == [kind : {"run"}, job : Job]
Call       == UpdateCall \cup RunCall

ASSUME NoCallAssumption == NoCall \notin Call

Put(f, k, v) == [x \in DOMAIN f \cup {k} |-> IF x = k THEN v ELSE f[x]]
Drop(f, k)   == [x \in DOMAIN f \ {k} |-> f[x]]

Due(j) == j \in DOMAIN jobs /\ jobs[j].enabled /\ jobs[j].nextRun <= clock
OneShot(row) == row.delete /\ row.schedule.kind = "at"

Init ==
    /\ jobs = [j \in {} |-> {}]
    /\ used = {}
    /\ history = [j \in Job |-> 0]
    /\ work = [j \in {} |-> {}]
    /\ call = [w \in Writer |-> NoCall]
    /\ clock = 0
    /\ calls = 0
    /\ crashes = 0
    /\ successes = [j \in Job |-> 0]
------------------------------------------------------------------------------
(* Commands and tools.                                                       *)

(* cron add/add-at/add-every/once for shell jobs, the cron_add tool for      *)
(* agent jobs, which alone may keep a one-shot job after its run.            *)
AddJob(j) ==
    /\ j \notin used
    /\ \E s \in ValidSchedules(clock), del \in BOOLEAN :
          jobs' = Put(jobs, j, [schedule |-> s, enabled |-> TRUE,
                                nextRun |-> NextRun(s, clock), delete |-> del])
    /\ used' = used \cup {j}
    /\ UNCHANGED <<history, work, call, clock, calls, crashes, successes>>

RemoveJob(j) ==
    /\ j \in DOMAIN jobs
    /\ jobs' = Drop(jobs, j)
    /\ history' = [history EXCEPT ![j] = 0]   \* ON DELETE CASCADE
    /\ UNCHANGED <<used, work, call, clock, calls, crashes, successes>>

(* The row a patch makes of the row that was read. *)
Patched(row, patch, s) ==
    CASE patch = "pause"    -> [row EXCEPT !.enabled = FALSE]
      [] patch = "resume"   -> [row EXCEPT !.enabled = TRUE]
      [] patch = "schedule" -> [row EXCEPT !.schedule = s,
                                           !.nextRun = NextRun(s, clock)]
      [] patch = "name"     -> row

(* update_job, first half: get_job and the patch, on a copy of the row. *)
ReadForUpdate(w, j) ==
    /\ call[w] = NoCall
    /\ calls < MaxCalls
    /\ j \in DOMAIN jobs
    /\ \E patch \in Patch, s \in ValidSchedules(clock) :
          call' = [call EXCEPT ![w] =
                     [kind |-> "update", job |-> j, patch |-> patch,
                      row |-> Patched(jobs[j], patch, s)]]
    /\ calls' = calls + 1
    /\ UNCHANGED <<jobs, used, history, work, clock, crashes, successes>>

\* Mutant of StoreRow: an upsert.
StoreRowUpsert(j, row) == Put(jobs, j, row)

(* UPDATE cron_jobs SET every column WHERE id = ?: nothing when the row is gone *)
StoreRow(j, row) ==
    IF j \in DOMAIN jobs THEN [jobs EXCEPT ![j] = row] ELSE jobs

(* update_job, second half: every column of the copy is written. *)
WriteUpdate(w) ==
    /\ call[w] # NoCall
    /\ call[w].kind = "update"
    /\ jobs' = StoreRow(call[w].job, call[w].row)
    /\ call' = [call EXCEPT ![w] = NoCall]
    /\ UNCHANGED <<used, history, work, clock, calls, crashes, successes>>

\* Mutant of RecordRun: foreign keys are off, as they are by default.
RecordRunUnchecked(j) ==
    history' = IF history[j] < KeepRuns THEN [history EXCEPT ![j] = @ + 1] ELSE history

(* INSERT INTO cron_runs, then pruning; refused by the foreign key when the  *)
(* job is gone.                                                              *)
RecordRun(j) ==
    history' = IF j \in DOMAIN jobs /\ history[j] < KeepRuns
               THEN [history EXCEPT ![j] = @ + 1]
               ELSE history

(* The cron_run tool: runs the job in the call, whatever its schedule says,  *)
(* and records the run; next_run stays.                                      *)
ForceRun(w, j) ==
    /\ call[w] = NoCall
    /\ calls < MaxCalls
    /\ j \in DOMAIN jobs
    /\ call' = [call EXCEPT ![w] = [kind |-> "run", job |-> j]]
    /\ calls' = calls + 1
    /\ UNCHANGED <<jobs, used, history, work, clock, crashes, successes>>

ForcedRunEnds(w) ==
    /\ call[w] # NoCall
    /\ call[w].kind = "run"
    /\ RecordRun(call[w].job)
    /\ call' = [call EXCEPT ![w] = NoCall]
    /\ UNCHANGED <<jobs, used, work, clock, calls, crashes, successes>>
------------------------------------------------------------------------------
(* The scheduler task.                                                       *)

\* Mutant of DueJobs: ORDER BY next_run is missing.
DueJobsUnordered ==
    LET due == {j \in DOMAIN jobs : Due(j)} IN
    {B \in SUBSET due :
        /\ Cardinality(B) <= MaxTasks
        /\ B # due => Cardinality(B) = MaxTasks}

(* The batches SELECT ... WHERE enabled AND next_run <= now ORDER BY         *)
(* next_run LIMIT max_tasks can return: ties are in no order.                *)
DueJobs ==
    LET due == {j \in DOMAIN jobs : Due(j)} IN
    {B \in SUBSET due :
        /\ Cardinality(B) <= MaxTasks
        /\ B # due => Cardinality(B) = MaxTasks
        /\ \A b \in B, d \in due \ B : jobs[b].nextRun <= jobs[d].nextRun}

(* A tick of the poll interval: the batch is a snapshot of the rows. *)
Poll ==
    /\ DOMAIN work = {}
    /\ \E B \in DueJobs :
          /\ B # {}
          /\ work' = [j \in B |-> [phase |-> "queued", snap |-> jobs[j], ok |-> FALSE]]
    /\ UNCHANGED <<jobs, used, history, call, clock, calls, crashes, successes>>

InFlight == {j \in DOMAIN work : work[j].phase # "queued"}

(* buffer_unordered: the next jobs of the batch, at most MaxConcurrent.      *)
StartJob(j) ==
    /\ j \in DOMAIN work
    /\ work[j].phase = "queued"
    /\ Cardinality(InFlight) < MaxConcurrent
    /\ \A k \in DOMAIN work \ InFlight : work[j].snap.nextRun <= work[k].snap.nextRun
    /\ work' = [work EXCEPT ![j].phase = "running"]
    /\ UNCHANGED <<jobs, used, history, call, clock, calls, crashes, successes>>

(* execute_job_with_retry returns: the command or the agent ran, failed in   *)
(* every attempt, or was refused by the security policy.                     *)
JobEnds(j) ==
    /\ j \in DOMAIN work
    /\ work[j].phase = "running"
    /\ \E ok \in BOOLEAN : work' = [work EXCEPT ![j].phase = "ran", ![j].ok = ok]
    /\ UNCHANGED <<jobs, used, history, call, clock, calls, crashes, successes>>

(* persist_job_result: announces the output, which may turn success into     *)
(* failure, and records the run.                                             *)
RecordResult(j) ==
    /\ j \in DOMAIN work
    /\ work[j].phase = "ran"
    /\ \E ok \in {work[j].ok, FALSE} :
          /\ work' = [work EXCEPT ![j].phase = "recorded", ![j].ok = ok]
          /\ successes' = IF ok /\ OneShot(work[j].snap)
                          THEN [successes EXCEPT ![j] = @ + 1] ELSE successes
    /\ RecordRun(j)
    /\ UNCHANGED <<jobs, used, call, clock, calls, crashes>>

\* Mutant of DeleteOneShot: the row is rescheduled like any other.
DeleteOneShotReschedules(j) ==
    /\ j \in DOMAIN work
    /\ work[j].phase = "recorded"
    /\ OneShot(work[j].snap) /\ work[j].ok
    /\ work' = Drop(work, j)
    /\ UNCHANGED <<jobs, used, history, call, clock, calls, crashes, successes>>

(* A one-shot job that succeeded is deleted. *)
DeleteOneShot(j) ==
    /\ j \in DOMAIN work
    /\ work[j].phase = "recorded"
    /\ OneShot(work[j].snap) /\ work[j].ok
    /\ jobs' = Drop(jobs, j)
    /\ history' = [history EXCEPT ![j] = 0]
    /\ work' = Drop(work, j)
    /\ UNCHANGED <<used, call, clock, calls, crashes, successes>>

\* Mutant of DisableOneShotRead: the result is recorded and the job left enabled.
DisableOneShotReadNot(j) ==
    /\ j \in DOMAIN work
    /\ work[j].phase = "recorded"
    /\ OneShot(work[j].snap) /\ ~work[j].ok
    /\ work' = Drop(work, j)
    /\ UNCHANGED <<jobs, used, history, call, clock, calls, crashes, successes>>

(* One that failed is disabled by update_job: its row is read ...            *)
DisableOneShotRead(j) ==
    /\ j \in DOMAIN work
    /\ work[j].phase = "recorded"
    /\ OneShot(work[j].snap) /\ ~work[j].ok
    /\ work' = IF j \in DOMAIN jobs
               THEN [work EXCEPT ![j].phase = "disabling",
                                 ![j].snap = [jobs[j] EXCEPT !.enabled = FALSE]]
               ELSE Drop(work, j)
    /\ UNCHANGED <<jobs, used, history, call, clock, calls, crashes, successes>>

(* ... and written back.                                                     *)
DisableOneShotWrite(j) ==
    /\ j \in DOMAIN work
    /\ work[j].phase = "disabling"
    /\ jobs' = StoreRow(j, work[j].snap)
    /\ work' = Drop(work, j)
    /\ UNCHANGED <<used, history, call, clock, calls, crashes, successes>>

\* Mutant of Rescheduled: the snapshot's columns are written with it.
RescheduledWhole(j) ==
    IF j \in DOMAIN jobs
    THEN [jobs EXCEPT ![j] = [work[j].snap EXCEPT !.nextRun = NextRun(work[j].snap.schedule, clock)]]
    ELSE jobs

(* UPDATE cron_jobs SET next_run, last_run, ... : the columns a run changes. *)
Rescheduled(j) ==
    IF j \in DOMAIN jobs
    THEN [jobs EXCEPT ![j].nextRun = NextRun(work[j].snap.schedule, clock)]
    ELSE jobs

(* reschedule_after_run, by the schedule of the snapshot. *)
Reschedule(j) ==
    /\ j \in DOMAIN work
    /\ work[j].phase = "recorded"
    /\ ~OneShot(work[j].snap)
    /\ jobs' = Rescheduled(j)
    /\ work' = Drop(work, j)
    /\ UNCHANGED <<used, history, call, clock, calls, crashes, successes>>

(* The daemon dies and starts again: the batch is lost, the table is not.    *)
Crash ==
    /\ crashes < MaxCrashes
    /\ crashes' = crashes + 1
    /\ work' = [j \in {} |-> {}]
    /\ UNCHANGED <<jobs, used, history, call, clock, calls, successes>>

Tick ==
    /\ clock < Horizon
    /\ clock' = clock + 1
    /\ UNCHANGED <<jobs, used, history, work, call, calls, crashes, successes>>
------------------------------------------------------------------------------
JobStep(j) ==
    \/ StartJob(j)
    \/ JobEnds(j)
    \/ RecordResult(j)
    \/ DeleteOneShot(j)
    \/ DisableOneShotRead(j)
    \/ DisableOneShotWrite(j)
    \/ Reschedule(j)

Next ==
    \/ \E j \in Job : AddJob(j) \/ RemoveJob(j) \/ JobStep(j)
    \/ \E w \in Writer :
          \/ \E j \in Job : ReadForUpdate(w, j) \/ ForceRun(w, j)
          \/ WriteUpdate(w)
          \/ ForcedRunEnds(w)
    \/ Poll
    \/ Crash
    \/ Tick

Spec == Init /\ [][Next]_vars

(* The scheduler loop keeps polling and each job of a batch is driven to its *)
(* end: commands are killed after 120 s, provider calls time out. Time goes  *)
(* on. Users need not do anything.                                           *)
FairSpec ==
    /\ Spec
    /\ WF_vars(Tick)
    /\ WF_vars(Poll)
    /\ \A j \in Job : WF_vars(JobStep(j))
------------------------------------------------------------------------------
TypeOK ==
    /\ DOMAIN jobs \subseteq used
    /\ \A j \in DOMAIN jobs : jobs[j] \in Row
    /\ used \subseteq Job
    /\ history \in [Job -> 0 .. KeepRuns]
    /\ DOMAIN work \subseteq used
    /\ \A j \in DOMAIN work : work[j] \in Work
    /\ call \in [Writer -> Call \cup {NoCall}]
    /\ clock \in Nat /\ calls \in Nat /\ crashes \in Nat
    /\ successes \in [Job -> Nat]

(* A removed job leaves no run behind: a run that ends after the removal,    *)
(* the scheduler's or a forced one, is not recorded (store.rs, foreign key). *)
HistoryOfLiveJobs == \A j \in Job \ DOMAIN jobs : history[j] = 0

(* A one-shot job that succeeded is not run again, except that each crash    *)
(* between its run and its deletion may cost one repetition                  *)
(* (persist_job_result).                                                     *)
OneShotRunsOnce == \A j \in Job : successes[j] <= 1 + crashes

(* Nothing brings a removed job back: not the update that read it before it  *)
(* was removed, not the end of a run that began before.                      *)
RemovedForGood ==
    [][\A j \in used \ DOMAIN jobs : j \notin DOMAIN jobs']_vars

(* The step writes an update that enables the job. *)
EnabledByUpdate(j) ==
    \E w \in Writer :
        /\ call[w] # NoCall /\ call'[w] = NoCall
        /\ call[w].kind = "update"
        /\ call[w].job = j /\ call[w].row.enabled

(* A job paused while it runs, or at any other time, stays paused until a    *)
(* resume, or an update that read it before the pause, is written: the end   *)
(* of the run never enables it (reschedule_after_run).                       *)
RunKeepsPause ==
    [][\A j \in DOMAIN jobs :
          j \in DOMAIN jobs' /\ ~jobs[j].enabled /\ jobs'[j].enabled
          => EnabledByUpdate(j)]_vars

(* A row that no poll gets past: a one-shot job kept after its run stays due *)
(* for good.                                                                 *)
Blocks(k, j) ==
    /\ k # j /\ Due(k) /\ Due(j)
    /\ jobs[k].nextRun <= jobs[j].nextRun
    /\ jobs[k].schedule.kind = "at" /\ ~jobs[k].delete

(* A due job is executed, unless it is paused, removed or moved to a later   *)
(* time first, or at least MaxTasks one-shot jobs that are kept after their  *)
(* run take the whole of every batch; a crash only delays it.                *)
DueJobRuns ==
    \A j \in Job :
        Due(j) ~> \/ ~Due(j)
                  \/ j \in InFlight
                  \/ Cardinality({k \in Job : Blocks(k, j)}) >= MaxTasks

(* Every due one-shot job that is deleted after its run ends deleted,        *)
(* disabled or moved to another time, whatever its run does, unless a job    *)
(* kept after its run starves it.                                            *)
OneShotSettles ==
    \A j \in Job :
        (Due(j) /\ OneShot(jobs[j]))
        ~> \/ ~Due(j)
           \/ ~OneShot(jobs[j])
           \/ Cardinality({k \in Job : Blocks(k, j)}) >= MaxTasks
==============================================================================
