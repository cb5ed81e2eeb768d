--------------------------- MODULE CronScheduler ---------------------------
(***************************************************************************)
(* gobby's cron scheduler: the rows of cron_jobs and cron_runs, the check  *)
(* loop that dispatches due jobs within max_concurrent_jobs, the tasks     *)
(* that execute them, the cleanup loop, and the calls of users and agents  *)
(* that trigger, toggle, edit and delete jobs meanwhile.                   *)
(*                                                                         *)
(* Time is abstract: a job's next_run_at is absent, in the future          *)
(* (planned), or past (due; ahead tells which passed first).  A check is   *)
(* one action, because nothing in it is awaited.  A row of cron_runs that  *)
(* has ended, or that is pending with no task to run it, is dropped: the   *)
(* scheduler only ever reads how many rows are running.                    *)
(***************************************************************************)
EXTENDS Naturals, FiniteSets, Functions

CONSTANTS
    Jobs,           \* the jobs that may be created
    Once,           \* those with schedule_type "once"; the others recur
    Runs,           \* identities of the live rows and tasks of runs
    MaxConcurrent,  \* config.max_concurrent_jobs
    MaxFailures,    \* length of config.backoff_delays, where the counter saturates
    MaxCalls,       \* bound on user calls and crashes
    NoJob           \* the job of a run identity that is not in use

ASSUME JobsAssumption == Once \subseteq Jobs /\ NoJob \notin Jobs /\ IsFiniteSet(Jobs)
ASSUME RunsAssumption == Runs \subseteq Nat /\ IsFiniteSet(Runs)
ASSUME LimitsAssumption ==
    /\ MaxConcurrent \in Nat \ {0}
    /\ MaxFailures \in Nat \ {0}
    /\ MaxCalls \in Nat

VARIABLES
    job,        \* "new" before create_job, then enabled, disabled or deleted
    planned,    \* jobs whose next_run_at is in the future
    due,        \* jobs whose next_run_at has passed
    ahead,      \* <<j, k>> of those, when j comes before k by next_run_at
    passed,     \* one-shot jobs whose run_at has passed
    failures,   \* consecutive_failures of each job
    cooling,    \* jobs whose last run ended less than a backoff delay ago
    row,        \* rows of cron_runs
    task,       \* the asyncio task of each run
    jobOf,      \* the job of each live run
    seen,       \* consecutive_failures in the CronJob its task was given
    manual,     \* the runs that run_now started
    up,         \* is the daemon running?
    calls,      \* calls made so far, see MaxCalls
    fired       \* history: scheduled runs of each one-shot job, counted up to 2

jobVars == <<job, planned, due, ahead, passed, failures, cooling>>
runVars == <<row, task, jobOf, seen, manual>>
vars == <<jobVars, runVars, up, calls, fired>>

Exists(j) == job[j] \in {"enabled", "disabled"}
Live == {r \in Runs : row[r] # "none" \/ task[r] # "none"}
Running == {r \in Runs : row[r] = "running"}
Free == Runs \ Live

\* The fresh identities for the runs of the jobs in S: the lowest that are free.
FreshRuns(S) ==
    {new \in [S -> Free] :
        /\ IsInjective(new)
        /\ \A r \in Free, j \in S : r < new[j] => \E k \in S : new[k] = r}

TypeOK ==
    /\ job \in [Jobs -> {"new", "enabled", "disabled", "deleted"}]
    /\ planned \subseteq {j \in Jobs : Exists(j)}
    /\ due \subseteq {j \in Jobs : Exists(j)}
    /\ planned \cap due = {}
    /\ ahead \subseteq due \X due
    /\ passed \subseteq Once /\ passed \cap planned = {}
    /\ failures \in [Jobs -> 0..MaxFailures]
    /\ cooling \subseteq {j \in Jobs : failures[j] > 0}
    /\ row \in [Runs -> {"none", "pending", "running"}]
    /\ task \in [Runs -> {"none", "queued", "executing"}]
    /\ jobOf \in [Runs -> Jobs \cup {NoJob}]
    /\ \A r \in Runs : jobOf[r] = NoJob <=> r \notin Live
    /\ \A r \in Runs : row[r] = "pending" => task[r] = "queued"
    /\ seen \in [Runs -> 0..MaxFailures]
    /\ manual \subseteq Live
    /\ up \in BOOLEAN
    /\ calls \in 0..MaxCalls
    /\ fired \in [Once -> 0..2]

Init ==
    /\ job = [j \in Jobs |-> "new"]
    /\ planned = {}
    /\ due = {}
    /\ ahead = {}
    /\ passed = {}
    /\ failures = [j \in Jobs |-> 0]
    /\ cooling = {}
    /\ row = [r \in Runs |-> "none"]
    /\ task = [r \in Runs |-> "none"]
    /\ jobOf = [r \in Runs |-> NoJob]
    /\ seen = [r \in Runs |-> 0]
    /\ manual = {}
    /\ up = TRUE
    /\ calls = 0
    /\ fired = [j \in Once |-> 0]

-----------------------------------------------------------------------------
(* Operators shared by several actions.                                    *)

UserCall == calls < MaxCalls /\ calls' = calls + 1

\* The jobs in S are not due any more, next_run_at being set anew or cleared.
Leave(S) ==
    /\ due' = due \ S
    /\ ahead' = {e \in ahead : e[1] \notin S /\ e[2] \notin S}

\* Mutation of HasNextRun: a one-shot job is planned again.
AlwaysHasNextRun(j) == TRUE

\* compute_next_run of an enabled job: none for a one-shot whose run_at has passed.
HasNextRun(j) == j \notin passed

\* Rows and tasks created for the runs that new maps from their jobs.
CreateRuns(new) ==
    LET S == {new[j] : j \in DOMAIN new}
        owner(r) == CHOOSE j \in DOMAIN new : new[j] = r
    IN  /\ row' = [r \in Runs |-> IF r \in S THEN "pending" ELSE row[r]]
        /\ task' = [r \in Runs |-> IF r \in S THEN "queued" ELSE task[r]]
        /\ jobOf' = [r \in Runs |-> IF r \in S THEN owner(r) ELSE jobOf[r]]
        /\ seen' = [r \in Runs |-> IF r \in S THEN failures[owner(r)] ELSE seen[r]]

\* The runs in S keep neither a row that counts nor a task.
Forget(S) ==
    /\ jobOf' = [r \in Runs |-> IF r \in S THEN NoJob ELSE jobOf[r]]
    /\ seen' = [r \in Runs |-> IF r \in S THEN 0 ELSE seen[r]]
    /\ manual' = manual \ S

-----------------------------------------------------------------------------
(* The check loop and the tasks it starts.                                 *)

\* Mutation of Slots: the runs already running are not counted.
AllSlots == MaxConcurrent

\* get_due_jobs, the first of them that fit in the free slots...
Slots == IF Cardinality(Running) >= MaxConcurrent THEN 0
         ELSE MaxConcurrent - Cardinality(Running)

Considered ==
    LET enabled == {j \in due : job[j] = "enabled"}
    IN  {j \in enabled : Cardinality({k \in enabled : <<k, j>> \in ahead}) < Slots}

\* ...and of those the ones not in backoff, each of which used up its slot.
Dispatched == Considered \ cooling

\* asyncio runs callbacks first in, first out: the tasks of a check have started
\* when the sleep that follows it is over.
CheckDueJobs ==
    /\ up
    /\ \A r \in Runs \ manual : task[r] # "queued"
    /\ Dispatched # {}
    /\ \E new \in FreshRuns(Dispatched) : CreateRuns(new)
    /\ Leave(Dispatched)
    /\ planned' = planned \cup {j \in Dispatched : HasNextRun(j)}
    /\ fired' = [j \in Once |-> IF j \in Dispatched /\ fired[j] < 2
                                THEN fired[j] + 1 ELSE fired[j]]
    /\ UNCHANGED <<job, passed, failures, cooling, manual, up, calls>>

\* CronExecutor.execute begins; the row may have been deleted meanwhile.
BeginRun(r) ==
    /\ task[r] = "queued"
    /\ task' = [task EXCEPT ![r] = "executing"]
    /\ row' = [row EXCEPT ![r] = IF @ = "pending" THEN "running" ELSE @]
    /\ UNCHANGED <<jobVars, jobOf, seen, manual, up, calls, fired>>

\* The action returns or raises; the counter is computed from the job as it was
\* dispatched, and nothing is written of a job that was deleted.
EndRun(r, ok) ==
    LET j == jobOf[r]
        count == IF ok THEN 0
                 ELSE IF seen[r] < MaxFailures THEN seen[r] + 1 ELSE MaxFailures
    IN  /\ task[r] = "executing"
        /\ task' = [task EXCEPT ![r] = "none"]
        /\ row' = [row EXCEPT ![r] = "none"]
        /\ Forget({r})
        /\ IF Exists(j)
           THEN /\ failures' = [failures EXCEPT ![j] = count]
                /\ cooling' = IF ok THEN cooling \ {j} ELSE cooling \cup {j}
           ELSE UNCHANGED <<failures, cooling>>
        /\ UNCHANGED <<job, planned, due, ahead, passed, up, calls, fired>>

\* Mutation of CleanupOldRuns: only rows that have ended are deleted.
CleanupEndedRuns ==
    /\ up
    /\ \E r \in Running : row[r] \in {"completed", "failed"}
    /\ UNCHANGED vars

\* cleanup_old_runs: rows a crash left running are deleted when they are old enough.
\* (No run is assumed to last cleanup_after_days.)
CleanupOldRuns ==
    /\ up
    /\ \E r \in Running :
        /\ task[r] = "none"
        /\ row' = [row EXCEPT ![r] = "none"]
        /\ Forget({r})
    /\ UNCHANGED <<jobVars, task, up, calls, fired>>

-----------------------------------------------------------------------------
(* The passing of time.                                                    *)

\* The next_run_at of a job passes, and so does the run_at of a one-shot job.
ComesDue(j) ==
    /\ j \in planned
    /\ planned' = planned \ {j}
    /\ due' = due \cup {j}
    /\ ahead' = ahead \cup (due \X {j})
    /\ passed' = passed \cup ({j} \cap Once)
    /\ UNCHANGED <<job, failures, cooling, runVars, up, calls, fired>>

\* The run_at of a one-shot job passes while nothing is scheduled for it.
RunAtPasses(j) ==
    /\ j \in Once \ (passed \cup planned)
    /\ passed' = passed \cup {j}
    /\ UNCHANGED <<job, planned, due, ahead, failures, cooling, runVars, up, calls, fired>>

BackoffElapses(j) ==
    /\ j \in cooling
    /\ cooling' = cooling \ {j}
    /\ UNCHANGED <<job, planned, due, ahead, passed, failures, runVars, up, calls, fired>>

-----------------------------------------------------------------------------
(* Users, agents, and the daemon's process.  Only run_now needs the        *)
(* daemon: the command line writes the database itself.                    *)

CreateJob(j, enabled) ==
    /\ job[j] = "new"
    /\ job' = [job EXCEPT ![j] = IF enabled THEN "enabled" ELSE "disabled"]
    /\ planned' = IF enabled /\ HasNextRun(j) THEN planned \cup {j} ELSE planned
    /\ UNCHANGED <<due, ahead, passed, failures, cooling, runVars, up, calls, fired>>

\* run_now looks at neither the schedule, the limit, nor the enabled flag.
RunNow(j) ==
    /\ UserCall
    /\ up
    /\ Exists(j)
    /\ \E new \in FreshRuns({j}) :
        /\ CreateRuns(new)
        /\ manual' = manual \cup {new[j]}
    /\ UNCHANGED <<jobVars, up, fired>>

\* Enabling recomputes next_run_at, disabling clears it.
ToggleJob(j) ==
    /\ UserCall
    /\ Exists(j)
    /\ Leave({j})
    /\ IF job[j] = "enabled"
       THEN /\ job' = [job EXCEPT ![j] = "disabled"]
            /\ planned' = planned \ {j}
       ELSE /\ job' = [job EXCEPT ![j] = "enabled"]
            /\ planned' = IF HasNextRun(j) THEN planned \cup {j} ELSE planned \ {j}
    /\ UNCHANGED <<passed, failures, cooling, runVars, up, fired>>

\* update_job(enabled=...), of `gobby cron edit` and PATCH: next_run_at stays as it is.
EditEnabled(j) ==
    /\ UserCall
    /\ Exists(j)
    /\ job' = [job EXCEPT ![j] = IF @ = "enabled" THEN "disabled" ELSE "enabled"]
    /\ UNCHANGED <<planned, due, ahead, passed, failures, cooling, runVars, up, fired>>

\* delete_job deletes the rows of the job's runs too, whatever they are doing.
DeleteJob(j) ==
    LET rowsOf == {r \in Runs : jobOf[r] = j}
    IN  /\ UserCall
        /\ Exists(j)
        /\ job' = [job EXCEPT ![j] = "deleted"]
        /\ planned' = planned \ {j}
        /\ Leave({j})
        /\ failures' = [failures EXCEPT ![j] = 0]
        /\ cooling' = cooling \ {j}
        /\ row' = [r \in Runs |-> IF r \in rowsOf THEN "none" ELSE row[r]]
        /\ Forget({r \in rowsOf : task[r] = "none"})
        /\ UNCHANGED <<passed, task, up, fired>>

\* The daemon dies, or stops: stop() is cut off after 2 s and cancels the tasks, and
\* CancelledError reaches no handler.  Nothing ever looks at their rows again.
Crash ==
    /\ UserCall
    /\ up
    /\ up' = FALSE
    /\ task' = [r \in Runs |-> "none"]
    /\ row' = [r \in Runs |-> IF row[r] = "pending" THEN "none" ELSE row[r]]
    /\ Forget(Runs \ Running)
    /\ UNCHANGED <<jobVars, fired>>

Restart ==
    /\ ~up
    /\ up' = TRUE
    /\ UNCHANGED <<jobVars, runVars, calls, fired>>

-----------------------------------------------------------------------------
RunStep(r) == BeginRun(r) \/ \E ok \in BOOLEAN : EndRun(r, ok)

JobStep(j) ==
    \/ ComesDue(j)
    \/ BackoffElapses(j)
    \/ \E enabled \in BOOLEAN : CreateJob(j, enabled)
    \/ RunNow(j)
    \/ ToggleJob(j)
    \/ EditEnabled(j)
    \/ DeleteJob(j)

Next ==
    \/ CheckDueJobs
    \/ \E r \in Runs : RunStep(r)
    \/ CleanupOldRuns
    \/ \E j \in Jobs : JobStep(j)
    \/ \E j \in Once : RunAtPasses(j)
    \/ Crash
    \/ Restart

Spec == Init /\ [][Next]_vars

\* The loops keep going round, the action of every run ends (it is a subprocess with
\* a timeout, a spawn, or a handler), backoffs elapse, rows get old, and a daemon
\* that is down is started again.
Fairness ==
    /\ WF_vars(CheckDueJobs)
    /\ \A r \in Runs : WF_vars(RunStep(r))
    /\ WF_vars(CleanupOldRuns)
    /\ \A j \in Jobs : WF_vars(BackoffElapses(j))
    /\ WF_vars(Restart)

FairSpec == Spec /\ Fairness

-----------------------------------------------------------------------------
(* Properties.                                                             *)

\* Runs the check loop started, whose row was not deleted under them, never exceed
\* max_concurrent_jobs, counting those that have not begun and those a crash left
\* running, whatever run_now, delete_job and restarts do in between.
ScheduledWithinLimit ==
    Cardinality({r \in Runs \ manual : row[r] # "none"}) <= MaxConcurrent

\* A one-shot job is dispatched by the check loop at most once, however it is toggled,
\* edited or caught by a crash.
OneShotFiresOnce == \A j \in Once : fired[j] <= 1

\* A due and enabled job is not starved, by the limit, by jobs in backoff ahead of it,
\* or by slots that a crash leaked.
DueJobsAreDispatched ==
    \A j \in Jobs :
        job[j] = "enabled" /\ j \in due ~> job[j] # "enabled" \/ j \notin due

\* What the tests say of the enabled flag: an enabled recurring job has a next_run_at.
EnabledIsScheduled ==
    \A j \in Jobs \ Once : job[j] = "enabled" => j \in planned \cup due
=============================================================================
