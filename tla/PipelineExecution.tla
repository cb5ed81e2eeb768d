------------------------- MODULE PipelineExecution -------------------------
(***************************************************************************)
(* One pipeline execution of gobby: its row in pipeline_executions, the    *)
(* rows of its steps, and everything that writes them - the coroutines     *)
(* running PipelineExecutor.execute (in the daemon's event loop, or in the *)
(* process of `gobby pipelines approve`), the approval gate, cancel_       *)
(* pipeline, resume_pipeline, the approval expiry loop, the heartbeat, and *)
(* the recovery after a restart.                                           *)
(*                                                                         *)
(* Each coroutine is a runner.  An action is what a runner does between    *)
(* two awaits that may suspend it (event broadcast, to_thread, the step's  *)
(* own work, agent kills); load_pipeline never suspends, so an approval    *)
(* runs on into execute until its first broadcast.                         *)
(***************************************************************************)
EXTENDS Naturals, FiniteSets

CONSTANTS
    N,                \* number of steps, in definition order
    Gated,            \* steps with approval.required
    Conditional,      \* steps with a condition, which may evaluate to false
    Runners,          \* slots for coroutines executing this run
    Clis,             \* those living in a CLI process, not in the daemon
    ResumeOnRestart,  \* the definition's resume_on_restart flag
    SlowSteps,        \* may a live run write no status for stall_threshold_seconds?
    OneAtATime,       \* do users leave a run alone while a coroutine executes it?
    MaxCalls          \* bound on user calls, crashes and killed CLI processes

Steps == 1..N

ASSUME StepsAssumption == N \in Nat \ {0} /\ Gated \subseteq Steps /\ Conditional \subseteq Steps
ASSUME RunnersAssumption == Clis \subseteq Runners
ASSUME FlagsAssumption ==
    /\ ResumeOnRestart \in BOOLEAN
    /\ SlowSteps \in BOOLEAN
    /\ OneAtATime \in BOOLEAN
    /\ MaxCalls \in Nat

ExecutionStatus == {"absent", "pending", "running", "waiting_approval", "completed",
                    "failed", "cancelled", "interrupted"}
StepStatus == {"absent", "pending", "running", "waiting_approval", "completed",
               "failed", "skipped", "cancelled"}

\* Statuses execute refuses to resume, and those cancel_pipeline refuses to cancel.
Terminal == {"completed", "cancelled"}
Uncancellable == {"completed", "failed", "cancelled"}

\* Mutation of Done: a step that waits at its gate counts as done.
DoneOrWaiting == {"completed", "skipped", "waiting_approval"}

\* Step rows that execute skips.
Done == {"completed", "skipped"}

VARIABLES
    execStatus,   \* status of the execution row ("absent" before run_pipeline)
    stepStatus,   \* status of each step row ("absent" before it is created)
    token,        \* the step rows that hold an approval_token
    pc,           \* where each runner is
    at,           \* the step it is at, 0 before the first
    snapshot,     \* the step rows it loaded when it began: existing_steps
    via,          \* "task": run by _execute_pipeline_background; "approval": by approve
    cancelling,   \* is a cancel_pipeline call killing the run's agents?
    daemonUp,     \* is the daemon running?
    announced,    \* outcomes the completion registry was notified of
    calls,        \* calls made so far, see MaxCalls
    cleared,      \* history: gates approved, or whose condition was false
    acted         \* history: steps whose action has begun

rows == <<execStatus, stepStatus, token>>
runnerVars == <<pc, at, snapshot, via>>
history == <<cleared, acted>>
vars == <<rows, runnerVars, cancelling, daemonUp, announced, calls, history>>

\* The awaits a runner can be suspended at, and the states between two runs.
RunnerPc ==
    {"idle",
     "queued",      \* created by asyncio.create_task, not started
     "begun",       \* broadcasting pipeline_started; existing_steps will be loaded
     "rebegun",     \* the same, for a run that was FAILED: nothing will be loaded
     "starting",    \* broadcasting step_started
     "acting",      \* in _execute_step
     "gating",      \* check_approval_gate between its two writes
     "next",        \* broadcasting step_completed or step_skipped
     "completing",  \* COMPLETED written, registry not yet notified
     "failing",     \* FAILED written, registry not yet notified
     "wrapping"}    \* exception on its way to _execute_pipeline_background

NoRows == [s \in Steps |-> "absent"]

RowTypes ==
    /\ execStatus \in ExecutionStatus
    /\ stepStatus \in [Steps -> StepStatus]
    /\ token \subseteq Gated

RunnerTypes ==
    /\ pc \in [Runners -> RunnerPc]
    /\ at \in [Runners -> 0..N]
    /\ snapshot \in [Runners -> [Steps -> StepStatus]]
    /\ via \in [Runners -> {"task", "approval"}]
    /\ \A r \in Runners : pc[r] \in {"starting", "acting", "gating"} => at[r] # 0

TypeOK ==
    /\ RowTypes
    /\ RunnerTypes
    /\ cancelling \in BOOLEAN
    /\ daemonUp \in BOOLEAN
    /\ announced \subseteq {"completed", "failed", "interrupted"}
    /\ calls \in Nat
    /\ cleared \subseteq Gated
    /\ acted \subseteq Steps

Init ==
    /\ execStatus = "absent"
    /\ stepStatus = NoRows
    /\ token = {}
    /\ pc = [r \in Runners |-> "idle"]
    /\ at = [r \in Runners |-> 0]
    /\ snapshot = [r \in Runners |-> NoRows]
    /\ via = [r \in Runners |-> "task"]
    /\ cancelling = FALSE
    /\ daemonUp = TRUE
    /\ announced = {}
    /\ calls = 0
    /\ cleared = {}
    /\ acted = {}

-----------------------------------------------------------------------------
(* Pieces of execute shared by several actions.                            *)

Goto(r, label) == pc' = [pc EXCEPT ![r] = label]
SetStep(s, status) == stepStatus' = [stepStatus EXCEPT ![s] = status]

\* A coroutine that ends leaves nothing behind.
Release(r) ==
    /\ Goto(r, "idle")
    /\ at' = [at EXCEPT ![r] = 0]
    /\ snapshot' = [snapshot EXCEPT ![r] = NoRows]
    /\ via' = [via EXCEPT ![r] = "task"]

\* The first segment of execute: a terminal run raises inside the try, and the
\* handler writes FAILED over it; any other run becomes RUNNING.
BeginExecute(r) ==
    IF execStatus \in Terminal
    THEN execStatus' = "failed" /\ Goto(r, "failing")
    ELSE /\ execStatus' = "running"
         /\ Goto(r, IF execStatus = "failed" THEN "rebegun" ELSE "begun")

UserCall == calls < MaxCalls /\ calls' = calls + 1

\* A user may start another coroutine for the run in slot r.
Free(r) == pc[r] = "idle" /\ (OneAtATime => \A q \in Runners : pc[q] = "idle")

\* existing_steps, loaded once when the loop begins and never refreshed.
ExistingSteps(r) ==
    CASE pc[r] = "begun"   -> stepStatus
      [] pc[r] = "rebegun" -> NoRows
      [] OTHER             -> snapshot[r]

\* Mutation of IsNextStep: the loop does not keep to the order of the steps.
IsSomeStep(r, s) ==
    /\ pc[r] \in {"begun", "rebegun", "next"}
    /\ s > at[r]
    /\ ExistingSteps(r)[s] \notin Done

\* s is the next step of the loop that is not skipped as already done.
IsNextStep(r, s) ==
    /\ pc[r] \in {"begun", "rebegun", "next"}
    /\ s > at[r]
    /\ ExistingSteps(r)[s] \notin Done
    /\ \A t \in Steps : at[r] < t /\ t < s => ExistingSteps(r)[t] \in Done

\* Mutation of RowClash: INSERT OR IGNORE, an existing row is taken over.
NeverClashes(r, s) == FALSE

\* create_step_execution violates UNIQUE(execution_id, step_id).
RowClash(r, s) == ExistingSteps(r)[s] = "absent" /\ stepStatus[s] # "absent"

-----------------------------------------------------------------------------
(* The runner.                                                             *)

\* A queued background task starts.
Start(r) ==
    /\ pc[r] = "queued"
    /\ BeginExecute(r)
    /\ UNCHANGED <<stepStatus, token, at, snapshot, via, cancelling, daemonUp, announced,
                   calls, history>>

\* The row to create exists already: the run fails, and no step is marked.
FailOnExistingRow(r) ==
    /\ \E s \in Steps : IsNextStep(r, s) /\ RowClash(r, s)
    /\ execStatus' = "failed"
    /\ Goto(r, "failing")
    /\ UNCHANGED <<stepStatus, token, at, snapshot, via, cancelling, daemonUp, announced,
                   calls, history>>

EnterStep(r, s) ==
    /\ IsNextStep(r, s)
    /\ ~RowClash(r, s)
    /\ at' = [at EXCEPT ![r] = s]
    /\ snapshot' = [snapshot EXCEPT ![r] = ExistingSteps(r)]

\* The condition of the next step is false.
SkipStep(r) ==
    \E s \in Conditional :
        /\ EnterStep(r, s)
        /\ SetStep(s, "skipped")
        /\ Goto(r, "next")
        /\ cleared' = cleared \cup ({s} \cap Gated)
        /\ UNCHANGED <<execStatus, token, via, cancelling, daemonUp, announced, calls, acted>>

StartStep(r) ==
    \E s \in Steps :
        /\ EnterStep(r, s)
        /\ SetStep(s, "running")
        /\ Goto(r, "starting")
        /\ UNCHANGED <<execStatus, token, via, cancelling, daemonUp, announced, calls, history>>

\* Mutation of WaitAtGate: any step waits, whether it requires an approval or not.
WaitAnyway(r) ==
    /\ pc[r] = "starting"
    /\ SetStep(at[r], "waiting_approval")
    /\ token' = token \cup {at[r]}
    /\ Goto(r, "gating")
    /\ UNCHANGED <<execStatus, at, snapshot, via, cancelling, daemonUp, announced, calls,
                   history>>

\* Mutation of WaitAtGate: the token is made, and never stored.
WaitWithoutToken(r) ==
    /\ pc[r] = "starting"
    /\ at[r] \in Gated
    /\ SetStep(at[r], "waiting_approval")
    /\ Goto(r, "gating")
    /\ UNCHANGED <<execStatus, token, at, snapshot, via, cancelling, daemonUp, announced,
                   calls, history>>

\* check_approval_gate, first write: the step waits, under a new token.
WaitAtGate(r) ==
    /\ pc[r] = "starting"
    /\ at[r] \in Gated
    /\ SetStep(at[r], "waiting_approval")
    /\ token' = token \cup {at[r]}
    /\ Goto(r, "gating")
    /\ UNCHANGED <<execStatus, at, snapshot, via, cancelling, daemonUp, announced, calls,
                   history>>

\* Mutation of PauseAtGate: ApprovalRequired is not raised, the loop goes on.
PauseAndGoOn(r) ==
    /\ pc[r] = "gating"
    /\ execStatus' = "waiting_approval"
    /\ Goto(r, "next")
    /\ UNCHANGED <<stepStatus, token, at, snapshot, via, cancelling, daemonUp, announced,
                   calls, history>>

\* Second write: the execution waits, and ApprovalRequired ends the coroutine.
PauseAtGate(r) ==
    /\ pc[r] = "gating"
    /\ execStatus' = "waiting_approval"
    /\ Release(r)
    /\ UNCHANGED <<stepStatus, token, cancelling, daemonUp, announced, calls, history>>

\* Mutation of Act: the gate is not consulted.
ActUnchecked(r) ==
    /\ pc[r] = "starting"
    /\ Goto(r, "acting")
    /\ acted' = acted \cup {at[r]}
    /\ UNCHANGED <<rows, at, snapshot, via, cancelling, daemonUp, announced, calls, cleared>>

\* The step has no gate: its action begins.
Act(r) ==
    /\ pc[r] = "starting"
    /\ at[r] \notin Gated
    /\ Goto(r, "acting")
    /\ acted' = acted \cup {at[r]}
    /\ UNCHANGED <<rows, at, snapshot, via, cancelling, daemonUp, announced, calls, cleared>>

StepSucceeds(r) ==
    /\ pc[r] = "acting"
    /\ SetStep(at[r], "completed")
    /\ Goto(r, "next")
    /\ UNCHANGED <<execStatus, token, at, snapshot, via, cancelling, daemonUp, announced,
                   calls, history>>

\* The action raises, times out or exits non-zero; handled without an await.
StepFails(r) ==
    /\ pc[r] = "acting"
    /\ SetStep(at[r], "failed")
    /\ execStatus' = "failed"
    /\ Goto(r, "failing")
    /\ UNCHANGED <<token, at, snapshot, via, cancelling, daemonUp, announced, calls, history>>

\* Mutation of Finish: the rows that failed are not looked at.
FinishUnchecked(r) ==
    /\ pc[r] \in {"begun", "rebegun", "next"}
    /\ \A s \in Steps : s > at[r] => ExistingSteps(r)[s] \in Done
    /\ execStatus' = "completed"
    /\ Goto(r, "completing")
    /\ UNCHANGED <<stepStatus, token, at, snapshot, via, cancelling, daemonUp, announced,
                   calls, history>>

\* No step is left: the run completes, unless some row is FAILED.
Finish(r) ==
    /\ pc[r] \in {"begun", "rebegun", "next"}
    /\ \A s \in Steps : s > at[r] => ExistingSteps(r)[s] \in Done
    /\ IF \E s \in Steps : stepStatus[s] = "failed"
       THEN execStatus' = "failed" /\ Goto(r, "failing")
       ELSE execStatus' = "completed" /\ Goto(r, "completing")
    /\ UNCHANGED <<stepStatus, token, at, snapshot, via, cancelling, daemonUp, announced,
                   calls, history>>

\* Subscribers of the run are notified; a CLI process has no registry.
Announced(r, outcome) == IF r \in Clis THEN announced ELSE announced \cup {outcome}

AnnounceCompleted(r) ==
    /\ pc[r] = "completing"
    /\ announced' = Announced(r, "completed")
    /\ Release(r)
    /\ UNCHANGED <<rows, cancelling, daemonUp, calls, history>>

\* approve swallows the exception; the background task's wrapper handles it once more.
AnnounceFailed(r) ==
    /\ pc[r] = "failing"
    /\ announced' = Announced(r, "failed")
    /\ IF via[r] = "task"
       THEN Goto(r, "wrapping") /\ UNCHANGED <<at, snapshot, via>>
       ELSE Release(r)
    /\ UNCHANGED <<rows, cancelling, daemonUp, calls, history>>

\* _execute_pipeline_background marks what is still RUNNING, and the run, FAILED.
WrapFailure(r) ==
    /\ pc[r] = "wrapping"
    /\ stepStatus' = [s \in Steps |->
                        IF stepStatus[s] = "running" THEN "failed" ELSE stepStatus[s]]
    /\ execStatus' = "failed"
    /\ Release(r)
    /\ UNCHANGED <<token, cancelling, daemonUp, announced, calls, history>>

-----------------------------------------------------------------------------
(* Calls of users, agents and other processes.                             *)

RunPipeline(r) ==
    /\ execStatus = "absent"
    /\ r \notin Clis
    /\ pc[r] = "idle"
    /\ daemonUp
    /\ execStatus' = "pending"
    /\ Goto(r, "queued")
    /\ UNCHANGED <<stepStatus, token, at, snapshot, via, cancelling, daemonUp, announced,
                   calls, history>>

\* Whoever holds the token approves, whatever became of the step and of the run.
Approve(r, s) ==
    /\ UserCall
    /\ s \in token
    /\ Free(r)
    /\ daemonUp \/ r \in Clis
    /\ SetStep(s, "completed")
    /\ cleared' = cleared \cup {s}
    /\ via' = [via EXCEPT ![r] = "approval"]
    /\ BeginExecute(r)
    /\ UNCHANGED <<token, at, snapshot, cancelling, daemonUp, announced, acted>>

\* Rejection works through the daemon and through the CLI alike.
Reject(s) ==
    /\ UserCall
    /\ s \in token
    /\ SetStep(s, "failed")
    /\ execStatus' = "cancelled"
    /\ UNCHANGED <<token, runnerVars, cancelling, daemonUp, announced, history>>

\* cancel_pipeline checks the status, then awaits the kill of the run's agents...
BeginCancel ==
    /\ UserCall
    /\ daemonUp
    /\ ~cancelling
    /\ execStatus \notin Uncancellable \cup {"absent"}
    /\ cancelling' = TRUE
    /\ UNCHANGED <<rows, runnerVars, daemonUp, announced, history>>

\* ...and writes whatever the status has become; the coroutine is not stopped.
FinishCancel ==
    /\ cancelling
    /\ cancelling' = FALSE
    /\ stepStatus' = [s \in Steps |-> IF stepStatus[s] \in {"running", "pending"}
                                      THEN "cancelled" ELSE stepStatus[s]]
    /\ execStatus' = "cancelled"
    /\ UNCHANGED <<token, runnerVars, daemonUp, announced, calls, history>>

\* resume_pipeline, from any step that has a row (the first FAILED one by default).
Resume(r, from) ==
    /\ UserCall
    /\ daemonUp
    /\ r \notin Clis
    /\ Free(r)
    /\ execStatus = "failed"
    /\ stepStatus[from] # "absent"
    /\ stepStatus' = [s \in Steps |-> IF s >= from /\ stepStatus[s] # "absent"
                                      THEN "pending" ELSE stepStatus[s]]
    /\ token' = {s \in token : s < from}
    /\ execStatus' = "running"
    /\ Goto(r, "queued")
    /\ UNCHANGED <<at, snapshot, via, cancelling, daemonUp, announced, history>>

-----------------------------------------------------------------------------
(* The daemon's own loops, its crash and its restart.                      *)

\* expire_approval_timeouts_loop: a step waited longer than its timeout.
ExpireApproval(s) ==
    /\ daemonUp
    /\ stepStatus[s] = "waiting_approval"
    /\ SetStep(s, "failed")
    /\ execStatus' = "cancelled"
    /\ UNCHANGED <<token, runnerVars, cancelling, daemonUp, announced, calls, history>>

\* Mutation of HeartbeatFails: it looks for runs that are still PENDING.
HeartbeatFailsPending ==
    /\ daemonUp
    /\ execStatus = "pending"
    /\ SlowSteps \/ \A r \in Runners : pc[r] = "idle"
    /\ execStatus' = "failed"
    /\ UNCHANGED <<stepStatus, token, runnerVars, cancelling, daemonUp, announced, calls,
                   history>>

\* PipelineHeartbeat: RUNNING, not updated for a while, no agent alive.  (With an
\* agent alive it rewrites RUNNING over RUNNING, which changes nothing here.)
HeartbeatFails ==
    /\ daemonUp
    /\ execStatus = "running"
    /\ SlowSteps \/ \A r \in Runners : pc[r] = "idle"
    /\ execStatus' = "failed"
    /\ UNCHANGED <<stepStatus, token, runnerVars, cancelling, daemonUp, announced, calls,
                   history>>

\* The coroutines of the daemon vanish; CancelledError reaches no handler.
Crash ==
    /\ UserCall
    /\ daemonUp
    /\ daemonUp' = FALSE
    /\ cancelling' = FALSE
    /\ pc' = [r \in Runners |-> IF r \in Clis THEN pc[r] ELSE "idle"]
    /\ at' = [r \in Runners |-> IF r \in Clis THEN at[r] ELSE 0]
    /\ snapshot' = [r \in Runners |-> IF r \in Clis THEN snapshot[r] ELSE NoRows]
    /\ via' = [r \in Runners |-> IF r \in Clis THEN via[r] ELSE "task"]
    /\ UNCHANGED <<rows, announced, history>>

KillCli(r) ==
    /\ UserCall
    /\ r \in Clis
    /\ pc[r] # "idle"
    /\ Release(r)
    /\ UNCHANGED <<rows, cancelling, daemonUp, announced, history>>

\* A restart finds the run RUNNING: it is queued again from its stored inputs...
RestartAndResume(r) ==
    /\ ~daemonUp
    /\ execStatus = "running"
    /\ ResumeOnRestart
    /\ r \notin Clis
    /\ pc[r] = "idle"
    /\ daemonUp' = TRUE
    /\ Goto(r, "queued")
    /\ UNCHANGED <<rows, at, snapshot, via, cancelling, announced, calls, history>>

\* ...or interrupted, its subscribers notified; any other run is left alone.
Restart ==
    /\ ~daemonUp
    /\ daemonUp' = TRUE
    /\ IF execStatus = "running" /\ ~ResumeOnRestart
       THEN /\ execStatus' = "interrupted"
            /\ stepStatus' = [s \in Steps |->
                                IF stepStatus[s] = "running" THEN "failed" ELSE stepStatus[s]]
            /\ announced' = announced \cup {"interrupted"}
       ELSE /\ execStatus # "running"
            /\ UNCHANGED <<execStatus, stepStatus, announced>>
    /\ UNCHANGED <<token, runnerVars, cancelling, calls, history>>

-----------------------------------------------------------------------------
RunnerStep(r) ==
    \/ Start(r)
    \/ FailOnExistingRow(r)
    \/ SkipStep(r)
    \/ StartStep(r)
    \/ WaitAtGate(r)
    \/ PauseAtGate(r)
    \/ Act(r)
    \/ StepSucceeds(r)
    \/ StepFails(r)
    \/ Finish(r)
    \/ AnnounceCompleted(r)
    \/ AnnounceFailed(r)
    \/ WrapFailure(r)

RestartStep == Restart \/ \E r \in Runners : RestartAndResume(r)

Next ==
    \/ \E r \in Runners : RunnerStep(r)
    \/ \E r \in Runners : RunPipeline(r)
    \/ \E r \in Runners, s \in Gated : Approve(r, s)
    \/ \E s \in Gated : Reject(s)
    \/ BeginCancel
    \/ FinishCancel
    \/ \E r \in Runners, from \in Steps : Resume(r, from)
    \/ \E s \in Gated : ExpireApproval(s)
    \/ HeartbeatFails
    \/ Crash
    \/ \E r \in Runners : KillCli(r)
    \/ RestartStep

Spec == Init /\ [][Next]_vars

\* The event loop schedules every coroutine, every step's work ends (exec and
\* wait steps carry a timeout), the daemon is restarted, the heartbeat ticks.
Fairness ==
    /\ \A r \in Runners : WF_vars(RunnerStep(r))
    /\ WF_vars(RestartStep)
    /\ WF_vars(HeartbeatFails)

FairSpec == Spec /\ Fairness

-----------------------------------------------------------------------------
(* What every interleaving of runners, calls and crashes preserves.        *)

\* No step acts before every gate up to it has been approved, or skipped by its
\* own condition, however many coroutines run, resume or restart the execution.
GatesHold == \A s \in acted, g \in Gated : g <= s => g \in cleared

\* A run reported completed, in its row or to its subscribers, has every gate cleared.
CompletedMeansCleared ==
    execStatus = "completed" \/ "completed" \in announced => Gated \subseteq cleared

\* Step rows are created in definition order even by two coroutines with different
\* snapshots: reset_steps_from takes "ORDER BY id" for "this step and all later ones".
RowsInOrder ==
    \A s, t \in Steps : s < t /\ stepStatus[t] # "absent" => stepStatus[s] # "absent"

\* The execution implements the contract of its gates.
Contract == INSTANCE PipelineContract WITH completed <- execStatus = "completed"
ImplementsContract == Contract!Spec

-----------------------------------------------------------------------------
(* What holds while one coroutine at a time executes the run.              *)

\* The row says COMPLETED only when every step is COMPLETED or SKIPPED.
CompletedMeansDone == execStatus = "completed" => \A s \in Steps : stepStatus[s] \in Done

\* What is COMPLETED or SKIPPED stays so, and is never executed again, unless its gate
\* is rejected or resume_pipeline resets it: no crash, expiry, cancellation, heartbeat
\* or late approval makes the coroutine that follows repeat it.
DoneStaysDone ==
    [][\A s \in Steps :
        stepStatus[s] \in Done /\ stepStatus'[s] \notin Done =>
            \/ stepStatus'[s] = "failed" /\ s \in token /\ execStatus' = "cancelled"
            \/ stepStatus'[s] = "pending" /\ execStatus = "failed"]_vars

\* A run paused at a gate always leaves somebody a token to move it with.
PausedIsApprovable == execStatus = "waiting_approval" => token # {}

\* A run does not stay RUNNING for ever: it ends, pauses, or is found by the restart
\* or by the heartbeat, even when the coroutine that ran it is gone.
RunSettles == execStatus = "running" ~> execStatus # "running"

-----------------------------------------------------------------------------
(* What the repository says of a run, and the code does not do.            *)

\* A COMPLETED or CANCELLED run is terminal.
TerminalIsFinal == [][(execStatus \in Terminal) => UNCHANGED execStatus]_vars

\* A completed run has executed the action of each step it did not skip.
CompletedStepsActed ==
    execStatus = "completed" => \A s \in Steps : stepStatus[s] = "skipped" \/ s \in acted

\* A FAILED run that is executed again re-executes its steps.
FailedRunReexecutes ==
    [][\A r \in Runners : pc[r] = "rebegun" => pc'[r] # "failing"]_vars
=============================================================================
