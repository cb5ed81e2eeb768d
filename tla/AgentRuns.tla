------------------------------ MODULE AgentRuns ------------------------------
(***************************************************************************)
(* The agents of one task.  spawn_agent starts an agent in a tmux session  *)
(* and claims the task for it; hooks of the agent's own command line, the  *)
(* lifecycle monitor, the tmux pane monitor, the health check after a      *)
(* spawn, and kill_agent all end runs; the lifecycle monitor and the       *)
(* heartbeat give the task back.  They are coroutines of one event loop,   *)
(* threads of asyncio.to_thread and hook threads, they read rows, await,   *)
(* and then write what they concluded.  The agents survive the daemon.     *)
(*                                                                         *)
(* The child session of a run is named by the run.                         *)
(***************************************************************************)
EXTENDS Naturals

CONSTANTS
    MaxRuns,        \* runs ever spawned (bound)
    Users,          \* interactive sessions
    Nobody,         \* assignee NULL
    Isolated,       \* runs whose spawn_agent call creates a worktree or a clone first
    EscalateAfter,  \* failures of agents that escalate a task (3 in the code)
    MaxCalls        \* bound on calls of users and agents, lost launches and crashes

Runs == 1..MaxRuns
Sessions == Runs \cup Users

ASSUME AgentAssumption ==
    /\ MaxRuns \in Nat
    /\ Users \cap Runs = {}
    /\ Nobody \notin Sessions
    /\ Isolated \subseteq Runs
    /\ EscalateAfter \in Nat \ {0}
    /\ MaxCalls \in Nat

VARIABLES
    runStatus,   \* agent_runs.status ("absent" before the row exists)
    process,     \* the agent's process in its tmux session
    session,     \* "alive" as the heartbeat understands it, or "ended"
    spawn,       \* how far the spawn_agent call of the run has come
    health,      \* runs whose deferred health check is outstanding
    hook,        \* the hook thread of the run: which write is outstanding
    kill,        \* outcome that an outstanding kill_agent call will write
    taskStatus, assignee, failures,   \* the task's row
    monitor,     \* the lifecycle monitor: where it is, with which run
    listed,      \* runs of its list_active it has not looked at yet
    heartbeat,   \* check_stale_tasks: where it is, the assignee it read
    pane,        \* the pane monitor: tmux sessions it saw alive
    disowned,    \* history: runs ended in the database alone
    daemonUp,
    calls

task == <<taskStatus, assignee, failures>>
agent == <<runStatus, process, session, disowned>>
hooks == <<spawn, health, hook, kill>>
loops == <<monitor, listed, heartbeat, pane>>
daemon == <<daemonUp, calls>>
vars == <<task, agent, hooks, loops, daemon>>

RunStatus ==
    {"absent", "pending", "running", "success", "error", "timeout", "cancelled"}
TaskStatus ==
    {"open", "in_progress", "needs_review", "review_approved", "escalated", "closed"}

MonitorIdle == [at |-> "idle", run |-> 0, count |-> 0]
HeartbeatIdle == [at |-> "idle", assignee |-> Nobody]
PaneIdle == [at |-> "idle", alive |-> {}]

TaskTypes ==
    /\ taskStatus \in TaskStatus
    /\ assignee \in Sessions \cup {Nobody}
    /\ failures \in 0..(EscalateAfter - 1)

AgentTypes ==
    /\ runStatus \in [Runs -> RunStatus]
    /\ process \in [Runs -> {"none", "alive", "dead"}]
    /\ session \in [Sessions -> {"none", "alive", "ended"}]
    /\ disowned \subseteq Runs

HookTypes ==
    /\ spawn \in [Runs -> {"free", "preparing", "recorded", "lost", "failed"}]
    /\ health \subseteq Runs
    /\ hook \in [Runs -> {"none", "starting", "ending"}]
    /\ kill \in [Runs -> {"none", "success", "cancelled", "error"}]

MonitorTypes ==
    /\ monitor \in [at : {"idle", "scanning", "failing", "reading", "writing", "expiring"},
                    run : Runs \cup {0}, count : 0..(EscalateAfter - 1)]
    /\ monitor.at \in {"failing", "reading", "writing", "expiring"} => monitor.run # 0
    /\ listed \subseteq Runs

HeartbeatTypes ==
    /\ heartbeat \in [at : {"idle", "listed", "checking", "resetting"},
                      assignee : Sessions \cup {Nobody}]
    /\ heartbeat.at # "idle" => heartbeat.assignee # Nobody
    /\ pane \in [at : {"idle", "listed"}, alive : SUBSET Runs]

TypeOK ==
    /\ TaskTypes
    /\ AgentTypes
    /\ HookTypes
    /\ MonitorTypes
    /\ HeartbeatTypes
    /\ daemonUp \in BOOLEAN
    /\ calls \in Nat

Init ==
    /\ runStatus = [r \in Runs |-> "absent"]
    /\ process = [r \in Runs |-> "none"]
    /\ session = [s \in Sessions |-> IF s \in Users THEN "alive" ELSE "none"]
    /\ spawn = [r \in Runs |-> "free"]
    /\ health = {}
    /\ hook = [r \in Runs |-> "none"]
    /\ kill = [r \in Runs |-> "none"]
    /\ taskStatus = "open"
    /\ assignee = Nobody
    /\ failures = 0
    /\ monitor = MonitorIdle
    /\ listed = {}
    /\ heartbeat = HeartbeatIdle
    /\ pane = PaneIdle
    /\ disowned = {}
    /\ daemonUp = TRUE
    /\ calls = 0

Call == calls < MaxCalls /\ calls' = calls + 1

Active(r) == runStatus[r] \in {"pending", "running"}
ActiveRuns == {r \in Runs : Active(r)}

SetRun(r, status) == runStatus' = [runStatus EXCEPT ![r] = status]
SetSession(s, status) == session' = [session EXCEPT ![s] = status]
Killed(r) == [process EXCEPT ![r] = "dead"]

-----------------------------------------------------------------------------
(* spawn_agent                                                             *)

\* The child session and the row are created, then the tmux session; its name is stored,
\* the task claimed and a health check scheduled.  All of it blocks the event loop.  If
\* tmux fails, the row is written off.  If tmux takes 30 seconds, or the daemon dies here,
\* the row is left as it is, whatever becomes of the process.
Launch(r) ==
    /\ SetSession(r, "alive")
    /\ \/ /\ SetRun(r, "pending")
          /\ process' = [process EXCEPT ![r] = "alive"]
          /\ spawn' = [spawn EXCEPT ![r] = "recorded"]
          /\ health' = health \cup {r}
          /\ taskStatus' = IF taskStatus = "open" THEN "in_progress" ELSE taskStatus
          /\ assignee' = r
          /\ UNCHANGED calls
       \/ /\ SetRun(r, "error")
          /\ spawn' = [spawn EXCEPT ![r] = "failed"]
          /\ UNCHANGED <<process, health, taskStatus, assignee, calls>>
       \/ /\ Call
          /\ SetRun(r, "pending")
          /\ process' \in {process, [process EXCEPT ![r] = "alive"]}
          /\ spawn' = [spawn EXCEPT ![r] = "lost"]
          /\ UNCHANGED <<health, taskStatus, assignee>>

NotLaunched(r, stage) ==
    /\ spawn' = [spawn EXCEPT ![r] = stage]
    /\ UNCHANGED <<taskStatus, assignee, runStatus, process, session, health, calls>>

\* The dedup check, and what follows it up to the first await.  Ids are fresh: which slot
\* is taken does not matter.
SpawnAgent(r) ==
    /\ daemonUp
    /\ spawn[r] = "free"
    /\ \A q \in Runs : q < r => spawn[q] # "free"
    /\ ActiveRuns = {}
    /\ IF r \in Isolated THEN NotLaunched(r, "preparing") ELSE Launch(r)
    /\ UNCHANGED <<failures, disowned, hook, kill, loops, daemonUp>>

\* The worktree exists, or could not be created.
FinishPreparing(r) ==
    /\ spawn[r] = "preparing"
    /\ Launch(r) \/ NotLaunched(r, "failed")
    /\ UNCHANGED <<failures, disowned, hook, kill, loops, daemonUp>>

\* Half a second later: a tmux session that is gone fails the run, whatever its status.
HealthCheck(r) ==
    /\ r \in health
    /\ health' = health \ {r}
    /\ IF process[r] = "dead" THEN SetRun(r, "error") ELSE UNCHANGED runStatus
    /\ UNCHANGED <<task, process, session, disowned, spawn, hook, kill, loops, daemon>>

-----------------------------------------------------------------------------
(* The agent's process, and the hook threads that serve it.                *)

\* The agent dies without a word: a crash, or a hook that reaches no daemon.
Die(r) ==
    /\ process[r] = "alive"
    /\ process' = Killed(r)
    /\ UNCHANGED <<task, runStatus, session, disowned, hooks, loops, daemon>>

\* SessionStart, of a new or a compacted session: it is active, and if the run is
\* pending...
BeginStart(r) ==
    /\ daemonUp
    /\ process[r] = "alive"
    /\ hook[r] = "none"
    /\ SetSession(r, "alive")
    /\ hook' = IF runStatus[r] = "pending" THEN [hook EXCEPT ![r] = "starting"] ELSE hook
    /\ UNCHANGED <<task, runStatus, process, disowned, spawn, health, kill, loops, daemon>>

\* ...and writes RUNNING over whatever it has become.
FinishStart(r) ==
    /\ hook[r] = "starting"
    /\ SetRun(r, "running")
    /\ hook' = [hook EXCEPT ![r] = "none"]
    /\ UNCHANGED <<task, process, session, disowned, spawn, health, kill, loops, daemon>>

\* SessionEnd: the agent exits; a run that has ended already is only announced.
BeginEnd(r) ==
    /\ daemonUp
    /\ process[r] = "alive"
    /\ hook[r] = "none"
    /\ process' = Killed(r)
    /\ IF Active(r)
       THEN hook' = [hook EXCEPT ![r] = "ending"] /\ UNCHANGED session
       ELSE SetSession(r, "ended") /\ UNCHANGED hook
    /\ UNCHANGED <<task, runStatus, disowned, spawn, health, kill, loops, daemon>>

\* After the pane was captured and closed: success, or an error if there was no activity.
FinishEnd(r) ==
    /\ hook[r] = "ending"
    /\ \E status \in {"success", "error"} : SetRun(r, status)
    /\ SetSession(r, "ended")
    /\ hook' = [hook EXCEPT ![r] = "none"]
    /\ UNCHANGED <<task, process, disowned, spawn, health, kill, loops, daemon>>

-----------------------------------------------------------------------------
(* kill_agent and stop_agent                                               *)

\* The process is killed, by the agent itself or by another session; without a pid in the
\* row it is looked for...
BeginKill(r, outcome) ==
    /\ Call
    /\ daemonUp
    /\ spawn[r] = "recorded" \/ process[r] = "alive"
    /\ kill[r] = "none"
    /\ process' = Killed(r)
    /\ kill' = [kill EXCEPT ![r] = outcome]
    /\ UNCHANGED <<task, runStatus, session, disowned, spawn, health, hook, loops, daemonUp>>

\* ...then the row is written: "error" always, the others if the run is active still.
FinishKill(r) ==
    /\ kill[r] # "none"
    /\ IF Active(r) \/ kill[r] = "error" THEN SetRun(r, kill[r]) ELSE UNCHANGED runStatus
    /\ SetSession(r, "ended")
    /\ kill' = [kill EXCEPT ![r] = "none"]
    /\ UNCHANGED <<task, process, disowned, spawn, health, hook, loops, daemon>>

\* "This only updates the database status - it does NOT kill the actual process."
StopAgent(r) ==
    /\ Call
    /\ daemonUp
    /\ Active(r)
    /\ SetRun(r, "cancelled")
    /\ SetSession(r, "ended")
    /\ disowned' = disowned \cup {r}
    /\ UNCHANGED <<task, process, hooks, loops, daemonUp>>

-----------------------------------------------------------------------------
(* The lifecycle monitor: one coroutine, one run after the other.          *)

Goto(place) == monitor' = [monitor EXCEPT !.at = place]

\* Mutation of ListActive: list_running in the place of list_active.
ListRunning ==
    /\ daemonUp
    /\ monitor.at = "idle"
    /\ listed' = {r \in ActiveRuns : runStatus[r] = "running"}
    /\ listed' # {}
    /\ Goto("scanning")
    /\ UNCHANGED <<task, agent, hooks, heartbeat, pane, daemon>>

\* A run is looked at if its tmux name is known, or if it has a start to time out from.
ListActive ==
    /\ daemonUp
    /\ monitor.at = "idle"
    /\ listed' = {r \in ActiveRuns : spawn[r] = "recorded" \/ runStatus[r] = "running"}
    /\ listed' # {}
    /\ Goto("scanning")
    /\ UNCHANGED <<task, agent, hooks, heartbeat, pane, daemon>>

\* Nothing is wrong with the run.
Pass(r) ==
    /\ monitor.at = "scanning"
    /\ r \in listed
    /\ process[r] = "alive" \/ spawn[r] # "recorded"
    /\ listed' = listed \ {r}
    /\ UNCHANGED <<task, agent, hooks, monitor, heartbeat, pane, daemon>>

\* Mutation of Condemn: the run is failed, its process is left alone.
CondemnInDatabase(r) ==
    /\ monitor.at = "scanning"
    /\ r \in listed
    /\ listed' = listed \ {r}
    /\ monitor' = [monitor EXCEPT !.at = "failing", !.run = r]
    /\ UNCHANGED <<task, agent, hooks, heartbeat, pane, daemon>>

\* Its session is gone, or it is late, idle, stalled or looping: it is killed, if the row
\* says where it runs.
Condemn(r) ==
    /\ monitor.at = "scanning"
    /\ r \in listed
    /\ listed' = listed \ {r}
    /\ monitor' = [monitor EXCEPT !.at = "failing", !.run = r]
    /\ IF spawn[r] = "recorded"
       THEN process' = Killed(r) /\ UNCHANGED disowned
       ELSE disowned' = disowned \cup {r} /\ UNCHANGED process
    /\ UNCHANGED <<task, runStatus, session, hooks, heartbeat, pane, daemon>>

\* _cleanup_agent fails the run because it was active when it was listed...
FailRun ==
    /\ monitor.at = "failing"
    /\ SetRun(monitor.run, "error")
    /\ Goto("reading")
    /\ UNCHANGED <<task, process, session, disowned, hooks, listed, heartbeat, pane, daemon>>

\* ...looks whether its task is in progress...
ReadTask ==
    /\ monitor.at = "reading"
    /\ monitor' = IF taskStatus = "in_progress"
                  THEN [monitor EXCEPT !.at = "writing", !.count = failures]
                  ELSE [monitor EXCEPT !.at = "expiring"]
    /\ UNCHANGED <<task, agent, hooks, listed, heartbeat, pane, daemon>>

\* Mutation of Escalates: one failure too late.
EscalatesLate(blame) == blame = 1 /\ monitor.count + 1 > EscalateAfter

\* Failures of the provider (blame = 0) do not count.
Escalates(blame) == blame = 1 /\ monitor.count + 1 >= EscalateAfter

\* Mutation of WriteTask: only an escalation takes the task from the agent.
WriteCountOnly ==
    /\ monitor.at = "writing"
    /\ \E blame \in {0, 1} :
          IF Escalates(blame)
          THEN taskStatus' = "escalated" /\ assignee' = Nobody /\ failures' = 0
          ELSE failures' = monitor.count + blame /\ UNCHANGED <<taskStatus, assignee>>
    /\ Goto("expiring")
    /\ UNCHANGED <<agent, hooks, listed, heartbeat, pane, daemon>>

\* ...and gives it back, or escalates it.
WriteTask ==
    /\ monitor.at = "writing"
    /\ \E blame \in {0, 1} :
          IF Escalates(blame)
          THEN taskStatus' = "escalated" /\ failures' = 0
          ELSE taskStatus' = "open" /\ failures' = monitor.count + blame
    /\ assignee' = Nobody
    /\ Goto("expiring")
    /\ UNCHANGED <<agent, hooks, listed, heartbeat, pane, daemon>>

ExpireSession ==
    /\ monitor.at = "expiring"
    /\ SetSession(monitor.run, "ended")
    /\ Goto("scanning")
    /\ UNCHANGED <<task, runStatus, process, disowned, hooks, listed, heartbeat, pane, daemon>>

\* The end of a pass.  Every tenth one runs cleanup_stale_runs: what has been running for
\* too long is timed out in the database.
EndScan ==
    /\ monitor.at = "scanning"
    /\ listed = {}
    /\ monitor' = MonitorIdle
    /\ \E late \in SUBSET {r \in Runs : runStatus[r] = "running"} :
          /\ runStatus' = [r \in Runs |-> IF r \in late THEN "timeout" ELSE runStatus[r]]
          /\ session' = [s \in Sessions |-> IF s \in late THEN "ended" ELSE session[s]]
          /\ disowned' = disowned \cup late
    /\ UNCHANGED <<task, process, hooks, listed, heartbeat, pane, daemon>>

MonitorStep ==
    \/ ListActive
    \/ \E r \in Runs : Pass(r) \/ Condemn(r)
    \/ FailRun
    \/ ReadTask
    \/ WriteTask
    \/ ExpireSession
    \/ EndScan

-----------------------------------------------------------------------------
(* The heartbeat's search for stale tasks, and the pane monitor.           *)

ListStaleTask ==
    /\ daemonUp
    /\ heartbeat.at = "idle"
    /\ taskStatus = "in_progress"
    /\ assignee # Nobody
    /\ heartbeat' = [at |-> "listed", assignee |-> assignee]
    /\ UNCHANGED <<task, agent, hooks, monitor, listed, pane, daemon>>

CheckActiveRun ==
    /\ heartbeat.at = "listed"
    /\ heartbeat' = IF ActiveRuns = {} THEN [heartbeat EXCEPT !.at = "checking"]
                    ELSE HeartbeatIdle
    /\ UNCHANGED <<task, agent, hooks, monitor, listed, pane, daemon>>

\* Mutation of CheckSession: the session of an agent always counts as alive.
CheckUsersSession ==
    /\ heartbeat.at = "checking"
    /\ heartbeat' = IF heartbeat.assignee \in Users /\ session[heartbeat.assignee] # "alive"
                    THEN [heartbeat EXCEPT !.at = "resetting"] ELSE HeartbeatIdle
    /\ UNCHANGED <<task, agent, hooks, monitor, listed, pane, daemon>>

CheckSession ==
    /\ heartbeat.at = "checking"
    /\ heartbeat' = IF session[heartbeat.assignee] # "alive"
                    THEN [heartbeat EXCEPT !.at = "resetting"] ELSE HeartbeatIdle
    /\ UNCHANGED <<task, agent, hooks, monitor, listed, pane, daemon>>

\* Reset to open, or sent to review if commits are linked to the task.
ResetStaleTask ==
    /\ heartbeat.at = "resetting"
    /\ heartbeat' = HeartbeatIdle
    /\ taskStatus' \in {"open", "needs_review"}
    /\ assignee' = Nobody
    /\ UNCHANGED <<failures, agent, hooks, monitor, listed, pane, daemon>>

HeartbeatStep == ListStaleTask \/ CheckActiveRun \/ CheckSession \/ ResetStaleTask

\* The pane monitor lists the tmux sessions, in a subprocess...
ListPanes ==
    /\ daemonUp
    /\ pane.at = "idle"
    /\ pane' = [at |-> "listed", alive |-> {r \in Runs : process[r] = "alive"}]
    /\ UNCHANGED <<task, agent, hooks, monitor, listed, heartbeat, daemon>>

\* ...then the active runs, and ends those whose tmux session is not in the list, or
\* whose process is dead, and that have not been ended in the last minute:
\* handle_session_end runs to its end within the event loop.
CheckPanes ==
    /\ pane.at = "listed"
    /\ pane' = PaneIdle
    /\ LET gone == {r \in ActiveRuns : /\ spawn[r] = "recorded"
                                       /\ r \notin pane.alive \/ process[r] = "dead"}
       IN  \E ended \in SUBSET gone, status \in [Runs -> {"success", "error"}] :
              /\ runStatus' = [r \in Runs |-> IF r \in ended THEN status[r] ELSE runStatus[r]]
              /\ process' = [r \in Runs |-> IF r \in ended THEN "dead" ELSE process[r]]
              /\ session' = [s \in Sessions |-> IF s \in ended THEN "ended" ELSE session[s]]
    /\ UNCHANGED <<task, disowned, hooks, monitor, listed, heartbeat, daemon>>

\* The session of a dead agent is paused after half an hour without a hook.
PauseSession(r) ==
    /\ daemonUp
    /\ session[r] = "alive"
    /\ process[r] # "alive"
    /\ SetSession(r, "ended")
    /\ UNCHANGED <<task, runStatus, process, disowned, hooks, loops, daemon>>

-----------------------------------------------------------------------------
(* Task tools, called by agents and users; the daemon's crash and restart. *)

SetTask(status) ==
    /\ Call
    /\ daemonUp
    /\ taskStatus' = status
    /\ UNCHANGED <<agent, hooks, loops, daemonUp>>

AtWork(s) == IF s \in Users THEN session[s] = "alive" ELSE process[s] = "alive"

ClaimTask(s, force) ==
    /\ AtWork(s)
    /\ assignee \in {Nobody, s} \/ force
    /\ assignee' = s
    /\ SetTask(IF taskStatus = "open" THEN "in_progress" ELSE taskStatus)
    /\ UNCHANGED failures

MarkNeedsReview == SetTask("needs_review") /\ UNCHANGED <<assignee, failures>>

MarkReviewApproved ==
    /\ taskStatus \in {"needs_review", "in_progress", "escalated"}
    /\ SetTask("review_approved")
    /\ UNCHANGED <<assignee, failures>>

EscalateTask ==
    /\ taskStatus \notin {"escalated", "closed"}
    /\ SetTask("escalated")
    /\ UNCHANGED <<assignee, failures>>

CloseTask == SetTask("closed") /\ UNCHANGED <<assignee, failures>>

ReopenTask ==
    /\ taskStatus # "open"
    /\ SetTask("open")
    /\ assignee' = Nobody
    /\ failures' = 0

\* A user is gone for a day: the session expires.
UserLeaves(u) ==
    /\ Call
    /\ session[u] = "alive"
    /\ SetSession(u, "ended")
    /\ UNCHANGED <<task, runStatus, process, disowned, hooks, loops, daemonUp>>

Crash ==
    /\ Call
    /\ daemonUp
    /\ daemonUp' = FALSE
    /\ spawn' = [r \in Runs |-> IF spawn[r] = "preparing" THEN "failed" ELSE spawn[r]]
    /\ health' = {}
    /\ hook' = [r \in Runs |-> "none"]
    /\ kill' = [r \in Runs |-> "none"]
    /\ monitor' = MonitorIdle
    /\ listed' = {}
    /\ heartbeat' = HeartbeatIdle
    /\ pane' = PaneIdle
    /\ UNCHANGED <<task, agent>>

\* cleanup_stale_pending_runs: what was pending for an hour is failed in the database.
Restart ==
    /\ ~daemonUp
    /\ daemonUp' = TRUE
    /\ \E late \in SUBSET {r \in Runs : runStatus[r] = "pending"} :
          /\ runStatus' = [r \in Runs |-> IF r \in late THEN "error" ELSE runStatus[r]]
          /\ disowned' = disowned \cup late
    /\ UNCHANGED <<task, process, session, hooks, loops, calls>>

-----------------------------------------------------------------------------
\* What is under way in the daemon on behalf of a run.
RunStep(r) ==
    \/ FinishPreparing(r)
    \/ HealthCheck(r)
    \/ FinishStart(r)
    \/ FinishEnd(r)
    \/ FinishKill(r)

TaskCall ==
    \/ \E s \in Sessions, force \in BOOLEAN : ClaimTask(s, force)
    \/ MarkNeedsReview
    \/ MarkReviewApproved
    \/ EscalateTask
    \/ CloseTask
    \/ ReopenTask

Next ==
    \/ \E r \in Runs : RunStep(r)
    \/ \E r \in Runs : SpawnAgent(r) \/ Die(r) \/ BeginStart(r) \/ BeginEnd(r)
    \/ \E r \in Runs, outcome \in {"success", "cancelled", "error"} : BeginKill(r, outcome)
    \/ \E r \in Runs : StopAgent(r) \/ PauseSession(r)
    \/ MonitorStep
    \/ HeartbeatStep
    \/ ListPanes
    \/ CheckPanes
    \/ TaskCall
    \/ \E u \in Users : UserLeaves(u)
    \/ Crash
    \/ Restart

Spec == Init /\ [][Next]_vars

\* Coroutines and threads that have begun go on, the monitor and the heartbeat come round,
\* sessions of dead agents are paused, the daemon is restarted.
Fairness ==
    /\ \A r \in Runs : WF_vars(RunStep(r)) /\ WF_vars(PauseSession(r))
    /\ WF_vars(MonitorStep)
    /\ WF_vars(HeartbeatStep)
    /\ WF_vars(Restart)

FairSpec == Spec /\ Fairness

-----------------------------------------------------------------------------
\* At most one agent is at work on the task, apart from those whose run was ended in the
\* database alone, and those that got a worktree first: the dedup check sees an agent as
\* long as it lives, because whatever else ends a run has killed the agent.
OneOwnedAgent ==
    \A q, r \in Runs \ (disowned \cup Isolated) :
        process[q] = "alive" /\ process[r] = "alive" => q = r

\* "Agent already running for task": two calls of spawn_agent do not start two agents.
OneActiveRun == \A q, r \in ActiveRuns : q = r

\* When the monitor has dealt with an agent that it killed or found dead, the task is not
\* in progress in the agent's name.
DeadAgentsTaskReleased ==
    [][monitor.at = "expiring" /\ monitor'.at = "scanning" /\ monitor.run \notin disowned
         => ~(taskStatus = "in_progress" /\ assignee = monitor.run)]_vars

\* The pane monitor ends agents whose tmux session is gone, and no others.
PaneMonitorSparesTheLiving ==
    [][\A r \in Runs : pane.at = "listed" /\ pane'.at = "idle" /\ process[r] = "alive"
                          => process'[r] = "alive"]_vars

\* check_stale_tasks resets tasks in progress that have no alive agent or session.
ResetsOnlyOrphans ==
    [][heartbeat.at = "resetting" /\ heartbeat'.at = "idle" /\ daemonUp'
         => /\ taskStatus = "in_progress"
            /\ ActiveRuns = {}
            /\ assignee = Nobody \/ session[assignee] # "alive"]_vars

\* A run whose tmux session is known and whose process is dead ends, whichever of its
\* observers sees it first, and although a late hook may set it running again.
RunSettles ==
    \A r \in Runs :
        Active(r) /\ process[r] = "dead" /\ spawn[r] = "recorded" ~> ~Active(r)

Orphaned ==
    /\ taskStatus = "in_progress"
    /\ assignee # Nobody /\ ~AtWork(assignee)
    /\ \A r \in Runs : process[r] # "alive"

\* A launch that was cut short left a run that counts as active.
Stranded == \E r \in ActiveRuns : spawn[r] = "lost"

\* A task in progress whose agent or user is gone is taken up again: the monitor, the
\* heartbeat or somebody's call resets it.
OrphanIsRecovered == Orphaned ~> ~Orphaned \/ Stranded
=============================================================================
