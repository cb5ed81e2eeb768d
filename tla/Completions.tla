----------------------------- MODULE Completions -----------------------------
(***************************************************************************)
(* How a session learns that the pipeline or the agent it started is over.  *)
(*                                                                         *)
(* run_pipeline, resume_pipeline and spawn_agent register the run with the  *)
(* daemon's completion registry, which lives in memory, and subscribe the   *)
(* calling session.  Whoever ends the run writes its status first and       *)
(* announces it later, after an await or through the event loop:            *)
(* notify() sets the run's event, which frees the callers of                *)
(* wait_for_completion, and wakes the subscribers one after the other.      *)
(* A registration replaces the one before it, event and subscribers.        *)
(* Subscribers are also kept as rows of the database; the only reader of    *)
(* those rows is the recovery of a restarted daemon, for the pipelines it   *)
(* marks as interrupted.                                                    *)
(*                                                                         *)
(* The registry, the tools that use it, the paths that end a run, and the   *)
(* daemon's crash and recovery are modelled.  A session's lineage counts as *)
(* one subscriber, a wait has no timeout, and delivering one message cannot *)
(* fail: wake() falls back to a durable message.                            *)
(***************************************************************************)
EXTENDS Integers, FiniteSets

CONSTANTS
    Pipelines,      \* executions of pipelines
    Resumable,      \* those whose definition says resume_on_restart
    Agents,         \* agent runs
    Sessions,       \* the sessions that start runs and wait for them
    Nobody,         \* no session
    MaxRuns,        \* runs that are started
    MaxResumes,     \* calls of resume_pipeline
    MaxCrashes      \* crashes of the daemon

ASSUME RunsAssumption == Resumable \subseteq Pipelines /\ Pipelines \cap Agents = {}
ASSUME NobodyAssumption == Nobody \notin Sessions
ASSUME BoundsAssumption == MaxRuns \in Nat /\ MaxResumes \in Nat /\ MaxCrashes \in Nat

Runs == Pipelines \cup Agents
Ended == {"completed", "failed", "cancelled", "interrupted"}
Statuses == Ended \cup {"none", "pending", "running", "waiting_approval"}

\* The three paths that end an agent run and announce it.
Paths == {"kill_agent", "session_end", "lifecycle_monitor"}

\* Why the end of a run may go unheard (history, no state of the program):
\* hasty     resumed while the executor before was at work or its announcement under way
\* replaced  resumed by another session than its subscribers
\* quiet     given its last status by something that announces nothing
\* late      an agent that was over before spawn_agent registered it
\* lost      the daemon died and took the registration or the announcement along
\* halfway   the daemon died again before it had told the subscribers of the interruption
Causes == {"hasty", "replaced", "quiet", "late", "lost", "halfway"}

VARIABLES
    daemon,     \* "up", "down", or "starting": in recovery, not yet serving
    status,     \* status column of each run
    queued,     \* background tasks of a pipeline that have not begun
    going,      \* executors at work on a pipeline
    spawning,   \* the session whose spawn_agent has not returned yet
    used,       \* the paths that have ended an agent run
    event,      \* number of the registered event object, 0 when unregistered
    subs,       \* subscribers in memory
    rows,       \* subscribers in the database
    fired,      \* event objects that are set
    pending,    \* announcements of a run that have not reached the registry
    waking,     \* wake-ups under way: <<session, run>>
    waiting,    \* wait_for_completion calls: <<session, run, event number>>
    told,       \* sessions that heard of a run's end since it last began
    toTell,     \* interrupted pipelines whose subscribers recovery still tells
    resumes, crashes,
    cause       \* history: why a run's end may go unheard

regVars == <<event, subs, rows, fired>>
workVars == <<queued, going, spawning, used>>
newsVars == <<pending, waking, waiting, told>>
vars == <<daemon, status, workVars, regVars, newsVars, toTell, resumes, crashes, cause>>

Events == 0 .. MaxResumes + 1

TypeOK ==
    /\ daemon \in {"up", "down", "starting"}
    /\ status \in [Runs -> Statuses]
    /\ queued \in [Pipelines -> Nat] /\ going \in [Pipelines -> Nat]
    /\ spawning \in [Agents -> Sessions \cup {Nobody}]
    /\ used \in [Agents -> SUBSET Paths]
    /\ event \in [Runs -> Events]
    /\ subs \in [Runs -> SUBSET Sessions] /\ rows \in [Runs -> SUBSET Sessions]
    /\ fired \subseteq Runs \X Events
    /\ pending \in [Runs -> Nat]
    /\ waking \subseteq Sessions \X Runs /\ told \subseteq Sessions \X Runs
    /\ waiting \subseteq Sessions \X Runs \X Events
    /\ toTell \subseteq Pipelines
    /\ resumes \in 0 .. MaxResumes /\ crashes \in 0 .. MaxCrashes
    /\ cause \in [Runs -> SUBSET Causes]

Init ==
    /\ daemon = "up"
    /\ status = [r \in Runs |-> "none"]
    /\ queued = [p \in Pipelines |-> 0] /\ going = [p \in Pipelines |-> 0]
    /\ spawning = [a \in Agents |-> Nobody]
    /\ used = [a \in Agents |-> {}]
    /\ event = [r \in Runs |-> 0]
    /\ subs = [r \in Runs |-> {}] /\ rows = [r \in Runs |-> {}]
    /\ fired = {}
    /\ pending = [r \in Runs |-> 0]
    /\ waking = {} /\ waiting = {} /\ told = {}
    /\ toTell = {}
    /\ resumes = 0 /\ crashes = 0
    /\ cause = [r \in Runs |-> {}]

Over(r) == status[r] \in Ended
SetStatus(r, s) == status' = [status EXCEPT ![r] = s]
Because(r, why) == cause' = [cause EXCEPT ![r] = @ \cup why]
Fired(r) == event[r] # 0 /\ <<r, event[r]>> \in fired
BeingTold(r) == \E s \in Sessions : <<s, r>> \in waking

\* A new run: MaxRuns bounds how many there are in a behaviour.
MayStart(r) ==
    /\ daemon = "up"
    /\ status[r] = "none"
    /\ Cardinality({q \in Runs : status[q] # "none"}) < MaxRuns

\* Mutation of Register: a second registration keeps the event object it finds.
RegisterOnce(r, s) ==
    /\ event' = [event EXCEPT ![r] = IF @ = 0 THEN 1 ELSE @]
    /\ subs' = [subs EXCEPT ![r] = {s}]
    /\ rows' = [rows EXCEPT ![r] = @ \cup {s}]
    /\ UNCHANGED fired

\* _auto_subscribe_lineage and _auto_subscribe_agent: a new event object, the
\* subscribers replaced in memory and added to the rows.
Register(r, s) ==
    /\ event' = [event EXCEPT ![r] = @ + 1]
    /\ subs' = [subs EXCEPT ![r] = {s}]
    /\ rows' = [rows EXCEPT ![r] = @ \cup {s}]
    /\ UNCHANGED fired

-----------------------------------------------------------------------------
(* Pipelines.  run_pipeline creates the row and a background task and        *)
(* registers before the task can begin: there is no await in between.        *)

RunPipeline(p, s) ==
    /\ MayStart(p)
    /\ SetStatus(p, "pending")
    /\ queued' = [queued EXCEPT ![p] = 1]
    /\ Register(p, s)
    /\ UNCHANGED <<daemon, going, spawning, used, newsVars, toTell, resumes, crashes, cause>>

\* The executor marks the run RUNNING, whatever its status has become.
BeginExecution(p) ==
    /\ queued[p] > 0
    /\ queued' = [queued EXCEPT ![p] = @ - 1]
    /\ going' = [going EXCEPT ![p] = @ + 1]
    /\ SetStatus(p, "running")
    /\ UNCHANGED <<daemon, spawning, used, regVars, newsVars, toTell, resumes, crashes, cause>>

\* ApprovalRequired ends the executor and announces nothing.
Pause(p) ==
    /\ going[p] > 0
    /\ going' = [going EXCEPT ![p] = @ - 1]
    /\ SetStatus(p, "waiting_approval")
    /\ UNCHANGED <<daemon, queued, spawning, used, regVars, newsVars, toTell, resumes,
                   crashes, cause>>

\* The answer to a gate uses up its token: one approval or one rejection.
AtGate(p) == daemon = "up" /\ status[p] = "waiting_approval" /\ queued[p] = 0

Approve(p) ==
    /\ AtGate(p)
    /\ queued' = [queued EXCEPT ![p] = 1]
    /\ UNCHANGED <<daemon, status, going, spawning, used, regVars, newsVars, toTell, resumes,
                   crashes, cause>>

\* Ways to end a run that no subscriber hears of.
EndQuietly(r, last) ==
    /\ SetStatus(r, last)
    /\ Because(r, {"quiet"})
    /\ UNCHANGED <<daemon, workVars, regVars, newsVars, toTell, resumes, crashes>>

\* A rejected gate, or one whose approval timeout has passed.
Reject(p) == AtGate(p) /\ EndQuietly(p, "cancelled")

\* The executor is not stopped: it may yet end the run a second time.
CancelPipeline(p) ==
    /\ daemon = "up"
    /\ status[p] \in {"pending", "running", "waiting_approval", "interrupted"}
    /\ EndQuietly(p, "cancelled")

\* The heartbeat fails a run that is RUNNING and has written nothing for long.
HeartbeatFails(p) ==
    /\ daemon = "up"
    /\ status[p] = "running"
    /\ EndQuietly(p, "failed")

\* The executor writes the last status, then awaits an event broadcast ...
FinishExecution(p, outcome) ==
    /\ going[p] > 0
    /\ going' = [going EXCEPT ![p] = @ - 1]
    /\ SetStatus(p, outcome)
    /\ pending' = [pending EXCEPT ![p] = @ + 1]
    /\ UNCHANGED <<daemon, queued, spawning, used, regVars, waking, waiting, told, toTell,
                   resumes, crashes, cause>>

\* Mutation of Announce: the subscribers are told, the event is not set.
AnnounceWithoutEvent(r) ==
    /\ pending[r] > 0
    /\ pending' = [pending EXCEPT ![r] = @ - 1]
    /\ waking' = waking \cup (subs[r] \X {r})
    /\ UNCHANGED <<daemon, status, workVars, regVars, waiting, told, toTell, resumes,
                   crashes, cause>>

\* ... and announces it.  notify() ignores a run that is not registered; it
\* takes the event and the subscribers of now, not those of the run's end.
Announce(r) ==
    /\ pending[r] > 0
    /\ pending' = [pending EXCEPT ![r] = @ - 1]
    /\ fired' = IF event[r] = 0 THEN fired ELSE fired \cup {<<r, event[r]>>}
    /\ waking' = waking \cup (subs[r] \X {r})
    /\ UNCHANGED <<daemon, status, workVars, event, subs, rows, waiting, told, toTell,
                   resumes, crashes, cause>>

\* One awaited wake callback of the loop over the subscribers.
Wake(s, r) ==
    /\ <<s, r>> \in waking
    /\ waking' = waking \ {<<s, r>>}
    /\ told' = told \cup {<<s, r>>}
    /\ UNCHANGED <<daemon, status, workVars, regVars, pending, waiting, toTell, resumes,
                   crashes, cause>>

AtWork(p) == queued[p] + going[p] > 0
UnderWay(p) == pending[p] > 0 \/ BeingTold(p)

\* Mutation of ResumePipeline: a run that is already running may be resumed.
ResumeAny(p, s) ==
    /\ daemon = "up"
    /\ status[p] \in {"failed", "running"}
    /\ resumes < MaxResumes /\ resumes' = resumes + 1
    /\ SetStatus(p, "running")
    /\ queued' = [queued EXCEPT ![p] = @ + 1]
    /\ Register(p, s)
    /\ told' = told \ (Sessions \X {p})
    /\ Because(p, (IF status[p] = "failed" /\ (AtWork(p) \/ UnderWay(p)) THEN {"hasty"} ELSE {})
                  \cup (IF rows[p] \subseteq {s} THEN {} ELSE {"replaced"}))
    /\ UNCHANGED <<daemon, going, spawning, used, pending, waking, waiting, toTell, crashes>>

\* Only a failed run is resumed; nothing asks whether its executor is done
\* announcing the failure, or at work at all.
ResumePipeline(p, s) ==
    /\ daemon = "up"
    /\ status[p] = "failed"
    /\ resumes < MaxResumes /\ resumes' = resumes + 1
    /\ SetStatus(p, "running")
    /\ queued' = [queued EXCEPT ![p] = @ + 1]
    /\ Register(p, s)
    /\ told' = told \ (Sessions \X {p})
    /\ Because(p, (IF AtWork(p) \/ UnderWay(p) THEN {"hasty"} ELSE {})
                  \cup (IF rows[p] \subseteq {s} THEN {} ELSE {"replaced"}))
    /\ UNCHANGED <<daemon, going, spawning, used, pending, waking, waiting, toTell, crashes>>

-----------------------------------------------------------------------------
(* Agents.  spawn_agent starts the agent, awaits, and registers at its end.  *)

SpawnAgent(a, s) ==
    /\ MayStart(a)
    /\ SetStatus(a, "running")
    /\ spawning' = [spawning EXCEPT ![a] = s]
    /\ UNCHANGED <<daemon, queued, going, used, regVars, newsVars, toTell, resumes, crashes,
                   cause>>

\* Mutation of SpawnReturns: also without a parent session to subscribe.
SpawnReturnsToAnyone(a) ==
    /\ status[a] # "none" /\ event[a] = 0
    /\ spawning' = [spawning EXCEPT ![a] = Nobody]
    /\ Register(a, spawning[a])
    /\ Because(a, IF Over(a) THEN {"late"} ELSE {})
    /\ UNCHANGED <<daemon, status, queued, going, used, newsVars, toTell, resumes, crashes>>

SpawnReturns(a) ==
    /\ spawning[a] # Nobody
    /\ spawning' = [spawning EXCEPT ![a] = Nobody]
    /\ Register(a, spawning[a])
    /\ Because(a, IF Over(a) THEN {"late"} ELSE {})
    /\ UNCHANGED <<daemon, status, queued, going, used, newsVars, toTell, resumes, crashes>>

\* kill_agent, the end of the agent's session (complete_agent_run) and the
\* monitor's _cleanup_agent each announce the end, also of a run that is over.
EndAgent(a, path) ==
    /\ daemon = "up" \/ (daemon = "starting" /\ path = "lifecycle_monitor")
    /\ status[a] # "none" /\ path \notin used[a]
    /\ used' = [used EXCEPT ![a] = @ \cup {path}]
    /\ SetStatus(a, IF Over(a) THEN status[a] ELSE "completed")
    /\ pending' = [pending EXCEPT ![a] = @ + 1]
    /\ UNCHANGED <<daemon, queued, going, spawning, regVars, waking, waiting, told, toTell,
                   resumes, crashes, cause>>

\* The deferred health check of spawn_agent only writes the row.
HealthCheckFails(a) ==
    /\ daemon = "up"
    /\ status[a] = "running"
    /\ EndQuietly(a, "failed")

-----------------------------------------------------------------------------
(* wait_for_completion: refused for a run that is not registered, returned   *)
(* at once from an event that is set, else blocked on the event object.      *)

WaitForCompletion(s, r) ==
    /\ daemon = "up"
    /\ event[r] # 0 /\ ~Fired(r)
    /\ \A w \in waiting : w[1] # s
    /\ waiting' = waiting \cup {<<s, r, event[r]>>}
    /\ UNCHANGED <<daemon, status, workVars, regVars, pending, waking, told, toTell, resumes,
                   crashes, cause>>

Release(w) ==
    /\ <<w[2], w[3]>> \in fired
    /\ waiting' = waiting \ {w}
    /\ UNCHANGED <<daemon, status, workVars, regVars, pending, waking, told, toTell, resumes,
                   crashes, cause>>

-----------------------------------------------------------------------------
(* The daemon dies, and recovers before it serves again: resumable pipelines *)
(* that were RUNNING get a background task but no registration, the others   *)
(* are marked INTERRUPTED and, if there were any, the persisted subscribers  *)
(* of every interrupted pipeline are told.                                   *)

Interruptible(p) == status[p] = "running" /\ p \notin Resumable

LossOf(r) ==
    IF status[r] = "interrupted" THEN (IF rows[r] = {} THEN {} ELSE {"halfway"})
    ELSE IF status[r] = "none" \/ (r \in Pipelines /\ Interruptible(r)) THEN {}
    ELSE IF Over(r) /\ ~UnderWay(r) THEN {}
    ELSE {"lost"}

Crash ==
    /\ daemon # "down" /\ crashes < MaxCrashes
    /\ daemon' = "down"
    /\ crashes' = crashes + 1
    /\ queued' = [p \in Pipelines |-> 0] /\ going' = [p \in Pipelines |-> 0]
    /\ spawning' = [a \in Agents |-> Nobody]
    /\ event' = [r \in Runs |-> 0] /\ subs' = [r \in Runs |-> {}] /\ fired' = {}
    /\ pending' = [r \in Runs |-> 0]
    /\ waking' = {} /\ waiting' = {} /\ toTell' = {}
    /\ cause' = [r \in Runs |-> cause[r] \cup LossOf(r)]
    /\ UNCHANGED <<status, used, rows, told, resumes>>

Restart ==
    /\ daemon = "down"
    /\ daemon' = "starting"
    /\ queued' = [p \in Pipelines |->
                    IF status[p] = "running" /\ p \in Resumable THEN 1 ELSE 0]
    /\ status' = [r \in Runs |->
                    IF r \in Pipelines /\ Interruptible(r) THEN "interrupted" ELSE status[r]]
    /\ toTell' = IF \E p \in Pipelines : Interruptible(p)
                 THEN {p \in Pipelines : status'[p] = "interrupted" /\ rows[p] # {}}
                 ELSE {}
    /\ UNCHANGED <<going, spawning, used, regVars, newsVars, resumes, crashes, cause>>

\* Mutation of TellInterrupted: notify() without the registration before it.
TellUnregistered(p) ==
    /\ daemon = "starting" /\ p \in toTell
    /\ \A q \in toTell : event[q] = 0
    /\ event' = [event EXCEPT ![p] = 1]
    /\ UNCHANGED <<daemon, status, workVars, subs, rows, fired, newsVars, toTell, resumes,
                   crashes, cause>>

\* register and notify, for one interrupted pipeline after the other.
TellInterrupted(p) ==
    /\ daemon = "starting" /\ p \in toTell
    /\ \A q \in toTell : event[q] = 0
    /\ event' = [event EXCEPT ![p] = 1]
    /\ subs' = [subs EXCEPT ![p] = rows[p]]
    /\ fired' = fired \cup {<<p, 1>>}
    /\ waking' = waking \cup (rows[p] \X {p})
    /\ UNCHANGED <<daemon, status, workVars, rows, pending, waiting, told, toTell, resumes,
                   crashes, cause>>

\* remove_completion_subscribers and cleanup, once every wake has returned.
ForgetInterrupted(p) ==
    /\ daemon = "starting" /\ p \in toTell
    /\ event[p] # 0 /\ ~BeingTold(p)
    /\ toTell' = toTell \ {p}
    /\ rows' = [rows EXCEPT ![p] = {}]
    /\ subs' = [subs EXCEPT ![p] = {}]
    /\ event' = [event EXCEPT ![p] = 0]
    /\ fired' = {f \in fired : f[1] # p}
    /\ UNCHANGED <<daemon, status, workVars, newsVars, resumes, crashes, cause>>

Serve ==
    /\ daemon = "starting" /\ toTell = {}
    /\ daemon' = "up"
    /\ UNCHANGED <<status, workVars, regVars, newsVars, toTell, resumes, crashes, cause>>

-----------------------------------------------------------------------------

Next ==
    \/ \E p \in Pipelines, s \in Sessions : RunPipeline(p, s) \/ ResumePipeline(p, s)
    \/ \E p \in Pipelines :
          \/ BeginExecution(p) \/ Pause(p) \/ Approve(p) \/ Reject(p)
          \/ CancelPipeline(p) \/ HeartbeatFails(p)
          \/ FinishExecution(p, "completed") \/ FinishExecution(p, "failed")
    \/ \E a \in Agents, s \in Sessions : SpawnAgent(a, s)
    \/ \E a \in Agents, path \in Paths : EndAgent(a, path)
    \/ \E a \in Agents : SpawnReturns(a) \/ HealthCheckFails(a)
    \/ \E r \in Runs : Announce(r)
    \/ \E s \in Sessions, r \in Runs : Wake(s, r) \/ WaitForCompletion(s, r)
    \/ \E w \in waiting : Release(w)
    \/ \E p \in Pipelines : TellInterrupted(p) \/ ForgetInterrupted(p)
    \/ Crash \/ Restart \/ Serve

Spec == Init /\ [][Next]_vars

\* The event loop runs every task that is ready, a spawn returns, and a daemon
\* that died is started again.  Nothing makes an executor or an agent end.
Fairness ==
    /\ \A p \in Pipelines : WF_vars(BeginExecution(p))
    /\ \A a \in Agents : WF_vars(SpawnReturns(a))
    /\ \A r \in Runs : WF_vars(Announce(r))
    /\ \A s \in Sessions, r \in Runs : WF_vars(Wake(s, r))
    /\ WF_vars(\E w \in waiting : Release(w))
    /\ WF_vars(\E p \in Pipelines : TellInterrupted(p) \/ ForgetInterrupted(p))
    /\ WF_vars(Restart) /\ WF_vars(Serve)

FairSpec == Spec /\ Fairness

-----------------------------------------------------------------------------
(* Properties.                                                               *)

\* An event that is set belongs to a run that is over, unless the run was
\* resumed while the failure before was still being announced, or while its
\* executor was still at work: that announcement then sets the event of the
\* resumed run (resume_pipeline checks the status only).
EventTellsTheTruth ==
    \A r \in Runs : Fired(r) => Over(r) \/ "hasty" \in cause[r]

\* Nobody is blocked on an event object that a later registration replaced,
\* unless the run was resumed in haste or after an end that announced nothing:
\* such a waiter hangs although the run ends and is announced.
StrandedHasACause ==
    \A w \in waiting :
        \/ w[3] = event[w[2]]
        \/ <<w[2], w[3]>> \in fired
        \/ cause[w[2]] \cap {"hasty", "quiet"} # {}

\* Once a run is over, every session that subscribed to it hears of it, or one
\* of the causes applies.  "Interrupted by a restart" is no such cause: the
\* rows bring the news to the subscribers of a run that the crash took along.
SubscribersAreTold ==
    \A r \in Runs, s \in Sessions :
        (Over(r) /\ s \in rows[r]) ~> (<<s, r>> \in told \/ cause[r] # {})

\* A caller of wait_for_completion does not outwait the run, unless a cause
\* applies.
WaitersAreReleased ==
    \A r \in Runs, s \in Sessions :
        (Over(r) /\ \E g \in Events : <<s, r, g>> \in waiting)
            ~> ((\A g \in Events : <<s, r, g>> \notin waiting) \/ cause[r] # {})

\* What run_pipeline promises ("You will be notified when the pipeline
\* completes.") and the rows are kept for ("for daemon restart recovery"): when
\* recovery resumes a pipeline that a restart interrupted, and it completes,
\* the sessions that subscribed to it hear of it.
ResumedRunIsHeard ==
    \A p \in Pipelines, s \in Sessions :
        []((daemon = "starting" /\ AtWork(p) /\ s \in rows[p])
              => [](status[p] = "completed" => <>(<<s, p>> \in told)))
=============================================================================
