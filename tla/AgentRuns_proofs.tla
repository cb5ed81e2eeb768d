--------------------------- MODULE AgentRuns_proofs ---------------------------
(***************************************************************************)
(* Theorems about AgentRuns, for any number of runs and users and every    *)
(* bound on the calls.                                                     *)
(***************************************************************************)
EXTENDS AgentRuns, TLAPS

\* Each variable keeps its type.
LEMMA TypeStep == TypeOK /\ [Next]_vars => TypeOK'
<1> SUFFICES ASSUME TypeOK, [Next]_vars PROVE TypeOK'
  OBVIOUS
<1> USE AgentAssumption DEF TypeOK, TaskTypes, AgentTypes, HookTypes, MonitorTypes,
        HeartbeatTypes, task, agent, hooks, loops, daemon, Goto, SetRun, SetSession, Killed,
        Call, SetTask, Sessions, MonitorIdle, HeartbeatIdle, PaneIdle, RunStatus, TaskStatus
<1>1. CASE UNCHANGED vars
  BY <1>1 DEF vars
<1>2. ASSUME NEW r \in Runs, FinishPreparing(r) PROVE TypeOK'
  BY <1>2 DEF FinishPreparing, Launch, NotLaunched
<1>3. ASSUME NEW r \in Runs, HealthCheck(r) PROVE TypeOK'
  BY <1>3 DEF HealthCheck
<1>4. ASSUME NEW r \in Runs, FinishStart(r) PROVE TypeOK'
  BY <1>4 DEF FinishStart
<1>5. ASSUME NEW r \in Runs, FinishEnd(r) PROVE TypeOK'
  BY <1>5 DEF FinishEnd
<1>6. ASSUME NEW r \in Runs, FinishKill(r) PROVE TypeOK'
  BY <1>6 DEF FinishKill
<1>7. ASSUME NEW r \in Runs, SpawnAgent(r) PROVE TypeOK'
  BY <1>7 DEF SpawnAgent, Launch, NotLaunched
<1>8. ASSUME NEW r \in Runs, Die(r) PROVE TypeOK'
  BY <1>8 DEF Die
<1>9. ASSUME NEW r \in Runs, BeginStart(r) PROVE TypeOK'
  BY <1>9 DEF BeginStart
<1>10. ASSUME NEW r \in Runs, BeginEnd(r) PROVE TypeOK'
  BY <1>10 DEF BeginEnd
<1>11. ASSUME NEW r \in Runs, StopAgent(r) PROVE TypeOK'
  BY <1>11 DEF StopAgent
<1>12. ASSUME NEW r \in Runs, PauseSession(r) PROVE TypeOK'
  BY <1>12 DEF PauseSession
<1>13. ASSUME NEW r \in Runs, Pass(r) PROVE TypeOK'
  BY <1>13 DEF Pass
<1>14. ASSUME NEW r \in Runs, Condemn(r) PROVE TypeOK'
  <2>1. monitor' = [monitor EXCEPT !.at = "failing", !.run = r] /\ listed' \subseteq listed
    BY <1>14 DEF Condemn
  <2>2. MonitorTypes'
    <3>1. monitor'.at = "failing" /\ monitor'.run = r /\ monitor'.count = monitor.count
      BY <2>1
    <3>2. monitor' = [at |-> "failing", run |-> r, count |-> monitor.count]
      BY <2>1
    <3>3. monitor.count \in 0..(EscalateAfter - 1) /\ r # 0 /\ listed' \subseteq Runs
      BY <2>1 DEF Runs
    <3> QED
      BY <3>2, <3>3
  <2>3. AgentTypes'
    <3>1. CASE process' = Killed(r) /\ UNCHANGED disowned
      BY <1>14, <3>1 DEF Condemn
    <3>2. CASE disowned' = disowned \cup {r} /\ UNCHANGED process
      BY <1>14, <3>2 DEF Condemn
    <3> QED
      BY <1>14, <3>1, <3>2 DEF Condemn
  <2> QED
    BY <1>14, <2>2, <2>3 DEF Condemn
<1>15. ASSUME NEW r \in Runs, NEW outcome \in {"success", "cancelled", "error"},
             BeginKill(r, outcome) PROVE TypeOK'
  BY <1>15 DEF BeginKill
<1>16. ASSUME ListActive PROVE TypeOK'
  BY <1>16 DEF ListActive, ActiveRuns, Active
<1>17. ASSUME FailRun PROVE TypeOK'
  BY <1>17 DEF FailRun
<1>18. ASSUME ReadTask PROVE TypeOK'
  BY <1>18 DEF ReadTask
<1>19. ASSUME WriteTask PROVE TypeOK'
  BY <1>19 DEF WriteTask, Escalates
<1>20. ASSUME ExpireSession PROVE TypeOK'
  BY <1>20 DEF ExpireSession
<1>21. ASSUME EndScan PROVE TypeOK'
  BY <1>21 DEF EndScan
<1>22. ASSUME ListStaleTask PROVE TypeOK'
  BY <1>22 DEF ListStaleTask
<1>23. ASSUME CheckActiveRun PROVE TypeOK'
  BY <1>23 DEF CheckActiveRun
<1>24. ASSUME CheckSession PROVE TypeOK'
  BY <1>24 DEF CheckSession
<1>25. ASSUME ResetStaleTask PROVE TypeOK'
  BY <1>25 DEF ResetStaleTask
<1>26. ASSUME ListPanes PROVE TypeOK'
  BY <1>26 DEF ListPanes
<1>27. ASSUME CheckPanes PROVE TypeOK'
  BY <1>27 DEF CheckPanes, ActiveRuns, Active
<1>28. ASSUME MarkNeedsReview PROVE TypeOK'
  BY <1>28 DEF MarkNeedsReview
<1>29. ASSUME MarkReviewApproved PROVE TypeOK'
  BY <1>29 DEF MarkReviewApproved
<1>30. ASSUME EscalateTask PROVE TypeOK'
  BY <1>30 DEF EscalateTask
<1>31. ASSUME CloseTask PROVE TypeOK'
  BY <1>31 DEF CloseTask
<1>32. ASSUME ReopenTask PROVE TypeOK'
  BY <1>32 DEF ReopenTask
<1>33. ASSUME Crash PROVE TypeOK'
  <2>1. spawn' \in [Runs -> {"free", "preparing", "recorded", "lost", "failed"}]
    BY <1>33 DEF Crash
  <2>2. HookTypes'
    BY <1>33, <2>1 DEF Crash
  <2>3. MonitorTypes' /\ HeartbeatTypes'
    BY <1>33 DEF Crash
  <2>4. TaskTypes' /\ AgentTypes'
    BY <1>33 DEF Crash
  <2>5. daemonUp' \in BOOLEAN /\ calls' \in Nat
    <3>1. daemonUp' = FALSE /\ calls' = calls + 1
      BY <1>33 DEF Crash
    <3>2. calls \in Nat
      OBVIOUS
    <3>3. calls' \in Nat
      BY <3>1, <3>2
    <3>4. daemonUp' \in BOOLEAN
      BY <3>1
    <3> QED
      BY <3>3, <3>4
  <2> HIDE DEF TaskTypes, AgentTypes, HookTypes, MonitorTypes, HeartbeatTypes
  <2> QED
    BY <2>2, <2>3, <2>4, <2>5
<1>34. ASSUME Restart PROVE TypeOK'
  BY <1>34 DEF Restart
<1>35. ASSUME NEW s \in Sessions, NEW force \in BOOLEAN, ClaimTask(s, force) PROVE TypeOK'
  BY <1>35 DEF ClaimTask
<1>36. ASSUME NEW u \in Users, UserLeaves(u) PROVE TypeOK'
  BY <1>36 DEF UserLeaves
<1> QED
  BY <1>1, <1>2, <1>3, <1>4, <1>5, <1>6, <1>7, <1>8, <1>9, <1>10, <1>11, <1>12,
     <1>13, <1>14, <1>15, <1>16, <1>17, <1>18, <1>19, <1>20, <1>21, <1>22, <1>23, <1>24,
     <1>25, <1>26, <1>27, <1>28, <1>29, <1>30, <1>31, <1>32, <1>33, <1>34, <1>35, <1>36
     DEF Next, RunStep, MonitorStep, HeartbeatStep, TaskCall

\* TypeOK holds of every number of runs and users.
THEOREM TypeCorrect == Spec => []TypeOK
<1>1. Init => TypeOK
  BY AgentAssumption DEF Init, TypeOK, TaskTypes, AgentTypes, HookTypes, MonitorTypes,
     HeartbeatTypes, Sessions, MonitorIdle, HeartbeatIdle, PaneIdle, RunStatus, TaskStatus
<1> QED
  BY <1>1, TypeStep, PTL DEF Spec

-----------------------------------------------------------------------------
\* Whoever is about to end a run in the database has killed its process, or gave it up.
EndersKilled ==
    /\ \A r \in Runs : spawn[r] \in {"free", "preparing"} => process[r] = "none"
    /\ \A r \in Runs : hook[r] = "ending" \/ kill[r] # "none" => process[r] = "dead"
    /\ monitor.at \in {"failing", "reading", "writing", "expiring"}
          => process[monitor.run] = "dead" \/ monitor.run \in disowned

\* So the agents at work that nobody gave up are those the dedup check sees.
OwnedIsActive ==
    \A r \in Runs \ disowned : process[r] = "alive" => Active(r)

\* The dedup check and the launch are one step of every other run.
OnlyIsolatedPrepare == \A r \in Runs : spawn[r] = "preparing" => r \in Isolated

OwnerInv == EndersKilled /\ OwnedIsActive /\ OnlyIsolatedPrepare /\ OneOwnedAgent

LEMMA OwnerStep == TypeOK /\ OwnerInv /\ [Next]_vars => OwnerInv'
<1> SUFFICES ASSUME TypeOK, OwnerInv, [Next]_vars PROVE OwnerInv'
  OBVIOUS
<1> USE DEF TypeOK, AgentTypes, HookTypes, MonitorTypes, OwnerInv, EndersKilled, OwnedIsActive,
        OnlyIsolatedPrepare, OneOwnedAgent, Active, task, agent, hooks, loops, daemon, Goto,
        SetRun, SetSession, Killed, Call, SetTask, MonitorIdle
<1>1. CASE UNCHANGED vars
  BY <1>1 DEF vars
<1>2. ASSUME NEW r \in Runs, FinishPreparing(r) PROVE OwnerInv'
  BY <1>2 DEF FinishPreparing, Launch, NotLaunched
<1>3. ASSUME NEW r \in Runs, HealthCheck(r) PROVE OwnerInv'
  BY <1>3 DEF HealthCheck
<1>4. ASSUME NEW r \in Runs, FinishStart(r) PROVE OwnerInv'
  BY <1>4 DEF FinishStart
<1>5. ASSUME NEW r \in Runs, FinishEnd(r) PROVE OwnerInv'
  BY <1>5 DEF FinishEnd
<1>6. ASSUME NEW r \in Runs, FinishKill(r) PROVE OwnerInv'
  BY <1>6 DEF FinishKill
<1>7. ASSUME NEW r \in Runs, SpawnAgent(r) PROVE OwnerInv'
  BY <1>7 DEF SpawnAgent, Launch, NotLaunched, ActiveRuns
<1>8. ASSUME NEW r \in Runs, Die(r) PROVE OwnerInv'
  BY <1>8 DEF Die
<1>9. ASSUME NEW r \in Runs, BeginStart(r) PROVE OwnerInv'
  BY <1>9 DEF BeginStart
<1>10. ASSUME NEW r \in Runs, BeginEnd(r) PROVE OwnerInv'
  BY <1>10 DEF BeginEnd
<1>11. ASSUME NEW r \in Runs, StopAgent(r) PROVE OwnerInv'
  BY <1>11 DEF StopAgent
<1>12. ASSUME NEW r \in Runs, PauseSession(r) PROVE OwnerInv'
  BY <1>12 DEF PauseSession
<1>13. ASSUME NEW r \in Runs, Pass(r) PROVE OwnerInv'
  BY <1>13 DEF Pass
<1>14. ASSUME NEW r \in Runs, Condemn(r) PROVE OwnerInv'
  BY <1>14 DEF Condemn
<1>15. ASSUME NEW r \in Runs, NEW outcome \in {"success", "cancelled", "error"},
             BeginKill(r, outcome) PROVE OwnerInv'
  BY <1>15 DEF BeginKill
<1>16. ASSUME ListActive PROVE OwnerInv'
  BY <1>16 DEF ListActive, ActiveRuns
<1>17. ASSUME FailRun PROVE OwnerInv'
  BY <1>17 DEF FailRun
<1>18. ASSUME ReadTask PROVE OwnerInv'
  BY <1>18 DEF ReadTask
<1>19. ASSUME WriteTask PROVE OwnerInv'
  BY <1>19 DEF WriteTask
<1>20. ASSUME ExpireSession PROVE OwnerInv'
  BY <1>20 DEF ExpireSession
<1>21. ASSUME EndScan PROVE OwnerInv'
  BY <1>21 DEF EndScan
<1>22. ASSUME ListStaleTask PROVE OwnerInv'
  BY <1>22 DEF ListStaleTask
<1>23. ASSUME CheckActiveRun PROVE OwnerInv'
  BY <1>23 DEF CheckActiveRun
<1>24. ASSUME CheckSession PROVE OwnerInv'
  BY <1>24 DEF CheckSession
<1>25. ASSUME ResetStaleTask PROVE OwnerInv'
  BY <1>25 DEF ResetStaleTask
<1>26. ASSUME ListPanes PROVE OwnerInv'
  BY <1>26 DEF ListPanes
<1>27. ASSUME CheckPanes PROVE OwnerInv'
  BY <1>27 DEF CheckPanes, ActiveRuns
<1>28. ASSUME MarkNeedsReview PROVE OwnerInv'
  BY <1>28 DEF MarkNeedsReview
<1>29. ASSUME MarkReviewApproved PROVE OwnerInv'
  BY <1>29 DEF MarkReviewApproved
<1>30. ASSUME EscalateTask PROVE OwnerInv'
  BY <1>30 DEF EscalateTask
<1>31. ASSUME CloseTask PROVE OwnerInv'
  BY <1>31 DEF CloseTask
<1>32. ASSUME ReopenTask PROVE OwnerInv'
  BY <1>32 DEF ReopenTask
<1>33. ASSUME Crash PROVE OwnerInv'
  BY <1>33 DEF Crash
<1>34. ASSUME Restart PROVE OwnerInv'
  BY <1>34 DEF Restart
<1>35. ASSUME NEW s \in Sessions, NEW force \in BOOLEAN, ClaimTask(s, force) PROVE OwnerInv'
  BY <1>35 DEF ClaimTask
<1>36. ASSUME NEW u \in Users, UserLeaves(u) PROVE OwnerInv'
  BY <1>36 DEF UserLeaves
<1> QED
  BY <1>1, <1>2, <1>3, <1>4, <1>5, <1>6, <1>7, <1>8, <1>9, <1>10, <1>11, <1>12,
     <1>13, <1>14, <1>15, <1>16, <1>17, <1>18, <1>19, <1>20, <1>21, <1>22, <1>23, <1>24,
     <1>25, <1>26, <1>27, <1>28, <1>29, <1>30, <1>31, <1>32, <1>33, <1>34, <1>35, <1>36
     DEF Next, RunStep, MonitorStep, HeartbeatStep, TaskCall

\* OneOwnedAgent, which TLC checks of two runs, holds of any number.
THEOREM AtMostOneOwnedAgent == Spec => []OneOwnedAgent
<1>1. Init => OwnerInv
  BY DEF Init, OwnerInv, EndersKilled, OwnedIsActive, OnlyIsolatedPrepare,
     OneOwnedAgent, MonitorIdle
<1>2. OwnerInv => OneOwnedAgent
  BY DEF OwnerInv
<1> QED
  BY <1>1, <1>2, OwnerStep, TypeCorrect, PTL DEF Spec

-----------------------------------------------------------------------------
\* Once the monitor has written the task, nothing gives it back to the agent.
ReleasedInv ==
    monitor.at = "expiring" /\ monitor.run \notin disowned
        => ~(taskStatus = "in_progress" /\ assignee = monitor.run)

LEMMA ReleasedStep == TypeOK /\ OwnerInv /\ ReleasedInv /\ [Next]_vars => ReleasedInv'
<1> SUFFICES ASSUME TypeOK, OwnerInv, ReleasedInv, [Next]_vars PROVE ReleasedInv'
  OBVIOUS
<1> USE AgentAssumption DEF TypeOK, TaskTypes, AgentTypes, HookTypes, MonitorTypes, OwnerInv,
        EndersKilled, ReleasedInv, task, agent, hooks, loops, daemon, Goto, SetRun,
        SetSession, Killed, Call, SetTask, MonitorIdle, Sessions
<1>1. CASE UNCHANGED vars
  BY <1>1 DEF vars
<1>2. ASSUME NEW r \in Runs, FinishPreparing(r) PROVE ReleasedInv'
  BY <1>2 DEF FinishPreparing, Launch, NotLaunched
<1>3. ASSUME NEW r \in Runs, HealthCheck(r) PROVE ReleasedInv'
  BY <1>3 DEF HealthCheck
<1>4. ASSUME NEW r \in Runs, FinishStart(r) PROVE ReleasedInv'
  BY <1>4 DEF FinishStart
<1>5. ASSUME NEW r \in Runs, FinishEnd(r) PROVE ReleasedInv'
  BY <1>5 DEF FinishEnd
<1>6. ASSUME NEW r \in Runs, FinishKill(r) PROVE ReleasedInv'
  BY <1>6 DEF FinishKill
<1>7. ASSUME NEW r \in Runs, SpawnAgent(r) PROVE ReleasedInv'
  BY <1>7 DEF SpawnAgent, Launch, NotLaunched
<1>8. ASSUME NEW r \in Runs, Die(r) PROVE ReleasedInv'
  BY <1>8 DEF Die
<1>9. ASSUME NEW r \in Runs, BeginStart(r) PROVE ReleasedInv'
  BY <1>9 DEF BeginStart
<1>10. ASSUME NEW r \in Runs, BeginEnd(r) PROVE ReleasedInv'
  BY <1>10 DEF BeginEnd
<1>11. ASSUME NEW r \in Runs, StopAgent(r) PROVE ReleasedInv'
  BY <1>11 DEF StopAgent
<1>12. ASSUME NEW r \in Runs, PauseSession(r) PROVE ReleasedInv'
  BY <1>12 DEF PauseSession
<1>13. ASSUME NEW r \in Runs, Pass(r) PROVE ReleasedInv'
  BY <1>13 DEF Pass
<1>14. ASSUME NEW r \in Runs, Condemn(r) PROVE ReleasedInv'
  BY <1>14 DEF Condemn
<1>15. ASSUME NEW r \in Runs, NEW outcome \in {"success", "cancelled", "error"},
             BeginKill(r, outcome) PROVE ReleasedInv'
  BY <1>15 DEF BeginKill
<1>16. ASSUME ListActive PROVE ReleasedInv'
  BY <1>16 DEF ListActive
<1>17. ASSUME FailRun PROVE ReleasedInv'
  BY <1>17 DEF FailRun
<1>18. ASSUME ReadTask PROVE ReleasedInv'
  BY <1>18 DEF ReadTask
<1>19. ASSUME WriteTask PROVE ReleasedInv'
  BY <1>19 DEF WriteTask, Escalates
<1>20. ASSUME ExpireSession PROVE ReleasedInv'
  BY <1>20 DEF ExpireSession
<1>21. ASSUME EndScan PROVE ReleasedInv'
  BY <1>21 DEF EndScan
<1>22. ASSUME ListStaleTask PROVE ReleasedInv'
  BY <1>22 DEF ListStaleTask
<1>23. ASSUME CheckActiveRun PROVE ReleasedInv'
  BY <1>23 DEF CheckActiveRun
<1>24. ASSUME CheckSession PROVE ReleasedInv'
  BY <1>24 DEF CheckSession
<1>25. ASSUME ResetStaleTask PROVE ReleasedInv'
  BY <1>25 DEF ResetStaleTask
<1>26. ASSUME ListPanes PROVE ReleasedInv'
  BY <1>26 DEF ListPanes
<1>27. ASSUME CheckPanes PROVE ReleasedInv'
  BY <1>27 DEF CheckPanes
<1>28. ASSUME MarkNeedsReview PROVE ReleasedInv'
  BY <1>28 DEF MarkNeedsReview
<1>29. ASSUME MarkReviewApproved PROVE ReleasedInv'
  BY <1>29 DEF MarkReviewApproved
<1>30. ASSUME EscalateTask PROVE ReleasedInv'
  BY <1>30 DEF EscalateTask
<1>31. ASSUME CloseTask PROVE ReleasedInv'
  BY <1>31 DEF CloseTask
<1>32. ASSUME ReopenTask PROVE ReleasedInv'
  BY <1>32 DEF ReopenTask
<1>33. ASSUME Crash PROVE ReleasedInv'
  BY <1>33 DEF Crash
<1>34. ASSUME Restart PROVE ReleasedInv'
  BY <1>34 DEF Restart
<1>35. ASSUME NEW s \in Sessions, NEW force \in BOOLEAN, ClaimTask(s, force) PROVE ReleasedInv'
  BY <1>35 DEF ClaimTask, AtWork
<1>36. ASSUME NEW u \in Users, UserLeaves(u) PROVE ReleasedInv'
  BY <1>36 DEF UserLeaves
<1> QED
  BY <1>1, <1>2, <1>3, <1>4, <1>5, <1>6, <1>7, <1>8, <1>9, <1>10, <1>11, <1>12,
     <1>13, <1>14, <1>15, <1>16, <1>17, <1>18, <1>19, <1>20, <1>21, <1>22, <1>23, <1>24,
     <1>25, <1>26, <1>27, <1>28, <1>29, <1>30, <1>31, <1>32, <1>33, <1>34, <1>35, <1>36
     DEF Next, RunStep, MonitorStep, HeartbeatStep, TaskCall

\* DeadAgentsTaskReleased, which TLC checks of two runs, holds of any number.
THEOREM DeadAgentsTasksAreReleased == Spec => DeadAgentsTaskReleased
<1>1. Init => OwnerInv
  BY DEF Init, OwnerInv, EndersKilled, OwnedIsActive, OnlyIsolatedPrepare,
     OneOwnedAgent, MonitorIdle
<1>2. Init => ReleasedInv
  BY DEF Init, ReleasedInv, MonitorIdle
<1>3. ReleasedInv /\ [Next]_vars
        => [monitor.at = "expiring" /\ monitor'.at = "scanning" /\ monitor.run \notin disowned
              => ~(taskStatus = "in_progress" /\ assignee = monitor.run)]_vars
  BY DEF ReleasedInv
<1> QED
  BY <1>1, <1>2, <1>3, OwnerStep, ReleasedStep, TypeCorrect, PTL
     DEF Spec, DeadAgentsTaskReleased

=============================================================================
