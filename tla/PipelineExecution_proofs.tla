---------------------- MODULE PipelineExecution_proofs ----------------------
(***************************************************************************)
(* Theorems about PipelineExecution, for every pipeline, every number of   *)
(* coroutines and every bound on the calls.                                *)
(***************************************************************************)
EXTENDS PipelineExecution, TLAPS

\* A run without step rows.
LEMMA NoRowsType == NoRows \in [Steps -> StepStatus]
BY DEF NoRows, StepStatus

\* The existing_steps a runner uses are step statuses.
LEMMA ExistingStepsType ==
    ASSUME TypeOK, NEW r \in Runners
    PROVE  ExistingSteps(r) \in [Steps -> StepStatus]
BY NoRowsType DEF TypeOK, RunnerTypes, RowTypes, ExistingSteps

\* Each variable keeps its type.
LEMMA TypeStep == TypeOK /\ [Next]_vars => TypeOK'
<1> SUFFICES ASSUME TypeOK, [Next]_vars PROVE TypeOK'
  OBVIOUS
<1> USE StepsAssumption, NoRowsType DEF TypeOK, RowTypes, RunnerTypes, Steps, rows, runnerVars,
        history, Goto, SetStep
<1>1. CASE UNCHANGED vars
  BY <1>1 DEF vars
<1>2. ASSUME NEW r \in Runners, Start(r) PROVE TypeOK'
  BY <1>2 DEF Start, BeginExecute, ExecutionStatus, RunnerPc
<1>3. ASSUME NEW r \in Runners, FailOnExistingRow(r) PROVE TypeOK'
  BY <1>3 DEF FailOnExistingRow, ExecutionStatus, RunnerPc
<1>4. ASSUME NEW r \in Runners, SkipStep(r) PROVE TypeOK'
  BY <1>4, ExistingStepsType DEF SkipStep, EnterStep, StepStatus, RunnerPc
<1>5. ASSUME NEW r \in Runners, StartStep(r) PROVE TypeOK'
  BY <1>5, ExistingStepsType DEF StartStep, EnterStep, StepStatus, RunnerPc
<1>6. ASSUME NEW r \in Runners, WaitAtGate(r) PROVE TypeOK'
  BY <1>6 DEF WaitAtGate, StepStatus, RunnerPc
<1>7. ASSUME NEW r \in Runners, PauseAtGate(r) PROVE TypeOK'
  BY <1>7 DEF PauseAtGate, Release, ExecutionStatus, StepStatus, RunnerPc
<1>8. ASSUME NEW r \in Runners, Act(r) PROVE TypeOK'
  <2>1. at[r] \in Steps
    BY <1>8 DEF Act
  <2>2. RunnerTypes'
    BY <1>8 DEF Act, RunnerPc
  <2> QED
    BY <1>8, <2>1, <2>2 DEF Act
<1>9. ASSUME NEW r \in Runners, StepSucceeds(r) PROVE TypeOK'
  BY <1>9 DEF StepSucceeds, StepStatus, RunnerPc
<1>10. ASSUME NEW r \in Runners, StepFails(r) PROVE TypeOK'
  BY <1>10 DEF StepFails, StepStatus, ExecutionStatus, RunnerPc
<1>11. ASSUME NEW r \in Runners, Finish(r) PROVE TypeOK'
  BY <1>11 DEF Finish, ExecutionStatus, RunnerPc
<1>12. ASSUME NEW r \in Runners, AnnounceCompleted(r) PROVE TypeOK'
  BY <1>12 DEF AnnounceCompleted, Announced, Release, StepStatus, RunnerPc
<1>13. ASSUME NEW r \in Runners, AnnounceFailed(r) PROVE TypeOK'
  <2>1. RowTypes'
    BY <1>13 DEF AnnounceFailed, Announced, Release, RunnerPc
  <2>2. (pc \in [Runners -> RunnerPc] /\ at \in [Runners -> 0..N])'
    <3>1. CASE via[r] = "task"
      <4>1. pc' = [pc EXCEPT ![r] = "wrapping"] /\ at' = at
        BY <1>13, <3>1 DEF AnnounceFailed
      <4> QED
        BY <4>1 DEF RunnerPc
    <3>2. CASE via[r] # "task"
      <4>1. pc' = [pc EXCEPT ![r] = "idle"] /\ at' = [at EXCEPT ![r] = 0]
        BY <1>13, <3>2 DEF AnnounceFailed, Release
      <4> QED
        BY <4>1 DEF RunnerPc
    <3> QED
      BY <3>1, <3>2
  <2>3. (snapshot \in [Runners -> [Steps -> StepStatus]])'
    BY <1>13 DEF AnnounceFailed, Announced, Release, RunnerPc
  <2>4. (via \in [Runners -> {"task", "approval"}])'
    BY <1>13 DEF AnnounceFailed, Announced, Release, RunnerPc
  <2>5. (\A q \in Runners : pc[q] \in {"starting", "acting", "gating"} => at[q] # 0)'
    BY <1>13 DEF AnnounceFailed, Announced, Release, RunnerPc
  <2>6. (/\ cancelling \in BOOLEAN /\ daemonUp \in BOOLEAN /\ calls \in Nat
         /\ announced \subseteq {"completed", "failed", "interrupted"}
         /\ cleared \subseteq Gated /\ acted \subseteq Steps)'
    BY <1>13 DEF AnnounceFailed, Announced, Release, RunnerPc
  <2> QED
    BY <2>1, <2>2, <2>3, <2>4, <2>5, <2>6
<1>14. ASSUME NEW r \in Runners, WrapFailure(r) PROVE TypeOK'
  BY <1>14 DEF WrapFailure, Release, StepStatus, ExecutionStatus, RunnerPc
<1>15. ASSUME NEW r \in Runners, RunPipeline(r) PROVE TypeOK'
  BY <1>15 DEF RunPipeline, ExecutionStatus, RunnerPc
<1>16. ASSUME NEW r \in Runners, KillCli(r) PROVE TypeOK'
  BY <1>16 DEF KillCli, UserCall, Release, StepStatus, RunnerPc
<1>17. ASSUME NEW r \in Runners, RestartAndResume(r) PROVE TypeOK'
  BY <1>17 DEF RestartAndResume, RunnerPc
<1>18. ASSUME NEW r \in Runners, NEW s \in Gated, Approve(r, s) PROVE TypeOK'
  <2>1. RowTypes'
    BY <1>18 DEF Approve, UserCall, Free, BeginExecute, StepStatus, ExecutionStatus, RunnerPc
  <2>2. (pc \in [Runners -> RunnerPc] /\ at \in [Runners -> 0..N])'
    BY <1>18 DEF Approve, UserCall, Free, BeginExecute, StepStatus, ExecutionStatus, RunnerPc
  <2>3. (snapshot \in [Runners -> [Steps -> StepStatus]])'
    BY <1>18 DEF Approve, UserCall, Free, BeginExecute, StepStatus, ExecutionStatus, RunnerPc
  <2>4. (via \in [Runners -> {"task", "approval"}])'
    BY <1>18 DEF Approve, UserCall, Free, BeginExecute, StepStatus, ExecutionStatus, RunnerPc
  <2>5. (\A q \in Runners : pc[q] \in {"starting", "acting", "gating"} => at[q] # 0)'
    BY <1>18 DEF Approve, UserCall, Free, BeginExecute, StepStatus, ExecutionStatus, RunnerPc
  <2>6. (/\ cancelling \in BOOLEAN /\ daemonUp \in BOOLEAN /\ calls \in Nat
         /\ announced \subseteq {"completed", "failed", "interrupted"}
         /\ cleared \subseteq Gated /\ acted \subseteq Steps)'
    BY <1>18 DEF Approve, UserCall, Free, BeginExecute, StepStatus, ExecutionStatus, RunnerPc
  <2> QED
    BY <2>1, <2>2, <2>3, <2>4, <2>5, <2>6
<1>19. ASSUME NEW r \in Runners, NEW from \in Steps, Resume(r, from) PROVE TypeOK'
  <2>1. RowTypes'
    BY <1>19 DEF Resume, UserCall, Free, StepStatus, ExecutionStatus, RunnerPc
  <2>2. (pc \in [Runners -> RunnerPc] /\ at \in [Runners -> 0..N])'
    BY <1>19 DEF Resume, UserCall, Free, StepStatus, ExecutionStatus, RunnerPc
  <2>3. (snapshot \in [Runners -> [Steps -> StepStatus]])'
    BY <1>19 DEF Resume, UserCall, Free, StepStatus, ExecutionStatus, RunnerPc
  <2>4. (via \in [Runners -> {"task", "approval"}])'
    BY <1>19 DEF Resume, UserCall, Free, StepStatus, ExecutionStatus, RunnerPc
  <2>5. (\A q \in Runners : pc[q] \in {"starting", "acting", "gating"} => at[q] # 0)'
    BY <1>19 DEF Resume, UserCall, Free, StepStatus, ExecutionStatus, RunnerPc
  <2>6. (/\ cancelling \in BOOLEAN /\ daemonUp \in BOOLEAN /\ calls \in Nat
         /\ announced \subseteq {"completed", "failed", "interrupted"}
         /\ cleared \subseteq Gated /\ acted \subseteq Steps)'
    BY <1>19 DEF Resume, UserCall, Free, StepStatus, ExecutionStatus, RunnerPc
  <2> QED
    BY <2>1, <2>2, <2>3, <2>4, <2>5, <2>6
<1>20. ASSUME NEW s \in Gated, Reject(s) PROVE TypeOK'
  BY <1>20 DEF Reject, UserCall, StepStatus, ExecutionStatus
<1>21. ASSUME NEW s \in Gated, ExpireApproval(s) PROVE TypeOK'
  BY <1>21 DEF ExpireApproval, StepStatus, ExecutionStatus
<1>22. CASE BeginCancel
  BY <1>22 DEF BeginCancel, UserCall
<1>23. CASE FinishCancel
  BY <1>23 DEF FinishCancel, StepStatus, ExecutionStatus
<1>24. CASE HeartbeatFails
  BY <1>24 DEF HeartbeatFails, ExecutionStatus
<1>25. CASE Crash
  <2>1. RowTypes'
    BY <1>25 DEF Crash, UserCall, RunnerPc
  <2>2. (pc \in [Runners -> RunnerPc] /\ at \in [Runners -> 0..N])'
    BY <1>25 DEF Crash, UserCall, RunnerPc
  <2>3. (snapshot \in [Runners -> [Steps -> StepStatus]])'
    BY <1>25 DEF Crash, UserCall, RunnerPc
  <2>4. (via \in [Runners -> {"task", "approval"}])'
    BY <1>25 DEF Crash, UserCall, RunnerPc
  <2>5. (\A q \in Runners : pc[q] \in {"starting", "acting", "gating"} => at[q] # 0)'
    BY <1>25 DEF Crash, UserCall, RunnerPc
  <2>6. (cancelling \in BOOLEAN /\ daemonUp \in BOOLEAN)'
    BY <1>25 DEF Crash
  <2>7. (calls \in Nat)'
    BY <1>25 DEF Crash, UserCall
  <2>8. (/\ announced \subseteq {"completed", "failed", "interrupted"}
         /\ cleared \subseteq Gated /\ acted \subseteq Steps)'
    BY <1>25 DEF Crash
  <2> QED
    BY <2>1, <2>2, <2>3, <2>4, <2>5, <2>6, <2>7, <2>8
<1>26. CASE Restart
  BY <1>26 DEF Restart, StepStatus, ExecutionStatus
<1>27. QED
  BY <1>1, <1>2, <1>3, <1>4, <1>5, <1>6, <1>7, <1>8, <1>9, <1>10, <1>11, <1>12, <1>13, <1>14,
     <1>15, <1>16, <1>17, <1>18, <1>19, <1>20, <1>21, <1>22, <1>23, <1>24, <1>25, <1>26
     DEF Next, RunnerStep, RestartStep

\* Every variable always has its type: no interleaving of coroutines, users and
\* restarts writes a status outside the enumerations of pipeline_state.py, puts a
\* token on an ungated step, or leaves a coroutine working on no step.
THEOREM TypeCorrect == Spec => []TypeOK
<1>1. Init => TypeOK
  <2> SUFFICES ASSUME Init PROVE TypeOK
    OBVIOUS
  <2>1. RowTypes
    BY NoRowsType DEF Init, RowTypes, ExecutionStatus
  <2>2. RunnerTypes
    BY NoRowsType, StepsAssumption DEF Init, RunnerTypes, RunnerPc
  <2> QED
    BY <2>1, <2>2 DEF Init, TypeOK
<1>2. QED
  BY <1>1, TypeStep, PTL DEF Spec

-----------------------------------------------------------------------------
(* The gates.  GatesHold is not inductive: that the action about to begin  *)
(* lies behind cleared gates only follows from where its runner stands,    *)
(* which follows from the snapshot it walks along, which was copied from   *)
(* rows that are COMPLETED or SKIPPED only once the gate was cleared.      *)

\* A gate whose row is done, now or in a snapshot, has been cleared.
RowsCleared == \A g \in Gated : stepStatus[g] \in Done => g \in cleared
SnapshotsCleared ==
    \A r \in Runners, g \in Gated : snapshot[r][g] \in Done => g \in cleared

\* A runner stands behind cleared gates only.
RunnersBehindGates ==
    \A r \in Runners :
        /\ pc[r] \in {"idle", "queued", "begun", "rebegun"} => at[r] = 0
        /\ \A g \in Gated : g < at[r] => g \in cleared
        /\ pc[r] = "next" /\ at[r] \in Gated => at[r] \in cleared
        /\ pc[r] = "acting" => at[r] \notin Gated
        /\ pc[r] = "completing" => Gated \subseteq cleared

GateInv ==
    /\ RowsCleared
    /\ SnapshotsCleared
    /\ RunnersBehindGates
    /\ GatesHold
    /\ CompletedMeansCleared

\* What a runner takes for done has been cleared.
LEMMA ExistingCleared ==
    ASSUME TypeOK, GateInv, NEW r \in Runners, NEW g \in Gated, ExistingSteps(r)[g] \in Done
    PROVE  g \in cleared
<1>1. CASE pc[r] = "begun"
  BY <1>1 DEF GateInv, RowsCleared, ExistingSteps
<1>2. CASE pc[r] = "rebegun"
  BY <1>2, StepsAssumption DEF ExistingSteps, NoRows, Done
<1>3. CASE pc[r] \notin {"begun", "rebegun"}
  BY <1>3 DEF GateInv, SnapshotsCleared, ExistingSteps
<1>4. QED
  BY <1>1, <1>2, <1>3

\* The gates before the next step have been cleared.
LEMMA NextStepBehindGates ==
    ASSUME TypeOK, GateInv, NEW r \in Runners, NEW s \in Steps, IsNextStep(r, s),
           NEW g \in Gated, g < s
    PROVE  g \in cleared
<1>1. g \in Steps /\ g \in Nat /\ at[r] \in Nat /\ s \in Nat
  BY StepsAssumption DEF TypeOK, RunnerTypes, Steps
<1>2. CASE at[r] < g
  BY <1>1, <1>2, ExistingCleared DEF IsNextStep
<1>3. CASE g < at[r]
  BY <1>3 DEF GateInv, RunnersBehindGates
<1>4. CASE g = at[r]
  BY <1>1, <1>4, StepsAssumption DEF GateInv, RunnersBehindGates, IsNextStep, Steps
<1>5. QED
  BY <1>1, <1>2, <1>3, <1>4

\* A runner that has no step left stands behind all gates.
LEMMA NoStepLeft ==
    ASSUME TypeOK, GateInv, NEW r \in Runners, pc[r] \in {"begun", "rebegun", "next"},
           \A s \in Steps : s > at[r] => ExistingSteps(r)[s] \in Done
    PROVE  Gated \subseteq cleared
<1> SUFFICES ASSUME NEW g \in Gated PROVE g \in cleared
  OBVIOUS
<1>1. g \in Steps /\ g \in Nat /\ at[r] \in Nat /\ g > 0
  BY StepsAssumption DEF TypeOK, RunnerTypes, Steps
<1>2. CASE at[r] < g
  BY <1>1, <1>2, ExistingCleared
<1>3. CASE g < at[r]
  BY <1>3 DEF GateInv, RunnersBehindGates
<1>4. CASE g = at[r]
  BY <1>1, <1>4 DEF GateInv, RunnersBehindGates
<1>5. QED
  BY <1>1, <1>2, <1>3, <1>4

\* A step that clears gates but never forgets one, moves no runner past a gate that is not
\* cleared and marks no such gate's row as done, preserves it.
LEMMA GatesKept ==
    ASSUME TypeOK, GateInv, cleared \subseteq cleared',
           \A g \in Gated : stepStatus'[g] \in Done => stepStatus[g] \in Done \/ g \in cleared',
           \A q \in Runners : snapshot'[q] = snapshot[q] \/ snapshot'[q] = NoRows,
           \A q \in Runners :
              \/ at'[q] = at[q] /\ pc'[q] = pc[q]
              \/ at'[q] = 0 /\ pc'[q] \notin {"acting", "completing"}
              \/ at'[q] = at[q] /\ pc'[q] \in {"gating", "failing", "wrapping"}
              \/ at'[q] = at[q] /\ at[q] \notin Gated /\ pc'[q] \in {"acting", "next"}
              \/ at'[q] = at[q] /\ Gated \subseteq cleared /\ pc'[q] = "completing",
           \A s \in acted' : s \in acted \/ \A g \in Gated : g <= s => g \in cleared,
           execStatus' = "completed" \/ "completed" \in announced'
              => \/ execStatus = "completed" \/ "completed" \in announced
                 \/ Gated \subseteq cleared
    PROVE  GateInv'
<1>1. RowsCleared'
  BY DEF GateInv, RowsCleared
<1>2. SnapshotsCleared'
  BY StepsAssumption DEF GateInv, SnapshotsCleared, NoRows, Done
<1>3. RunnersBehindGates'
  <2> SUFFICES ASSUME NEW q \in Runners
               PROVE  /\ pc'[q] \in {"idle", "queued", "begun", "rebegun"} => at'[q] = 0
                      /\ \A g \in Gated : g < at'[q] => g \in cleared'
                      /\ pc'[q] = "next" /\ at'[q] \in Gated => at'[q] \in cleared'
                      /\ pc'[q] = "acting" => at'[q] \notin Gated
                      /\ pc'[q] = "completing" => Gated \subseteq cleared'
    BY DEF RunnersBehindGates
  <2>1. /\ pc[q] \in {"idle", "queued", "begun", "rebegun"} => at[q] = 0
        /\ \A g \in Gated : g < at[q] => g \in cleared
        /\ pc[q] = "next" /\ at[q] \in Gated => at[q] \in cleared
        /\ pc[q] = "acting" => at[q] \notin Gated
        /\ pc[q] = "completing" => Gated \subseteq cleared
    BY DEF GateInv, RunnersBehindGates
  <2>2. \A g \in Gated : g \in Nat /\ g > 0
    BY StepsAssumption DEF Steps
  <2> QED
    BY <2>1, <2>2
<1>4. GatesHold'
  BY DEF GateInv, GatesHold
<1>5. CompletedMeansCleared'
  BY DEF GateInv, CompletedMeansCleared
<1>6. QED
  BY <1>1, <1>2, <1>3, <1>4, <1>5 DEF GateInv

\* Entering the next step preserves it, whether its row is then skipped, which clears its
\* gate, or started.
LEMMA EnterStepKeepsGates ==
    ASSUME TypeOK, GateInv, NEW r \in Runners, NEW s \in Steps, EnterStep(r, s),
           NEW status \in StepStatus, SetStep(s, status),
           cleared \subseteq cleared', status \in Done /\ s \in Gated => s \in cleared',
           \/ Goto(r, "starting")
           \/ Goto(r, "next") /\ (s \in Gated => s \in cleared'),
           UNCHANGED <<execStatus, announced, acted>>
    PROVE  GateInv'
<1>1. RowsCleared'
  BY StepsAssumption DEF GateInv, RowsCleared, SetStep, TypeOK, RowTypes
<1>2. SnapshotsCleared'
  <2> SUFFICES ASSUME NEW q \in Runners, NEW g \in Gated, snapshot'[q][g] \in Done
               PROVE  g \in cleared
    BY DEF SnapshotsCleared
  <2>1. CASE q = r
    BY <2>1, ExistingCleared DEF EnterStep, TypeOK, RunnerTypes
  <2>2. CASE q # r
    BY <2>2 DEF EnterStep, TypeOK, RunnerTypes, GateInv, SnapshotsCleared
  <2> QED
    BY <2>1, <2>2
<1>3. RunnersBehindGates'
  <2> SUFFICES ASSUME NEW q \in Runners
               PROVE  /\ pc'[q] \in {"idle", "queued", "begun", "rebegun"} => at'[q] = 0
                      /\ \A g \in Gated : g < at'[q] => g \in cleared'
                      /\ pc'[q] = "next" /\ at'[q] \in Gated => at'[q] \in cleared'
                      /\ pc'[q] = "acting" => at'[q] \notin Gated
                      /\ pc'[q] = "completing" => Gated \subseteq cleared'
    BY DEF RunnersBehindGates
  <2>1. CASE q = r
    <3>1. at'[q] = s /\ pc'[q] \in {"starting", "next"}
      BY <2>1 DEF EnterStep, Goto, TypeOK, RunnerTypes
    <3>2. pc'[q] = "next" => (s \in Gated => s \in cleared')
      BY <2>1 DEF Goto, TypeOK, RunnerTypes
    <3>3. \A g \in Gated : g < s => g \in cleared
      BY NextStepBehindGates DEF EnterStep
    <3> QED
      BY <3>1, <3>2, <3>3
  <2>2. CASE q # r
    <3>1. at'[q] = at[q] /\ pc'[q] = pc[q]
      BY <2>2 DEF EnterStep, Goto, TypeOK, RunnerTypes
    <3> QED
      BY <3>1 DEF GateInv, RunnersBehindGates
  <2> QED
    BY <2>1, <2>2
<1>4. GatesHold'
  BY DEF GateInv, GatesHold
<1>5. CompletedMeansCleared'
  BY DEF GateInv, CompletedMeansCleared
<1>6. QED
  BY <1>1, <1>2, <1>3, <1>4, <1>5 DEF GateInv

\* Every action preserves it.
LEMMA GateStep == TypeOK /\ GateInv /\ [Next]_vars => GateInv'
<1> SUFFICES ASSUME TypeOK, GateInv, [Next]_vars PROVE GateInv'
  OBVIOUS
<1> USE DEF rows, runnerVars, history
<1>1. /\ pc \in [Runners -> RunnerPc] /\ at \in [Runners -> 0..N]
      /\ snapshot \in [Runners -> [Steps -> StepStatus]]
      /\ stepStatus \in [Steps -> StepStatus]
      /\ Gated \subseteq Steps
  BY StepsAssumption DEF TypeOK, RowTypes, RunnerTypes
<1>2. \A r \in Runners :
         /\ pc[r] \in {"idle", "queued", "begun", "rebegun"} => at[r] = 0
         /\ pc[r] = "acting" => at[r] \notin Gated
         /\ pc[r] = "completing" => Gated \subseteq cleared
  BY DEF GateInv, RunnersBehindGates
<1>3. CASE UNCHANGED vars
  BY <1>3, GatesKept DEF vars
<1>4. ASSUME NEW r \in Runners, Start(r) \/ RunPipeline(r) \/ RestartAndResume(r)
      PROVE  GateInv'
  <2>1. UNCHANGED <<stepStatus, at, snapshot, cleared, acted>>
    BY <1>4 DEF Start, RunPipeline, RestartAndResume
  <2>2. execStatus' # "completed" /\ announced' = announced
    BY <1>4 DEF Start, BeginExecute, RunPipeline, RestartAndResume
  <2>3. PICK label \in {"failing", "begun", "rebegun", "queued"} : Goto(r, label)
    BY <1>4 DEF Start, BeginExecute, RunPipeline, RestartAndResume
  <2>4. at[r] = 0
    BY <1>2, <1>4 DEF Start, RunPipeline, RestartAndResume
  <2>5. \A q \in Runners : at'[q] = at[q] /\ (pc'[q] = pc[q] \/ (q = r /\ pc'[q] = label))
    BY <1>1, <2>1, <2>3 DEF Goto
  <2> QED
    BY <2>1, <2>2, <2>4, <2>5, GatesKept
<1>5. ASSUME NEW r \in Runners, FailOnExistingRow(r) PROVE GateInv'
  BY <1>1, <1>5, GatesKept DEF FailOnExistingRow, Goto
<1>6. ASSUME NEW r \in Runners, SkipStep(r) PROVE GateInv'
  <2>1. PICK s \in Steps : /\ EnterStep(r, s) /\ SetStep(s, "skipped") /\ Goto(r, "next")
                           /\ cleared' = cleared \cup ({s} \cap Gated)
                           /\ UNCHANGED <<execStatus, announced, acted>>
    BY <1>6, StepsAssumption DEF SkipStep
  <2> QED
    BY <2>1, EnterStepKeepsGates DEF StepStatus
<1>7. ASSUME NEW r \in Runners, StartStep(r) PROVE GateInv'
  <2>1. PICK s \in Steps : /\ EnterStep(r, s) /\ SetStep(s, "running") /\ Goto(r, "starting")
                           /\ UNCHANGED <<execStatus, announced, cleared, acted>>
    BY <1>7 DEF StartStep
  <2> QED
    BY <2>1, EnterStepKeepsGates DEF StepStatus, Done
<1>8. ASSUME NEW r \in Runners, WaitAtGate(r) PROVE GateInv'
  BY <1>1, <1>8, GatesKept DEF WaitAtGate, Goto, SetStep, Done
<1>9. ASSUME NEW r \in Runners, PauseAtGate(r) \/ KillCli(r) PROVE GateInv'
  BY <1>1, <1>9, GatesKept DEF PauseAtGate, KillCli, Release, Goto
<1>10. ASSUME NEW r \in Runners, Act(r) PROVE GateInv'
  <2>1. acted' = acted \cup {at[r]} /\ at[r] \notin Gated
    BY <1>10 DEF Act
  <2>2. \A g \in Gated : g <= at[r] => g \in cleared
    BY <1>1, <2>1, StepsAssumption DEF GateInv, RunnersBehindGates, Steps
  <2>3. \A q \in Runners :
           at'[q] = at[q] /\ (pc'[q] = pc[q] \/ (at[q] \notin Gated /\ pc'[q] = "acting"))
    BY <1>1, <1>10, <2>1 DEF Act, Goto
  <2>4. UNCHANGED <<execStatus, stepStatus, snapshot, announced, cleared>>
    BY <1>10 DEF Act
  <2> QED
    BY <2>1, <2>2, <2>3, <2>4, GatesKept
<1>11. ASSUME NEW r \in Runners, StepSucceeds(r) PROVE GateInv'
  <2>1. at[r] \notin Gated
    BY <1>2, <1>11 DEF StepSucceeds
  <2> QED
    BY <1>1, <1>11, <2>1, GatesKept DEF StepSucceeds, Goto, SetStep
<1>12. ASSUME NEW r \in Runners, StepFails(r) PROVE GateInv'
  BY <1>1, <1>12, GatesKept DEF StepFails, Goto, SetStep, Done
<1>13. ASSUME NEW r \in Runners, Finish(r) PROVE GateInv'
  <2>1. Gated \subseteq cleared
    BY <1>13, NoStepLeft DEF Finish
  <2>2. PICK label \in {"failing", "completing"} : Goto(r, label)
    BY <1>13 DEF Finish
  <2>3. \A q \in Runners : at'[q] = at[q] /\ (pc'[q] = pc[q] \/ pc'[q] = label)
    BY <1>1, <1>13, <2>2 DEF Finish, Goto
  <2>4. UNCHANGED <<stepStatus, snapshot, announced, cleared, acted>>
    BY <1>13 DEF Finish
  <2> QED
    BY <2>1, <2>2, <2>3, <2>4, GatesKept
<1>14. ASSUME NEW r \in Runners, AnnounceCompleted(r) PROVE GateInv'
  <2>1. Gated \subseteq cleared
    BY <1>2, <1>14 DEF AnnounceCompleted
  <2> QED
    BY <1>1, <1>14, <2>1, GatesKept DEF AnnounceCompleted, Release, Goto
<1>15. ASSUME NEW r \in Runners, AnnounceFailed(r) PROVE GateInv'
  <2>1. UNCHANGED <<execStatus, stepStatus, cleared, acted>>
    BY <1>15 DEF AnnounceFailed
  <2>2. "completed" \in announced' => "completed" \in announced
    BY <1>15 DEF AnnounceFailed, Announced
  <2>3. CASE via[r] = "task"
    <3>1. UNCHANGED <<at, snapshot>> /\ Goto(r, "wrapping")
      BY <1>15, <2>3 DEF AnnounceFailed
    <3> QED
      BY <1>1, <2>1, <2>2, <3>1, GatesKept DEF Goto
  <2>4. CASE via[r] # "task"
    <3>1. Release(r)
      BY <1>15, <2>4 DEF AnnounceFailed
    <3> QED
      BY <1>1, <2>1, <2>2, <3>1, GatesKept DEF Release, Goto
  <2> QED
    BY <2>3, <2>4
<1>16. ASSUME NEW r \in Runners, WrapFailure(r) PROVE GateInv'
  BY <1>1, <1>16, GatesKept DEF WrapFailure, Release, Goto, Done
<1>17. ASSUME NEW r \in Runners, NEW s \in Gated, Approve(r, s) PROVE GateInv'
  <2>1. /\ SetStep(s, "completed") /\ cleared' = cleared \cup {s}
        /\ UNCHANGED <<at, snapshot, announced, acted>>
    BY <1>17 DEF Approve
  <2>2. execStatus' # "completed" /\ at[r] = 0
    BY <1>2, <1>17 DEF Approve, Free, BeginExecute
  <2>3. PICK label \in {"failing", "begun", "rebegun"} : Goto(r, label)
    BY <1>17 DEF Approve, BeginExecute
  <2>4. \A q \in Runners : at'[q] = at[q] /\ (pc'[q] = pc[q] \/ (q = r /\ pc'[q] = label))
    BY <1>1, <2>1, <2>3 DEF Goto
  <2>5. \A g \in Gated : stepStatus'[g] \in Done => stepStatus[g] \in Done \/ g \in cleared'
    BY <1>1, <2>1 DEF SetStep
  <2> QED
    BY <2>1, <2>2, <2>4, <2>5, GatesKept
<1>18. ASSUME NEW r \in Runners, NEW from \in Steps, Resume(r, from) PROVE GateInv'
  <2>1. at[r] = 0
    BY <1>2, <1>18 DEF Resume, Free
  <2> QED
    BY <1>1, <1>18, <2>1, GatesKept DEF Resume, Goto, Done
<1>19. ASSUME NEW s \in Gated, Reject(s) \/ ExpireApproval(s) PROVE GateInv'
  BY <1>1, <1>19, GatesKept DEF Reject, ExpireApproval, SetStep, Done
<1>20. CASE BeginCancel \/ HeartbeatFails
  BY <1>20, GatesKept DEF BeginCancel, HeartbeatFails
<1>21. CASE FinishCancel
  BY <1>1, <1>21, GatesKept DEF FinishCancel, Done
<1>22. CASE Crash
  BY <1>1, <1>22, GatesKept DEF Crash
<1>23. CASE Restart
  BY <1>1, <1>23, GatesKept DEF Restart, Done
<1>24. QED
  BY <1>3, <1>4, <1>5, <1>6, <1>7, <1>8, <1>9, <1>10, <1>11, <1>12, <1>13, <1>14, <1>15,
     <1>16, <1>17, <1>18, <1>19, <1>20, <1>21, <1>22, <1>23 DEF Next, RunnerStep, RestartStep

\* Hence it holds throughout every run.
LEMMA GateInvariant == Spec => [](TypeOK /\ GateInv)
<1>1. Init => GateInv
  BY StepsAssumption DEF Init, GateInv, RowsCleared, SnapshotsCleared, RunnersBehindGates,
     GatesHold, CompletedMeansCleared, NoRows, Done, Steps
<1>2. QED
  BY <1>1, GateStep, TypeCorrect, PTL DEF Spec

\* In every run, no step acts before the gates up to it have been cleared, however many
\* coroutines, approvals, resumes, crashes and restarts there are.
THEOREM GatesAlwaysHold == Spec => []GatesHold
<1>1. GateInv => GatesHold
  BY DEF GateInv
<1>2. QED
  BY <1>1, GateInvariant, PTL

\* In every run, neither the row nor a notification says "completed" while a gate is
\* uncleared.
THEOREM CompletedAlwaysMeansCleared == Spec => []CompletedMeansCleared
<1>1. GateInv => CompletedMeansCleared
  BY DEF GateInv
<1>2. QED
  BY <1>1, GateInvariant, PTL

-----------------------------------------------------------------------------
(* The contract of the gates: each step of an execution is a step of it.   *)

\* Each action is an action of the contract or leaves what it speaks of alone.
LEMMA ContractStep ==
    TypeOK /\ GateInv /\ [Next]_vars => [Contract!Next]_(Contract!contractVars)
<1> SUFFICES ASSUME TypeOK, GateInv, [Next]_vars
             PROVE  [Contract!Next]_(Contract!contractVars)
  OBVIOUS
<1> USE DEF Contract!contractVars, rows, runnerVars, history
<1>1. ASSUME UNCHANGED <<execStatus, cleared, acted>>
      PROVE  [Contract!Next]_(Contract!contractVars)
  BY <1>1
<1>2. ASSUME execStatus' # "completed", UNCHANGED <<cleared, acted>>
      PROVE  [Contract!Next]_(Contract!contractVars)
  BY <1>2 DEF Contract!Next, Contract!Reopen
<1>3. CASE UNCHANGED vars
  BY <1>1, <1>3 DEF vars
<1>4. ASSUME NEW r \in Runners, SkipStep(r) PROVE [Contract!Next]_(Contract!contractVars)
  <2>1. PICK s \in Conditional : cleared' = cleared \cup ({s} \cap Gated)
    BY <1>4 DEF SkipStep
  <2>2. UNCHANGED <<execStatus, acted>>
    BY <1>4 DEF SkipStep
  <2>3. CASE s \in Gated
    BY <2>1, <2>2, <2>3 DEF Contract!Next, Contract!Clear
  <2>4. CASE s \notin Gated
    BY <1>1, <2>1, <2>2, <2>4
  <2> QED
    BY <2>3, <2>4
<1>5. ASSUME NEW r \in Runners, Act(r) PROVE [Contract!Next]_(Contract!contractVars)
  <2>1. at[r] \in Steps
    BY <1>5, StepsAssumption DEF Act, TypeOK, RunnerTypes, Steps
  <2>2. \A g \in Gated : g <= at[r] => g \in cleared
    BY <1>5, <2>1, StepsAssumption DEF Act, GateInv, RunnersBehindGates, Steps
  <2>3. Contract!Act(at[r])
    BY <1>5, <2>2 DEF Act, Contract!Act
  <2> QED
    BY <2>1, <2>3 DEF Contract!Next, Contract!Steps, Steps
<1>6. ASSUME NEW r \in Runners, Finish(r) PROVE [Contract!Next]_(Contract!contractVars)
  <2>1. Gated \subseteq cleared
    BY <1>6, NoStepLeft DEF Finish
  <2>2. CASE execStatus' = "completed"
    BY <1>6, <2>1, <2>2 DEF Finish, Contract!Next, Contract!Complete
  <2>3. CASE execStatus' # "completed"
    BY <1>6, <1>2, <2>3 DEF Finish
  <2> QED
    BY <2>2, <2>3
<1>7. ASSUME NEW r \in Runners, NEW s \in Gated, Approve(r, s)
      PROVE  [Contract!Next]_(Contract!contractVars)
  <2>1. execStatus' # "completed" /\ cleared' = cleared \cup {s} /\ UNCHANGED acted
    BY <1>7 DEF Approve, BeginExecute
  <2> QED
    BY <2>1 DEF Contract!Next, Contract!ClearAndReopen
<1>8. ASSUME NEW r \in Runners,
             \/ Start(r) \/ FailOnExistingRow(r) \/ PauseAtGate(r) \/ StepFails(r)
             \/ WrapFailure(r) \/ RunPipeline(r) \/ \E from \in Steps : Resume(r, from)
      PROVE  [Contract!Next]_(Contract!contractVars)
  BY <1>2, <1>8 DEF Start, BeginExecute, FailOnExistingRow, PauseAtGate, StepFails, WrapFailure,
     RunPipeline, Resume
<1>9. ASSUME NEW r \in Runners,
             \/ StartStep(r) \/ WaitAtGate(r) \/ StepSucceeds(r) \/ AnnounceCompleted(r)
             \/ AnnounceFailed(r) \/ KillCli(r) \/ RestartAndResume(r)
      PROVE  [Contract!Next]_(Contract!contractVars)
  BY <1>1, <1>9 DEF StartStep, WaitAtGate, StepSucceeds, AnnounceCompleted, AnnounceFailed,
     KillCli, RestartAndResume
<1>10. CASE \/ \E s \in Gated : Reject(s) \/ ExpireApproval(s)
            \/ FinishCancel \/ HeartbeatFails
  BY <1>2, <1>10 DEF Reject, ExpireApproval, FinishCancel, HeartbeatFails
<1>11. CASE BeginCancel \/ Crash
  BY <1>1, <1>11 DEF BeginCancel, Crash
<1>12. CASE Restart
  BY <1>1, <1>2, <1>12 DEF Restart
<1>13. QED
  BY <1>3, <1>4, <1>5, <1>6, <1>7, <1>8, <1>9, <1>10, <1>11, <1>12
     DEF Next, RunnerStep, RestartStep

\* The execution, with all its concurrency and failures, implements what the gates
\* promise.
THEOREM ExecutionImplementsContract == Spec => ImplementsContract
<1>1. Init => Contract!Init
  BY DEF Init, Contract!Init
<1>2. QED
  BY <1>1, ContractStep, GateInvariant, PTL DEF Spec, Contract!Spec, ImplementsContract

-----------------------------------------------------------------------------
(* The order of the step rows.  A runner creates the next row from its     *)
(* snapshot alone; what makes the order an invariant is that no row is     *)
(* ever deleted, so that the rows of the snapshot and those behind the     *)
(* runner are still there.                                                 *)

RowInv ==
    /\ RowsInOrder
    /\ \A r \in Runners, s \in Steps : snapshot[r][s] # "absent" => stepStatus[s] # "absent"
    /\ \A r \in Runners, s \in Steps : s <= at[r] => stepStatus[s] # "absent"
    /\ \A s \in token : stepStatus[s] # "absent"

\* A runner that loaded a row as done is right that there is a row.
LEMMA ExistingHasRow ==
    ASSUME TypeOK, RowInv, NEW r \in Runners, NEW s \in Steps,
           ExistingSteps(r)[s] # "absent"
    PROVE  stepStatus[s] # "absent"
<1>1. CASE pc[r] = "begun"
  BY <1>1 DEF ExistingSteps
<1>2. CASE pc[r] = "rebegun"
  BY <1>2 DEF ExistingSteps, NoRows
<1>3. CASE pc[r] \notin {"begun", "rebegun"}
  BY <1>3 DEF RowInv, ExistingSteps
<1>4. QED
  BY <1>1, <1>2, <1>3

\* The steps before the next one have rows.
LEMMA RowsBeforeNextStep ==
    ASSUME TypeOK, RowInv, NEW r \in Runners, NEW s \in Steps, IsNextStep(r, s),
           NEW t \in Steps, t < s
    PROVE  stepStatus[t] # "absent"
<1>1. t \in Nat /\ at[r] \in Nat
  BY StepsAssumption DEF TypeOK, RunnerTypes, Steps
<1>2. CASE t <= at[r]
  BY <1>2 DEF RowInv
<1>3. CASE at[r] < t
  <2>1. ExistingSteps(r)[t] # "absent"
    BY <1>3 DEF IsNextStep, Done
  <2> QED
    BY <2>1, ExistingHasRow
<1>4. QED
  BY <1>1, <1>2, <1>3

\* Entering a step, with whatever status is then written to its row, keeps the order.
LEMMA EnterStepKeepsRows ==
    ASSUME TypeOK, RowInv, NEW r \in Runners, NEW s \in Steps, EnterStep(r, s),
           NEW status \in StepStatus \ {"absent"}, SetStep(s, status), UNCHANGED token
    PROVE  RowInv'
<1>1. s \in Nat /\ N \in Nat
  BY StepsAssumption DEF Steps
<1>2. \A t \in Steps : stepStatus'[t] # "absent" <=> t = s \/ stepStatus[t] # "absent"
  BY DEF SetStep, TypeOK, RowTypes
<1>3. \A t \in Steps : t < s => stepStatus[t] # "absent"
  BY RowsBeforeNextStep DEF EnterStep
<1>4. RowsInOrder'
  BY <1>1, <1>2, <1>3 DEF RowInv, RowsInOrder, Steps
<1>5. ASSUME NEW q \in Runners, NEW t \in Steps, snapshot'[q][t] # "absent"
      PROVE  stepStatus'[t] # "absent"
  <2>1. CASE q = r
    BY <1>2, <1>5, <2>1, ExistingHasRow DEF EnterStep, TypeOK, RunnerTypes
  <2>2. CASE q # r
    BY <1>2, <1>5, <2>2 DEF EnterStep, TypeOK, RunnerTypes, RowInv
  <2> QED
    BY <2>1, <2>2
<1>6. ASSUME NEW q \in Runners, NEW t \in Steps, t <= at'[q]
      PROVE  stepStatus'[t] # "absent"
  <2>1. CASE q = r
    BY <1>1, <1>2, <1>3, <1>6, <2>1 DEF EnterStep, TypeOK, RunnerTypes, Steps
  <2>2. CASE q # r
    BY <1>2, <1>6, <2>2 DEF EnterStep, TypeOK, RunnerTypes, RowInv
  <2> QED
    BY <2>1, <2>2
<1>7. (\A t \in token : stepStatus[t] # "absent")'
  BY <1>2, StepsAssumption DEF RowInv, TypeOK, RowTypes
<1>8. QED
  BY <1>4, <1>5, <1>6, <1>7 DEF RowInv

\* A step that keeps every row, and moves no runner forward, keeps the order.
LEMMA RowsKept ==
    ASSUME TypeOK, RowInv,
           \A s \in Steps : stepStatus'[s] # "absent" <=> stepStatus[s] # "absent",
           \A r \in Runners : snapshot'[r] = snapshot[r] \/ snapshot'[r] = NoRows,
           \A r \in Runners : at'[r] = at[r] \/ at'[r] = 0,
           \A s \in token' : s \in Gated /\ stepStatus[s] # "absent"
    PROVE  RowInv'
<1>1. RowsInOrder'
  BY DEF RowInv, RowsInOrder
<1>2. (\A r \in Runners, s \in Steps : snapshot[r][s] # "absent" => stepStatus[s] # "absent")'
  BY DEF RowInv, NoRows
<1>3. (\A r \in Runners, s \in Steps : s <= at[r] => stepStatus[s] # "absent")'
  BY StepsAssumption DEF RowInv, Steps
<1>4. (\A s \in token : stepStatus[s] # "absent")'
  BY StepsAssumption
<1>5. QED
  BY <1>1, <1>2, <1>3, <1>4 DEF RowInv

\* Every action keeps the order.
LEMMA RowStep == TypeOK /\ RowInv /\ [Next]_vars => RowInv'
<1> SUFFICES ASSUME TypeOK, RowInv, [Next]_vars PROVE RowInv'
  OBVIOUS
<1> USE DEF rows, runnerVars, history
<1>1. \A s \in token : s \in Gated /\ s \in Steps /\ stepStatus[s] # "absent"
  BY StepsAssumption DEF RowInv, TypeOK, RowTypes
<1>2. ASSUME UNCHANGED <<stepStatus, token, at, snapshot>> PROVE RowInv'
  BY <1>1, <1>2, RowsKept
<1>3. ASSUME NEW s \in Steps, stepStatus[s] # "absent", UNCHANGED <<at, snapshot>>,
             NEW status \in StepStatus \ {"absent"}, SetStep(s, status),
             token' \subseteq token \cup ({s} \cap Gated)
      PROVE  RowInv'
  BY <1>1, <1>3, RowsKept DEF SetStep, TypeOK, RowTypes
<1>4. CASE UNCHANGED vars
  BY <1>2, <1>4 DEF vars
<1>5. ASSUME NEW r \in Runners, SkipStep(r) PROVE RowInv'
  BY <1>5, EnterStepKeepsRows, StepsAssumption DEF SkipStep, StepStatus
<1>6. ASSUME NEW r \in Runners, StartStep(r) PROVE RowInv'
  BY <1>6, EnterStepKeepsRows DEF StartStep, StepStatus
<1>7. ASSUME NEW r \in Runners, WaitAtGate(r) \/ StepSucceeds(r) \/ StepFails(r) PROVE RowInv'
  <2>1. PICK status \in StepStatus \ {"absent"} : SetStep(at[r], status)
    BY <1>7 DEF WaitAtGate, StepSucceeds, StepFails, StepStatus
  <2>2. at[r] # 0 /\ UNCHANGED <<at, snapshot>> /\ token' \subseteq token \cup ({at[r]} \cap Gated)
    BY <1>7 DEF WaitAtGate, StepSucceeds, StepFails, TypeOK, RunnerTypes
  <2>3. at[r] \in Steps /\ stepStatus[at[r]] # "absent"
    BY <2>2, StepsAssumption DEF TypeOK, RunnerTypes, RowInv, Steps
  <2> QED
    BY <1>3, <2>1, <2>2, <2>3
<1>8. ASSUME NEW r \in Runners,
             PauseAtGate(r) \/ AnnounceCompleted(r) \/ AnnounceFailed(r) \/ KillCli(r)
      PROVE  RowInv'
  <2>1. UNCHANGED <<stepStatus, token>>
    BY <1>8 DEF PauseAtGate, AnnounceCompleted, AnnounceFailed, KillCli
  <2>2. Release(r) \/ UNCHANGED <<at, snapshot>>
    BY <1>8 DEF PauseAtGate, AnnounceCompleted, AnnounceFailed, KillCli
  <2> QED
    BY <1>1, <2>1, <2>2, RowsKept DEF Release, TypeOK, RunnerTypes
<1>9. ASSUME NEW r \in Runners, WrapFailure(r) PROVE RowInv'
  BY <1>1, <1>9, RowsKept DEF WrapFailure, Release, TypeOK, RowTypes, RunnerTypes
<1>10. ASSUME NEW r \in Runners, NEW s \in Gated, Approve(r, s) PROVE RowInv'
  BY <1>1, <1>3, <1>10 DEF Approve, StepStatus
<1>11. ASSUME NEW s \in Gated, Reject(s) \/ ExpireApproval(s) PROVE RowInv'
  <2>1. s \in Steps /\ stepStatus[s] # "absent"
    BY <1>1, <1>11, StepsAssumption DEF Reject, ExpireApproval
  <2> QED
    BY <1>3, <1>11, <2>1 DEF Reject, ExpireApproval, StepStatus
<1>12. ASSUME NEW r \in Runners, NEW from \in Steps, Resume(r, from) PROVE RowInv'
  BY <1>1, <1>12, RowsKept DEF Resume, TypeOK, RowTypes
<1>13. CASE FinishCancel
  BY <1>1, <1>13, RowsKept DEF FinishCancel, TypeOK, RowTypes
<1>14. CASE Restart
  BY <1>1, <1>14, RowsKept DEF Restart, TypeOK, RowTypes
<1>15. CASE Crash
  BY <1>1, <1>15, RowsKept DEF Crash, TypeOK, RunnerTypes
<1>16. CASE BeginCancel \/ HeartbeatFails
  BY <1>2, <1>16 DEF BeginCancel, HeartbeatFails
<1>17. ASSUME NEW r \in Runners,
              \/ Start(r) \/ FailOnExistingRow(r) \/ Act(r) \/ Finish(r)
              \/ RunPipeline(r) \/ RestartAndResume(r)
       PROVE  RowInv'
  BY <1>2, <1>17 DEF Start, FailOnExistingRow, Act, Finish, RunPipeline, RestartAndResume
<1>18. QED
  BY <1>4, <1>5, <1>6, <1>7, <1>8, <1>9, <1>10, <1>11, <1>12, <1>13, <1>14, <1>15, <1>16,
     <1>17 DEF Next, RunnerStep, RestartStep

\* In every run the step rows exist in definition order, so that what reset_steps_from
\* resets is a step and every later one.
THEOREM RowsAlwaysInOrder == Spec => []RowsInOrder
<1>1. Init => RowInv
  BY StepsAssumption DEF Init, RowInv, RowsInOrder, NoRows, Steps
<1>2. RowInv => RowsInOrder
  BY DEF RowInv
<1>3. QED
  BY <1>1, <1>2, RowStep, TypeCorrect, PTL DEF Spec

-----------------------------------------------------------------------------
(***************************************************************************)
(* While one coroutine at a time executes the run: users leave it alone    *)
(* meanwhile (OneAtATime), and a restart does not resume it beside a       *)
(* coroutine of the command line.  Runs may be slow, so that the heartbeat *)
(* fails them under their coroutine.                                       *)
(***************************************************************************)

\* The condition of the theorems: who may start a coroutine for the run.
Solo == OneAtATime /\ (ResumeOnRestart => Clis = {})

\* Where a runner has a step and a snapshot.
Walking == {"starting", "acting", "gating", "next"}

\* What the row of a finished step may become while a coroutine goes on: its gate may be
\* rejected, or expire.
Settled == Done \cup {"failed"}

\* At most one coroutine lives, none before run_pipeline, and the daemon's die with it.
OneRunner ==
    /\ \A r, q \in Runners : pc[r] # "idle" /\ pc[q] # "idle" => r = q
    /\ execStatus = "absent" => \A r \in Runners : pc[r] = "idle"
    /\ ~daemonUp => \A r \in Runners \ Clis : pc[r] = "idle"

\* The rows a runner left behind, or will skip, are settled; of those ahead it knows all
\* that are done, and the one it is at is not.
Walk(r) ==
    pc[r] \in Walking => \A s \in Steps :
        /\ s < at[r] \/ (s = at[r] /\ pc[r] = "next") => stepStatus[s] \in Settled
        /\ s > at[r] /\ snapshot[r][s] \in Done => stepStatus[s] \in Settled
        /\ s > at[r] /\ stepStatus[s] \in Done => snapshot[r][s] \in Done
        /\ s = at[r] /\ pc[r] # "next" => stepStatus[s] \notin Done

Walks == \A r \in Runners : Walk(r)

\* A completed run is done with, by its rows and by its coroutine.
Completed ==
    execStatus = "completed" =>
        /\ \A s \in Steps : stepStatus[s] \in Done
        /\ \A r \in Runners : pc[r] \in {"idle", "completing"}

\* A runner about to pause the run has left a token, as has every one that did.
Tokens ==
    /\ \A r \in Runners : pc[r] = "gating" => at[r] \in token
    /\ PausedIsApprovable

SoloInv == OneRunner /\ Walks /\ Completed /\ Tokens

-----------------------------------------------------------------------------
(* Who lives.                                                              *)

\* When one runner moves, and it is the one that lives or none does, one lives.
LEMMA OneMoves ==
    ASSUME TypeOK, OneRunner, NEW r \in Runners, NEW label \in RunnerPc, Goto(r, label),
           pc[r] # "idle" \/ \A q \in Runners : pc[q] = "idle",
           execStatus' # "absent", UNCHANGED daemonUp,
           pc[r] # "idle" \/ daemonUp \/ r \in Clis
    PROVE  OneRunner'
<1>1. \A q \in Runners : pc'[q] = IF q = r THEN label ELSE pc[q]
  BY DEF Goto, TypeOK, RunnerTypes
<1>2. \A q \in Runners : q # r => pc[q] = "idle"
  BY DEF OneRunner
<1>3. ~daemonUp => r \in Clis
  BY DEF OneRunner
<1>4. QED
  BY <1>1, <1>2, <1>3 DEF OneRunner

\* One step of a coroutine moves that coroutine only.
LEMMA RunnerMoves ==
    ASSUME TypeOK, OneRunner, NEW r \in Runners, RunnerStep(r)
    PROVE  /\ pc[r] # "idle"
           /\ \E label \in RunnerPc : Goto(r, label)
           /\ execStatus' # "absent"
           /\ UNCHANGED daemonUp
<1> USE DEF Goto, RunnerPc
<1>1. pc[r] # "idle" => execStatus # "absent"
  BY DEF OneRunner
<1>2. CASE Start(r) \/ FailOnExistingRow(r) \/ Act(r)
  BY <1>1, <1>2 DEF Start, BeginExecute, FailOnExistingRow, IsNextStep, Act, rows
<1>3. CASE SkipStep(r) \/ StartStep(r)
  BY <1>1, <1>3 DEF SkipStep, StartStep, EnterStep, IsNextStep
<1>4. CASE WaitAtGate(r) \/ PauseAtGate(r) \/ StepSucceeds(r) \/ StepFails(r)
  BY <1>1, <1>4 DEF WaitAtGate, PauseAtGate, StepSucceeds, StepFails, Release
<1>5. CASE Finish(r)
  BY <1>1, <1>5 DEF Finish
<1>6. CASE AnnounceCompleted(r) \/ WrapFailure(r)
  BY <1>1, <1>6 DEF AnnounceCompleted, WrapFailure, Release, rows
<1>7. CASE AnnounceFailed(r)
  BY <1>1, <1>7 DEF AnnounceFailed, Release, rows
<1>8. QED
  BY <1>2, <1>3, <1>4, <1>5, <1>6, <1>7 DEF RunnerStep

\* At most one coroutine lives after every step.
LEMMA OneRunnerStep == Solo /\ TypeOK /\ OneRunner /\ [Next]_vars => OneRunner'
<1> SUFFICES ASSUME Solo, TypeOK, OneRunner, [Next]_vars PROVE OneRunner'
  OBVIOUS
<1> USE DEF rows, runnerVars
<1>1. ASSUME UNCHANGED <<pc, daemonUp>>, execStatus' = "absent" => execStatus = "absent"
      PROVE  OneRunner'
  BY <1>1 DEF OneRunner
<1>2. CASE UNCHANGED vars
  BY <1>1, <1>2 DEF vars
<1>3. ASSUME NEW r \in Runners, RunnerStep(r) PROVE OneRunner'
  BY <1>3, RunnerMoves, OneMoves
<1>4. ASSUME NEW r \in Runners, RunPipeline(r) PROVE OneRunner'
  <2>1. \A q \in Runners : pc[q] = "idle"
    BY <1>4 DEF RunPipeline, OneRunner
  <2> QED
    BY <1>4, <2>1, OneMoves DEF RunPipeline, RunnerPc
<1>5. ASSUME NEW r \in Runners, NEW s \in Gated, Approve(r, s) PROVE OneRunner'
  <2>1. \A q \in Runners : pc[q] = "idle"
    BY <1>5 DEF Approve, Free, Solo
  <2>2. execStatus' # "absent" /\ \E label \in RunnerPc : Goto(r, label)
    BY <1>5 DEF Approve, BeginExecute, RunnerPc
  <2> QED
    BY <1>5, <2>1, <2>2, OneMoves DEF Approve
<1>6. ASSUME NEW r \in Runners, NEW from \in Steps, Resume(r, from) PROVE OneRunner'
  <2>1. \A q \in Runners : pc[q] = "idle"
    BY <1>6 DEF Resume, Free, Solo
  <2> QED
    BY <1>6, <2>1, OneMoves DEF Resume, RunnerPc
<1>7. ASSUME NEW r \in Runners, KillCli(r) PROVE OneRunner'
  <2>1. execStatus' # "absent"
    BY <1>7 DEF KillCli, OneRunner
  <2> QED
    BY <1>7, <2>1, OneMoves DEF KillCli, Release, RunnerPc
<1>8. ASSUME NEW r \in Runners, RestartAndResume(r) PROVE OneRunner'
  <2>1. Clis = {} /\ \A q \in Runners : pc[q] = "idle"
    BY <1>8 DEF RestartAndResume, Solo, OneRunner
  <2>2. \A q \in Runners : pc'[q] = IF q = r THEN "queued" ELSE pc[q]
    BY <1>8 DEF RestartAndResume, Goto, TypeOK, RunnerTypes
  <2> QED
    BY <1>8, <2>1, <2>2 DEF RestartAndResume, OneRunner
<1>9. ASSUME NEW s \in Gated, Reject(s) \/ ExpireApproval(s) PROVE OneRunner'
  BY <1>1, <1>9 DEF Reject, ExpireApproval
<1>10. CASE BeginCancel \/ FinishCancel \/ HeartbeatFails
  BY <1>1, <1>10 DEF BeginCancel, FinishCancel, HeartbeatFails
<1>11. CASE Crash
  BY <1>11 DEF Crash, OneRunner
<1>12. CASE Restart
  BY <1>12 DEF Restart, OneRunner
<1>13. QED
  BY <1>2, <1>3, <1>4, <1>5, <1>6, <1>7, <1>8, <1>9, <1>10, <1>11, <1>12
  DEF Next, RestartStep

-----------------------------------------------------------------------------
(* Where the coroutine walks.                                              *)

\* A step that moves no walking runner, unsettles no row, and finishes none, keeps it.
LEMMA WalksKept ==
    ASSUME Walks,
           \A q \in Runners : pc'[q] \in Walking =>
              /\ pc[q] \in Walking /\ (pc'[q] = "next" <=> pc[q] = "next")
              /\ at'[q] = at[q] /\ snapshot'[q] = snapshot[q],
           \A s \in Steps : stepStatus[s] \in Settled => stepStatus'[s] \in Settled,
           \A s \in Steps : stepStatus'[s] \in Done => stepStatus[s] \in Done
    PROVE  Walks'
<1> SUFFICES ASSUME NEW q \in Runners, pc'[q] \in Walking, NEW s \in Steps
             PROVE  /\ s < at'[q] \/ (s = at'[q] /\ pc'[q] = "next") => stepStatus'[s] \in Settled
                    /\ s > at'[q] /\ snapshot'[q][s] \in Done => stepStatus'[s] \in Settled
                    /\ s > at'[q] /\ stepStatus'[s] \in Done => snapshot'[q][s] \in Done
                    /\ s = at'[q] /\ pc'[q] # "next" => stepStatus'[s] \notin Done
  BY DEF Walks, Walk
<1> QED
  BY DEF Walks, Walk

\* The rows a runner that looks for its next step left behind, or will skip, are settled,
\* and it knows all that are done.
LEMMA Found ==
    ASSUME TypeOK, GateInv, RowInv, Walks, NEW r \in Runners,
           pc[r] \in {"begun", "rebegun", "next"}, NEW s \in Steps
    PROVE  /\ s <= at[r] => stepStatus[s] \in Settled
           /\ s > at[r] /\ ExistingSteps(r)[s] \in Done => stepStatus[s] \in Settled
           /\ s > at[r] /\ stepStatus[s] \in Done =>
                 \/ ExistingSteps(r)[s] \in Done
                 \/ pc[r] = "rebegun" /\ \A t \in Steps : t < s => stepStatus[t] # "absent"
<1>1. s \in Nat /\ s > 0 /\ at[r] \in Nat
  BY StepsAssumption DEF TypeOK, RunnerTypes, Steps
<1>2. CASE pc[r] = "next"
  BY <1>1, <1>2 DEF Walks, Walk, Walking, ExistingSteps
<1>3. pc[r] # "next" => at[r] = 0
  BY DEF GateInv, RunnersBehindGates
<1>4. CASE pc[r] = "begun"
  BY <1>1, <1>3, <1>4 DEF ExistingSteps, Settled
<1>5. CASE pc[r] = "rebegun"
  BY <1>1, <1>3, <1>5 DEF ExistingSteps, NoRows, Done, RowInv, RowsInOrder
<1>6. QED
  BY <1>2, <1>4, <1>5

\* The next step is not done, the ones before it are settled, and the ones behind it are
\* as the runner remembers them.
LEMMA EnterStepFinds ==
    ASSUME TypeOK, GateInv, RowInv, Walks, NEW r \in Runners, NEW s \in Steps, EnterStep(r, s)
    PROVE  /\ stepStatus[s] \notin Done
           /\ \A t \in Steps :
                /\ t < s => stepStatus[t] \in Settled
                /\ t > s /\ snapshot'[r][t] \in Done => stepStatus[t] \in Settled
                /\ t > s /\ stepStatus[t] \in Done => snapshot'[r][t] \in Done
<1>1. pc[r] \in {"begun", "rebegun", "next"} /\ IsNextStep(r, s) /\ ~RowClash(r, s)
  BY DEF EnterStep, IsNextStep
<1>2. snapshot'[r] = ExistingSteps(r)
  BY DEF EnterStep, TypeOK, RunnerTypes
<1>3. \A t \in Steps : t \in Nat /\ t > 0 /\ at[r] \in Nat
  BY StepsAssumption DEF TypeOK, RunnerTypes, Steps
<1>4. pc[r] = "rebegun" => stepStatus[s] = "absent"
  BY <1>1 DEF RowClash, ExistingSteps, NoRows
<1>5. stepStatus[s] \notin Done
  BY <1>1, <1>4, Found DEF IsNextStep, Done
<1>6. ASSUME NEW t \in Steps, t < s PROVE stepStatus[t] \in Settled
  BY <1>1, <1>3, <1>6, Found DEF IsNextStep
<1>7. ASSUME NEW t \in Steps, t > s, snapshot'[r][t] \in Done PROVE stepStatus[t] \in Settled
  BY <1>1, <1>2, <1>3, <1>7, Found DEF IsNextStep
<1>8. ASSUME NEW t \in Steps, t > s, stepStatus[t] \in Done PROVE snapshot'[r][t] \in Done
  BY <1>1, <1>2, <1>3, <1>4, <1>8, Found DEF IsNextStep
<1>9. QED
  BY <1>5, <1>6, <1>7, <1>8

\* Entering a step starts the walk, or carries it on.
LEMMA EnterStepWalks ==
    ASSUME TypeOK, GateInv, RowInv, OneRunner, Walks, NEW r \in Runners, NEW s \in Steps,
           EnterStep(r, s),
           \/ SetStep(s, "skipped") /\ Goto(r, "next")
           \/ SetStep(s, "running") /\ Goto(r, "starting")
    PROVE  Walks'
<1> SUFFICES ASSUME NEW q \in Runners, pc'[q] \in Walking PROVE Walk(q)'
  BY DEF Walks, Walk
<1>1. pc[r] # "idle"
  BY DEF EnterStep, IsNextStep
<1>2. q = r
  BY <1>1 DEF OneRunner, Goto, TypeOK, RunnerTypes, Walking
<1>3. at'[r] = s /\ \A t \in Steps : t # s => stepStatus'[t] = stepStatus[t]
  BY DEF EnterStep, SetStep, TypeOK, RunnerTypes, RowTypes
<1>4. \/ pc'[r] = "next" /\ stepStatus'[s] = "skipped"
      \/ pc'[r] = "starting" /\ stepStatus'[s] = "running"
  BY DEF Goto, SetStep, TypeOK, RunnerTypes, RowTypes
<1>5. \A t \in Steps : t \in Nat
  BY StepsAssumption DEF Steps
<1>6. QED
  BY <1>2, <1>3, <1>4, <1>5, EnterStepFinds DEF Walk, Done, Settled

\* Every action keeps it.
LEMMA WalksStep ==
    Solo /\ TypeOK /\ GateInv /\ RowInv /\ OneRunner /\ Walks /\ [Next]_vars => Walks'
<1> SUFFICES ASSUME Solo, TypeOK, GateInv, RowInv, OneRunner, Walks, [Next]_vars PROVE Walks'
  OBVIOUS
<1> USE DEF rows, runnerVars
<1>1. ASSUME UNCHANGED <<stepStatus, pc, at, snapshot>> PROVE Walks'
  BY <1>1, WalksKept
<1>2. ASSUME NEW r \in Runners, NEW label \in RunnerPc \ Walking, Goto(r, label),
             \A q \in Runners \ {r} : at'[q] = at[q] /\ snapshot'[q] = snapshot[q],
             \A s \in Steps : \/ stepStatus'[s] = stepStatus[s]
                              \/ stepStatus[s] \notin Done /\ stepStatus'[s] = "failed"
      PROVE  Walks'
  BY <1>2, WalksKept DEF Goto, TypeOK, RunnerTypes, Settled, Done
<1>3. ASSUME \A q \in Runners : pc'[q] \notin Walking PROVE Walks'
  BY <1>3 DEF Walks, Walk
<1>4. CASE UNCHANGED vars
  BY <1>1, <1>4 DEF vars
<1>5. ASSUME NEW r \in Runners, Start(r) \/ FailOnExistingRow(r) \/ Finish(r) \/ RunPipeline(r)
                                \/ RestartAndResume(r)
      PROVE  Walks'
  <2>1. \E label \in RunnerPc \ Walking : Goto(r, label)
    BY <1>5 DEF Start, BeginExecute, FailOnExistingRow, Finish, RunPipeline, RestartAndResume,
                RunnerPc, Walking
  <2>2. UNCHANGED <<stepStatus, at, snapshot>>
    BY <1>5 DEF Start, FailOnExistingRow, Finish, RunPipeline, RestartAndResume
  <2> QED
    BY <1>2, <2>1, <2>2
<1>6. ASSUME NEW r \in Runners, SkipStep(r) \/ StartStep(r) PROVE Walks'
  BY <1>6, EnterStepWalks, StepsAssumption DEF SkipStep, StartStep
<1>7. ASSUME NEW r \in Runners, WaitAtGate(r) \/ Act(r) \/ StepSucceeds(r) PROVE Walks'
  <2> SUFFICES ASSUME NEW q \in Runners, pc'[q] \in Walking PROVE Walk(q)'
    BY DEF Walks, Walk
  <2>1. pc[r] \in {"starting", "acting"}
    BY <1>7 DEF WaitAtGate, Act, StepSucceeds
  <2>2. q = r
    BY <1>7, <2>1 DEF WaitAtGate, Act, StepSucceeds, OneRunner, Goto, TypeOK, RunnerTypes, Walking
  <2>3. UNCHANGED <<at, snapshot>> /\ at[r] \in Nat
    BY <1>7, StepsAssumption DEF WaitAtGate, Act, StepSucceeds, TypeOK, RunnerTypes
  <2>4. \A s \in Steps : s # at[r] => stepStatus'[s] = stepStatus[s]
    BY <1>7 DEF WaitAtGate, Act, StepSucceeds, SetStep, TypeOK, RowTypes
  <2>5. \A s \in Steps : s = at[r] =>
            \/ pc'[r] \in {"gating", "acting"} /\ stepStatus'[s] \notin Done
            \/ pc'[r] = "next" /\ stepStatus'[s] = "completed"
    BY <1>7, <2>1 DEF WaitAtGate, Act, StepSucceeds, SetStep, Goto, TypeOK, RowTypes, RunnerTypes,
                      Walks, Walk, Walking, Done
  <2>6. \A s \in Steps : s \in Nat
    BY StepsAssumption DEF Steps
  <2> QED
    BY <2>1, <2>2, <2>3, <2>4, <2>5, <2>6 DEF Walks, Walk, Walking, Settled, Done
<1>8. ASSUME NEW r \in Runners, StepFails(r) PROVE Walks'
  <2>1. \A s \in Steps : \/ stepStatus'[s] = stepStatus[s]
                         \/ stepStatus[s] \notin Done /\ stepStatus'[s] = "failed"
    BY <1>8 DEF StepFails, SetStep, TypeOK, RowTypes, Walks, Walk, Walking
  <2> QED
    BY <1>2, <1>8, <2>1 DEF StepFails, RunnerPc, Walking
<1>9. ASSUME NEW r \in Runners, PauseAtGate(r) \/ AnnounceCompleted(r) \/ KillCli(r) \/ WrapFailure(r)
      PROVE  Walks'
  <2>1. Release(r)
    BY <1>9 DEF PauseAtGate, AnnounceCompleted, KillCli, WrapFailure
  <2>2. \A s \in Steps : \/ stepStatus'[s] = stepStatus[s]
                         \/ stepStatus[s] \notin Done /\ stepStatus'[s] = "failed"
    BY <1>9 DEF PauseAtGate, AnnounceCompleted, KillCli, WrapFailure, Done
  <2> QED
    BY <1>2, <2>1, <2>2 DEF Release, TypeOK, RunnerTypes, RunnerPc, Walking
<1>10. ASSUME NEW r \in Runners, AnnounceFailed(r) PROVE Walks'
  <2>1. (\E label \in RunnerPc \ Walking : Goto(r, label)) /\ UNCHANGED stepStatus
    BY <1>10 DEF AnnounceFailed, Release, RunnerPc, Walking
  <2>2. \A q \in Runners \ {r} : at'[q] = at[q] /\ snapshot'[q] = snapshot[q]
    BY <1>10 DEF AnnounceFailed, Release, TypeOK, RunnerTypes
  <2> QED
    BY <1>2, <2>1, <2>2
<1>11. ASSUME NEW r \in Runners, NEW s \in Gated, Approve(r, s) PROVE Walks'
  BY <1>3, <1>11 DEF Approve, Free, Solo, BeginExecute, Goto, TypeOK, RunnerTypes, Walking
<1>12. ASSUME NEW r \in Runners, NEW from \in Steps, Resume(r, from) PROVE Walks'
  BY <1>3, <1>12 DEF Resume, Free, Solo, Goto, TypeOK, RunnerTypes, Walking
<1>13. ASSUME NEW s \in Gated, Reject(s) \/ ExpireApproval(s) PROVE Walks'
  BY <1>13, WalksKept DEF Reject, ExpireApproval, SetStep, TypeOK, RowTypes, Settled, Done
<1>14. CASE FinishCancel
  BY <1>14, WalksKept DEF FinishCancel, Settled, Done
<1>15. CASE BeginCancel \/ HeartbeatFails
  BY <1>1, <1>15 DEF BeginCancel, HeartbeatFails
<1>16. CASE Crash
  BY <1>16, WalksKept DEF Crash, Walking
<1>17. CASE Restart
  BY <1>17, WalksKept DEF Restart, Settled, Done
<1>18. QED
  BY <1>4, <1>5, <1>6, <1>7, <1>8, <1>9, <1>10, <1>11, <1>12, <1>13, <1>14, <1>15, <1>16, <1>17
  DEF Next, RunnerStep, RestartStep

-----------------------------------------------------------------------------
(* What a run that completed, paused, or goes on may rely on.              *)

\* Every action keeps a completed run's rows done, or ends its being completed.
LEMMA CompletedStep ==
    Solo /\ TypeOK /\ GateInv /\ RowInv /\ OneRunner /\ Walks /\ Completed /\ [Next]_vars
        => Completed'
<1> SUFFICES ASSUME Solo, TypeOK, GateInv, RowInv, OneRunner, Walks, Completed, [Next]_vars,
                    execStatus' = "completed"
             PROVE  /\ \A s \in Steps : stepStatus'[s] \in Done
                    /\ \A r \in Runners : pc'[r] \in {"idle", "completing"}
  BY DEF Completed
<1> DEFINE Goal == /\ \A s \in Steps : stepStatus'[s] \in Done
                   /\ \A r \in Runners : pc'[r] \in {"idle", "completing"}
<1> USE DEF rows, runnerVars
<1>1. ASSUME NEW r \in Runners, Finish(r) PROVE Goal
  <2>1. /\ pc[r] \in {"begun", "rebegun", "next"}
        /\ \A s \in Steps : s > at[r] => ExistingSteps(r)[s] \in Done
        /\ \A s \in Steps : stepStatus[s] # "failed"
        /\ Goto(r, "completing")
        /\ stepStatus' = stepStatus
    BY <1>1 DEF Finish
  <2>2. \A s \in Steps : s <= at[r] \/ s > at[r]
    BY StepsAssumption DEF TypeOK, RunnerTypes, Steps
  <2>3. \A s \in Steps : stepStatus'[s] \in Done
    BY <2>1, <2>2, Found DEF Settled
  <2>4. \A q \in Runners : pc'[q] \in {"idle", "completing"}
    BY <2>1 DEF OneRunner, Goto, TypeOK, RunnerTypes
  <2> QED
    BY <2>3, <2>4
<1>2. ASSUME execStatus = "completed", UNCHANGED stepStatus,
             \A r \in Runners : pc'[r] \in {pc[r], "idle"}
      PROVE  Goal
  BY <1>2 DEF Completed
<1>3. CASE UNCHANGED vars
  BY <1>2, <1>3 DEF vars
<1>4. ASSUME NEW r \in Runners, AnnounceCompleted(r) \/ KillCli(r) PROVE Goal
  BY <1>2, <1>4 DEF AnnounceCompleted, KillCli, Release, Goto, TypeOK, RunnerTypes
<1>5. CASE Crash \/ BeginCancel
  BY <1>2, <1>5 DEF Crash, BeginCancel
<1>6. CASE Restart
  BY <1>2, <1>6 DEF Restart
<1>7. ASSUME NEW r \in Runners, RunnerStep(r), ~Finish(r), ~AnnounceCompleted(r) PROVE FALSE
  <2>1. pc[r] \notin {"idle", "completing"} => execStatus # "completed"
    BY DEF Completed
  <2>2. CASE Start(r) \/ FailOnExistingRow(r) \/ StepFails(r) \/ WrapFailure(r)
    BY <2>2 DEF Start, BeginExecute, FailOnExistingRow, StepFails, WrapFailure, Terminal
  <2>3. CASE SkipStep(r) \/ StartStep(r)
    BY <2>1, <2>3 DEF SkipStep, StartStep, EnterStep, IsNextStep
  <2>4. CASE WaitAtGate(r) \/ PauseAtGate(r) \/ Act(r) \/ StepSucceeds(r) \/ AnnounceFailed(r)
    BY <2>1, <2>4 DEF WaitAtGate, PauseAtGate, Act, StepSucceeds, AnnounceFailed
  <2> QED
    BY <1>7, <2>2, <2>3, <2>4 DEF RunnerStep
<1>8. ASSUME NEW r \in Runners, RunPipeline(r) \/ RestartAndResume(r) PROVE FALSE
  BY <1>8 DEF RunPipeline, RestartAndResume
<1>9. ASSUME NEW r \in Runners, NEW s \in Gated, Approve(r, s) PROVE FALSE
  BY <1>9 DEF Approve, BeginExecute, Terminal
<1>10. ASSUME NEW r \in Runners, NEW from \in Steps, Resume(r, from) PROVE FALSE
  BY <1>10 DEF Resume
<1>11. ASSUME NEW s \in Gated, Reject(s) \/ ExpireApproval(s) PROVE FALSE
  BY <1>11 DEF Reject, ExpireApproval
<1>12. ~FinishCancel /\ ~HeartbeatFails
  BY DEF FinishCancel, HeartbeatFails
<1>13. QED
  BY <1>1, <1>3, <1>4, <1>5, <1>6, <1>7, <1>8, <1>9, <1>10, <1>11, <1>12 DEF Next, RestartStep

\* Every action keeps the tokens of a run that pauses, or has.
LEMMA TokensStep == Solo /\ TypeOK /\ Tokens /\ [Next]_vars => Tokens'
<1> SUFFICES ASSUME Solo, TypeOK, Tokens, [Next]_vars PROVE Tokens'
  OBVIOUS
<1> USE DEF rows, runnerVars
<1>1. ASSUME token \subseteq token',
             \A q \in Runners : pc'[q] = "gating" => pc[q] = "gating" /\ at'[q] = at[q],
             execStatus' \in {execStatus} \cup (ExecutionStatus \ {"waiting_approval"})
      PROVE  Tokens'
  BY <1>1 DEF Tokens, PausedIsApprovable
<1>2. ASSUME NEW r \in Runners, NEW label \in RunnerPc \ {"gating"}, Goto(r, label),
             UNCHANGED token, \A q \in Runners \ {r} : at'[q] = at[q],
             execStatus' \in {execStatus} \cup (ExecutionStatus \ {"waiting_approval"})
      PROVE  Tokens'
  BY <1>1, <1>2 DEF Goto, TypeOK, RunnerTypes
<1>3. CASE UNCHANGED vars
  BY <1>1, <1>3 DEF vars
<1>4. ASSUME NEW r \in Runners, WaitAtGate(r) PROVE Tokens'
  BY <1>4 DEF WaitAtGate, Goto, TypeOK, RunnerTypes, Tokens, PausedIsApprovable
<1>5. ASSUME NEW r \in Runners, PauseAtGate(r) PROVE Tokens'
  BY <1>5 DEF PauseAtGate, Release, Goto, TypeOK, RunnerTypes, Tokens, PausedIsApprovable
<1>6. ASSUME NEW r \in Runners, Start(r) \/ FailOnExistingRow(r) \/ Finish(r) \/ StepFails(r)
                                \/ RunPipeline(r) \/ RestartAndResume(r) \/ Act(r) \/ StepSucceeds(r)
      PROVE  Tokens'
  <2>1. \E label \in RunnerPc \ {"gating"} : Goto(r, label)
    BY <1>6 DEF Start, BeginExecute, FailOnExistingRow, Finish, StepFails, RunPipeline,
                RestartAndResume, Act, StepSucceeds, RunnerPc
  <2>2. UNCHANGED <<token, at>>
    BY <1>6 DEF Start, FailOnExistingRow, Finish, StepFails, RunPipeline, RestartAndResume, Act,
                StepSucceeds
  <2>3. execStatus' \in {execStatus} \cup (ExecutionStatus \ {"waiting_approval"})
    BY <1>6 DEF Start, BeginExecute, FailOnExistingRow, Finish, StepFails, RunPipeline,
                RestartAndResume, Act, StepSucceeds, ExecutionStatus
  <2> QED
    BY <1>2, <2>1, <2>2, <2>3
<1>7. ASSUME NEW r \in Runners, SkipStep(r) \/ StartStep(r) PROVE Tokens'
  <2>1. \A q \in Runners \ {r} : at'[q] = at[q]
    BY <1>7 DEF SkipStep, StartStep, EnterStep, TypeOK, RunnerTypes
  <2> QED
    BY <1>2, <1>7, <2>1 DEF SkipStep, StartStep, RunnerPc
<1>8. ASSUME NEW r \in Runners, AnnounceCompleted(r) \/ KillCli(r) \/ WrapFailure(r) PROVE Tokens'
  <2>1. Release(r) /\ UNCHANGED token
    BY <1>8 DEF AnnounceCompleted, KillCli, WrapFailure
  <2>2. execStatus' \in {execStatus} \cup (ExecutionStatus \ {"waiting_approval"})
    BY <1>8 DEF AnnounceCompleted, KillCli, WrapFailure, ExecutionStatus
  <2> QED
    BY <1>2, <2>1, <2>2 DEF Release, TypeOK, RunnerTypes, RunnerPc
<1>9. ASSUME NEW r \in Runners, AnnounceFailed(r) PROVE Tokens'
  <2>1. \E label \in RunnerPc \ {"gating"} : Goto(r, label)
    BY <1>9 DEF AnnounceFailed, Release, RunnerPc
  <2>2. \A q \in Runners \ {r} : at'[q] = at[q]
    BY <1>9 DEF AnnounceFailed, Release, TypeOK, RunnerTypes
  <2> QED
    BY <1>2, <1>9, <2>1, <2>2 DEF AnnounceFailed
<1>10. ASSUME NEW r \in Runners, NEW s \in Gated, Approve(r, s) PROVE Tokens'
  <2>1. \E label \in RunnerPc \ {"gating"} : Goto(r, label)
    BY <1>10 DEF Approve, BeginExecute, RunnerPc
  <2>2. execStatus' \in ExecutionStatus \ {"waiting_approval"}
    BY <1>10 DEF Approve, BeginExecute, ExecutionStatus
  <2> QED
    BY <1>2, <1>10, <2>1, <2>2 DEF Approve
<1>11. ASSUME NEW r \in Runners, NEW from \in Steps, Resume(r, from) PROVE Tokens'
  <2>1. \A q \in Runners : pc'[q] # "gating"
    BY <1>11 DEF Resume, Free, Solo, Goto, TypeOK, RunnerTypes
  <2> QED
    BY <1>11, <2>1 DEF Resume, Tokens, PausedIsApprovable
<1>12. ASSUME NEW s \in Gated, Reject(s) \/ ExpireApproval(s) PROVE Tokens'
  BY <1>1, <1>12 DEF Reject, ExpireApproval, ExecutionStatus
<1>13. CASE BeginCancel \/ FinishCancel \/ HeartbeatFails
  BY <1>1, <1>13 DEF BeginCancel, FinishCancel, HeartbeatFails, ExecutionStatus
<1>14. CASE Crash
  BY <1>1, <1>14 DEF Crash
<1>15. CASE Restart
  BY <1>1, <1>15 DEF Restart, ExecutionStatus
<1>16. QED
  BY <1>3, <1>4, <1>5, <1>6, <1>7, <1>8, <1>9, <1>10, <1>11, <1>12, <1>13, <1>14, <1>15
  DEF Next, RunnerStep, RestartStep

\* What a step may do to a row that is done.
DoneKept ==
    \A s \in Steps :
        stepStatus[s] \in Done /\ stepStatus'[s] \notin Done =>
            \/ stepStatus'[s] = "failed" /\ s \in token /\ execStatus' = "cancelled"
            \/ stepStatus'[s] = "pending" /\ execStatus = "failed"

\* Every action leaves the rows that are done alone, but for the two exceptions.
LEMMA DoneStep ==
    TypeOK /\ GateInv /\ RowInv /\ Walks /\ [Next]_vars => DoneKept
<1> SUFFICES ASSUME TypeOK, GateInv, RowInv, Walks, [Next]_vars, NEW s \in Steps,
                    stepStatus[s] \in Done, stepStatus'[s] \notin Done
             PROVE  \/ stepStatus'[s] = "failed" /\ s \in token /\ execStatus' = "cancelled"
                    \/ stepStatus'[s] = "pending" /\ execStatus = "failed"
  BY DEF DoneKept
<1> USE DEF rows, runnerVars
<1>1. ~UNCHANGED stepStatus
  OBVIOUS
<1>2. ASSUME NEW r \in Runners, SkipStep(r) \/ StartStep(r) PROVE FALSE
  <2>1. PICK t \in Steps : EnterStep(r, t) /\ (SetStep(t, "skipped") \/ SetStep(t, "running"))
    BY <1>2, StepsAssumption DEF SkipStep, StartStep
  <2>2. stepStatus[t] \notin Done
    BY <2>1, EnterStepFinds
  <2> QED
    BY <2>1, <2>2 DEF SetStep, TypeOK, RowTypes
<1>3. ASSUME NEW r \in Runners, WaitAtGate(r) \/ StepSucceeds(r) \/ StepFails(r) PROVE FALSE
  <2>1. \E status \in StepStatus : SetStep(at[r], status)
    BY <1>3 DEF WaitAtGate, StepSucceeds, StepFails, StepStatus
  <2>2. s = at[r]
    BY <2>1 DEF SetStep, TypeOK, RowTypes
  <2>3. pc[r] \in {"starting", "acting"}
    BY <1>3 DEF WaitAtGate, StepSucceeds, StepFails
  <2> QED
    BY <2>2, <2>3 DEF Walks, Walk, Walking
<1>4. ASSUME NEW r \in Runners, WrapFailure(r) PROVE FALSE
  BY <1>4 DEF WrapFailure, Done
<1>5. ASSUME NEW r \in Runners, RunnerStep(r) PROVE FALSE
  BY <1>1, <1>2, <1>3, <1>4, <1>5
  DEF RunnerStep, Start, FailOnExistingRow, PauseAtGate, Act, Finish, AnnounceCompleted,
      AnnounceFailed
<1>6. ASSUME NEW r \in Runners, NEW g \in Gated, Approve(r, g) PROVE FALSE
  BY <1>6 DEF Approve, SetStep, TypeOK, RowTypes, Done
<1>7. ASSUME NEW g \in Gated, Reject(g)
      PROVE  stepStatus'[s] = "failed" /\ s \in token /\ execStatus' = "cancelled"
  BY <1>7 DEF Reject, SetStep, TypeOK, RowTypes
<1>8. ASSUME NEW g \in Gated, ExpireApproval(g) PROVE FALSE
  BY <1>8 DEF ExpireApproval, SetStep, TypeOK, RowTypes, Done
<1>9. ASSUME NEW r \in Runners, NEW from \in Steps, Resume(r, from)
      PROVE  stepStatus'[s] = "pending" /\ execStatus = "failed"
  BY <1>9 DEF Resume
<1>10. ~FinishCancel /\ ~Restart
  BY DEF FinishCancel, Restart, Done
<1>11. QED
  BY <1>1, <1>5, <1>6, <1>7, <1>8, <1>9, <1>10
  DEF Next, RestartStep, RunPipeline, RestartAndResume, KillCli, BeginCancel, HeartbeatFails, Crash,
      vars

-----------------------------------------------------------------------------
(* The theorems.                                                           *)

\* The invariant holds throughout.
LEMMA SoloInvariant ==
    ASSUME Solo PROVE Spec => [](TypeOK /\ GateInv /\ RowInv /\ SoloInv)
<1>1. Init => SoloInv
  BY DEF Init, SoloInv, OneRunner, Walks, Walk, Walking, Completed, Tokens, PausedIsApprovable
<1>2. Init => RowInv
  BY StepsAssumption DEF Init, RowInv, RowsInOrder, NoRows, Steps
<1>3. TypeOK /\ GateInv /\ RowInv /\ SoloInv /\ [Next]_vars => SoloInv'
  BY OneRunnerStep, WalksStep, CompletedStep, TokensStep DEF SoloInv
<1>4. QED
  BY <1>1, <1>2, <1>3, RowStep, GateInvariant, PTL DEF Spec

\* A run whose coroutines never overlap is COMPLETED only when each of its steps is COMPLETED
\* or SKIPPED, whatever crashes, cancellations, expiries and rejections happened meanwhile.
THEOREM SoloCompletedMeansDone == ASSUME Solo PROVE Spec => []CompletedMeansDone
<1>1. SoloInv => CompletedMeansDone
  BY DEF SoloInv, Completed, CompletedMeansDone
<1>2. QED
  BY <1>1, SoloInvariant, PTL

\* Such a run never waits for an approval that nobody holds a token for.
THEOREM SoloPausedIsApprovable == ASSUME Solo PROVE Spec => []PausedIsApprovable
<1>1. SoloInv => PausedIsApprovable
  BY DEF SoloInv, Tokens
<1>2. QED
  BY <1>1, SoloInvariant, PTL

\* Such a run never repeats a step that is done, unless it is rejected or reset.
THEOREM SoloDoneStaysDone == ASSUME Solo PROVE Spec => DoneStaysDone
<1>1. TypeOK /\ GateInv /\ RowInv /\ SoloInv /\ [Next]_vars => [DoneKept]_vars
  BY DoneStep DEF SoloInv
<1>2. Spec => [][DoneKept]_vars
  BY <1>1, SoloInvariant, PTL DEF Spec
<1>3. QED
  BY <1>2 DEF DoneStaysDone, DoneKept
=============================================================================
