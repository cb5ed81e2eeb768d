-------------------------- MODULE Completions_proofs --------------------------
(***************************************************************************)
(* Proofs about Completions, for any runs, sessions and bounds: its types,  *)
(* and the two safety properties of the registry.  Neither is inductive:    *)
(* that an event which is set belongs to a run that is over also takes that *)
(* no executor, unless the run was resumed in haste, is at work beside an   *)
(* announcement (Calm), and that an event object is never older than its    *)
(* registration (Marks).                                                    *)
(***************************************************************************)
EXTENDS Completions, TLAPS

\* A run that was never started has left no trace.
Fresh ==
    \A r \in Runs : status[r] = "none" =>
        /\ event[r] = 0 /\ pending[r] = 0
        /\ r \in Pipelines => queued[r] = 0 /\ going[r] = 0

\* Registrations: a pipeline has one per call that started or resumed it, an
\* agent one, at the end of its spawn.
Registered ==
    /\ \A p \in Pipelines : event[p] <= resumes + 1
    /\ \A a \in Agents :
          /\ event[a] <= 1
          /\ spawning[a] # Nobody => event[a] = 0 /\ status[a] # "none"

\* An event object that is set or waited for is the registered one or older.
Marks ==
    /\ \A f \in fired : 1 <= f[2] /\ f[2] <= event[f[1]]
    /\ \A w \in waiting : 1 <= w[3] /\ w[3] <= event[w[2]]

\* What dies with the daemon.
Gone ==
    /\ daemon # "up" => waiting = {} /\ \A a \in Agents : spawning[a] = Nobody
    /\ daemon = "down" =>
          /\ fired = {}
          /\ \A r \in Runs : event[r] = 0 /\ pending[r] = 0
          /\ \A p \in Pipelines : queued[p] = 0 /\ going[p] = 0

\* Nothing is at work on a pipeline whose interruption is being told.
Telling ==
    \A p \in toTell :
        /\ daemon = "starting" /\ status[p] = "interrupted"
        /\ queued[p] = 0 /\ going[p] = 0 /\ pending[p] = 0

\* Unless it was resumed in haste, a pipeline has one executor, and neither an
\* announcement nor a set event while that executor is at work or it is not over.
Calm ==
    \A p \in Pipelines : "hasty" \notin cause[p] =>
        /\ queued[p] + going[p] <= 1
        /\ status[p] = "waiting_approval" => going[p] = 0
        /\ AtWork(p) \/ ~Over(p) => pending[p] = 0 /\ ~Fired(p)

\* The same of an agent: its end comes before its announcement.
CalmAgents ==
    \A a \in Agents : ~Over(a) => pending[a] = 0 /\ ~Fired(a)

\* A registered pipeline that failed by its executor has been announced, or is
\* about to be.
Heard ==
    \A p \in Pipelines :
        (status[p] = "failed" /\ event[p] # 0 /\ cause[p] \cap {"hasty", "quiet"} = {})
            => pending[p] > 0 \/ Fired(p)

IInv ==
    /\ TypeOK
    /\ Fresh /\ Registered /\ Marks /\ Gone /\ Telling
    /\ Calm /\ CalmAgents /\ Heard
    /\ StrandedHasACause

-----------------------------------------------------------------------------

\* Nothing has happened in the initial state.
LEMMA InitIInv == Init => IInv
<1> SUFFICES ASSUME Init PROVE IInv OBVIOUS
<1>1. TypeOK
    BY RunsAssumption, BoundsAssumption
    DEF RunsAssumption, BoundsAssumption, Init, TypeOK, Runs, Events, Statuses, Ended
<1>2. Fresh /\ Registered /\ Marks /\ Gone /\ Telling
    BY BoundsAssumption
    DEF BoundsAssumption, Init, Fresh, Registered, Marks, Gone, Telling, Runs
<1>3. Calm /\ CalmAgents /\ Heard /\ StrandedHasACause
    BY DEF Init, Calm, CalmAgents, Heard, StrandedHasACause, Runs, AtWork, Over, Fired, Ended
<1> QED BY <1>1, <1>2, <1>3 DEF IInv

\* Each step keeps the types; the bound on event objects needs Registered.
LEMMA TypeStep ==
    ASSUME IInv, [Next]_vars
    PROVE  TypeOK'
<1> USE RunsAssumption, BoundsAssumption, NobodyAssumption DEF RunsAssumption,
         BoundsAssumption, NobodyAssumption, IInv, Fresh, Registered, TypeOK,
         Runs, Events, Statuses, Ended, workVars, regVars, newsVars
<1>1. ASSUME NEW p \in Pipelines, NEW s \in Sessions, RunPipeline(p, s) PROVE TypeOK'
    BY <1>1 DEF RunPipeline, MayStart, Register, SetStatus
<1>2. ASSUME NEW p \in Pipelines, NEW s \in Sessions, ResumePipeline(p, s) PROVE TypeOK'
    BY <1>2 DEF ResumePipeline, Register, SetStatus, Because, Causes
<1>3. ASSUME NEW p \in Pipelines, BeginExecution(p) PROVE TypeOK'
    BY <1>3 DEF BeginExecution, SetStatus
<1>4. ASSUME NEW p \in Pipelines, Pause(p) PROVE TypeOK'
    BY <1>4 DEF Pause, SetStatus
<1>5. ASSUME NEW p \in Pipelines, Approve(p) PROVE TypeOK'
    BY <1>5 DEF Approve, AtGate
<1>6. ASSUME NEW p \in Pipelines, Reject(p) PROVE TypeOK'
    BY <1>6 DEF Reject, AtGate, EndQuietly, SetStatus, Because, Causes
<1>7. ASSUME NEW p \in Pipelines, CancelPipeline(p) PROVE TypeOK'
    BY <1>7 DEF CancelPipeline, EndQuietly, SetStatus, Because, Causes
<1>8. ASSUME NEW p \in Pipelines, HeartbeatFails(p) PROVE TypeOK'
    BY <1>8 DEF HeartbeatFails, EndQuietly, SetStatus, Because, Causes
<1>9. ASSUME NEW p \in Pipelines, NEW o \in {"completed", "failed"}, FinishExecution(p, o) PROVE TypeOK'
    BY <1>9 DEF FinishExecution, SetStatus
<1>10. ASSUME NEW a \in Agents, NEW s \in Sessions, SpawnAgent(a, s) PROVE TypeOK'
    BY <1>10 DEF SpawnAgent, MayStart, SetStatus
<1>11. ASSUME NEW a \in Agents, NEW path \in Paths, EndAgent(a, path) PROVE TypeOK'
    BY <1>11 DEF EndAgent, SetStatus, Over
<1>12. ASSUME NEW a \in Agents, SpawnReturns(a) PROVE TypeOK'
    BY <1>12 DEF SpawnReturns, Register, Because, Causes
<1>13. ASSUME NEW a \in Agents, HealthCheckFails(a) PROVE TypeOK'
    BY <1>13 DEF HealthCheckFails, EndQuietly, SetStatus, Because, Causes
<1>14. ASSUME NEW r \in Runs, Announce(r) PROVE TypeOK'
    BY <1>14 DEF Announce
<1>15. ASSUME NEW s \in Sessions, NEW r \in Runs, Wake(s, r) PROVE TypeOK'
    BY <1>15 DEF Wake
<1>16. ASSUME NEW s \in Sessions, NEW r \in Runs, WaitForCompletion(s, r) PROVE TypeOK'
    BY <1>16 DEF WaitForCompletion
<1>17. ASSUME NEW w \in waiting, Release(w) PROVE TypeOK'
    BY <1>17 DEF Release
<1>18. ASSUME NEW p \in Pipelines, TellInterrupted(p) PROVE TypeOK'
    BY <1>18 DEF TellInterrupted
<1>19. ASSUME NEW p \in Pipelines, ForgetInterrupted(p) PROVE TypeOK'
    BY <1>19 DEF ForgetInterrupted
<1>20. ASSUME Crash PROVE TypeOK'
    BY <1>20 DEF Crash, LossOf, Causes
<1>21. ASSUME Restart PROVE TypeOK'
    BY <1>21 DEF Restart, Interruptible
<1>22. ASSUME Serve PROVE TypeOK'
    BY <1>22 DEF Serve
<1>23. CASE UNCHANGED vars
    BY <1>23 DEF vars
<1> QED
    BY <1>1, <1>2, <1>3, <1>4, <1>5, <1>6, <1>7, <1>8, <1>9, <1>10, <1>11, <1>12, <1>13,
       <1>14, <1>15, <1>16, <1>17, <1>18, <1>19, <1>20, <1>21, <1>22, <1>23 DEF Next

\* A run gets its traces with or after its first status.
LEMMA FreshStep ==
    ASSUME IInv, [Next]_vars
    PROVE  Fresh'
<1> USE RunsAssumption DEF RunsAssumption, IInv, Fresh, Registered, Telling, TypeOK,
         Runs, Events, Statuses, Ended, workVars, regVars, newsVars
<1>1. ASSUME NEW p \in Pipelines, NEW s \in Sessions, RunPipeline(p, s) PROVE Fresh'
    BY <1>1 DEF RunPipeline, MayStart, Register, SetStatus
<1>2. ASSUME NEW p \in Pipelines, NEW s \in Sessions, ResumePipeline(p, s) PROVE Fresh'
    BY <1>2 DEF ResumePipeline, Register, SetStatus, Because
<1>3. ASSUME NEW p \in Pipelines, BeginExecution(p) PROVE Fresh'
    BY <1>3 DEF BeginExecution, SetStatus
<1>4. ASSUME NEW p \in Pipelines, Pause(p) PROVE Fresh'
    BY <1>4 DEF Pause, SetStatus
<1>5. ASSUME NEW p \in Pipelines, Approve(p) PROVE Fresh'
    BY <1>5 DEF Approve, AtGate
<1>6. ASSUME NEW p \in Pipelines, Reject(p) PROVE Fresh'
    BY <1>6 DEF Reject, AtGate, EndQuietly, SetStatus, Because
<1>7. ASSUME NEW p \in Pipelines, CancelPipeline(p) PROVE Fresh'
    BY <1>7 DEF CancelPipeline, EndQuietly, SetStatus, Because
<1>8. ASSUME NEW p \in Pipelines, HeartbeatFails(p) PROVE Fresh'
    BY <1>8 DEF HeartbeatFails, EndQuietly, SetStatus, Because
<1>9. ASSUME NEW p \in Pipelines, NEW o \in {"completed", "failed"}, FinishExecution(p, o) PROVE Fresh'
    BY <1>9 DEF FinishExecution, SetStatus
<1>10. ASSUME NEW a \in Agents, NEW s \in Sessions, SpawnAgent(a, s) PROVE Fresh'
    BY <1>10 DEF SpawnAgent, MayStart, SetStatus
<1>11. ASSUME NEW a \in Agents, NEW path \in Paths, EndAgent(a, path) PROVE Fresh'
    BY <1>11 DEF EndAgent, SetStatus, Over
<1>12. ASSUME NEW a \in Agents, SpawnReturns(a) PROVE Fresh'
    BY <1>12 DEF SpawnReturns, Register, Because
<1>13. ASSUME NEW a \in Agents, HealthCheckFails(a) PROVE Fresh'
    BY <1>13 DEF HealthCheckFails, EndQuietly, SetStatus, Because
<1>14. ASSUME NEW r \in Runs, Announce(r) PROVE Fresh'
    BY <1>14 DEF Announce
<1>15. ASSUME NEW s \in Sessions, NEW r \in Runs, Wake(s, r) PROVE Fresh'
    BY <1>15 DEF Wake
<1>16. ASSUME NEW s \in Sessions, NEW r \in Runs, WaitForCompletion(s, r) PROVE Fresh'
    BY <1>16 DEF WaitForCompletion
<1>17. ASSUME NEW w \in waiting, Release(w) PROVE Fresh'
    BY <1>17 DEF Release
<1>18. ASSUME NEW p \in Pipelines, TellInterrupted(p) PROVE Fresh'
    BY <1>18 DEF TellInterrupted
<1>19. ASSUME NEW p \in Pipelines, ForgetInterrupted(p) PROVE Fresh'
    BY <1>19 DEF ForgetInterrupted
<1>20. ASSUME Crash PROVE Fresh'
    BY <1>20 DEF Crash
<1>21. ASSUME Restart PROVE Fresh'
    BY <1>21 DEF Restart, Interruptible
<1>22. ASSUME Serve PROVE Fresh'
    BY <1>22 DEF Serve
<1>23. CASE UNCHANGED vars
    BY <1>23 DEF vars
<1> QED
    BY <1>1, <1>2, <1>3, <1>4, <1>5, <1>6, <1>7, <1>8, <1>9, <1>10, <1>11, <1>12, <1>13,
       <1>14, <1>15, <1>16, <1>17, <1>18, <1>19, <1>20, <1>21, <1>22, <1>23 DEF Next

\* Each resumption registers once, and a spawn registers at its end.
LEMMA RegisteredStep ==
    ASSUME IInv, [Next]_vars
    PROVE  Registered'
<1> USE RunsAssumption, BoundsAssumption, NobodyAssumption DEF RunsAssumption,
         NobodyAssumption, BoundsAssumption, IInv, Fresh, Registered, TypeOK,
         Runs, Events, Statuses, Ended, workVars, regVars, newsVars
<1>1. ASSUME NEW p \in Pipelines, NEW s \in Sessions, RunPipeline(p, s) PROVE Registered'
    BY <1>1 DEF RunPipeline, MayStart, Register, SetStatus
<1>2. ASSUME NEW p \in Pipelines, NEW s \in Sessions, ResumePipeline(p, s) PROVE Registered'
    BY <1>2 DEF ResumePipeline, Register, SetStatus, Because
<1>3. ASSUME NEW p \in Pipelines, BeginExecution(p) PROVE Registered'
    BY <1>3 DEF BeginExecution, SetStatus
<1>4. ASSUME NEW p \in Pipelines, Pause(p) PROVE Registered'
    BY <1>4 DEF Pause, SetStatus
<1>5. ASSUME NEW p \in Pipelines, Approve(p) PROVE Registered'
    BY <1>5 DEF Approve, AtGate
<1>6. ASSUME NEW p \in Pipelines, Reject(p) PROVE Registered'
    BY <1>6 DEF Reject, AtGate, EndQuietly, SetStatus, Because
<1>7. ASSUME NEW p \in Pipelines, CancelPipeline(p) PROVE Registered'
    BY <1>7 DEF CancelPipeline, EndQuietly, SetStatus, Because
<1>8. ASSUME NEW p \in Pipelines, HeartbeatFails(p) PROVE Registered'
    BY <1>8 DEF HeartbeatFails, EndQuietly, SetStatus, Because
<1>9. ASSUME NEW p \in Pipelines, NEW o \in {"completed", "failed"}, FinishExecution(p, o) PROVE Registered'
    BY <1>9 DEF FinishExecution, SetStatus
<1>10. ASSUME NEW a \in Agents, NEW s \in Sessions, SpawnAgent(a, s) PROVE Registered'
    BY <1>10 DEF SpawnAgent, MayStart, SetStatus
<1>11. ASSUME NEW a \in Agents, NEW path \in Paths, EndAgent(a, path) PROVE Registered'
    BY <1>11 DEF EndAgent, SetStatus, Over
<1>12. ASSUME NEW a \in Agents, SpawnReturns(a) PROVE Registered'
    BY <1>12 DEF SpawnReturns, Register, Because
<1>13. ASSUME NEW a \in Agents, HealthCheckFails(a) PROVE Registered'
    BY <1>13 DEF HealthCheckFails, EndQuietly, SetStatus, Because
<1>14. ASSUME NEW r \in Runs, Announce(r) PROVE Registered'
    BY <1>14 DEF Announce
<1>15. ASSUME NEW s \in Sessions, NEW r \in Runs, Wake(s, r) PROVE Registered'
    BY <1>15 DEF Wake
<1>16. ASSUME NEW s \in Sessions, NEW r \in Runs, WaitForCompletion(s, r) PROVE Registered'
    BY <1>16 DEF WaitForCompletion
<1>17. ASSUME NEW w \in waiting, Release(w) PROVE Registered'
    BY <1>17 DEF Release
<1>18. ASSUME NEW p \in Pipelines, TellInterrupted(p) PROVE Registered'
    BY <1>18 DEF TellInterrupted
<1>19. ASSUME NEW p \in Pipelines, ForgetInterrupted(p) PROVE Registered'
    BY <1>19 DEF ForgetInterrupted
<1>20. ASSUME Crash PROVE Registered'
    BY <1>20 DEF Crash
<1>21. ASSUME Restart PROVE Registered'
    BY <1>21 DEF Restart, Interruptible
<1>22. ASSUME Serve PROVE Registered'
    BY <1>22 DEF Serve
<1>23. CASE UNCHANGED vars
    BY <1>23 DEF vars
<1> QED
    BY <1>1, <1>2, <1>3, <1>4, <1>5, <1>6, <1>7, <1>8, <1>9, <1>10, <1>11, <1>12, <1>13,
       <1>14, <1>15, <1>16, <1>17, <1>18, <1>19, <1>20, <1>21, <1>22, <1>23 DEF Next

\* A registration makes a newer event object; waits and announcements use it.
LEMMA MarksStep ==
    ASSUME IInv, [Next]_vars
    PROVE  Marks'
<1> USE RunsAssumption DEF RunsAssumption, IInv, Fresh, Registered, Marks, Gone,
         Telling, TypeOK, Runs, Events, Statuses, Ended, workVars, regVars,
         newsVars
<1>1. ASSUME NEW p \in Pipelines, NEW s \in Sessions, RunPipeline(p, s) PROVE Marks'
    BY <1>1 DEF RunPipeline, MayStart, Register, SetStatus
<1>2. ASSUME NEW p \in Pipelines, NEW s \in Sessions, ResumePipeline(p, s) PROVE Marks'
    BY <1>2 DEF ResumePipeline, Register, SetStatus, Because
<1>3. ASSUME NEW p \in Pipelines, BeginExecution(p) PROVE Marks'
    BY <1>3 DEF BeginExecution, SetStatus
<1>4. ASSUME NEW p \in Pipelines, Pause(p) PROVE Marks'
    BY <1>4 DEF Pause, SetStatus
<1>5. ASSUME NEW p \in Pipelines, Approve(p) PROVE Marks'
    BY <1>5 DEF Approve, AtGate
<1>6. ASSUME NEW p \in Pipelines, Reject(p) PROVE Marks'
    BY <1>6 DEF Reject, AtGate, EndQuietly, SetStatus, Because
<1>7. ASSUME NEW p \in Pipelines, CancelPipeline(p) PROVE Marks'
    BY <1>7 DEF CancelPipeline, EndQuietly, SetStatus, Because
<1>8. ASSUME NEW p \in Pipelines, HeartbeatFails(p) PROVE Marks'
    BY <1>8 DEF HeartbeatFails, EndQuietly, SetStatus, Because
<1>9. ASSUME NEW p \in Pipelines, NEW o \in {"completed", "failed"}, FinishExecution(p, o) PROVE Marks'
    BY <1>9 DEF FinishExecution, SetStatus
<1>10. ASSUME NEW a \in Agents, NEW s \in Sessions, SpawnAgent(a, s) PROVE Marks'
    BY <1>10 DEF SpawnAgent, MayStart, SetStatus
<1>11. ASSUME NEW a \in Agents, NEW path \in Paths, EndAgent(a, path) PROVE Marks'
    BY <1>11 DEF EndAgent, SetStatus, Over
<1>12. ASSUME NEW a \in Agents, SpawnReturns(a) PROVE Marks'
    BY <1>12 DEF SpawnReturns, Register, Because
<1>13. ASSUME NEW a \in Agents, HealthCheckFails(a) PROVE Marks'
    BY <1>13 DEF HealthCheckFails, EndQuietly, SetStatus, Because
<1>14. ASSUME NEW r \in Runs, Announce(r) PROVE Marks'
    BY <1>14 DEF Announce
<1>15. ASSUME NEW s \in Sessions, NEW r \in Runs, Wake(s, r) PROVE Marks'
    BY <1>15 DEF Wake
<1>16. ASSUME NEW s \in Sessions, NEW r \in Runs, WaitForCompletion(s, r) PROVE Marks'
    BY <1>16 DEF WaitForCompletion
<1>17. ASSUME NEW w \in waiting, Release(w) PROVE Marks'
    BY <1>17 DEF Release
<1>18. ASSUME NEW p \in Pipelines, TellInterrupted(p) PROVE Marks'
    BY <1>18 DEF TellInterrupted
<1>19. ASSUME NEW p \in Pipelines, ForgetInterrupted(p) PROVE Marks'
    BY <1>19 DEF ForgetInterrupted
<1>20. ASSUME Crash PROVE Marks'
    BY <1>20 DEF Crash
<1>21. ASSUME Restart PROVE Marks'
    BY <1>21 DEF Restart, Interruptible
<1>22. ASSUME Serve PROVE Marks'
    BY <1>22 DEF Serve
<1>23. CASE UNCHANGED vars
    BY <1>23 DEF vars
<1> QED
    BY <1>1, <1>2, <1>3, <1>4, <1>5, <1>6, <1>7, <1>8, <1>9, <1>10, <1>11, <1>12, <1>13,
       <1>14, <1>15, <1>16, <1>17, <1>18, <1>19, <1>20, <1>21, <1>22, <1>23 DEF Next

\* Nothing begins while the daemon is down, nobody waits while it recovers.
LEMMA GoneStep ==
    ASSUME IInv, [Next]_vars
    PROVE  Gone'
<1> USE RunsAssumption DEF RunsAssumption, IInv, Gone, Telling, TypeOK, Runs, Events,
         Statuses, Ended, workVars, regVars, newsVars
<1>1. ASSUME NEW p \in Pipelines, NEW s \in Sessions, RunPipeline(p, s) PROVE Gone'
    BY <1>1 DEF RunPipeline, MayStart, Register, SetStatus
<1>2. ASSUME NEW p \in Pipelines, NEW s \in Sessions, ResumePipeline(p, s) PROVE Gone'
    BY <1>2 DEF ResumePipeline, Register, SetStatus, Because
<1>3. ASSUME NEW p \in Pipelines, BeginExecution(p) PROVE Gone'
    BY <1>3 DEF BeginExecution, SetStatus
<1>4. ASSUME NEW p \in Pipelines, Pause(p) PROVE Gone'
    BY <1>4 DEF Pause, SetStatus
<1>5. ASSUME NEW p \in Pipelines, Approve(p) PROVE Gone'
    BY <1>5 DEF Approve, AtGate
<1>6. ASSUME NEW p \in Pipelines, Reject(p) PROVE Gone'
    BY <1>6 DEF Reject, AtGate, EndQuietly, SetStatus, Because
<1>7. ASSUME NEW p \in Pipelines, CancelPipeline(p) PROVE Gone'
    BY <1>7 DEF CancelPipeline, EndQuietly, SetStatus, Because
<1>8. ASSUME NEW p \in Pipelines, HeartbeatFails(p) PROVE Gone'
    BY <1>8 DEF HeartbeatFails, EndQuietly, SetStatus, Because
<1>9. ASSUME NEW p \in Pipelines, NEW o \in {"completed", "failed"}, FinishExecution(p, o) PROVE Gone'
    BY <1>9 DEF FinishExecution, SetStatus
<1>10. ASSUME NEW a \in Agents, NEW s \in Sessions, SpawnAgent(a, s) PROVE Gone'
    BY <1>10 DEF SpawnAgent, MayStart, SetStatus
<1>11. ASSUME NEW a \in Agents, NEW path \in Paths, EndAgent(a, path) PROVE Gone'
    BY <1>11 DEF EndAgent, SetStatus, Over
<1>12. ASSUME NEW a \in Agents, SpawnReturns(a) PROVE Gone'
    BY <1>12 DEF SpawnReturns, Register, Because
<1>13. ASSUME NEW a \in Agents, HealthCheckFails(a) PROVE Gone'
    BY <1>13 DEF HealthCheckFails, EndQuietly, SetStatus, Because
<1>14. ASSUME NEW r \in Runs, Announce(r) PROVE Gone'
    BY <1>14 DEF Announce
<1>15. ASSUME NEW s \in Sessions, NEW r \in Runs, Wake(s, r) PROVE Gone'
    BY <1>15 DEF Wake
<1>16. ASSUME NEW s \in Sessions, NEW r \in Runs, WaitForCompletion(s, r) PROVE Gone'
    BY <1>16 DEF WaitForCompletion
<1>17. ASSUME NEW w \in waiting, Release(w) PROVE Gone'
    BY <1>17 DEF Release
<1>18. ASSUME NEW p \in Pipelines, TellInterrupted(p) PROVE Gone'
    BY <1>18 DEF TellInterrupted
<1>19. ASSUME NEW p \in Pipelines, ForgetInterrupted(p) PROVE Gone'
    BY <1>19 DEF ForgetInterrupted
<1>20. ASSUME Crash PROVE Gone'
    BY <1>20 DEF Crash
<1>21. ASSUME Restart PROVE Gone'
    BY <1>21 DEF Restart, Interruptible
<1>22. ASSUME Serve PROVE Gone'
    BY <1>22 DEF Serve
<1>23. CASE UNCHANGED vars
    BY <1>23 DEF vars
<1> QED
    BY <1>1, <1>2, <1>3, <1>4, <1>5, <1>6, <1>7, <1>8, <1>9, <1>10, <1>11, <1>12, <1>13,
       <1>14, <1>15, <1>16, <1>17, <1>18, <1>19, <1>20, <1>21, <1>22, <1>23 DEF Next

\* During recovery only resumed pipelines have executors.
LEMMA TellingStep ==
    ASSUME IInv, [Next]_vars
    PROVE  Telling'
<1> USE RunsAssumption DEF RunsAssumption, IInv, Gone, Telling, TypeOK, Runs, Events,
         Statuses, Ended, workVars, regVars, newsVars
<1>1. ASSUME NEW p \in Pipelines, NEW s \in Sessions, RunPipeline(p, s) PROVE Telling'
    BY <1>1 DEF RunPipeline, MayStart, Register, SetStatus
<1>2. ASSUME NEW p \in Pipelines, NEW s \in Sessions, ResumePipeline(p, s) PROVE Telling'
    BY <1>2 DEF ResumePipeline, Register, SetStatus, Because
<1>3. ASSUME NEW p \in Pipelines, BeginExecution(p) PROVE Telling'
    BY <1>3 DEF BeginExecution, SetStatus
<1>4. ASSUME NEW p \in Pipelines, Pause(p) PROVE Telling'
    BY <1>4 DEF Pause, SetStatus
<1>5. ASSUME NEW p \in Pipelines, Approve(p) PROVE Telling'
    BY <1>5 DEF Approve, AtGate
<1>6. ASSUME NEW p \in Pipelines, Reject(p) PROVE Telling'
    BY <1>6 DEF Reject, AtGate, EndQuietly, SetStatus, Because
<1>7. ASSUME NEW p \in Pipelines, CancelPipeline(p) PROVE Telling'
    BY <1>7 DEF CancelPipeline, EndQuietly, SetStatus, Because
<1>8. ASSUME NEW p \in Pipelines, HeartbeatFails(p) PROVE Telling'
    BY <1>8 DEF HeartbeatFails, EndQuietly, SetStatus, Because
<1>9. ASSUME NEW p \in Pipelines, NEW o \in {"completed", "failed"}, FinishExecution(p, o) PROVE Telling'
    BY <1>9 DEF FinishExecution, SetStatus
<1>10. ASSUME NEW a \in Agents, NEW s \in Sessions, SpawnAgent(a, s) PROVE Telling'
    BY <1>10 DEF SpawnAgent, MayStart, SetStatus
<1>11. ASSUME NEW a \in Agents, NEW path \in Paths, EndAgent(a, path) PROVE Telling'
    BY <1>11 DEF EndAgent, SetStatus, Over
<1>12. ASSUME NEW a \in Agents, SpawnReturns(a) PROVE Telling'
    BY <1>12 DEF SpawnReturns, Register, Because
<1>13. ASSUME NEW a \in Agents, HealthCheckFails(a) PROVE Telling'
    BY <1>13 DEF HealthCheckFails, EndQuietly, SetStatus, Because
<1>14. ASSUME NEW r \in Runs, Announce(r) PROVE Telling'
    BY <1>14 DEF Announce
<1>15. ASSUME NEW s \in Sessions, NEW r \in Runs, Wake(s, r) PROVE Telling'
    BY <1>15 DEF Wake
<1>16. ASSUME NEW s \in Sessions, NEW r \in Runs, WaitForCompletion(s, r) PROVE Telling'
    BY <1>16 DEF WaitForCompletion
<1>17. ASSUME NEW w \in waiting, Release(w) PROVE Telling'
    BY <1>17 DEF Release
<1>18. ASSUME NEW p \in Pipelines, TellInterrupted(p) PROVE Telling'
    BY <1>18 DEF TellInterrupted
<1>19. ASSUME NEW p \in Pipelines, ForgetInterrupted(p) PROVE Telling'
    BY <1>19 DEF ForgetInterrupted
<1>20. ASSUME Crash PROVE Telling'
    BY <1>20 DEF Crash
<1>21. ASSUME Restart PROVE Telling'
    BY <1>21 DEF Restart, Interruptible
<1>22. ASSUME Serve PROVE Telling'
    BY <1>22 DEF Serve
<1>23. CASE UNCHANGED vars
    BY <1>23 DEF vars
<1> QED
    BY <1>1, <1>2, <1>3, <1>4, <1>5, <1>6, <1>7, <1>8, <1>9, <1>10, <1>11, <1>12, <1>13,
       <1>14, <1>15, <1>16, <1>17, <1>18, <1>19, <1>20, <1>21, <1>22, <1>23 DEF Next

\* One executor per pipeline: it begins after, and ends before, its announcement.
LEMMA CalmStep ==
    ASSUME IInv, [Next]_vars
    PROVE  Calm'
<1> USE RunsAssumption DEF RunsAssumption, IInv, Fresh, Marks, Gone, Telling, Calm,
         AtWork, Over, Fired, TypeOK, Runs, Events, Statuses, Ended, workVars,
         regVars, newsVars
<1>1. ASSUME NEW p \in Pipelines, NEW s \in Sessions, RunPipeline(p, s) PROVE Calm'
    BY <1>1 DEF RunPipeline, MayStart, Register, SetStatus
<1>2. ASSUME NEW p \in Pipelines, NEW s \in Sessions, ResumePipeline(p, s) PROVE Calm'
    BY <1>2 DEF ResumePipeline, Register, SetStatus, Because, UnderWay
<1>3. ASSUME NEW p \in Pipelines, BeginExecution(p) PROVE Calm'
    BY <1>3 DEF BeginExecution, SetStatus
<1>4. ASSUME NEW p \in Pipelines, Pause(p) PROVE Calm'
    <2>1. ASSUME NEW q \in Pipelines, "hasty" \notin cause[q]
          PROVE  /\ (queued[q] + going[q])' <= 1
                 /\ status'[q] = "waiting_approval" => going'[q] = 0
        <3>1. queued[q] \in Nat /\ going[q] \in Nat /\ queued[q] + going[q] <= 1
            BY <2>1
        <3>2. CASE q = p BY <1>4, <2>1, <3>1, <3>2 DEF Pause, SetStatus
        <3>3. CASE q # p
            <4>1. queued'[q] = queued[q] /\ going'[q] = going[q] /\ status'[q] = status[q]
                BY <1>4, <3>3 DEF Pause, SetStatus
            <4> QED BY <2>1, <3>1, <4>1
        <3> QED BY <3>2, <3>3
    <2>2. ASSUME NEW q \in Pipelines, "hasty" \notin cause[q], (AtWork(q) \/ ~Over(q))'
          PROVE  pending'[q] = 0 /\ ~Fired(q)'
        <3>1. CASE q = p BY <1>4, <2>2, <3>1 DEF Pause, SetStatus
        <3>2. CASE q # p BY <1>4, <2>2, <3>2 DEF Pause, SetStatus
        <3> QED BY <3>1, <3>2
    <2> QED BY <1>4, <2>1, <2>2 DEF Pause
<1>5. ASSUME NEW p \in Pipelines, Approve(p) PROVE Calm'
    BY <1>5 DEF Approve, AtGate
<1>6. ASSUME NEW p \in Pipelines, Reject(p) PROVE Calm'
    BY <1>6 DEF Reject, AtGate, EndQuietly, SetStatus, Because
<1>7. ASSUME NEW p \in Pipelines, CancelPipeline(p) PROVE Calm'
    BY <1>7 DEF CancelPipeline, EndQuietly, SetStatus, Because
<1>8. ASSUME NEW p \in Pipelines, HeartbeatFails(p) PROVE Calm'
    BY <1>8 DEF HeartbeatFails, EndQuietly, SetStatus, Because
<1>9. ASSUME NEW p \in Pipelines, NEW o \in {"completed", "failed"}, FinishExecution(p, o) PROVE Calm'
    BY <1>9 DEF FinishExecution, SetStatus
<1>10. ASSUME NEW a \in Agents, NEW s \in Sessions, SpawnAgent(a, s) PROVE Calm'
    BY <1>10 DEF SpawnAgent, MayStart, SetStatus
<1>11. ASSUME NEW a \in Agents, NEW path \in Paths, EndAgent(a, path) PROVE Calm'
    BY <1>11 DEF EndAgent, SetStatus
<1>12. ASSUME NEW a \in Agents, SpawnReturns(a) PROVE Calm'
    BY <1>12 DEF SpawnReturns, Register, Because
<1>13. ASSUME NEW a \in Agents, HealthCheckFails(a) PROVE Calm'
    BY <1>13 DEF HealthCheckFails, EndQuietly, SetStatus, Because
<1>14. ASSUME NEW r \in Runs, Announce(r) PROVE Calm'
    BY <1>14 DEF Announce
<1>15. ASSUME NEW s \in Sessions, NEW r \in Runs, Wake(s, r) PROVE Calm'
    BY <1>15 DEF Wake
<1>16. ASSUME NEW s \in Sessions, NEW r \in Runs, WaitForCompletion(s, r) PROVE Calm'
    BY <1>16 DEF WaitForCompletion
<1>17. ASSUME NEW w \in waiting, Release(w) PROVE Calm'
    BY <1>17 DEF Release
<1>18. ASSUME NEW p \in Pipelines, TellInterrupted(p) PROVE Calm'
    BY <1>18 DEF TellInterrupted
<1>19. ASSUME NEW p \in Pipelines, ForgetInterrupted(p) PROVE Calm'
    BY <1>19 DEF ForgetInterrupted
<1>20. ASSUME Crash PROVE Calm'
    BY <1>20 DEF Crash
<1>21. ASSUME Restart PROVE Calm'
    BY <1>21 DEF Restart, Interruptible
<1>22. ASSUME Serve PROVE Calm'
    BY <1>22 DEF Serve
<1>23. CASE UNCHANGED vars
    BY <1>23 DEF vars
<1> QED
    BY <1>1, <1>2, <1>3, <1>4, <1>5, <1>6, <1>7, <1>8, <1>9, <1>10, <1>11, <1>12, <1>13,
       <1>14, <1>15, <1>16, <1>17, <1>18, <1>19, <1>20, <1>21, <1>22, <1>23 DEF Next

\* The three paths write the status before they announce.
LEMMA CalmAgentsStep ==
    ASSUME IInv, [Next]_vars
    PROVE  CalmAgents'
<1> USE RunsAssumption DEF RunsAssumption, IInv, Fresh, Registered, Marks, Gone,
         Telling, CalmAgents, Over, Fired, TypeOK, Runs, Events, Statuses,
         Ended, workVars, regVars, newsVars
<1>1. ASSUME NEW p \in Pipelines, NEW s \in Sessions, RunPipeline(p, s) PROVE CalmAgents'
    BY <1>1 DEF RunPipeline, MayStart, Register, SetStatus
<1>2. ASSUME NEW p \in Pipelines, NEW s \in Sessions, ResumePipeline(p, s) PROVE CalmAgents'
    BY <1>2 DEF ResumePipeline, Register, SetStatus, Because
<1>3. ASSUME NEW p \in Pipelines, BeginExecution(p) PROVE CalmAgents'
    BY <1>3 DEF BeginExecution, SetStatus
<1>4. ASSUME NEW p \in Pipelines, Pause(p) PROVE CalmAgents'
    BY <1>4 DEF Pause, SetStatus
<1>5. ASSUME NEW p \in Pipelines, Approve(p) PROVE CalmAgents'
    BY <1>5 DEF Approve, AtGate
<1>6. ASSUME NEW p \in Pipelines, Reject(p) PROVE CalmAgents'
    BY <1>6 DEF Reject, AtGate, EndQuietly, SetStatus, Because
<1>7. ASSUME NEW p \in Pipelines, CancelPipeline(p) PROVE CalmAgents'
    BY <1>7 DEF CancelPipeline, EndQuietly, SetStatus, Because
<1>8. ASSUME NEW p \in Pipelines, HeartbeatFails(p) PROVE CalmAgents'
    BY <1>8 DEF HeartbeatFails, EndQuietly, SetStatus, Because
<1>9. ASSUME NEW p \in Pipelines, NEW o \in {"completed", "failed"}, FinishExecution(p, o) PROVE CalmAgents'
    BY <1>9 DEF FinishExecution, SetStatus
<1>10. ASSUME NEW a \in Agents, NEW s \in Sessions, SpawnAgent(a, s) PROVE CalmAgents'
    BY <1>10 DEF SpawnAgent, MayStart, SetStatus
<1>11. ASSUME NEW a \in Agents, NEW path \in Paths, EndAgent(a, path) PROVE CalmAgents'
    BY <1>11 DEF EndAgent, SetStatus
<1>12. ASSUME NEW a \in Agents, SpawnReturns(a) PROVE CalmAgents'
    <2>1. ASSUME NEW b \in Agents, ~Over(b)'
          PROVE  pending'[b] = 0 /\ ~Fired(b)'
        <3>1. CASE b = a
            <4>1. event[a] = 0 BY <1>12 DEF SpawnReturns
            <4>2. <<a, 1>> \notin fired
                <5> SUFFICES ASSUME <<a, 1>> \in fired PROVE FALSE OBVIOUS
                <5>1. <<a, 1>>[2] <= event[<<a, 1>>[1]] OBVIOUS
                <5> QED BY <4>1, <5>1
            <4>3. event'[a] = 1 /\ fired' = fired
                BY <1>12, <4>1 DEF SpawnReturns, Register
            <4>4. pending'[a] = 0 BY <1>12, <2>1, <3>1 DEF SpawnReturns
            <4> QED BY <3>1, <4>2, <4>3, <4>4
        <3>2. CASE b # a BY <1>12, <2>1, <3>2 DEF SpawnReturns, Register, Because
        <3> QED BY <3>1, <3>2
    <2> QED BY <2>1
<1>13. ASSUME NEW a \in Agents, HealthCheckFails(a) PROVE CalmAgents'
    BY <1>13 DEF HealthCheckFails, EndQuietly, SetStatus, Because
<1>14. ASSUME NEW r \in Runs, Announce(r) PROVE CalmAgents'
    BY <1>14 DEF Announce
<1>15. ASSUME NEW s \in Sessions, NEW r \in Runs, Wake(s, r) PROVE CalmAgents'
    BY <1>15 DEF Wake
<1>16. ASSUME NEW s \in Sessions, NEW r \in Runs, WaitForCompletion(s, r) PROVE CalmAgents'
    BY <1>16 DEF WaitForCompletion
<1>17. ASSUME NEW w \in waiting, Release(w) PROVE CalmAgents'
    BY <1>17 DEF Release
<1>18. ASSUME NEW p \in Pipelines, TellInterrupted(p) PROVE CalmAgents'
    BY <1>18 DEF TellInterrupted
<1>19. ASSUME NEW p \in Pipelines, ForgetInterrupted(p) PROVE CalmAgents'
    BY <1>19 DEF ForgetInterrupted
<1>20. ASSUME Crash PROVE CalmAgents'
    BY <1>20 DEF Crash
<1>21. ASSUME Restart PROVE CalmAgents'
    BY <1>21 DEF Restart, Interruptible
<1>22. ASSUME Serve PROVE CalmAgents'
    BY <1>22 DEF Serve
<1>23. CASE UNCHANGED vars
    BY <1>23 DEF vars
<1> QED
    BY <1>1, <1>2, <1>3, <1>4, <1>5, <1>6, <1>7, <1>8, <1>9, <1>10, <1>11, <1>12, <1>13,
       <1>14, <1>15, <1>16, <1>17, <1>18, <1>19, <1>20, <1>21, <1>22, <1>23 DEF Next

\* A failure leaves an announcement behind, which sets the registered event.
LEMMA HeardStep ==
    ASSUME IInv, [Next]_vars
    PROVE  Heard'
<1> USE RunsAssumption DEF RunsAssumption, IInv, Fresh, Marks, Gone, Telling, Heard,
         Fired, TypeOK, Runs, Events, Statuses, Ended, workVars, regVars,
         newsVars
<1>1. ASSUME NEW p \in Pipelines, NEW s \in Sessions, RunPipeline(p, s) PROVE Heard'
    BY <1>1 DEF RunPipeline, MayStart, Register, SetStatus
<1>2. ASSUME NEW p \in Pipelines, NEW s \in Sessions, ResumePipeline(p, s) PROVE Heard'
    BY <1>2 DEF ResumePipeline, Register, SetStatus, Because
<1>3. ASSUME NEW p \in Pipelines, BeginExecution(p) PROVE Heard'
    BY <1>3 DEF BeginExecution, SetStatus
<1>4. ASSUME NEW p \in Pipelines, Pause(p) PROVE Heard'
    BY <1>4 DEF Pause, SetStatus
<1>5. ASSUME NEW p \in Pipelines, Approve(p) PROVE Heard'
    BY <1>5 DEF Approve, AtGate
<1>6. ASSUME NEW p \in Pipelines, Reject(p) PROVE Heard'
    BY <1>6 DEF Reject, AtGate, EndQuietly, SetStatus, Because
<1>7. ASSUME NEW p \in Pipelines, CancelPipeline(p) PROVE Heard'
    BY <1>7 DEF CancelPipeline, EndQuietly, SetStatus, Because
<1>8. ASSUME NEW p \in Pipelines, HeartbeatFails(p) PROVE Heard'
    BY <1>8 DEF HeartbeatFails, EndQuietly, SetStatus, Because
<1>9. ASSUME NEW p \in Pipelines, NEW o \in {"completed", "failed"}, FinishExecution(p, o) PROVE Heard'
    BY <1>9 DEF FinishExecution, SetStatus
<1>10. ASSUME NEW a \in Agents, NEW s \in Sessions, SpawnAgent(a, s) PROVE Heard'
    BY <1>10 DEF SpawnAgent, MayStart, SetStatus
<1>11. ASSUME NEW a \in Agents, NEW path \in Paths, EndAgent(a, path) PROVE Heard'
    BY <1>11 DEF EndAgent, SetStatus, Over
<1>12. ASSUME NEW a \in Agents, SpawnReturns(a) PROVE Heard'
    BY <1>12 DEF SpawnReturns, Register, Because
<1>13. ASSUME NEW a \in Agents, HealthCheckFails(a) PROVE Heard'
    BY <1>13 DEF HealthCheckFails, EndQuietly, SetStatus, Because
<1>14. ASSUME NEW r \in Runs, Announce(r) PROVE Heard'
    BY <1>14 DEF Announce
<1>15. ASSUME NEW s \in Sessions, NEW r \in Runs, Wake(s, r) PROVE Heard'
    BY <1>15 DEF Wake
<1>16. ASSUME NEW s \in Sessions, NEW r \in Runs, WaitForCompletion(s, r) PROVE Heard'
    BY <1>16 DEF WaitForCompletion
<1>17. ASSUME NEW w \in waiting, Release(w) PROVE Heard'
    BY <1>17 DEF Release
<1>18. ASSUME NEW p \in Pipelines, TellInterrupted(p) PROVE Heard'
    BY <1>18 DEF TellInterrupted
<1>19. ASSUME NEW p \in Pipelines, ForgetInterrupted(p) PROVE Heard'
    BY <1>19 DEF ForgetInterrupted
<1>20. ASSUME Crash PROVE Heard'
    BY <1>20 DEF Crash
<1>21. ASSUME Restart PROVE Heard'
    BY <1>21 DEF Restart, Interruptible
<1>22. ASSUME Serve PROVE Heard'
    BY <1>22 DEF Serve
<1>23. CASE UNCHANGED vars
    BY <1>23 DEF vars
<1> QED
    BY <1>1, <1>2, <1>3, <1>4, <1>5, <1>6, <1>7, <1>8, <1>9, <1>10, <1>11, <1>12, <1>13,
       <1>14, <1>15, <1>16, <1>17, <1>18, <1>19, <1>20, <1>21, <1>22, <1>23 DEF Next

\* A registration replaces an event only when it is set, or a cause applies.
LEMMA StrandedStep ==
    ASSUME IInv, [Next]_vars
    PROVE  StrandedHasACause'
<1> USE RunsAssumption DEF RunsAssumption, IInv, Fresh, Registered, Marks, Gone,
         Telling, Heard, Fired, StrandedHasACause, TypeOK, Runs, Events,
         Statuses, Ended, workVars, regVars, newsVars
<1>1. ASSUME NEW p \in Pipelines, NEW s \in Sessions, RunPipeline(p, s) PROVE StrandedHasACause'
    <2> SUFFICES ASSUME NEW w \in waiting'
                 PROVE  w[3] = event'[w[2]] \/ <<w[2], w[3]>> \in fired'
                            \/ cause'[w[2]] \cap {"hasty", "quiet"} # {}
        OBVIOUS
    <2>1. w \in waiting /\ w[2] # p BY <1>1 DEF RunPipeline, MayStart
    <2> QED BY <1>1, <2>1 DEF RunPipeline, MayStart, Register, SetStatus
<1>2. ASSUME NEW p \in Pipelines, NEW s \in Sessions, ResumePipeline(p, s) PROVE StrandedHasACause'
    <2> SUFFICES ASSUME NEW w \in waiting'
                 PROVE  w[3] = event'[w[2]] \/ <<w[2], w[3]>> \in fired'
                            \/ cause'[w[2]] \cap {"hasty", "quiet"} # {}
        OBVIOUS
    <2>1. w \in waiting /\ fired' = fired BY <1>2 DEF ResumePipeline, Register
    <2>2. CASE w[2] # p BY <1>2, <2>1, <2>2 DEF ResumePipeline, Register, Because
    <2>3. CASE w[2] = p
        <3>1. CASE pending[p] > 0 BY <1>2, <2>3, <3>1 DEF ResumePipeline, Because, UnderWay
        <3>2. CASE pending[p] = 0
            <4>1. event[p] # 0 BY <2>1, <2>3
            <4>2. Fired(p) \/ cause[p] \cap {"hasty", "quiet"} # {}
                BY <1>2, <3>2, <4>1 DEF ResumePipeline
            <4> QED BY <1>2, <2>1, <2>3, <4>2 DEF ResumePipeline, Because
        <3> QED BY <3>1, <3>2
    <2> QED BY <2>2, <2>3
<1>3. ASSUME NEW p \in Pipelines, BeginExecution(p) PROVE StrandedHasACause'
    BY <1>3 DEF BeginExecution, SetStatus
<1>4. ASSUME NEW p \in Pipelines, Pause(p) PROVE StrandedHasACause'
    BY <1>4 DEF Pause, SetStatus
<1>5. ASSUME NEW p \in Pipelines, Approve(p) PROVE StrandedHasACause'
    BY <1>5 DEF Approve, AtGate
<1>6. ASSUME NEW p \in Pipelines, Reject(p) PROVE StrandedHasACause'
    BY <1>6 DEF Reject, AtGate, EndQuietly, SetStatus, Because
<1>7. ASSUME NEW p \in Pipelines, CancelPipeline(p) PROVE StrandedHasACause'
    BY <1>7 DEF CancelPipeline, EndQuietly, SetStatus, Because
<1>8. ASSUME NEW p \in Pipelines, HeartbeatFails(p) PROVE StrandedHasACause'
    BY <1>8 DEF HeartbeatFails, EndQuietly, SetStatus, Because
<1>9. ASSUME NEW p \in Pipelines, NEW o \in {"completed", "failed"}, FinishExecution(p, o) PROVE StrandedHasACause'
    BY <1>9 DEF FinishExecution, SetStatus
<1>10. ASSUME NEW a \in Agents, NEW s \in Sessions, SpawnAgent(a, s) PROVE StrandedHasACause'
    BY <1>10 DEF SpawnAgent, MayStart, SetStatus
<1>11. ASSUME NEW a \in Agents, NEW path \in Paths, EndAgent(a, path) PROVE StrandedHasACause'
    BY <1>11 DEF EndAgent, SetStatus, Over
<1>12. ASSUME NEW a \in Agents, SpawnReturns(a) PROVE StrandedHasACause'
    <2> SUFFICES ASSUME NEW w \in waiting'
                 PROVE  w[3] = event'[w[2]] \/ <<w[2], w[3]>> \in fired'
                            \/ cause'[w[2]] \cap {"hasty", "quiet"} # {}
        OBVIOUS
    <2>1. w \in waiting /\ w[2] # a BY <1>12 DEF SpawnReturns
    <2> QED BY <1>12, <2>1 DEF SpawnReturns, Register, Because
<1>13. ASSUME NEW a \in Agents, HealthCheckFails(a) PROVE StrandedHasACause'
    BY <1>13 DEF HealthCheckFails, EndQuietly, SetStatus, Because
<1>14. ASSUME NEW r \in Runs, Announce(r) PROVE StrandedHasACause'
    BY <1>14 DEF Announce
<1>15. ASSUME NEW s \in Sessions, NEW r \in Runs, Wake(s, r) PROVE StrandedHasACause'
    BY <1>15 DEF Wake
<1>16. ASSUME NEW s \in Sessions, NEW r \in Runs, WaitForCompletion(s, r) PROVE StrandedHasACause'
    <2> SUFFICES ASSUME NEW w \in waiting'
                 PROVE  w[3] = event'[w[2]] \/ <<w[2], w[3]>> \in fired'
                            \/ cause'[w[2]] \cap {"hasty", "quiet"} # {}
        OBVIOUS
    <2>1. CASE w \in waiting BY <1>16, <2>1 DEF WaitForCompletion
    <2>2. CASE w = <<s, r, event[r]>> BY <1>16, <2>2 DEF WaitForCompletion
    <2> QED BY <1>16, <2>1, <2>2 DEF WaitForCompletion
<1>17. ASSUME NEW w \in waiting, Release(w) PROVE StrandedHasACause'
    BY <1>17 DEF Release
<1>18. ASSUME NEW p \in Pipelines, TellInterrupted(p) PROVE StrandedHasACause'
    BY <1>18 DEF TellInterrupted
<1>19. ASSUME NEW p \in Pipelines, ForgetInterrupted(p) PROVE StrandedHasACause'
    BY <1>19 DEF ForgetInterrupted
<1>20. ASSUME Crash PROVE StrandedHasACause'
    BY <1>20 DEF Crash
<1>21. ASSUME Restart PROVE StrandedHasACause'
    BY <1>21 DEF Restart, Interruptible
<1>22. ASSUME Serve PROVE StrandedHasACause'
    BY <1>22 DEF Serve
<1>23. CASE UNCHANGED vars
    BY <1>23 DEF vars
<1> QED
    BY <1>1, <1>2, <1>3, <1>4, <1>5, <1>6, <1>7, <1>8, <1>9, <1>10, <1>11, <1>12, <1>13,
       <1>14, <1>15, <1>16, <1>17, <1>18, <1>19, <1>20, <1>21, <1>22, <1>23 DEF Next

\* The invariant holds in every reachable state.
LEMMA Inductive == Spec => []IInv
<1>1. IInv /\ [Next]_vars => IInv'
    <2> SUFFICES ASSUME IInv, [Next]_vars PROVE IInv' OBVIOUS
    <2> QED BY TypeStep, FreshStep, RegisteredStep, MarksStep, GoneStep, TellingStep, CalmStep,
               CalmAgentsStep, HeardStep, StrandedStep DEF IInv
<1> QED BY InitIInv, <1>1, PTL DEF Spec

-----------------------------------------------------------------------------

\* The variables keep their types, whatever the runs, sessions and bounds.
THEOREM TypeCorrect == Spec => []TypeOK
<1>1. IInv => TypeOK BY DEF IInv
<1> QED BY Inductive, <1>1, PTL

\* An event that is set belongs to a run that is over, unless the run was
\* resumed in haste.
THEOREM EventsAreTrue == Spec => []EventTellsTheTruth
<1>1. IInv => EventTellsTheTruth
    BY DEF IInv, Calm, CalmAgents, EventTellsTheTruth, Runs
<1> QED BY Inductive, <1>1, PTL

\* Nobody waits for an event object that was replaced, unless a cause applies.
THEOREM WaitersAreNotStranded == Spec => []StrandedHasACause
<1>1. IInv => StrandedHasACause BY DEF IInv
<1> QED BY Inductive, <1>1, PTL
=============================================================================
