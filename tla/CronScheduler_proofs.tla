------------------------ MODULE CronScheduler_proofs ------------------------
(***************************************************************************)
(* Theorems about CronScheduler, for every set of jobs, every limit and    *)
(* every number of runs, calls and crashes: the types, the limit on the    *)
(* runs that the check loop starts, and that a one-shot job fires once.    *)
(***************************************************************************)
EXTENDS CronScheduler, FiniteSetTheorems, FunctionTheorems, TLAPS

\* The runs the limit is about.
Scheduled == {r \in Runs \ manual : row[r] # "none"}

\* One of any two members of Q is before the other, and what is before is so of what
\* follows as well.
InOrder(Q, before) ==
    /\ \A j \in Q : <<j, j>> \notin before
    /\ \A j, k \in Q : j = k \/ <<j, k>> \in before \/ <<k, j>> \in before
    /\ \A i, j, k \in Q : <<i, j>> \in before /\ <<j, k>> \in before => <<i, k>> \in before

\* A one-shot job that is due, or was dispatched, is past its run_at; once dispatched it is
\* not due again.
OneShotInv ==
    \A j \in Once :
        /\ j \in due => j \in passed /\ fired[j] = 0
        /\ fired[j] \in 0..1
        /\ fired[j] = 1 => j \in passed

CronInv == TypeOK /\ InOrder(due, ahead) /\ OneShotInv

-----------------------------------------------------------------------------
(* Types.                                                                  *)

\* New runs of the jobs in D have rows and tasks, and belong to those jobs.
LEMMA CreateRunsTypes ==
    ASSUME TypeOK, NEW D \in SUBSET Jobs, NEW new \in FreshRuns(D), CreateRuns(new)
    PROVE  /\ row' \in [Runs -> {"none", "pending", "running"}]
           /\ task' \in [Runs -> {"none", "queued", "executing"}]
           /\ jobOf' \in [Runs -> Jobs \cup {NoJob}]
           /\ \A r \in Runs : jobOf'[r] = NoJob <=> r \notin Live'
           /\ \A r \in Runs : row'[r] = "pending" => task'[r] = "queued"
           /\ seen' \in [Runs -> 0..MaxFailures]
           /\ Live \subseteq Live' /\ \A j \in D : new[j] \in Live'
<1> DEFINE S == {new[j] : j \in D}
           owner(r) == CHOOSE j \in D : new[j] = r
<1>1. new \in [D -> Runs] /\ DOMAIN new = D /\ S \subseteq Runs
  BY DEF FreshRuns, Free
<1>2. \A r \in S : owner(r) \in D
  OBVIOUS
<1>3. /\ row' = [r \in Runs |-> IF r \in S THEN "pending" ELSE row[r]]
      /\ task' = [r \in Runs |-> IF r \in S THEN "queued" ELSE task[r]]
      /\ jobOf' = [r \in Runs |-> IF r \in S THEN owner(r) ELSE jobOf[r]]
      /\ seen' = [r \in Runs |-> IF r \in S THEN failures[owner(r)] ELSE seen[r]]
  BY <1>1 DEF CreateRuns
<1>4. \A j \in D : new[j] \in S
  OBVIOUS
<1> HIDE DEF S, owner
<1>5. /\ row' \in [Runs -> {"none", "pending", "running"}]
      /\ task' \in [Runs -> {"none", "queued", "executing"}]
      /\ jobOf' \in [Runs -> Jobs \cup {NoJob}]
      /\ \A r \in Runs : row'[r] = "pending" => task'[r] = "queued"
  BY <1>2, <1>3 DEF TypeOK
<1>6. seen' \in [Runs -> 0..MaxFailures]
  BY <1>2, <1>3 DEF TypeOK
<1>7. Live' = Live \cup S
  BY <1>1, <1>3 DEF Live
<1>8. \A r \in Runs : jobOf'[r] = NoJob <=> r \notin Live'
  BY <1>2, <1>3, <1>7, JobsAssumption DEF TypeOK
<1>9. QED
  BY <1>1, <1>4, <1>5, <1>6, <1>7, <1>8

\* Types of the jobs and of the rest, of which the runs have no part.
JobTypes ==
    /\ job \in [Jobs -> {"new", "enabled", "disabled", "deleted"}]
    /\ planned \subseteq {j \in Jobs : Exists(j)}
    /\ due \subseteq {j \in Jobs : Exists(j)}
    /\ planned \cap due = {}
    /\ ahead \subseteq due \X due
    /\ passed \subseteq Once /\ passed \cap planned = {}
    /\ failures \in [Jobs -> 0..MaxFailures]
    /\ cooling \subseteq {j \in Jobs : failures[j] > 0}

RunTypes ==
    /\ row \in [Runs -> {"none", "pending", "running"}]
    /\ task \in [Runs -> {"none", "queued", "executing"}]
    /\ jobOf \in [Runs -> Jobs \cup {NoJob}]
    /\ \A r \in Runs : jobOf[r] = NoJob <=> r \notin Live
    /\ \A r \in Runs : row[r] = "pending" => task[r] = "queued"
    /\ seen \in [Runs -> 0..MaxFailures]
    /\ manual \subseteq Live

LEMMA TypeParts == TypeOK <=> /\ JobTypes /\ RunTypes /\ up \in BOOLEAN /\ calls \in 0..MaxCalls
                              /\ fired \in [Once -> 0..2]
BY DEF TypeOK, JobTypes, RunTypes

\* A step that leaves runs, or jobs, alone.
LEMMA JobTypesKept == JobTypes /\ UNCHANGED jobVars => JobTypes'
BY DEF JobTypes, jobVars, Exists

LEMMA RunTypesKept == RunTypes /\ UNCHANGED runVars => RunTypes'
BY DEF RunTypes, runVars, Live

\* The types of the jobs are kept.
LEMMA JobTypeStep == TypeOK /\ [Next]_vars => JobTypes'
<1> SUFFICES ASSUME TypeOK, [Next]_vars PROVE JobTypes'
  OBVIOUS
<1>0. JobTypes /\ RunTypes
  BY TypeParts
<1>1. CASE CheckDueJobs
  <2>1. Dispatched \subseteq due
    BY DEF Dispatched, Considered
  <2> QED
    BY <1>0, <1>1, <2>1 DEF CheckDueJobs, JobTypes, Leave, HasNextRun, Exists
<1>2. ASSUME NEW r \in Runs, RunStep(r) PROVE JobTypes'
  <2>1. CASE BeginRun(r)
    BY <1>0, <2>1, JobTypesKept DEF BeginRun
  <2>2. ASSUME NEW ok \in BOOLEAN, EndRun(r, ok) PROVE JobTypes'
    <3>1. jobOf[r] \in Jobs
      BY <1>0, <2>2 DEF EndRun, RunTypes, Live
    <3>2. seen[r] \in 0..MaxFailures
      BY <1>0 DEF RunTypes
    <3> DEFINE count == IF ok THEN 0 ELSE IF seen[r] < MaxFailures THEN seen[r] + 1 ELSE MaxFailures
    <3>3. count \in 0..MaxFailures /\ (~ok => count > 0)
      BY <3>2, LimitsAssumption
    <3>4. /\ IF Exists(jobOf[r])
             THEN /\ failures' = [failures EXCEPT ![jobOf[r]] = count]
                  /\ cooling' = IF ok THEN cooling \ {jobOf[r]} ELSE cooling \cup {jobOf[r]}
             ELSE UNCHANGED <<failures, cooling>>
          /\ UNCHANGED <<job, planned, due, ahead, passed>>
      BY <2>2 DEF EndRun
    <3> HIDE DEF count
    <3>5. failures' \in [Jobs -> 0..MaxFailures]
      BY <1>0, <3>1, <3>3, <3>4 DEF JobTypes
    <3>6. cooling' \subseteq {j \in Jobs : failures'[j] > 0}
      BY <1>0, <3>1, <3>3, <3>4 DEF JobTypes
    <3> QED
      BY <1>0, <3>4, <3>5, <3>6 DEF JobTypes, Exists
  <2> QED
    BY <1>2, <2>1, <2>2 DEF RunStep
<1>3. ASSUME NEW j \in Jobs, ComesDue(j) PROVE JobTypes'
  BY <1>0, <1>3 DEF ComesDue, JobTypes, Exists
<1>4. ASSUME NEW j \in Once, RunAtPasses(j) PROVE JobTypes'
  BY <1>0, <1>4 DEF RunAtPasses, JobTypes, Exists
<1>5. ASSUME NEW j \in Jobs, BackoffElapses(j) PROVE JobTypes'
  BY <1>0, <1>5 DEF BackoffElapses, JobTypes, Exists
<1>6. ASSUME NEW j \in Jobs, NEW enabled \in BOOLEAN, CreateJob(j, enabled) PROVE JobTypes'
  BY <1>0, <1>6 DEF CreateJob, JobTypes, Exists, HasNextRun
<1>7. ASSUME NEW j \in Jobs, ToggleJob(j) PROVE JobTypes'
  BY <1>0, <1>7 DEF ToggleJob, JobTypes, Exists, HasNextRun, Leave
<1>8. ASSUME NEW j \in Jobs, EditEnabled(j) PROVE JobTypes'
  BY <1>0, <1>8 DEF EditEnabled, JobTypes, Exists
<1>9. ASSUME NEW j \in Jobs, DeleteJob(j) PROVE JobTypes'
  <2>1. failures' \in [Jobs -> 0..MaxFailures] /\ cooling' \subseteq {k \in Jobs : failures'[k] > 0}
    BY <1>0, <1>9, LimitsAssumption DEF DeleteJob, JobTypes
  <2> QED
    BY <1>0, <1>9, <2>1 DEF DeleteJob, JobTypes, Exists, Leave
<1>10. QED
  BY <1>0, <1>1, <1>2, <1>3, <1>4, <1>5, <1>6, <1>7, <1>8, <1>9, JobTypesKept
  DEF Next, JobStep, vars, CleanupOldRuns, RunNow, Crash, Restart

\* The types of the runs are kept.
LEMMA RunTypeStep == TypeOK /\ [Next]_vars => RunTypes'
<1> SUFFICES ASSUME TypeOK, [Next]_vars PROVE RunTypes'
  OBVIOUS
<1>0. JobTypes /\ RunTypes
  BY TypeParts
<1>1. CASE CheckDueJobs
  <2>1. PICK new \in FreshRuns(Dispatched) : CreateRuns(new)
    BY <1>1 DEF CheckDueJobs
  <2>2. Dispatched \in SUBSET Jobs
    BY DEF Dispatched, Considered, TypeOK
  <2>3. manual' = manual
    BY <1>1 DEF CheckDueJobs
  <2> QED
    BY <1>0, <2>1, <2>2, <2>3, CreateRunsTypes DEF RunTypes
<1>2. ASSUME NEW r \in Runs, BeginRun(r) PROVE RunTypes'
  BY <1>0, <1>2 DEF BeginRun, RunTypes, Live
<1>3. ASSUME NEW r \in Runs, NEW ok \in BOOLEAN, EndRun(r, ok) PROVE RunTypes'
  BY <1>0, <1>3, LimitsAssumption DEF EndRun, RunTypes, Live, Forget
<1>4. CASE CleanupOldRuns
  <2>1. PICK r \in Running : task[r] = "none" /\ row' = [row EXCEPT ![r] = "none"] /\ Forget({r})
    BY <1>4 DEF CleanupOldRuns
  <2> QED
    BY <1>0, <1>4, <2>1, LimitsAssumption DEF CleanupOldRuns, Running, RunTypes, Live, Forget
<1>5. ASSUME NEW j \in Jobs, RunNow(j) PROVE RunTypes'
  <2>1. PICK new \in FreshRuns({j}) : CreateRuns(new) /\ manual' = manual \cup {new[j]}
    BY <1>5 DEF RunNow
  <2> QED
    BY <1>0, <2>1, CreateRunsTypes DEF RunTypes
<1>6. ASSUME NEW j \in Jobs, DeleteJob(j) PROVE RunTypes'
  BY <1>0, <1>6, LimitsAssumption DEF DeleteJob, RunTypes, Live, Forget
<1>7. CASE Crash
  BY <1>0, <1>7, LimitsAssumption DEF Crash, RunTypes, Live, Forget, Running
<1>8. QED
  BY <1>0, <1>1, <1>2, <1>3, <1>4, <1>5, <1>6, <1>7, RunTypesKept
  DEF Next, RunStep, JobStep, vars, ComesDue, BackoffElapses, CreateJob, ToggleJob, EditEnabled, RunAtPasses, Restart

\* Every step keeps the types.
LEMMA TypeStep == TypeOK /\ [Next]_vars => TypeOK'
<1> SUFFICES ASSUME TypeOK, [Next]_vars PROVE TypeOK'
  OBVIOUS
<1> USE DEF Next, RunStep, JobStep, vars, CheckDueJobs, BeginRun, EndRun, CleanupOldRuns, RunNow, DeleteJob,
            Crash, ComesDue, BackoffElapses, CreateJob, ToggleJob, EditEnabled, RunAtPasses, Restart
<1>1. up' \in BOOLEAN
  BY DEF TypeOK
<1>2. calls' \in 0..MaxCalls
  <2>1. UNCHANGED calls \/ UserCall
    OBVIOUS
  <2> QED
    BY <2>1, LimitsAssumption DEF TypeOK, UserCall
<1>3. fired' \in [Once -> 0..2]
  <2>1. CASE CheckDueJobs
    <3>1. fired \in [Once -> 0..2]
      BY DEF TypeOK
    <3>2. fired' = [j \in Once |-> IF j \in Dispatched /\ fired[j] < 2 THEN fired[j] + 1 ELSE fired[j]]
      BY <2>1
    <3> QED
      BY <3>1, <3>2
  <2>2. CASE UNCHANGED fired
    BY <2>2 DEF TypeOK
  <2> QED
    BY <2>1, <2>2
<1>4. QED
  BY <1>1, <1>2, <1>3, JobTypeStep, RunTypeStep DEF TypeOK, JobTypes, RunTypes

-----------------------------------------------------------------------------
(* Counting.                                                               *)

\* A set of runs is finite, and has no more members than one it is a part of.
LEMMA RunsFinite ==
    ASSUME NEW S \in SUBSET Runs, NEW T \in SUBSET S
    PROVE  /\ IsFiniteSet(S) /\ IsFiniteSet(T)
           /\ Cardinality(S) \in Nat /\ Cardinality(T) \in Nat
           /\ Cardinality(T) <= Cardinality(S)
<1>1. IsFiniteSet(S)
  BY RunsAssumption, FS_Subset
<1>2. QED
  BY <1>1, FS_Subset, FS_CardinalityType

\* In a queue, the members with fewer than n before them are at most n: no two have
\* the same number before them.
LEMMA FrontBound ==
    ASSUME NEW Q \in SUBSET Jobs, NEW n \in Nat, NEW before, InOrder(Q, before),
           NEW T, T = {j \in Q : Cardinality({k \in Q : <<k, j>> \in before}) < n}
    PROVE  IsFiniteSet(T) /\ Cardinality(T) \in Nat /\ Cardinality(T) <= n
<1> DEFINE Before(j) == {k \in Q : <<k, j>> \in before}
           rank == [j \in T |-> Cardinality(Before(j))]
<1>1. \A j \in Q : IsFiniteSet(Before(j)) /\ Cardinality(Before(j)) \in Nat
  <2>1. IsFiniteSet(Q)
    BY JobsAssumption, FS_Subset
  <2>2. \A j \in Q : Before(j) \in SUBSET Q
    OBVIOUS
  <2> QED
    BY <2>1, <2>2, FS_Subset, FS_CardinalityType
<1>2. rank \in [T -> 0..(n - 1)]
  <2>1. \A j \in T : Cardinality(Before(j)) \in 0..(n - 1)
    BY <1>1
  <2> HIDE DEF Before
  <2> QED
    BY <2>1
<1>3. ASSUME NEW j \in T, NEW k \in T, <<k, j>> \in before PROVE rank[j] # rank[k]
  <2>1. Before(k) \in SUBSET Before(j) /\ k \in Before(j) /\ k \notin Before(k)
    BY <1>3 DEF InOrder
  <2>2. Cardinality(Before(j)) # Cardinality(Before(k))
    BY <1>1, <2>1, FS_Subset
  <2> QED
    BY <2>2
<1>4. \A j, k \in T : rank[j] = rank[k] => j = k
  BY <1>3 DEF InOrder
<1>5. rank \in Injection(T, 0..(n - 1))
  BY <1>2, <1>4, Fun_IsInj
<1>6. IsFiniteSet(0..(n - 1)) /\ Cardinality(0..(n - 1)) = n
  BY FS_Interval
<1>7. QED
  BY <1>5, <1>6, FS_Injection, FS_CardinalityType

\* A check dispatches no more jobs than there are slots.
LEMMA DispatchedFit ==
    ASSUME Slots \in Nat, TypeOK, InOrder(due, ahead)
    PROVE  /\ IsFiniteSet(Dispatched)
           /\ Cardinality(Dispatched) \in Nat
           /\ Cardinality(Dispatched) <= Slots
<1>1. IsFiniteSet(Considered) /\ Cardinality(Considered) \in Nat /\ Cardinality(Considered) <= Slots
  <2> DEFINE enabled == {j \in due : job[j] = "enabled"}
  <2>1. enabled \in SUBSET Jobs /\ InOrder(enabled, ahead)
    BY DEF TypeOK, InOrder
  <2>2. Considered = {j \in enabled : Cardinality({k \in enabled : <<k, j>> \in ahead}) < Slots}
    BY DEF Considered
  <2> HIDE DEF enabled
  <2> QED
    BY <2>1, <2>2, FrontBound
<1>2. Dispatched \in SUBSET Considered
  BY DEF Dispatched
<1>3. QED
  BY <1>1, <1>2, FS_Subset, FS_CardinalityType

-----------------------------------------------------------------------------
(* The steps.                                                              *)

\* A check that dispatches has counted every run that it may not exceed.
LEMMA CheckKeepsLimit ==
    ASSUME TypeOK, InOrder(due, ahead), ScheduledWithinLimit, CheckDueJobs PROVE ScheduledWithinLimit'
<1> DEFINE Old == Scheduled
<1>1. Old \subseteq Running /\ Running \in SUBSET Runs
  BY DEF CheckDueJobs, Running, Scheduled, TypeOK
<1>2. Cardinality(Running) \in Nat /\ Cardinality(Old) \in Nat /\ IsFiniteSet(Old)
      /\ Cardinality(Old) <= Cardinality(Running)
  BY <1>1, RunsFinite
<1>3. Slots \in Nat /\ (Slots # 0 => Cardinality(Running) + Slots = MaxConcurrent)
  BY <1>2, LimitsAssumption DEF Slots
<1>4. /\ IsFiniteSet(Dispatched) /\ Cardinality(Dispatched) \in Nat
      /\ Cardinality(Dispatched) <= Slots
  BY <1>3, DispatchedFit
<1>5. Cardinality(Dispatched) # 0
  BY <1>4, FS_EmptySet DEF CheckDueJobs
<1>6. PICK new \in FreshRuns(Dispatched) : CreateRuns(new)
  BY DEF CheckDueJobs
<1> DEFINE New == {new[j] : j \in Dispatched}
<1>7. new \in [Dispatched -> Runs] /\ DOMAIN new = Dispatched
  BY <1>6 DEF FreshRuns, Free
<1>8. new \in Surjection(Dispatched, New)
  BY <1>7, Fun_IsSurj
<1>9. IsFiniteSet(New) /\ Cardinality(New) \in Nat /\ Cardinality(New) <= Cardinality(Dispatched)
  BY <1>4, <1>8, FS_Surjection, FS_CardinalityType
<1>10. Scheduled' \in SUBSET (Old \cup New)
  BY <1>6, <1>7 DEF Scheduled, CreateRuns, CheckDueJobs
<1>11. IsFiniteSet(Old \cup New)
       /\ Cardinality(Old \cup New) = Cardinality(Old) + Cardinality(New) - Cardinality(Old \cap New)
  BY <1>2, <1>9, FS_Union
<1>12. Cardinality(Old \cap New) \in Nat
  BY <1>2, FS_Subset, FS_CardinalityType
<1>13. Cardinality(Scheduled') <= Cardinality(Old \cup New) /\ Cardinality(Scheduled') \in Nat
  BY <1>10, <1>11, FS_Subset, FS_CardinalityType
<1>14. Cardinality(Old \cup New) \in Nat
  BY <1>11, FS_CardinalityType
<1>15. Cardinality(Scheduled') <= MaxConcurrent
  BY <1>2, <1>3, <1>4, <1>5, <1>9, <1>11, <1>12, <1>13, <1>14, LimitsAssumption
<1>16. QED
  BY <1>15 DEF ScheduledWithinLimit, Scheduled

\* No other step makes a run count that did not.
LEMMA LimitStep == TypeOK /\ InOrder(due, ahead) /\ ScheduledWithinLimit /\ [Next]_vars => ScheduledWithinLimit'
<1> SUFFICES ASSUME TypeOK, InOrder(due, ahead), ScheduledWithinLimit, [Next]_vars PROVE ScheduledWithinLimit'
  OBVIOUS
<1>1. ASSUME Scheduled' \subseteq Scheduled PROVE ScheduledWithinLimit'
  <2>1. /\ Cardinality(Scheduled') <= Cardinality(Scheduled)
        /\ Cardinality(Scheduled') \in Nat /\ Cardinality(Scheduled) \in Nat
    BY <1>1, RunsFinite DEF Scheduled
  <2>2. Cardinality(Scheduled) <= MaxConcurrent
    BY DEF ScheduledWithinLimit, Scheduled
  <2>3. Cardinality(Scheduled') <= MaxConcurrent
    BY <2>1, <2>2, LimitsAssumption
  <2> QED
    BY <2>3 DEF ScheduledWithinLimit, Scheduled
<1> USE DEF runVars, jobVars, Scheduled
<1>2. ASSUME UNCHANGED <<row, manual>> PROVE Scheduled' \subseteq Scheduled
  BY <1>2
<1>3. CASE CheckDueJobs
  BY <1>3, CheckKeepsLimit
<1>4. ASSUME NEW r \in Runs, RunStep(r) PROVE Scheduled' \subseteq Scheduled
  BY <1>4 DEF RunStep, BeginRun, EndRun, Forget, TypeOK
<1>5. CASE CleanupOldRuns
  <2>1. Scheduled' \subseteq Scheduled
    BY <1>5 DEF CleanupOldRuns, Forget, TypeOK
  <2> QED
    BY <1>1, <2>1
<1>6. ASSUME NEW j \in Jobs, RunNow(j) PROVE Scheduled' \subseteq Scheduled
  <2>1. PICK new \in FreshRuns({j}) : CreateRuns(new) /\ manual' = manual \cup {new[j]}
    BY <1>6 DEF RunNow
  <2>2. DOMAIN new = {j}
    BY <2>1 DEF FreshRuns
  <2> QED
    BY <2>1, <2>2 DEF CreateRuns
<1>7. ASSUME NEW j \in Jobs, DeleteJob(j) PROVE Scheduled' \subseteq Scheduled
  BY <1>7 DEF DeleteJob, Forget
<1>8. CASE Crash
  <2>1. Scheduled' \subseteq Scheduled
    BY <1>8 DEF Crash, Forget, Running, TypeOK
  <2> QED
    BY <1>1, <2>1
<1>9. CASE UNCHANGED vars
  BY <1>1, <1>2, <1>9 DEF vars
<1>10. QED
  BY <1>1, <1>2, <1>3, <1>4, <1>5, <1>6, <1>7, <1>8, <1>9
  DEF Next, JobStep, ComesDue, BackoffElapses, CreateJob, ToggleJob, EditEnabled, RunAtPasses, Restart

-----------------------------------------------------------------------------
(* Order, and one-shot jobs.                                               *)

\* The jobs that are due stay in order: what leaves, leaves the others in theirs, and what
\* joins is behind all.
LEMMA OrderStep == TypeOK /\ InOrder(due, ahead) /\ [Next]_vars => InOrder(due, ahead)'
<1> SUFFICES ASSUME TypeOK, InOrder(due, ahead), [Next]_vars PROVE InOrder(due, ahead)'
  OBVIOUS
<1>1. ASSUME NEW S, Leave(S) PROVE InOrder(due, ahead)'
  BY <1>1 DEF InOrder, Leave
<1>2. CASE UNCHANGED <<due, ahead>>
  BY <1>2 DEF InOrder
<1>3. ASSUME NEW j \in Jobs, ComesDue(j) PROVE InOrder(due, ahead)'
  <2>1. j \notin due /\ ahead \subseteq due \X due
    BY <1>3 DEF ComesDue, TypeOK
  <2>2. due' = due \cup {j} /\ ahead' = ahead \cup (due \X {j})
    BY <1>3 DEF ComesDue
  <2>3. \A x, y : <<x, y>> \in ahead' <=> <<x, y>> \in ahead \/ (x \in due /\ y = j)
    BY <2>2
  <2>4. \A x, y : <<x, y>> \in ahead => x \in due /\ y \in due
    BY <2>1
  <2> QED
    BY <2>1, <2>2, <2>3, <2>4 DEF InOrder
<1>4. QED
  BY <1>1, <1>2, <1>3
  DEF Next, RunStep, JobStep, vars, jobVars, CheckDueJobs, BeginRun, EndRun, CleanupOldRuns, RunNow, DeleteJob,
      Crash, BackoffElapses, CreateJob, ToggleJob, EditEnabled, RunAtPasses, Restart

\* A one-shot job that was dispatched is not planned again, and so not due again.
LEMMA OneShotStep == TypeOK /\ OneShotInv /\ [Next]_vars => OneShotInv'
<1> SUFFICES ASSUME TypeOK, OneShotInv, [Next]_vars PROVE OneShotInv'
  OBVIOUS
<1>1. CASE CheckDueJobs
  <2>1. /\ Dispatched \subseteq due /\ due' = due \ Dispatched /\ passed' = passed
        /\ fired' = [j \in Once |-> IF j \in Dispatched /\ fired[j] < 2 THEN fired[j] + 1 ELSE fired[j]]
    BY <1>1 DEF CheckDueJobs, Dispatched, Considered, Leave
  <2> QED
    BY <2>1 DEF OneShotInv
<1>2. ASSUME NEW j \in Jobs, ComesDue(j) PROVE OneShotInv'
  BY <1>2 DEF ComesDue, OneShotInv, TypeOK
<1>3. ASSUME NEW j \in Once, RunAtPasses(j) PROVE OneShotInv'
  BY <1>3 DEF RunAtPasses, OneShotInv
<1>4. CASE UNCHANGED <<passed, fired>> /\ due' \subseteq due
  BY <1>4 DEF OneShotInv
<1>5. QED
  BY <1>1, <1>2, <1>3, <1>4
  DEF Next, RunStep, JobStep, vars, jobVars, BeginRun, EndRun, CleanupOldRuns, RunNow, DeleteJob, Leave,
      Crash, BackoffElapses, CreateJob, ToggleJob, EditEnabled, Restart

-----------------------------------------------------------------------------
(* The theorems.                                                           *)

LEMMA CronInvariant == Spec => []CronInv
<1>1. Init => CronInv
  <2> SUFFICES ASSUME Init PROVE CronInv
    OBVIOUS
  <2>1. TypeOK
    BY LimitsAssumption, JobsAssumption DEF Init, TypeOK, Live, Exists
  <2>2. InOrder(due, ahead) /\ OneShotInv
    BY DEF Init, InOrder, OneShotInv
  <2> QED
    BY <2>1, <2>2 DEF CronInv
<1>2. CronInv /\ [Next]_vars => CronInv'
  BY TypeStep, OrderStep, OneShotStep DEF CronInv
<1>3. QED
  BY <1>1, <1>2, PTL DEF Spec

\* The variables have their types.
THEOREM TypeCorrect == Spec => []TypeOK
<1>1. CronInv => TypeOK
  BY DEF CronInv
<1>2. QED
  BY <1>1, CronInvariant, PTL

\* A one-shot job is dispatched by the check loop at most once, however often it is toggled,
\* edited, triggered by hand or caught by a crash.
THEOREM OneShotOnlyFiresOnce == Spec => []OneShotFiresOnce
<1>1. CronInv => OneShotFiresOnce
  BY DEF CronInv, OneShotInv, OneShotFiresOnce
<1>2. QED
  BY <1>1, CronInvariant, PTL

\* The runs the check loop started never exceed max_concurrent_jobs, whatever run_now,
\* delete_job, the cleanup and the crashes of the daemon do in between.
THEOREM LimitIsKept == Spec => []ScheduledWithinLimit
<1>1. Init => ScheduledWithinLimit
  <2> SUFFICES ASSUME Init PROVE ScheduledWithinLimit
    OBVIOUS
  <2>1. {r \in Runs \ manual : row[r] # "none"} = {}
    BY DEF Init
  <2> QED
    BY <2>1, FS_EmptySet, LimitsAssumption DEF ScheduledWithinLimit
<1>2. CronInv /\ ScheduledWithinLimit /\ [Next]_vars => ScheduledWithinLimit'
  BY LimitStep DEF CronInv
<1>3. QED
  BY <1>1, <1>2, CronInvariant, PTL DEF Spec
=============================================================================
