------------------------- MODULE TaskClaims_proofs -------------------------
(***************************************************************************)
(* Proofs about TaskClaims, for any sessions, tasks and bounds: the dict   *)
(* of a session knows what the board shows in progress for it, and so a    *)
(* turn that the gate lets end leaves nothing behind.                      *)
(***************************************************************************)
EXTENDS TaskClaims, TLAPS

\* A hook that is still to remove a task from a dict removes no held one:
\* the call has closed the task, or sent it to review, and nobody but the
\* session itself could have claimed it for the session since.
HookIsHarmless == \A s \in Sessions : phase[s] = "close_hook" => call[s] \notin HeldBy(s) \ untracked

\* A session that may try to stop has attempts left.
Patient == \A s \in Sessions : phase[s] \notin {"idle", "cleared"} => attempts[s] < MaxAttempts

\* A session that is still to start has claimed nothing.
NewHasNone == \A s \in Sessions : phase[s] = "unborn" => claimed[s] = {}

IInv == TypeOK /\ Patient /\ NewHasNone /\ HeldIsKnown /\ HookIsHarmless

----------------------------------------------------------------------------

\* The initial state has the types.
LEMMA InitType == Init => TypeOK
BY IdentitiesAssumption, BoundsAssumption DEF IdentitiesAssumption, BoundsAssumption, Init, TypeOK, Statuses, Phases

\* A step of a tool or a hook keeps what it does not name, and the bounds.
LEMMA CallType ==
    ASSUME TypeOK, NEW s \in Sessions, NEW t \in Tasks, NEW p \in {"working", "claim_hook", "validating", "close_hook"},
           Call(s, t, p)
    PROVE  /\ phase' \in [Sessions -> Phases]
           /\ call' \in [Sessions -> Tasks \cup {NoTask}]
           /\ \A r \in Sessions : call'[r] # NoTask <=> phase'[r] \in {"claim_hook", "validating", "close_hook"}
           /\ attempts' \in [Sessions -> 0..MaxAttempts]
           /\ inherit' \in [Sessions -> SUBSET Tasks]
           /\ \A r \in Sessions : inherit'[r] # {} => phase'[r] = "starting"
           /\ calls' \in 0..MaxCalls
           /\ edits' \in 0..MaxEdits
BY IdentitiesAssumption, BoundsAssumption DEF IdentitiesAssumption, BoundsAssumption, TypeOK, Call, Phases

\* So does a step in the middle of a call.
LEMMA ContinueType ==
    ASSUME TypeOK, NEW s \in Sessions, NEW p \in {"claim_hook", "validating", "close_hook"},
           NEW q \in {"working", "close_hook"}, Continue(s, p, q)
    PROVE  /\ phase' \in [Sessions -> Phases]
           /\ call' \in [Sessions -> Tasks \cup {NoTask}]
           /\ \A r \in Sessions : call'[r] # NoTask <=> phase'[r] \in {"claim_hook", "validating", "close_hook"}
           /\ attempts' \in [Sessions -> 0..MaxAttempts]
           /\ inherit' \in [Sessions -> SUBSET Tasks]
           /\ \A r \in Sessions : inherit'[r] # {} => phase'[r] = "starting"
           /\ calls' \in 0..MaxCalls
           /\ edits' \in 0..MaxEdits
BY IdentitiesAssumption DEF IdentitiesAssumption, TypeOK, Continue, Phases

\* A session has its first attempt.
LEMMA InitPatient == Init => Patient
BY BoundsAssumption DEF BoundsAssumption, Init, Patient

\* A step keeps the types.
LEMMA TypeStep == TypeOK /\ Patient /\ [Next]_vars => TypeOK'
<1> SUFFICES ASSUME TypeOK, Patient, [Next]_vars PROVE TypeOK'
  OBVIOUS
<1> USE DEF board, agents
<1>1. CASE UNCHANGED vars
  BY <1>1 DEF vars, TypeOK
<1>2. ASSUME NEW s \in Sessions, NEW t \in Tasks, NEW force \in BOOLEAN, ClaimTask(s, t, force) PROVE TypeOK'
  <2>1. Call(s, t, "claim_hook")
    BY <1>2 DEF ClaimTask
  <2> QED BY <2>1, <1>2, CallType DEF ClaimTask, AddClaimed, TypeOK, Statuses
<1>3. ASSUME NEW s \in Sessions, NEW t \in Tasks, RefusedClaim(s, t) PROVE TypeOK'
  BY <1>3, CallType DEF RefusedClaim, TypeOK
<1>4. ASSUME NEW s \in Sessions, NEW t \in Tasks, ClaimHook(s, t) PROVE TypeOK'
  BY <1>4, ContinueType DEF ClaimHook, AddClaimed, TypeOK
<1>5. ASSUME NEW s \in Sessions, NEW t \in Tasks, CloseTask(s, t) PROVE TypeOK'
  BY <1>5, CallType DEF CloseTask, Closed, RemoveClaimed, TypeOK, Statuses
<1>6. ASSUME NEW s \in Sessions, NEW t \in Tasks, CloseUnvalidated(s, t) PROVE TypeOK'
  BY <1>6, CallType DEF CloseUnvalidated, TypeOK, Statuses
<1>7. ASSUME NEW s \in Sessions, NEW t \in Tasks, BeginValidation(s, t) PROVE TypeOK'
  BY <1>7, CallType DEF BeginValidation, TypeOK
<1>8. ASSUME NEW s \in Sessions, NEW t \in Tasks, Valid(s, t) PROVE TypeOK'
  BY <1>8, ContinueType DEF Valid, Closed, RemoveClaimed, TypeOK, Statuses
<1>9. ASSUME NEW s \in Sessions, NEW t \in Tasks, Invalid(s, t) PROVE TypeOK'
  BY <1>9, ContinueType DEF Invalid, TypeOK
<1>10. ASSUME NEW s \in Sessions, NEW t \in Tasks, CloseHook(s, t) PROVE TypeOK'
  BY <1>10, ContinueType DEF CloseHook, RemoveClaimed, TypeOK
<1>11. ASSUME NEW s \in Sessions, NEW t \in Tasks, ReopenTask(s, t) PROVE TypeOK'
  BY <1>11, CallType DEF ReopenTask, TypeOK, Statuses
<1>12. ASSUME NEW s \in Sessions, NEW t \in Tasks, NEW new \in {"escalated", "review"}, Mark(s, t, new) PROVE TypeOK'
  BY <1>12, CallType DEF Mark, TypeOK, Statuses
<1>13. ASSUME NEW t \in Tasks, NEW new \in Statuses, NEW who \in Sessions \cup {Nobody}, EditBoard(t, new, who) PROVE TypeOK'
  BY <1>13, BoundsAssumption DEF BoundsAssumption, EditBoard, TypeOK
<1>14. ASSUME NEW s \in Sessions, StartSession(s) PROVE TypeOK'
  BY <1>14 DEF StartSession, Newest, TypeOK, Phases
<1>15. ASSUME NEW s \in Sessions, NEW n \in Sessions, Continuation(s, n) PROVE TypeOK'
  BY <1>15 DEF Continuation, Newest, TypeOK, Phases
<1>16. ASSUME NEW n \in Sessions, NEW t \in Tasks, Reassign(n, t) PROVE TypeOK'
  BY <1>16 DEF Reassign, TypeOK
<1>17. ASSUME NEW n \in Sessions, BeginWork(n) PROVE TypeOK'
  BY <1>17 DEF BeginWork, HeldBy, TypeOK, Phases
<1>18. ASSUME NEW s \in Sessions, Prompt(s) PROVE TypeOK'
  BY <1>18, BoundsAssumption DEF BoundsAssumption, Prompt, TypeOK, Phases
<1>19. ASSUME NEW s \in Sessions, Stop(s) PROVE TypeOK'
  <2>1. attempts[s] < MaxAttempts
    BY <1>19 DEF Stop, Patient
  <2>2. attempts[s] + 1 \in 0..MaxAttempts
    BY <2>1, BoundsAssumption DEF BoundsAssumption, TypeOK
  <2>3. Reconciled(s) \in SUBSET Tasks
    BY DEF Reconciled, HeldBy
  <2> QED BY <2>2, <2>3, <1>19 DEF Stop, Attempts, TypeOK, Phases
<1> QED BY <1>1, <1>2, <1>3, <1>4, <1>5, <1>6, <1>7, <1>8, <1>9, <1>10, <1>11, <1>12, <1>13, <1>14,
           <1>15, <1>16, <1>17, <1>18, <1>19 DEF Next, Tools, Hooks, Verdict

\* Only a STOP uses an attempt, and the last one ends the turn.
LEMMA PatientStep == TypeOK /\ Patient /\ [Next]_vars => Patient'
<1> SUFFICES ASSUME TypeOK, Patient, [Next]_vars PROVE Patient'
  OBVIOUS
<1> USE DEF board, agents
<1>1. CASE UNCHANGED vars
  BY <1>1 DEF vars, Patient, TypeOK
<1>2. ASSUME NEW s \in Sessions, NEW t \in Tasks, NEW force \in BOOLEAN, ClaimTask(s, t, force) PROVE Patient'
  BY <1>2 DEF ClaimTask, AddClaimed, Call, Patient, TypeOK
<1>3. ASSUME NEW s \in Sessions, NEW t \in Tasks, RefusedClaim(s, t) PROVE Patient'
  BY <1>3 DEF RefusedClaim, Call, Patient, TypeOK
<1>4. ASSUME NEW s \in Sessions, NEW t \in Tasks, ClaimHook(s, t) PROVE Patient'
  BY <1>4 DEF ClaimHook, AddClaimed, Continue, Patient, TypeOK
<1>5. ASSUME NEW s \in Sessions, NEW t \in Tasks, CloseTask(s, t) PROVE Patient'
  BY <1>5 DEF CloseTask, Closed, RemoveClaimed, Call, Patient, TypeOK
<1>6. ASSUME NEW s \in Sessions, NEW t \in Tasks, CloseUnvalidated(s, t) PROVE Patient'
  BY <1>6 DEF CloseUnvalidated, Call, Patient, TypeOK
<1>7. ASSUME NEW s \in Sessions, NEW t \in Tasks, BeginValidation(s, t) PROVE Patient'
  BY <1>7 DEF BeginValidation, Call, Patient, TypeOK
<1>8. ASSUME NEW s \in Sessions, NEW t \in Tasks, Valid(s, t) PROVE Patient'
  BY <1>8 DEF Valid, Closed, RemoveClaimed, Continue, Patient, TypeOK
<1>9. ASSUME NEW s \in Sessions, NEW t \in Tasks, Invalid(s, t) PROVE Patient'
  BY <1>9 DEF Invalid, Continue, Patient, TypeOK
<1>10. ASSUME NEW s \in Sessions, NEW t \in Tasks, CloseHook(s, t) PROVE Patient'
  BY <1>10 DEF CloseHook, RemoveClaimed, Continue, Patient, TypeOK
<1>11. ASSUME NEW s \in Sessions, NEW t \in Tasks, ReopenTask(s, t) PROVE Patient'
  BY <1>11 DEF ReopenTask, Call, Patient, TypeOK
<1>12. ASSUME NEW s \in Sessions, NEW t \in Tasks, NEW new \in {"escalated", "review"}, Mark(s, t, new) PROVE Patient'
  BY <1>12 DEF Mark, Call, Patient, TypeOK
<1>13. ASSUME NEW t \in Tasks, NEW new \in Statuses, NEW who \in Sessions \cup {Nobody}, EditBoard(t, new, who) PROVE Patient'
  BY <1>13 DEF EditBoard, Patient, TypeOK
<1>14. ASSUME NEW s \in Sessions, StartSession(s) PROVE Patient'
  BY <1>14 DEF StartSession, Newest, Patient, TypeOK
<1>15. ASSUME NEW s \in Sessions, NEW n \in Sessions, Continuation(s, n) PROVE Patient'
  BY <1>15 DEF Continuation, Newest, Patient, TypeOK
<1>16. ASSUME NEW n \in Sessions, NEW t \in Tasks, Reassign(n, t) PROVE Patient'
  BY <1>16 DEF Reassign, Patient, TypeOK
<1>17. ASSUME NEW n \in Sessions, BeginWork(n) PROVE Patient'
  BY <1>17 DEF BeginWork, Patient, TypeOK
<1>18. ASSUME NEW s \in Sessions, Prompt(s) PROVE Patient'
  BY <1>18, BoundsAssumption DEF Prompt, Patient, TypeOK
<1>19. ASSUME NEW s \in Sessions, Stop(s) PROVE Patient'
  BY <1>19, BoundsAssumption DEF Stop, Patient, TypeOK
<1> QED BY <1>1, <1>2, <1>3, <1>4, <1>5, <1>6, <1>7, <1>8, <1>9, <1>10, <1>11, <1>12, <1>13, <1>14,
           <1>15, <1>16, <1>17, <1>18, <1>19 DEF Next, Tools, Hooks, Verdict

\* A step leaves the dicts knowing what is held.
LEMMA HeldStep == TypeOK /\ NewHasNone /\ HeldIsKnown /\ HookIsHarmless /\ [Next]_vars => HeldIsKnown'
<1> SUFFICES ASSUME TypeOK, NewHasNone, HeldIsKnown, HookIsHarmless, [Next]_vars PROVE HeldIsKnown'
  OBVIOUS
<1> USE DEF board, agents
<1>1. CASE UNCHANGED vars
  BY <1>1 DEF vars, HeldIsKnown, HookIsHarmless, HeldBy, TypeOK
<1>2. ASSUME NEW s \in Sessions, NEW t \in Tasks, NEW force \in BOOLEAN, ClaimTask(s, t, force) PROVE HeldIsKnown'
  BY <1>2 DEF ClaimTask, AddClaimed, Call, HeldIsKnown, HookIsHarmless, HeldBy, TypeOK
<1>3. ASSUME NEW s \in Sessions, NEW t \in Tasks, RefusedClaim(s, t) PROVE HeldIsKnown'
  BY <1>3 DEF RefusedClaim, Call, HeldIsKnown, HookIsHarmless, HeldBy, TypeOK
<1>4. ASSUME NEW s \in Sessions, NEW t \in Tasks, ClaimHook(s, t) PROVE HeldIsKnown'
  BY <1>4 DEF ClaimHook, AddClaimed, Continue, HeldIsKnown, HookIsHarmless, HeldBy, TypeOK
<1>5. ASSUME NEW s \in Sessions, NEW t \in Tasks, CloseTask(s, t) PROVE HeldIsKnown'
  BY <1>5 DEF CloseTask, Closed, RemoveClaimed, Call, HeldIsKnown, HookIsHarmless, HeldBy, TypeOK
<1>6. ASSUME NEW s \in Sessions, NEW t \in Tasks, CloseUnvalidated(s, t) PROVE HeldIsKnown'
  BY <1>6 DEF CloseUnvalidated, Call, HeldIsKnown, HookIsHarmless, HeldBy, TypeOK
<1>7. ASSUME NEW s \in Sessions, NEW t \in Tasks, BeginValidation(s, t) PROVE HeldIsKnown'
  BY <1>7 DEF BeginValidation, Call, HeldIsKnown, HookIsHarmless, HeldBy, TypeOK
<1>8. ASSUME NEW s \in Sessions, NEW t \in Tasks, Valid(s, t) PROVE HeldIsKnown'
  BY <1>8 DEF Valid, Closed, RemoveClaimed, Continue, HeldIsKnown, HookIsHarmless, HeldBy, TypeOK
<1>9. ASSUME NEW s \in Sessions, NEW t \in Tasks, Invalid(s, t) PROVE HeldIsKnown'
  BY <1>9 DEF Invalid, Continue, HeldIsKnown, HookIsHarmless, HeldBy, TypeOK
<1>10. ASSUME NEW s \in Sessions, NEW t \in Tasks, CloseHook(s, t) PROVE HeldIsKnown'
  BY <1>10 DEF CloseHook, RemoveClaimed, Continue, HeldIsKnown, HookIsHarmless, HeldBy, TypeOK
<1>11. ASSUME NEW s \in Sessions, NEW t \in Tasks, ReopenTask(s, t) PROVE HeldIsKnown'
  BY <1>11 DEF ReopenTask, Call, HeldIsKnown, HookIsHarmless, HeldBy, TypeOK
<1>12. ASSUME NEW s \in Sessions, NEW t \in Tasks, NEW new \in {"escalated", "review"}, Mark(s, t, new) PROVE HeldIsKnown'
  BY <1>12 DEF Mark, Call, HeldIsKnown, HookIsHarmless, HeldBy, TypeOK
<1>13. ASSUME NEW t \in Tasks, NEW new \in Statuses, NEW who \in Sessions \cup {Nobody}, EditBoard(t, new, who) PROVE HeldIsKnown'
  BY <1>13 DEF EditBoard, HeldIsKnown, HookIsHarmless, HeldBy, TypeOK
<1>14. ASSUME NEW s \in Sessions, StartSession(s) PROVE HeldIsKnown'
  BY <1>14 DEF StartSession, Newest, HeldIsKnown, HookIsHarmless, HeldBy, TypeOK
<1>15. ASSUME NEW s \in Sessions, NEW n \in Sessions, Continuation(s, n) PROVE HeldIsKnown'
  <2>1. claimed[n] = {}
    BY <1>15 DEF Continuation, Newest, NewHasNone
  <2> QED BY <2>1, <1>15 DEF Continuation, HeldIsKnown, HeldBy, TypeOK
<1>16. ASSUME NEW n \in Sessions, NEW t \in Tasks, Reassign(n, t) PROVE HeldIsKnown'
  BY <1>16 DEF Reassign, HeldIsKnown, HookIsHarmless, HeldBy, TypeOK
<1>17. ASSUME NEW n \in Sessions, BeginWork(n) PROVE HeldIsKnown'
  BY <1>17 DEF BeginWork, HeldIsKnown, HookIsHarmless, HeldBy, TypeOK
<1>18. ASSUME NEW s \in Sessions, Prompt(s) PROVE HeldIsKnown'
  BY <1>18 DEF Prompt, HeldIsKnown, HookIsHarmless, HeldBy, TypeOK
<1>19. ASSUME NEW s \in Sessions, Stop(s) PROVE HeldIsKnown'
  <2>1. HeldBy(s) \ untracked \subseteq Reconciled(s)
    BY DEF HeldIsKnown, Reconciled
  <2>2. Reconciled(s) \subseteq HeldBy(s)
    BY DEF Reconciled
  <2>3. ASSUME NEW r \in Sessions PROVE HeldBy(r)' = HeldBy(r)
    BY <1>19 DEF Stop, HeldBy
  <2>4. ASSUME NEW r \in Sessions PROVE HeldBy(r)' \ untracked' \subseteq claimed'[r]
    <3>1. CASE r = s
      BY <3>1, <2>1, <2>3, <1>19 DEF Stop, TypeOK
    <3>2. CASE r # s
      <4>1. HeldBy(r) \cap HeldBy(s) = {}
        BY <3>2 DEF HeldBy
      <4>2. claimed'[r] = claimed[r]
        BY <3>2, <1>19 DEF Stop, TypeOK
      <4>3. untracked' = untracked \ Reconciled(s)
        BY <1>19 DEF Stop
      <4> QED BY <4>1, <4>2, <4>3, <2>2, <2>3 DEF HeldIsKnown
    <3> QED BY <3>1, <3>2
  <2> QED BY <2>4 DEF HeldIsKnown
<1> QED BY <1>1, <1>2, <1>3, <1>4, <1>5, <1>6, <1>7, <1>8, <1>9, <1>10, <1>11, <1>12, <1>13, <1>14,
           <1>15, <1>16, <1>17, <1>18, <1>19 DEF Next, Tools, Hooks, Verdict

\* A step leaves every pending hook harmless.
LEMMA HookStep == TypeOK /\ HookIsHarmless /\ [Next]_vars => HookIsHarmless'
<1> SUFFICES ASSUME TypeOK, HookIsHarmless, [Next]_vars PROVE HookIsHarmless'
  OBVIOUS
<1> USE DEF board, agents
<1>1. CASE UNCHANGED vars
  BY <1>1 DEF vars, HookIsHarmless, HeldBy, TypeOK
<1>2. ASSUME NEW s \in Sessions, NEW t \in Tasks, NEW force \in BOOLEAN, ClaimTask(s, t, force) PROVE HookIsHarmless'
  BY <1>2 DEF ClaimTask, AddClaimed, Call, HookIsHarmless, HeldBy, TypeOK
<1>3. ASSUME NEW s \in Sessions, NEW t \in Tasks, RefusedClaim(s, t) PROVE HookIsHarmless'
  BY <1>3 DEF RefusedClaim, Call, HookIsHarmless, HeldBy, TypeOK
<1>4. ASSUME NEW s \in Sessions, NEW t \in Tasks, ClaimHook(s, t) PROVE HookIsHarmless'
  BY <1>4 DEF ClaimHook, AddClaimed, Continue, HookIsHarmless, HeldBy, TypeOK
<1>5. ASSUME NEW s \in Sessions, NEW t \in Tasks, CloseTask(s, t) PROVE HookIsHarmless'
  BY <1>5 DEF CloseTask, Closed, RemoveClaimed, Call, HookIsHarmless, HeldBy, TypeOK
<1>6. ASSUME NEW s \in Sessions, NEW t \in Tasks, CloseUnvalidated(s, t) PROVE HookIsHarmless'
  BY <1>6 DEF CloseUnvalidated, Call, HookIsHarmless, HeldBy, TypeOK
<1>7. ASSUME NEW s \in Sessions, NEW t \in Tasks, BeginValidation(s, t) PROVE HookIsHarmless'
  BY <1>7 DEF BeginValidation, Call, HookIsHarmless, HeldBy, TypeOK
<1>8. ASSUME NEW s \in Sessions, NEW t \in Tasks, Valid(s, t) PROVE HookIsHarmless'
  BY <1>8 DEF Valid, Closed, RemoveClaimed, Continue, HookIsHarmless, HeldBy, TypeOK
<1>9. ASSUME NEW s \in Sessions, NEW t \in Tasks, Invalid(s, t) PROVE HookIsHarmless'
  BY <1>9 DEF Invalid, Continue, HookIsHarmless, HeldBy, TypeOK
<1>10. ASSUME NEW s \in Sessions, NEW t \in Tasks, CloseHook(s, t) PROVE HookIsHarmless'
  BY <1>10 DEF CloseHook, RemoveClaimed, Continue, HookIsHarmless, HeldBy, TypeOK
<1>11. ASSUME NEW s \in Sessions, NEW t \in Tasks, ReopenTask(s, t) PROVE HookIsHarmless'
  BY <1>11 DEF ReopenTask, Call, HookIsHarmless, HeldBy, TypeOK
<1>12. ASSUME NEW s \in Sessions, NEW t \in Tasks, NEW new \in {"escalated", "review"}, Mark(s, t, new) PROVE HookIsHarmless'
  BY <1>12 DEF Mark, Call, HookIsHarmless, HeldBy, TypeOK
<1>13. ASSUME NEW t \in Tasks, NEW new \in Statuses, NEW who \in Sessions \cup {Nobody}, EditBoard(t, new, who) PROVE HookIsHarmless'
  BY <1>13 DEF EditBoard, HookIsHarmless, HeldBy, TypeOK
<1>14. ASSUME NEW s \in Sessions, StartSession(s) PROVE HookIsHarmless'
  BY <1>14 DEF StartSession, Newest, HookIsHarmless, HeldBy, TypeOK
<1>15. ASSUME NEW s \in Sessions, NEW n \in Sessions, Continuation(s, n) PROVE HookIsHarmless'
  BY <1>15 DEF Continuation, Newest, HookIsHarmless, HeldBy, TypeOK
<1>16. ASSUME NEW n \in Sessions, NEW t \in Tasks, Reassign(n, t) PROVE HookIsHarmless'
  BY <1>16 DEF Reassign, HookIsHarmless, HeldBy, TypeOK
<1>17. ASSUME NEW n \in Sessions, BeginWork(n) PROVE HookIsHarmless'
  BY <1>17 DEF BeginWork, HookIsHarmless, HeldBy, TypeOK
<1>18. ASSUME NEW s \in Sessions, Prompt(s) PROVE HookIsHarmless'
  BY <1>18 DEF Prompt, HookIsHarmless, HeldBy, TypeOK
<1>19. ASSUME NEW s \in Sessions, Stop(s) PROVE HookIsHarmless'
  <2>1. Reconciled(s) \subseteq HeldBy(s)
    BY DEF Reconciled
  <2>2. ASSUME NEW r \in Sessions PROVE HeldBy(r)' = HeldBy(r)
    BY <1>19 DEF Stop, HeldBy
  <2>3. ASSUME NEW r \in Sessions, phase'[r] = "close_hook" PROVE call'[r] \notin HeldBy(r)' \ untracked'
    <3>1. r # s /\ phase[r] = "close_hook" /\ call'[r] = call[r]
      BY <2>3, <1>19 DEF Stop, TypeOK
    <3>2. HeldBy(r) \cap HeldBy(s) = {}
      BY <3>1 DEF HeldBy
    <3>3. untracked' = untracked \ Reconciled(s)
      BY <1>19 DEF Stop
    <3> QED BY <3>1, <3>2, <3>3, <2>1, <2>2 DEF HookIsHarmless
  <2> QED BY <2>3 DEF HookIsHarmless
<1> QED BY <1>1, <1>2, <1>3, <1>4, <1>5, <1>6, <1>7, <1>8, <1>9, <1>10, <1>11, <1>12, <1>13, <1>14,
           <1>15, <1>16, <1>17, <1>18, <1>19 DEF Next, Tools, Hooks, Verdict

\* Only a session that has started claims.
LEMMA NewStep == TypeOK /\ NewHasNone /\ [Next]_vars => NewHasNone'
<1> SUFFICES ASSUME TypeOK, NewHasNone, [Next]_vars PROVE NewHasNone'
  OBVIOUS
<1> USE DEF board, agents
<1>1. CASE UNCHANGED vars
  BY <1>1 DEF vars, NewHasNone, TypeOK
<1>2. ASSUME NEW s \in Sessions, NEW t \in Tasks, NEW force \in BOOLEAN, ClaimTask(s, t, force) PROVE NewHasNone'
  BY <1>2 DEF ClaimTask, AddClaimed, Call, NewHasNone, TypeOK
<1>3. ASSUME NEW s \in Sessions, NEW t \in Tasks, RefusedClaim(s, t) PROVE NewHasNone'
  BY <1>3 DEF RefusedClaim, Call, NewHasNone, TypeOK
<1>4. ASSUME NEW s \in Sessions, NEW t \in Tasks, ClaimHook(s, t) PROVE NewHasNone'
  BY <1>4 DEF ClaimHook, AddClaimed, Continue, NewHasNone, TypeOK
<1>5. ASSUME NEW s \in Sessions, NEW t \in Tasks, CloseTask(s, t) PROVE NewHasNone'
  BY <1>5 DEF CloseTask, Closed, RemoveClaimed, Call, NewHasNone, TypeOK
<1>6. ASSUME NEW s \in Sessions, NEW t \in Tasks, CloseUnvalidated(s, t) PROVE NewHasNone'
  BY <1>6 DEF CloseUnvalidated, Call, NewHasNone, TypeOK
<1>7. ASSUME NEW s \in Sessions, NEW t \in Tasks, BeginValidation(s, t) PROVE NewHasNone'
  BY <1>7 DEF BeginValidation, Call, NewHasNone, TypeOK
<1>8. ASSUME NEW s \in Sessions, NEW t \in Tasks, Valid(s, t) PROVE NewHasNone'
  BY <1>8 DEF Valid, Closed, RemoveClaimed, Continue, NewHasNone, TypeOK
<1>9. ASSUME NEW s \in Sessions, NEW t \in Tasks, Invalid(s, t) PROVE NewHasNone'
  BY <1>9 DEF Invalid, Continue, NewHasNone, TypeOK
<1>10. ASSUME NEW s \in Sessions, NEW t \in Tasks, CloseHook(s, t) PROVE NewHasNone'
  BY <1>10 DEF CloseHook, RemoveClaimed, Continue, NewHasNone, TypeOK
<1>11. ASSUME NEW s \in Sessions, NEW t \in Tasks, ReopenTask(s, t) PROVE NewHasNone'
  BY <1>11 DEF ReopenTask, Call, NewHasNone, TypeOK
<1>12. ASSUME NEW s \in Sessions, NEW t \in Tasks, NEW new \in {"escalated", "review"}, Mark(s, t, new) PROVE NewHasNone'
  BY <1>12 DEF Mark, Call, NewHasNone, TypeOK
<1>13. ASSUME NEW t \in Tasks, NEW new \in Statuses, NEW who \in Sessions \cup {Nobody}, EditBoard(t, new, who) PROVE NewHasNone'
  BY <1>13 DEF EditBoard, NewHasNone, TypeOK
<1>14. ASSUME NEW s \in Sessions, StartSession(s) PROVE NewHasNone'
  BY <1>14 DEF StartSession, Newest, NewHasNone, TypeOK
<1>15. ASSUME NEW s \in Sessions, NEW n \in Sessions, Continuation(s, n) PROVE NewHasNone'
  BY <1>15 DEF Continuation, Newest, NewHasNone, TypeOK
<1>16. ASSUME NEW n \in Sessions, NEW t \in Tasks, Reassign(n, t) PROVE NewHasNone'
  BY <1>16 DEF Reassign, NewHasNone, TypeOK
<1>17. ASSUME NEW n \in Sessions, BeginWork(n) PROVE NewHasNone'
  BY <1>17 DEF BeginWork, NewHasNone, TypeOK
<1>18. ASSUME NEW s \in Sessions, Prompt(s) PROVE NewHasNone'
  BY <1>18 DEF Prompt, NewHasNone, TypeOK
<1>19. ASSUME NEW s \in Sessions, Stop(s) PROVE NewHasNone'
  BY <1>19 DEF Stop, NewHasNone, TypeOK
<1> QED BY <1>1, <1>2, <1>3, <1>4, <1>5, <1>6, <1>7, <1>8, <1>9, <1>10, <1>11, <1>12, <1>13, <1>14,
           <1>15, <1>16, <1>17, <1>18, <1>19 DEF Next, Tools, Hooks, Verdict

\* A turn ends by a STOP that is let through.
LEMMA OnlyStopEndsTurns ==
    ASSUME TypeOK, [Next]_vars, NEW e \in Sessions, phase[e] = "working", phase'[e] = "idle"
    PROVE  Stop(e)
<1> USE DEF board, agents
<1>1. CASE UNCHANGED vars
  BY <1>1 DEF vars, TypeOK
<1>2. ASSUME NEW s \in Sessions, NEW t \in Tasks, NEW force \in BOOLEAN, ClaimTask(s, t, force) PROVE Stop(e)
  BY <1>2 DEF ClaimTask, AddClaimed, Call, TypeOK
<1>3. ASSUME NEW s \in Sessions, NEW t \in Tasks, RefusedClaim(s, t) PROVE Stop(e)
  BY <1>3 DEF RefusedClaim, Call, TypeOK
<1>4. ASSUME NEW s \in Sessions, NEW t \in Tasks, ClaimHook(s, t) PROVE Stop(e)
  BY <1>4 DEF ClaimHook, AddClaimed, Continue, TypeOK
<1>5. ASSUME NEW s \in Sessions, NEW t \in Tasks, CloseTask(s, t) PROVE Stop(e)
  BY <1>5 DEF CloseTask, Closed, RemoveClaimed, Call, TypeOK
<1>6. ASSUME NEW s \in Sessions, NEW t \in Tasks, CloseUnvalidated(s, t) PROVE Stop(e)
  BY <1>6 DEF CloseUnvalidated, Call, TypeOK
<1>7. ASSUME NEW s \in Sessions, NEW t \in Tasks, BeginValidation(s, t) PROVE Stop(e)
  BY <1>7 DEF BeginValidation, Call, TypeOK
<1>8. ASSUME NEW s \in Sessions, NEW t \in Tasks, Valid(s, t) PROVE Stop(e)
  BY <1>8 DEF Valid, Closed, RemoveClaimed, Continue, TypeOK
<1>9. ASSUME NEW s \in Sessions, NEW t \in Tasks, Invalid(s, t) PROVE Stop(e)
  BY <1>9 DEF Invalid, Continue, TypeOK
<1>10. ASSUME NEW s \in Sessions, NEW t \in Tasks, CloseHook(s, t) PROVE Stop(e)
  BY <1>10 DEF CloseHook, RemoveClaimed, Continue, TypeOK
<1>11. ASSUME NEW s \in Sessions, NEW t \in Tasks, ReopenTask(s, t) PROVE Stop(e)
  BY <1>11 DEF ReopenTask, Call, TypeOK
<1>12. ASSUME NEW s \in Sessions, NEW t \in Tasks, NEW new \in {"escalated", "review"}, Mark(s, t, new) PROVE Stop(e)
  BY <1>12 DEF Mark, Call, TypeOK
<1>13. ASSUME NEW t \in Tasks, NEW new \in Statuses, NEW who \in Sessions \cup {Nobody}, EditBoard(t, new, who) PROVE Stop(e)
  BY <1>13 DEF EditBoard, TypeOK
<1>14. ASSUME NEW s \in Sessions, StartSession(s) PROVE Stop(e)
  BY <1>14 DEF StartSession, Newest, TypeOK
<1>15. ASSUME NEW s \in Sessions, NEW n \in Sessions, Continuation(s, n) PROVE Stop(e)
  BY <1>15 DEF Continuation, Newest, TypeOK
<1>16. ASSUME NEW n \in Sessions, NEW t \in Tasks, Reassign(n, t) PROVE Stop(e)
  BY <1>16 DEF Reassign, TypeOK
<1>17. ASSUME NEW n \in Sessions, BeginWork(n) PROVE Stop(e)
  BY <1>17 DEF BeginWork, TypeOK
<1>18. ASSUME NEW s \in Sessions, Prompt(s) PROVE Stop(e)
  BY <1>18 DEF Prompt, TypeOK
<1>19. ASSUME NEW s \in Sessions, Stop(s) PROVE Stop(e)
  BY <1>19 DEF Stop, TypeOK
<1> QED BY <1>1, <1>2, <1>3, <1>4, <1>5, <1>6, <1>7, <1>8, <1>9, <1>10, <1>11, <1>12, <1>13, <1>14,
           <1>15, <1>16, <1>17, <1>18, <1>19 DEF Next, Tools, Hooks, Verdict

\* The conjunction is an invariant.
LEMMA Inductive == Spec => []IInv
<1>1. Init => IInv
  BY InitType, InitPatient DEF IInv, Init, HeldIsKnown, HeldBy, HookIsHarmless, NewHasNone
<1>2. IInv /\ [Next]_vars => IInv'
  BY TypeStep, PatientStep, NewStep, HeldStep, HookStep DEF IInv
<1> QED BY <1>1, <1>2, PTL DEF Spec

\* Every variable keeps its type.
THEOREM TypeCorrect == Spec => []TypeOK
<1>1. IInv => TypeOK
  BY DEF IInv
<1> QED BY <1>1, Inductive, PTL

\* Whatever the sessions, hooks, hand-overs and edits do, in whatever order,
\* the dict of a session has every task that is in progress for it, except
\* one that it was handed behind its back (claim_task, detect_task_claim,
\* reconcile_claimed_tasks).
THEOREM ClaimsAreKnown == Spec => []HeldIsKnown
<1>1. IInv => HeldIsKnown
  BY DEF IInv
<1> QED BY <1>1, Inductive, PTL

\* So the gate at the end of a turn, which looks at the dict alone, lets no
\* turn end with a task in progress, unless it ran out of patience or the
\* task was handed over behind the dict's back.
THEOREM GateHolds == Spec => StopLeavesNothingBehind
<1> DEFINE Ends(s) == phase[s] = "working" /\ phase'[s] = "idle" /\ attempts'[s] < MaxAttempts
           Clean(s) == HeldBy(s) \subseteq untracked /\ (claimed[s] = {} => HeldBy(s) = {})
           A == \A s \in Sessions : Ends(s) => Clean(s)
<1>1. ASSUME IInv, [Next]_vars, NEW s \in Sessions, Ends(s) PROVE Clean(s)
  <2>1. Stop(s)
    BY <1>1, OnlyStopEndsTurns DEF IInv
  <2>2. Reconciled(s) = {}
    BY <2>1, <1>1 DEF Stop, IInv, TypeOK
  <2>3. HeldBy(s) \ untracked \subseteq Reconciled(s)
    BY <1>1 DEF IInv, HeldIsKnown, Reconciled
  <2> QED BY <2>2, <2>3 DEF Reconciled
<1>2. IInv /\ [Next]_vars => A
  BY <1>1
<1>3. IInv /\ [Next]_vars => [A]_vars
  BY <1>2
<1> QED BY <1>3, Inductive, PTL DEF Spec, StopLeavesNothingBehind
=============================================================================
