----------------------------- MODULE TaskClaims -----------------------------
(***************************************************************************)
(* Who works on a task.  The board keeps a status and an assignee for each *)
(* task; each agent session keeps, among its session variables, the dict   *)
(* claimed_tasks of the tasks it took.  The gate at the end of an agent's  *)
(* turn looks at the dict, so the two must tell the same story.            *)
(*                                                                         *)
(* The tools claim_task, close_task, reopen_task, escalate_task and the    *)
(* review tools run on the daemon's event loop, and so does the evaluation *)
(* of a hook: each is one step, except that close_task awaits an LLM       *)
(* verdict.  The AFTER_TOOL hook of a call is a later step, and reaches    *)
(* the daemon with or without the result of the call: Claude Code does not *)
(* send it.  A SESSION_START hook runs in a thread and re-assigns the      *)
(* tasks of the session it continues one by one.  Whatever else writes a   *)
(* task - the command line, the HTTP routes, the heartbeat, the spawning   *)
(* of an agent - is an edit of the board, which tells no dict.             *)
(*                                                                         *)
(* task_claimed is the truth of claimed_tasks # {}: every writer keeps it. *)
(* "review" stands for needs_review and review_approved.  A call that is   *)
(* refused and changes nothing is left out; so are subtasks (TaskGraph)    *)
(* and the commits a close asks for, which refuse or not, as it happens.   *)
(***************************************************************************)
EXTENDS Naturals, FiniteSets

CONSTANTS
    Sessions,       \* agent sessions, by seq_num; each is used once
    Nobody,         \* assignee NULL
    Tasks,          \* tasks of the board
    NoTask,         \* no call under way
    MaxAttempts,    \* max_stop_attempts
    MaxCalls,       \* bound on the tool calls
    MaxEdits        \* bound on the edits of the board and the prompts

ASSUME IdentitiesAssumption == Sessions \subseteq Nat /\ Nobody \notin Sessions /\ NoTask \notin Tasks
ASSUME BoundsAssumption == MaxAttempts \in Nat \ {0} /\ MaxCalls \in Nat /\ MaxEdits \in Nat

VARIABLES
    status,     \* status of each task
    assignee,   \* assignee of each task
    claimed,    \* claimed_tasks of each session
    attempts,   \* stop_attempts of each session
    phase,      \* what each session is in the middle of
    call,       \* the task its tool call is about
    inherit,    \* the tasks its SESSION_START hook has yet to re-assign
    holder,     \* history: whose claim of the task succeeded last
    untracked,  \* history: tasks handed to a session behind its dict's back
    calls, edits

board == <<status, assignee>>
agents == <<attempts, phase, call, inherit>>
vars == <<board, claimed, agents, holder, untracked, calls, edits>>

Statuses == {"open", "in_progress", "review", "escalated", "closed"}
Phases == {"unborn", "starting", "working", "claim_hook", "validating", "close_hook", "idle", "cleared"}

\* The tasks that the board says s is working on.
HeldBy(s) == {t \in Tasks : status[t] = "in_progress" /\ assignee[t] = s}

TypeOK ==
    /\ status \in [Tasks -> Statuses]
    /\ assignee \in [Tasks -> Sessions \cup {Nobody}]
    /\ claimed \in [Sessions -> SUBSET Tasks]
    /\ attempts \in [Sessions -> 0..MaxAttempts]
    /\ phase \in [Sessions -> Phases]
    /\ call \in [Sessions -> Tasks \cup {NoTask}]
    /\ \A s \in Sessions : call[s] # NoTask <=> phase[s] \in {"claim_hook", "validating", "close_hook"}
    /\ inherit \in [Sessions -> SUBSET Tasks]
    /\ \A s \in Sessions : inherit[s] # {} => phase[s] = "starting"
    /\ holder \in [Tasks -> Sessions \cup {Nobody}]
    /\ untracked \subseteq Tasks
    /\ calls \in 0..MaxCalls
    /\ edits \in 0..MaxEdits

Init ==
    /\ status = [t \in Tasks |-> "open"]
    /\ assignee = [t \in Tasks |-> Nobody]
    /\ claimed = [s \in Sessions |-> {}]
    /\ attempts = [s \in Sessions |-> 0]
    /\ phase = [s \in Sessions |-> "unborn"]
    /\ call = [s \in Sessions |-> NoTask]
    /\ inherit = [s \in Sessions |-> {}]
    /\ holder = [t \in Tasks |-> Nobody]
    /\ untracked = {}
    /\ calls = 0
    /\ edits = 0

----------------------------------------------------------------------------
(* What the steps are made of.                                             *)

\* s, at work, makes a tool call about t and ends up in phase p.
Call(s, t, p) ==
    /\ phase[s] = "working" /\ calls < MaxCalls
    /\ phase' = [phase EXCEPT ![s] = p]
    /\ call' = [call EXCEPT ![s] = IF p = "working" THEN NoTask ELSE t]
    /\ calls' = calls + 1
    /\ UNCHANGED <<attempts, inherit, edits>>

\* s goes from phase p, in the middle of a call, to phase q.
Continue(s, p, q) ==
    /\ phase[s] = p
    /\ phase' = [phase EXCEPT ![s] = q]
    /\ call' = [call EXCEPT ![s] = IF q = "working" THEN NoTask ELSE @]
    /\ UNCHANGED <<attempts, inherit, calls, edits>>

\* add_claimed_task, remove_claimed_task
AddClaimed(s, t) == claimed' = [claimed EXCEPT ![s] = @ \cup {t}]
RemoveClaimed(s, t) == claimed' = [claimed EXCEPT ![s] = @ \ {t}]

----------------------------------------------------------------------------
(* claim_task                                                              *)

Conflict(s, t) == assignee[t] \notin {s, Nobody}

\* Mutation of ClaimTask: the dict learns of the claim from the hook only.
ClaimTaskQuietly(s, t, force) ==
    /\ force \/ ~Conflict(s, t)
    /\ status' = [status EXCEPT ![t] = IF @ = "open" THEN "in_progress" ELSE @]
    /\ assignee' = [assignee EXCEPT ![t] = s]
    /\ holder' = [holder EXCEPT ![t] = s]
    /\ untracked' = untracked \ {t}
    /\ Call(s, t, "claim_hook")
    /\ UNCHANGED claimed

\* A claim takes the task, whatever its status, and an open one is begun.
\* A forced claim leaves the task in the dict of the session that loses it.
ClaimTask(s, t, force) ==
    /\ force \/ ~Conflict(s, t)
    /\ status' = [status EXCEPT ![t] = IF @ = "open" THEN "in_progress" ELSE @]
    /\ assignee' = [assignee EXCEPT ![t] = s]
    /\ AddClaimed(s, t)
    /\ holder' = [holder EXCEPT ![t] = s]
    /\ untracked' = untracked \ {t}
    /\ Call(s, t, "claim_hook")

\* A refused claim_task, or update_task to in_progress, which is always
\* refused, changes nothing until its hook arrives.
RefusedClaim(s, t) ==
    /\ Call(s, t, "claim_hook")
    /\ UNCHANGED <<board, claimed, holder, untracked>>

\* detect_task_claim: a call is taken to have succeeded unless its result
\* came along and says that it did not.
ClaimHook(s, t) ==
    /\ t = call[s]
    /\ AddClaimed(s, t)
    /\ Continue(s, "claim_hook", "working")
    /\ UNCHANGED <<board, holder, untracked>>

----------------------------------------------------------------------------
(* close_task                                                              *)

\* Storage closes the task as it is by then, and the dict of the caller, not
\* of the assignee, forgets it.
Closed(s, t) ==
    /\ status' = [status EXCEPT ![t] = "closed"]
    /\ RemoveClaimed(s, t)
    /\ UNCHANGED <<assignee, holder, untracked>>

\* A close without an LLM verdict: no criteria, a documentation-only diff, or
\* a reason that implies that no work was done.
CloseTask(s, t) == Closed(s, t) /\ Call(s, t, "close_hook")

\* skip_validation, refused to the assignee, has a human look at the task.
CloseUnvalidated(s, t) ==
    /\ assignee[t] # s
    /\ status' = [status EXCEPT ![t] = "review"]
    /\ Call(s, t, "close_hook")
    /\ UNCHANGED <<assignee, claimed, holder, untracked>>

BeginValidation(s, t) ==
    /\ Call(s, t, "validating")
    /\ UNCHANGED <<board, claimed, holder, untracked>>

Valid(s, t) == t = call[s] /\ Closed(s, t) /\ Continue(s, "validating", "close_hook")

\* The verdict, or the lack of one, refuses the close.
Invalid(s, t) ==
    /\ t = call[s]
    /\ Continue(s, "validating", "working")
    /\ UNCHANGED <<board, claimed, holder, untracked>>

\* detect_task_claim after a close: without the result it does nothing.
CloseHook(s, t) ==
    /\ t = call[s]
    /\ RemoveClaimed(s, t) \/ UNCHANGED claimed
    /\ Continue(s, "close_hook", "working")
    /\ UNCHANGED <<board, holder, untracked>>

----------------------------------------------------------------------------
(* The other tools that change a status.                                   *)

\* reopen_task, by whichever session, also tells the dict of the assignee.
ReopenTask(s, t) ==
    /\ status[t] # "open"
    /\ status' = [status EXCEPT ![t] = "open"]
    /\ assignee' = [assignee EXCEPT ![t] = Nobody]
    /\ claimed' = [a \in Sessions |-> IF a = assignee[t] THEN claimed[a] \ {t} ELSE claimed[a]]
    /\ holder' = [holder EXCEPT ![t] = Nobody]
    /\ untracked' = untracked \ {t}
    /\ Call(s, t, "working")

\* escalate_task; mark_task_needs_review and mark_task_review_approved
Mark(s, t, new) ==
    /\ \/ new = "escalated" /\ status[t] \notin {"escalated", "closed"}
       \/ new = "review"
    /\ status' = [status EXCEPT ![t] = new]
    /\ Call(s, t, "working")
    /\ UNCHANGED <<assignee, claimed, holder, untracked>>

\* The command line, a route, the heartbeat or a spawn writes the row.
EditBoard(t, new, who) ==
    /\ edits < MaxEdits
    /\ edits' = edits + 1
    /\ status' = [status EXCEPT ![t] = new]
    /\ assignee' = [assignee EXCEPT ![t] = who]
    /\ holder' = [holder EXCEPT ![t] = Nobody]
    /\ untracked' = IF new = "in_progress" THEN untracked \cup {t} ELSE untracked \ {t}
    /\ UNCHANGED <<claimed, agents, calls>>

----------------------------------------------------------------------------
(* The life of a session.                                                  *)

Newest(s) == phase[s] = "unborn" /\ \A r \in Sessions : r < s => phase[r] # "unborn"

StartSession(s) ==
    /\ Newest(s)
    /\ phase' = [phase EXCEPT ![s] = "starting"]
    /\ UNCHANGED <<board, claimed, attempts, call, inherit, holder, untracked, calls, edits>>

\* /compact or /clear ends session s, and n, which continues it, copies its
\* dict before it re-assigns the tasks in it.
Continuation(s, n) ==
    /\ phase[s] \in {"working", "idle"} /\ Newest(n)
    /\ phase' = [phase EXCEPT ![s] = "cleared", ![n] = "starting"]
    /\ claimed' = [claimed EXCEPT ![n] = claimed[s]]
    /\ inherit' = [inherit EXCEPT ![n] = claimed[s]]
    /\ holder' = [t \in Tasks |-> IF holder[t] = s THEN n ELSE holder[t]]
    /\ UNCHANGED <<board, attempts, call, untracked, calls, edits>>

\* Whatever has become of the task since the dict was written.
Reassign(n, t) ==
    /\ t \in inherit[n]
    /\ inherit' = [inherit EXCEPT ![n] = @ \ {t}]
    /\ assignee' = [assignee EXCEPT ![t] = n]
    /\ untracked' = IF t \in claimed[n] THEN untracked ELSE untracked \cup {t}
    /\ UNCHANGED <<status, claimed, attempts, phase, call, holder, calls, edits>>

\* get_claimed_task_info: an empty dict is filled from the board.
BeginWork(n) ==
    /\ phase[n] = "starting" /\ inherit[n] = {}
    /\ phase' = [phase EXCEPT ![n] = "working"]
    /\ claimed' = [claimed EXCEPT ![n] = IF @ = {} THEN HeldBy(n) ELSE @]
    /\ untracked' = untracked \ (claimed'[n] \cap HeldBy(n))
    /\ UNCHANGED <<board, attempts, call, inherit, holder, calls, edits>>

\* Mutation of Prompt: the count of the last turn stays.
PromptKeepingCount(s) ==
    /\ phase[s] = "idle" /\ edits < MaxEdits
    /\ phase' = [phase EXCEPT ![s] = "working"]
    /\ edits' = edits + 1
    /\ UNCHANGED <<board, claimed, attempts, call, inherit, holder, untracked, calls>>

\* BEFORE_AGENT: the user's next prompt.
Prompt(s) ==
    /\ phase[s] = "idle" /\ edits < MaxEdits
    /\ phase' = [phase EXCEPT ![s] = "working"]
    /\ attempts' = [attempts EXCEPT ![s] = 0]
    /\ edits' = edits + 1
    /\ UNCHANGED <<board, claimed, call, inherit, holder, untracked, calls>>

----------------------------------------------------------------------------
(* STOP                                                                    *)

\* Mutation of Reconciled: an empty dict is taken at its word.
PrunedOnly(s) == claimed[s] \cap HeldBy(s)

\* reconcile_claimed_tasks: a dict with entries is pruned, an empty one is
\* filled from the board.
Reconciled(s) == IF claimed[s] # {} THEN claimed[s] \cap HeldBy(s) ELSE HeldBy(s)

\* Mutation of Attempts: an attempt that is blocked does not count.
AttemptsOfTheAllowed(s) == IF Reconciled(s) = {} THEN attempts[s] + 1 ELSE attempts[s]

\* The engine counts an attempt before it evaluates the rules.
Attempts(s) == attempts[s] + 1

\* require-task-close holds an agent back until it has tried often enough.
Stop(s) ==
    /\ phase[s] = "working"
    /\ claimed' = [claimed EXCEPT ![s] = Reconciled(s)]
    /\ attempts' = [attempts EXCEPT ![s] = Attempts(s)]
    /\ phase' = [phase EXCEPT ![s] =
                    IF Reconciled(s) # {} /\ Attempts(s) < MaxAttempts THEN "working" ELSE "idle"]
    /\ untracked' = untracked \ Reconciled(s)
    /\ UNCHANGED <<board, call, inherit, holder, calls, edits>>

----------------------------------------------------------------------------

Tools(s, t) ==
    \/ \E force \in BOOLEAN : ClaimTask(s, t, force)
    \/ RefusedClaim(s, t)
    \/ CloseTask(s, t)
    \/ CloseUnvalidated(s, t)
    \/ BeginValidation(s, t)
    \/ ReopenTask(s, t)
    \/ \E new \in {"escalated", "review"} : Mark(s, t, new)

Hooks(s, t) == ClaimHook(s, t) \/ CloseHook(s, t) \/ Reassign(s, t)

Verdict(s, t) == Valid(s, t) \/ Invalid(s, t)

Next ==
    \/ \E s \in Sessions, t \in Tasks : Tools(s, t) \/ Hooks(s, t) \/ Verdict(s, t)
    \/ \E t \in Tasks, new \in Statuses, who \in Sessions \cup {Nobody} : EditBoard(t, new, who)
    \/ \E s \in Sessions : StartSession(s) \/ BeginWork(s) \/ Prompt(s) \/ Stop(s)
    \/ \E s, n \in Sessions : Continuation(s, n)

Spec == Init /\ [][Next]_vars

\* A hook and a verdict come in the end, and an agent that is let alone tries
\* to end its turn.  Tools, prompts and edits are at nobody's obligation.
Fairness ==
    /\ \A s \in Sessions : WF_vars(Stop(s)) /\ WF_vars(BeginWork(s))
    /\ \A s \in Sessions : WF_vars(\E t \in Tasks : Hooks(s, t)) /\ WF_vars(\E t \in Tasks : Verdict(s, t))

FairSpec == Spec /\ Fairness

----------------------------------------------------------------------------
(* Properties.                                                             *)

\* A task that the board shows in progress for a session is in that session's
\* dict, unless it was handed to the session behind its back: by an edit of
\* the board, or by a hand-over of a task reopened in the middle of it.
HeldIsKnown == \A s \in Sessions : HeldBy(s) \ untracked \subseteq claimed[s]

\* A turn that the gate lets end, other than out of patience, leaves nothing
\* in progress, except that the pruning of a dict that had entries does not
\* notice what was handed over behind its back.
StopLeavesNothingBehind ==
    [][\A s \in Sessions :
         phase[s] = "working" /\ phase'[s] = "idle" /\ attempts'[s] < MaxAttempts
         => HeldBy(s) \subseteq untracked /\ (claimed[s] = {} => HeldBy(s) = {})]_vars

\* The gate holds nobody for ever: whatever becomes of its tasks, a session
\* that is at work ends its turn, or is continued by another.
EveryTurnEnds == \A s \in Sessions : phase[s] = "working" ~> phase[s] \in {"idle", "cleared"}

\* claim_task "detects conflicts if already claimed by another session": a
\* claim that succeeded stands until it is forced, reopened or edited away,
\* or handed to the session that continues the holder.
ClaimsAreExclusive ==
    \A t \in Tasks :
        status[t] = "in_progress" /\ holder[t] # Nobody
        => assignee[t] = holder[t] \/ phase[holder[t]] = "starting"
=============================================================================
