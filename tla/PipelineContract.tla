-------------------------- MODULE PipelineContract --------------------------
(***************************************************************************)
(* What the approval gates of a pipeline promise, whatever runs, resumes,  *)
(* cancels or restarts its execution: no step acts beyond a gate nobody    *)
(* cleared, and a run is not reported completed while a gate is uncleared. *)
(* PipelineExecution is shown to implement this specification.             *)
(***************************************************************************)
EXTENDS Naturals

CONSTANTS
    N,      \* number of steps of the pipeline
    Gated   \* the steps that require an approval

Steps == 1..N

VARIABLES
    cleared,    \* gates approved by a human, or skipped by their condition
    acted,      \* steps whose action has begun at least once
    completed   \* is the run reported completed?

contractVars == <<cleared, acted, completed>>

Init ==
    /\ cleared = {}
    /\ acted = {}
    /\ completed = FALSE

\* A gate is cleared; nothing ever makes it uncleared again.
Clear(g) ==
    /\ cleared' = cleared \cup {g}
    /\ UNCHANGED <<acted, completed>>

\* The approval of a gate may, in the same step, end a completed run.
ClearAndReopen(g) ==
    /\ cleared' = cleared \cup {g}
    /\ completed' = FALSE
    /\ UNCHANGED acted

\* The action of step s begins: every gate up to s has been cleared.
Act(s) ==
    /\ \A g \in Gated : g <= s => g \in cleared
    /\ acted' = acted \cup {s}
    /\ UNCHANGED <<cleared, completed>>

\* The run is reported completed: every gate has been cleared.
Complete ==
    /\ Gated \subseteq cleared
    /\ completed' = TRUE
    /\ UNCHANGED <<cleared, acted>>

\* The status is overwritten by a cancellation, a failure, a later gate...
Reopen ==
    /\ completed' = FALSE
    /\ UNCHANGED <<cleared, acted>>

Next ==
    \/ \E g \in Gated : Clear(g) \/ ClearAndReopen(g)
    \/ \E s \in Steps : Act(s)
    \/ Complete
    \/ Reopen

Spec == Init /\ [][Next]_contractVars
=============================================================================
