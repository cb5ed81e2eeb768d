--------------------------- MODULE TaskExpansion ---------------------------
(***************************************************************************)
(* The expansion of a task into subtasks: a spec is saved on the task,     *)
(* execute_expansion turns it into rows - with the TDD sandwich, if asked  *)
(* for - and wires their dependencies, and agents then work off whatever   *)
(* is ready.  The daemon may die at any statement, and whoever finds the   *)
(* spec still pending executes it again.                                   *)
(*                                                                         *)
(* A spec is the number of its subtasks, the phase of each (0 when its     *)
(* description names none), which of them are code or config, the pairs    *)
(* <<i, j>> where i depends on j, and at most one pair that depends_on     *)
(* lists twice.  Indices are in range and not the subtask's own.  Titles,  *)
(* descriptions, criteria and the QA result are left out.                  *)
(***************************************************************************)
EXTENDS Naturals, FiniteSets, FiniteSetsExt

CONSTANTS
    MaxSubtasks,    \* bound on the subtasks of a spec
    MaxPhase,       \* bound on the phases a spec names
    MaxDeps,        \* bound on its dependencies
    MaxTries        \* bound on the calls of execute_expansion

ASSUME BoundsAssumption == MaxSubtasks \in Nat \ {0} /\ MaxPhase \in Nat /\ MaxDeps \in Nat /\ MaxTries \in Nat

VARIABLES
    spec,           \* the saved spec, or NoSpec
    expansion,      \* expansion_status of the task
    stage,          \* where execute_expansion is
    tries,          \* its calls so far, see MaxTries
    leftovers,      \* calls that ended in an error or a crash and left subtasks
    crashed,        \* history: did the daemon die in an expansion?
    children,       \* parents with their children, of the completed expansion
    blocks,         \* the dependencies between its leaves
    done            \* those of its nodes that are closed

tree == <<children, blocks, done>>
vars == <<spec, expansion, stage, tries, leftovers, crashed, tree>>

NoSpec == [n |-> 0, phase |-> <<>>, code |-> {}, tdd |-> FALSE, deps |-> {}, twice |-> {}]

----------------------------------------------------------------------------
(* Cycles.                                                                 *)

\* No set of nodes that each have an edge into it.
Acyclic(E) ==
    \A S \in SUBSET ({e[1] : e \in E} \cap {e[2] : e \in E}) :
        S # {} => \E t \in S : \A e \in E : e[1] = t => e[2] \notin S

\* validate_expansion_spec: indices are in range here, so what is left of it
\* is the search for a cycle.  A pair listed twice passes.
Valid(s) == Acyclic(s.deps)

----------------------------------------------------------------------------
(* The TDD sandwich.                                                       *)

\* Phases, renumbered: when no subtask names one they are all in phase 1, and
\* otherwise those without one come last.
Phase(s, i) ==
    IF s.phase[i] # 0 THEN s.phase[i]
    ELSE IF \A j \in 1..s.n : s.phase[j] = 0 THEN 1
    ELSE Max({s.phase[j] : j \in 1..s.n}) + 1

TddPhases(s) == IF s.tdd THEN {Phase(s, i) : i \in s.code} ELSE {}
InTdd(s, i) == Phase(s, i) \in TddPhases(s)

\* Nodes are pairs; the root is the task that is expanded.
Impl(i) == <<"impl", i>>
Test(p) == <<"test", p>>
Ref(p) == <<"ref", p>>
Epic(p) == <<"epic", p>>
Root == <<"root", 0>>

Leaves(s) ==
    {Impl(i) : i \in 1..s.n} \cup {Test(p) : p \in TddPhases(s)} \cup {Ref(p) : p \in TddPhases(s)}

\* Mutation of Kept: one pass over a phase with TDD, too.
KeptOnePass(s, e) ==
    \/ ~s.tdd
    \/ Phase(s, e[2]) < Phase(s, e[1]) /\ ~InTdd(s, e[1])
    \/ Phase(s, e[2]) = Phase(s, e[1]) /\ e[2] < e[1]

\* The dependencies of the spec that stay dependencies between the same two.
\* The phases are gone through in order, so what comes later is not known yet;
\* in a phase without TDD, neither is a later subtask of the same phase.
Kept(s, e) ==
    \/ ~s.tdd
    \/ /\ ~InTdd(s, e[1])
       /\ \/ Phase(s, e[2]) < Phase(s, e[1])
          \/ Phase(s, e[2]) = Phase(s, e[1]) /\ e[2] < e[1]
    \/ InTdd(s, e[1]) /\ Phase(s, e[1]) = Phase(s, e[2])

\* Mutation of CrossDeps: dependencies inside the phase are taken for cross ones.
CrossDepsInside(s) ==
    {<<Test(Phase(s, e[1])), IF InTdd(s, e[2]) THEN Ref(Phase(s, e[2])) ELSE Impl(e[2])>> :
        e \in {x \in s.deps : InTdd(s, x[1]) /\ Phase(s, x[2]) <= Phase(s, x[1])}}

\* What the [TEST] of a phase waits for: the [REF] of an earlier phase that
\* one of its subtasks depends on, or that subtask when the phase has no [REF].
CrossDeps(s) ==
    {<<Test(Phase(s, e[1])), IF InTdd(s, e[2]) THEN Ref(Phase(s, e[2])) ELSE Impl(e[2])>> :
        e \in {x \in s.deps : InTdd(s, x[1]) /\ Phase(s, x[2]) < Phase(s, x[1])}}

\* Mutation of Bookends: a subtask with dependencies of its own does not wait for [TEST].
BookendsKeepingDeps(s) ==
    LET inside == {i \in 1..s.n : InTdd(s, i)}
    IN  {<<Impl(i), Test(Phase(s, i))>> : i \in {j \in inside : \A e \in s.deps : e[1] # j}}
            \cup {<<Ref(Phase(s, i)), Impl(i)>> : i \in inside}

\* A phase with TDD starts with its [TEST] and ends with its [REF].
Bookends(s) ==
    LET inside == {i \in 1..s.n : InTdd(s, i)}
    IN  {<<Impl(i), Test(Phase(s, i))>> : i \in inside} \cup {<<Ref(Phase(s, i)), Impl(i)>> : i \in inside}

LeafDeps(s) ==
    {<<Impl(e[1]), Impl(e[2])>> : e \in {x \in s.deps : Kept(s, x)}} \cup Bookends(s) \cup CrossDeps(s)

----------------------------------------------------------------------------
(* The rows of an expansion.                                               *)

\* The phase that a subtask is filed under; [TEST] and [REF] name it in their
\* title, the others only if their description does.
FiledUnder(s, x) == IF x[1] = "impl" THEN s.phase[x[2]] ELSE x[2]
EpicPhases(s) ==
    LET named == {FiledUnder(s, x) : x \in Leaves(s)} \ {0}
    IN  IF Cardinality(named) > 1 THEN named ELSE {}
Epics(s) == {Epic(p) : p \in EpicPhases(s)}
Nodes(s) == Leaves(s) \cup Epics(s) \cup {Root}

ParentOf(s, x) ==
    IF x[1] # "epic" /\ FiledUnder(s, x) \in EpicPhases(s) THEN Epic(FiledUnder(s, x)) ELSE Root

\* Each parent with its children; it is also blocked by them.
Family(s) == {<<ParentOf(s, x), x>> : x \in Nodes(s) \ {Root}}

\* Mutation of Refused: cycles are not looked for.
RefusedOnlyTwice(rows) == \E e \in spec.twice : Kept(spec, e)

\* add_dependency raises when an edge closes a cycle, or is there already: the
\* latter is an IntegrityError, which "except ValueError" lets through.
Refused(rows) == ~Acyclic(rows) \/ \E e \in spec.twice : Kept(spec, e)

----------------------------------------------------------------------------
(* execute_expansion.                                                      *)

\* save_expansion_spec, with any spec: to validate it is left to the caller.
SaveSpec(n) ==
    /\ expansion = "none"
    /\ \E phase \in [1..n -> 0..MaxPhase], code \in SUBSET (1..n), tdd \in BOOLEAN :
        \E deps \in SUBSET {e \in (1..n) \X (1..n) : e[1] # e[2]} :
            \E twice \in {{}} \cup {{e} : e \in deps} :
                /\ Cardinality(deps) <= MaxDeps
                /\ spec' = [n |-> n, phase |-> phase, code |-> code, tdd |-> tdd, deps |-> deps, twice |-> twice]
    /\ expansion' = "pending"
    /\ UNCHANGED <<stage, tries, leftovers, crashed, tree>>

\* Only a pending spec is executed.
BeginExpansion ==
    /\ expansion = "pending" /\ stage = "idle" /\ tries < MaxTries
    /\ stage' = "creating" /\ tries' = tries + 1
    /\ UNCHANGED <<spec, expansion, leftovers, crashed, tree>>

\* An error while rows are created: those created so far are deleted again.
CleanUp ==
    /\ stage = "creating"
    /\ stage' = "idle"
    /\ UNCHANGED <<spec, expansion, tries, leftovers, crashed, tree>>

CreateSubtasks ==
    /\ stage = "creating"
    /\ stage' = "wiring"
    /\ UNCHANGED <<spec, expansion, tries, leftovers, crashed, tree>>

\* An edge is refused with an error that nothing catches.
RaiseInWiring ==
    /\ stage = "wiring"
    /\ \E rows \in {LeafDeps(spec) \cup Family(spec)} : Refused(rows)
    /\ stage' = "idle" /\ leftovers' = leftovers + 1
    /\ UNCHANGED <<spec, expansion, tries, crashed, tree>>

\* All rows are there: the expansion is marked completed.
Complete ==
    /\ stage = "wiring"
    /\ \E rows \in {LeafDeps(spec) \cup Family(spec)} : ~Refused(rows)
    /\ stage' = "idle" /\ expansion' = "completed"
    /\ children' = Family(spec) /\ blocks' = LeafDeps(spec)
    /\ UNCHANGED <<spec, tries, leftovers, crashed, done>>

\* The daemon dies.  Before the first row is written nothing is left behind.
Crash ==
    /\ stage # "idle"
    /\ \/ stage = "creating" /\ UNCHANGED leftovers
       \/ leftovers' = leftovers + 1
    /\ stage' = "idle" /\ crashed' = TRUE
    /\ UNCHANGED <<spec, expansion, tries, tree>>

----------------------------------------------------------------------------
(* Work on the subtasks.                                                   *)

\* A leaf is ready when its blockers are done.  Its parents are, for the ready
\* rule leaves completion blocks out.
Ready(x) == \A e \in blocks : e[1] = x => e[2] \in done

\* A parent is closed after its children, and the root after the subtasks of
\* failed calls as well, which nobody closes here.
Closable(x) ==
    /\ \A e \in children : e[1] = x => e[2] \in done
    /\ x = Root => leftovers = 0

Rows == {Root} \cup {e[2] : e \in children}

\* An agent is given a ready leaf and closes it, or someone closes a parent.
CloseNode ==
    /\ expansion = "completed" /\ stage = "idle"
    /\ \E x \in Rows \ done : Ready(x) /\ Closable(x) /\ done' = done \cup {x}
    /\ UNCHANGED <<spec, expansion, stage, tries, leftovers, crashed, children, blocks>>

Init ==
    /\ spec = NoSpec /\ expansion = "none" /\ stage = "idle"
    /\ tries = 0 /\ leftovers = 0 /\ crashed = FALSE
    /\ children = {} /\ blocks = {} /\ done = {}

Next ==
    \/ \E n \in 1..MaxSubtasks : SaveSpec(n)
    \/ BeginExpansion \/ CleanUp \/ CreateSubtasks \/ RaiseInWiring \/ Complete \/ Crash
    \/ CloseNode

Spec == Init /\ [][Next]_vars

\* execute_expansion awaits nothing, so what it began it ends, unless the
\* daemon dies; and agents are dispatched to whatever is ready.
FairSpec == Spec /\ WF_vars(CleanUp \/ CreateSubtasks \/ RaiseInWiring \/ Complete) /\ WF_vars(CloseNode)

----------------------------------------------------------------------------
(* Properties.                                                             *)

\* What save_expansion_spec is taken to be given.
WellFormed(s) ==
    /\ s.n \in 1..MaxSubtasks
    /\ s.phase \in [1..s.n -> 0..MaxPhase]
    /\ s.code \subseteq 1..s.n
    /\ s.tdd \in BOOLEAN
    /\ s.deps \subseteq {e \in (1..s.n) \X (1..s.n) : e[1] # e[2]}
    /\ s.twice \subseteq s.deps

\* What the variables range over, and that rows refer to rows.
TypeOK ==
    /\ spec = NoSpec <=> expansion = "none"
    /\ expansion # "none" => WellFormed(spec)
    /\ expansion \in {"none", "pending", "completed"}
    /\ stage \in {"idle", "creating", "wiring"}
    /\ tries \in 0..MaxTries /\ leftovers \in 0..tries
    /\ crashed \in BOOLEAN
    /\ expansion # "completed" => children = {} /\ blocks = {} /\ done = {}
    /\ done \subseteq Rows /\ \A e \in blocks : {e[1], e[2]} \subseteq Rows

\* Work goes in the order of the spec: a subtask is closed only after those it
\* depends on - except where the sandwich lost the dependency, on a later phase
\* or, in a phase without TDD, on a later subtask.
SpecOrderIsKept ==
    \A e \in spec.deps : Impl(e[1]) \in done =>
        \/ Impl(e[2]) \in done
        \/ spec.tdd /\ Phase(spec, e[2]) > Phase(spec, e[1])
        \/ spec.tdd /\ Phase(spec, e[2]) = Phase(spec, e[1]) /\ ~InTdd(spec, e[1]) /\ e[2] > e[1]

\* In a phase with TDD nothing is implemented before its [TEST] is done, nor
\* refactored before all of it is implemented.
TestsComeFirst ==
    \A i \in 1..spec.n : InTdd(spec, i) =>
        /\ Impl(i) \in done => Test(Phase(spec, i)) \in done
        /\ Ref(Phase(spec, i)) \in done => Impl(i) \in done

\* Unless the daemon died, an expansion leaves subtasks without completing only
\* when the spec has a cycle, or names a dependency twice; the edges that block
\* parents by their children never are the reason.
OnlyBadSpecsFail ==
    leftovers > 0 => crashed \/ ~Valid(spec) \/ spec.twice # {}

\* A completed expansion that left nothing behind is worked off to the end,
\* the expanded task included: the sandwich of an acyclic spec has no cycle.
AllWorkGetsDone ==
    [](expansion = "completed" /\ stage = "idle" /\ leftovers = 0 => <>(done = Rows))

\* "Creation atomic: execute_expansion creates all tasks or none", for specs
\* that validate_expansion_spec accepts and a daemon that does not die.
CreationIsAtomic == (leftovers > 0 /\ Valid(spec)) => crashed
=============================================================================
