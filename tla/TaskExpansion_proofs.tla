------------------------ MODULE TaskExpansion_proofs ------------------------
(***************************************************************************)
(* Theorems about TaskExpansion, for specs of any size with any phases and *)
(* dependencies: an acyclic spec becomes an acyclic tree, sandwich and     *)
(* epics included; the order of the spec is kept; work is never stuck.     *)
(***************************************************************************)
EXTENDS TaskExpansion, FiniteSetTheorems, TLAPS

\* Phases of a leaf: that of a subtask, or the one it is the [TEST] or [REF] of.
PhaseOf(s, x) == IF x[1] = "impl" THEN Phase(s, x[2]) ELSE x[2]

-----------------------------------------------------------------------------
(* Numbers.                                                                *)

\* A set of natural numbers has a least one: of the initial segments they end, finite
\* sets all, one has none as a proper part.
LEMMA LeastNumber ==
    ASSUME NEW T \in SUBSET Nat, T # {}
    PROVE  \E m \in T : \A k \in T : m <= k
<1> DEFINE segments == {0..(n - 1) : n \in T}
<1>1. segments \subseteq FiniteSubsetsOf(Nat)
  <2> SUFFICES ASSUME NEW n \in T PROVE 0..(n - 1) \in FiniteSubsetsOf(Nat)
    OBVIOUS
  <2>1. IsFiniteSet(0..(n - 1))
    BY FS_Interval
  <2>2. 0..(n - 1) \in SUBSET Nat
    OBVIOUS
  <2> QED
    BY <2>1, <2>2 DEF FiniteSubsetsOf
<1>2. segments # {}
  OBVIOUS
<1>3. PICK u \in segments : \A v \in segments : <<v, u>> \notin StrictSubsetOrdering(Nat)
  <2> HIDE DEF segments
  <2> QED
    BY <1>1, <1>2, FS_StrictSubsetOrderingWellFounded, WFMin
<1>4. PICK m \in T : u = 0..(m - 1)
  OBVIOUS
<1>5. ASSUME NEW k \in T, k < m PROVE FALSE
  <2>1. 0..(k - 1) \in segments
    OBVIOUS
  <2>2. 0..(k - 1) \subseteq 0..(m - 1) /\ 0..(k - 1) # 0..(m - 1)
    BY <1>5
  <2>3. <<0..(k - 1), u>> \in StrictSubsetOrdering(Nat)
    BY <1>1, <1>4, <2>1, <2>2 DEF StrictSubsetOrdering
  <2> QED
    BY <1>3, <2>1, <2>3
<1>6. QED
  BY <1>5

\* A finite set of natural numbers has a greatest one.
LEMMA GreatestNumber ==
    ASSUME NEW n \in Nat, NEW T \in SUBSET (0..n), T # {}
    PROVE  Max(T) \in T /\ \A k \in T : Max(T) >= k
<1> DEFINE rest == {n - k : k \in T}
<1>1. rest \in SUBSET Nat /\ rest # {}
  <2>1. \A k \in T : n - k \in Nat
    OBVIOUS
  <2> QED
    BY <2>1
<1>2. PICK m \in rest : \A k \in rest : m <= k
  <2> HIDE DEF rest
  <2> QED
    BY <1>1, LeastNumber
<1>3. PICK g \in T : m = n - g
  OBVIOUS
<1>4. \A k \in T : g >= k
  <2> SUFFICES ASSUME NEW k \in T PROVE g >= k
    OBVIOUS
  <2>1. m <= n - k
    BY <1>2
  <2> QED
    BY <1>3, <2>1
<1>5. QED
  BY <1>4 DEF Max

\* Phases are positive numbers, those of a subtask that names none, too.
LEMMA PhaseType ==
    ASSUME NEW s, WellFormed(s), NEW i \in 1..s.n
    PROVE  Phase(s, i) \in Nat \ {0}
<1> DEFINE named == {s.phase[j] : j \in 1..s.n}
<1>1. named \in SUBSET (0..MaxPhase) /\ named # {}
  BY DEF WellFormed
<1>2. Max(named) \in Nat
  <2>1. Max(named) \in named
    BY <1>1, GreatestNumber, BoundsAssumption
  <2> QED
    BY <1>1, <2>1, BoundsAssumption
<1>3. s.phase[i] \in Nat
  BY BoundsAssumption DEF WellFormed
<1>4. Max(named) + 1 \in Nat \ {0}
  <2> HIDE DEF named
  <2> QED
    BY <1>2
<1>5. QED
  BY <1>3, <1>4 DEF Phase

-----------------------------------------------------------------------------
(* Cycles.                                                                 *)

\* In an acyclic graph no set of nodes, whatever it is taken from, holds a next node for
\* each of its nodes.
LEMMA NoTrap ==
    ASSUME NEW E, Acyclic(E), NEW S, S # {}
    PROVE  \E t \in S : \A e \in E : e[1] = t => e[2] \notin S
<1> SUFFICES ASSUME \A t \in S : \E e \in E : e[1] = t /\ e[2] \in S PROVE FALSE
  OBVIOUS
<1> DEFINE inner == S \cap {e[2] : e \in E}
<1>1. inner \in SUBSET ({e[1] : e \in E} \cap {e[2] : e \in E})
  OBVIOUS
<1>2. inner # {}
  OBVIOUS
<1>3. PICK t \in inner : \A e \in E : e[1] = t => e[2] \notin inner
  <2> HIDE DEF inner
  <2> QED
    BY <1>1, <1>2 DEF Acyclic
<1>4. PICK e \in E : e[1] = t /\ e[2] \in S
  BY <1>3
<1>5. QED
  BY <1>3, <1>4

\* A cycle is a set of nodes, not empty, in which every node has a next one.
LEMMA NotAcyclic ==
    ASSUME NEW E, ~Acyclic(E)
    PROVE  \E S \in SUBSET {e[2] : e \in E} : S # {} /\ \A t \in S : \E e \in E : e[1] = t /\ e[2] \in S
BY DEF Acyclic

-----------------------------------------------------------------------------
(* The sandwich.                                                           *)

\* The edges between leaves connect leaves.
LEMMA LeafDepsType ==
    ASSUME NEW s, WellFormed(s), NEW e \in LeafDeps(s)
    PROVE  {e[1], e[2]} \subseteq Leaves(s)
<1>1. CASE e \in {<<Impl(x[1]), Impl(x[2])>> : x \in {y \in s.deps : Kept(s, y)}}
  BY <1>1 DEF WellFormed, Leaves
<1>2. CASE e \in Bookends(s)
  BY <1>2 DEF Bookends, Leaves, InTdd
<1>3. CASE e \in CrossDeps(s)
  <2>1. PICK x \in s.deps : /\ InTdd(s, x[1])
                            /\ e = <<Test(Phase(s, x[1])), IF InTdd(s, x[2]) THEN Ref(Phase(s, x[2])) ELSE Impl(x[2])>>
    BY <1>3 DEF CrossDeps
  <2>2. x[1] \in 1..s.n /\ x[2] \in 1..s.n
    BY DEF WellFormed
  <2> QED
    BY <2>1, <2>2 DEF Leaves, InTdd
<1>4. QED
  BY <1>1, <1>2, <1>3 DEF LeafDeps

\* With TDD, no edge between leaves leads to a later phase.
LEMMA PhasesDescend ==
    ASSUME NEW s, WellFormed(s), s.tdd, NEW e \in LeafDeps(s)
    PROVE  /\ PhaseOf(s, e[1]) \in Nat /\ PhaseOf(s, e[2]) \in Nat
           /\ PhaseOf(s, e[2]) <= PhaseOf(s, e[1])
           /\ e[1][1] = "test" => PhaseOf(s, e[2]) < PhaseOf(s, e[1])
<1> USE DEF PhaseOf, Impl, Test, Ref
<1>1. CASE e \in {<<Impl(x[1]), Impl(x[2])>> : x \in {y \in s.deps : Kept(s, y)}}
  <2>1. PICK x \in s.deps : Kept(s, x) /\ e = <<Impl(x[1]), Impl(x[2])>>
    BY <1>1
  <2>2. x[1] \in 1..s.n /\ x[2] \in 1..s.n
    BY DEF WellFormed
  <2>3. Phase(s, x[1]) \in Nat /\ Phase(s, x[2]) \in Nat
    BY <2>2, PhaseType
  <2>4. Phase(s, x[2]) <= Phase(s, x[1])
    BY <2>1, <2>3 DEF Kept
  <2> QED
    BY <2>1, <2>3, <2>4
<1>2. CASE e \in Bookends(s)
  <2>1. PICK i \in 1..s.n : e = <<Impl(i), Test(Phase(s, i))>> \/ e = <<Ref(Phase(s, i)), Impl(i)>>
    BY <1>2 DEF Bookends
  <2>2. Phase(s, i) \in Nat
    BY PhaseType
  <2> QED
    BY <2>1, <2>2
<1>3. CASE e \in CrossDeps(s)
  <2>1. PICK x \in s.deps : /\ Phase(s, x[2]) < Phase(s, x[1])
                            /\ e = <<Test(Phase(s, x[1])), IF InTdd(s, x[2]) THEN Ref(Phase(s, x[2])) ELSE Impl(x[2])>>
    BY <1>3 DEF CrossDeps
  <2>2. x[1] \in 1..s.n /\ x[2] \in 1..s.n
    BY DEF WellFormed
  <2>3. Phase(s, x[1]) \in Nat /\ Phase(s, x[2]) \in Nat
    BY <2>2, PhaseType
  <2>4. e[1] = Test(Phase(s, x[1])) /\ (e[2] = Ref(Phase(s, x[2])) \/ e[2] = Impl(x[2]))
    BY <2>1
  <2> QED
    BY <2>1, <2>3, <2>4
<1>4. QED
  BY <1>1, <1>2, <1>3 DEF LeafDeps

\* An edge between two subtasks is a dependency of the spec; only [REF]s wait for
\* subtasks otherwise, and subtasks for [TEST]s.
LEMMA EdgeKinds ==
    ASSUME NEW s, WellFormed(s), NEW e \in LeafDeps(s)
    PROVE  /\ e[1][1] = "impl" /\ e[2][1] = "impl" => <<e[1][2], e[2][2]>> \in s.deps
           /\ e[1][1] = "impl" => e[2][1] \in {"impl", "test"}
           /\ e[1][1] = "ref" => e[2][1] = "impl"
<1> USE DEF Impl, Test, Ref
<1>1. CASE e \in {<<Impl(x[1]), Impl(x[2])>> : x \in {y \in s.deps : Kept(s, y)}}
  <2>1. PICK x \in s.deps : e = <<Impl(x[1]), Impl(x[2])>>
    BY <1>1
  <2>2. x = <<x[1], x[2]>>
    BY DEF WellFormed
  <2> QED
    BY <2>1, <2>2
<1>2. CASE e \in Bookends(s)
  BY <1>2 DEF Bookends
<1>3. CASE e \in CrossDeps(s)
  BY <1>3 DEF CrossDeps
<1>4. QED
  BY <1>1, <1>2, <1>3 DEF LeafDeps

\* Leaves that each have an edge into the set contain subtasks of a cyclic spec: those
\* of the set's first phase, which no [TEST] of that phase is among.
LEMMA LeavesAcyclic ==
    ASSUME NEW s, WellFormed(s), Acyclic(s.deps), NEW L, L # {},
           \A t \in L : \E e \in LeafDeps(s) : e[1] = t /\ e[2] \in L
    PROVE  FALSE
<1>1. \A t \in L : t \in Leaves(s)
  BY LeafDepsType
<1>2. \A x \in Leaves(s) : x[1] \in {"impl", "test", "ref"} /\ (x[1] = "impl" => x = Impl(x[2]))
  BY DEF Leaves, Impl, Test, Ref
<1>3. ASSUME NEW M, M # {}, M \subseteq L, \A t \in M : t[1] # "test",
             \A t \in M : \E e \in LeafDeps(s) : e[1] = t /\ e[2] \in M
      PROVE  FALSE
  <2> DEFINE I == {t[2] : t \in {u \in M : u[1] = "impl"}}
  <2>0. \A t \in M : t[1] \in {"impl", "ref"}
    BY <1>1, <1>2, <1>3
  <2>1. I # {}
    <3>1. PICK t \in M : TRUE
      BY <1>3
    <3>2. PICK e \in LeafDeps(s) : e[1] = t /\ e[2] \in M
      BY <1>3
    <3>3. t[1] = "impl" \/ e[2][1] = "impl"
      BY <2>0, <3>1, <3>2, EdgeKinds
    <3>4. \A u \in M : u[1] = "impl" => u[2] \in I
      OBVIOUS
    <3> HIDE DEF I
    <3> QED
      BY <3>1, <3>2, <3>3, <3>4
  <2>2. ASSUME NEW i \in I PROVE \E d \in s.deps : d[1] = i /\ d[2] \in I
    <3>1. PICK t \in M : t[1] = "impl" /\ t[2] = i
      OBVIOUS
    <3>2. PICK e \in LeafDeps(s) : e[1] = t /\ e[2] \in M
      BY <1>3
    <3>3. e[2][1] = "impl"
      <4>1. e[2][1] \in {"impl", "test"}
        BY <3>1, <3>2, EdgeKinds
      <4> QED
        BY <2>0, <3>2, <4>1
    <3>4. <<e[1][2], e[2][2]>> \in s.deps
      BY <3>1, <3>2, <3>3, EdgeKinds
    <3>5. e[2][2] \in I
      BY <3>2, <3>3
    <3> QED
      BY <3>1, <3>2, <3>4, <3>5
  <2> HIDE DEF I
  <2>3. PICK i \in I : \A d \in s.deps : d[1] = i => d[2] \notin I
    BY <2>1, NoTrap
  <2> QED
    BY <2>2, <2>3
<1>4. CASE ~s.tdd
  <2>1. \A t \in L : t[1] # "test"
    BY <1>1, <1>4 DEF Leaves, TddPhases, Impl, Test, Ref
  <2> QED
    BY <1>3, <2>1
<1>5. CASE s.tdd
  <2> DEFINE phases == {PhaseOf(s, t) : t \in L}
  <2>1. \A t \in L : PhaseOf(s, t) \in Nat
    BY <1>5, PhasesDescend, WellFormed(s)
  <2>2. phases \in SUBSET Nat /\ phases # {}
    BY <2>1
  <2>3. PICK p \in phases : \A q \in phases : p <= q
    <3> HIDE DEF phases
    <3> QED
      BY <2>2, LeastNumber
  <2> DEFINE M == {t \in L : PhaseOf(s, t) = p}
  <2>4. M # {} /\ M \subseteq L
    OBVIOUS
  <2>5. ASSUME NEW t \in M
        PROVE  t[1] # "test" /\ \E e \in LeafDeps(s) : e[1] = t /\ e[2] \in M
    <3>1. PICK e \in LeafDeps(s) : e[1] = t /\ e[2] \in L
      OBVIOUS
    <3>2. /\ PhaseOf(s, t) \in Nat /\ PhaseOf(s, e[2]) \in Nat
          /\ PhaseOf(s, e[2]) <= PhaseOf(s, t)
          /\ t[1] = "test" => PhaseOf(s, e[2]) < PhaseOf(s, t)
      BY <1>5, <3>1, PhasesDescend
    <3>3. p <= PhaseOf(s, e[2]) /\ PhaseOf(s, t) = p
      BY <2>3, <3>1
    <3>4. PhaseOf(s, e[2]) = p /\ t[1] # "test"
      BY <3>2, <3>3
    <3> QED
      BY <3>1, <3>4
  <2> HIDE DEF M
  <2> QED
    BY <1>3, <2>4, <2>5
<1>6. QED
  BY <1>4, <1>5 DEF WellFormed

\* The tree of an acyclic spec has no cycle: not between its leaves, and so not at all,
\* for a cycle does not pass the root, and from an epic it goes to one of its leaves.
THEOREM SandwichAcyclic ==
    ASSUME NEW s, WellFormed(s), Acyclic(s.deps)
    PROVE  Acyclic(LeafDeps(s) \cup Family(s))
<1> DEFINE E == LeafDeps(s) \cup Family(s)
<1> SUFFICES ASSUME ~Acyclic(E) PROVE FALSE
  OBVIOUS
<1>1. PICK S \in SUBSET {e[2] : e \in E} : S # {} /\ \A t \in S : \E e \in E : e[1] = t /\ e[2] \in S
  <2> HIDE DEF E
  <2> QED
    BY NotAcyclic
<1>2. \A x \in Nodes(s) \ {Root} : x \in Leaves(s) \/ x \in Epics(s)
  BY DEF Nodes
<1>3. \A x \in Leaves(s) : x[1] \in {"impl", "test", "ref"}
  BY DEF Leaves, Impl, Test, Ref
<1>4. \A x \in Epics(s) \cup {Root} : x[1] \in {"epic", "root"}
  BY DEF Epics, Epic, Root
<1>5. \A t \in S : t \in Leaves(s) \/ t \in Epics(s)
  <2>1. \A e \in Family(s) : e[2] \in Nodes(s) \ {Root}
    BY DEF Family
  <2> QED
    BY <1>1, <1>2, <2>1, LeafDepsType
<1>6. ASSUME NEW t \in S, t \in Leaves(s) PROVE \E e \in LeafDeps(s) : e[1] = t /\ e[2] \in S
  <2>1. \A e \in Family(s) : e[1][1] \in {"epic", "root"}
    BY DEF Family, ParentOf, Epic, Root
  <2> QED
    BY <1>1, <1>3, <1>6, <2>1
<1>7. ASSUME NEW t \in S, t \in Epics(s) PROVE \E x \in S : x \in Leaves(s)
  <2>1. PICK e \in E : e[1] = t /\ e[2] \in S
    BY <1>1
  <2>2. e \in Family(s)
    BY <1>3, <1>4, <1>7, <2>1, LeafDepsType
  <2>3. PICK x \in Nodes(s) \ {Root} : e = <<ParentOf(s, x), x>>
    BY <2>2 DEF Family
  <2>4. x[1] # "epic"
    BY <1>7, <2>1, <2>3 DEF ParentOf, Epics, Epic, Root
  <2>5. x \in Leaves(s)
    BY <1>2, <2>4 DEF Epics, Epic
  <2> QED
    BY <2>1, <2>3, <2>5
<1> DEFINE L == S \cap Leaves(s)
<1>8. L # {}
  BY <1>1, <1>5, <1>7
<1>9. \A t \in L : \E e \in LeafDeps(s) : e[1] = t /\ e[2] \in L
  BY <1>6, LeafDepsType
<1> HIDE DEF L
<1>10. QED
  BY <1>8, <1>9, LeavesAcyclic

-----------------------------------------------------------------------------
(* The invariant.                                                          *)

\* The tree is that of the spec; a call that has begun works on a pending one; nothing
\* is closed before what it waits for; and failures have a reason.
ExpansionInv ==
    /\ TypeOK
    /\ stage # "idle" => expansion = "pending" /\ leftovers < tries
    /\ expansion = "none" => leftovers = 0
    /\ expansion = "completed" =>
        /\ children = Family(spec) /\ blocks = LeafDeps(spec)
        /\ Acyclic(blocks \cup children)
    /\ \A e \in blocks : e[1] \in done => e[2] \in done
    /\ OnlyBadSpecsFail

\* Every node but the root is the child of one.
LEMMA AllAreChildren ==
    ASSUME NEW s PROVE {Root} \cup {e[2] : e \in Family(s)} = Nodes(s)
<1>1. \A e \in Family(s) : e[2] \in Nodes(s)
  BY DEF Family
<1>2. ASSUME NEW x \in Nodes(s) \ {Root} PROVE \E e \in Family(s) : e[2] = x
  <2>1. <<ParentOf(s, x), x>> \in Family(s)
    BY DEF Family
  <2> QED
    BY <2>1
<1>3. Root \in Nodes(s)
  BY DEF Nodes
<1>4. QED
  BY <1>1, <1>2, <1>3

\* Every step keeps it.
LEMMA ExpansionStep == ExpansionInv /\ [Next]_vars => ExpansionInv'
<1> SUFFICES ASSUME ExpansionInv, [Next]_vars PROVE ExpansionInv'
  OBVIOUS
<1> USE BoundsAssumption DEF ExpansionInv, tree
<1>1. ASSUME NEW n \in 1..MaxSubtasks, SaveSpec(n) PROVE ExpansionInv'
  <2>1. WellFormed(spec)' /\ spec' # NoSpec
    BY <1>1 DEF SaveSpec, WellFormed, NoSpec
  <2>2. OnlyBadSpecsFail'
    BY <1>1 DEF SaveSpec, TypeOK, OnlyBadSpecsFail
  <2> QED
    BY <1>1, <2>1, <2>2 DEF SaveSpec, TypeOK, Rows
<1>2. CASE BeginExpansion
  BY <1>2 DEF BeginExpansion, TypeOK, OnlyBadSpecsFail, Rows
<1>3. CASE CleanUp \/ CreateSubtasks
  BY <1>3 DEF CleanUp, CreateSubtasks, TypeOK, OnlyBadSpecsFail, Rows
<1>4. CASE RaiseInWiring
  <2>1. expansion = "pending" /\ WellFormed(spec) /\ spec.tdd \in BOOLEAN
    BY <1>4 DEF RaiseInWiring, TypeOK, WellFormed
  <2>2. Acyclic(spec.deps) => Acyclic(LeafDeps(spec) \cup Family(spec))
    BY <2>1, SandwichAcyclic
  <2>3. ~Valid(spec) \/ spec.twice # {}
    BY <1>4, <2>2 DEF RaiseInWiring, Refused, Valid
  <2> QED
    BY <1>4, <2>1, <2>3 DEF RaiseInWiring, TypeOK, OnlyBadSpecsFail, Rows
<1>5. CASE Complete
  <2>1. expansion = "pending" /\ WellFormed(spec) /\ done = {}
    BY <1>5 DEF Complete, TypeOK
  <2>2. Acyclic(LeafDeps(spec) \cup Family(spec))
    BY <1>5 DEF Complete, Refused
  <2>3. Rows' = Nodes(spec)
    <3>1. children' = Family(spec)
      BY <1>5 DEF Complete
    <3> QED
      BY <3>1, AllAreChildren DEF Rows
  <2>4. \A e \in LeafDeps(spec) : {e[1], e[2]} \subseteq Nodes(spec)
    BY <2>1, LeafDepsType DEF Nodes
  <2>5. TypeOK'
    BY <1>5, <2>1, <2>3, <2>4 DEF Complete, TypeOK
  <2>6. OnlyBadSpecsFail'
    BY <1>5 DEF Complete, OnlyBadSpecsFail
  <2> QED
    BY <1>5, <2>1, <2>2, <2>5, <2>6 DEF Complete
<1>6. CASE Crash
  BY <1>6 DEF Crash, TypeOK, OnlyBadSpecsFail, Rows
<1>7. CASE CloseNode
  <2>1. PICK x \in Rows \ done : Ready(x) /\ done' = done \cup {x}
    BY <1>7 DEF CloseNode
  <2>2. \A e \in blocks : e[1] \in done' => e[2] \in done'
    BY <2>1 DEF Ready
  <2>3. TypeOK'
    BY <1>7, <2>1 DEF CloseNode, TypeOK, Rows
  <2> QED
    BY <1>7, <2>2, <2>3 DEF CloseNode, OnlyBadSpecsFail
<1>8. CASE UNCHANGED vars
  BY <1>8 DEF vars, TypeOK, OnlyBadSpecsFail, Rows
<1>9. QED
  BY <1>1, <1>2, <1>3, <1>4, <1>5, <1>6, <1>7, <1>8 DEF Next

LEMMA ExpansionInvariant == Spec => []ExpansionInv
<1>1. Init => ExpansionInv
  <2> SUFFICES ASSUME Init PROVE ExpansionInv
    OBVIOUS
  <2>1. tries \in 0..MaxTries /\ leftovers \in 0..tries
    BY BoundsAssumption DEF Init
  <2>2. crashed \in BOOLEAN /\ (spec = NoSpec <=> expansion = "none")
    BY DEF Init
  <2>3. TypeOK
    BY <2>1, <2>2 DEF Init, TypeOK
  <2> QED
    BY <2>3 DEF Init, ExpansionInv, OnlyBadSpecsFail
<1>2. QED
  BY <1>1, ExpansionStep, PTL DEF Spec

-----------------------------------------------------------------------------
(* What follows from it.                                                   *)

\* The variables have their types.
THEOREM TypeCorrect == Spec => []TypeOK
<1>1. ExpansionInv => TypeOK
  BY DEF ExpansionInv
<1>2. QED
  BY <1>1, ExpansionInvariant, PTL

\* Unless the daemon died, an expansion of a spec that is acyclic and names no
\* dependency twice leaves nothing behind: it completes, or never wrote a row.
THEOREM OnlyBadSpecsEverFail == Spec => []OnlyBadSpecsFail
<1>1. ExpansionInv => OnlyBadSpecsFail
  BY DEF ExpansionInv
<1>2. QED
  BY <1>1, ExpansionInvariant, PTL

\* A closed leaf has waited for those it is blocked by.
LEMMA BlockersAreDone ==
    ASSUME ExpansionInv, NEW x, NEW y, <<x, y>> \in LeafDeps(spec), x \in done
    PROVE  y \in done
<1>1. expansion = "completed"
  BY DEF ExpansionInv, TypeOK
<1>2. <<x, y>> \in blocks
  BY <1>1 DEF ExpansionInv
<1>3. QED
  BY <1>2 DEF ExpansionInv

\* The edges of a phase with TDD, one by one.
LEMMA BookendsOf ==
    ASSUME NEW s, NEW i \in 1..s.n, InTdd(s, i)
    PROVE  /\ <<Impl(i), Test(Phase(s, i))>> \in LeafDeps(s)
           /\ <<Ref(Phase(s, i)), Impl(i)>> \in LeafDeps(s)
BY DEF LeafDeps, Bookends

\* In a phase with TDD nothing is implemented before its [TEST] is done, nor refactored
\* before all of it is implemented.
THEOREM TestsAlwaysComeFirst == Spec => []TestsComeFirst
<1>1. ExpansionInv => TestsComeFirst
  BY BlockersAreDone, BookendsOf DEF TestsComeFirst
<1>2. QED
  BY <1>1, ExpansionInvariant, PTL

\* A subtask is closed only after those it depends on, but for the dependencies that
\* the sandwich drops: on an earlier phase with TDD it goes by way of [TEST] and [REF].
THEOREM SpecOrderIsAlwaysKept == Spec => []SpecOrderIsKept
<1>1. ASSUME ExpansionInv, NEW d \in spec.deps, Impl(d[1]) \in done
      PROVE  \/ Impl(d[2]) \in done
             \/ spec.tdd /\ Phase(spec, d[2]) > Phase(spec, d[1])
             \/ spec.tdd /\ Phase(spec, d[2]) = Phase(spec, d[1]) /\ ~InTdd(spec, d[1]) /\ d[2] > d[1]
  <2>1. WellFormed(spec)
    BY <1>1 DEF ExpansionInv, TypeOK
  <2>2. d[1] \in 1..spec.n /\ d[2] \in 1..spec.n /\ d[1] # d[2] /\ d[1] \in Nat /\ d[2] \in Nat
    BY <2>1 DEF WellFormed
  <2>3. Phase(spec, d[1]) \in Nat /\ Phase(spec, d[2]) \in Nat
    BY <2>1, <2>2, PhaseType
  <2>4. CASE Kept(spec, d)
    <3>1. <<Impl(d[1]), Impl(d[2])>> \in LeafDeps(spec)
      BY <2>4 DEF LeafDeps
    <3> QED
      BY <1>1, <3>1, BlockersAreDone
  <2>5. CASE spec.tdd /\ InTdd(spec, d[1]) /\ Phase(spec, d[2]) < Phase(spec, d[1])
    <3> DEFINE before == IF InTdd(spec, d[2]) THEN Ref(Phase(spec, d[2])) ELSE Impl(d[2])
    <3>1. Test(Phase(spec, d[1])) \in done
      BY <1>1, <2>2, <2>5, BlockersAreDone, BookendsOf
    <3>2. <<Test(Phase(spec, d[1])), before>> \in LeafDeps(spec)
      BY <2>5 DEF LeafDeps, CrossDeps
    <3>3. before \in done
      BY <1>1, <3>1, <3>2, BlockersAreDone
    <3> QED
      BY <1>1, <2>2, <3>3, BlockersAreDone, BookendsOf
  <2>6. CASE ~Kept(spec, d) /\ ~(InTdd(spec, d[1]) /\ Phase(spec, d[2]) < Phase(spec, d[1]))
    BY <2>2, <2>3, <2>6 DEF Kept
  <2> QED
    BY <2>4, <2>5, <2>6 DEF Kept
<1>2. ExpansionInv => SpecOrderIsKept
  BY <1>1 DEF SpecOrderIsKept
<1>3. QED
  BY <1>2, ExpansionInvariant, PTL

\* While a completed expansion that left nothing behind has an open node, someone can
\* close one: the open nodes hold no cycle.
WorkIsNeverStuck ==
    expansion = "completed" /\ leftovers = 0 /\ done # Rows =>
        \E x \in Rows \ done : Ready(x) /\ Closable(x)

\* The safety half of AllWorkGetsDone: an open node is always left that is not blocked,
\* by a leaf before it, a child or the [TEST] of its phase.
THEOREM WorkNeverGetsStuck == Spec => []WorkIsNeverStuck
<1>1. ASSUME ExpansionInv, expansion = "completed", leftovers = 0, done # Rows
      PROVE  \E x \in Rows \ done : Ready(x) /\ Closable(x)
  <2> DEFINE open == Rows \ done
             E == blocks \cup children
  <2>1. open # {} /\ Acyclic(E)
    BY <1>1 DEF ExpansionInv, TypeOK
  <2>2. PICK x \in open : \A e \in E : e[1] = x => e[2] \notin open
    <3> HIDE DEF open, E
    <3> QED
      BY <2>1, NoTrap
  <2>3. \A e \in E : e[2] \in Rows
    BY <1>1 DEF ExpansionInv, TypeOK, Rows
  <2> QED
    BY <1>1, <2>2, <2>3 DEF Ready, Closable
<1>2. ExpansionInv => WorkIsNeverStuck
  BY <1>1 DEF WorkIsNeverStuck
<1>3. QED
  BY <1>2, ExpansionInvariant, PTL
=============================================================================
