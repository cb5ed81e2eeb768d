-------------------------- MODULE TaskGraph_proofs --------------------------
(***************************************************************************)
(* Proofs about TaskGraph, for every set of tasks, every set of processes  *)
(* and any number of calls: the type invariant, and that a cycle of blocks *)
(* rows takes an insert upon a check that another process has overtaken.   *)
(***************************************************************************)
EXTENDS TaskGraph, TLAPS

\* A subgraph of an acyclic graph is acyclic.
LEMMA SubgraphAcyclic ==
    ASSUME NEW E, NEW F, F \subseteq E, ~Cyclic(E)
    PROVE  ~Cyclic(F)
<1> SUFFICES ASSUME Cyclic(F) PROVE FALSE
  OBVIOUS
<1>1. PICK S \in SUBSET Tasks : S # {} /\ \A t \in S : \E e \in F : e[1] = t /\ e[2] \in S
  BY DEF Cyclic
<1>2. \A t \in S : \E e \in E : e[1] = t /\ e[2] \in S
  BY <1>1
<1> QED BY <1>1, <1>2 DEF Cyclic

\* The argument of _would_create_cycle: when the nodes visited from d are
\* closed under the edges and t is not among them, then an edge from t to d
\* closes no cycle.  Of a cycle in the new graph, the part among the visited
\* nodes is a cycle of the old one, and if it has no such part then the new
\* edge is not on it.
LEMMA SearchIsComplete ==
    ASSUME NEW E, NEW V, NEW t, NEW d,
           ~Cyclic(E), d \in V, t \notin V, ClosedUnder(E, V)
    PROVE  ~Cyclic(E \cup {<<t, d>>})
<1> SUFFICES ASSUME Cyclic(E \cup {<<t, d>>}) PROVE FALSE
  OBVIOUS
<1>1. PICK S \in SUBSET Tasks :
        S # {} /\ \A u \in S : \E e \in E \cup {<<t, d>>} : e[1] = u /\ e[2] \in S
  BY DEF Cyclic
<1>2. CASE S \cap V # {}
  <2>1. ASSUME NEW u \in S \cap V PROVE \E e \in E : e[1] = u /\ e[2] \in S \cap V
    <3>1. PICK e \in E \cup {<<t, d>>} : e[1] = u /\ e[2] \in S
      BY <1>1
    <3>2. e \in E
      <4>1. CASE e = <<t, d>>
        <5>1. e[1] = t
          BY <4>1
        <5> QED BY <5>1, <3>1
      <4> QED BY <4>1
    <3>3. e[2] \in V
      BY <3>1, <3>2 DEF ClosedUnder
    <3> QED BY <3>1, <3>2, <3>3
  <2>2. S \cap V \in SUBSET Tasks
    OBVIOUS
  <2> QED BY <1>2, <2>1, <2>2 DEF Cyclic
<1>3. CASE S \cap V = {}
  <2>1. ASSUME NEW u \in S PROVE \E e \in E : e[1] = u /\ e[2] \in S
    <3>1. PICK e \in E \cup {<<t, d>>} : e[1] = u /\ e[2] \in S
      BY <1>1
    <3>2. e \in E
      <4>1. CASE e = <<t, d>>
        <5>1. e[2] = d
          BY <4>1
        <5> QED BY <5>1, <3>1, <1>3
      <4> QED BY <4>1
    <3> QED BY <3>1, <3>2
  <2> QED BY <1>1, <2>1 DEF Cyclic
<1> QED BY <1>2, <1>3

----------------------------------------------------------------------------
\* What a delete of the rows in D leaves is well formed.
LEMMA EraseType ==
    ASSUME TypeOK, NEW D, Erase(D)
    PROVE  /\ status' \in [Tasks -> Statuses \cup {"new", "gone"}]
           /\ parent' \in [Tasks -> Tasks \cup {NoTask}]
           /\ blocks' \subseteq blocks
           /\ \A t \in Tasks : parent'[t] # NoTask => Exists(t)' /\ Exists(parent[t])'
           /\ \A e \in blocks' : Exists(e[1])' /\ Exists(e[2])' /\ e[1] # e[2]
<1>1. status' \in [Tasks -> Statuses \cup {"new", "gone"}]
  BY DEF TypeOK, Erase
<1>2. parent' \in [Tasks -> Tasks \cup {NoTask}]
  BY DEF TypeOK, Erase
<1>3. blocks' \subseteq blocks
  BY DEF Erase
<1>4. ASSUME NEW t \in Tasks, parent'[t] # NoTask
      PROVE  Exists(t)' /\ Exists(parent[t])'
  <2>1. t \notin D /\ parent[t] \notin D /\ parent'[t] = parent[t]
    BY <1>4 DEF Erase
  <2>2. Exists(t) /\ Exists(parent[t]) /\ parent[t] \in Tasks
    BY <2>1, <1>4 DEF TypeOK
  <2>3. status'[t] = status[t] /\ status'[parent[t]] = status[parent[t]]
    BY <2>1, <2>2 DEF Erase
  <2>4. (parent[t])' = parent[t]
    BY <2>1
  <2> QED BY <2>2, <2>3, <2>4 DEF Exists
<1>5. ASSUME NEW e \in blocks'
      PROVE  Exists(e[1])' /\ Exists(e[2])' /\ e[1] # e[2]
  <2>1. e \in blocks /\ e[1] \notin D /\ e[2] \notin D
    BY DEF Erase
  <2>2. e[1] \in Tasks /\ e[2] \in Tasks
    BY <2>1 DEF TypeOK
  <2>3. status'[e[1]] = status[e[1]] /\ status'[e[2]] = status[e[2]]
    BY <2>1, <2>2 DEF Erase
  <2> QED BY <2>1, <2>3 DEF Exists, TypeOK
<1> QED BY <1>1, <1>2, <1>3, <1>4, <1>5

\* Every action keeps the type invariant.
LEMMA TypeStep == TypeOK /\ [Next]_vars => TypeOK'
<1> SUFFICES ASSUME TypeOK, [Next]_vars PROVE TypeOK'
  OBVIOUS
<1> USE TasksAssumption, CallsAssumption
<1>1. CASE UNCHANGED vars
  BY <1>1 DEF TypeOK, vars, board, Exists, Idle
<1>2. ASSUME NEW p \in Procs, NEW t \in Tasks, NEW q \in Tasks \cup {NoTask}, CreateTask(p, t, q)
      PROVE  TypeOK'
  BY <1>2 DEF TypeOK, CreateTask, Write, Overtake, Exists, Idle, Statuses, NoEdge
<1>3. ASSUME NEW p \in Procs, NEW t \in Tasks, NEW q \in Tasks \cup {NoTask}, Reparent(p, t, q)
      PROVE  TypeOK'
  BY <1>3 DEF TypeOK, Reparent, Call, Write, Overtake, Exists, Idle, Statuses, NoEdge
<1>4. ASSUME NEW p \in Procs, NEW t \in Tasks, NEW s \in Statuses, SetStatus(p, t, s)
      PROVE  TypeOK'
  BY <1>4 DEF TypeOK, SetStatus, Call, Write, Overtake, Exists, Idle, Statuses, NoEdge
<1>5. ASSUME NEW p \in Procs, NEW t \in Tasks, ReopenTask(p, t)
      PROVE  TypeOK'
  BY <1>5 DEF TypeOK, ReopenTask, Call, Write, Overtake, Exists, Idle, Statuses, NoEdge
<1>6. ASSUME NEW p \in Procs, NEW e \in blocks, RemoveDependency(p, e)
      PROVE  TypeOK'
  BY <1>6 DEF TypeOK, RemoveDependency, Call, Write, Overtake, Exists, Idle, Statuses, NoEdge
<1>7. ASSUME NEW p \in Procs, NEW t \in Tasks, DeleteCascade(p, t)
      PROVE  TypeOK'
  <2>1. Erase(Cascade(t)) /\ Call /\ Write(p)
    BY <1>7 DEF DeleteCascade
  <2>2. /\ status' \in [Tasks -> Statuses \cup {"new", "gone"}]
        /\ parent' \in [Tasks -> Tasks \cup {NoTask}]
        /\ blocks' \subseteq blocks
        /\ \A u \in Tasks : parent'[u] # NoTask => Exists(u)' /\ Exists(parent[u])'
        /\ \A e \in blocks' : Exists(e[1])' /\ Exists(e[2])' /\ e[1] # e[2]
    BY <2>1, EraseType
  <2>3. UNCHANGED <<pc, edge, todo, visited, raced>> /\ stale' \in [Procs -> BOOLEAN] /\ calls' \in 0..MaxCalls
    BY <2>1 DEF Write, Overtake, Call, TypeOK
  <2> QED BY <2>2, <2>3 DEF TypeOK, Idle
<1>8. ASSUME NEW p \in Procs, NEW t \in Tasks, NEW d \in Tasks, BeginAdd(p, t, d)
      PROVE  TypeOK'
  BY <1>8 DEF TypeOK, BeginAdd, Begin, Call, board, Exists, Idle, Statuses, NoEdge
<1>9. ASSUME NEW p \in Procs, NEW t \in Tasks, BeginClose(p, t)
      PROVE  TypeOK'
  BY <1>9 DEF TypeOK, BeginClose, Begin, Call, board, Exists, Idle, Statuses, NoEdge
<1>10. ASSUME NEW p \in Procs, NEW t \in Tasks, BeginDelete(p, t)
       PROVE  TypeOK'
  BY <1>10 DEF TypeOK, BeginDelete, Begin, Call, board, Exists, Idle, Statuses, NoEdge
<1>11. ASSUME NEW p \in Procs, Visit(p)
       PROVE  TypeOK'
  <2>1. PICK u \in todo[p] :
          \/ u = edge[p][1] /\ Raise(p)
          \/ /\ u # edge[p][1]
             /\ todo' = [todo EXCEPT ![p] = Push(p, u)]
             /\ visited' = [visited EXCEPT ![p] = @ \cup {u}]
             /\ UNCHANGED <<board, pc, edge, stale, raced, calls>>
    BY <1>11 DEF Visit
  <2>2. CASE Raise(p)
    BY <2>2 DEF TypeOK, Raise, Return, board, Exists, Idle, Statuses, NoEdge
  <2>3. CASE /\ todo' = [todo EXCEPT ![p] = Push(p, u)]
             /\ visited' = [visited EXCEPT ![p] = @ \cup {u}]
             /\ UNCHANGED <<board, pc, edge, stale, raced, calls>>
    <3>1. Push(p, u) \subseteq Tasks
      BY DEF Push, Successors, TypeOK
    <3>2. todo' \in [Procs -> SUBSET Tasks] /\ visited' \in [Procs -> SUBSET Tasks]
      BY <2>3, <3>1 DEF TypeOK
    <3> QED BY <2>3, <3>2 DEF TypeOK, board, Exists, Idle
  <2> QED BY <2>1, <2>2, <2>3
<1>12. ASSUME NEW p \in Procs, InsertEdge(p)
       PROVE  TypeOK'
  <2>1. edge[p] \in Tasks \X Tasks
    BY <1>12 DEF InsertEdge, TypeOK, Idle, NoEdge
  <2>2. edge[p][1] # edge[p][2]
    BY <1>12 DEF InsertEdge, TypeOK
  <2> QED BY <1>12, <2>1, <2>2
          DEF TypeOK, InsertEdge, Return, Overtake, Exists, Idle, Statuses, NoEdge
<1>13. ASSUME NEW p \in Procs, RefuseEdge(p)
       PROVE  TypeOK'
  BY <1>13 DEF TypeOK, RefuseEdge, Raise, Return, board, Exists, Idle, Statuses, NoEdge
<1>14. ASSUME NEW p \in Procs, FinishClose(p)
       PROVE  TypeOK'
  <2>1. status' \in [Tasks -> Statuses \cup {"new", "gone"}] /\ \A u \in Tasks : Exists(u) => Exists(u)'
    <3>1. CASE Exists(edge[p][1])
      BY <1>14, <3>1 DEF FinishClose, TypeOK, Exists, Statuses
    <3>2. CASE ~Exists(edge[p][1])
      BY <1>14, <3>2 DEF FinishClose, TypeOK, Exists
    <3> QED BY <3>1, <3>2
  <2>2. UNCHANGED <<parent, blocks, raced>> /\ Overtake(p) /\ Return(p)
    BY <1>14 DEF FinishClose
  <2>3. /\ \A u \in Tasks : parent'[u] # NoTask => Exists(u)' /\ Exists(parent[u])'
        /\ \A e \in blocks' : Exists(e[1])' /\ Exists(e[2])' /\ e[1] # e[2]
    BY <2>1, <2>2 DEF TypeOK
  <2> QED BY <2>1, <2>2, <2>3 DEF TypeOK, Return, Overtake, Idle, NoEdge
<1>15. ASSUME NEW p \in Procs, FinishDelete(p)
       PROVE  TypeOK'
  <2>1. PICK D : D = {edge[p][1]} \ {t \in Tasks : status[t] = "gone"}
    OBVIOUS
  <2>2. Erase(D) /\ UNCHANGED raced /\ Overtake(p) /\ Return(p)
    BY <1>15, <2>1 DEF FinishDelete
  <2>3. /\ status' \in [Tasks -> Statuses \cup {"new", "gone"}]
        /\ parent' \in [Tasks -> Tasks \cup {NoTask}]
        /\ blocks' \subseteq blocks
        /\ \A u \in Tasks : parent'[u] # NoTask => Exists(u)' /\ Exists(parent[u])'
        /\ \A e \in blocks' : Exists(e[1])' /\ Exists(e[2])' /\ e[1] # e[2]
    BY <2>2, EraseType
  <2> QED BY <2>2, <2>3 DEF TypeOK, Return, Overtake, Idle, NoEdge
<1> QED
  BY <1>1, <1>2, <1>3, <1>4, <1>5, <1>6, <1>7, <1>8, <1>9, <1>10, <1>11, <1>12, <1>13, <1>14, <1>15
     DEF Next, Proceed

\* The initial board is well formed.
LEMMA InitType == Init => TypeOK
<1> SUFFICES ASSUME Init PROVE TypeOK
  OBVIOUS
<1>1. status \in [Tasks -> Statuses \cup {"new", "gone"}] /\ parent \in [Tasks -> Tasks \cup {NoTask}]
  BY DEF Init
<1>2. \A t \in Tasks : parent[t] = NoTask
  BY DEF Init
<1>3. /\ pc \in [Procs -> {"idle", "walking", "closing", "deleting"}]
      /\ \A p \in Procs : pc[p] = "idle" /\ edge[p] = NoEdge
      /\ edge \in [Procs -> (Tasks \X Tasks) \cup {NoEdge}]
  BY DEF Init
<1>4. calls \in 0..MaxCalls
  BY CallsAssumption DEF Init, CallsAssumption
<1>6. blocks = {} /\ raced \in BOOLEAN /\ stale \in [Procs -> BOOLEAN]
  BY DEF Init
<1>5. todo \in [Procs -> SUBSET Tasks] /\ visited \in [Procs -> SUBSET Tasks]
  BY DEF Init
<1> QED BY <1>1, <1>2, <1>3, <1>4, <1>5, <1>6 DEF TypeOK, Idle

\* TypeOK, for every set of tasks and of processes.
THEOREM TypeCorrect == Spec => []TypeOK
BY InitType, TypeStep, PTL DEF Spec

----------------------------------------------------------------------------
\* What a walk knows: it has not visited the task it starts from, and unless
\* it has been overtaken, every blocker of a node it visited is visited or on
\* the stack.
WalkIsSound ==
    \A p \in Procs : pc[p] = "walking" =>
        /\ edge[p][1] \notin visited[p]
        /\ stale[p] \/ /\ edge[p][2] \in visited[p] \cup todo[p]
                       /\ \A e \in blocks : e[1] \in visited[p] => e[2] \in visited[p] \cup todo[p]

\* The same for one walk and one graph.
SoundWalk(E, e, V, T, overtaken) ==
    /\ e[1] \notin V
    /\ overtaken \/ (e[2] \in V \cup T /\ \A x \in E : x[1] \in V => x[2] \in V \cup T)

\* A walk stays sound when rows are removed, and when another process writes.
LEMMA OthersKeepWalks ==
    ASSUME TypeOK, WalkIsSound, UNCHANGED <<pc, edge, todo, visited>>, blocks' \subseteq blocks,
           NEW p \in Procs, Idle(p), Overtake(p)
    PROVE  WalkIsSound'
<1> SUFFICES ASSUME NEW q \in Procs, pc[q] = "walking"
             PROVE  SoundWalk(blocks', edge[q], visited[q], todo[q], stale'[q])
  BY DEF WalkIsSound, SoundWalk
<1>1. SoundWalk(blocks, edge[q], visited[q], todo[q], stale[q])
  BY DEF WalkIsSound, SoundWalk
<1>2. stale'[q] = (q # p /\ ~Idle(q))
  BY DEF Overtake
<1> QED BY <1>1, <1>2 DEF SoundWalk, Idle

\* And when another process finishes a call, or fails.
LEMMA FinishKeepsWalks ==
    ASSUME TypeOK, WalkIsSound, NEW p \in Procs, Return(p),
           \/ Overtake(p)
           \/ stale' = [stale EXCEPT ![p] = FALSE] /\ UNCHANGED blocks
    PROVE  WalkIsSound'
<1> SUFFICES ASSUME NEW q \in Procs, pc'[q] = "walking"
             PROVE  SoundWalk(blocks', edge'[q], visited'[q], todo'[q], stale'[q])
  BY DEF WalkIsSound, SoundWalk
<1>1. q # p
  BY DEF Return, TypeOK
<1>2. /\ pc[q] = "walking" /\ edge'[q] = edge[q]
      /\ visited'[q] = visited[q] /\ todo'[q] = todo[q]
  BY <1>1 DEF Return, TypeOK
<1>3. SoundWalk(blocks, edge[q], visited[q], todo[q], stale[q])
  BY <1>2 DEF WalkIsSound, SoundWalk
<1>4. CASE Overtake(p)
  <2>1. stale'[q]
    BY <1>1, <1>2, <1>4 DEF Overtake, Idle
  <2> QED BY <1>2, <1>3, <2>1 DEF SoundWalk
<1>5. CASE stale' = [stale EXCEPT ![p] = FALSE] /\ UNCHANGED blocks
  <2>1. stale'[q] = stale[q] /\ blocks' = blocks
    BY <1>1, <1>5 DEF TypeOK
  <2> QED BY <1>2, <1>3, <2>1
<1> QED BY <1>4, <1>5

\* Beginning a call keeps the walks of the others, and a new walk is sound.
LEMMA BeginKeepsWalks ==
    ASSUME TypeOK, WalkIsSound, NEW p \in Procs, NEW what, NEW e, Begin(p, what, e),
           \/ what # "walking" /\ UNCHANGED <<todo, visited>>
           \/ /\ what = "walking"
              /\ todo' = [todo EXCEPT ![p] = {e[2]}]
              /\ visited' = [visited EXCEPT ![p] = {}]
    PROVE  WalkIsSound'
<1> SUFFICES ASSUME NEW q \in Procs, pc'[q] = "walking"
             PROVE  SoundWalk(blocks', edge'[q], visited'[q], todo'[q], stale'[q])
  BY DEF WalkIsSound, SoundWalk
<1>1. blocks' = blocks
  BY DEF Begin, board
<1>2. CASE q # p
  <2>1. /\ pc[q] = "walking" /\ edge'[q] = edge[q] /\ stale'[q] = stale[q]
        /\ visited'[q] = visited[q] /\ todo'[q] = todo[q]
    BY <1>2 DEF Begin, TypeOK
  <2> QED BY <1>1, <2>1 DEF WalkIsSound, SoundWalk
<1>3. CASE q = p
  <2>1. what = "walking" /\ edge'[q] = e
    BY <1>3 DEF Begin, TypeOK
  <2>2. todo'[q] = {e[2]} /\ visited'[q] = {}
    BY <1>3, <2>1 DEF TypeOK
  <2> QED BY <2>1, <2>2 DEF SoundWalk
<1> QED BY <1>2, <1>3

\* Every action keeps the walks sound.
LEMMA WalkStep == TypeOK /\ WalkIsSound /\ [Next]_vars => WalkIsSound'
<1> SUFFICES ASSUME TypeOK, WalkIsSound, [Next]_vars PROVE WalkIsSound'
  OBVIOUS
<1>1. CASE UNCHANGED vars
  BY <1>1 DEF WalkIsSound, vars, board
<1>2. ASSUME NEW p \in Procs, NEW t \in Tasks, NEW q \in Tasks \cup {NoTask},
             CreateTask(p, t, q) \/ Reparent(p, t, q)
      PROVE  WalkIsSound'
  BY <1>2, OthersKeepWalks DEF CreateTask, Reparent, Write
<1>3. ASSUME NEW p \in Procs, NEW t \in Tasks,
             ReopenTask(p, t) \/ \E s \in Statuses : SetStatus(p, t, s)
      PROVE  WalkIsSound'
  BY <1>3, OthersKeepWalks DEF SetStatus, ReopenTask, Write
<1>4. ASSUME NEW p \in Procs, NEW e \in blocks, RemoveDependency(p, e)
      PROVE  WalkIsSound'
  <2>1. blocks' \subseteq blocks
    BY <1>4 DEF RemoveDependency
  <2> QED BY <1>4, <2>1, OthersKeepWalks DEF RemoveDependency, Write
<1>5. ASSUME NEW p \in Procs, NEW t \in Tasks, DeleteCascade(p, t)
      PROVE  WalkIsSound'
  <2>1. blocks' \subseteq blocks
    BY <1>5 DEF DeleteCascade, Erase
  <2> QED BY <1>5, <2>1, OthersKeepWalks DEF DeleteCascade, Write
<1>6. ASSUME NEW p \in Procs, NEW t \in Tasks, NEW d \in Tasks, BeginAdd(p, t, d)
      PROVE  WalkIsSound'
  <2>1. /\ Begin(p, "walking", <<t, d>>)
        /\ todo' = [todo EXCEPT ![p] = {<<t, d>>[2]}]
        /\ visited' = [visited EXCEPT ![p] = {}]
    BY <1>6 DEF BeginAdd
  <2> QED BY <2>1, BeginKeepsWalks
<1>7. ASSUME NEW p \in Procs, NEW t \in Tasks, BeginClose(p, t)
      PROVE  WalkIsSound'
  <2>1. Begin(p, "closing", <<t, t>>) /\ UNCHANGED <<todo, visited>>
    BY <1>7 DEF BeginClose
  <2>2. "closing" # "walking"
    OBVIOUS
  <2> QED BY <2>1, <2>2, BeginKeepsWalks
<1>8. ASSUME NEW p \in Procs, NEW t \in Tasks, BeginDelete(p, t)
      PROVE  WalkIsSound'
  <2>1. Begin(p, "deleting", <<t, t>>) /\ UNCHANGED <<todo, visited>>
    BY <1>8 DEF BeginDelete
  <2>2. "deleting" # "walking"
    OBVIOUS
  <2> QED BY <2>1, <2>2, BeginKeepsWalks
<1>9. ASSUME NEW p \in Procs, Visit(p)
      PROVE  WalkIsSound'
  <2>1. PICK u \in todo[p] :
          \/ u = edge[p][1] /\ Raise(p)
          \/ /\ u # edge[p][1]
             /\ todo' = [todo EXCEPT ![p] = Push(p, u)]
             /\ visited' = [visited EXCEPT ![p] = @ \cup {u}]
             /\ UNCHANGED <<board, pc, edge, stale, raced, calls>>
    BY <1>9 DEF Visit
  <2>2. CASE Raise(p)
    BY <2>2, FinishKeepsWalks DEF Raise, board
  <2>3. CASE /\ u # edge[p][1]
             /\ todo' = [todo EXCEPT ![p] = Push(p, u)]
             /\ visited' = [visited EXCEPT ![p] = @ \cup {u}]
             /\ UNCHANGED <<board, pc, edge, stale, raced, calls>>
    <3> SUFFICES ASSUME NEW q \in Procs, pc[q] = "walking"
                 PROVE  SoundWalk(blocks, edge[q], visited'[q], todo'[q], stale[q])
      BY <2>3 DEF WalkIsSound, SoundWalk, board
    <3>1. SoundWalk(blocks, edge[q], visited[q], todo[q], stale[q])
      BY DEF WalkIsSound, SoundWalk
    <3>2. CASE q # p
      BY <2>3, <3>1, <3>2 DEF TypeOK
    <3>3. CASE q = p
      <4>1. visited'[q] = visited[q] \cup {u} /\ todo'[q] = Push(p, u)
        BY <2>3, <3>3 DEF TypeOK
      <4>2. visited'[q] \cup todo'[q] = visited[q] \cup todo[q] \cup {u} \cup Successors(blocks, u)
        BY <4>1, <3>3 DEF Push
      <4>3. \A x \in blocks : x[1] = u => x[2] \in Successors(blocks, u)
        BY DEF Successors
      <4>4. edge[q][1] \notin visited'[q]
        BY <2>3, <3>1, <3>3, <4>1 DEF SoundWalk
      <4>5. ASSUME ~stale[q], NEW x \in blocks, x[1] \in visited'[q]
            PROVE  x[2] \in visited'[q] \cup todo'[q]
        BY <3>1, <4>1, <4>2, <4>3, <4>5 DEF SoundWalk
      <4>6. ~stale[q] => edge[q][2] \in visited'[q] \cup todo'[q]
        BY <3>1, <4>2 DEF SoundWalk
      <4> QED BY <4>4, <4>5, <4>6 DEF SoundWalk
    <3> QED BY <3>2, <3>3
  <2> QED BY <2>1, <2>2, <2>3
<1>10. ASSUME NEW p \in Procs, InsertEdge(p) \/ FinishClose(p) \/ FinishDelete(p)
       PROVE  WalkIsSound'
  BY <1>10, FinishKeepsWalks DEF InsertEdge, FinishClose, FinishDelete
<1>11. ASSUME NEW p \in Procs, RefuseEdge(p)
       PROVE  WalkIsSound'
  BY <1>11, FinishKeepsWalks DEF RefuseEdge, Raise, board
<1> QED
  BY <1>1, <1>2, <1>3, <1>4, <1>5, <1>6, <1>7, <1>8, <1>9, <1>10, <1>11 DEF Next, Proceed

----------------------------------------------------------------------------
\* Rows that are removed close no cycle, and a row that is inserted upon a
\* walk that nobody overtook closes none, since the walk is over and its
\* visited nodes are closed under the rows.
LEMMA CycleStep ==
    TypeOK /\ WalkIsSound /\ CycleNeedsARace /\ [Next]_vars => CycleNeedsARace'
<1> SUFFICES ASSUME TypeOK, WalkIsSound, CycleNeedsARace, [Next]_vars PROVE CycleNeedsARace'
  OBVIOUS
<1>1. CASE raced' = raced /\ blocks' \subseteq blocks
  BY <1>1, SubgraphAcyclic DEF CycleNeedsARace
<1>2. ASSUME NEW p \in Procs, InsertEdge(p)
      PROVE  CycleNeedsARace'
  <2> SUFFICES ASSUME ~raced' PROVE ~Cyclic(blocks')
    BY DEF CycleNeedsARace, Cyclic
  <2>1. ~raced /\ ~stale[p] /\ ~Cyclic(blocks)
    BY <1>2 DEF InsertEdge, CycleNeedsARace, TypeOK
  <2>2. edge[p] = <<edge[p][1], edge[p][2]>>
    BY <1>2 DEF InsertEdge, TypeOK, Idle, NoEdge
  <2>3. /\ edge[p][1] \notin visited[p] /\ edge[p][2] \in visited[p]
        /\ ClosedUnder(blocks, visited[p])
    BY <1>2, <2>1 DEF InsertEdge, WalkIsSound, ClosedUnder
  <2>4. ~Cyclic(blocks \cup {<<edge[p][1], edge[p][2]>>})
    BY <2>1, <2>3, SearchIsComplete
  <2> QED BY <1>2, <2>2, <2>4 DEF InsertEdge
<1>3. ASSUME NEW p \in Procs, Visit(p) \/ RefuseEdge(p) \/ FinishClose(p)
      PROVE  raced' = raced /\ blocks' \subseteq blocks
  BY <1>3 DEF Visit, RefuseEdge, FinishClose, Raise, board
<1>4. ASSUME NEW p \in Procs, NEW t \in Tasks, FinishDelete(p) \/ DeleteCascade(p, t)
      PROVE  raced' = raced /\ blocks' \subseteq blocks
  BY <1>4 DEF FinishDelete, DeleteCascade, Erase, Write
<1>5. ASSUME NEW p \in Procs, NEW t \in Tasks, NEW d \in Tasks, NEW q \in Tasks \cup {NoTask}, NEW s \in Statuses,
             \/ CreateTask(p, t, q) \/ Reparent(p, t, q) \/ SetStatus(p, t, s) \/ ReopenTask(p, t)
             \/ BeginAdd(p, t, d) \/ BeginClose(p, t) \/ BeginDelete(p, t)
      PROVE  raced' = raced /\ blocks' \subseteq blocks
  BY <1>5 DEF CreateTask, Reparent, SetStatus, ReopenTask, BeginAdd, BeginClose, BeginDelete, Begin, Write, board
<1>6. ASSUME NEW p \in Procs, NEW e \in blocks, RemoveDependency(p, e)
      PROVE  raced' = raced /\ blocks' \subseteq blocks
  BY <1>6 DEF RemoveDependency, Write
<1>7. CASE UNCHANGED vars
  BY <1>1, <1>7 DEF vars, board
<1>8. Statuses # {} /\ \A t \in Tasks : t \in Tasks \cup {NoTask}
  BY DEF Statuses
<1>9. CASE Next
  <2>1. PICK p \in Procs :
        \/ Proceed(p)
        \/ \E t \in Tasks :
            \/ ReopenTask(p, t)
            \/ DeleteCascade(p, t)
            \/ BeginClose(p, t)
            \/ BeginDelete(p, t)
            \/ \E s \in Statuses : SetStatus(p, t, s)
            \/ \E q \in Tasks \cup {NoTask} : CreateTask(p, t, q)
            \/ \E q \in Tasks \cup {NoTask} : Reparent(p, t, q)
            \/ \E d \in Tasks : BeginAdd(p, t, d)
        \/ \E e \in blocks : RemoveDependency(p, e)
    BY <1>9 DEF Next
  <2>2. CASE Proceed(p)
    <3>1. CASE InsertEdge(p)
      BY <1>2, <3>1
    <3>2. CASE FinishDelete(p)
      BY <3>2, <1>1 DEF FinishDelete, Erase
    <3> QED BY <1>1, <1>3, <2>2, <3>1, <3>2 DEF Proceed
  <2>3. CASE \E e \in blocks : RemoveDependency(p, e)
    BY <1>1, <1>6, <2>3
  <2>4. ASSUME NEW t \in Tasks,
            \/ ReopenTask(p, t)
            \/ DeleteCascade(p, t)
            \/ BeginClose(p, t)
            \/ BeginDelete(p, t)
            \/ \E s \in Statuses : SetStatus(p, t, s)
            \/ \E q \in Tasks \cup {NoTask} : CreateTask(p, t, q)
            \/ \E q \in Tasks \cup {NoTask} : Reparent(p, t, q)
            \/ \E d \in Tasks : BeginAdd(p, t, d)
        PROVE  CycleNeedsARace'
    BY <1>1, <1>4, <1>5, <1>8, <2>4
  <2> QED BY <2>1, <2>2, <2>3, <2>4
<1> QED BY <1>7, <1>9

\* CycleNeedsARace: without a race, add_dependency keeps the blocks rows
\* acyclic, whatever else is done to the board meanwhile.
THEOREM NoCycleWithoutARace == Spec => []CycleNeedsARace
<1>1. Init => TypeOK /\ WalkIsSound /\ CycleNeedsARace
  <2> SUFFICES ASSUME Init PROVE WalkIsSound /\ CycleNeedsARace
    BY InitType
  <2>1. WalkIsSound
    BY DEF Init, WalkIsSound
  <2>2. ~Cyclic(blocks)
    BY DEF Init, Cyclic
  <2> QED BY <2>1, <2>2 DEF CycleNeedsARace
<1>2. TypeOK /\ WalkIsSound /\ CycleNeedsARace /\ [Next]_vars
        => TypeOK' /\ WalkIsSound' /\ CycleNeedsARace'
  BY TypeStep, WalkStep, CycleStep
<1> QED BY <1>1, <1>2, PTL DEF Spec

----------------------------------------------------------------------------
(* Ancestors.                                                              *)

\* What is reachable is closed.
LEMMA ReachableIsClosed ==
    ASSUME NEW E \in SUBSET (Tasks \X Tasks), NEW t \in Tasks
    PROVE  t \in Reachable(E, t) /\ ClosedUnder(E, Reachable(E, t))
<1>1. ASSUME NEW e \in E, e[1] \in Reachable(E, t) PROVE e[2] \in Reachable(E, t)
  <2>1. e[2] \in Tasks
    OBVIOUS
  <2> QED BY <1>1, <2>1 DEF Reachable, ClosedUnder
<1> QED BY <1>1 DEF Reachable, ClosedUnder

\* The parent of a task is among its ancestors, as is the parent of each of them.
LEMMA ParentsAreAncestors ==
    ASSUME TypeOK, NEW t \in Tasks, parent[t] # NoTask
    PROVE  /\ Ancestors(t) \in SUBSET Tasks /\ parent[t] \in Ancestors(t)
           /\ \A x \in Ancestors(t) : parent[x] # NoTask => parent[x] \in Ancestors(t)
<1>1. parent[t] \in Tasks /\ Parents \in SUBSET (Tasks \X Tasks)
  BY DEF TypeOK, Parents
<1>2. Ancestors(t) = Reachable(Parents, parent[t]) /\ Ancestors(t) \in SUBSET Tasks
  BY DEF Ancestors, Reachable
<1>3. parent[t] \in Ancestors(t) /\ ClosedUnder(Parents, Ancestors(t))
  BY <1>1, <1>2, ReachableIsClosed
<1>4. ASSUME NEW x \in Ancestors(t), parent[x] # NoTask PROVE parent[x] \in Ancestors(t)
  <2>1. x \in Tasks /\ parent[x] \in Tasks
    BY <1>2, <1>4 DEF TypeOK
  <2>2. <<x, parent[x]>> \in Parents
    BY <2>1 DEF Parents
  <2> QED BY <1>3, <2>2 DEF ClosedUnder
<1> QED BY <1>2, <1>3, <1>4

\* The way from a task to an ancestor leads through a child of the ancestor.
LEMMA AncestorsHaveChildren ==
    ASSUME TypeOK, NEW t \in Tasks, NEW c \in Ancestors(t), t # c
    PROVE  \E d \in {t} \cup Ancestors(t) : d \in Children(c)
<1> SUFFICES ASSUME \A d \in {t} \cup Ancestors(t) : d \notin Children(c) PROVE FALSE
  OBVIOUS
<1>1. parent[t] # NoTask
  BY DEF Ancestors
<1>2. /\ Ancestors(t) \in SUBSET Tasks /\ parent[t] \in Ancestors(t)
      /\ \A x \in Ancestors(t) : parent[x] # NoTask => parent[x] \in Ancestors(t)
  BY <1>1, ParentsAreAncestors
<1>3. \A d \in {t} \cup Ancestors(t) : parent[d] # c
  BY <1>2 DEF Children
<1> DEFINE S == Ancestors(t) \ {c}
<1>4. S \in SUBSET Tasks /\ parent[t] \in S
  BY <1>2, <1>3
<1>5. ClosedUnder(Parents, S)
  <2> SUFFICES ASSUME NEW e \in Parents, e[1] \in S PROVE e[2] \in S
    BY DEF ClosedUnder
  <2>1. e[1] \in Tasks /\ e[2] \in Tasks /\ parent[e[1]] = e[2]
    BY DEF Parents
  <2>2. e[2] # NoTask
    BY <2>1, TasksAssumption
  <2> QED BY <1>2, <1>3, <2>1, <2>2
<1>6. c \in S
  BY <1>1, <1>4, <1>5 DEF Ancestors, Reachable
<1> QED BY <1>6

----------------------------------------------------------------------------
\* When nothing is ready though something is open, the open tasks are a set each
\* of which waits for another or has its parent in it, unless the board holds
\* one of the other two causes.  Whatever is written, by whom and in which order.
THEOREM StuckBoardsHaveCauses == Spec => []StuckBoardHasACause
<1>1. TypeOK => StuckBoardHasACause
  <2> DEFINE open == {t \in Tasks : status[t] = "open"}
             waits == {e \in blocks : /\ e[1] \in open /\ e[1] \notin Ancestors(e[2])
                                      /\ status[e[2]] \in {"open", "escalated"}}
  <2> SUFFICES ASSUME TypeOK, open # {}, Ready = {},
                      \A t \in open : \A a \in Ancestors(t) : status[a] = "open",
                      \A e \in waits : status[e[2]] # "escalated"
               PROVE  Cyclic(waits \cup Parents)
    BY DEF StuckBoardHasACause
  <2>1. ASSUME NEW t \in open, ExternalBlockers(t) # {}
        PROVE  \E e \in waits : e[1] = t /\ e[2] \in open
    <3>1. PICK e \in blocks : /\ e[1] = t /\ status[e[2]] \in {"open", "escalated"}
                              /\ t \notin Ancestors(e[2])
      BY <2>1 DEF ExternalBlockers, Successors
    <3>2. e \in waits /\ e[2] \in Tasks
      BY <3>1 DEF TypeOK
    <3> QED BY <3>1, <3>2
  <2>2. ASSUME NEW t \in open, ExternalBlockers(t) = {}
        PROVE  \E e \in Parents : e[1] = t /\ e[2] \in open
    <3>1. parent[t] # NoTask
      <4> SUFFICES ASSUME parent[t] = NoTask PROVE FALSE
        OBVIOUS
      <4>1. Ancestors(t) = {}
        BY DEF Ancestors
      <4>2. t \in Ready
        BY <2>2, <4>1 DEF Ready
      <4> QED BY <4>2
    <3>2. parent[t] \in Ancestors(t) /\ parent[t] \in Tasks
      BY <3>1, ParentsAreAncestors DEF TypeOK
    <3>3. <<t, parent[t]>> \in Parents /\ parent[t] \in open
      BY <3>2 DEF Parents
    <3> QED BY <3>3
  <2>3. \A t \in open : \E e \in waits \cup Parents : e[1] = t /\ e[2] \in open
    BY <2>1, <2>2
  <2>4. open \in SUBSET Tasks
    OBVIOUS
  <2> QED BY <2>3, <2>4 DEF Cyclic
<1> QED BY <1>1, TypeCorrect, PTL

----------------------------------------------------------------------------
(* What a call that nobody overtook still knows when it writes.            *)

CheckHolds ==
    \A p \in Procs : ~stale[p] =>
        /\ pc[p] = "deleting" => Children(edge[p][1]) = {}
        /\ pc[p] = "closing" => MayClose(edge[p][1])

\* A step after which p checks nothing keeps it, when whatever p wrote overtakes the
\* others.
LEMMA CheckKept ==
    ASSUME TypeOK, CheckHolds, NEW p \in Procs, pc'[p] \in {"idle", "walking"},
           \A q \in Procs \ {p} :
              /\ pc'[q] = pc[q] /\ edge'[q] = edge[q]
              /\ \/ pc[q] = "idle" \/ stale'[q]
                 \/ stale'[q] = stale[q] /\ UNCHANGED board
    PROVE  CheckHolds'
<1> SUFFICES ASSUME NEW q \in Procs, ~stale'[q], q # p
             PROVE  /\ pc'[q] = "deleting" => Children(edge[q][1])' = {}
                    /\ pc'[q] = "closing" => MayClose(edge[q][1])'
  BY DEF CheckHolds
<1>1. CASE pc[q] = "idle"
  BY <1>1
<1>2. CASE stale'[q] = stale[q] /\ UNCHANGED board
  BY <1>2 DEF CheckHolds, Children, MayClose, board
<1> QED BY <1>1, <1>2

\* Every action keeps it: the two calls that check establish it.
LEMMA CheckStep == TypeOK /\ CheckHolds /\ [Next]_vars => CheckHolds'
<1> SUFFICES ASSUME TypeOK, CheckHolds, [Next]_vars PROVE CheckHolds'
  OBVIOUS
<1>1. CASE UNCHANGED vars
  BY <1>1 DEF vars, board, CheckHolds, Children, MayClose
<1>2. ASSUME NEW p \in Procs, Write(p) PROVE CheckHolds'
  BY <1>2, CheckKept DEF Write, Overtake, Idle, TypeOK
<1>3. ASSUME NEW p \in Procs, Return(p), Overtake(p) PROVE CheckHolds'
  BY <1>3, CheckKept DEF Return, Overtake, Idle, TypeOK
<1>4. ASSUME NEW p \in Procs, Raise(p) PROVE CheckHolds'
  BY <1>4, CheckKept DEF Raise, Return, TypeOK
<1>5. ASSUME NEW p \in Procs, Visit(p) PROVE CheckHolds'
  BY <1>4, <1>5, CheckKept DEF Visit
<1>6. ASSUME NEW p \in Procs, NEW t \in Tasks, NEW d \in Tasks, BeginAdd(p, t, d)
      PROVE  CheckHolds'
  BY <1>6, CheckKept DEF BeginAdd, Begin, TypeOK
<1>7. ASSUME NEW p \in Procs, NEW t \in Tasks, BeginClose(p, t) \/ BeginDelete(p, t)
      PROVE  CheckHolds'
  <2> SUFFICES ASSUME NEW q \in Procs, ~stale'[q]
               PROVE  /\ pc'[q] = "deleting" => Children(edge[q][1])' = {}
                      /\ pc'[q] = "closing" => MayClose(edge[q][1])'
    BY DEF CheckHolds
  <2>1. UNCHANGED board
    BY <1>7 DEF BeginClose, BeginDelete, Begin
  <2>2. CASE q = p
    <3>1. edge'[p] = <<t, t>>
      BY <1>7 DEF BeginClose, BeginDelete, Begin, TypeOK
    <3>2. \/ pc'[p] = "closing" /\ MayClose(t)
          \/ pc'[p] = "deleting" /\ Children(t) = {}
      BY <1>7 DEF BeginClose, BeginDelete, Begin, TypeOK
    <3> QED BY <2>1, <2>2, <3>1, <3>2 DEF Children, MayClose, board
  <2>3. CASE q # p
    <3>1. pc'[q] = pc[q] /\ edge'[q] = edge[q] /\ stale'[q] = stale[q]
      BY <1>7, <2>3 DEF BeginClose, BeginDelete, Begin, TypeOK
    <3> QED BY <2>1, <3>1 DEF CheckHolds, Children, MayClose, board
  <2> QED BY <2>2, <2>3
<1> QED
  BY <1>1, <1>2, <1>3, <1>4, <1>5, <1>6, <1>7
  DEF Next, Proceed, InsertEdge, RefuseEdge, FinishClose, FinishDelete, ReopenTask, DeleteCascade,
      SetStatus, CreateTask, Reparent, RemoveDependency

\* A delete without cascade, that no other process overtook, takes no task's parent away:
\* the children it did not find are still not there.
THEOREM DeletesOrphanNobody == Spec => DeleteOrphansNobody
<1> DEFINE A == \A p \in Procs : (FinishDelete(p) /\ ~stale[p]) =>
                    \A t \in Tasks \ {edge[p][1]} : parent'[t] = parent[t]
<1>1. Init => CheckHolds
  BY DEF Init, CheckHolds
<1>2. TypeOK /\ CheckHolds => A
  <2> SUFFICES ASSUME TypeOK, CheckHolds, NEW p \in Procs, FinishDelete(p), ~stale[p],
                      NEW t \in Tasks \ {edge[p][1]}
               PROVE  parent'[t] = parent[t]
    OBVIOUS
  <2>1. Children(edge[p][1]) = {}
    BY DEF CheckHolds, FinishDelete
  <2>2. parent[t] # edge[p][1]
    BY <2>1 DEF Children
  <2> QED BY <2>2 DEF FinishDelete, Erase
<1>3. Spec => [][A]_vars
  BY <1>1, <1>2, CheckStep, TypeCorrect, PTL DEF Spec
<1> QED BY <1>3 DEF DeleteOrphansNobody

\* Closing a task through close_task, unless overtaken, takes no other task off the ready
\* queue: a ready task below the closed one would have a child of that one, which is closed,
\* among itself and its ancestors, which are open.
THEOREM ClosesStarveNobody == Spec => CloseNeverStarves
<1> DEFINE A == \A p \in Procs : (FinishClose(p) /\ ~stale[p]) => Ready \ {edge[p][1]} \subseteq Ready'
<1>1. Init => CheckHolds
  BY DEF Init, CheckHolds
<1>2. TypeOK /\ CheckHolds => A
  <2> SUFFICES ASSUME TypeOK, CheckHolds, NEW p \in Procs, FinishClose(p), ~stale[p],
                      NEW t \in Ready, t # edge[p][1]
               PROVE  t \in Ready'
    OBVIOUS
  <2> DEFINE c == edge[p][1]
             free == {u \in Tasks : status[u] = "open" /\ ExternalBlockers(u) = {}}
             line == {t} \cup Ancestors(t)
  <2>1. t \in Tasks /\ line \subseteq free /\ \E a \in line : parent[a] = NoTask
    BY DEF Ready
  <2>2. \A d \in Children(c) : status[d] = "closed"
    BY DEF CheckHolds, FinishClose, MayClose
  <2>3. c \notin Ancestors(t)
    BY <2>1, <2>2, AncestorsHaveChildren
  <2>4. /\ UNCHANGED <<parent, blocks>>
        /\ \A u \in Tasks : u # c => status'[u] = status[u]
        /\ \A u \in Tasks : status'[u] \in {"open", "escalated"} => status[u] \in {"open", "escalated"}
    BY DEF FinishClose, TypeOK
  <2>5. \A u \in Tasks : Ancestors(u)' = Ancestors(u)
    BY <2>4 DEF Ancestors, Parents, Reachable, ClosedUnder
  <2>6. \A u \in Tasks : ExternalBlockers(u)' \subseteq ExternalBlockers(u)
    BY <2>4, <2>5 DEF ExternalBlockers, Successors, TypeOK
  <2>7. \A u \in line : u \in Tasks /\ status'[u] = "open" /\ ExternalBlockers(u)' = {}
    BY <2>1, <2>3, <2>4, <2>6
  <2>8. Ancestors(t)' = Ancestors(t) /\ \E a \in line : parent'[a] = NoTask
    BY <2>1, <2>4, <2>5
  <2> QED BY <2>1, <2>7, <2>8 DEF Ready
<1>3. Spec => [][A]_vars
  BY <1>1, <1>2, CheckStep, TypeCorrect, PTL DEF Spec
<1> QED BY <1>3 DEF CloseNeverStarves
=============================================================================
