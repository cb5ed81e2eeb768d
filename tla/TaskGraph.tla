----------------------------- MODULE TaskGraph -----------------------------
(***************************************************************************)
(* gobby's task board as storage keeps it: tasks with a status and a       *)
(* parent, the "blocks" rows of task_dependencies, the queue of ready      *)
(* tasks, and the operations that change them.                             *)
(*                                                                         *)
(* The daemon and every run of the gobby command line are processes of     *)
(* their own on one SQLite file.  An operation that reads, decides and     *)
(* then writes - add_dependency, close_task, delete_task - does so in      *)
(* separate statements, so each of them is several actions here, and a     *)
(* history variable, stale, tells whose reads another process has since    *)
(* overtaken.  A cascade of deletes is one action.                         *)
(*                                                                         *)
(* "open" stands for open and in_progress, "review" for needs_review and   *)
(* review_approved: nothing here tells them apart.  Rows of type related   *)
(* and discovered-from are checked by nobody, and are left out.            *)
(***************************************************************************)
EXTENDS Naturals, FiniteSets

CONSTANTS
    Tasks,      \* identities of tasks, by seq_num; each is used once
    NoTask,     \* parent_task_id NULL
    Procs,      \* the processes that write to the board
    MaxCalls    \* bound on the calls made, creations not counted

ASSUME TasksAssumption == Tasks \subseteq Nat /\ NoTask \notin Tasks
ASSUME CallsAssumption == MaxCalls \in Nat

VARIABLES
    status,     \* status of each task, "new" before and "gone" after its row
    parent,     \* parent_task_id
    blocks,     \* rows <<task_id, depends_on>> with dep_type "blocks"
    pc,         \* what each process is in the middle of
    edge,       \* the pair, or the task twice, that its call is about, or NoEdge
    todo,       \* the stack of _would_create_cycle
    visited,    \* its visited set
    stale,      \* history: has another process written since this one read?
    raced,      \* history: was an edge inserted upon a stale check?
    calls       \* calls made so far, see MaxCalls

board == <<status, parent, blocks>>
vars == <<board, pc, edge, todo, visited, stale, raced, calls>>

Statuses == {"open", "review", "escalated", "closed"}
Exists(t) == status[t] \in Statuses
Rows == {t \in Tasks : Exists(t)}
Idle(p) == pc[p] = "idle"
NoEdge == <<NoTask, NoTask>>

TypeOK ==
    /\ status \in [Tasks -> Statuses \cup {"new", "gone"}]
    /\ parent \in [Tasks -> Tasks \cup {NoTask}]
    /\ blocks \subseteq Tasks \X Tasks
    /\ \A t \in Tasks : parent[t] # NoTask => Exists(t) /\ Exists(parent[t])
    /\ \A e \in blocks : Exists(e[1]) /\ Exists(e[2]) /\ e[1] # e[2]
    /\ pc \in [Procs -> {"idle", "walking", "closing", "deleting"}]
    /\ edge \in [Procs -> (Tasks \X Tasks) \cup {NoEdge}]
    /\ \A p \in Procs : edge[p] = NoEdge <=> Idle(p)
    /\ \A p \in Procs : pc[p] = "walking" => edge[p][1] # edge[p][2]
    /\ todo \in [Procs -> SUBSET Tasks]
    /\ visited \in [Procs -> SUBSET Tasks]
    /\ stale \in [Procs -> BOOLEAN]
    /\ raced \in BOOLEAN
    /\ calls \in 0..MaxCalls

----------------------------------------------------------------------------
(* Graphs, as sets of pairs over Tasks.                                    *)

Successors(E, t) == {e[2] : e \in {x \in E : x[1] = t}}
ClosedUnder(E, S) == \A e \in E : e[1] \in S => e[2] \in S
Reachable(E, t) == {u \in Tasks : \A S \in SUBSET Tasks : (t \in S /\ ClosedUnder(E, S)) => u \in S}

\* Some nodes each have a successor among them, which in a finite graph is
\* to say that there is a cycle.
Cyclic(E) == \E S \in SUBSET Tasks : S # {} /\ \A t \in S : \E e \in E : e[1] = t /\ e[2] \in S

Parents == {e \in Tasks \X Tasks : parent[e[1]] = e[2]}
Children(t) == {c \in Tasks : parent[c] = t}
Ancestors(t) == IF parent[t] = NoTask THEN {} ELSE Reachable(Parents, parent[t])

----------------------------------------------------------------------------
(* The queues.                                                             *)

\* Mutation of ExternalBlockers: a parent waits for its own descendants too.
AllBlockers(t) == {b \in Successors(blocks, t) : status[b] \in {"open", "escalated"}}

\* The tasks that t waits for.  A descendant of t only delays its completion.
ExternalBlockers(t) ==
    {b \in Successors(blocks, t) : status[b] \in {"open", "escalated"} /\ t \notin Ancestors(b)}

\* A task is ready when it is open and waits for nothing, and its parent,
\* if it has one, is ready: the recursion starts from the roots.
Ready ==
    LET free == {t \in Tasks : status[t] = "open" /\ ExternalBlockers(t) = {}}
        line(t) == {t} \cup Ancestors(t)
    IN  {t \in free : line(t) \subseteq free /\ \E a \in line(t) : parent[a] = NoTask}

----------------------------------------------------------------------------
(* Writes.                                                                 *)

Call == calls < MaxCalls /\ calls' = calls + 1

\* Whatever p writes overtakes what the other processes have read.
Overtake(p) == stale' = [q \in Procs |-> q # p /\ ~Idle(q)]

\* A call that is one statement.
Write(p) ==
    /\ Idle(p)
    /\ Overtake(p)
    /\ UNCHANGED <<pc, edge, todo, visited, raced>>

\* create_task, with the next seq_num, under an existing parent or at the root.
CreateTask(p, t, q) ==
    /\ status[t] = "new" /\ \A u \in Tasks : u < t => status[u] # "new"
    /\ q = NoTask \/ (q \in Tasks /\ Exists(q))
    /\ status' = [status EXCEPT ![t] = "open"]
    /\ parent' = [parent EXCEPT ![t] = q]
    /\ UNCHANGED <<blocks, calls>>
    /\ Write(p)

\* update_task with a parent: any existing task will do, t included.
Reparent(p, t, q) ==
    /\ Exists(t) /\ (q = NoTask \/ (q \in Tasks /\ Exists(q)))
    /\ parent' = [parent EXCEPT ![t] = q]
    /\ UNCHANGED <<status, blocks>>
    /\ Call /\ Write(p)

\* update_task with a status: the command line and the PATCH route set any.
SetStatus(p, t, s) ==
    /\ Exists(t) /\ s \in Statuses \ {status[t]}
    /\ status' = [status EXCEPT ![t] = s]
    /\ UNCHANGED <<parent, blocks>>
    /\ Call /\ Write(p)

\* reopen_task, from every status but open.
ReopenTask(p, t) ==
    /\ Exists(t) /\ status[t] # "open"
    /\ status' = [status EXCEPT ![t] = "open"]
    /\ UNCHANGED <<parent, blocks>>
    /\ Call /\ Write(p)

RemoveDependency(p, e) ==
    /\ e \in blocks
    /\ blocks' = blocks \ {e}
    /\ UNCHANGED <<status, parent>>
    /\ Call /\ Write(p)

\* Mutation of Erase: the children of a deleted row keep its id as their parent.
EraseRowsOnly(D) ==
    /\ status' = [t \in Tasks |-> IF t \in D THEN "gone" ELSE status[t]]
    /\ parent' = [t \in Tasks |-> IF t \in D THEN NoTask ELSE parent[t]]
    /\ blocks' = {e \in blocks : e[1] \notin D /\ e[2] \notin D}

\* The rows in D go, their dependencies with them, and their children are
\* left without a parent.
Erase(D) ==
    /\ status' = [t \in Tasks |-> IF t \in D THEN "gone" ELSE status[t]]
    /\ parent' = [t \in Tasks |-> IF t \in D \/ parent[t] \in D THEN NoTask ELSE parent[t]]
    /\ blocks' = {e \in blocks : e[1] \notin D /\ e[2] \notin D}

\* delete_task(cascade=True): t, and of every task deleted its children and
\* the tasks that depend on it.
Cascade(t) == Reachable({<<e[2], e[1]>> : e \in blocks \cup Parents}, t)
DeleteCascade(p, t) ==
    /\ Exists(t)
    /\ Erase(Cascade(t))
    /\ Call /\ Write(p)

----------------------------------------------------------------------------
(* Calls that check, and later write.                                      *)

Begin(p, what, e) ==
    /\ Idle(p)
    /\ Call
    /\ pc' = [pc EXCEPT ![p] = what]
    /\ edge' = [edge EXCEPT ![p] = e]
    /\ stale' = [stale EXCEPT ![p] = FALSE]
    /\ UNCHANGED <<board, raced>>

\* The call returns or raises, and the process forgets what it read.
Return(p) ==
    /\ pc' = [pc EXCEPT ![p] = "idle"]
    /\ edge' = [edge EXCEPT ![p] = NoEdge]
    /\ todo' = [todo EXCEPT ![p] = {}]
    /\ visited' = [visited EXCEPT ![p] = {}]
    /\ UNCHANGED calls

Raise(p) == Return(p) /\ stale' = [stale EXCEPT ![p] = FALSE] /\ UNCHANGED <<board, raced>>

\* add_dependency(t, d): both resolved, and not the same.
BeginAdd(p, t, d) ==
    /\ Exists(t) /\ Exists(d) /\ t # d
    /\ Begin(p, "walking", <<t, d>>)
    /\ todo' = [todo EXCEPT ![p] = {d}]
    /\ visited' = [visited EXCEPT ![p] = {}]

\* Mutation of Push: only the direct blockers of the new blocker are looked at.
PushDirect(p, u) ==
    (todo[p] \cup (IF u = edge[p][2] THEN Successors(blocks, u) ELSE {})) \ (visited[p] \cup {u})

\* The stack once u is popped.  A node already visited is popped to no effect,
\* so it is left out at once.
Push(p, u) == (todo[p] \cup Successors(blocks, u)) \ (visited[p] \cup {u})

\* One turn of the walk, one SELECT.
Visit(p) ==
    /\ pc[p] = "walking"
    /\ \E u \in todo[p] :
        \/ u = edge[p][1] /\ Raise(p)
        \/ /\ u # edge[p][1]
           /\ todo' = [todo EXCEPT ![p] = Push(p, u)]
           /\ visited' = [visited EXCEPT ![p] = @ \cup {u}]
           /\ UNCHANGED <<board, pc, edge, stale, raced, calls>>

\* The stack is empty: the INSERT, which the keys of the table may refuse.
InsertEdge(p) ==
    /\ pc[p] = "walking" /\ todo[p] = {}
    /\ Exists(edge[p][1]) /\ Exists(edge[p][2]) /\ edge[p] \notin blocks
    /\ blocks' = blocks \cup {edge[p]}
    /\ raced' = (raced \/ stale[p])
    /\ UNCHANGED <<status, parent>>
    /\ Overtake(p)
    /\ Return(p)

RefuseEdge(p) ==
    /\ pc[p] = "walking" /\ todo[p] = {}
    /\ ~Exists(edge[p][1]) \/ ~Exists(edge[p][2]) \/ edge[p] \in blocks
    /\ Raise(p)

\* Mutation of MayClose: one closed child is enough.
MayCloseSome(t) == Children(t) = {} \/ \E c \in Children(t) : status[c] = "closed"

\* close_task: every child is closed.
MayClose(t) == \A c \in Children(t) : status[c] = "closed"

BeginClose(p, t) ==
    /\ Exists(t) /\ MayClose(t)
    /\ Begin(p, "closing", <<t, t>>)
    /\ UNCHANGED <<todo, visited>>

FinishClose(p) ==
    /\ pc[p] = "closing"
    /\ status' = IF Exists(edge[p][1]) THEN [status EXCEPT ![edge[p][1]] = "closed"] ELSE status
    /\ UNCHANGED <<parent, blocks, raced>>
    /\ Overtake(p)
    /\ Return(p)

\* Mutation of BeginDelete: only dependents are looked for.
BeginDeleteWithChildren(p, t) ==
    /\ Exists(t)
    /\ \E unlink \in BOOLEAN : unlink \/ \A e \in blocks : e[2] # t
    /\ Begin(p, "deleting", <<t, t>>)
    /\ UNCHANGED <<todo, visited>>

\* delete_task without cascade: no child, and no dependent unless unlink.
BeginDelete(p, t) ==
    /\ Exists(t) /\ Children(t) = {}
    /\ \E unlink \in BOOLEAN : unlink \/ \A e \in blocks : e[2] # t
    /\ Begin(p, "deleting", <<t, t>>)
    /\ UNCHANGED <<todo, visited>>

FinishDelete(p) ==
    /\ pc[p] = "deleting"
    /\ Erase({edge[p][1]} \ {t \in Tasks : status[t] = "gone"})
    /\ UNCHANGED raced
    /\ Overtake(p)
    /\ Return(p)

----------------------------------------------------------------------------
Init ==
    /\ status = [t \in Tasks |-> "new"]
    /\ parent = [t \in Tasks |-> NoTask]
    /\ blocks = {}
    /\ pc = [p \in Procs |-> "idle"]
    /\ edge = [p \in Procs |-> NoEdge]
    /\ todo = [p \in Procs |-> {}]
    /\ visited = [p \in Procs |-> {}]
    /\ stale = [p \in Procs |-> FALSE]
    /\ raced = FALSE
    /\ calls = 0

Proceed(p) == Visit(p) \/ InsertEdge(p) \/ RefuseEdge(p) \/ FinishClose(p) \/ FinishDelete(p)

Next ==
    \E p \in Procs :
        \/ Proceed(p)
        \/ \E t \in Tasks :
            \/ ReopenTask(p, t)
            \/ DeleteCascade(p, t)
            \/ BeginClose(p, t)
            \/ BeginDelete(p, t)
            \/ \E s \in Statuses : SetStatus(p, t, s)
            \/ \E q \in Tasks \cup {NoTask} : CreateTask(p, t, q)
            \/ \E q \in Tasks \cup {NoTask} : Reparent(p, t, q)
            \/ \E d \in Tasks : BeginAdd(p, t, d)
        \/ \E e \in blocks : RemoveDependency(p, e)

Spec == Init /\ [][Next]_vars

\* A process that is in the middle of a call goes on with it.
FairSpec == Spec /\ \A p \in Procs : WF_vars(Proceed(p))

----------------------------------------------------------------------------
(* Properties.                                                             *)

\* The blocks rows are acyclic as long as no add_dependency wrote upon a check
\* that another process had overtaken: _would_create_cycle, which reads one
\* node at a time, finds every cycle there is.
CycleNeedsARace == raced \/ ~Cyclic(blocks)

\* When tasks are open and none is ready, the board says why: tasks wait for
\* each other, counting a child's wait for its parent, or one is open under a
\* parent that is not, or one waits for an escalated task.  The completion
\* block of a parent by its descendants is never the reason.
StuckBoardHasACause ==
    LET open == {t \in Tasks : status[t] = "open"}
        waits == {e \in blocks : /\ e[1] \in open /\ e[1] \notin Ancestors(e[2])
                                 /\ status[e[2]] \in {"open", "escalated"}}
    IN  (open # {} /\ Ready = {}) =>
            \/ Cyclic(waits \cup Parents)
            \/ \E t \in open : \E a \in Ancestors(t) : status[a] # "open"
            \/ \E e \in waits : status[e[2]] = "escalated"

\* Closing a task through close_task takes no other task off the ready queue,
\* unless another process wrote between the check of its children and the
\* update: what is below it has been closed or was not ready.
CloseNeverStarves ==
    [][\A p \in Procs : (FinishClose(p) /\ ~stale[p]) => Ready \ {edge[p][1]} \subseteq Ready']_vars

\* A delete without cascade takes no parent away, and without unlink no
\* blocker, unless another process wrote in between.
DeleteOrphansNobody ==
    [][\A p \in Procs : (FinishDelete(p) /\ ~stale[p]) =>
        \A t \in Tasks \ {edge[p][1]} : parent'[t] = parent[t]]_vars
=============================================================================
