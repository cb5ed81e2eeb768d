----------------------------- MODULE Worktrees -----------------------------
(***************************************************************************)
(* Git worktrees for isolated agents: the record gobby keeps of a worktree *)
(* (storage/worktrees.py), the directory and the branch git keeps          *)
(* (worktrees/git.py), and everyone who creates, shares, marks and deletes *)
(* them: the isolation handler of a spawn, the worktree tools, the HTTP    *)
(* route, the sweep of stale worktrees and the hourly reaper of merged     *)
(* ones.  Record, directory and branch are three stores without a common   *)
(* transaction.                                                            *)
(*                                                                         *)
(* What runs between two awaits of the event loop is one action, and so is *)
(* one call of the git manager in a thread.  git itself is external: it is *)
(* modelled by what the git manager relies on.  Left out: uncommitted      *)
(* changes (a deletion without force may always be refused), and the owner *)
(* column (claim_worktree, release_worktree), which no deletion reads.     *)
(***************************************************************************)
EXTENDS Naturals

CONSTANTS Branches,     \* branch names of one project
          Existing,     \* those that exist before gobby knows of them
          Agents,       \* the agents that are spawned into worktrees
          Callers,      \* concurrent calls of create_worktree and merge_worktree
          None,         \* no branch, no path, no record
          MaxOps,       \* bound: requests of users, agents and tasks
          MaxCrashes    \* bound: crashes of the daemon

ASSUME BranchesAreNames == None \notin Branches /\ Existing \subseteq Branches
ASSUME BoundsAreNat == MaxOps \in Nat /\ MaxCrashes \in Nat

VARIABLES rows,     \* the table worktrees: id -> record
          reg,      \* git: the branch checked out at each path, None if none
          disk,     \* the paths that exist as directories
          head,     \* git: each local branch, and whether the target has its commits
          seat,     \* each agent: how far its spawn is, and where it works
          call,     \* each caller: how far its call is
          list,     \* what a sweep, or the reaper, has selected and not yet deleted
          half,     \* the items whose directory the reaper deleted, not yet the branch
          issued,   \* ids given to records
          ops, crashes,
          why,      \* history: what happened to each branch since its creation
          lost      \* history: the branches deleted with commits nobody else has

stores  == <<rows, reg, disk, head>>
workers == <<seat, call, list, half>>
vars    == <<stores, workers, issued, ops, crashes, why, lost>>

(* Generated paths follow the branch (generate_worktree_path); a tool's    *)
(* caller may choose any other.                                            *)
Paths == Branches

Statuses == {"active", "merged", "abandoned"}
Reasons  == {"asked", "forced", "merged", "unpushed", "listed", "shared",
             "borrowed", "left", "vanished", "mistaken", "crashed"}
Row      == [branch : Branches, path : Paths, status : Statuses, ripe : BOOLEAN]
Item     == [kind : {"stale", "expired", "reaped"}, id : Nat, branch : Branches, path : Paths]
NoSeat   == [phase |-> "away", branch |-> None, path |-> None, id |-> 0]
NoCall   == [pc |-> "idle", branch |-> None, path |-> None, new |-> TRUE, good |-> TRUE]

TableOK ==
    /\ DOMAIN rows \subseteq 1..issued /\ issued \in Nat
    /\ \A i \in DOMAIN rows : rows[i] \in Row
    /\ \A i, j \in DOMAIN rows :
          rows[i].branch = rows[j].branch \/ rows[i].path = rows[j].path => i = j

GitOK ==
    /\ reg \in [Paths -> Branches \cup {None}]
    /\ disk \subseteq Paths
    /\ head \in [Branches -> {"gone", "even", "ahead"}]

WorkersOK ==
    /\ seat \in [Agents -> [phase : {"away", "preparing", "clearing", "erasing", "working",
                                      "homeless"},
                            branch : Branches \cup {None}, path : Paths \cup {None}, id : Nat]]
    /\ call \in [Callers -> [pc : {"idle", "adding", "recording", "undoing", "pushing"},
                             branch : Branches \cup {None}, path : Paths \cup {None},
                             new : BOOLEAN, good : BOOLEAN]]
    /\ list \subseteq Item /\ half \subseteq Item

HistoryOK ==
    /\ ops \in 0..MaxOps /\ crashes \in 0..MaxCrashes
    /\ why \in [Branches -> SUBSET Reasons]
    /\ lost \subseteq Branches

TypeOK == TableOK /\ GitOK /\ WorkersOK /\ HistoryOK

Init ==
    /\ rows = [i \in {} |-> None]
    /\ reg = [p \in Paths |-> None] /\ disk = {}
    /\ head = [b \in Branches |-> IF b \in Existing THEN "ahead" ELSE "gone"]
    /\ seat = [a \in Agents |-> NoSeat] /\ call = [c \in Callers |-> NoCall]
    /\ list = {} /\ half = {}
    /\ issued = 0 /\ ops = 0 /\ crashes = 0
    /\ why = [b \in Branches |-> IF b \in Existing THEN {"left"} ELSE {}] /\ lost = {}

-----------------------------------------------------------------------------
(* Helpers.                                                                *)

RowsOf(b)   == {i \in DOMAIN rows : rows[i].branch = b}
RowsAt(p)   == {i \in DOMAIN rows : rows[i].path = p}
Without(ids) == [i \in DOMAIN rows \ ids |-> rows[i]]

\* Mutation of Insertable: the table has no unique index on the path.
InsertableByBranch(table, b, p) == \A i \in DOMAIN table : table[i].branch # b

(* The unique indices of the table: project and branch, and path.          *)
Insertable(table, b, p) ==
    \A i \in DOMAIN table : table[i].branch # b /\ table[i].path # p
Inserted(table, b, p) ==
    [i \in DOMAIN table \cup {issued + 1} |->
        IF i \in DOMAIN table THEN table[i]
        ELSE [branch |-> b, path |-> p, status |-> "active", ripe |-> FALSE]]

Because(bs, reasons) == [b \in Branches |-> IF b \in bs THEN why[b] \cup reasons ELSE why[b]]

(* A spawn or a create_worktree that may yet fail, and then deletes the    *)
(* directory it made.                                                      *)
Unsettled(as, p) ==
    \/ \E a \in as : seat[a].phase \in {"preparing", "clearing", "erasing"} /\ seat[a].path = p
    \/ \E c \in Callers : call[c].pc \in {"recording", "undoing"} /\ call[c].path = p

(* Deletions under way that name a path or a branch: they do not look      *)
(* again at what is there when they come to it.                            *)
Condemned(b, p) ==
    \/ \E m \in list \cup half : m.branch = b \/ m.path = p
    \/ \E c \in Callers : call[c].pc \in {"recording", "undoing"} /\ call[c].branch = b
    \/ Unsettled(Agents, p)

(* Those who work in a directory when it goes away.                        *)
Evicted(p) ==
    [a \in Agents |-> IF seat[a].phase = "working" /\ seat[a].path = p
                      THEN [seat[a] EXCEPT !.phase = "homeless"] ELSE seat[a]]

(* The directory p goes away because of branch b; another branch may be    *)
(* checked out there by now.                                               *)
Blame(b, p, reasons) ==
    [c \in Branches |-> IF c = b THEN why[c] \cup reasons
                        ELSE IF c = reg[p] THEN why[c] \cup {"mistaken"} ELSE why[c]]

-----------------------------------------------------------------------------
(* git.                                                                    *)

(* git worktree add [-b]: a free path, and a branch that must not exist    *)
(* (-b), or must exist and be checked out nowhere.                         *)
CanAdd(b, p, new) ==
    /\ p \notin disk /\ reg[p] = None
    /\ IF new THEN head[b] = "gone"
       ELSE head[b] # "gone" /\ \A q \in Paths : reg[q] # b

(* The history of the branch starts afresh, except for what a record of    *)
(* the table, or a deletion under way, still holds against it.             *)
Add(b, p, new, table) ==
    /\ reg' = [reg EXCEPT ![p] = b]
    /\ disk' = disk \cup {p}
    /\ head' = [head EXCEPT ![b] = IF new THEN "even" ELSE @]
    /\ lost' = IF new THEN lost \ {b} ELSE lost
    /\ why' = [why EXCEPT ![b] = (IF new THEN {} ELSE @)
            \cup (IF Condemned(b, p) THEN {"listed"} ELSE {})
            \cup (IF \E i \in DOMAIN table : table[i].branch = b /\ table[i].status = "merged"
                  THEN {"merged"} ELSE {})]

(* git worktree remove; when forced also rmtree and git worktree prune,    *)
(* which forgets every other worktree whose directory is missing.          *)
Removed(p)    == [reg EXCEPT ![p] = None]
RegWithout(p) ==
    {Removed(p), [q \in Paths |-> IF q \in disk \ {p} THEN reg[q] ELSE None]}

\* Mutation of Deletable: the branch is always deleted with -D.
DeletableUnmerged(b, regs, force) ==
    force \in BOOLEAN /\ head[b] # "gone" /\ \A q \in Paths : regs[q] # b

(* git branch -D refuses a branch that is checked out, -d one whose        *)
(* commits the target does not have.                                       *)
Deletable(b, regs, force) ==
    /\ head[b] # "gone" /\ \A q \in Paths : regs[q] # b
    /\ force \/ head[b] = "even"

BranchesWithout(bs) ==
    /\ head' = [b \in Branches |-> IF b \in bs THEN "gone" ELSE head[b]]
    /\ lost' = lost \cup {b \in bs : head[b] = "ahead"}

-----------------------------------------------------------------------------
(* A spawn with worktree isolation (prepare_environment).                  *)

Asked == /\ ops < MaxOps /\ ops' = ops + 1
Spared == UNCHANGED <<issued, crashes>>

\* Mutation of SpawnShared: a worktree that was found is cleaned up like one
\* that was made.
SpawnSharedAsOwn(a, i) ==
    /\ Asked
    /\ seat[a].phase = "away"
    /\ rows[i].path \in disk
    /\ seat' = [seat EXCEPT ![a] = [phase |-> "preparing", branch |-> reg[rows[i].path],
                                    path |-> rows[i].path, id |-> i]]
    /\ UNCHANGED <<stores, call, list, half, why, lost>> /\ Spared

(* The branch, or a worktree id, leads to a record whose directory exists: *)
(* the agent works there, whoever else does and whatever the status.       *)
SpawnShared(a, i) ==
    /\ Asked
    /\ seat[a].phase = "away"
    /\ rows[i].path \in disk
    /\ seat' = [seat EXCEPT ![a] = [phase |-> "working", branch |-> reg[rows[i].path],
                                    path |-> rows[i].path, id |-> i]]
    /\ why' = Because({reg[rows[i].path]},
          (IF Unsettled(Agents, rows[i].path) THEN {"shared"} ELSE {})
          \cup (IF reg[rows[i].path] # rows[i].branch THEN {"mistaken"} ELSE {}))
    /\ UNCHANGED <<stores, call, list, half, lost>> /\ Spared

(* No record, or one whose directory is gone and which is dropped: git     *)
(* worktree add -b at the generated path, then the record, in one stretch. *)
(* The insert may fail on the unique path.                                 *)
SpawnFresh(a, b) ==
    LET kept == Without(RowsOf(b)) IN
    /\ Asked
    /\ seat[a].phase = "away"
    /\ \A i \in RowsOf(b) : rows[i].path \notin disk
    /\ CanAdd(b, b, TRUE) /\ Add(b, b, TRUE, kept)
    /\ \/ /\ Insertable(kept, b, b)
          /\ rows' = Inserted(kept, b, b) /\ issued' = issued + 1
          /\ seat' = [seat EXCEPT ![a] = [phase |-> "preparing", branch |-> b, path |-> b,
                                          id |-> issued']]
       \/ /\ ~Insertable(kept, b, b)
          /\ rows' = kept /\ UNCHANGED issued
          /\ seat' = [seat EXCEPT ![a] = [phase |-> "clearing", branch |-> b, path |-> b,
                                          id |-> 0]]
    /\ UNCHANGED <<call, list, half, crashes>>

(* git refuses (the branch or the path exists), or the worktree id names a *)
(* record without a directory: the spawn fails, the stale record is gone.  *)
SpawnRefused(b) ==
    /\ Asked
    /\ RowsOf(b) # {} /\ \A i \in RowsOf(b) : rows[i].path \notin disk
    /\ rows' = Without(RowsOf(b))
    /\ UNCHANGED <<reg, disk, head, workers, why, lost>> /\ Spared

(* The hooks and the project files are copied; the agent starts.           *)
Prepared(a) ==
    LET p == seat[a].path IN
    /\ seat[a].phase = "preparing" /\ p \in disk
    /\ seat' = [seat EXCEPT ![a].phase = "working", ![a].branch = reg[p]]
    /\ why' = IF Unsettled(Agents \ {a}, p)
              THEN Because({reg[p]}, {"shared"}) ELSE why
    /\ UNCHANGED <<stores, call, list, half, ops, lost>> /\ Spared

(* Anything raised after git worktree add: cleanup_environment deletes the *)
(* directory in a thread and then the record, and keeps the branch.        *)
CleanUp(a) ==
    LET p == seat[a].path IN
    /\ seat[a].phase \in {"preparing", "clearing"}
    /\ seat' = [Evicted(p) EXCEPT ![a].phase = "erasing"]
    /\ disk' = disk \ {p} /\ \E r \in RegWithout(p) : reg' = r
    /\ why' = Blame(seat[a].branch, p, {"left"})
    /\ UNCHANGED <<rows, head, call, list, half, ops, lost>> /\ Spared

EraseRecord(a) ==
    /\ seat[a].phase = "erasing"
    /\ rows' = Without({seat[a].id})
    /\ seat' = [seat EXCEPT ![a] = NoSeat]
    /\ UNCHANGED <<reg, disk, head, call, list, half, ops, why, lost>> /\ Spared

(* The agent commits on the branch of its worktree; it ends.               *)
Commit(a) ==
    LET b == seat[a].branch IN
    /\ seat[a].phase = "working"
    /\ head[b] = "even" /\ head' = [head EXCEPT ![b] = "ahead"]
    /\ why' = Because({b},
          (IF \E i \in RowsOf(b) : rows[i].status = "merged" THEN {"unpushed"} ELSE {})
          \cup (IF Condemned(b, seat[a].path) THEN {"listed"} ELSE {}))
    /\ UNCHANGED <<rows, reg, disk, workers, ops, lost>> /\ Spared

End(a) ==
    /\ seat[a].phase \in {"working", "homeless"}
    /\ seat' = [seat EXCEPT ![a] = NoSeat]
    /\ UNCHANGED <<stores, call, list, half, ops, why, lost>> /\ Spared

-----------------------------------------------------------------------------
(* create_worktree and merge_worktree: git runs in a thread, between awaits.*)

(* The branch has no record when the call begins.  good: the task that the *)
(* worktree is for resolves.                                               *)
BeginCreate(c, b, p, new, good) ==
    /\ Asked
    /\ call[c].pc = "idle"
    /\ RowsOf(b) = {}
    /\ call' = [call EXCEPT ![c] = [pc |-> "adding", branch |-> b, path |-> p,
                                    new |-> new, good |-> good]]
    /\ UNCHANGED <<stores, seat, list, half, why, lost>> /\ Spared

AddWorktree(c) ==
    /\ call[c].pc = "adding"
    /\ \/ /\ CanAdd(call[c].branch, call[c].path, call[c].new)
          /\ Add(call[c].branch, call[c].path, call[c].new, rows)
          /\ call' = [call EXCEPT ![c].pc = "recording"]
       \/ /\ call' = [call EXCEPT ![c] = NoCall]
          /\ UNCHANGED <<reg, disk, head, why, lost>>
    /\ UNCHANGED <<rows, seat, list, half, ops>> /\ Spared

Recordable(c) == call[c].good /\ Insertable(rows, call[c].branch, call[c].path)

RecordWorktree(c) ==
    /\ call[c].pc = "recording"
    /\ \/ /\ Recordable(c)
          /\ rows' = Inserted(rows, call[c].branch, call[c].path) /\ issued' = issued + 1
          /\ call' = [call EXCEPT ![c] = NoCall]
       \/ /\ ~Recordable(c)
          /\ call' = [call EXCEPT ![c].pc = "undoing"]
          /\ UNCHANGED <<rows, issued>>
    /\ UNCHANGED <<reg, disk, head, seat, list, half, ops, crashes, why, lost>>

\* Mutation of DeleteByForce: the branch is forgotten.
DeleteDirectoryOnly(b, p, reasons) ==
    IF p \in disk \/ reg[p] # None
    THEN \E r \in RegWithout(p) :
            /\ reg' = r /\ disk' = disk \ {p} /\ seat' = Evicted(p)
            /\ UNCHANGED <<head, lost>>
            /\ why' = Blame(b, p, reasons)
    ELSE UNCHANGED <<reg, disk, head, seat, lost>> /\ why' = Because({b}, {"left"})

(* One call of the git manager: the directory, then the branch by force.   *)
(* Fails, and leaves the branch, when there is nothing to remove.          *)
DeleteByForce(b, p, reasons) ==
    IF p \in disk \/ reg[p] # None
    THEN \E r \in RegWithout(p) :
            /\ reg' = r /\ disk' = disk \ {p} /\ seat' = Evicted(p)
            /\ BranchesWithout(IF Deletable(b, r, TRUE) THEN {b} ELSE {})
            /\ why' = Blame(b, p, reasons)
    ELSE UNCHANGED <<reg, disk, head, seat, lost>> /\ why' = Because({b}, {"left"})

(* "Clean up the git worktree we just created": with its branch, whether   *)
(* or not the call had created that.                                       *)
UndoCreate(c) ==
    /\ call[c].pc = "undoing"
    /\ DeleteByForce(call[c].branch, call[c].path, IF call[c].new THEN {} ELSE {"borrowed"})
    /\ call' = [call EXCEPT ![c] = NoCall]
    /\ UNCHANGED <<rows, list, half, ops>> /\ Spared

Marked(i, status) == [rows EXCEPT ![i].status = status, ![i].ripe = FALSE]

MarksOf(i) ==
    Because({rows[i].branch},
            {"merged"} \cup (IF head[rows[i].branch] = "ahead" THEN {"unpushed"} ELSE {}))

(* merge_worktree merges the target into the branch, marks the record      *)
(* merged, and pushes the branch to the target only if it was told to.     *)
Merge(c, i, push) ==
    /\ Asked
    /\ call[c].pc = "idle"
    /\ rows[i].path \in disk
    /\ rows' = Marked(i, "merged") /\ why' = MarksOf(i)
    /\ call' = IF push THEN [call EXCEPT ![c] = [NoCall EXCEPT !.pc = "pushing",
                                   !.branch = rows[i].branch, !.path = rows[i].path]]
               ELSE call
    /\ UNCHANGED <<reg, disk, head, seat, list, half, lost>> /\ Spared

Push(c, ok) ==
    LET b == call[c].branch IN
    /\ call[c].pc = "pushing"
    /\ ok => call[c].path \in disk /\ head[b] # "gone"
    /\ head' = IF ok THEN [head EXCEPT ![b] = "even"] ELSE head
    /\ why' = IF ok THEN [why EXCEPT ![b] = @ \ {"unpushed"}] ELSE why
    /\ call' = [call EXCEPT ![c] = NoCall]
    /\ UNCHANGED <<rows, reg, disk, seat, list, half, ops, lost>> /\ Spared

-----------------------------------------------------------------------------
(* Marks and single deletions.                                             *)

(* mark_worktree_merged, and close_task with reason "completed": neither   *)
(* looks at the branch.  The storage layer's close_task marks the worktree *)
(* on every other close too, without a date; Ripen may be long in coming.  *)
MarkMerged(i) ==
    /\ Asked
    /\ rows' = Marked(i, "merged") /\ why' = MarksOf(i)
    /\ UNCHANGED <<reg, disk, head, workers, lost>> /\ Spared

(* close_task as obsolete, duplicate and the like; reopen_task.            *)
Abandon(i) ==
    /\ Asked
    /\ rows' = [rows EXCEPT ![i].status = "abandoned"]
    /\ UNCHANGED <<reg, disk, head, workers, why, lost>> /\ Spared

Reactivate(i) ==
    /\ Asked
    /\ rows[i].status \in {"merged", "abandoned"}
    /\ rows' = [rows EXCEPT ![i].status = "active"]
    /\ UNCHANGED <<reg, disk, head, workers, why, lost>> /\ Spared

(* delete_worktree: directory, branch (-D or -d), record.  A branch that   *)
(* -d refuses stays.                                                       *)
DeleteWorktree(i, force) ==
    LET b == rows[i].branch
        p == rows[i].path
    IN  /\ Asked
        /\ rows' = Without({i})
        /\ IF p \in disk
           THEN \E r \in IF force THEN RegWithout(p) ELSE {Removed(p)} :
                  LET bs == IF Deletable(b, r, force) THEN {b} ELSE {} IN
                  /\ reg' = r /\ disk' = disk \ {p} /\ seat' = Evicted(p)
                  /\ BranchesWithout(bs)
                  /\ why' = Blame(b, p, {"asked"} \cup (IF force THEN {"forced"} ELSE {})
                                        \cup (IF bs = {} THEN {"left"} ELSE {}))
           ELSE UNCHANGED <<reg, disk, head, seat, why, lost>>
        /\ UNCHANGED <<call, list, half>> /\ Spared

(* The HTTP route forces the directory out, keeps the branch, and deletes  *)
(* the record even if git failed.                                          *)
RouteDelete(i) ==
    LET p == rows[i].path IN
    /\ Asked
    /\ rows' = Without({i})
    /\ \/ disk' = disk \ {p} /\ seat' = Evicted(p) /\ \E r \in RegWithout(p) : reg' = r
       \/ UNCHANGED <<disk, reg, seat>>
    /\ why' = Blame(rows[i].branch, p, {"asked", "left"})
    /\ UNCHANGED <<head, call, list, half, lost>> /\ Spared

(* A directory is removed by hand; git still has it registered.            *)
Vanish(p) ==
    /\ Asked
    /\ p \in disk /\ disk' = disk \ {p} /\ seat' = Evicted(p)
    /\ why' = Because({reg[p]}, {"vanished"})
    /\ UNCHANGED <<rows, reg, head, call, list, half, lost>> /\ Spared

-----------------------------------------------------------------------------
(* The sweep of stale worktrees, and the reaper.                           *)

ItemOf(kind, i) == [kind |-> kind, id |-> i, branch |-> rows[i].branch, path |-> rows[i].path]

(* cleanup_after lies seven days ahead of the mark; it passes.             *)
Ripen(i) ==
    /\ rows[i].status = "merged" /\ ~rows[i].ripe
    /\ rows' = [rows EXCEPT ![i].ripe = TRUE]
    /\ UNCHANGED <<reg, disk, head, workers, ops, why, lost>> /\ Spared

Expired == {i \in DOMAIN rows : rows[i].status = "merged" /\ rows[i].ripe}

(* cleanup_stale_worktrees: the active records without a write for some    *)
(* hours are abandoned, and deleted from git if asked; the expired ones    *)
(* are deleted in any case.  Both lists are read before the first await.   *)
Sweep(stale, git) ==
    /\ Asked
    /\ \A m \in list : m.kind = "reaped"
    /\ stale \subseteq {i \in DOMAIN rows : rows[i].status = "active"}
    /\ stale \cup Expired # {}
    /\ rows' = [i \in DOMAIN rows |->
                  IF i \in stale THEN [rows[i] EXCEPT !.status = "abandoned"] ELSE rows[i]]
    /\ list' = list \cup {ItemOf("expired", i) : i \in Expired}
                    \cup {ItemOf("stale", i) : i \in IF git THEN stale ELSE {}}
    /\ UNCHANGED <<reg, disk, head, seat, call, half, why, lost>> /\ Spared

(* One item of the sweep.  The record of a stale one stays.                *)
SweepItem(m) ==
    /\ m \in list /\ m.kind # "reaped" /\ list' = list \ {m}
    /\ DeleteByForce(m.branch, m.path,
                     IF m.kind = "stale" THEN {"asked", "forced"} ELSE {})
    /\ rows' = IF m.kind = "expired" /\ (m.path \in disk \/ reg[m.path] # None)
               THEN Without({m.id}) ELSE rows
    /\ UNCHANGED <<call, half, ops>> /\ Spared

(* The reaper of the daemon lists the expired records and deletes them one *)
(* by one: directory, branch, record, with awaits in between.              *)
BeginReap ==
    /\ Expired # {} /\ half = {} /\ \A m \in list : m.kind # "reaped"
    /\ list' = list \cup {ItemOf("reaped", i) : i \in Expired}
    /\ UNCHANGED <<stores, seat, call, half, ops, why, lost>> /\ Spared

(* usable: git runs in the daemon's directory, which need not be the       *)
(* repository; if not, the directory alone is removed.                     *)
ReapDirectory(m, usable) ==
    /\ m \in list /\ m.kind = "reaped" /\ half = {}
    /\ list' = list \ {m} /\ half' = {m}
    /\ disk' = disk \ {m.path} /\ seat' = Evicted(m.path)
    /\ IF usable THEN \E r \in RegWithout(m.path) : reg' = r ELSE reg' = reg
    /\ why' = Blame(m.branch, m.path, {})
    /\ UNCHANGED <<rows, head, call, ops, lost>> /\ Spared

\* Mutation of ReapBranch: the record stays if git fails.
ReapBranchIfUsable(m, usable) ==
    LET bs == IF usable /\ Deletable(m.branch, reg, TRUE) THEN {m.branch} ELSE {} IN
    /\ m \in half /\ half' = {}
    /\ BranchesWithout(bs)
    /\ rows' = IF usable THEN Without({m.id}) ELSE rows
    /\ why' = IF bs = {} THEN Because({m.branch}, {"left"}) ELSE why
    /\ UNCHANGED <<reg, disk, seat, call, list, ops>> /\ Spared

ReapBranch(m, usable) ==
    LET bs == IF usable /\ Deletable(m.branch, reg, TRUE) THEN {m.branch} ELSE {} IN
    /\ m \in half /\ half' = {}
    /\ BranchesWithout(bs)
    /\ rows' = Without({m.id})
    /\ why' = IF bs = {} THEN Because({m.branch}, {"left"}) ELSE why
    /\ UNCHANGED <<reg, disk, seat, call, list, ops>> /\ Spared

(* A git command takes more than 30 seconds: the item is left for the next *)
(* round.                                                                  *)
ReapTimesOut(m) ==
    /\ m \in half /\ half' = {}
    /\ why' = Because({m.branch}, {"left"})
    /\ UNCHANGED <<stores, seat, call, list, ops, lost>> /\ Spared

-----------------------------------------------------------------------------

(* The daemon dies: calls, preparations and lists are gone, agents in      *)
(* their terminals go on.                                                  *)
Crash ==
    /\ crashes < MaxCrashes /\ crashes' = crashes + 1
    /\ why' = Because({call[c].branch : c \in {d \in Callers : call[d].pc # "pushing"}}
                      \cup {m.branch : m \in half}
                      \cup {seat[a].branch : a \in {o \in Agents : seat[o].phase \in {"preparing", "clearing", "erasing"}}},
                      {"crashed"})
    /\ call' = [c \in Callers |-> NoCall]
    /\ list' = {} /\ half' = {}
    /\ seat' = [a \in Agents |-> IF seat[a].phase \in {"working", "homeless"} THEN seat[a] ELSE NoSeat]
    /\ UNCHANGED <<stores, issued, ops, lost>>

Create == \E c \in Callers :
    \/ \E b \in Branches, p \in Paths, new, good \in BOOLEAN : BeginCreate(c, b, p, new, good)
    \/ AddWorktree(c) \/ RecordWorktree(c) \/ UndoCreate(c)

Work == \E a \in Agents :
    \/ \E i \in DOMAIN rows : SpawnShared(a, i)
    \/ \E b \in Branches : SpawnFresh(a, b)
    \/ Prepared(a) \/ CleanUp(a) \/ EraseRecord(a) \/ Commit(a) \/ End(a)

Handle == \E i \in DOMAIN rows :
    \/ MarkMerged(i) \/ Abandon(i) \/ Reactivate(i)
    \/ \E force \in BOOLEAN : DeleteWorktree(i, force)
    \/ RouteDelete(i) \/ Ripen(i)
    \/ \E c \in Callers, push \in BOOLEAN : Merge(c, i, push)

Clean ==
    \/ \E stale \in SUBSET DOMAIN rows, git \in BOOLEAN : Sweep(stale, git)
    \/ \E m \in list : SweepItem(m) \/ \E usable \in BOOLEAN : ReapDirectory(m, usable)
    \/ \E m \in half : (\E usable \in BOOLEAN : ReapBranch(m, usable)) \/ ReapTimesOut(m)
    \/ BeginReap

Next ==
    \/ Create \/ Work \/ Handle \/ Clean \/ Crash
    \/ \E b \in Branches : SpawnRefused(b)
    \/ \E p \in Paths : Vanish(p)
    \/ \E c \in Callers, ok \in BOOLEAN : Push(c, ok)

Spec == Init /\ [][Next]_vars

(* The reaper's loop goes round every hour, and git does not time out for  *)
(* ever.                                                                   *)
FairSpec ==
    /\ Spec
    /\ WF_vars(BeginReap)
    /\ WF_vars(\E m \in list, usable \in BOOLEAN : ReapDirectory(m, usable))
    /\ SF_vars(\E m \in half, usable \in BOOLEAN : ReapBranch(m, usable))

-----------------------------------------------------------------------------
(* Properties.                                                             *)

(* Commits that only a branch of a worktree has are lost in four ways, and *)
(* no other: somebody forced the deletion; the record was marked merged    *)
(* with commits that were not pushed; the commits were made while a        *)
(* deletion decided earlier was still to come; or create_worktree borrowed *)
(* an existing branch, failed, and deleted it.                             *)
LostWorkHasACause ==
    \A b \in lost : why[b] \cap {"forced", "unpushed", "listed", "borrowed"} # {}

(* A spawn on a branch can go through (it finds a worktree to share, or    *)
(* git can create one and the record fits the table), unless a call on the *)
(* branch is under way, the path is another worktree's, or a failure, a    *)
(* crash or a deletion that took the wrong record left the branch behind:  *)
(* git worktree add -b refuses it for ever after.                          *)
CanSpawn(b) ==
    \/ \E i \in RowsOf(b) : rows[i].path \in disk
    \/ CanAdd(b, b, TRUE) /\ Insertable(Without(RowsOf(b)), b, b)

Busy(b) ==
    \/ \E c \in Callers : call[c].pc \in {"recording", "undoing"} /\ call[c].branch = b
    \/ \E a \in Agents : seat[a].phase \in {"clearing", "erasing"} /\ seat[a].branch = b
    \/ \E m \in half : m.branch = b

PathTaken(b) ==
    \/ reg[b] \notin {None, b}
    \/ \E i \in RowsAt(b) : rows[i].branch # b

SpawnsAreNotBlocked ==
    \A b \in Branches :
        \/ CanSpawn(b) \/ Busy(b) \/ PathTaken(b)
        \/ why[b] \cap {"left", "vanished", "mistaken", "crashed"} # {}

(* The directory an agent works in goes away under it only if somebody     *)
(* asked for its deletion or removed it by hand, its record was marked     *)
(* merged, a deletion decided before it came was still to come, it shared  *)
(* the worktree of a spawn that was not yet prepared, and failed, or the   *)
(* record of another branch led to its directory.                          *)
NobodyIsEvicted ==
    [][\A a \in Agents :
          seat[a].phase = "working" /\ seat'[a].phase = "homeless" =>
             why'[seat[a].branch] \cap {"asked", "vanished", "merged", "listed", "shared", "mistaken"} # {}]_vars

(* Expired worktrees do not pile up: the reaper gets through all of them,  *)
(* whatever fails, is listed twice or crashes on the way.                  *)
ExpiredIsReaped == Expired # {} ~> Expired = {}

(* What find_expired and the sweep say of an expired worktree: safe to     *)
(* delete, for its work is in the target branch.                           *)
ReaperLosesNothing ==
    [][(\E m \in half, usable \in BOOLEAN : ReapBranch(m, usable)) => lost' = lost]_vars

=============================================================================
