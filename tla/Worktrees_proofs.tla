-------------------------- MODULE Worktrees_proofs --------------------------
(***************************************************************************)
(* Proofs about Worktrees, for any branches, agents, callers and bounds:   *)
(* its types, and that committed work is lost, a branch blocked and an     *)
(* agent evicted only for a cause.  The first is inductive once it is      *)
(* known what a deletion that is still to come may find (IInv): a merged   *)
(* record, an item of a list, and a create call that may be undone each    *)
(* have their branch's commits pushed or marked.  The others need what     *)
(* ties the three stores together (GroundInv): who works where, what the   *)
(* ids that are held lead to, and for whom each worktree is kept.          *)
(***************************************************************************)
EXTENDS Worktrees, TLAPS

\* A call that is under way names its branch and its path.
Named ==
    \A c \in Callers : call[c].pc # "idle" =>
        call[c].branch \in Branches /\ call[c].path \in Paths

\* A branch that is checked out exists, and the checkouts differ.
Checkouts ==
    /\ \A p \in Paths : reg[p] # None => head[reg[p]] # "gone"
    /\ \A p, q \in Paths : reg[p] = reg[q] /\ reg[p] # None => p = q

\* Unpushed commits on the branch of a merged record are marked as such.
MergedIsMarked ==
    \A i \in DOMAIN rows :
        rows[i].status = "merged" /\ head[rows[i].branch] = "ahead" =>
            "unpushed" \in why[rows[i].branch]

\* So are those on the branch of an item that expired, or they came after the
\* item was listed.
ItemsAreMarked ==
    /\ \A m \in half : m.kind = "reaped"
    /\ \A m \in list \cup half :
          m.kind # "stale" /\ head[m.branch] = "ahead" =>
              why[m.branch] \cap {"unpushed", "listed"} # {}

\* Commits on a new branch whose create call may still be undone are marked.
UndoIsMarked ==
    \A c \in Callers :
        /\ call[c].pc \in {"recording", "undoing"} /\ call[c].new
        /\ head[call[c].branch] = "ahead"
        => "listed" \in why[call[c].branch]

\* A branch that was lost is gone.
LostIsGone == \A b \in lost : head[b] = "gone"

IInv ==
    /\ TypeOK /\ Named /\ Checkouts
    /\ MergedIsMarked /\ ItemsAreMarked /\ UndoIsMarked
    /\ LostIsGone /\ LostWorkHasACause

-----------------------------------------------------------------------------

\* Nothing has happened in the initial state.
LEMMA InitIInv == Init => IInv
<1> SUFFICES ASSUME Init PROVE IInv OBVIOUS
<1> USE BranchesAreNames, BoundsAreNat DEF BranchesAreNames, BoundsAreNat, Init, Paths
<1>1. DOMAIN rows = {} OBVIOUS
<1>2. TableOK BY <1>1 DEF TableOK
<1>3. GitOK BY DEF GitOK
<1>4. WorkersOK BY DEF WorkersOK, NoSeat, NoCall, Item
<1>5. HistoryOK BY DEF HistoryOK, Reasons
<1>6. Named BY DEF Named, NoCall
<1>7. Checkouts BY DEF Checkouts
<1>8. MergedIsMarked BY <1>1 DEF MergedIsMarked
<1>9. ItemsAreMarked BY DEF ItemsAreMarked
<1>10. UndoIsMarked BY DEF UndoIsMarked, NoCall
<1>11. LostIsGone /\ LostWorkHasACause BY DEF LostIsGone, LostWorkHasACause
<1> QED BY <1>2, <1>3, <1>4, <1>5, <1>6, <1>7, <1>8, <1>9, <1>10, <1>11 DEF IInv, TypeOK

-----------------------------------------------------------------------------
\* What the helpers keep.

\* A row that fits the unique indices may be inserted under a new id.
LEMMA InsertionKeepsTable ==
    ASSUME TableOK, NEW ids \in SUBSET DOMAIN rows, NEW b \in Branches, NEW p \in Paths,
           NEW table, DOMAIN table = ids, \A i \in ids : table[i] = rows[i],
           Insertable(table, b, p), rows' = Inserted(table, b, p), issued' = issued + 1
    PROVE  TableOK'
<1> DEFINE n == issued + 1
           row == [branch |-> b, path |-> p, status |-> "active", ripe |-> FALSE]
<1>1. issued \in Nat /\ DOMAIN rows \subseteq 1..issued BY DEF TableOK
<1>2. DOMAIN table = ids /\ n \notin ids BY <1>1
<1>3. DOMAIN rows' = ids \cup {n} BY <1>2 DEF Inserted
<1>4. \A i \in ids : rows'[i] = rows[i] BY <1>2, <1>3 DEF Inserted
<1>5. rows'[n] = row BY <1>2, <1>3 DEF Inserted
<1>6. row \in Row BY DEF Row, Statuses
<1>7. \A i \in ids : rows[i].branch # b /\ rows[i].path # p BY <1>2 DEF Insertable
<1>8. (DOMAIN rows \subseteq 1..issued /\ issued \in Nat)'
    <2>1. \A i \in ids : i \in 1..n BY <1>1
    <2>2. n \in 1..n BY <1>1
    <2> QED BY <1>1, <1>3, <2>1, <2>2
<1>9. (\A i \in DOMAIN rows : rows[i] \in Row)' BY <1>3, <1>4, <1>5, <1>6 DEF TableOK
<1>10. ASSUME NEW i \in DOMAIN rows', NEW j \in DOMAIN rows',
              rows'[i].branch = rows'[j].branch \/ rows'[i].path = rows'[j].path
       PROVE  i = j
    <2> HIDE DEF n
    <2>1. row.branch = b /\ row.path = p OBVIOUS
    <2> HIDE DEF row
    <2>2. CASE i \in ids /\ j \in ids BY <2>2, <1>4, <1>10 DEF TableOK
    <2>3. CASE i \in ids /\ j = n BY <2>3, <2>1, <1>4, <1>5, <1>7, <1>10
    <2>4. CASE i = n /\ j \in ids BY <2>4, <2>1, <1>4, <1>5, <1>7, <1>10
    <2> QED BY <2>2, <2>3, <2>4, <1>3
<1> QED BY <1>8, <1>9, <1>10 DEF TableOK

\* Marks change neither ids, branches nor paths.
LEMMA MarkKeepsTable ==
    ASSUME TableOK, DOMAIN rows' = DOMAIN rows, UNCHANGED issued,
           \A i \in DOMAIN rows :
               rows'[i] \in Row /\ rows'[i].branch = rows[i].branch /\ rows'[i].path = rows[i].path
    PROVE  TableOK'
BY DEF TableOK

\* git forgets checkouts, and never invents one.
LEMMA RemovalForgets ==
    ASSUME GitOK, NEW p \in Paths, NEW r \in RegWithout(p), None \notin Branches
    PROVE  /\ r \in [Paths -> Branches \cup {None}]
           /\ r[p] = None
           /\ \A q \in Paths : r[q] # None => r[q] = reg[q]
BY DEF GitOK, RegWithout, Removed

\* Whoever is evicted keeps the rest of its seat.
LEMMA EvictionKeepsSeats ==
    ASSUME WorkersOK, NEW p
    PROVE  Evicted(p) \in [Agents -> [phase : {"away", "preparing", "clearing", "erasing",
                                               "working", "homeless"},
                                      branch : Branches \cup {None},
                                      path : Paths \cup {None}, id : Nat]]
BY DEF WorkersOK, Evicted

\* A forced deletion takes at most its own branch, notes its reasons, and
\* forgets none.
LEMMA ForcedDeletion ==
    ASSUME GitOK, HistoryOK, None \notin Branches,
           NEW b \in Branches, NEW p \in Paths, NEW reasons, DeleteByForce(b, p, reasons)
    PROVE  \A c \in Branches :
              /\ why[c] \subseteq why'[c]
              /\ head'[c] # "gone" => head'[c] = head[c]
              /\ c \in lost' => c \in lost \/ (c = b /\ head[c] = "ahead" /\ reasons \subseteq why'[c])
<1>1. CASE p \in disk \/ reg[p] # None
    <2>1. PICK r \in RegWithout(p) :
              /\ BranchesWithout(IF Deletable(b, r, TRUE) THEN {b} ELSE {})
              /\ why' = Blame(b, p, reasons)
        BY <1>1 DEF DeleteByForce
    <2>2. \A c \in Branches : why[c] \subseteq why'[c] /\ (c = b => reasons \subseteq why'[c])
        BY <2>1 DEF Blame
    <2>3. \A c \in Branches :
              /\ head'[c] # "gone" => head'[c] = head[c]
              /\ c \in lost' => c \in lost \/ (c = b /\ head[c] = "ahead")
        BY <2>1 DEF BranchesWithout
    <2> QED BY <2>2, <2>3
<1>2. CASE ~(p \in disk \/ reg[p] # None)
    BY <1>2 DEF DeleteByForce, Because
<1> QED BY <1>1, <1>2

\* Checkouts may be forgotten if the branches of the others stay.
LEMMA FewerCheckouts ==
    ASSUME GitOK, Checkouts,
           \A q \in Paths : reg'[q] # None => reg'[q] = reg[q] /\ head'[reg[q]] # "gone"
    PROVE  Checkouts'
BY DEF Checkouts, GitOK

-----------------------------------------------------------------------------

\* Each step keeps the records and the unique indices.
LEMMA TableStep ==
    ASSUME IInv, [Next]_vars
    PROVE  TableOK'
<1> USE BranchesAreNames, BoundsAreNat DEF BranchesAreNames, BoundsAreNat,
         IInv, Named, TypeOK, TableOK, GitOK, WorkersOK, HistoryOK, Row,
         Paths, Statuses, Reasons, Item, NoSeat, NoCall, stores, workers
<1>1. ASSUME NEW c \in Callers, NEW b \in Branches, NEW p \in Paths, NEW new \in
        BOOLEAN, NEW good \in BOOLEAN, BeginCreate(c, b, p, new, good) PROVE TableOK'
    BY <1>1 DEF BeginCreate, Asked, Spared, RowsOf
<1>2. ASSUME NEW c \in Callers, AddWorktree(c) PROVE TableOK'
    BY <1>2 DEF AddWorktree, CanAdd, Add, Spared
<1>3. ASSUME NEW c \in Callers, RecordWorktree(c) PROVE TableOK'
    <2> HIDE DEF TableOK, GitOK, WorkersOK, HistoryOK, TypeOK, IInv, Row, Item
    <2>1. TableOK BY DEF IInv, TypeOK
    <2>2. CASE Recordable(c)
        <3>1. call[c].branch \in Branches /\ call[c].path \in Paths BY <1>3 DEF RecordWorktree, IInv
        <3>2. rows' = Inserted(rows, call[c].branch, call[c].path) /\ issued' = issued + 1
            BY <1>3, <2>2 DEF RecordWorktree
        <3> QED BY <2>1, <2>2, <3>1, <3>2, InsertionKeepsTable DEF Recordable
    <2>3. CASE ~Recordable(c)
        <3>1. UNCHANGED <<rows, issued>> BY <1>3, <2>3 DEF RecordWorktree
        <3> QED BY <2>1, <3>1 DEF TableOK
    <2> QED BY <2>2, <2>3
<1>4. ASSUME NEW c \in Callers, UndoCreate(c) PROVE TableOK'
    BY <1>4 DEF UndoCreate, DeleteByForce, RegWithout, Removed, Evicted, Blame, Because,
       Deletable, BranchesWithout, Spared
<1>5. ASSUME NEW a \in Agents, NEW i \in DOMAIN rows, SpawnShared(a, i) PROVE TableOK'
    BY <1>5 DEF SpawnShared, Asked, Spared, Because
<1>6. ASSUME NEW a \in Agents, NEW b \in Branches, SpawnFresh(a, b) PROVE TableOK'
    <2> HIDE DEF TableOK, GitOK, WorkersOK, HistoryOK, TypeOK, IInv, Row, Item
    <2> DEFINE kept == Without(RowsOf(b))
    <2>1. TableOK BY DEF IInv, TypeOK
    <2>2. DOMAIN kept \in SUBSET DOMAIN rows /\ \A i \in DOMAIN kept : kept[i] = rows[i]
        BY DEF Without
    <2>3. CASE Insertable(kept, b, b)
        <3>1. rows' = Inserted(kept, b, b) /\ issued' = issued + 1 BY <1>6, <2>3 DEF SpawnFresh
        <3> HIDE DEF kept
        <3> QED BY <2>1, <2>2, <2>3, <3>1, InsertionKeepsTable
    <2>4. CASE ~Insertable(kept, b, b)
        <3>1. rows' = kept /\ UNCHANGED issued BY <1>6, <2>4 DEF SpawnFresh
        <3> HIDE DEF kept
        <3> QED BY <2>1, <2>2, <3>1 DEF TableOK
    <2> QED BY <2>3, <2>4
<1>7. ASSUME NEW a \in Agents, Prepared(a) PROVE TableOK'
    BY <1>7 DEF Prepared, Spared, Because
<1>8. ASSUME NEW a \in Agents, CleanUp(a) PROVE TableOK'
    BY <1>8 DEF CleanUp, Evicted, RegWithout, Removed, Blame, Spared
<1>9. ASSUME NEW a \in Agents, EraseRecord(a) PROVE TableOK'
    BY <1>9 DEF EraseRecord, Without, Spared
<1>10. ASSUME NEW a \in Agents, Commit(a) PROVE TableOK'
    BY <1>10 DEF Commit, Because, Spared
<1>11. ASSUME NEW a \in Agents, End(a) PROVE TableOK'
    BY <1>11 DEF End, Spared
<1>12. ASSUME NEW i \in DOMAIN rows, MarkMerged(i) PROVE TableOK'
    BY <1>12 DEF MarkMerged, Asked, Marked, MarksOf, Because, Spared
<1>13. ASSUME NEW i \in DOMAIN rows, Abandon(i) PROVE TableOK'
    BY <1>13 DEF Abandon, Asked, Spared
<1>14. ASSUME NEW i \in DOMAIN rows, Reactivate(i) PROVE TableOK'
    BY <1>14 DEF Reactivate, Asked, Spared
<1>15. ASSUME NEW i \in DOMAIN rows, NEW force \in BOOLEAN, DeleteWorktree(i, force)
        PROVE TableOK'
    BY <1>15 DEF DeleteWorktree, Asked, Without, RegWithout, Removed, Evicted, Blame,
       Deletable, BranchesWithout, Spared
<1>16. ASSUME NEW i \in DOMAIN rows, RouteDelete(i) PROVE TableOK'
    BY <1>16 DEF RouteDelete, Asked, Without, RegWithout, Removed, Evicted, Blame,
       Spared
<1>17. ASSUME NEW i \in DOMAIN rows, Ripen(i) PROVE TableOK'
    <2> HIDE DEF TableOK, GitOK, WorkersOK, HistoryOK, TypeOK, IInv, Row, Item
    <2>1. TableOK BY DEF IInv, TypeOK
    <2>2. rows' = [rows EXCEPT ![i].ripe = TRUE] /\ UNCHANGED issued BY <1>17 DEF Ripen, Spared
    <2>3. \A j \in DOMAIN rows :
              rows'[j] \in Row /\ rows'[j].branch = rows[j].branch /\ rows'[j].path = rows[j].path
        BY <2>1, <2>2 DEF TableOK, Row
    <2> QED BY <2>1, <2>2, <2>3, MarkKeepsTable
<1>18. ASSUME NEW c \in Callers, NEW i \in DOMAIN rows, NEW push \in BOOLEAN, Merge(c,
        i, push) PROVE TableOK'
    BY <1>18 DEF Merge, Asked, Marked, MarksOf, Because, Spared
<1>19. ASSUME NEW stale \in SUBSET DOMAIN rows, NEW git \in BOOLEAN, Sweep(stale, git)
        PROVE TableOK'
    <2> HIDE DEF TableOK, GitOK, WorkersOK, HistoryOK, TypeOK, IInv, Row, Item
    <2>1. TableOK BY DEF IInv, TypeOK
    <2>2. /\ UNCHANGED issued
          /\ rows' = [i \in DOMAIN rows |->
                        IF i \in stale THEN [rows[i] EXCEPT !.status = "abandoned"] ELSE rows[i]]
        BY <1>19 DEF Sweep, Spared
    <2>3. \A j \in DOMAIN rows :
              rows'[j] \in Row /\ rows'[j].branch = rows[j].branch /\ rows'[j].path = rows[j].path
        BY <2>1, <2>2 DEF TableOK, Row
    <2> QED BY <2>1, <2>2, <2>3, MarkKeepsTable
<1>20. ASSUME NEW m \in list, SweepItem(m) PROVE TableOK'
    BY <1>20 DEF SweepItem, DeleteByForce, RegWithout, Removed, Evicted, Blame, Because,
       Deletable, BranchesWithout, Without, Spared
<1>21. ASSUME NEW m \in list, NEW usable \in BOOLEAN, ReapDirectory(m, usable) PROVE
        TableOK'
    BY <1>21 DEF ReapDirectory, Evicted, RegWithout, Removed, Blame, Spared
<1>22. ASSUME NEW m \in half, NEW usable \in BOOLEAN, ReapBranch(m, usable) PROVE
        TableOK'
    BY <1>22 DEF ReapBranch, Deletable, BranchesWithout, Without, Because, Spared
<1>23. ASSUME NEW m \in half, ReapTimesOut(m) PROVE TableOK'
    BY <1>23 DEF ReapTimesOut, Because, Spared
<1>24. ASSUME BeginReap PROVE TableOK'
    BY <1>24 DEF BeginReap, ItemOf, Expired, Spared
<1>25. ASSUME Crash PROVE TableOK'
    BY <1>25 DEF Crash, Because
<1>26. ASSUME NEW b \in Branches, SpawnRefused(b) PROVE TableOK'
    BY <1>26 DEF SpawnRefused, Asked, Without, RowsOf, Spared
<1>27. ASSUME NEW p \in Paths, Vanish(p) PROVE TableOK'
    BY <1>27 DEF Vanish, Asked, Evicted, Because, Spared
<1>28. ASSUME NEW c \in Callers, NEW ok \in BOOLEAN, Push(c, ok) PROVE TableOK'
    BY <1>28 DEF Push, Spared
<1>29. CASE UNCHANGED vars
    BY <1>29 DEF vars
<1> HIDE DEF BranchesAreNames, BoundsAreNat, IInv, TypeOK, TableOK, GitOK,
         WorkersOK, HistoryOK, Row, Paths, Statuses, Reasons, Item, NoSeat,
         NoCall, stores, workers
<1>30. CASE Create BY <1>30, <1>1, <1>2, <1>3, <1>4 DEF Create
<1>31. CASE Work BY <1>31, <1>5, <1>6, <1>7, <1>8, <1>9, <1>10, <1>11 DEF Work
<1>32. CASE Handle BY <1>32, <1>12, <1>13, <1>14, <1>15, <1>16, <1>17, <1>18 DEF Handle
<1>33. CASE Clean BY <1>33, <1>19, <1>20, <1>21, <1>22, <1>23, <1>24 DEF Clean
<1> QED
    BY <1>25, <1>26, <1>27, <1>28, <1>29, <1>30, <1>31, <1>32, <1>33 DEF Next

\* Each step keeps the types of what git has.
LEMMA GitStep ==
    ASSUME IInv, [Next]_vars
    PROVE  GitOK'
<1> USE BranchesAreNames, BoundsAreNat DEF BranchesAreNames, BoundsAreNat,
         IInv, Named, TypeOK, TableOK, GitOK, WorkersOK, HistoryOK, Row,
         Paths, Statuses, Reasons, Item, NoSeat, NoCall, stores, workers
<1>1. ASSUME NEW c \in Callers, NEW b \in Branches, NEW p \in Paths, NEW new \in
        BOOLEAN, NEW good \in BOOLEAN, BeginCreate(c, b, p, new, good) PROVE GitOK'
    BY <1>1 DEF BeginCreate, Asked, Spared, RowsOf
<1>2. ASSUME NEW c \in Callers, AddWorktree(c) PROVE GitOK'
    BY <1>2 DEF AddWorktree, CanAdd, Add, Spared
<1>3. ASSUME NEW c \in Callers, RecordWorktree(c) PROVE GitOK'
    BY <1>3 DEF RecordWorktree, Recordable, Insertable, Inserted
<1>4. ASSUME NEW c \in Callers, UndoCreate(c) PROVE GitOK'
    BY <1>4 DEF UndoCreate, DeleteByForce, RegWithout, Removed, Evicted, Blame, Because,
       Deletable, BranchesWithout, Spared
<1>5. ASSUME NEW a \in Agents, NEW i \in DOMAIN rows, SpawnShared(a, i) PROVE GitOK'
    BY <1>5 DEF SpawnShared, Asked, Spared, Because
<1>6. ASSUME NEW a \in Agents, NEW b \in Branches, SpawnFresh(a, b) PROVE GitOK'
    BY <1>6 DEF SpawnFresh, Asked, CanAdd, Add, Insertable, Inserted, Without, RowsOf
<1>7. ASSUME NEW a \in Agents, Prepared(a) PROVE GitOK'
    BY <1>7 DEF Prepared, Spared, Because
<1>8. ASSUME NEW a \in Agents, CleanUp(a) PROVE GitOK'
    BY <1>8 DEF CleanUp, Evicted, RegWithout, Removed, Blame, Spared
<1>9. ASSUME NEW a \in Agents, EraseRecord(a) PROVE GitOK'
    BY <1>9 DEF EraseRecord, Without, Spared
<1>10. ASSUME NEW a \in Agents, Commit(a) PROVE GitOK'
    BY <1>10 DEF Commit, Because, Spared
<1>11. ASSUME NEW a \in Agents, End(a) PROVE GitOK'
    BY <1>11 DEF End, Spared
<1>12. ASSUME NEW i \in DOMAIN rows, MarkMerged(i) PROVE GitOK'
    BY <1>12 DEF MarkMerged, Asked, Marked, MarksOf, Because, Spared
<1>13. ASSUME NEW i \in DOMAIN rows, Abandon(i) PROVE GitOK'
    BY <1>13 DEF Abandon, Asked, Spared
<1>14. ASSUME NEW i \in DOMAIN rows, Reactivate(i) PROVE GitOK'
    BY <1>14 DEF Reactivate, Asked, Spared
<1>15. ASSUME NEW i \in DOMAIN rows, NEW force \in BOOLEAN, DeleteWorktree(i, force)
        PROVE GitOK'
    BY <1>15 DEF DeleteWorktree, Asked, Without, RegWithout, Removed, Evicted, Blame,
       Deletable, BranchesWithout, Spared
<1>16. ASSUME NEW i \in DOMAIN rows, RouteDelete(i) PROVE GitOK'
    BY <1>16 DEF RouteDelete, Asked, Without, RegWithout, Removed, Evicted, Blame,
       Spared
<1>17. ASSUME NEW i \in DOMAIN rows, Ripen(i) PROVE GitOK'
    BY <1>17 DEF Ripen, Spared
<1>18. ASSUME NEW c \in Callers, NEW i \in DOMAIN rows, NEW push \in BOOLEAN, Merge(c,
        i, push) PROVE GitOK'
    BY <1>18 DEF Merge, Asked, Marked, MarksOf, Because, Spared
<1>19. ASSUME NEW stale \in SUBSET DOMAIN rows, NEW git \in BOOLEAN, Sweep(stale, git)
        PROVE GitOK'
    BY <1>19 DEF Sweep, Asked, ItemOf, Expired, Spared
<1>20. ASSUME NEW m \in list, SweepItem(m) PROVE GitOK'
    BY <1>20 DEF SweepItem, DeleteByForce, RegWithout, Removed, Evicted, Blame, Because,
       Deletable, BranchesWithout, Without, Spared
<1>21. ASSUME NEW m \in list, NEW usable \in BOOLEAN, ReapDirectory(m, usable) PROVE
        GitOK'
    BY <1>21 DEF ReapDirectory, Evicted, RegWithout, Removed, Blame, Spared
<1>22. ASSUME NEW m \in half, NEW usable \in BOOLEAN, ReapBranch(m, usable) PROVE GitOK'
    BY <1>22 DEF ReapBranch, Deletable, BranchesWithout, Without, Because, Spared
<1>23. ASSUME NEW m \in half, ReapTimesOut(m) PROVE GitOK'
    BY <1>23 DEF ReapTimesOut, Because, Spared
<1>24. ASSUME BeginReap PROVE GitOK'
    BY <1>24 DEF BeginReap, ItemOf, Expired, Spared
<1>25. ASSUME Crash PROVE GitOK'
    BY <1>25 DEF Crash, Because
<1>26. ASSUME NEW b \in Branches, SpawnRefused(b) PROVE GitOK'
    BY <1>26 DEF SpawnRefused, Asked, Without, RowsOf, Spared
<1>27. ASSUME NEW p \in Paths, Vanish(p) PROVE GitOK'
    BY <1>27 DEF Vanish, Asked, Evicted, Because, Spared
<1>28. ASSUME NEW c \in Callers, NEW ok \in BOOLEAN, Push(c, ok) PROVE GitOK'
    BY <1>28 DEF Push, Spared
<1>29. CASE UNCHANGED vars
    BY <1>29 DEF vars
<1> HIDE DEF BranchesAreNames, BoundsAreNat, IInv, TypeOK, TableOK, GitOK,
         WorkersOK, HistoryOK, Row, Paths, Statuses, Reasons, Item, NoSeat,
         NoCall, stores, workers
<1>30. CASE Create BY <1>30, <1>1, <1>2, <1>3, <1>4 DEF Create
<1>31. CASE Work BY <1>31, <1>5, <1>6, <1>7, <1>8, <1>9, <1>10, <1>11 DEF Work
<1>32. CASE Handle BY <1>32, <1>12, <1>13, <1>14, <1>15, <1>16, <1>17, <1>18 DEF Handle
<1>33. CASE Clean BY <1>33, <1>19, <1>20, <1>21, <1>22, <1>23, <1>24 DEF Clean
<1> QED
    BY <1>25, <1>26, <1>27, <1>28, <1>29, <1>30, <1>31, <1>32, <1>33 DEF Next

\* Each step keeps the types of the spawns, calls and lists.
LEMMA WorkersStep ==
    ASSUME IInv, [Next]_vars
    PROVE  WorkersOK'
<1> USE BranchesAreNames, BoundsAreNat DEF BranchesAreNames, BoundsAreNat,
         IInv, Named, TypeOK, WorkersOK, Paths, NoSeat, NoCall, stores,
         workers
<1>1. ASSUME NEW c \in Callers, NEW b \in Branches, NEW p \in Paths, NEW new \in
        BOOLEAN, NEW good \in BOOLEAN, BeginCreate(c, b, p, new, good) PROVE WorkersOK'
    BY <1>1 DEF BeginCreate, Asked, Spared, RowsOf
<1>2. ASSUME NEW c \in Callers, AddWorktree(c) PROVE WorkersOK'
    <2>1. UNCHANGED <<seat, list, half>> BY <1>2 DEF AddWorktree
    <2>2. CASE call' = [call EXCEPT ![c] = NoCall] BY <2>1, <2>2
    <2>3. CASE call' = [call EXCEPT ![c].pc = "recording"]
        <3>1. call' = [call EXCEPT ![c] = [call[c] EXCEPT !.pc = "recording"]] BY <2>3
        <3>2. call \in [Callers -> [pc : {"idle", "adding", "recording", "undoing", "pushing"},
                                       branch : Branches \cup {None}, path : Paths \cup {None},
                                       new : BOOLEAN, good : BOOLEAN]] BY DEF WorkersOK
        <3>3. call' \in [Callers -> [pc : {"idle", "adding", "recording", "undoing", "pushing"},
                                       branch : Branches \cup {None}, path : Paths \cup {None},
                                       new : BOOLEAN, good : BOOLEAN]] BY <3>1, <3>2
        <3> QED BY <2>1, <3>3
    <2> QED BY <1>2, <2>2, <2>3 DEF AddWorktree
<1>3. ASSUME NEW c \in Callers, RecordWorktree(c) PROVE WorkersOK'
    <2>1. UNCHANGED <<seat, list, half>> BY <1>3 DEF RecordWorktree
    <2>2. CASE call' = [call EXCEPT ![c] = NoCall] BY <2>1, <2>2
    <2>3. CASE call' = [call EXCEPT ![c].pc = "undoing"]
        <3>1. call' = [call EXCEPT ![c] = [call[c] EXCEPT !.pc = "undoing"]] BY <2>3
        <3>2. call \in [Callers -> [pc : {"idle", "adding", "recording", "undoing", "pushing"},
                                       branch : Branches \cup {None}, path : Paths \cup {None},
                                       new : BOOLEAN, good : BOOLEAN]] BY DEF WorkersOK
        <3>3. call' \in [Callers -> [pc : {"idle", "adding", "recording", "undoing", "pushing"},
                                       branch : Branches \cup {None}, path : Paths \cup {None},
                                       new : BOOLEAN, good : BOOLEAN]] BY <3>1, <3>2
        <3> QED BY <2>1, <3>3
    <2> QED BY <1>3, <2>2, <2>3 DEF RecordWorktree
<1>4. ASSUME NEW c \in Callers, UndoCreate(c) PROVE WorkersOK'
    <2>1. seat' = seat \/ \E p \in Paths : seat' = Evicted(p) BY <1>4 DEF UndoCreate, DeleteByForce
    <2>2. call' = [call EXCEPT ![c] = NoCall] /\ UNCHANGED <<list, half>> BY <1>4 DEF UndoCreate
    <2> QED BY <2>1, <2>2, EvictionKeepsSeats
<1>5. ASSUME NEW a \in Agents, NEW i \in DOMAIN rows, SpawnShared(a, i) PROVE WorkersOK'
    BY <1>5 DEF SpawnShared, TableOK, GitOK, Row
<1>6. ASSUME NEW a \in Agents, NEW b \in Branches, SpawnFresh(a, b) PROVE WorkersOK'
    <2>1. issued + 1 \in Nat BY DEF TableOK
    <2>2. UNCHANGED <<call, list, half>> BY <1>6 DEF SpawnFresh
    <2>3. \E id \in {0, issued + 1}, phase \in {"preparing", "clearing"} :
              seat' = [seat EXCEPT ![a] = [phase |-> phase, branch |-> b, path |-> b, id |-> id]]
        BY <1>6 DEF SpawnFresh
    <2> QED BY <2>1, <2>2, <2>3
<1>7. ASSUME NEW a \in Agents, Prepared(a) PROVE WorkersOK'
    <2>1. reg[seat[a].path] \in Branches \cup {None} BY <1>7 DEF Prepared, GitOK
    <2>2. \E d \in Branches \cup {None} :
              seat' = [seat EXCEPT ![a].phase = "working", ![a].branch = d]
        BY <1>7, <2>1 DEF Prepared
    <2>3. UNCHANGED <<call, list, half>> BY <1>7 DEF Prepared
    <2>4. PICK d \in Branches \cup {None} :
              seat' = [seat EXCEPT ![a] = [seat[a] EXCEPT !.phase = "working", !.branch = d]]
        BY <2>2
    <2>5. [seat[a] EXCEPT !.phase = "working", !.branch = d] \in
              [phase : {"away", "preparing", "clearing", "erasing", "working", "homeless"},
               branch : Branches \cup {None}, path : Paths \cup {None}, id : Nat]
        OBVIOUS
    <2> QED BY <2>3, <2>4, <2>5
<1>8. ASSUME NEW a \in Agents, CleanUp(a) PROVE WorkersOK'
    <2> DEFINE e == Evicted(seat[a].path)
    <2>1. seat' = [e EXCEPT ![a].phase = "erasing"] BY <1>8 DEF CleanUp
    <2>2. UNCHANGED <<call, list, half>> BY <1>8 DEF CleanUp
    <2>3. e \in [Agents -> [phase : {"away", "preparing", "clearing", "erasing", "working", "homeless"},
                           branch : Branches \cup {None}, path : Paths \cup {None}, id : Nat]]
        BY EvictionKeepsSeats
    <2> HIDE DEF e
    <2> QED BY <2>1, <2>2, <2>3
<1>9. ASSUME NEW a \in Agents, EraseRecord(a) PROVE WorkersOK'
    BY <1>9 DEF EraseRecord
<1>10. ASSUME NEW a \in Agents, Commit(a) PROVE WorkersOK'
    BY <1>10 DEF Commit
<1>11. ASSUME NEW a \in Agents, End(a) PROVE WorkersOK'
    BY <1>11 DEF End, Spared
<1>12. ASSUME NEW i \in DOMAIN rows, MarkMerged(i) PROVE WorkersOK'
    BY <1>12 DEF MarkMerged
<1>13. ASSUME NEW i \in DOMAIN rows, Abandon(i) PROVE WorkersOK'
    BY <1>13 DEF Abandon, Asked, Spared
<1>14. ASSUME NEW i \in DOMAIN rows, Reactivate(i) PROVE WorkersOK'
    BY <1>14 DEF Reactivate, Asked, Spared
<1>15. ASSUME NEW i \in DOMAIN rows, NEW force \in BOOLEAN, DeleteWorktree(i, force)
        PROVE WorkersOK'
    <2>1. seat' = seat \/ seat' = Evicted(rows[i].path) BY <1>15 DEF DeleteWorktree
    <2>2. UNCHANGED <<call, list, half>> BY <1>15 DEF DeleteWorktree
    <2> QED BY <2>1, <2>2, EvictionKeepsSeats
<1>16. ASSUME NEW i \in DOMAIN rows, RouteDelete(i) PROVE WorkersOK'
    <2>1. seat' = seat \/ seat' = Evicted(rows[i].path) BY <1>16 DEF RouteDelete
    <2>2. UNCHANGED <<call, list, half>> BY <1>16 DEF RouteDelete
    <2> QED BY <2>1, <2>2, EvictionKeepsSeats
<1>17. ASSUME NEW i \in DOMAIN rows, Ripen(i) PROVE WorkersOK'
    BY <1>17 DEF Ripen, Spared
<1>18. ASSUME NEW c \in Callers, NEW i \in DOMAIN rows, NEW push \in BOOLEAN, Merge(c,
        i, push) PROVE WorkersOK'
    BY <1>18 DEF Merge, TableOK, Row
<1>19. ASSUME NEW stale \in SUBSET DOMAIN rows, NEW git \in BOOLEAN, Sweep(stale, git)
        PROVE WorkersOK'
    BY <1>19 DEF Sweep, ItemOf, Expired, TableOK, Row, Item
<1>20. ASSUME NEW m \in list, SweepItem(m) PROVE WorkersOK'
    <2>1. seat' = seat \/ \E p : seat' = Evicted(p) BY <1>20 DEF SweepItem, DeleteByForce
    <2>2. list' \subseteq list /\ UNCHANGED <<call, half>> BY <1>20 DEF SweepItem
    <2> QED BY <2>1, <2>2, EvictionKeepsSeats
<1>21. ASSUME NEW m \in list, NEW usable \in BOOLEAN, ReapDirectory(m, usable) PROVE
        WorkersOK'
    <2>1. seat' = Evicted(m.path) BY <1>21 DEF ReapDirectory
    <2>2. list' \subseteq list /\ half' = {m} /\ UNCHANGED call BY <1>21 DEF ReapDirectory
    <2> QED BY <2>1, <2>2, EvictionKeepsSeats
<1>22. ASSUME NEW m \in half, NEW usable \in BOOLEAN, ReapBranch(m, usable) PROVE
        WorkersOK'
    BY <1>22 DEF ReapBranch
<1>23. ASSUME NEW m \in half, ReapTimesOut(m) PROVE WorkersOK'
    BY <1>23 DEF ReapTimesOut
<1>24. ASSUME BeginReap PROVE WorkersOK'
    BY <1>24 DEF BeginReap, ItemOf, Expired, TableOK, Row, Item
<1>25. ASSUME Crash PROVE WorkersOK'
    BY <1>25 DEF Crash
<1>26. ASSUME NEW b \in Branches, SpawnRefused(b) PROVE WorkersOK'
    BY <1>26 DEF SpawnRefused
<1>27. ASSUME NEW p \in Paths, Vanish(p) PROVE WorkersOK'
    <2>1. seat' = Evicted(p) /\ UNCHANGED <<call, list, half>> BY <1>27 DEF Vanish
    <2> QED BY <2>1, EvictionKeepsSeats
<1>28. ASSUME NEW c \in Callers, NEW ok \in BOOLEAN, Push(c, ok) PROVE WorkersOK'
    BY <1>28 DEF Push
<1>29. CASE UNCHANGED vars
    BY <1>29 DEF vars
<1> HIDE DEF BranchesAreNames, BoundsAreNat, IInv, TypeOK, WorkersOK, Paths,
         NoSeat, NoCall, stores, workers
<1>30. CASE Create BY <1>30, <1>1, <1>2, <1>3, <1>4 DEF Create
<1>31. CASE Work BY <1>31, <1>5, <1>6, <1>7, <1>8, <1>9, <1>10, <1>11 DEF Work
<1>32. CASE Handle BY <1>32, <1>12, <1>13, <1>14, <1>15, <1>16, <1>17, <1>18 DEF Handle
<1>33. CASE Clean BY <1>33, <1>19, <1>20, <1>21, <1>22, <1>23, <1>24 DEF Clean
<1> QED
    BY <1>25, <1>26, <1>27, <1>28, <1>29, <1>30, <1>31, <1>32, <1>33 DEF Next

\* Each step keeps the counters and the history.
LEMMA HistoryStep ==
    ASSUME IInv, [Next]_vars
    PROVE  HistoryOK'
<1> USE BranchesAreNames, BoundsAreNat DEF BranchesAreNames, BoundsAreNat,
         IInv, Named, TypeOK, TableOK, GitOK, WorkersOK, HistoryOK, Row,
         Paths, Statuses, Reasons, Item, NoSeat, NoCall, stores, workers
<1>1. ASSUME NEW c \in Callers, NEW b \in Branches, NEW p \in Paths, NEW new \in
        BOOLEAN, NEW good \in BOOLEAN, BeginCreate(c, b, p, new, good) PROVE HistoryOK'
    BY <1>1 DEF BeginCreate, Asked, Spared, RowsOf
<1>2. ASSUME NEW c \in Callers, AddWorktree(c) PROVE HistoryOK'
    BY <1>2 DEF AddWorktree, CanAdd, Add, Spared
<1>3. ASSUME NEW c \in Callers, RecordWorktree(c) PROVE HistoryOK'
    BY <1>3 DEF RecordWorktree, Recordable, Insertable, Inserted
<1>4. ASSUME NEW c \in Callers, UndoCreate(c) PROVE HistoryOK'
    BY <1>4 DEF UndoCreate, DeleteByForce, RegWithout, Removed, Evicted, Blame, Because,
       Deletable, BranchesWithout, Spared
<1>5. ASSUME NEW a \in Agents, NEW i \in DOMAIN rows, SpawnShared(a, i) PROVE HistoryOK'
    BY <1>5 DEF SpawnShared, Asked, Spared, Because
<1>6. ASSUME NEW a \in Agents, NEW b \in Branches, SpawnFresh(a, b) PROVE HistoryOK'
    BY <1>6 DEF SpawnFresh, Asked, CanAdd, Add, Insertable, Inserted, Without, RowsOf
<1>7. ASSUME NEW a \in Agents, Prepared(a) PROVE HistoryOK'
    BY <1>7 DEF Prepared, Spared, Because
<1>8. ASSUME NEW a \in Agents, CleanUp(a) PROVE HistoryOK'
    BY <1>8 DEF CleanUp, Evicted, RegWithout, Removed, Blame, Spared
<1>9. ASSUME NEW a \in Agents, EraseRecord(a) PROVE HistoryOK'
    BY <1>9 DEF EraseRecord, Without, Spared
<1>10. ASSUME NEW a \in Agents, Commit(a) PROVE HistoryOK'
    BY <1>10 DEF Commit, Because, Spared
<1>11. ASSUME NEW a \in Agents, End(a) PROVE HistoryOK'
    BY <1>11 DEF End, Spared
<1>12. ASSUME NEW i \in DOMAIN rows, MarkMerged(i) PROVE HistoryOK'
    BY <1>12 DEF MarkMerged, Asked, Marked, MarksOf, Because, Spared
<1>13. ASSUME NEW i \in DOMAIN rows, Abandon(i) PROVE HistoryOK'
    BY <1>13 DEF Abandon, Asked, Spared
<1>14. ASSUME NEW i \in DOMAIN rows, Reactivate(i) PROVE HistoryOK'
    BY <1>14 DEF Reactivate, Asked, Spared
<1>15. ASSUME NEW i \in DOMAIN rows, NEW force \in BOOLEAN, DeleteWorktree(i, force)
        PROVE HistoryOK'
    BY <1>15 DEF DeleteWorktree, Asked, Without, RegWithout, Removed, Evicted, Blame,
       Deletable, BranchesWithout, Spared
<1>16. ASSUME NEW i \in DOMAIN rows, RouteDelete(i) PROVE HistoryOK'
    BY <1>16 DEF RouteDelete, Asked, Without, RegWithout, Removed, Evicted, Blame,
       Spared
<1>17. ASSUME NEW i \in DOMAIN rows, Ripen(i) PROVE HistoryOK'
    BY <1>17 DEF Ripen, Spared
<1>18. ASSUME NEW c \in Callers, NEW i \in DOMAIN rows, NEW push \in BOOLEAN, Merge(c,
        i, push) PROVE HistoryOK'
    BY <1>18 DEF Merge, Asked, Marked, MarksOf, Because, Spared
<1>19. ASSUME NEW stale \in SUBSET DOMAIN rows, NEW git \in BOOLEAN, Sweep(stale, git)
        PROVE HistoryOK'
    BY <1>19 DEF Sweep, Asked, ItemOf, Expired, Spared
<1>20. ASSUME NEW m \in list, SweepItem(m) PROVE HistoryOK'
    BY <1>20 DEF SweepItem, DeleteByForce, RegWithout, Removed, Evicted, Blame, Because,
       Deletable, BranchesWithout, Without, Spared
<1>21. ASSUME NEW m \in list, NEW usable \in BOOLEAN, ReapDirectory(m, usable) PROVE
        HistoryOK'
    BY <1>21 DEF ReapDirectory, Evicted, RegWithout, Removed, Blame, Spared
<1>22. ASSUME NEW m \in half, NEW usable \in BOOLEAN, ReapBranch(m, usable) PROVE
        HistoryOK'
    BY <1>22 DEF ReapBranch, Deletable, BranchesWithout, Without, Because, Spared
<1>23. ASSUME NEW m \in half, ReapTimesOut(m) PROVE HistoryOK'
    BY <1>23 DEF ReapTimesOut, Because, Spared
<1>24. ASSUME BeginReap PROVE HistoryOK'
    BY <1>24 DEF BeginReap, ItemOf, Expired, Spared
<1>25. ASSUME Crash PROVE HistoryOK'
    BY <1>25 DEF Crash, Because
<1>26. ASSUME NEW b \in Branches, SpawnRefused(b) PROVE HistoryOK'
    BY <1>26 DEF SpawnRefused, Asked, Without, RowsOf, Spared
<1>27. ASSUME NEW p \in Paths, Vanish(p) PROVE HistoryOK'
    BY <1>27 DEF Vanish, Asked, Evicted, Because, Spared
<1>28. ASSUME NEW c \in Callers, NEW ok \in BOOLEAN, Push(c, ok) PROVE HistoryOK'
    BY <1>28 DEF Push, Spared
<1>29. CASE UNCHANGED vars
    BY <1>29 DEF vars
<1> HIDE DEF BranchesAreNames, BoundsAreNat, IInv, TypeOK, TableOK, GitOK,
         WorkersOK, HistoryOK, Row, Paths, Statuses, Reasons, Item, NoSeat,
         NoCall, stores, workers
<1>30. CASE Create BY <1>30, <1>1, <1>2, <1>3, <1>4 DEF Create
<1>31. CASE Work BY <1>31, <1>5, <1>6, <1>7, <1>8, <1>9, <1>10, <1>11 DEF Work
<1>32. CASE Handle BY <1>32, <1>12, <1>13, <1>14, <1>15, <1>16, <1>17, <1>18 DEF Handle
<1>33. CASE Clean BY <1>33, <1>19, <1>20, <1>21, <1>22, <1>23, <1>24 DEF Clean
<1> QED
    BY <1>25, <1>26, <1>27, <1>28, <1>29, <1>30, <1>31, <1>32, <1>33 DEF Next

\* A call gets its names when it begins.
LEMMA NamedStep ==
    ASSUME IInv, [Next]_vars
    PROVE  Named'
<1> USE BranchesAreNames, BoundsAreNat DEF BranchesAreNames, BoundsAreNat,
         IInv, Named, TypeOK, TableOK, GitOK, WorkersOK, HistoryOK, Row,
         Paths, Statuses, Reasons, Item, NoSeat, NoCall, stores, workers
<1>1. ASSUME NEW c \in Callers, NEW b \in Branches, NEW p \in Paths, NEW new \in
        BOOLEAN, NEW good \in BOOLEAN, BeginCreate(c, b, p, new, good) PROVE Named'
    BY <1>1 DEF BeginCreate, Asked, Spared, RowsOf
<1>2. ASSUME NEW c \in Callers, AddWorktree(c) PROVE Named'
    BY <1>2 DEF AddWorktree, CanAdd, Add, Spared
<1>3. ASSUME NEW c \in Callers, RecordWorktree(c) PROVE Named'
    BY <1>3 DEF RecordWorktree, Recordable, Insertable, Inserted
<1>4. ASSUME NEW c \in Callers, UndoCreate(c) PROVE Named'
    BY <1>4 DEF UndoCreate, DeleteByForce, RegWithout, Removed, Evicted, Blame, Because,
       Deletable, BranchesWithout, Spared
<1>5. ASSUME NEW a \in Agents, NEW i \in DOMAIN rows, SpawnShared(a, i) PROVE Named'
    BY <1>5 DEF SpawnShared, Asked, Spared, Because
<1>6. ASSUME NEW a \in Agents, NEW b \in Branches, SpawnFresh(a, b) PROVE Named'
    BY <1>6 DEF SpawnFresh, Asked, CanAdd, Add, Insertable, Inserted, Without, RowsOf
<1>7. ASSUME NEW a \in Agents, Prepared(a) PROVE Named'
    BY <1>7 DEF Prepared, Spared, Because
<1>8. ASSUME NEW a \in Agents, CleanUp(a) PROVE Named'
    BY <1>8 DEF CleanUp, Evicted, RegWithout, Removed, Blame, Spared
<1>9. ASSUME NEW a \in Agents, EraseRecord(a) PROVE Named'
    BY <1>9 DEF EraseRecord, Without, Spared
<1>10. ASSUME NEW a \in Agents, Commit(a) PROVE Named'
    BY <1>10 DEF Commit, Because, Spared
<1>11. ASSUME NEW a \in Agents, End(a) PROVE Named'
    BY <1>11 DEF End, Spared
<1>12. ASSUME NEW i \in DOMAIN rows, MarkMerged(i) PROVE Named'
    BY <1>12 DEF MarkMerged, Asked, Marked, MarksOf, Because, Spared
<1>13. ASSUME NEW i \in DOMAIN rows, Abandon(i) PROVE Named'
    BY <1>13 DEF Abandon, Asked, Spared
<1>14. ASSUME NEW i \in DOMAIN rows, Reactivate(i) PROVE Named'
    BY <1>14 DEF Reactivate, Asked, Spared
<1>15. ASSUME NEW i \in DOMAIN rows, NEW force \in BOOLEAN, DeleteWorktree(i, force)
        PROVE Named'
    BY <1>15 DEF DeleteWorktree, Asked, Without, RegWithout, Removed, Evicted, Blame,
       Deletable, BranchesWithout, Spared
<1>16. ASSUME NEW i \in DOMAIN rows, RouteDelete(i) PROVE Named'
    BY <1>16 DEF RouteDelete, Asked, Without, RegWithout, Removed, Evicted, Blame,
       Spared
<1>17. ASSUME NEW i \in DOMAIN rows, Ripen(i) PROVE Named'
    BY <1>17 DEF Ripen, Spared
<1>18. ASSUME NEW c \in Callers, NEW i \in DOMAIN rows, NEW push \in BOOLEAN, Merge(c,
        i, push) PROVE Named'
    BY <1>18 DEF Merge, Asked, Marked, MarksOf, Because, Spared
<1>19. ASSUME NEW stale \in SUBSET DOMAIN rows, NEW git \in BOOLEAN, Sweep(stale, git)
        PROVE Named'
    BY <1>19 DEF Sweep, Asked, ItemOf, Expired, Spared
<1>20. ASSUME NEW m \in list, SweepItem(m) PROVE Named'
    BY <1>20 DEF SweepItem, DeleteByForce, RegWithout, Removed, Evicted, Blame, Because,
       Deletable, BranchesWithout, Without, Spared
<1>21. ASSUME NEW m \in list, NEW usable \in BOOLEAN, ReapDirectory(m, usable) PROVE
        Named'
    BY <1>21 DEF ReapDirectory, Evicted, RegWithout, Removed, Blame, Spared
<1>22. ASSUME NEW m \in half, NEW usable \in BOOLEAN, ReapBranch(m, usable) PROVE Named'
    BY <1>22 DEF ReapBranch, Deletable, BranchesWithout, Without, Because, Spared
<1>23. ASSUME NEW m \in half, ReapTimesOut(m) PROVE Named'
    BY <1>23 DEF ReapTimesOut, Because, Spared
<1>24. ASSUME BeginReap PROVE Named'
    BY <1>24 DEF BeginReap, ItemOf, Expired, Spared
<1>25. ASSUME Crash PROVE Named'
    BY <1>25 DEF Crash, Because
<1>26. ASSUME NEW b \in Branches, SpawnRefused(b) PROVE Named'
    BY <1>26 DEF SpawnRefused, Asked, Without, RowsOf, Spared
<1>27. ASSUME NEW p \in Paths, Vanish(p) PROVE Named'
    BY <1>27 DEF Vanish, Asked, Evicted, Because, Spared
<1>28. ASSUME NEW c \in Callers, NEW ok \in BOOLEAN, Push(c, ok) PROVE Named'
    BY <1>28 DEF Push, Spared
<1>29. CASE UNCHANGED vars
    BY <1>29 DEF vars
<1> HIDE DEF BranchesAreNames, BoundsAreNat, IInv, TypeOK, TableOK, GitOK,
         WorkersOK, HistoryOK, Row, Paths, Statuses, Reasons, Item, NoSeat,
         NoCall, stores, workers
<1>30. CASE Create BY <1>30, <1>1, <1>2, <1>3, <1>4 DEF Create
<1>31. CASE Work BY <1>31, <1>5, <1>6, <1>7, <1>8, <1>9, <1>10, <1>11 DEF Work
<1>32. CASE Handle BY <1>32, <1>12, <1>13, <1>14, <1>15, <1>16, <1>17, <1>18 DEF Handle
<1>33. CASE Clean BY <1>33, <1>19, <1>20, <1>21, <1>22, <1>23, <1>24 DEF Clean
<1> QED
    BY <1>25, <1>26, <1>27, <1>28, <1>29, <1>30, <1>31, <1>32, <1>33 DEF Next

\* git adds a new branch, or one that is checked out nowhere, and deletes none
\* that is.
LEMMA CheckoutsStep ==
    ASSUME IInv, [Next]_vars
    PROVE  Checkouts'
<1> USE BranchesAreNames, BoundsAreNat DEF BranchesAreNames, BoundsAreNat,
         IInv, Named, Checkouts, TypeOK, TableOK, GitOK, WorkersOK, HistoryOK,
         Row, Paths, Statuses, Reasons, Item, NoSeat, NoCall, stores, workers
<1>1. ASSUME NEW c \in Callers, NEW b \in Branches, NEW p \in Paths, NEW new \in
        BOOLEAN, NEW good \in BOOLEAN, BeginCreate(c, b, p, new, good) PROVE Checkouts'
    BY <1>1 DEF BeginCreate, Asked, Spared, RowsOf
<1>2. ASSUME NEW c \in Callers, AddWorktree(c) PROVE Checkouts'
    BY <1>2 DEF AddWorktree, CanAdd, Add, Spared
<1>3. ASSUME NEW c \in Callers, RecordWorktree(c) PROVE Checkouts'
    BY <1>3 DEF RecordWorktree, Recordable, Insertable, Inserted
<1>4. ASSUME NEW c \in Callers, UndoCreate(c) PROVE Checkouts'
    BY <1>4 DEF UndoCreate, DeleteByForce, RegWithout, Removed, Evicted, Blame, Because,
       Deletable, BranchesWithout, Spared
<1>5. ASSUME NEW a \in Agents, NEW i \in DOMAIN rows, SpawnShared(a, i) PROVE Checkouts'
    BY <1>5 DEF SpawnShared, Asked, Spared, Because
<1>6. ASSUME NEW a \in Agents, NEW b \in Branches, SpawnFresh(a, b) PROVE Checkouts'
    BY <1>6 DEF SpawnFresh, Asked, CanAdd, Add, Insertable, Inserted, Without, RowsOf
<1>7. ASSUME NEW a \in Agents, Prepared(a) PROVE Checkouts'
    BY <1>7 DEF Prepared, Spared, Because
<1>8. ASSUME NEW a \in Agents, CleanUp(a) PROVE Checkouts'
    BY <1>8 DEF CleanUp, Evicted, RegWithout, Removed, Blame, Spared
<1>9. ASSUME NEW a \in Agents, EraseRecord(a) PROVE Checkouts'
    BY <1>9 DEF EraseRecord, Without, Spared
<1>10. ASSUME NEW a \in Agents, Commit(a) PROVE Checkouts'
    BY <1>10 DEF Commit, Because, Spared
<1>11. ASSUME NEW a \in Agents, End(a) PROVE Checkouts'
    BY <1>11 DEF End, Spared
<1>12. ASSUME NEW i \in DOMAIN rows, MarkMerged(i) PROVE Checkouts'
    BY <1>12 DEF MarkMerged, Asked, Marked, MarksOf, Because, Spared
<1>13. ASSUME NEW i \in DOMAIN rows, Abandon(i) PROVE Checkouts'
    BY <1>13 DEF Abandon, Asked, Spared
<1>14. ASSUME NEW i \in DOMAIN rows, Reactivate(i) PROVE Checkouts'
    BY <1>14 DEF Reactivate, Asked, Spared
<1>15. ASSUME NEW i \in DOMAIN rows, NEW force \in BOOLEAN, DeleteWorktree(i, force)
        PROVE Checkouts'
    <2> DEFINE b == rows[i].branch
               p == rows[i].path
    <2>1. CASE p \notin disk
        <3>1. UNCHANGED <<reg, head>> BY <1>15, <2>1 DEF DeleteWorktree
        <3> QED BY <3>1
    <2>2. CASE p \in disk
        <3>1. PICK r \in RegWithout(p) :
                  reg' = r /\ BranchesWithout(IF Deletable(b, r, force) THEN {b} ELSE {})
            BY <1>15, <2>2 DEF DeleteWorktree, RegWithout
        <3>2. \A q \in Paths : r[q] # None => r[q] = reg[q] BY <3>1, RemovalForgets
        <3>3. \A q \in Paths : reg'[q] # None => reg'[q] = reg[q] /\ head'[reg[q]] # "gone"
            BY <3>1, <3>2 DEF BranchesWithout, Deletable
        <3> QED BY <3>3, FewerCheckouts
    <2> QED BY <2>1, <2>2
<1>16. ASSUME NEW i \in DOMAIN rows, RouteDelete(i) PROVE Checkouts'
    <2>1. UNCHANGED head /\ (reg' = reg \/ \E r \in RegWithout(rows[i].path) : reg' = r)
        BY <1>16 DEF RouteDelete
    <2>2. \A q \in Paths : reg'[q] # None => reg'[q] = reg[q] BY <2>1, RemovalForgets
    <2> QED BY <2>1, <2>2, FewerCheckouts
<1>17. ASSUME NEW i \in DOMAIN rows, Ripen(i) PROVE Checkouts'
    BY <1>17 DEF Ripen, Spared
<1>18. ASSUME NEW c \in Callers, NEW i \in DOMAIN rows, NEW push \in BOOLEAN, Merge(c,
        i, push) PROVE Checkouts'
    BY <1>18 DEF Merge, Asked, Marked, MarksOf, Because, Spared
<1>19. ASSUME NEW stale \in SUBSET DOMAIN rows, NEW git \in BOOLEAN, Sweep(stale, git)
        PROVE Checkouts'
    BY <1>19 DEF Sweep, Asked, ItemOf, Expired, Spared
<1>20. ASSUME NEW m \in list, SweepItem(m) PROVE Checkouts'
    BY <1>20 DEF SweepItem, DeleteByForce, RegWithout, Removed, Evicted, Blame, Because,
       Deletable, BranchesWithout, Without, Spared
<1>21. ASSUME NEW m \in list, NEW usable \in BOOLEAN, ReapDirectory(m, usable) PROVE
        Checkouts'
    BY <1>21 DEF ReapDirectory, Evicted, RegWithout, Removed, Blame, Spared
<1>22. ASSUME NEW m \in half, NEW usable \in BOOLEAN, ReapBranch(m, usable) PROVE
        Checkouts'
    BY <1>22 DEF ReapBranch, Deletable, BranchesWithout, Without, Because, Spared
<1>23. ASSUME NEW m \in half, ReapTimesOut(m) PROVE Checkouts'
    BY <1>23 DEF ReapTimesOut, Because, Spared
<1>24. ASSUME BeginReap PROVE Checkouts'
    BY <1>24 DEF BeginReap, ItemOf, Expired, Spared
<1>25. ASSUME Crash PROVE Checkouts'
    BY <1>25 DEF Crash, Because
<1>26. ASSUME NEW b \in Branches, SpawnRefused(b) PROVE Checkouts'
    BY <1>26 DEF SpawnRefused, Asked, Without, RowsOf, Spared
<1>27. ASSUME NEW p \in Paths, Vanish(p) PROVE Checkouts'
    BY <1>27 DEF Vanish, Asked, Evicted, Because, Spared
<1>28. ASSUME NEW c \in Callers, NEW ok \in BOOLEAN, Push(c, ok) PROVE Checkouts'
    BY <1>28 DEF Push, Spared
<1>29. CASE UNCHANGED vars
    BY <1>29 DEF vars
<1> HIDE DEF BranchesAreNames, BoundsAreNat, IInv, TypeOK, TableOK, GitOK,
         WorkersOK, HistoryOK, Row, Paths, Statuses, Reasons, Item, NoSeat,
         NoCall, stores, workers
<1>30. CASE Create BY <1>30, <1>1, <1>2, <1>3, <1>4 DEF Create
<1>31. CASE Work BY <1>31, <1>5, <1>6, <1>7, <1>8, <1>9, <1>10, <1>11 DEF Work
<1>32. CASE Handle BY <1>32, <1>12, <1>13, <1>14, <1>15, <1>16, <1>17, <1>18 DEF Handle
<1>33. CASE Clean BY <1>33, <1>19, <1>20, <1>21, <1>22, <1>23, <1>24 DEF Clean
<1> QED
    BY <1>25, <1>26, <1>27, <1>28, <1>29, <1>30, <1>31, <1>32, <1>33 DEF Next

\* Marks and commits note what is not pushed.
LEMMA MergedStep ==
    ASSUME IInv, [Next]_vars
    PROVE  MergedIsMarked'
<1> USE BranchesAreNames, BoundsAreNat DEF BranchesAreNames, BoundsAreNat,
         IInv, Named, MergedIsMarked, TypeOK, TableOK, GitOK, WorkersOK,
         HistoryOK, Row, Paths, Statuses, Reasons, Item, NoSeat, NoCall,
         stores, workers
<1>1. ASSUME NEW c \in Callers, NEW b \in Branches, NEW p \in Paths, NEW new \in
        BOOLEAN, NEW good \in BOOLEAN, BeginCreate(c, b, p, new, good) PROVE
        MergedIsMarked'
    BY <1>1 DEF BeginCreate, Asked, Spared, RowsOf
<1>2. ASSUME NEW c \in Callers, AddWorktree(c) PROVE MergedIsMarked'
    BY <1>2 DEF AddWorktree, CanAdd, Add, Spared
<1>3. ASSUME NEW c \in Callers, RecordWorktree(c) PROVE MergedIsMarked'
    BY <1>3 DEF RecordWorktree, Recordable, Insertable, Inserted
<1>4. ASSUME NEW c \in Callers, UndoCreate(c) PROVE MergedIsMarked'
    BY <1>4 DEF UndoCreate, DeleteByForce, RegWithout, Removed, Evicted, Blame, Because,
       Deletable, BranchesWithout, Spared
<1>5. ASSUME NEW a \in Agents, NEW i \in DOMAIN rows, SpawnShared(a, i) PROVE
        MergedIsMarked'
    BY <1>5 DEF SpawnShared, Asked, Spared, Because
<1>6. ASSUME NEW a \in Agents, NEW b \in Branches, SpawnFresh(a, b) PROVE
        MergedIsMarked'
    <2> DEFINE kept == Without(RowsOf(b))
    <2>1. head'[b] # "ahead" /\ \A d \in Branches \ {b} : head'[d] = head[d] /\ why'[d] = why[d]
        BY <1>6 DEF SpawnFresh, Add
    <2>2. \A j \in DOMAIN kept : kept[j] = rows[j] /\ j \in DOMAIN rows BY DEF Without
    <2>3. rows' = kept \/ rows' = Inserted(kept, b, b) BY <1>6 DEF SpawnFresh
    <2>4. \A j \in DOMAIN rows' : (j \in DOMAIN kept /\ rows'[j] = kept[j]) \/ rows'[j].status = "active"
        <3> HIDE DEF kept
        <3> QED BY <2>3 DEF Inserted
    <2> HIDE DEF kept
    <2> QED BY <2>1, <2>2, <2>4
<1>7. ASSUME NEW a \in Agents, Prepared(a) PROVE MergedIsMarked'
    BY <1>7 DEF Prepared, Spared, Because
<1>8. ASSUME NEW a \in Agents, CleanUp(a) PROVE MergedIsMarked'
    BY <1>8 DEF CleanUp, Evicted, RegWithout, Removed, Blame, Spared
<1>9. ASSUME NEW a \in Agents, EraseRecord(a) PROVE MergedIsMarked'
    BY <1>9 DEF EraseRecord, Without, Spared
<1>10. ASSUME NEW a \in Agents, Commit(a) PROVE MergedIsMarked'
    <2> DEFINE b == seat[a].branch
    <2>1. /\ head' = [head EXCEPT ![b] = "ahead"] /\ UNCHANGED rows
          /\ \A d \in Branches : why[d] \subseteq why'[d]
        BY <1>10 DEF Commit, Because
    <2>2. ASSUME NEW i \in DOMAIN rows, rows[i].status = "merged", rows[i].branch = b
          PROVE  "unpushed" \in why'[b]
        BY <1>10, <2>2 DEF Commit, Because, RowsOf
    <2> HIDE DEF b
    <2> QED BY <2>1, <2>2
<1>11. ASSUME NEW a \in Agents, End(a) PROVE MergedIsMarked'
    BY <1>11 DEF End, Spared
<1>12. ASSUME NEW i \in DOMAIN rows, MarkMerged(i) PROVE MergedIsMarked'
    BY <1>12 DEF MarkMerged, Asked, Marked, MarksOf, Because, Spared
<1>13. ASSUME NEW i \in DOMAIN rows, Abandon(i) PROVE MergedIsMarked'
    BY <1>13 DEF Abandon, Asked, Spared
<1>14. ASSUME NEW i \in DOMAIN rows, Reactivate(i) PROVE MergedIsMarked'
    BY <1>14 DEF Reactivate, Asked, Spared
<1>15. ASSUME NEW i \in DOMAIN rows, NEW force \in BOOLEAN, DeleteWorktree(i, force)
        PROVE MergedIsMarked'
    BY <1>15 DEF DeleteWorktree, Asked, Without, RegWithout, Removed, Evicted, Blame,
       Deletable, BranchesWithout, Spared
<1>16. ASSUME NEW i \in DOMAIN rows, RouteDelete(i) PROVE MergedIsMarked'
    BY <1>16 DEF RouteDelete, Asked, Without, RegWithout, Removed, Evicted, Blame,
       Spared
<1>17. ASSUME NEW i \in DOMAIN rows, Ripen(i) PROVE MergedIsMarked'
    BY <1>17 DEF Ripen, Spared
<1>18. ASSUME NEW c \in Callers, NEW i \in DOMAIN rows, NEW push \in BOOLEAN, Merge(c,
        i, push) PROVE MergedIsMarked'
    BY <1>18 DEF Merge, Asked, Marked, MarksOf, Because, Spared
<1>19. ASSUME NEW stale \in SUBSET DOMAIN rows, NEW git \in BOOLEAN, Sweep(stale, git)
        PROVE MergedIsMarked'
    BY <1>19 DEF Sweep, Asked, ItemOf, Expired, Spared
<1>20. ASSUME NEW m \in list, SweepItem(m) PROVE MergedIsMarked'
    <2>1. \A d \in Branches : why[d] \subseteq why'[d] /\ (head'[d] # "gone" => head'[d] = head[d])
        BY <1>20, ForcedDeletion DEF SweepItem
    <2>2. \A j \in DOMAIN rows' : j \in DOMAIN rows /\ rows'[j] = rows[j] BY <1>20 DEF SweepItem, Without
    <2> QED BY <2>1, <2>2
<1>21. ASSUME NEW m \in list, NEW usable \in BOOLEAN, ReapDirectory(m, usable) PROVE
        MergedIsMarked'
    BY <1>21 DEF ReapDirectory, Evicted, RegWithout, Removed, Blame, Spared
<1>22. ASSUME NEW m \in half, NEW usable \in BOOLEAN, ReapBranch(m, usable) PROVE
        MergedIsMarked'
    BY <1>22 DEF ReapBranch, Deletable, BranchesWithout, Without, Because, Spared
<1>23. ASSUME NEW m \in half, ReapTimesOut(m) PROVE MergedIsMarked'
    BY <1>23 DEF ReapTimesOut, Because, Spared
<1>24. ASSUME BeginReap PROVE MergedIsMarked'
    BY <1>24 DEF BeginReap, ItemOf, Expired, Spared
<1>25. ASSUME Crash PROVE MergedIsMarked'
    BY <1>25 DEF Crash, Because
<1>26. ASSUME NEW b \in Branches, SpawnRefused(b) PROVE MergedIsMarked'
    BY <1>26 DEF SpawnRefused, Asked, Without, RowsOf, Spared
<1>27. ASSUME NEW p \in Paths, Vanish(p) PROVE MergedIsMarked'
    BY <1>27 DEF Vanish, Asked, Evicted, Because, Spared
<1>28. ASSUME NEW c \in Callers, NEW ok \in BOOLEAN, Push(c, ok) PROVE MergedIsMarked'
    BY <1>28 DEF Push, Spared
<1>29. CASE UNCHANGED vars
    BY <1>29 DEF vars
<1> HIDE DEF BranchesAreNames, BoundsAreNat, IInv, TypeOK, TableOK, GitOK,
         WorkersOK, HistoryOK, Row, Paths, Statuses, Reasons, Item, NoSeat,
         NoCall, stores, workers
<1>30. CASE Create BY <1>30, <1>1, <1>2, <1>3, <1>4 DEF Create
<1>31. CASE Work BY <1>31, <1>5, <1>6, <1>7, <1>8, <1>9, <1>10, <1>11 DEF Work
<1>32. CASE Handle BY <1>32, <1>12, <1>13, <1>14, <1>15, <1>16, <1>17, <1>18 DEF Handle
<1>33. CASE Clean BY <1>33, <1>19, <1>20, <1>21, <1>22, <1>23, <1>24 DEF Clean
<1> QED
    BY <1>25, <1>26, <1>27, <1>28, <1>29, <1>30, <1>31, <1>32, <1>33 DEF Next

\* Items come from merged records; commits and new branches note that they are
\* listed.
LEMMA ItemsStep ==
    ASSUME IInv, [Next]_vars
    PROVE  ItemsAreMarked'
<1> USE BranchesAreNames, BoundsAreNat DEF BranchesAreNames, BoundsAreNat,
         IInv, Named, MergedIsMarked, ItemsAreMarked, TypeOK, TableOK, GitOK,
         WorkersOK, HistoryOK, Row, Paths, Statuses, Reasons, Item, NoSeat,
         NoCall, stores, workers
<1>1. ASSUME NEW c \in Callers, NEW b \in Branches, NEW p \in Paths, NEW new \in
        BOOLEAN, NEW good \in BOOLEAN, BeginCreate(c, b, p, new, good) PROVE
        ItemsAreMarked'
    BY <1>1 DEF BeginCreate, Asked, Spared, RowsOf
<1>2. ASSUME NEW c \in Callers, AddWorktree(c) PROVE ItemsAreMarked'
    BY <1>2 DEF AddWorktree, CanAdd, Add, Spared
<1>3. ASSUME NEW c \in Callers, RecordWorktree(c) PROVE ItemsAreMarked'
    BY <1>3 DEF RecordWorktree, Recordable, Insertable, Inserted
<1>4. ASSUME NEW c \in Callers, UndoCreate(c) PROVE ItemsAreMarked'
    BY <1>4 DEF UndoCreate, DeleteByForce, RegWithout, Removed, Evicted, Blame, Because,
       Deletable, BranchesWithout, Spared
<1>5. ASSUME NEW a \in Agents, NEW i \in DOMAIN rows, SpawnShared(a, i) PROVE
        ItemsAreMarked'
    BY <1>5 DEF SpawnShared, Asked, Spared, Because
<1>6. ASSUME NEW a \in Agents, NEW b \in Branches, SpawnFresh(a, b) PROVE
        ItemsAreMarked'
    BY <1>6 DEF SpawnFresh, Asked, CanAdd, Add, Insertable, Inserted, Without, RowsOf
<1>7. ASSUME NEW a \in Agents, Prepared(a) PROVE ItemsAreMarked'
    BY <1>7 DEF Prepared, Spared, Because
<1>8. ASSUME NEW a \in Agents, CleanUp(a) PROVE ItemsAreMarked'
    BY <1>8 DEF CleanUp, Evicted, RegWithout, Removed, Blame, Spared
<1>9. ASSUME NEW a \in Agents, EraseRecord(a) PROVE ItemsAreMarked'
    BY <1>9 DEF EraseRecord, Without, Spared
<1>10. ASSUME NEW a \in Agents, Commit(a) PROVE ItemsAreMarked'
    BY <1>10 DEF Commit, Because, Spared, Condemned
<1>11. ASSUME NEW a \in Agents, End(a) PROVE ItemsAreMarked'
    BY <1>11 DEF End, Spared
<1>12. ASSUME NEW i \in DOMAIN rows, MarkMerged(i) PROVE ItemsAreMarked'
    BY <1>12 DEF MarkMerged, Asked, Marked, MarksOf, Because, Spared
<1>13. ASSUME NEW i \in DOMAIN rows, Abandon(i) PROVE ItemsAreMarked'
    BY <1>13 DEF Abandon, Asked, Spared
<1>14. ASSUME NEW i \in DOMAIN rows, Reactivate(i) PROVE ItemsAreMarked'
    BY <1>14 DEF Reactivate, Asked, Spared
<1>15. ASSUME NEW i \in DOMAIN rows, NEW force \in BOOLEAN, DeleteWorktree(i, force)
        PROVE ItemsAreMarked'
    BY <1>15 DEF DeleteWorktree, Asked, Without, RegWithout, Removed, Evicted, Blame,
       Deletable, BranchesWithout, Spared
<1>16. ASSUME NEW i \in DOMAIN rows, RouteDelete(i) PROVE ItemsAreMarked'
    BY <1>16 DEF RouteDelete, Asked, Without, RegWithout, Removed, Evicted, Blame,
       Spared
<1>17. ASSUME NEW i \in DOMAIN rows, Ripen(i) PROVE ItemsAreMarked'
    BY <1>17 DEF Ripen, Spared
<1>18. ASSUME NEW c \in Callers, NEW i \in DOMAIN rows, NEW push \in BOOLEAN, Merge(c,
        i, push) PROVE ItemsAreMarked'
    BY <1>18 DEF Merge, Asked, Marked, MarksOf, Because, Spared
<1>19. ASSUME NEW stale \in SUBSET DOMAIN rows, NEW git \in BOOLEAN, Sweep(stale, git)
        PROVE ItemsAreMarked'
    BY <1>19 DEF Sweep, Asked, ItemOf, Expired, Spared
<1>20. ASSUME NEW m \in list, SweepItem(m) PROVE ItemsAreMarked'
    <2>1. \A d \in Branches : why[d] \subseteq why'[d] /\ (head'[d] # "gone" => head'[d] = head[d])
        BY <1>20, ForcedDeletion DEF SweepItem
    <2>2. list' \subseteq list /\ UNCHANGED half BY <1>20 DEF SweepItem
    <2> QED BY <2>1, <2>2
<1>21. ASSUME NEW m \in list, NEW usable \in BOOLEAN, ReapDirectory(m, usable) PROVE
        ItemsAreMarked'
    BY <1>21 DEF ReapDirectory, Evicted, RegWithout, Removed, Blame, Spared
<1>22. ASSUME NEW m \in half, NEW usable \in BOOLEAN, ReapBranch(m, usable) PROVE
        ItemsAreMarked'
    <2>1. UNCHANGED list /\ half' = {} BY <1>22 DEF ReapBranch
    <2>2. \A d \in Branches : why[d] \subseteq why'[d] BY <1>22 DEF ReapBranch, Because
    <2>3. \A d \in Branches : head'[d] # "gone" => head'[d] = head[d]
        BY <1>22 DEF ReapBranch, BranchesWithout
    <2> QED BY <2>1, <2>2, <2>3
<1>23. ASSUME NEW m \in half, ReapTimesOut(m) PROVE ItemsAreMarked'
    BY <1>23 DEF ReapTimesOut, Because, Spared
<1>24. ASSUME BeginReap PROVE ItemsAreMarked'
    BY <1>24 DEF BeginReap, ItemOf, Expired, Spared
<1>25. ASSUME Crash PROVE ItemsAreMarked'
    BY <1>25 DEF Crash, Because
<1>26. ASSUME NEW b \in Branches, SpawnRefused(b) PROVE ItemsAreMarked'
    BY <1>26 DEF SpawnRefused, Asked, Without, RowsOf, Spared
<1>27. ASSUME NEW p \in Paths, Vanish(p) PROVE ItemsAreMarked'
    BY <1>27 DEF Vanish, Asked, Evicted, Because, Spared
<1>28. ASSUME NEW c \in Callers, NEW ok \in BOOLEAN, Push(c, ok) PROVE ItemsAreMarked'
    BY <1>28 DEF Push, Spared
<1>29. CASE UNCHANGED vars
    BY <1>29 DEF vars
<1> HIDE DEF BranchesAreNames, BoundsAreNat, IInv, ItemsAreMarked, TypeOK,
         TableOK, GitOK, WorkersOK, HistoryOK, Row, Paths, Statuses, Reasons,
         Item, NoSeat, NoCall, stores, workers
<1>30. CASE Create BY <1>30, <1>1, <1>2, <1>3, <1>4 DEF Create
<1>31. CASE Work BY <1>31, <1>5, <1>6, <1>7, <1>8, <1>9, <1>10, <1>11 DEF Work
<1>32. CASE Handle BY <1>32, <1>12, <1>13, <1>14, <1>15, <1>16, <1>17, <1>18 DEF Handle
<1>33. CASE Clean BY <1>33, <1>19, <1>20, <1>21, <1>22, <1>23, <1>24 DEF Clean
<1> QED
    BY <1>25, <1>26, <1>27, <1>28, <1>29, <1>30, <1>31, <1>32, <1>33 DEF Next

\* A commit on the branch of a call that may be undone notes it.
LEMMA UndoStep ==
    ASSUME IInv, [Next]_vars
    PROVE  UndoIsMarked'
<1> USE BranchesAreNames, BoundsAreNat DEF BranchesAreNames, BoundsAreNat,
         IInv, Named, UndoIsMarked, TypeOK, TableOK, GitOK, WorkersOK,
         HistoryOK, Row, Paths, Statuses, Reasons, Item, NoSeat, NoCall,
         stores, workers
<1>1. ASSUME NEW c \in Callers, NEW b \in Branches, NEW p \in Paths, NEW new \in
        BOOLEAN, NEW good \in BOOLEAN, BeginCreate(c, b, p, new, good) PROVE
        UndoIsMarked'
    BY <1>1 DEF BeginCreate, Asked, Spared, RowsOf
<1>2. ASSUME NEW c \in Callers, AddWorktree(c) PROVE UndoIsMarked'
    BY <1>2 DEF AddWorktree, CanAdd, Add, Spared
<1>3. ASSUME NEW c \in Callers, RecordWorktree(c) PROVE UndoIsMarked'
    BY <1>3 DEF RecordWorktree, Recordable, Insertable, Inserted
<1>4. ASSUME NEW c \in Callers, UndoCreate(c) PROVE UndoIsMarked'
    BY <1>4 DEF UndoCreate, DeleteByForce, RegWithout, Removed, Evicted, Blame, Because,
       Deletable, BranchesWithout, Spared
<1>5. ASSUME NEW a \in Agents, NEW i \in DOMAIN rows, SpawnShared(a, i) PROVE
        UndoIsMarked'
    BY <1>5 DEF SpawnShared, Asked, Spared, Because
<1>6. ASSUME NEW a \in Agents, NEW b \in Branches, SpawnFresh(a, b) PROVE UndoIsMarked'
    BY <1>6 DEF SpawnFresh, Asked, CanAdd, Add, Insertable, Inserted, Without, RowsOf
<1>7. ASSUME NEW a \in Agents, Prepared(a) PROVE UndoIsMarked'
    BY <1>7 DEF Prepared, Spared, Because
<1>8. ASSUME NEW a \in Agents, CleanUp(a) PROVE UndoIsMarked'
    BY <1>8 DEF CleanUp, Evicted, RegWithout, Removed, Blame, Spared
<1>9. ASSUME NEW a \in Agents, EraseRecord(a) PROVE UndoIsMarked'
    BY <1>9 DEF EraseRecord, Without, Spared
<1>10. ASSUME NEW a \in Agents, Commit(a) PROVE UndoIsMarked'
    BY <1>10 DEF Commit, Because, Spared, Condemned
<1>11. ASSUME NEW a \in Agents, End(a) PROVE UndoIsMarked'
    BY <1>11 DEF End, Spared
<1>12. ASSUME NEW i \in DOMAIN rows, MarkMerged(i) PROVE UndoIsMarked'
    BY <1>12 DEF MarkMerged, Asked, Marked, MarksOf, Because, Spared
<1>13. ASSUME NEW i \in DOMAIN rows, Abandon(i) PROVE UndoIsMarked'
    BY <1>13 DEF Abandon, Asked, Spared
<1>14. ASSUME NEW i \in DOMAIN rows, Reactivate(i) PROVE UndoIsMarked'
    BY <1>14 DEF Reactivate, Asked, Spared
<1>15. ASSUME NEW i \in DOMAIN rows, NEW force \in BOOLEAN, DeleteWorktree(i, force)
        PROVE UndoIsMarked'
    BY <1>15 DEF DeleteWorktree, Asked, Without, RegWithout, Removed, Evicted, Blame,
       Deletable, BranchesWithout, Spared
<1>16. ASSUME NEW i \in DOMAIN rows, RouteDelete(i) PROVE UndoIsMarked'
    BY <1>16 DEF RouteDelete, Asked, Without, RegWithout, Removed, Evicted, Blame,
       Spared
<1>17. ASSUME NEW i \in DOMAIN rows, Ripen(i) PROVE UndoIsMarked'
    BY <1>17 DEF Ripen, Spared
<1>18. ASSUME NEW c \in Callers, NEW i \in DOMAIN rows, NEW push \in BOOLEAN, Merge(c,
        i, push) PROVE UndoIsMarked'
    BY <1>18 DEF Merge, Asked, Marked, MarksOf, Because, Spared
<1>19. ASSUME NEW stale \in SUBSET DOMAIN rows, NEW git \in BOOLEAN, Sweep(stale, git)
        PROVE UndoIsMarked'
    BY <1>19 DEF Sweep, Asked, ItemOf, Expired, Spared
<1>20. ASSUME NEW m \in list, SweepItem(m) PROVE UndoIsMarked'
    BY <1>20 DEF SweepItem, DeleteByForce, RegWithout, Removed, Evicted, Blame, Because,
       Deletable, BranchesWithout, Without, Spared
<1>21. ASSUME NEW m \in list, NEW usable \in BOOLEAN, ReapDirectory(m, usable) PROVE
        UndoIsMarked'
    BY <1>21 DEF ReapDirectory, Evicted, RegWithout, Removed, Blame, Spared
<1>22. ASSUME NEW m \in half, NEW usable \in BOOLEAN, ReapBranch(m, usable) PROVE
        UndoIsMarked'
    BY <1>22 DEF ReapBranch, Deletable, BranchesWithout, Without, Because, Spared
<1>23. ASSUME NEW m \in half, ReapTimesOut(m) PROVE UndoIsMarked'
    BY <1>23 DEF ReapTimesOut, Because, Spared
<1>24. ASSUME BeginReap PROVE UndoIsMarked'
    BY <1>24 DEF BeginReap, ItemOf, Expired, Spared
<1>25. ASSUME Crash PROVE UndoIsMarked'
    BY <1>25 DEF Crash, Because
<1>26. ASSUME NEW b \in Branches, SpawnRefused(b) PROVE UndoIsMarked'
    BY <1>26 DEF SpawnRefused, Asked, Without, RowsOf, Spared
<1>27. ASSUME NEW p \in Paths, Vanish(p) PROVE UndoIsMarked'
    BY <1>27 DEF Vanish, Asked, Evicted, Because, Spared
<1>28. ASSUME NEW c \in Callers, NEW ok \in BOOLEAN, Push(c, ok) PROVE UndoIsMarked'
    BY <1>28 DEF Push, Spared
<1>29. CASE UNCHANGED vars
    BY <1>29 DEF vars
<1> HIDE DEF BranchesAreNames, BoundsAreNat, IInv, UndoIsMarked, TypeOK,
         TableOK, GitOK, WorkersOK, HistoryOK, Row, Paths, Statuses, Reasons,
         Item, NoSeat, NoCall, stores, workers
<1>30. CASE Create BY <1>30, <1>1, <1>2, <1>3, <1>4 DEF Create
<1>31. CASE Work BY <1>31, <1>5, <1>6, <1>7, <1>8, <1>9, <1>10, <1>11 DEF Work
<1>32. CASE Handle BY <1>32, <1>12, <1>13, <1>14, <1>15, <1>16, <1>17, <1>18 DEF Handle
<1>33. CASE Clean BY <1>33, <1>19, <1>20, <1>21, <1>22, <1>23, <1>24 DEF Clean
<1> QED
    BY <1>25, <1>26, <1>27, <1>28, <1>29, <1>30, <1>31, <1>32, <1>33 DEF Next

\* Only the creation of a branch brings it back.
LEMMA GoneStep ==
    ASSUME IInv, [Next]_vars
    PROVE  LostIsGone'
<1> USE BranchesAreNames, BoundsAreNat DEF BranchesAreNames, BoundsAreNat,
         IInv, Named, Checkouts, LostIsGone, TypeOK, TableOK, GitOK,
         WorkersOK, HistoryOK, Row, Paths, Statuses, Reasons, Item, NoSeat,
         NoCall, stores, workers
<1>1. ASSUME NEW c \in Callers, NEW b \in Branches, NEW p \in Paths, NEW new \in
        BOOLEAN, NEW good \in BOOLEAN, BeginCreate(c, b, p, new, good) PROVE LostIsGone'
    BY <1>1 DEF BeginCreate, Asked, Spared, RowsOf
<1>2. ASSUME NEW c \in Callers, AddWorktree(c) PROVE LostIsGone'
    BY <1>2 DEF AddWorktree, CanAdd, Add, Spared
<1>3. ASSUME NEW c \in Callers, RecordWorktree(c) PROVE LostIsGone'
    BY <1>3 DEF RecordWorktree, Recordable, Insertable, Inserted
<1>4. ASSUME NEW c \in Callers, UndoCreate(c) PROVE LostIsGone'
    BY <1>4 DEF UndoCreate, DeleteByForce, RegWithout, Removed, Evicted, Blame, Because,
       Deletable, BranchesWithout, Spared
<1>5. ASSUME NEW a \in Agents, NEW i \in DOMAIN rows, SpawnShared(a, i) PROVE
        LostIsGone'
    BY <1>5 DEF SpawnShared, Asked, Spared, Because
<1>6. ASSUME NEW a \in Agents, NEW b \in Branches, SpawnFresh(a, b) PROVE LostIsGone'
    BY <1>6 DEF SpawnFresh, Asked, CanAdd, Add, Insertable, Inserted, Without, RowsOf
<1>7. ASSUME NEW a \in Agents, Prepared(a) PROVE LostIsGone'
    BY <1>7 DEF Prepared, Spared, Because
<1>8. ASSUME NEW a \in Agents, CleanUp(a) PROVE LostIsGone'
    BY <1>8 DEF CleanUp, Evicted, RegWithout, Removed, Blame, Spared
<1>9. ASSUME NEW a \in Agents, EraseRecord(a) PROVE LostIsGone'
    BY <1>9 DEF EraseRecord, Without, Spared
<1>10. ASSUME NEW a \in Agents, Commit(a) PROVE LostIsGone'
    BY <1>10 DEF Commit, Because, Spared
<1>11. ASSUME NEW a \in Agents, End(a) PROVE LostIsGone'
    BY <1>11 DEF End, Spared
<1>12. ASSUME NEW i \in DOMAIN rows, MarkMerged(i) PROVE LostIsGone'
    BY <1>12 DEF MarkMerged, Asked, Marked, MarksOf, Because, Spared
<1>13. ASSUME NEW i \in DOMAIN rows, Abandon(i) PROVE LostIsGone'
    BY <1>13 DEF Abandon, Asked, Spared
<1>14. ASSUME NEW i \in DOMAIN rows, Reactivate(i) PROVE LostIsGone'
    BY <1>14 DEF Reactivate, Asked, Spared
<1>15. ASSUME NEW i \in DOMAIN rows, NEW force \in BOOLEAN, DeleteWorktree(i, force)
        PROVE LostIsGone'
    BY <1>15 DEF DeleteWorktree, Asked, Without, RegWithout, Removed, Evicted, Blame,
       Deletable, BranchesWithout, Spared
<1>16. ASSUME NEW i \in DOMAIN rows, RouteDelete(i) PROVE LostIsGone'
    BY <1>16 DEF RouteDelete, Asked, Without, RegWithout, Removed, Evicted, Blame,
       Spared
<1>17. ASSUME NEW i \in DOMAIN rows, Ripen(i) PROVE LostIsGone'
    BY <1>17 DEF Ripen, Spared
<1>18. ASSUME NEW c \in Callers, NEW i \in DOMAIN rows, NEW push \in BOOLEAN, Merge(c,
        i, push) PROVE LostIsGone'
    BY <1>18 DEF Merge, Asked, Marked, MarksOf, Because, Spared
<1>19. ASSUME NEW stale \in SUBSET DOMAIN rows, NEW git \in BOOLEAN, Sweep(stale, git)
        PROVE LostIsGone'
    BY <1>19 DEF Sweep, Asked, ItemOf, Expired, Spared
<1>20. ASSUME NEW m \in list, SweepItem(m) PROVE LostIsGone'
    BY <1>20 DEF SweepItem, DeleteByForce, RegWithout, Removed, Evicted, Blame, Because,
       Deletable, BranchesWithout, Without, Spared
<1>21. ASSUME NEW m \in list, NEW usable \in BOOLEAN, ReapDirectory(m, usable) PROVE
        LostIsGone'
    BY <1>21 DEF ReapDirectory, Evicted, RegWithout, Removed, Blame, Spared
<1>22. ASSUME NEW m \in half, NEW usable \in BOOLEAN, ReapBranch(m, usable) PROVE
        LostIsGone'
    BY <1>22 DEF ReapBranch, Deletable, BranchesWithout, Without, Because, Spared
<1>23. ASSUME NEW m \in half, ReapTimesOut(m) PROVE LostIsGone'
    BY <1>23 DEF ReapTimesOut, Because, Spared
<1>24. ASSUME BeginReap PROVE LostIsGone'
    BY <1>24 DEF BeginReap, ItemOf, Expired, Spared
<1>25. ASSUME Crash PROVE LostIsGone'
    BY <1>25 DEF Crash, Because
<1>26. ASSUME NEW b \in Branches, SpawnRefused(b) PROVE LostIsGone'
    BY <1>26 DEF SpawnRefused, Asked, Without, RowsOf, Spared
<1>27. ASSUME NEW p \in Paths, Vanish(p) PROVE LostIsGone'
    BY <1>27 DEF Vanish, Asked, Evicted, Because, Spared
<1>28. ASSUME NEW c \in Callers, NEW ok \in BOOLEAN, Push(c, ok) PROVE LostIsGone'
    BY <1>28 DEF Push, Spared
<1>29. CASE UNCHANGED vars
    BY <1>29 DEF vars
<1> HIDE DEF BranchesAreNames, BoundsAreNat, IInv, LostIsGone, TypeOK,
         TableOK, GitOK, WorkersOK, HistoryOK, Row, Paths, Statuses, Reasons,
         Item, NoSeat, NoCall, stores, workers
<1>30. CASE Create BY <1>30, <1>1, <1>2, <1>3, <1>4 DEF Create
<1>31. CASE Work BY <1>31, <1>5, <1>6, <1>7, <1>8, <1>9, <1>10, <1>11 DEF Work
<1>32. CASE Handle BY <1>32, <1>12, <1>13, <1>14, <1>15, <1>16, <1>17, <1>18 DEF Handle
<1>33. CASE Clean BY <1>33, <1>19, <1>20, <1>21, <1>22, <1>23, <1>24 DEF Clean
<1> QED
    BY <1>25, <1>26, <1>27, <1>28, <1>29, <1>30, <1>31, <1>32, <1>33 DEF Next

\* Each deletion of a branch has its cause.
LEMMA LostStep ==
    ASSUME IInv, [Next]_vars
    PROVE  LostWorkHasACause'
<1> USE BranchesAreNames, BoundsAreNat DEF BranchesAreNames, BoundsAreNat,
         IInv, Named, ItemsAreMarked, UndoIsMarked, LostIsGone,
         LostWorkHasACause, TypeOK, TableOK, GitOK, WorkersOK, HistoryOK, Row,
         Paths, Statuses, Reasons, Item, NoSeat, NoCall, stores, workers
<1>1. ASSUME NEW c \in Callers, NEW b \in Branches, NEW p \in Paths, NEW new \in
        BOOLEAN, NEW good \in BOOLEAN, BeginCreate(c, b, p, new, good) PROVE
        LostWorkHasACause'
    BY <1>1 DEF BeginCreate, Asked, Spared, RowsOf
<1>2. ASSUME NEW c \in Callers, AddWorktree(c) PROVE LostWorkHasACause'
    BY <1>2 DEF AddWorktree, CanAdd, Add, Spared
<1>3. ASSUME NEW c \in Callers, RecordWorktree(c) PROVE LostWorkHasACause'
    BY <1>3 DEF RecordWorktree, Recordable, Insertable, Inserted
<1>4. ASSUME NEW c \in Callers, UndoCreate(c) PROVE LostWorkHasACause'
    <2> DEFINE b == call[c].branch
               rs == IF call[c].new THEN {} ELSE {"borrowed"}
    <2>1. \A d \in Branches :
              /\ why[d] \subseteq why'[d]
              /\ d \in lost' => (d \in lost \/ (d = b /\ head[d] = "ahead" /\ rs \subseteq why'[d]))
        BY <1>4, ForcedDeletion DEF UndoCreate
    <2>2. head[b] = "ahead" /\ call[c].new => "listed" \in why[b] BY <1>4 DEF UndoCreate
    <2>3. lost' \subseteq Branches BY HistoryStep DEF HistoryOK
    <2> QED BY <2>1, <2>2, <2>3
<1>5. ASSUME NEW a \in Agents, NEW i \in DOMAIN rows, SpawnShared(a, i) PROVE
        LostWorkHasACause'
    BY <1>5 DEF SpawnShared, Asked, Spared, Because
<1>6. ASSUME NEW a \in Agents, NEW b \in Branches, SpawnFresh(a, b) PROVE
        LostWorkHasACause'
    BY <1>6 DEF SpawnFresh, Asked, CanAdd, Add, Insertable, Inserted, Without, RowsOf
<1>7. ASSUME NEW a \in Agents, Prepared(a) PROVE LostWorkHasACause'
    BY <1>7 DEF Prepared, Spared, Because
<1>8. ASSUME NEW a \in Agents, CleanUp(a) PROVE LostWorkHasACause'
    BY <1>8 DEF CleanUp, Evicted, RegWithout, Removed, Blame, Spared
<1>9. ASSUME NEW a \in Agents, EraseRecord(a) PROVE LostWorkHasACause'
    BY <1>9 DEF EraseRecord, Without, Spared
<1>10. ASSUME NEW a \in Agents, Commit(a) PROVE LostWorkHasACause'
    BY <1>10 DEF Commit, Because, Spared
<1>11. ASSUME NEW a \in Agents, End(a) PROVE LostWorkHasACause'
    BY <1>11 DEF End, Spared
<1>12. ASSUME NEW i \in DOMAIN rows, MarkMerged(i) PROVE LostWorkHasACause'
    BY <1>12 DEF MarkMerged, Asked, Marked, MarksOf, Because, Spared
<1>13. ASSUME NEW i \in DOMAIN rows, Abandon(i) PROVE LostWorkHasACause'
    BY <1>13 DEF Abandon, Asked, Spared
<1>14. ASSUME NEW i \in DOMAIN rows, Reactivate(i) PROVE LostWorkHasACause'
    BY <1>14 DEF Reactivate, Asked, Spared
<1>15. ASSUME NEW i \in DOMAIN rows, NEW force \in BOOLEAN, DeleteWorktree(i, force)
        PROVE LostWorkHasACause'
    <2> DEFINE b == rows[i].branch
               p == rows[i].path
    <2>1. CASE p \notin disk BY <1>15, <2>1 DEF DeleteWorktree
    <2>2. CASE p \in disk
        <3>1. PICK r :
                  LET bs == IF Deletable(b, r, force) THEN {b} ELSE {} IN
                  /\ BranchesWithout(bs)
                  /\ why' = Blame(b, p, {"asked"} \cup (IF force THEN {"forced"} ELSE {})
                                        \cup (IF bs = {} THEN {"left"} ELSE {}))
            BY <1>15, <2>2 DEF DeleteWorktree
        <3>2. \A d \in Branches : why[d] \subseteq why'[d] /\ (d = b /\ force => "forced" \in why'[d])
            BY <3>1 DEF Blame
        <3>3. \A d \in lost' : d \in lost \/ (d = b /\ force)
            BY <3>1 DEF BranchesWithout, Deletable
        <3>4. lost' \subseteq Branches BY HistoryStep DEF HistoryOK
        <3> QED BY <3>2, <3>3, <3>4
    <2> QED BY <2>1, <2>2
<1>16. ASSUME NEW i \in DOMAIN rows, RouteDelete(i) PROVE LostWorkHasACause'
    BY <1>16 DEF RouteDelete, Asked, Without, RegWithout, Removed, Evicted, Blame,
       Spared
<1>17. ASSUME NEW i \in DOMAIN rows, Ripen(i) PROVE LostWorkHasACause'
    BY <1>17 DEF Ripen, Spared
<1>18. ASSUME NEW c \in Callers, NEW i \in DOMAIN rows, NEW push \in BOOLEAN, Merge(c,
        i, push) PROVE LostWorkHasACause'
    BY <1>18 DEF Merge, Asked, Marked, MarksOf, Because, Spared
<1>19. ASSUME NEW stale \in SUBSET DOMAIN rows, NEW git \in BOOLEAN, Sweep(stale, git)
        PROVE LostWorkHasACause'
    BY <1>19 DEF Sweep, Asked, ItemOf, Expired, Spared
<1>20. ASSUME NEW m \in list, SweepItem(m) PROVE LostWorkHasACause'
    <2> DEFINE rs == IF m.kind = "stale" THEN {"asked", "forced"} ELSE {}
    <2>1. \A d \in Branches :
              /\ why[d] \subseteq why'[d]
              /\ d \in lost' => (d \in lost \/ (d = m.branch /\ head[d] = "ahead" /\ rs \subseteq why'[d]))
        BY <1>20, ForcedDeletion DEF SweepItem
    <2>2. m.kind # "stale" /\ head[m.branch] = "ahead" => why[m.branch] \cap {"unpushed", "listed"} # {}
        BY <1>20
    <2>3. lost' \subseteq Branches BY HistoryStep DEF HistoryOK
    <2> QED BY <2>1, <2>2, <2>3
<1>21. ASSUME NEW m \in list, NEW usable \in BOOLEAN, ReapDirectory(m, usable) PROVE
        LostWorkHasACause'
    BY <1>21 DEF ReapDirectory, Evicted, RegWithout, Removed, Blame, Spared
<1>22. ASSUME NEW m \in half, NEW usable \in BOOLEAN, ReapBranch(m, usable) PROVE
        LostWorkHasACause'
    <2>1. \A d \in Branches : why[d] \subseteq why'[d] BY <1>22 DEF ReapBranch, Because
    <2>2. \A d \in lost' : d \in lost \/ (d = m.branch /\ head[d] = "ahead")
        BY <1>22 DEF ReapBranch, BranchesWithout
    <2>3. head[m.branch] = "ahead" => why[m.branch] \cap {"unpushed", "listed"} # {} BY <1>22
    <2> QED BY <2>1, <2>2, <2>3
<1>23. ASSUME NEW m \in half, ReapTimesOut(m) PROVE LostWorkHasACause'
    BY <1>23 DEF ReapTimesOut, Because, Spared
<1>24. ASSUME BeginReap PROVE LostWorkHasACause'
    BY <1>24 DEF BeginReap, ItemOf, Expired, Spared
<1>25. ASSUME Crash PROVE LostWorkHasACause'
    BY <1>25 DEF Crash, Because
<1>26. ASSUME NEW b \in Branches, SpawnRefused(b) PROVE LostWorkHasACause'
    BY <1>26 DEF SpawnRefused, Asked, Without, RowsOf, Spared
<1>27. ASSUME NEW p \in Paths, Vanish(p) PROVE LostWorkHasACause'
    BY <1>27 DEF Vanish, Asked, Evicted, Because, Spared
<1>28. ASSUME NEW c \in Callers, NEW ok \in BOOLEAN, Push(c, ok) PROVE
        LostWorkHasACause'
    BY <1>28 DEF Push, Spared
<1>29. CASE UNCHANGED vars
    BY <1>29 DEF vars
<1> HIDE DEF BranchesAreNames, BoundsAreNat, IInv, ItemsAreMarked,
         UndoIsMarked, LostIsGone, LostWorkHasACause, TypeOK, TableOK, GitOK,
         WorkersOK, HistoryOK, Row, Paths, Statuses, Reasons, Item, NoSeat,
         NoCall, stores, workers
<1>30. CASE Create BY <1>30, <1>1, <1>2, <1>3, <1>4 DEF Create
<1>31. CASE Work BY <1>31, <1>5, <1>6, <1>7, <1>8, <1>9, <1>10, <1>11 DEF Work
<1>32. CASE Handle BY <1>32, <1>12, <1>13, <1>14, <1>15, <1>16, <1>17, <1>18 DEF Handle
<1>33. CASE Clean BY <1>33, <1>19, <1>20, <1>21, <1>22, <1>23, <1>24 DEF Clean
<1> QED
    BY <1>25, <1>26, <1>27, <1>28, <1>29, <1>30, <1>31, <1>32, <1>33 DEF Next

\* Each step keeps the invariant.
LEMMA IInvStep ==
    ASSUME IInv, [Next]_vars
    PROVE  IInv'
BY TableStep, GitStep, WorkersStep, HistoryStep, NamedStep, CheckoutsStep, MergedStep,
   ItemsStep, UndoStep, GoneStep, LostStep DEF IInv, TypeOK

\* The invariant holds in every reachable state.
LEMMA Inductive == Spec => []IInv
BY InitIInv, IInvStep, PTL DEF Spec

-----------------------------------------------------------------------------
\* What an agent that works in a worktree, and a branch, may count on.

\* A directory is a worktree of git, and whoever works in one is on the branch
\* that is checked out there.
Homes ==
    /\ \A p \in disk : reg[p] # None
    /\ \A a \in Agents : seat[a].phase = "working" =>
          seat[a].path \in disk /\ reg[seat[a].path] = seat[a].branch

Unready(a) == seat[a].phase \in {"preparing", "clearing", "erasing"}

\* The ids that spawns and deletions hold lead to the record they mean, or to
\* none.
Ids ==
    /\ \A a \in Agents : Unready(a) =>
          /\ seat[a].branch \in Branches /\ seat[a].path \in Paths
          /\ seat[a].id <= issued
          /\ seat[a].id \in DOMAIN rows => rows[seat[a].id].branch = seat[a].branch
    /\ \A m \in list \cup half :
          /\ m.id <= issued
          /\ m.id \in DOMAIN rows => rows[m.id].branch = m.branch /\ rows[m.id].path = m.path

\* Merged records, and deletions of what expired, have marked their branch.
MarksStay ==
    /\ \A i \in DOMAIN rows : rows[i].status = "merged" => "merged" \in why[rows[i].branch]
    /\ \A m \in list \cup half : m.kind # "stale" => why[m.branch] \cap {"merged", "listed"} # {}

\* Whoever works where a spawn or a call may yet fail came to share it.
SharersAreMarked ==
    \A a \in Agents : seat[a].phase = "working" /\ Unsettled(Agents, seat[a].path) =>
        "shared" \in why[seat[a].branch]

Fault(b) == why[b] \cap {"left", "vanished", "mistaken", "crashed"} # {}

\* The worktree at q is there for the branch b: by its record, which nobody is
\* about to erase, or by a call or a spawn that will record or remove it.
Kept(b, q) ==
    \/ \E i \in DOMAIN rows :
          /\ rows[i].branch = b /\ rows[i].path = q
          /\ \A a \in Agents : seat[a].phase = "erasing" => seat[a].id # i
    \/ \E c \in Callers :
          call[c].pc \in {"recording", "undoing"} /\ call[c].branch = b /\ call[c].path = q
    \/ \E a \in Agents : seat[a].phase = "clearing" /\ seat[a].branch = b /\ seat[a].path = q

\* A branch is in a worktree that is kept for it, or about to be deleted.
Tended(b) ==
    \/ \E q \in disk : reg[q] = b /\ Kept(b, q)
    \/ \E m \in half : m.branch = b

\* A branch is left without a worktree only by a fault.
Justified(b) == head[b] # "gone" => Tended(b) \/ Fault(b)
BranchesAreTended == \A b \in Branches : Justified(b)

\* The reaper deletes one directory, and then its branch, at a time.
OneAtATime == \A m, n \in half : m = n

GroundInv ==
    /\ IInv /\ Homes /\ Ids /\ MarksStay /\ SharersAreMarked /\ OneAtATime
    /\ BranchesAreTended

\* Nothing is there in the initial state but branches that were left.
LEMMA InitGround == Init => GroundInv
<1> SUFFICES ASSUME Init PROVE GroundInv OBVIOUS
<1>1. DOMAIN rows = {} /\ list = {} /\ half = {} /\ disk = {} BY DEF Init
<1>2. \A a \in Agents : seat[a].phase = "away" BY DEF Init, NoSeat
<1>3. Homes BY <1>1, <1>2 DEF Homes
<1>4. Ids BY <1>1, <1>2 DEF Ids, Unready
<1>5. MarksStay BY <1>1 DEF MarksStay
<1>6. SharersAreMarked BY <1>2 DEF SharersAreMarked
<1>7. OneAtATime BY <1>1 DEF OneAtATime
<1>8. BranchesAreTended BY DEF Init, BranchesAreTended, Justified, Fault
<1> QED BY InitIInv, <1>3, <1>4, <1>5, <1>6, <1>7, <1>8 DEF GroundInv


\* A step creates records under new ids, and changes no other's branch or path.
RecordsKept ==
    /\ issued <= issued'
    /\ \A i \in DOMAIN rows' :
          \/ i \in DOMAIN rows /\ rows'[i].branch = rows[i].branch /\ rows'[i].path = rows[i].path
          \/ i > issued

\* It does in each step.
LEMMA RecordsStep ==
    ASSUME IInv, [Next]_vars
    PROVE  RecordsKept
<1> USE DEF IInv, TypeOK, TableOK, Row, RecordsKept
<1>1. ASSUME UNCHANGED <<rows, issued>> PROVE RecordsKept
    BY <1>1
<1>2. ASSUME NEW c \in Callers, RecordWorktree(c) PROVE RecordsKept
    BY <1>2 DEF RecordWorktree, Inserted
<1>3. ASSUME NEW a \in Agents, NEW b \in Branches, SpawnFresh(a, b) PROVE RecordsKept
    <2> DEFINE kept == Without(RowsOf(b))
    <2>1. DOMAIN kept \subseteq DOMAIN rows /\ \A i \in DOMAIN kept : kept[i] = rows[i] BY DEF Without
    <2>2. CASE rows' = Inserted(kept, b, b) /\ issued' = issued + 1
        <3> HIDE DEF kept
        <3> QED BY <2>1, <2>2 DEF Inserted
    <2>3. CASE rows' = kept /\ UNCHANGED issued
        <3> HIDE DEF kept
        <3> QED BY <2>1, <2>3
    <2> QED BY <1>3, <2>2, <2>3 DEF SpawnFresh
<1>4. ASSUME NEW a \in Agents, EraseRecord(a) PROVE RecordsKept
    BY <1>4 DEF EraseRecord, Without, Spared
<1>5. ASSUME NEW i \in DOMAIN rows, MarkMerged(i) PROVE RecordsKept
    BY <1>5 DEF MarkMerged, Marked, Asked, Spared
<1>6. ASSUME NEW i \in DOMAIN rows, Abandon(i) PROVE RecordsKept
    BY <1>6 DEF Abandon, Asked, Spared
<1>7. ASSUME NEW i \in DOMAIN rows, Reactivate(i) PROVE RecordsKept
    BY <1>7 DEF Reactivate, Asked, Spared
<1>8. ASSUME NEW i \in DOMAIN rows, NEW force \in BOOLEAN, DeleteWorktree(i, force)
        PROVE RecordsKept
    BY <1>8 DEF DeleteWorktree, Without, Asked, Spared
<1>9. ASSUME NEW i \in DOMAIN rows, RouteDelete(i) PROVE RecordsKept
    BY <1>9 DEF RouteDelete, Without, Asked, Spared
<1>10. ASSUME NEW i \in DOMAIN rows, Ripen(i) PROVE RecordsKept
    BY <1>10 DEF Ripen, Spared
<1>11. ASSUME NEW c \in Callers, NEW i \in DOMAIN rows, NEW push \in BOOLEAN, Merge(c,
        i, push) PROVE RecordsKept
    BY <1>11 DEF Merge, Marked, Asked, Spared
<1>12. ASSUME NEW stale \in SUBSET DOMAIN rows, NEW git \in BOOLEAN, Sweep(stale, git)
        PROVE RecordsKept
    BY <1>12 DEF Sweep, Asked, Spared
<1>13. ASSUME NEW m \in list, SweepItem(m) PROVE RecordsKept
    BY <1>13 DEF SweepItem, Without, Spared
<1>14. ASSUME NEW m \in half, NEW usable \in BOOLEAN, ReapBranch(m, usable) PROVE
        RecordsKept
    BY <1>14 DEF ReapBranch, Without, Spared
<1>15. ASSUME NEW b \in Branches, SpawnRefused(b) PROVE RecordsKept
    BY <1>15 DEF SpawnRefused, Without, Asked, Spared
<1>16. CASE Create BY <1>16, <1>1, <1>2 DEF Create, BeginCreate, AddWorktree,
          UndoCreate, stores, Spared, Asked
<1>17. CASE Work BY <1>17, <1>1, <1>3, <1>4 DEF Work, SpawnShared, Prepared, CleanUp,
          Commit, End, stores, Spared, Asked
<1>18. CASE Handle BY <1>18, <1>5, <1>6, <1>7, <1>8, <1>9, <1>10, <1>11 DEF Handle
<1>19. CASE Clean BY <1>19, <1>1, <1>12, <1>13, <1>14 DEF Clean, ReapDirectory,
          ReapTimesOut, BeginReap, stores, Spared, Asked
<1> QED BY <1>1, <1>15, <1>16, <1>17, <1>18, <1>19 DEF Next, vars, Crash, Vanish, Push,
        stores, Spared, Asked

\* A directory goes away, and those who worked in it are out.
LEMMA LeavingHome ==
    ASSUME Homes, NEW p \in Paths, disk' = disk \ {p}, \A q \in disk' : reg'[q] = reg[q],
           \A a \in Agents : seat'[a].phase = "working" => seat'[a] = seat[a] /\ seat[a].path # p
    PROVE  Homes'
BY DEF Homes

\* What git forgets is not there.
LEMMA OthersStay ==
    ASSUME GitOK, NEW p \in Paths, NEW r \in RegWithout(p)
    PROVE  \A q \in disk \ {p} : r[q] = reg[q]
BY DEF GitOK, RegWithout, Removed, Paths

\* Those who work in the directory that goes away are out.
LEMMA EvictedAreOut ==
    ASSUME WorkersOK, NEW p, seat' = Evicted(p)
    PROVE  \A a \in Agents : seat'[a].phase = "working" => seat'[a] = seat[a] /\ seat[a].path # p
BY DEF WorkersOK, Evicted

\* A worktree is made where there is no directory.
LEMMA NewHome ==
    ASSUME GitOK, Homes, NEW p \in Paths, NEW b \in Branches, None \notin Branches, p \notin disk,
           disk' = disk \cup {p}, reg' = [reg EXCEPT ![p] = b],
           \A a \in Agents : seat'[a].phase = "working" => seat'[a] = seat[a]
    PROVE  Homes'
BY DEF Homes, GitOK, Paths

\* A forced deletion takes the directory and nothing else of the disk.
LEMMA ForcedOut ==
    ASSUME GitOK, WorkersOK, Homes, NEW b \in Branches, NEW p \in Paths, NEW reasons,
           DeleteByForce(b, p, reasons)
    PROVE  Homes'
<1>1. CASE p \in disk \/ reg[p] # None
    <2>1. PICK r \in RegWithout(p) : reg' = r /\ disk' = disk \ {p} /\ seat' = Evicted(p)
        BY <1>1 DEF DeleteByForce
    <2>2. \A q \in disk \ {p} : reg'[q] = reg[q] BY <2>1, OthersStay
    <2> QED BY <2>1, <2>2, EvictedAreOut, LeavingHome
<1>2. CASE ~(p \in disk \/ reg[p] # None)
    BY <1>2 DEF DeleteByForce, Homes
<1> QED BY <1>1, <1>2

\* Nobody works in a directory that is not there, or on another branch.
LEMMA HomesStep ==
    ASSUME GroundInv, [Next]_vars
    PROVE  Homes'
<1> USE BranchesAreNames DEF BranchesAreNames
<1>0. TableOK /\ GitOK /\ WorkersOK /\ Named /\ Homes /\ Ids BY DEF GroundInv, IInv, TypeOK
<1> USE <1>0
<1>1. ASSUME UNCHANGED <<reg, disk, seat>> PROVE Homes'
    BY <1>1 DEF Homes
<1>2. ASSUME NEW c \in Callers, AddWorktree(c) PROVE Homes'
    <2>1. CASE UNCHANGED <<reg, disk>> BY <1>2, <2>1, <1>1 DEF AddWorktree
    <2>2. CASE CanAdd(call[c].branch, call[c].path, call[c].new)
                /\ Add(call[c].branch, call[c].path, call[c].new, rows)
        <3>1. call[c].branch \in Branches /\ call[c].path \in Paths BY <1>2 DEF AddWorktree, Named
        <3>2. UNCHANGED seat BY <1>2 DEF AddWorktree
        <3> QED BY <2>2, <3>1, <3>2, NewHome DEF CanAdd, Add
    <2> QED BY <1>2, <2>1, <2>2 DEF AddWorktree
<1>3. ASSUME NEW c \in Callers, UndoCreate(c) PROVE Homes'
    <2>1. call[c].branch \in Branches /\ call[c].path \in Paths BY <1>3 DEF UndoCreate, Named
    <2> QED BY <1>3, <2>1, ForcedOut DEF UndoCreate
<1>4. ASSUME NEW a \in Agents, NEW i \in DOMAIN rows, SpawnShared(a, i) PROVE Homes'
    <2>1. rows[i].path \in disk /\ UNCHANGED <<reg, disk>> BY <1>4 DEF SpawnShared, stores
    <2>2. \A o \in Agents : o # a => seat'[o] = seat[o] BY <1>4 DEF SpawnShared, WorkersOK
    <2>3. seat'[a].path = rows[i].path /\ seat'[a].branch = reg[rows[i].path]
        BY <1>4 DEF SpawnShared, WorkersOK
    <2> QED BY <2>1, <2>2, <2>3 DEF Homes
<1>5. ASSUME NEW a \in Agents, NEW b \in Branches, SpawnFresh(a, b) PROVE Homes'
    <2>1. b \in Paths /\ b \notin disk /\ disk' = disk \cup {b} /\ reg' = [reg EXCEPT ![b] = b]
        BY <1>5 DEF SpawnFresh, CanAdd, Add, Paths
    <2>2. \A o \in Agents : seat'[o].phase = "working" => seat'[o] = seat[o]
        BY <1>5 DEF SpawnFresh, WorkersOK
    <2> QED BY <2>1, <2>2, NewHome
<1>6. ASSUME NEW a \in Agents, Prepared(a) PROVE Homes'
    <2>1. seat[a].path \in disk /\ UNCHANGED <<reg, disk>> BY <1>6 DEF Prepared, stores
    <2>2. \A o \in Agents : o # a => seat'[o] = seat[o] BY <1>6 DEF Prepared, WorkersOK
    <2>3. seat'[a].path = seat[a].path /\ seat'[a].branch = reg[seat[a].path]
        BY <1>6 DEF Prepared, WorkersOK
    <2> QED BY <2>1, <2>2, <2>3 DEF Homes
<1>7. ASSUME NEW a \in Agents, CleanUp(a) PROVE Homes'
    <2> DEFINE p == seat[a].path
    <2>1. p \in Paths BY <1>7 DEF CleanUp, Ids, Unready
    <2>2. disk' = disk \ {p} /\ reg' \in RegWithout(p) BY <1>7 DEF CleanUp
    <2>3. \A o \in Agents : seat'[o].phase = "working" => seat'[o] = seat[o] /\ seat[o].path # p
        BY <1>7 DEF CleanUp, WorkersOK, Evicted
    <2> QED BY <2>1, <2>2, <2>3, OthersStay, LeavingHome
<1>8. ASSUME NEW a \in Agents, EraseRecord(a) PROVE Homes'
    BY <1>8 DEF EraseRecord, WorkersOK, NoSeat, Homes, stores
<1>9. ASSUME NEW a \in Agents, End(a) PROVE Homes'
    BY <1>9 DEF End, WorkersOK, NoSeat, Homes, stores
<1>10. ASSUME NEW i \in DOMAIN rows, NEW force \in BOOLEAN, DeleteWorktree(i, force)
        PROVE Homes'
    <2> DEFINE p == rows[i].path
    <2>1. CASE p \notin disk BY <1>10, <2>1, <1>1 DEF DeleteWorktree
    <2>2. CASE p \in disk
        <3>1. p \in Paths BY DEF TableOK, Row
        <3>2. disk' = disk \ {p} /\ reg' \in RegWithout(p) /\ seat' = Evicted(p)
            BY <1>10, <2>2 DEF DeleteWorktree, RegWithout
        <3> QED BY <3>1, <3>2, OthersStay, EvictedAreOut, LeavingHome
    <2> QED BY <2>1, <2>2
<1>11. ASSUME NEW i \in DOMAIN rows, RouteDelete(i) PROVE Homes'
    <2> DEFINE p == rows[i].path
    <2>1. CASE UNCHANGED <<disk, reg, seat>> BY <2>1, <1>1
    <2>2. CASE disk' = disk \ {p} /\ reg' \in RegWithout(p) /\ seat' = Evicted(p)
        <3>1. p \in Paths BY DEF TableOK, Row
        <3> QED BY <2>2, <3>1, OthersStay, EvictedAreOut, LeavingHome
    <2> QED BY <1>11, <2>1, <2>2 DEF RouteDelete
<1>12. ASSUME NEW m \in list, SweepItem(m) PROVE Homes'
    <2>1. m.branch \in Branches /\ m.path \in Paths BY DEF WorkersOK, Item
    <2> QED BY <1>12, <2>1, ForcedOut DEF SweepItem
<1>13. ASSUME NEW m \in list, NEW usable \in BOOLEAN, ReapDirectory(m, usable) PROVE
        Homes'
    <2>1. m.path \in Paths BY DEF WorkersOK, Item
    <2>2. disk' = disk \ {m.path} /\ seat' = Evicted(m.path) /\ reg' \in RegWithout(m.path) \cup {reg}
        BY <1>13 DEF ReapDirectory
    <2>3. \A q \in disk' : reg'[q] = reg[q] BY <2>1, <2>2, OthersStay
    <2> QED BY <2>1, <2>2, <2>3, EvictedAreOut, LeavingHome
<1>14. ASSUME Crash PROVE Homes'
    <2>1. \A a \in Agents : seat'[a].phase = "working" => seat'[a] = seat[a]
        BY <1>14 DEF Crash, NoSeat
    <2> QED BY <1>14, <2>1 DEF Crash, stores, Homes
<1>15. ASSUME NEW p \in Paths, Vanish(p) PROVE Homes'
    <2>1. disk' = disk \ {p} /\ reg' = reg /\ seat' = Evicted(p) BY <1>15 DEF Vanish
    <2> QED BY <2>1, EvictedAreOut, LeavingHome
<1>16. CASE Create BY <1>16, <1>1, <1>2, <1>3 DEF Create, BeginCreate, RecordWorktree,
          stores, workers, Spared
<1>17. CASE Work BY <1>17, <1>1, <1>4, <1>5, <1>6, <1>7, <1>8, <1>9 DEF Work, Commit,
          stores, workers, Spared
<1>18. CASE Handle BY <1>18, <1>1, <1>10, <1>11 DEF Handle, MarkMerged, Abandon,
          Reactivate, Ripen, Merge, stores, workers, Spared
<1>19. CASE Clean BY <1>19, <1>1, <1>12, <1>13 DEF Clean, Sweep, ReapBranch,
          ReapTimesOut, BeginReap, stores, workers, Spared
<1> QED BY <1>1, <1>14, <1>15, <1>16, <1>17, <1>18, <1>19 DEF Next, vars, SpawnRefused,
        Push, stores, workers, Spared

\* Ids stay what they are while no spawn and no deletion takes up another.
LEMMA SameIds ==
    ASSUME Ids, IInv, RecordsKept, IInv', list' \cup half' \subseteq list \cup half,
           \A a \in Agents : seat'[a].phase \in {"preparing", "clearing", "erasing"} =>
              /\ Unready(a) /\ seat'[a].branch = seat[a].branch
              /\ seat'[a].path = seat[a].path /\ seat'[a].id = seat[a].id
    PROVE  Ids'
<1> USE DEF RecordsKept, Unready
<1>0. issued \in Nat /\ issued' \in Nat BY DEF IInv, TypeOK, TableOK
<1>1. \A a \in Agents : Unready(a) => seat[a].id \in Nat BY DEF IInv, TypeOK, WorkersOK
<1>2. \A m \in list \cup half : m.id \in Nat BY DEF IInv, TypeOK, WorkersOK, Item
<1>3. (\A a \in Agents : Unready(a) =>
          /\ seat[a].branch \in Branches /\ seat[a].path \in Paths
          /\ seat[a].id <= issued
          /\ seat[a].id \in DOMAIN rows => rows[seat[a].id].branch = seat[a].branch)'
    BY <1>0, <1>1 DEF Ids, Paths
<1>4. (\A m \in list \cup half :
          /\ m.id <= issued
          /\ m.id \in DOMAIN rows => rows[m.id].branch = m.branch /\ rows[m.id].path = m.path)'
    BY <1>0, <1>2 DEF Ids
<1> QED BY <1>3, <1>4 DEF Ids

\* An eviction changes no id.
LEMMA EvictedIds ==
    ASSUME WorkersOK, NEW p, seat' = Evicted(p)
    PROVE  \A a \in Agents : seat'[a].phase \in {"preparing", "clearing", "erasing"} =>
              /\ Unready(a) /\ seat'[a].branch = seat[a].branch
              /\ seat'[a].path = seat[a].path /\ seat'[a].id = seat[a].id
BY DEF WorkersOK, Evicted, Unready

\* A new spawn may take up an id of its own.
LEMMA OneNewId ==
    ASSUME Ids, IInv, RecordsKept, IInv', UNCHANGED <<list, half>>, NEW a \in Agents,
           \A o \in Agents : o # a => seat'[o] = seat[o],
           seat'[a].branch \in Branches, seat'[a].path \in Paths, seat'[a].id <= issued',
           seat'[a].id \in DOMAIN rows' => rows'[seat'[a].id].branch = seat'[a].branch
    PROVE  Ids'
<1> USE DEF RecordsKept, Unready
<1>0. issued \in Nat /\ issued' \in Nat BY DEF IInv, TypeOK, TableOK
<1>1. \A o \in Agents : seat[o].id \in Nat BY DEF IInv, TypeOK, WorkersOK
<1>2. \A m \in list \cup half : m.id \in Nat BY DEF IInv, TypeOK, WorkersOK, Item
<1>3. (\A o \in Agents : Unready(o) =>
          /\ seat[o].branch \in Branches /\ seat[o].path \in Paths
          /\ seat[o].id <= issued
          /\ seat[o].id \in DOMAIN rows => rows[seat[o].id].branch = seat[o].branch)'
    BY <1>0, <1>1 DEF Ids, Paths
<1>4. (\A m \in list \cup half :
          /\ m.id <= issued
          /\ m.id \in DOMAIN rows => rows[m.id].branch = m.branch /\ rows[m.id].path = m.path)'
    BY <1>0, <1>2 DEF Ids
<1> QED BY <1>3, <1>4 DEF Ids

Listed(m) ==
    m.id \in DOMAIN rows /\ rows[m.id].branch = m.branch /\ rows[m.id].path = m.path

\* A list takes up the ids of records that are there.
LEMMA ListedIds ==
    ASSUME Ids, IInv, UNCHANGED <<seat, half, issued>>, RecordsKept, DOMAIN rows' = DOMAIN rows,
           \A m \in list' : m \in list \/ Listed(m)
    PROVE  Ids'
<1> USE DEF RecordsKept, Unready, Listed
<1>0. TableOK BY DEF IInv, TypeOK
<1> QED BY <1>0 DEF Ids, TableOK

\* Ids that are held never lead to a record of another branch or path.
LEMMA IdsStep ==
    ASSUME GroundInv, [Next]_vars
    PROVE  Ids'
<1>0. /\ IInv /\ IInv' /\ RecordsKept /\ Ids /\ WorkersOK
      /\ issued \in Nat /\ issued' \in Nat /\ DOMAIN rows \subseteq 1..issued /\ DOMAIN rows' \subseteq 1..issued'
    BY IInvStep, RecordsStep DEF GroundInv, IInv, TypeOK, TableOK
<1> USE <1>0
<1>1. ASSUME UNCHANGED <<seat, list, half>> PROVE Ids'
    BY <1>1, SameIds DEF Unready
<1>2. ASSUME NEW c \in Callers, UndoCreate(c) PROVE Ids'
    <2>1. seat' = seat \/ seat' = Evicted(call[c].path) BY <1>2 DEF UndoCreate, DeleteByForce
    <2>2. list' \cup half' \subseteq list \cup half BY <1>2 DEF UndoCreate
    <2> QED BY <2>1, <2>2, EvictedIds, SameIds DEF Unready
<1>3. ASSUME NEW a \in Agents, NEW i \in DOMAIN rows, SpawnShared(a, i) PROVE Ids'
    <2>1. UNCHANGED <<list, half>> BY <1>3 DEF SpawnShared
    <2>2. \A o \in Agents : seat'[o].phase \in {"preparing", "clearing", "erasing"} =>
              /\ Unready(o) /\ seat'[o].branch = seat[o].branch
              /\ seat'[o].path = seat[o].path /\ seat'[o].id = seat[o].id
        BY <1>3 DEF SpawnShared, stores, WorkersOK, Unready
    <2> QED BY <2>1, <2>2, SameIds
<1>4. ASSUME NEW a \in Agents, NEW b \in Branches, SpawnFresh(a, b) PROVE Ids'
    <2> DEFINE kept == Without(RowsOf(b))
    <2>1. UNCHANGED <<list, half>> BY <1>4 DEF SpawnFresh
    <2>2. \A o \in Agents : o # a => seat'[o] = seat[o] BY <1>4 DEF SpawnFresh, WorkersOK
    <2>3. b \in Paths /\ b \in Branches BY DEF Paths
    <2>4. CASE /\ rows' = Inserted(kept, b, b) /\ issued' = issued + 1
                /\ seat' = [seat EXCEPT ![a] = [phase |-> "preparing", branch |-> b, path |-> b, id |-> issued']]
        <3>1. issued + 1 \notin DOMAIN rows /\ DOMAIN kept \subseteq DOMAIN rows BY <1>0 DEF Without
        <3> HIDE DEF kept
        <3>2. issued' \in DOMAIN rows' /\ rows'[issued'].branch = b BY <2>4, <3>1 DEF Inserted
        <3>3. seat'[a].branch = b /\ seat'[a].path = b /\ seat'[a].id = issued' BY <2>4 DEF WorkersOK
        <3>4. Ids' BY <2>1, <2>2, <2>3, <3>2, <3>3, OneNewId
        <3> QED BY <3>4
    <2>5. CASE seat' = [seat EXCEPT ![a] = [phase |-> "clearing", branch |-> b, path |-> b, id |-> 0]]
        <3>1. seat'[a].branch = b /\ seat'[a].path = b /\ seat'[a].id = 0 BY <2>5 DEF WorkersOK
        <3>2. 0 \notin DOMAIN rows' /\ 0 <= issued' BY <1>0
        <3> QED BY <2>1, <2>2, <2>3, <3>1, <3>2, OneNewId
    <2> QED BY <1>4, <2>4, <2>5 DEF SpawnFresh
<1>5. ASSUME NEW a \in Agents, Prepared(a) PROVE Ids'
    <2>1. UNCHANGED <<list, half>> BY <1>5 DEF Prepared
    <2>2. \A o \in Agents : seat'[o].phase \in {"preparing", "clearing", "erasing"} =>
              /\ Unready(o) /\ seat'[o].branch = seat[o].branch
              /\ seat'[o].path = seat[o].path /\ seat'[o].id = seat[o].id
        BY <1>5 DEF Prepared, stores, WorkersOK, Unready
    <2> QED BY <2>1, <2>2, SameIds
<1>6. ASSUME NEW a \in Agents, CleanUp(a) PROVE Ids'
    <2>1. UNCHANGED <<list, half>> BY <1>6 DEF CleanUp
    <2>2. \A o \in Agents : seat'[o].phase \in {"preparing", "clearing", "erasing"} =>
              /\ Unready(o) /\ seat'[o].branch = seat[o].branch
              /\ seat'[o].path = seat[o].path /\ seat'[o].id = seat[o].id
        BY <1>6 DEF CleanUp, Evicted, WorkersOK, Unready
    <2> QED BY <2>1, <2>2, SameIds
<1>7. ASSUME NEW a \in Agents, EraseRecord(a) PROVE Ids'
    <2>1. UNCHANGED <<list, half>> BY <1>7 DEF EraseRecord
    <2>2. \A o \in Agents : seat'[o].phase \in {"preparing", "clearing", "erasing"} =>
              /\ Unready(o) /\ seat'[o].branch = seat[o].branch
              /\ seat'[o].path = seat[o].path /\ seat'[o].id = seat[o].id
        BY <1>7 DEF EraseRecord, NoSeat, WorkersOK, Unready
    <2> QED BY <2>1, <2>2, SameIds
<1>8. ASSUME NEW a \in Agents, End(a) PROVE Ids'
    <2>1. UNCHANGED <<list, half>> BY <1>8 DEF End
    <2>2. \A o \in Agents : seat'[o].phase \in {"preparing", "clearing", "erasing"} =>
              /\ Unready(o) /\ seat'[o].branch = seat[o].branch
              /\ seat'[o].path = seat[o].path /\ seat'[o].id = seat[o].id
        BY <1>8 DEF End, NoSeat, WorkersOK, Unready
    <2> QED BY <2>1, <2>2, SameIds
<1>9. ASSUME NEW i \in DOMAIN rows, NEW force \in BOOLEAN, DeleteWorktree(i, force)
        PROVE Ids'
    <2>1. UNCHANGED <<list, half>> /\ (seat' = seat \/ seat' = Evicted(rows[i].path)) BY <1>9 DEF DeleteWorktree
    <2> QED BY <2>1, EvictedIds, SameIds DEF Unready
<1>10. ASSUME NEW i \in DOMAIN rows, RouteDelete(i) PROVE Ids'
    <2>1. UNCHANGED <<list, half>> /\ (seat' = seat \/ seat' = Evicted(rows[i].path)) BY <1>10 DEF RouteDelete
    <2> QED BY <2>1, EvictedIds, SameIds DEF Unready
<1>11. ASSUME NEW stale \in SUBSET DOMAIN rows, NEW git \in BOOLEAN, Sweep(stale, git)
        PROVE Ids'
    <2>1. UNCHANGED <<seat, half, issued>> /\ DOMAIN rows' = DOMAIN rows BY <1>11 DEF Sweep, Spared
    <2>2. \A m \in list' : m \in list \/ Listed(m)
        BY <1>11 DEF Sweep, Expired, Listed, ItemOf
    <2> QED BY <2>1, <2>2, ListedIds
<1>12. ASSUME NEW m \in list, SweepItem(m) PROVE Ids'
    <2>1. seat' = seat \/ seat' = Evicted(m.path) BY <1>12 DEF SweepItem, DeleteByForce
    <2>2. list' \cup half' \subseteq list \cup half BY <1>12 DEF SweepItem
    <2> QED BY <2>1, <2>2, EvictedIds, SameIds DEF Unready
<1>13. ASSUME NEW m \in list, NEW usable \in BOOLEAN, ReapDirectory(m, usable) PROVE
        Ids'
    <2>1. seat' = seat \/ seat' = Evicted(m.path) BY <1>13 DEF ReapDirectory
    <2>2. list' \cup half' \subseteq list \cup half BY <1>13 DEF ReapDirectory
    <2> QED BY <2>1, <2>2, EvictedIds, SameIds DEF Unready
<1>14. ASSUME NEW m \in half, NEW usable \in BOOLEAN, ReapBranch(m, usable) PROVE Ids'
    <2>1. UNCHANGED <<seat, list>> /\ half' = {} BY <1>14 DEF ReapBranch
    <2> QED BY <2>1, SameIds DEF Unready
<1>15. ASSUME NEW m \in half, ReapTimesOut(m) PROVE Ids'
    <2>1. UNCHANGED <<seat, list>> /\ half' = {} BY <1>15 DEF ReapTimesOut
    <2> QED BY <2>1, SameIds DEF Unready
<1>16. ASSUME BeginReap PROVE Ids'
    <2>1. UNCHANGED <<seat, half, issued, rows>> BY <1>16 DEF BeginReap, Spared, stores
    <2>2. \A m \in list' : m \in list \/ Listed(m)
        BY <1>16 DEF BeginReap, Expired, Listed, ItemOf
    <2> QED BY <2>1, <2>2, ListedIds
<1>17. ASSUME Crash PROVE Ids'
    <2>1. list' = {} /\ half' = {} BY <1>17 DEF Crash
    <2>2. \A o \in Agents : seat'[o].phase \notin {"preparing", "clearing", "erasing"} BY <1>17 DEF Crash, NoSeat
    <2> QED BY <2>1, <2>2, SameIds
<1>18. ASSUME NEW p \in Paths, Vanish(p) PROVE Ids'
    <2>1. UNCHANGED <<list, half>> /\ (seat' = seat \/ seat' = Evicted(p)) BY <1>18 DEF Vanish
    <2> QED BY <2>1, EvictedIds, SameIds DEF Unready
<1>19. CASE Create BY <1>19, <1>1, <1>2 DEF Create, BeginCreate, AddWorktree,
          RecordWorktree, stores, workers, Spared
<1>20. CASE Work BY <1>20, <1>1, <1>3, <1>4, <1>5, <1>6, <1>7, <1>8 DEF Work, Commit,
          stores, workers, Spared
<1>21. CASE Handle BY <1>21, <1>1, <1>9, <1>10 DEF Handle, MarkMerged, Abandon,
          Reactivate, Ripen, Merge, stores, workers, Spared
<1>22. CASE Clean BY <1>22, <1>11, <1>12, <1>13, <1>14, <1>15, <1>16 DEF Clean
<1> QED BY <1>1, <1>17, <1>18, <1>19, <1>20, <1>21, <1>22 DEF Next, vars, SpawnRefused,
        Push, stores, workers, Spared

\* The merged records of the next state are merged already.
NoneMarked ==
    \A i \in DOMAIN rows' : rows'[i].status = "merged" =>
        i \in DOMAIN rows /\ rows[i].status = "merged" /\ rows'[i].branch = rows[i].branch

\* The history of a branch only grows, apart from what is pushed.
OnlyPushed == \A b \in Branches : why[b] \ {"unpushed"} \subseteq why'[b]

\* Marks stay while nothing is marked merged, listed or forgotten.
LEMMA SameMarks ==
    ASSUME MarksStay, TableOK, WorkersOK, NoneMarked, list' \cup half' \subseteq list \cup half,
           OnlyPushed
    PROVE  MarksStay'
<1> USE DEF OnlyPushed
<1>1. (\A i \in DOMAIN rows : rows[i].status = "merged" => "merged" \in why[rows[i].branch])'
    BY DEF MarksStay, TableOK, Row, NoneMarked
<1>2. \A m \in list \cup half : m.branch \in Branches BY DEF WorkersOK, Item
<1>3. (\A m \in list \cup half : m.kind # "stale" => why[m.branch] \cap {"merged", "listed"} # {})'
    BY <1>2 DEF MarksStay
<1> QED BY <1>1, <1>3 DEF MarksStay

\* A worktree may be made of a branch whose history starts afresh: what is
\* held against it stays in its history.
LEMMA AddKeepsMarks ==
    ASSUME MarksStay, TableOK, WorkersOK, HistoryOK, UNCHANGED <<list, half>>,
           NEW b \in Branches, NEW p \in Paths, NEW new \in BOOLEAN, NEW table,
           Add(b, p, new, table),
           DOMAIN table \subseteq DOMAIN rows, \A i \in DOMAIN table : table[i] = rows[i],
           \A i \in DOMAIN rows' : rows'[i].status = "merged" =>
               i \in DOMAIN table /\ rows'[i] = table[i]
    PROVE  MarksStay'
<1>1. \A d \in Branches : d # b => why'[d] = why[d] BY DEF Add, HistoryOK
<1>2. Condemned(b, p) => "listed" \in why'[b] BY DEF Add, HistoryOK
<1>3. \A i \in DOMAIN table : table[i].branch = b /\ table[i].status = "merged" => "merged" \in why'[b]
    BY DEF Add, HistoryOK
<1>4. (\A i \in DOMAIN rows : rows[i].status = "merged" => "merged" \in why[rows[i].branch])'
    <2> SUFFICES ASSUME NEW i \in DOMAIN rows', rows'[i].status = "merged"
                 PROVE  "merged" \in why'[rows'[i].branch]
        OBVIOUS
    <2>1. i \in DOMAIN table /\ rows'[i] = table[i] /\ table[i] = rows[i] /\ i \in DOMAIN rows OBVIOUS
    <2>2. rows[i].branch \in Branches BY <2>1 DEF TableOK, Row
    <2> QED BY <1>1, <1>3, <2>1, <2>2 DEF MarksStay
<1>5. (\A m \in list \cup half : m.kind # "stale" => why[m.branch] \cap {"merged", "listed"} # {})'
    <2> SUFFICES ASSUME NEW m \in list \cup half, m.kind # "stale"
                 PROVE  why'[m.branch] \cap {"merged", "listed"} # {}
        OBVIOUS
    <2>1. m.branch \in Branches BY DEF WorkersOK, Item
    <2>2. CASE m.branch = b BY <1>2, <2>2 DEF Condemned
    <2>3. CASE m.branch # b BY <1>1, <2>1, <2>3 DEF MarksStay
    <2> QED BY <2>2, <2>3
<1> QED BY <1>4, <1>5 DEF MarksStay

\* A record may be marked, and its branch with it.
LEMMA MarkingKeepsMarks ==
    ASSUME MarksStay, TableOK, WorkersOK, HistoryOK, UNCHANGED <<list, half>>,
           NEW i \in DOMAIN rows, rows' = Marked(i, "merged"), why' = MarksOf(i)
    PROVE  MarksStay'
<1>1. \A d \in Branches : why[d] \subseteq why'[d] BY DEF MarksOf, Because
<1>2. rows[i].branch \in Branches BY DEF TableOK, Row
<1>3. "merged" \in why'[rows[i].branch] BY <1>2 DEF MarksOf, Because
<1>4. \A j \in DOMAIN rows' : j \in DOMAIN rows /\ rows'[j].branch = rows[j].branch
                             /\ (j # i => rows'[j] = rows[j])
    BY DEF Marked, TableOK, Row
<1>5. (\A j \in DOMAIN rows : rows[j].status = "merged" => "merged" \in why[rows[j].branch])'
    BY <1>1, <1>3, <1>4 DEF MarksStay, TableOK, Row
<1>6. \A m \in list \cup half : m.branch \in Branches BY DEF WorkersOK, Item
<1>7. (\A m \in list \cup half : m.kind # "stale" => why[m.branch] \cap {"merged", "listed"} # {})'
    BY <1>1, <1>6 DEF MarksStay
<1> QED BY <1>5, <1>7 DEF MarksStay

\* What is listed as expired was marked.
LEMMA ListingKeepsMarks ==
    ASSUME MarksStay, NoneMarked, UNCHANGED <<half, why>>,
           \A m \in list' : m \in list \/ m.kind = "stale"
                           \/ \E i \in Expired : m.branch = rows[i].branch
    PROVE  MarksStay'
<1>1. (\A i \in DOMAIN rows : rows[i].status = "merged" => "merged" \in why[rows[i].branch])'
    BY DEF MarksStay, NoneMarked
<1>2. (\A m \in list \cup half : m.kind # "stale" => why[m.branch] \cap {"merged", "listed"} # {})'
    BY DEF MarksStay, Expired
<1> QED BY <1>1, <1>2 DEF MarksStay

\* Marks outlive the records and branches they are about to cost.
LEMMA MarksStep ==
    ASSUME GroundInv, [Next]_vars
    PROVE  MarksStay'
<1> USE BranchesAreNames DEF BranchesAreNames
<1>0. TableOK /\ GitOK /\ WorkersOK /\ HistoryOK /\ Named /\ MarksStay BY DEF GroundInv, IInv, TypeOK
<1> USE <1>0 DEF TableOK
<1>1. ASSUME UNCHANGED <<rows, list, half, why>> PROVE MarksStay'
    BY <1>1 DEF MarksStay
<1>2. ASSUME NEW c \in Callers, AddWorktree(c) PROVE MarksStay'
    <2>1. CASE UNCHANGED why
        <3>1. UNCHANGED <<rows, list, half>> BY <1>2 DEF AddWorktree
        <3> QED BY <1>1, <2>1, <3>1
    <2>2. CASE Add(call[c].branch, call[c].path, call[c].new, rows)
        <3>1. call[c].branch \in Branches /\ call[c].path \in Paths /\ call[c].new \in BOOLEAN
            BY <1>2 DEF AddWorktree, Named, WorkersOK
        <3>2. UNCHANGED <<rows, list, half>> BY <1>2 DEF AddWorktree
        <3> QED BY <2>2, <3>1, <3>2, AddKeepsMarks
    <2> QED BY <1>2, <2>1, <2>2 DEF AddWorktree
<1>3. ASSUME NEW c \in Callers, RecordWorktree(c) PROVE MarksStay'
    <2>1. UNCHANGED <<list, half, why>> BY <1>3 DEF RecordWorktree
    <2>2. UNCHANGED rows \/ rows' = Inserted(rows, call[c].branch, call[c].path) BY <1>3 DEF RecordWorktree
    <2>3. NoneMarked BY <2>2 DEF NoneMarked, Inserted
    <2> QED BY <2>1, <2>3, SameMarks DEF OnlyPushed
<1>4. ASSUME NEW c \in Callers, UndoCreate(c) PROVE MarksStay'
    <2>1. NoneMarked BY <1>4 DEF UndoCreate, NoneMarked
    <2>2. call[c].branch \in Branches /\ call[c].path \in Paths BY <1>4 DEF UndoCreate, Named, WorkersOK, Item
    <2>3. OnlyPushed BY <1>4, <2>2, ForcedDeletion DEF UndoCreate, OnlyPushed
    <2>4. list' \cup half' \subseteq list \cup half BY <1>4 DEF UndoCreate
    <2> QED BY <2>1, <2>3, <2>4, SameMarks
<1>5. ASSUME NEW a \in Agents, NEW i \in DOMAIN rows, SpawnShared(a, i) PROVE MarksStay'
    <2>1. NoneMarked BY <1>5 DEF SpawnShared, NoneMarked, stores
    <2>2. OnlyPushed BY <1>5 DEF SpawnShared, OnlyPushed, Because
    <2>3. list' \cup half' \subseteq list \cup half BY <1>5 DEF SpawnShared
    <2> QED BY <2>1, <2>2, <2>3, SameMarks
<1>6. ASSUME NEW a \in Agents, NEW b \in Branches, SpawnFresh(a, b) PROVE MarksStay'
    <2> DEFINE kept == Without(RowsOf(b))
    <2>1. Add(b, b, TRUE, kept) /\ UNCHANGED <<list, half>> BY <1>6 DEF SpawnFresh
    <2>2. DOMAIN kept \subseteq DOMAIN rows /\ \A i \in DOMAIN kept : kept[i] = rows[i] BY DEF Without
    <2>3. rows' = Inserted(kept, b, b) \/ rows' = kept BY <1>6 DEF SpawnFresh
    <2> HIDE DEF kept
    <2>4. \A i \in DOMAIN rows' : rows'[i].status = "merged" => i \in DOMAIN kept /\ rows'[i] = kept[i]
        BY <2>3 DEF Inserted
    <2>5. b \in Paths BY DEF Paths
    <2> QED BY <2>1, <2>2, <2>4, <2>5, AddKeepsMarks
<1>7. ASSUME NEW a \in Agents, Prepared(a) PROVE MarksStay'
    <2>1. NoneMarked BY <1>7 DEF Prepared, NoneMarked, stores
    <2>2. OnlyPushed BY <1>7 DEF Prepared, OnlyPushed, Because
    <2>3. list' \cup half' \subseteq list \cup half BY <1>7 DEF Prepared
    <2> QED BY <2>1, <2>2, <2>3, SameMarks
<1>8. ASSUME NEW a \in Agents, CleanUp(a) PROVE MarksStay'
    <2>1. NoneMarked BY <1>8 DEF CleanUp, NoneMarked
    <2>2. OnlyPushed BY <1>8 DEF CleanUp, OnlyPushed, Blame
    <2>3. list' \cup half' \subseteq list \cup half BY <1>8 DEF CleanUp
    <2> QED BY <2>1, <2>2, <2>3, SameMarks
<1>9. ASSUME NEW a \in Agents, EraseRecord(a) PROVE MarksStay'
    <2>1. NoneMarked BY <1>9 DEF EraseRecord, NoneMarked, Without
    <2>2. OnlyPushed BY <1>9 DEF EraseRecord, OnlyPushed
    <2>3. list' \cup half' \subseteq list \cup half BY <1>9 DEF EraseRecord
    <2> QED BY <2>1, <2>2, <2>3, SameMarks
<1>10. ASSUME NEW a \in Agents, Commit(a) PROVE MarksStay'
    <2>1. NoneMarked BY <1>10 DEF Commit, NoneMarked
    <2>2. OnlyPushed BY <1>10 DEF Commit, OnlyPushed, Because, workers
    <2>3. list' \cup half' \subseteq list \cup half BY <1>10 DEF Commit, workers
    <2> QED BY <2>1, <2>2, <2>3, SameMarks
<1>11. ASSUME NEW i \in DOMAIN rows, MarkMerged(i) PROVE MarksStay'
    <2>1. UNCHANGED <<list, half>> /\ rows' = Marked(i, "merged") /\ why' = MarksOf(i)
        BY <1>11 DEF MarkMerged, workers
    <2> QED BY <2>1, MarkingKeepsMarks
<1>12. ASSUME NEW i \in DOMAIN rows, Abandon(i) PROVE MarksStay'
    <2>1. NoneMarked BY <1>12 DEF Abandon, NoneMarked, Row
    <2>2. OnlyPushed BY <1>12 DEF Abandon, OnlyPushed, workers
    <2>3. list' \cup half' \subseteq list \cup half BY <1>12 DEF Abandon, workers
    <2> QED BY <2>1, <2>2, <2>3, SameMarks
<1>13. ASSUME NEW i \in DOMAIN rows, Reactivate(i) PROVE MarksStay'
    <2>1. NoneMarked BY <1>13 DEF Reactivate, NoneMarked, Row
    <2>2. OnlyPushed BY <1>13 DEF Reactivate, OnlyPushed, workers
    <2>3. list' \cup half' \subseteq list \cup half BY <1>13 DEF Reactivate, workers
    <2> QED BY <2>1, <2>2, <2>3, SameMarks
<1>14. ASSUME NEW i \in DOMAIN rows, NEW force \in BOOLEAN, DeleteWorktree(i, force)
        PROVE MarksStay'
    <2>1. NoneMarked BY <1>14 DEF DeleteWorktree, NoneMarked, Without
    <2>2. OnlyPushed BY <1>14 DEF DeleteWorktree, OnlyPushed, Blame
    <2>3. list' \cup half' \subseteq list \cup half BY <1>14 DEF DeleteWorktree
    <2> QED BY <2>1, <2>2, <2>3, SameMarks
<1>15. ASSUME NEW i \in DOMAIN rows, RouteDelete(i) PROVE MarksStay'
    <2>1. NoneMarked BY <1>15 DEF RouteDelete, NoneMarked, Without
    <2>2. OnlyPushed BY <1>15 DEF RouteDelete, OnlyPushed, Blame
    <2>3. list' \cup half' \subseteq list \cup half BY <1>15 DEF RouteDelete
    <2> QED BY <2>1, <2>2, <2>3, SameMarks
<1>16. ASSUME NEW i \in DOMAIN rows, Ripen(i) PROVE MarksStay'
    <2>1. NoneMarked BY <1>16 DEF Ripen, NoneMarked, Row
    <2>2. OnlyPushed BY <1>16 DEF Ripen, OnlyPushed, workers
    <2>3. list' \cup half' \subseteq list \cup half BY <1>16 DEF Ripen, workers
    <2> QED BY <2>1, <2>2, <2>3, SameMarks
<1>17. ASSUME NEW c \in Callers, NEW i \in DOMAIN rows, NEW push \in BOOLEAN, Merge(c,
        i, push) PROVE MarksStay'
    <2>1. UNCHANGED <<list, half>> /\ rows' = Marked(i, "merged") /\ why' = MarksOf(i)
        BY <1>17 DEF Merge
    <2> QED BY <2>1, MarkingKeepsMarks
<1>18. ASSUME NEW stale \in SUBSET DOMAIN rows, NEW git \in BOOLEAN, Sweep(stale, git)
        PROVE MarksStay'
    <2>1. UNCHANGED <<half, why>> BY <1>18 DEF Sweep
    <2>2. NoneMarked BY <1>18 DEF Sweep, NoneMarked, Row
    <2>3. \A m \in list' : m \in list \/ m.kind = "stale" \/ \E i \in Expired : m.branch = rows[i].branch
        BY <1>18 DEF Sweep, ItemOf
    <2> QED BY <2>1, <2>2, <2>3, ListingKeepsMarks
<1>19. ASSUME NEW m \in list, SweepItem(m) PROVE MarksStay'
    <2>1. NoneMarked BY <1>19 DEF SweepItem, NoneMarked, Without
    <2>2. m.branch \in Branches /\ m.path \in Paths BY <1>19 DEF SweepItem, Named, WorkersOK, Item
    <2>3. OnlyPushed BY <1>19, <2>2, ForcedDeletion DEF SweepItem, OnlyPushed
    <2>4. list' \cup half' \subseteq list \cup half BY <1>19 DEF SweepItem
    <2> QED BY <2>1, <2>3, <2>4, SameMarks
<1>20. ASSUME NEW m \in list, NEW usable \in BOOLEAN, ReapDirectory(m, usable) PROVE
        MarksStay'
    <2>1. NoneMarked BY <1>20 DEF ReapDirectory, NoneMarked
    <2>2. OnlyPushed BY <1>20 DEF ReapDirectory, OnlyPushed, Blame
    <2>3. list' \cup half' \subseteq list \cup half BY <1>20 DEF ReapDirectory
    <2> QED BY <2>1, <2>2, <2>3, SameMarks
<1>21. ASSUME NEW m \in half, NEW usable \in BOOLEAN, ReapBranch(m, usable) PROVE
        MarksStay'
    <2>1. NoneMarked BY <1>21 DEF ReapBranch, NoneMarked, Without
    <2>2. OnlyPushed BY <1>21 DEF ReapBranch, OnlyPushed, Because
    <2>3. list' \cup half' \subseteq list \cup half BY <1>21 DEF ReapBranch
    <2> QED BY <2>1, <2>2, <2>3, SameMarks
<1>22. ASSUME NEW m \in half, ReapTimesOut(m) PROVE MarksStay'
    <2>1. NoneMarked BY <1>22 DEF ReapTimesOut, NoneMarked, stores
    <2>2. OnlyPushed BY <1>22 DEF ReapTimesOut, OnlyPushed, Because
    <2>3. list' \cup half' \subseteq list \cup half BY <1>22 DEF ReapTimesOut
    <2> QED BY <2>1, <2>2, <2>3, SameMarks
<1>23. ASSUME BeginReap PROVE MarksStay'
    <2>1. UNCHANGED <<half, why>> /\ NoneMarked BY <1>23 DEF BeginReap, stores, NoneMarked
    <2>2. \A m \in list' : m \in list \/ m.kind = "stale" \/ \E i \in Expired : m.branch = rows[i].branch
        BY <1>23 DEF BeginReap, ItemOf
    <2> QED BY <2>1, <2>2, ListingKeepsMarks
<1>24. ASSUME Crash PROVE MarksStay'
    <2>1. NoneMarked BY <1>24 DEF Crash, NoneMarked, stores
    <2>2. OnlyPushed BY <1>24 DEF Crash, OnlyPushed, Because
    <2>3. list' \cup half' \subseteq list \cup half BY <1>24 DEF Crash
    <2> QED BY <2>1, <2>2, <2>3, SameMarks
<1>25. ASSUME NEW b \in Branches, SpawnRefused(b) PROVE MarksStay'
    <2>1. NoneMarked BY <1>25 DEF SpawnRefused, NoneMarked, Without
    <2>2. OnlyPushed BY <1>25 DEF SpawnRefused, OnlyPushed, workers
    <2>3. list' \cup half' \subseteq list \cup half BY <1>25 DEF SpawnRefused, workers
    <2> QED BY <2>1, <2>2, <2>3, SameMarks
<1>26. ASSUME NEW p \in Paths, Vanish(p) PROVE MarksStay'
    <2>1. NoneMarked BY <1>26 DEF Vanish, NoneMarked
    <2>2. OnlyPushed BY <1>26 DEF Vanish, OnlyPushed, Because
    <2>3. list' \cup half' \subseteq list \cup half BY <1>26 DEF Vanish
    <2> QED BY <2>1, <2>2, <2>3, SameMarks
<1>27. ASSUME NEW c \in Callers, NEW ok \in BOOLEAN, Push(c, ok) PROVE MarksStay'
    <2>1. NoneMarked BY <1>27 DEF Push, NoneMarked
    <2>2. OnlyPushed BY <1>27 DEF Push, OnlyPushed, HistoryOK
    <2>3. list' \cup half' \subseteq list \cup half BY <1>27 DEF Push
    <2> QED BY <2>1, <2>2, <2>3, SameMarks
<1>28. CASE Create BY <1>28, <1>1, <1>2, <1>3, <1>4 DEF Create, BeginCreate, stores,
          workers, Spared
<1>29. CASE Work BY <1>29, <1>1, <1>5, <1>6, <1>7, <1>8, <1>9, <1>10 DEF Work, End,
          stores, workers, Spared
<1>30. CASE Handle BY <1>30, <1>11, <1>12, <1>13, <1>14, <1>15, <1>16, <1>17 DEF Handle
<1>31. CASE Clean BY <1>31, <1>18, <1>19, <1>20, <1>21, <1>22, <1>23 DEF Clean
<1> QED BY <1>1, <1>24, <1>25, <1>26, <1>27, <1>28, <1>29, <1>30, <1>31 DEF Next, vars,
        stores, workers, Spared

\* A branch that exists keeps its history, apart from what is pushed.
HistoryStays == \A b \in Branches : head[b] # "gone" => why[b] \ {"unpushed"} \subseteq why'[b]

\* Only the creation of a branch clears its history.
LEMMA HistoryStaysStep ==
    ASSUME GroundInv, [Next]_vars
    PROVE  HistoryStays
<1> USE BranchesAreNames DEF BranchesAreNames
<1>0. TableOK /\ GitOK /\ WorkersOK /\ HistoryOK /\ Named BY DEF GroundInv, IInv, TypeOK
<1> USE <1>0 DEF TableOK, HistoryStays
<1>1. ASSUME UNCHANGED why PROVE HistoryStays
    BY <1>1
<1>2. ASSUME NEW c \in Callers, AddWorktree(c) PROVE HistoryStays
    BY <1>2 DEF AddWorktree, CanAdd, Add, HistoryOK
<1>3. ASSUME NEW c \in Callers, UndoCreate(c) PROVE HistoryStays
    <2>1. call[c].branch \in Branches /\ call[c].path \in Paths BY <1>3 DEF UndoCreate, Named, WorkersOK, Item
    <2> QED BY <1>3, <2>1, ForcedDeletion DEF UndoCreate
<1>4. ASSUME NEW a \in Agents, NEW i \in DOMAIN rows, SpawnShared(a, i) PROVE
        HistoryStays
    BY <1>4 DEF SpawnShared, Because
<1>5. ASSUME NEW a \in Agents, NEW b \in Branches, SpawnFresh(a, b) PROVE HistoryStays
    BY <1>5 DEF SpawnFresh, CanAdd, Add, HistoryOK
<1>6. ASSUME NEW a \in Agents, Prepared(a) PROVE HistoryStays
    BY <1>6 DEF Prepared, Because
<1>7. ASSUME NEW a \in Agents, CleanUp(a) PROVE HistoryStays
    BY <1>7 DEF CleanUp, Blame
<1>8. ASSUME NEW a \in Agents, Commit(a) PROVE HistoryStays
    BY <1>8 DEF Commit, Because
<1>9. ASSUME NEW i \in DOMAIN rows, MarkMerged(i) PROVE HistoryStays
    BY <1>9 DEF MarkMerged, MarksOf, Because
<1>10. ASSUME NEW i \in DOMAIN rows, NEW force \in BOOLEAN, DeleteWorktree(i, force)
        PROVE HistoryStays
    BY <1>10 DEF DeleteWorktree, Blame
<1>11. ASSUME NEW i \in DOMAIN rows, RouteDelete(i) PROVE HistoryStays
    BY <1>11 DEF RouteDelete, Blame
<1>12. ASSUME NEW c \in Callers, NEW i \in DOMAIN rows, NEW push \in BOOLEAN, Merge(c,
        i, push) PROVE HistoryStays
    BY <1>12 DEF Merge, MarksOf, Because
<1>13. ASSUME NEW m \in list, SweepItem(m) PROVE HistoryStays
    <2>1. m.branch \in Branches /\ m.path \in Paths BY <1>13 DEF SweepItem, Named, WorkersOK, Item
    <2> QED BY <1>13, <2>1, ForcedDeletion DEF SweepItem
<1>14. ASSUME NEW m \in list, NEW usable \in BOOLEAN, ReapDirectory(m, usable) PROVE
        HistoryStays
    BY <1>14 DEF ReapDirectory, Blame
<1>15. ASSUME NEW m \in half, NEW usable \in BOOLEAN, ReapBranch(m, usable) PROVE
        HistoryStays
    BY <1>15 DEF ReapBranch, Because
<1>16. ASSUME NEW m \in half, ReapTimesOut(m) PROVE HistoryStays
    BY <1>16 DEF ReapTimesOut, Because
<1>17. ASSUME Crash PROVE HistoryStays
    BY <1>17 DEF Crash, Because
<1>18. ASSUME NEW p \in Paths, Vanish(p) PROVE HistoryStays
    BY <1>18 DEF Vanish, Because
<1>19. ASSUME NEW c \in Callers, NEW ok \in BOOLEAN, Push(c, ok) PROVE HistoryStays
    BY <1>19 DEF Push, HistoryOK
<1>20. CASE Create BY <1>20, <1>1, <1>2, <1>3 DEF Create, BeginCreate, RecordWorktree,
          stores, workers, Spared
<1>21. CASE Work BY <1>21, <1>1, <1>4, <1>5, <1>6, <1>7, <1>8 DEF Work, EraseRecord,
          End, stores, workers, Spared
<1>22. CASE Handle BY <1>22, <1>1, <1>9, <1>10, <1>11, <1>12 DEF Handle, Abandon,
          Reactivate, Ripen, stores, workers, Spared
<1>23. CASE Clean BY <1>23, <1>1, <1>13, <1>14, <1>15, <1>16 DEF Clean, Sweep,
          BeginReap, stores, workers, Spared
<1> QED BY <1>1, <1>17, <1>18, <1>19, <1>20, <1>21, <1>22, <1>23 DEF Next, vars,
        SpawnRefused, stores, workers, Spared

\* Spawns and calls that may yet fail are at paths that were free.
WillBeUnsettled(p) ==
    \/ \E a \in Agents : seat'[a].phase \in {"preparing", "clearing", "erasing"} /\ seat'[a].path = p
    \/ \E c \in Callers : call'[c].pc \in {"recording", "undoing"} /\ call'[c].path = p

FreshAtFree ==
    \A p \in Paths : WillBeUnsettled(p) => Unsettled(Agents, p) \/ p \notin disk

\* So they are in each step.
LEMMA UnsettledStep ==
    ASSUME GroundInv, [Next]_vars
    PROVE  FreshAtFree
<1>0. WorkersOK BY DEF GroundInv, IInv, TypeOK
<1> USE <1>0 DEF WorkersOK, FreshAtFree, Unsettled, WillBeUnsettled
<1>1. ASSUME UNCHANGED <<seat, call>> PROVE FreshAtFree
    BY <1>1
<1>2. ASSUME NEW c \in Callers, NEW b \in Branches, NEW p \in Paths, NEW new \in
        BOOLEAN, NEW good \in BOOLEAN, BeginCreate(c, b, p, new, good) PROVE FreshAtFree
    BY <1>2 DEF BeginCreate
<1>3. ASSUME NEW c \in Callers, AddWorktree(c) PROVE FreshAtFree
    BY <1>3 DEF AddWorktree, CanAdd, NoCall
<1>4. ASSUME NEW c \in Callers, RecordWorktree(c) PROVE FreshAtFree
    BY <1>4 DEF RecordWorktree, NoCall
<1>5. ASSUME NEW c \in Callers, UndoCreate(c) PROVE FreshAtFree
    <2>1. seat' = seat \/ seat' = Evicted(call[c].path) BY <1>5 DEF UndoCreate, DeleteByForce
    <2>2. call' = [call EXCEPT ![c] = NoCall] BY <1>5 DEF UndoCreate
    <2>3. \A o \in Agents : seat'[o].phase \in {"preparing", "clearing", "erasing"} =>
              Unready(o) /\ seat'[o].path = seat[o].path
        BY <2>1, EvictedIds DEF Unready
    <2> QED BY <2>2, <2>3 DEF Unready, NoCall
<1>6. ASSUME NEW a \in Agents, NEW i \in DOMAIN rows, SpawnShared(a, i) PROVE
        FreshAtFree
    BY <1>6 DEF SpawnShared
<1>7. ASSUME NEW a \in Agents, NEW b \in Branches, SpawnFresh(a, b) PROVE FreshAtFree
    BY <1>7 DEF SpawnFresh, CanAdd
<1>8. ASSUME NEW a \in Agents, Prepared(a) PROVE FreshAtFree
    BY <1>8 DEF Prepared
<1>9. ASSUME NEW a \in Agents, CleanUp(a) PROVE FreshAtFree
    <2>1. UNCHANGED call BY <1>9 DEF CleanUp
    <2>2. \A o \in Agents : seat'[o].phase \in {"preparing", "clearing", "erasing"} =>
              Unready(o) /\ seat'[o].path = seat[o].path
        BY <1>9 DEF CleanUp, Evicted, Unready
    <2> QED BY <2>1, <2>2 DEF Unready
<1>10. ASSUME NEW a \in Agents, EraseRecord(a) PROVE FreshAtFree
    BY <1>10 DEF EraseRecord, NoSeat
<1>11. ASSUME NEW a \in Agents, End(a) PROVE FreshAtFree
    BY <1>11 DEF End, NoSeat
<1>12. ASSUME NEW i \in DOMAIN rows, NEW force \in BOOLEAN, DeleteWorktree(i, force)
        PROVE FreshAtFree
    <2>1. seat' = seat \/ seat' = Evicted(rows[i].path) BY <1>12 DEF DeleteWorktree
    <2>2. UNCHANGED call BY <1>12 DEF DeleteWorktree
    <2>3. \A o \in Agents : seat'[o].phase \in {"preparing", "clearing", "erasing"} =>
              Unready(o) /\ seat'[o].path = seat[o].path
        BY <2>1, EvictedIds DEF Unready
    <2> QED BY <2>2, <2>3 DEF Unready, NoCall
<1>13. ASSUME NEW i \in DOMAIN rows, RouteDelete(i) PROVE FreshAtFree
    <2>1. seat' = seat \/ seat' = Evicted(rows[i].path) BY <1>13 DEF RouteDelete
    <2>2. UNCHANGED call BY <1>13 DEF RouteDelete
    <2>3. \A o \in Agents : seat'[o].phase \in {"preparing", "clearing", "erasing"} =>
              Unready(o) /\ seat'[o].path = seat[o].path
        BY <2>1, EvictedIds DEF Unready
    <2> QED BY <2>2, <2>3 DEF Unready, NoCall
<1>14. ASSUME NEW c \in Callers, NEW i \in DOMAIN rows, NEW push \in BOOLEAN, Merge(c,
        i, push) PROVE FreshAtFree
    BY <1>14 DEF Merge, NoCall
<1>15. ASSUME NEW m \in list, SweepItem(m) PROVE FreshAtFree
    <2>1. seat' = seat \/ seat' = Evicted(m.path) BY <1>15 DEF SweepItem, DeleteByForce
    <2>2. UNCHANGED call BY <1>15 DEF SweepItem
    <2>3. \A o \in Agents : seat'[o].phase \in {"preparing", "clearing", "erasing"} =>
              Unready(o) /\ seat'[o].path = seat[o].path
        BY <2>1, EvictedIds DEF Unready
    <2> QED BY <2>2, <2>3 DEF Unready, NoCall
<1>16. ASSUME NEW m \in list, NEW usable \in BOOLEAN, ReapDirectory(m, usable) PROVE
        FreshAtFree
    <2>1. seat' = seat \/ seat' = Evicted(m.path) BY <1>16 DEF ReapDirectory
    <2>2. UNCHANGED call BY <1>16 DEF ReapDirectory
    <2>3. \A o \in Agents : seat'[o].phase \in {"preparing", "clearing", "erasing"} =>
              Unready(o) /\ seat'[o].path = seat[o].path
        BY <2>1, EvictedIds DEF Unready
    <2> QED BY <2>2, <2>3 DEF Unready, NoCall
<1>17. ASSUME Crash PROVE FreshAtFree
    BY <1>17 DEF Crash, NoSeat, NoCall
<1>18. ASSUME NEW p \in Paths, Vanish(p) PROVE FreshAtFree
    <2>1. seat' = seat \/ seat' = Evicted(p) BY <1>18 DEF Vanish
    <2>2. UNCHANGED call BY <1>18 DEF Vanish
    <2>3. \A o \in Agents : seat'[o].phase \in {"preparing", "clearing", "erasing"} =>
              Unready(o) /\ seat'[o].path = seat[o].path
        BY <2>1, EvictedIds DEF Unready
    <2> QED BY <2>2, <2>3 DEF Unready, NoCall
<1>19. ASSUME NEW c \in Callers, NEW ok \in BOOLEAN, Push(c, ok) PROVE FreshAtFree
    BY <1>19 DEF Push, NoCall
<1>20. CASE Create BY <1>20, <1>2, <1>3, <1>4, <1>5 DEF Create
<1>21. CASE Work BY <1>21, <1>1, <1>6, <1>7, <1>8, <1>9, <1>10, <1>11 DEF Work, Commit,
          stores, workers, Spared
<1>22. CASE Handle BY <1>22, <1>1, <1>12, <1>13, <1>14 DEF Handle, MarkMerged, Abandon,
          Reactivate, Ripen, stores, workers, Spared
<1>23. CASE Clean BY <1>23, <1>1, <1>15, <1>16 DEF Clean, Sweep, ReapBranch,
          ReapTimesOut, BeginReap, stores, workers, Spared
<1> QED BY <1>1, <1>17, <1>18, <1>19, <1>20, <1>21, <1>22, <1>23 DEF Next, vars,
        SpawnRefused, stores, workers, Spared

\* Whoever comes to work where a spawn or a call may yet fail is marked.
NewcomersAreMarked ==
    \A a \in Agents : seat'[a].phase = "working" =>
        \/ seat[a].phase = "working" /\ seat'[a].path = seat[a].path /\ seat'[a].branch = seat[a].branch
        \/ WillBeUnsettled(seat'[a].path) => "shared" \in why'[seat'[a].branch]

\* So is every newcomer of each step.
LEMMA NewcomersStep ==
    ASSUME GroundInv, [Next]_vars
    PROVE  NewcomersAreMarked
<1>0. TableOK /\ GitOK /\ WorkersOK /\ Homes BY DEF GroundInv, IInv, TypeOK
<1> USE <1>0 DEF NewcomersAreMarked
<1>1. ASSUME UNCHANGED seat PROVE NewcomersAreMarked
    BY <1>1
<1>2. ASSUME NEW c \in Callers, UndoCreate(c) PROVE NewcomersAreMarked
    <2>1. seat' = seat \/ seat' = Evicted(call[c].path) BY <1>2 DEF UndoCreate, DeleteByForce
    <2> QED BY <2>1, EvictedAreOut
<1>3. ASSUME NEW a \in Agents, NEW i \in DOMAIN rows, SpawnShared(a, i) PROVE
        NewcomersAreMarked
    <2> DEFINE p == rows[i].path
    <2>1. p \in Paths /\ p \in disk /\ reg[p] \in Branches BY <1>3 DEF SpawnShared, Homes, TableOK, Row, GitOK
    <2>2. seat'[a].path = p /\ seat'[a].branch = reg[p] /\ seat[a].phase = "away" BY <1>3 DEF SpawnShared, WorkersOK
    <2>3. \A o \in Agents : o # a => seat'[o] = seat[o] BY <1>3 DEF SpawnShared, WorkersOK
    <2>4. seat'[a].phase = "working" /\ UNCHANGED call BY <1>3 DEF SpawnShared, WorkersOK
    <2>5. WillBeUnsettled(p) => Unsettled(Agents, p) BY <2>3, <2>4 DEF Unsettled, WillBeUnsettled
    <2>6. Unsettled(Agents, p) => "shared" \in why'[reg[p]] BY <1>3, <2>1 DEF SpawnShared, Because
    <2> QED BY <2>2, <2>3, <2>5, <2>6
<1>4. ASSUME NEW a \in Agents, NEW b \in Branches, SpawnFresh(a, b) PROVE
        NewcomersAreMarked
    BY <1>4 DEF SpawnFresh, WorkersOK
<1>5. ASSUME NEW a \in Agents, Prepared(a) PROVE NewcomersAreMarked
    <2> DEFINE p == seat[a].path
    <2>1. p \in disk /\ reg[p] \in Branches BY <1>5 DEF Prepared, Homes, GitOK, Paths
    <2>2. seat'[a].path = p /\ seat'[a].branch = reg[p] BY <1>5 DEF Prepared, WorkersOK
    <2>3. \A o \in Agents : o # a => seat'[o] = seat[o] BY <1>5 DEF Prepared, WorkersOK
    <2>4. seat'[a].phase = "working" /\ UNCHANGED call BY <1>5 DEF Prepared, WorkersOK
    <2>5. WillBeUnsettled(p) => Unsettled(Agents \ {a}, p) BY <2>3, <2>4 DEF Unsettled, WillBeUnsettled
    <2>6. Unsettled(Agents \ {a}, p) => "shared" \in why'[reg[p]] BY <1>5, <2>1 DEF Prepared, Because
    <2> QED BY <2>2, <2>3, <2>5, <2>6
<1>6. ASSUME NEW a \in Agents, CleanUp(a) PROVE NewcomersAreMarked
    BY <1>6 DEF CleanUp, Evicted, WorkersOK
<1>7. ASSUME NEW a \in Agents, EraseRecord(a) PROVE NewcomersAreMarked
    BY <1>7 DEF EraseRecord, NoSeat, WorkersOK
<1>8. ASSUME NEW a \in Agents, End(a) PROVE NewcomersAreMarked
    BY <1>8 DEF End, NoSeat, WorkersOK
<1>9. ASSUME NEW i \in DOMAIN rows, NEW force \in BOOLEAN, DeleteWorktree(i, force)
        PROVE NewcomersAreMarked
    <2>1. seat' = seat \/ seat' = Evicted(rows[i].path) BY <1>9 DEF DeleteWorktree
    <2> QED BY <2>1, EvictedAreOut
<1>10. ASSUME NEW i \in DOMAIN rows, RouteDelete(i) PROVE NewcomersAreMarked
    <2>1. seat' = seat \/ seat' = Evicted(rows[i].path) BY <1>10 DEF RouteDelete
    <2> QED BY <2>1, EvictedAreOut
<1>11. ASSUME NEW m \in list, SweepItem(m) PROVE NewcomersAreMarked
    <2>1. seat' = seat \/ seat' = Evicted(m.path) BY <1>11 DEF SweepItem, DeleteByForce
    <2> QED BY <2>1, EvictedAreOut
<1>12. ASSUME NEW m \in list, NEW usable \in BOOLEAN, ReapDirectory(m, usable) PROVE
        NewcomersAreMarked
    <2>1. seat' = seat \/ seat' = Evicted(m.path) BY <1>12 DEF ReapDirectory
    <2> QED BY <2>1, EvictedAreOut
<1>13. ASSUME Crash PROVE NewcomersAreMarked
    BY <1>13 DEF Crash, NoSeat, WorkersOK
<1>14. ASSUME NEW p \in Paths, Vanish(p) PROVE NewcomersAreMarked
    <2>1. seat' = seat \/ seat' = Evicted(p) BY <1>14 DEF Vanish
    <2> QED BY <2>1, EvictedAreOut
<1>15. CASE Create BY <1>15, <1>1, <1>2 DEF Create, BeginCreate, AddWorktree,
          RecordWorktree, stores, workers, Spared
<1>16. CASE Work BY <1>16, <1>1, <1>3, <1>4, <1>5, <1>6, <1>7, <1>8 DEF Work, Commit,
          stores, workers, Spared
<1>17. CASE Handle BY <1>17, <1>1, <1>9, <1>10 DEF Handle, MarkMerged, Abandon,
          Reactivate, Ripen, Merge, stores, workers, Spared
<1>18. CASE Clean BY <1>18, <1>1, <1>11, <1>12 DEF Clean, Sweep, ReapBranch,
          ReapTimesOut, BeginReap, stores, workers, Spared
<1> QED BY <1>1, <1>13, <1>14, <1>15, <1>16, <1>17, <1>18 DEF Next, vars, SpawnRefused,
        Push, stores, workers, Spared

\* Nobody works where somebody may fail without being marked.
LEMMA SharersStep ==
    ASSUME GroundInv, [Next]_vars
    PROVE  SharersAreMarked'
<1> SUFFICES ASSUME NEW a \in Agents, seat'[a].phase = "working", WillBeUnsettled(seat'[a].path)
             PROVE  "shared" \in why'[seat'[a].branch]
    BY DEF SharersAreMarked, Unsettled, WillBeUnsettled
<1>1. CASE seat[a].phase = "working" /\ seat'[a].path = seat[a].path /\ seat'[a].branch = seat[a].branch
    <2> DEFINE p == seat[a].path
    <2>1. p \in Paths /\ p \in disk /\ reg[p] = seat[a].branch /\ reg[p] \in Branches
        BY <1>1 DEF GroundInv, IInv, TypeOK, GitOK, Homes, Paths
    <2>2. WillBeUnsettled(p) BY <1>1
    <2>3. Unsettled(Agents, p) BY <2>1, <2>2, UnsettledStep DEF FreshAtFree
    <2>4. "shared" \in why[seat[a].branch] BY <1>1, <2>3 DEF GroundInv, SharersAreMarked
    <2>5. head[reg[p]] # "gone" BY <2>1, BranchesAreNames DEF GroundInv, IInv, Checkouts, BranchesAreNames
    <2> QED BY <1>1, <2>1, <2>4, <2>5, HistoryStaysStep DEF HistoryStays
<1>2. CASE WillBeUnsettled(seat'[a].path) => "shared" \in why'[seat'[a].branch]
    BY <1>2
<1> QED BY <1>1, <1>2, NewcomersStep DEF NewcomersAreMarked

\* What keeps a worktree is still there: records, spawns and calls.
SeatsStay ==
    \A a \in Agents :
        /\ seat'[a].phase = "erasing" => seat[a].phase = "erasing" /\ seat'[a].id = seat[a].id
        /\ seat[a].phase = "clearing" => seat'[a] = seat[a]

CallsStay(d, q) ==
    \A c \in Callers :
        call[c].pc \in {"recording", "undoing"} /\ call[c].branch = d /\ call[c].path = q =>
            /\ call'[c].pc \in {"recording", "undoing"}
            /\ call'[c].branch = d /\ call'[c].path = q

RecordStays(d, q) ==
    \A i \in DOMAIN rows : rows[i].branch = d /\ rows[i].path = q =>
        \/ i \in DOMAIN rows' /\ rows'[i].branch = d /\ rows'[i].path = q
        \/ \E a \in Agents : seat[a].phase = "erasing" /\ seat[a].id = i

\* Then so is the worktree.
LEMMA StaysKept ==
    ASSUME NEW d, NEW q, Kept(d, q), SeatsStay, CallsStay(d, q), RecordStays(d, q)
    PROVE  Kept(d, q)'
BY DEF Kept, SeatsStay, CallsStay, RecordStays

\* A branch stays justified if each worktree that is kept for it still is, or
\* its loss is a fault, the branch's end or the reaper's first half.
LEMMA StaysJustified ==
    ASSUME GroundInv, HistoryStays, NEW d \in Branches, head'[d] # "gone" => head[d] # "gone",
           \A q \in disk : reg[q] = d /\ Kept(d, q) =>
               \/ q \in disk' /\ reg'[q] = d /\ Kept(d, q)'
               \/ head'[d] = "gone" \/ Fault(d)' \/ \E m \in half' : m.branch = d,
           \A m \in half : m.branch = d => m \in half' \/ head'[d] = "gone" \/ Fault(d)'
    PROVE  Justified(d)'
<1> SUFFICES ASSUME head'[d] # "gone", ~Fault(d)' PROVE Tended(d)' BY DEF Justified
<1>1. ~Fault(d) BY DEF HistoryStays, Fault
<1>2. Tended(d) BY <1>1 DEF GroundInv, BranchesAreTended, Justified
<1> QED BY <1>2 DEF Tended

\* Seats and calls keep what they kept when somebody is evicted.
LEMMA EvictedStay ==
    ASSUME WorkersOK, NEW p, seat' = seat \/ seat' = Evicted(p)
    PROVE  SeatsStay
BY DEF WorkersOK, Evicted, SeatsStay

\* A branch whose directory and record go with it, or that notes a fault, is
\* justified, and so are the others.
LEMMA DirectoryGone ==
    ASSUME GroundInv, HistoryStays, NEW b \in Branches, NEW p \in Paths, NEW d \in Branches,
           head'[d] # "gone" => head[d] # "gone",
           disk' = disk \ {p}, \A q \in disk' : reg'[q] = reg[q], half \subseteq half',
           \A q \in disk' : Kept(d, q) => Kept(d, q)' \/ Fault(d)',
           reg[p] = d => head'[d] = "gone" \/ Fault(d)' \/ \E m \in half' : m.branch = d
    PROVE  Justified(d)'
<1>1. ASSUME NEW q \in disk, reg[q] = d, Kept(d, q)
      PROVE  \/ q \in disk' /\ reg'[q] = d /\ Kept(d, q)'
             \/ head'[d] = "gone" \/ Fault(d)' \/ \E m \in half' : m.branch = d
    <2>1. CASE q = p BY <1>1, <2>1
    <2>2. CASE q # p BY <1>1, <2>2
    <2> QED BY <2>1, <2>2
<1> QED BY <1>1, StaysJustified

\* The wrong branch is noted as such.
LEMMA OthersAreBlamed ==
    ASSUME HistoryOK, NEW b, NEW p, NEW reasons, why' = Blame(b, p, reasons), NEW d \in Branches
    PROVE  /\ reg[p] = d /\ d # b => Fault(d)'
           /\ d = b => reasons \subseteq why'[d]
BY DEF HistoryOK, Blame, Fault

\* A forced deletion is complete, or a fault.
LEMMA ForcedIsJustified ==
    ASSUME GroundInv, HistoryStays, NEW b \in Branches, NEW p \in Paths, NEW reasons,
           DeleteByForce(b, p, reasons), half \subseteq half', NEW d \in Branches,
           \A q \in disk : ~(d = b /\ q = p) => CallsStay(d, q),
           \A q \in disk : ~(d = b /\ q = p) => RecordStays(d, q)
    PROVE  Justified(d)'
<1>0. GitOK /\ WorkersOK /\ HistoryOK /\ Checkouts /\ b # None
    BY BranchesAreNames DEF GroundInv, IInv, TypeOK, BranchesAreNames
<1>1. head'[d] # "gone" => head[d] # "gone" BY <1>0, ForcedDeletion, BranchesAreNames DEF BranchesAreNames
<1>2. SeatsStay BY <1>0, EvictedStay DEF DeleteByForce
<1>3. \A q \in disk : ~(d = b /\ q = p) /\ Kept(d, q) => Kept(d, q)' BY <1>2, StaysKept
<1>4. CASE p \in disk \/ reg[p] # None
    <2>1. PICK r \in RegWithout(p) :
              /\ reg' = r /\ disk' = disk \ {p}
              /\ BranchesWithout(IF Deletable(b, r, TRUE) THEN {b} ELSE {})
              /\ why' = Blame(b, p, reasons)
        BY <1>4 DEF DeleteByForce
    <2>2. \A q \in disk' : reg'[q] = reg[q] BY <2>1, <1>0, OthersStay
    <2>3. \A q \in disk' : Kept(d, q) => Kept(d, q)' BY <1>3, <2>1
    <2>4. reg[p] = d /\ d = b => head'[d] = "gone"
        <3>1. /\ r[p] = None /\ \A q \in Paths : r[q] # None => r[q] = reg[q]
            BY <1>0, RemovalForgets, BranchesAreNames DEF BranchesAreNames
        <3>2. reg[p] = b => \A q \in Paths : r[q] # b BY <1>0, <3>1 DEF Checkouts
        <3> QED BY <2>1, <3>2 DEF BranchesWithout, Deletable
    <2>5. reg[p] = d => head'[d] = "gone" \/ Fault(d)'
        BY <1>0, <2>1, <2>4, OthersAreBlamed
    <2> QED BY <1>1, <2>1, <2>2, <2>3, <2>5, DirectoryGone
<1>5. CASE ~(p \in disk \/ reg[p] # None)
    <2>1. UNCHANGED <<reg, disk>> BY <1>5 DEF DeleteByForce
    <2>2. \A q \in disk : Kept(d, q) => Kept(d, q)' BY <1>3, <1>5
    <2> QED BY <1>1, <2>1, <2>2, StaysJustified
<1> QED BY <1>4, <1>5

\* The reaper goes on to the next only when the last is done.
LEMMA OneStep ==
    ASSUME GroundInv, [Next]_vars
    PROVE  OneAtATime'
<1>1. ASSUME UNCHANGED half PROVE OneAtATime'
    BY <1>1 DEF GroundInv, OneAtATime
<1>2. ASSUME NEW m \in list, NEW usable \in BOOLEAN, ReapDirectory(m, usable) PROVE
        OneAtATime'
    BY <1>2 DEF ReapDirectory, OneAtATime
<1>3. ASSUME NEW m \in half, NEW usable \in BOOLEAN, ReapBranch(m, usable) PROVE
        OneAtATime'
    BY <1>3 DEF ReapBranch, OneAtATime
<1>4. ASSUME NEW m \in half, ReapTimesOut(m) PROVE OneAtATime'
    BY <1>4 DEF ReapTimesOut, OneAtATime
<1>5. ASSUME Crash PROVE OneAtATime'
    BY <1>5 DEF Crash, OneAtATime
<1>6. CASE Create BY <1>6, <1>1 DEF Create, BeginCreate, AddWorktree, RecordWorktree,
          UndoCreate, stores, workers, Spared
<1>7. CASE Work BY <1>7, <1>1 DEF Work, SpawnShared, SpawnFresh, Prepared, CleanUp,
          EraseRecord, Commit, End, stores, workers, Spared
<1>8. CASE Handle BY <1>8, <1>1 DEF Handle, MarkMerged, Abandon, Reactivate,
          DeleteWorktree, RouteDelete, Ripen, Merge, stores, workers, Spared
<1>9. CASE Clean BY <1>9, <1>1, <1>2, <1>3, <1>4 DEF Clean, Sweep, SweepItem, BeginReap,
          stores, workers, Spared
<1> QED BY <1>1, <1>5, <1>6, <1>7, <1>8, <1>9 DEF Next, vars, SpawnRefused, Vanish,
        Push, stores, workers, Spared

\* Each step leaves every branch in a worktree that is kept for it, or notes a fault.
LEMMA JustifiedStep ==
    ASSUME GroundInv, [Next]_vars, NEW d \in Branches
    PROVE  Justified(d)'
<1> USE BranchesAreNames DEF BranchesAreNames
<1>0. /\ TableOK /\ GitOK /\ WorkersOK /\ HistoryOK /\ Named /\ Ids /\ HistoryStays
      /\ issued \in Nat /\ DOMAIN rows \subseteq 1..issued
    BY HistoryStaysStep DEF GroundInv, IInv, TypeOK, TableOK
<1> USE <1>0
<1>1. ASSUME UNCHANGED <<rows, reg, disk, head, seat, call, half>> PROVE Justified(d)'
    <2>1. \A q \in disk : SeatsStay /\ CallsStay(d, q) /\ RecordStays(d, q)
        BY <1>1 DEF SeatsStay, CallsStay, RecordStays
    <2> QED BY <1>1, <2>1, StaysKept, StaysJustified
<1>2. ASSUME NEW c \in Callers, NEW b \in Branches, NEW p \in Paths, NEW new \in
        BOOLEAN, NEW good \in BOOLEAN, BeginCreate(c, b, p, new, good) PROVE
        Justified(d)'
    <2>1. UNCHANGED <<reg, disk, half>> /\ (head'[d] # "gone" => head[d] # "gone")
        BY <1>2 DEF BeginCreate, stores, workers, GitOK
    <2>2. SeatsStay BY <1>2 DEF BeginCreate, SeatsStay, workers
    <2>3. \A q \in disk : CallsStay(d, q) BY <1>2 DEF BeginCreate, CallsStay, workers, WorkersOK
    <2>4. \A q \in disk : RecordStays(d, q) BY <1>2 DEF BeginCreate, RecordStays, stores
    <2> QED BY <2>1, <2>2, <2>3, <2>4, StaysKept, StaysJustified
<1>3. ASSUME NEW c \in Callers, AddWorktree(c) PROVE Justified(d)'
    <2> DEFINE b == call[c].branch
               p == call[c].path
    <2>1. UNCHANGED <<rows, seat, half>> /\ b \in Branches /\ p \in Paths BY <1>3 DEF AddWorktree, Named
    <2>2. CASE call' = [call EXCEPT ![c] = NoCall] /\ UNCHANGED <<reg, disk, head>>
        <3>1. \A q \in disk : SeatsStay /\ CallsStay(d, q) /\ RecordStays(d, q)
            BY <1>3, <2>1, <2>2 DEF AddWorktree, SeatsStay, CallsStay, RecordStays, WorkersOK
        <3> QED BY <2>1, <2>2, <3>1, StaysKept, StaysJustified
    <2>3. CASE CanAdd(b, p, call[c].new) /\ Add(b, p, call[c].new, rows) /\ call' = [call EXCEPT ![c].pc = "recording"]
        <3>1. reg' = [reg EXCEPT ![p] = b] /\ disk' = disk \cup {p} /\ p \notin disk BY <2>3 DEF CanAdd, Add
        <3>2. CASE d = b
            <4>1. call'[c].pc = "recording" /\ call'[c].branch = b /\ call'[c].path = p BY <2>3 DEF WorkersOK
            <4>2. reg'[p] = b /\ p \in disk' BY <2>1, <3>1 DEF GitOK
            <4> QED BY <3>2, <4>1, <4>2 DEF Justified, Tended, Kept
        <3>3. CASE d # b
            <4>1. head'[d] = head[d] BY <2>3, <3>3 DEF Add, GitOK
            <4>2. \A q \in disk : SeatsStay /\ CallsStay(d, q) /\ RecordStays(d, q)
                BY <1>3, <2>1, <2>3 DEF AddWorktree, SeatsStay, CallsStay, RecordStays, WorkersOK
            <4>3. \A q \in disk : q \in disk' /\ reg'[q] = reg[q] BY <2>1, <3>1 DEF GitOK
            <4> QED BY <2>1, <4>1, <4>2, <4>3, StaysKept, StaysJustified
        <3> QED BY <3>2, <3>3
    <2> QED BY <1>3, <2>2, <2>3 DEF AddWorktree
<1>4. ASSUME NEW c \in Callers, RecordWorktree(c) PROVE Justified(d)'
    <2>1. UNCHANGED <<reg, disk, half, head, seat>> BY <1>4 DEF RecordWorktree
    <2>2. SeatsStay BY <2>1 DEF SeatsStay
    <2>3. ASSUME NEW q \in disk, Kept(d, q) PROVE Kept(d, q)'
        <3>1. CASE Recordable(c)
            <4>1. /\ rows' = Inserted(rows, call[c].branch, call[c].path)
                  /\ call' = [call EXCEPT ![c] = NoCall]
                BY <1>4, <3>1 DEF RecordWorktree
            <4>2. \A i \in DOMAIN rows : i \in DOMAIN rows' /\ rows'[i] = rows[i]
                BY <4>1 DEF Inserted
            <4>3. RecordStays(d, q) BY <4>2 DEF RecordStays
            <4>4. CASE call[c].branch = d /\ call[c].path = q
                <5> DEFINE n == issued + 1
                <5>1. n \in DOMAIN rows' /\ rows'[n].branch = d /\ rows'[n].path = q
                    BY <4>1, <4>4 DEF Inserted
                <5>2. \A a \in Agents : seat[a].phase = "erasing" => seat[a].id # n
                    BY DEF Ids, Unready, WorkersOK
                <5> QED BY <5>1, <5>2, <2>1 DEF Kept
            <4>5. CASE ~(call[c].branch = d /\ call[c].path = q)
                <5>1. CallsStay(d, q) BY <4>1, <4>5 DEF CallsStay, WorkersOK
                <5> QED BY <2>2, <2>3, <4>3, <5>1, StaysKept
            <4> QED BY <4>4, <4>5
        <3>2. CASE ~Recordable(c)
            <4>1. call' = [call EXCEPT ![c].pc = "undoing"] /\ UNCHANGED rows BY <1>4, <3>2 DEF RecordWorktree
            <4>2. CallsStay(d, q) /\ RecordStays(d, q) BY <4>1 DEF CallsStay, RecordStays, WorkersOK
            <4> QED BY <2>2, <2>3, <4>2, StaysKept
        <3> QED BY <3>1, <3>2
    <2> QED BY <2>1, <2>3, StaysJustified
<1>5. ASSUME NEW c \in Callers, UndoCreate(c) PROVE Justified(d)'
    <2>1. call[c].branch \in Branches /\ call[c].path \in Paths BY <1>5 DEF UndoCreate, Named
    <2>2. UNCHANGED <<rows, half>> /\ call' = [call EXCEPT ![c] = NoCall] BY <1>5 DEF UndoCreate
    <2>3. \A q \in disk : ~(d = call[c].branch /\ q = call[c].path) => CallsStay(d, q)
        BY <2>2 DEF CallsStay, WorkersOK
    <2>4. \A q \in disk : RecordStays(d, q) BY <2>2 DEF RecordStays
    <2> QED BY <1>5, <2>1, <2>2, <2>3, <2>4, ForcedIsJustified DEF UndoCreate
<1>6. ASSUME NEW a \in Agents, NEW i \in DOMAIN rows, SpawnShared(a, i) PROVE
        Justified(d)'
    <2>1. UNCHANGED <<reg, disk, half>> /\ (head'[d] # "gone" => head[d] # "gone")
        BY <1>6 DEF SpawnShared, stores, workers, GitOK
    <2>2. SeatsStay BY <1>6 DEF SpawnShared, SeatsStay, workers, WorkersOK
    <2>3. \A q \in disk : CallsStay(d, q) BY <1>6 DEF SpawnShared, CallsStay, workers
    <2>4. \A q \in disk : RecordStays(d, q) BY <1>6 DEF SpawnShared, RecordStays, stores
    <2> QED BY <2>1, <2>2, <2>3, <2>4, StaysKept, StaysJustified
<1>7. ASSUME NEW a \in Agents, NEW b \in Branches, SpawnFresh(a, b) PROVE Justified(d)'
    <2> DEFINE kept == Without(RowsOf(b))
    <2>1. UNCHANGED <<call, half>> /\ b \in Paths BY <1>7 DEF SpawnFresh, Paths
    <2>2. Add(b, b, TRUE, kept) /\ b \notin disk BY <1>7 DEF SpawnFresh, CanAdd
    <2>3. reg' = [reg EXCEPT ![b] = b] /\ disk' = disk \cup {b} BY <2>2 DEF Add
    <2>4. DOMAIN kept \subseteq DOMAIN rows /\ \A i \in DOMAIN kept : kept[i] = rows[i] BY DEF Without
    <2>5. \A i \in DOMAIN rows : rows[i].branch # b => i \in DOMAIN kept BY DEF Without, RowsOf
    <2>6. \/ /\ rows' = Inserted(kept, b, b)
             /\ seat' = [seat EXCEPT ![a] = [phase |-> "preparing", branch |-> b, path |-> b, id |-> issued']]
          \/ /\ rows' = kept
             /\ seat' = [seat EXCEPT ![a] = [phase |-> "clearing", branch |-> b, path |-> b, id |-> 0]]
        BY <1>7 DEF SpawnFresh
    <2>7. seat[a].phase = "away" BY <1>7 DEF SpawnFresh
    <2> HIDE DEF kept
    <2>8. CASE d = b
        <3>1. reg'[b] = b /\ b \in disk' BY <2>1, <2>3 DEF GitOK
        <3>2. Kept(b, b)'
            <4>1. CASE rows' = Inserted(kept, b, b) /\ seat'[a].phase = "preparing"
                <5> DEFINE n == issued + 1
                <5>1. n \notin DOMAIN kept BY <2>4
                <5>2. n \in DOMAIN rows' /\ rows'[n].branch = b /\ rows'[n].path = b
                    BY <4>1, <5>1 DEF Inserted
                <5>3. \A o \in Agents : seat'[o].phase = "erasing" => seat[o].phase = "erasing" /\ seat'[o].id = seat[o].id
                    BY <2>6 DEF WorkersOK
                <5>4. \A o \in Agents : seat[o].phase = "erasing" => seat[o].id # n
                    BY DEF Ids, Unready, WorkersOK
                <5> QED BY <5>2, <5>3, <5>4 DEF Kept
            <4>2. CASE seat'[a] = [phase |-> "clearing", branch |-> b, path |-> b, id |-> 0]
                BY <4>2 DEF Kept
            <4> QED BY <2>6, <4>1, <4>2 DEF WorkersOK
        <3> QED BY <2>8, <3>1, <3>2 DEF Justified, Tended
    <2>9. CASE d # b
        <3>1. head'[d] = head[d] BY <2>2, <2>9 DEF Add, GitOK
        <3>2. SeatsStay BY <2>6, <2>7 DEF SeatsStay, WorkersOK
        <3>3. \A i \in DOMAIN rows : rows[i].branch = d => i \in DOMAIN rows' /\ rows'[i] = rows[i]
            BY <2>4, <2>5, <2>6, <2>9 DEF Inserted
        <3>4. \A q \in disk : CallsStay(d, q) /\ RecordStays(d, q)
            BY <2>1, <3>3 DEF CallsStay, RecordStays
        <3>5. \A q \in disk : q \in disk' /\ reg'[q] = reg[q] BY <2>1, <2>2, <2>3 DEF GitOK
        <3> QED BY <2>1, <3>1, <3>2, <3>4, <3>5, StaysKept, StaysJustified
    <2> QED BY <2>8, <2>9
<1>8. ASSUME NEW a \in Agents, Prepared(a) PROVE Justified(d)'
    <2>1. UNCHANGED <<reg, disk, half>> /\ (head'[d] # "gone" => head[d] # "gone")
        BY <1>8 DEF Prepared, stores, workers, GitOK
    <2>2. SeatsStay BY <1>8 DEF Prepared, SeatsStay, workers, WorkersOK
    <2>3. \A q \in disk : CallsStay(d, q) BY <1>8 DEF Prepared, CallsStay, workers
    <2>4. \A q \in disk : RecordStays(d, q) BY <1>8 DEF Prepared, RecordStays, stores
    <2> QED BY <2>1, <2>2, <2>3, <2>4, StaysKept, StaysJustified
<1>9. ASSUME NEW a \in Agents, CleanUp(a) PROVE Justified(d)'
    <2> DEFINE b == seat[a].branch
               p == seat[a].path
    <2>1. b \in Branches /\ p \in Paths BY <1>9 DEF CleanUp, Ids, Unready
    <2>2. /\ disk' = disk \ {p} /\ reg' \in RegWithout(p) /\ why' = Blame(b, p, {"left"})
          /\ UNCHANGED <<rows, head, call, half>> /\ seat[a].phase \in {"preparing", "clearing"}
        BY <1>9 DEF CleanUp
    <2>3. \A q \in disk' : reg'[q] = reg[q] BY <2>1, <2>2, OthersStay
    <2>4. (d = b => Fault(d)') /\ (reg[p] = d => Fault(d)') BY <2>2, OthersAreBlamed DEF Fault
    <2>5. ASSUME d # b, NEW q \in disk', Kept(d, q) PROVE Kept(d, q)'
        <3>1. \A o \in Agents : o # a => /\ seat'[o].phase = "erasing" => seat[o].phase = "erasing" /\ seat'[o].id = seat[o].id
                                         /\ seat[o].phase = "clearing" => seat'[o] = seat[o]
            BY <1>9 DEF CleanUp, Evicted, WorkersOK
        <3>2. seat'[a].phase = "erasing" /\ seat'[a].id = seat[a].id BY <1>9 DEF CleanUp, Evicted, WorkersOK
        <3>3. \A i \in DOMAIN rows : rows[i].branch = d => seat[a].id # i
            BY <2>2, <2>5 DEF Ids, Unready
        <3> QED BY <2>2, <2>5, <3>1, <3>2, <3>3 DEF Kept
    <2> QED BY <2>1, <2>2, <2>3, <2>4, <2>5, DirectoryGone
<1>10. ASSUME NEW a \in Agents, EraseRecord(a) PROVE Justified(d)'
    <2>1. UNCHANGED <<reg, disk, half>> /\ (head'[d] # "gone" => head[d] # "gone")
        BY <1>10 DEF EraseRecord, stores, workers, GitOK
    <2>2. SeatsStay BY <1>10 DEF EraseRecord, SeatsStay, workers, WorkersOK, NoSeat
    <2>3. \A q \in disk : CallsStay(d, q) BY <1>10 DEF EraseRecord, CallsStay, workers
    <2>4. \A q \in disk : RecordStays(d, q) BY <1>10 DEF EraseRecord, RecordStays, stores, Without
    <2> QED BY <2>1, <2>2, <2>3, <2>4, StaysKept, StaysJustified
<1>11. ASSUME NEW a \in Agents, Commit(a) PROVE Justified(d)'
    <2>1. UNCHANGED <<reg, disk, half>> /\ (head'[d] # "gone" => head[d] # "gone")
        BY <1>11 DEF Commit, stores, workers, GitOK
    <2>2. SeatsStay BY <1>11 DEF Commit, SeatsStay, workers
    <2>3. \A q \in disk : CallsStay(d, q) BY <1>11 DEF Commit, CallsStay, workers
    <2>4. \A q \in disk : RecordStays(d, q) BY <1>11 DEF Commit, RecordStays, stores
    <2> QED BY <2>1, <2>2, <2>3, <2>4, StaysKept, StaysJustified
<1>12. ASSUME NEW a \in Agents, End(a) PROVE Justified(d)'
    <2>1. UNCHANGED <<reg, disk, half>> /\ (head'[d] # "gone" => head[d] # "gone")
        BY <1>12 DEF End, stores, workers, GitOK
    <2>2. SeatsStay BY <1>12 DEF End, SeatsStay, workers, WorkersOK, NoSeat
    <2>3. \A q \in disk : CallsStay(d, q) BY <1>12 DEF End, CallsStay, workers
    <2>4. \A q \in disk : RecordStays(d, q) BY <1>12 DEF End, RecordStays, stores
    <2> QED BY <2>1, <2>2, <2>3, <2>4, StaysKept, StaysJustified
<1>13. ASSUME NEW i \in DOMAIN rows, MarkMerged(i) PROVE Justified(d)'
    <2>1. UNCHANGED <<reg, disk, half>> /\ (head'[d] # "gone" => head[d] # "gone")
        BY <1>13 DEF MarkMerged, stores, workers, GitOK
    <2>2. SeatsStay BY <1>13 DEF MarkMerged, SeatsStay, workers
    <2>3. \A q \in disk : CallsStay(d, q) BY <1>13 DEF MarkMerged, CallsStay, workers
    <2>4. \A q \in disk : RecordStays(d, q) BY <1>13 DEF MarkMerged, RecordStays, stores, Marked, TableOK, Row
    <2> QED BY <2>1, <2>2, <2>3, <2>4, StaysKept, StaysJustified
<1>14. ASSUME NEW i \in DOMAIN rows, Abandon(i) PROVE Justified(d)'
    <2>1. UNCHANGED <<reg, disk, half>> /\ (head'[d] # "gone" => head[d] # "gone")
        BY <1>14 DEF Abandon, stores, workers, GitOK
    <2>2. SeatsStay BY <1>14 DEF Abandon, SeatsStay, workers
    <2>3. \A q \in disk : CallsStay(d, q) BY <1>14 DEF Abandon, CallsStay, workers
    <2>4. \A q \in disk : RecordStays(d, q) BY <1>14 DEF Abandon, RecordStays, stores, TableOK, Row
    <2> QED BY <2>1, <2>2, <2>3, <2>4, StaysKept, StaysJustified
<1>15. ASSUME NEW i \in DOMAIN rows, Reactivate(i) PROVE Justified(d)'
    <2>1. UNCHANGED <<reg, disk, half>> /\ (head'[d] # "gone" => head[d] # "gone")
        BY <1>15 DEF Reactivate, stores, workers, GitOK
    <2>2. SeatsStay BY <1>15 DEF Reactivate, SeatsStay, workers
    <2>3. \A q \in disk : CallsStay(d, q) BY <1>15 DEF Reactivate, CallsStay, workers
    <2>4. \A q \in disk : RecordStays(d, q) BY <1>15 DEF Reactivate, RecordStays, stores, TableOK, Row
    <2> QED BY <2>1, <2>2, <2>3, <2>4, StaysKept, StaysJustified
<1>16. ASSUME NEW i \in DOMAIN rows, NEW force \in BOOLEAN, DeleteWorktree(i, force)
        PROVE Justified(d)'
    <2> DEFINE b == rows[i].branch
               p == rows[i].path
    <2>1. b \in Branches /\ p \in Paths BY DEF TableOK, Row
    <2>2. UNCHANGED <<call, half>> /\ rows' = Without({i}) BY <1>16 DEF DeleteWorktree
    <2>3. SeatsStay BY <1>16, EvictedStay DEF DeleteWorktree, SeatsStay
    <2>4. \A q \in disk : q # p => RecordStays(d, q) BY <2>2 DEF RecordStays, Without
    <2>5. \A q \in disk : CallsStay(d, q) BY <2>2 DEF CallsStay
    <2>6. \A q \in disk : q # p /\ Kept(d, q) => Kept(d, q)' BY <2>3, <2>4, <2>5, StaysKept
    <2>7. CASE p \notin disk
        <3>1. UNCHANGED <<reg, disk, head>> BY <1>16, <2>7 DEF DeleteWorktree
        <3> QED BY <2>2, <2>6, <2>7, <3>1, StaysJustified
    <2>8. CASE p \in disk
        <3>1. PICK r \in RegWithout(p) :
                  LET bs == IF Deletable(b, r, force) THEN {b} ELSE {} IN
                  /\ reg' = r /\ disk' = disk \ {p} /\ BranchesWithout(bs)
                  /\ why' = Blame(b, p, {"asked"} \cup (IF force THEN {"forced"} ELSE {})
                                        \cup (IF bs = {} THEN {"left"} ELSE {}))
            BY <1>16, <2>8 DEF DeleteWorktree, RegWithout
        <3>2. head'[d] # "gone" => head[d] # "gone" BY <3>1 DEF BranchesWithout
        <3>3. \A q \in disk' : reg'[q] = reg[q] BY <2>1, <3>1, OthersStay
        <3>4. d = b => head'[d] = "gone" \/ Fault(d)'
            <4>1. CASE Deletable(b, r, force) BY <3>1, <4>1 DEF BranchesWithout
            <4>2. CASE ~Deletable(b, r, force) BY <2>1, <3>1, <4>2 DEF Blame, Fault
            <4> QED BY <4>1, <4>2
        <3>5. reg[p] = d => head'[d] = "gone" \/ Fault(d)' BY <3>1, <3>4, OthersAreBlamed
        <3> QED BY <2>1, <2>2, <2>6, <3>1, <3>2, <3>3, <3>5, DirectoryGone
    <2> QED BY <2>7, <2>8
<1>17. ASSUME NEW i \in DOMAIN rows, RouteDelete(i) PROVE Justified(d)'
    <2> DEFINE b == rows[i].branch
               p == rows[i].path
    <2>1. b \in Branches /\ p \in Paths BY DEF TableOK, Row
    <2>2. /\ UNCHANGED <<call, half, head>> /\ rows' = Without({i})
          /\ why' = Blame(b, p, {"asked", "left"})
        BY <1>17 DEF RouteDelete
    <2>3. SeatsStay BY <1>17, EvictedStay DEF RouteDelete, SeatsStay
    <2>4. \A q \in disk : d # b => RecordStays(d, q) BY <2>2 DEF RecordStays, Without
    <2>5. \A q \in disk : CallsStay(d, q) BY <2>2 DEF CallsStay
    <2>6. d # b => \A q \in disk : Kept(d, q) => Kept(d, q)' BY <2>3, <2>4, <2>5, StaysKept
    <2>7. (d = b => Fault(d)') /\ (reg[p] = d => Fault(d)') BY <2>2, OthersAreBlamed DEF Fault
    <2>8. CASE UNCHANGED <<disk, reg>> BY <2>2, <2>6, <2>7, <2>8, StaysJustified
    <2>9. CASE disk' = disk \ {p} /\ reg' \in RegWithout(p)
        <3>1. \A q \in disk' : reg'[q] = reg[q] BY <2>1, <2>9, OthersStay
        <3> QED BY <2>1, <2>2, <2>6, <2>7, <2>9, <3>1, DirectoryGone
    <2> QED BY <1>17, <2>8, <2>9 DEF RouteDelete
<1>18. ASSUME NEW i \in DOMAIN rows, Ripen(i) PROVE Justified(d)'
    <2>1. UNCHANGED <<reg, disk, half>> /\ (head'[d] # "gone" => head[d] # "gone")
        BY <1>18 DEF Ripen, stores, workers, GitOK
    <2>2. SeatsStay BY <1>18 DEF Ripen, SeatsStay, workers
    <2>3. \A q \in disk : CallsStay(d, q) BY <1>18 DEF Ripen, CallsStay, workers
    <2>4. \A q \in disk : RecordStays(d, q) BY <1>18 DEF Ripen, RecordStays, stores, TableOK, Row
    <2> QED BY <2>1, <2>2, <2>3, <2>4, StaysKept, StaysJustified
<1>19. ASSUME NEW c \in Callers, NEW i \in DOMAIN rows, NEW push \in BOOLEAN, Merge(c,
        i, push) PROVE Justified(d)'
    <2>1. UNCHANGED <<reg, disk, half>> /\ (head'[d] # "gone" => head[d] # "gone")
        BY <1>19 DEF Merge, stores, workers, GitOK
    <2>2. SeatsStay BY <1>19 DEF Merge, SeatsStay, workers
    <2>3. \A q \in disk : CallsStay(d, q) BY <1>19 DEF Merge, CallsStay, workers, WorkersOK
    <2>4. \A q \in disk : RecordStays(d, q) BY <1>19 DEF Merge, RecordStays, stores, Marked, TableOK, Row
    <2> QED BY <2>1, <2>2, <2>3, <2>4, StaysKept, StaysJustified
<1>20. ASSUME NEW stale \in SUBSET DOMAIN rows, NEW git \in BOOLEAN, Sweep(stale, git)
        PROVE Justified(d)'
    <2>1. UNCHANGED <<reg, disk, half>> /\ (head'[d] # "gone" => head[d] # "gone")
        BY <1>20 DEF Sweep, stores, workers, GitOK
    <2>2. SeatsStay BY <1>20 DEF Sweep, SeatsStay, workers
    <2>3. \A q \in disk : CallsStay(d, q) BY <1>20 DEF Sweep, CallsStay, workers
    <2>4. \A q \in disk : RecordStays(d, q) BY <1>20 DEF Sweep, RecordStays, stores, TableOK, Row
    <2> QED BY <2>1, <2>2, <2>3, <2>4, StaysKept, StaysJustified
<1>21. ASSUME NEW m \in list, SweepItem(m) PROVE Justified(d)'
    <2>1. m.branch \in Branches /\ m.path \in Paths BY DEF WorkersOK, Item
    <2>2. UNCHANGED <<call, half>> BY <1>21 DEF SweepItem
    <2>3. \A q \in disk : CallsStay(d, q) BY <2>2 DEF CallsStay
    <2>4. rows' = rows \/ rows' = Without({m.id}) BY <1>21 DEF SweepItem
    <2>5. m.id \in DOMAIN rows => rows[m.id].branch = m.branch /\ rows[m.id].path = m.path BY DEF Ids
    <2>6. \A q \in disk : ~(d = m.branch /\ q = m.path) => RecordStays(d, q)
        BY <2>4, <2>5 DEF RecordStays, Without
    <2> QED BY <1>21, <2>1, <2>2, <2>3, <2>6, ForcedIsJustified DEF SweepItem
<1>22. ASSUME NEW m \in list, NEW usable \in BOOLEAN, ReapDirectory(m, usable) PROVE
        Justified(d)'
    <2> DEFINE p == m.path
    <2>1. m.branch \in Branches /\ p \in Paths BY DEF WorkersOK, Item
    <2>2. /\ disk' = disk \ {p} /\ seat' = Evicted(p) /\ reg' \in RegWithout(p) \cup {reg}
          /\ half = {} /\ half' = {m} /\ why' = Blame(m.branch, p, {})
          /\ UNCHANGED <<rows, head, call>>
        BY <1>22 DEF ReapDirectory
    <2>3. \A q \in disk' : reg'[q] = reg[q] BY <2>1, <2>2, OthersStay
    <2>4. \A q \in disk' : SeatsStay /\ CallsStay(d, q) /\ RecordStays(d, q)
        BY <2>2, EvictedStay DEF CallsStay, RecordStays
    <2>5. reg[p] = d => Fault(d)' \/ \E n \in half' : n.branch = d BY <2>2, OthersAreBlamed
    <2> QED BY <2>1, <2>2, <2>3, <2>4, <2>5, StaysKept, DirectoryGone
<1>23. ASSUME NEW m \in half, NEW usable \in BOOLEAN, ReapBranch(m, usable) PROVE
        Justified(d)'
    <2> DEFINE b == m.branch
               bs == IF usable /\ Deletable(b, reg, TRUE) THEN {b} ELSE {}
    <2>1. /\ BranchesWithout(bs) /\ rows' = Without({m.id})
          /\ why' = IF bs = {} THEN Because({b}, {"left"}) ELSE why
          /\ UNCHANGED <<reg, disk, seat, call>>
        BY <1>23 DEF ReapBranch
    <2>2. b \in Branches /\ \A n \in half : n = m BY DEF WorkersOK, Item, GroundInv, OneAtATime
    <2>3. head'[d] # "gone" => head[d] # "gone" BY <2>1 DEF BranchesWithout
    <2>4. d = b => head'[d] = "gone" \/ Fault(d)'
        <3>1. CASE bs = {} BY <2>1, <2>2, <3>1 DEF Because, Fault
        <3>2. CASE bs = {b} BY <2>1, <2>2, <3>2 DEF BranchesWithout
        <3> QED BY <3>1, <3>2
    <2>5. m.id \in DOMAIN rows => rows[m.id].branch = b BY DEF Ids
    <2>6. d # b => \A q \in disk : SeatsStay /\ CallsStay(d, q) /\ RecordStays(d, q)
        BY <2>1, <2>5 DEF SeatsStay, CallsStay, RecordStays, Without
    <2> QED BY <2>1, <2>2, <2>3, <2>4, <2>6, StaysKept, StaysJustified
<1>24. ASSUME NEW m \in half, ReapTimesOut(m) PROVE Justified(d)'
    <2>1. why' = Because({m.branch}, {"left"}) /\ UNCHANGED <<rows, reg, disk, head, seat, call>>
        BY <1>24 DEF ReapTimesOut, stores
    <2>2. \A n \in half : n = m BY DEF GroundInv, OneAtATime
    <2>3. d = m.branch => Fault(d)' BY <2>1 DEF Because, Fault
    <2>4. \A q \in disk : SeatsStay /\ CallsStay(d, q) /\ RecordStays(d, q)
        BY <2>1 DEF SeatsStay, CallsStay, RecordStays
    <2> QED BY <2>1, <2>2, <2>3, <2>4, StaysKept, StaysJustified
<1>25. ASSUME Crash PROVE Justified(d)'
    <2>1. /\ UNCHANGED <<rows, reg, disk, head>>
          /\ why' = Because({call[c].branch : c \in {o \in Callers : call[o].pc # "pushing"}}
                            \cup {m.branch : m \in half}
                            \cup {seat[a].branch : a \in {o \in Agents :
                                      seat[o].phase \in {"preparing", "clearing", "erasing"}}},
                            {"crashed"})
        BY <1>25 DEF Crash, stores
    <2>2. \A m \in half : m.branch = d => Fault(d)' BY <2>1 DEF Because, Fault
    <2>3. \A c \in Callers : call[c].pc \in {"recording", "undoing"} /\ call[c].branch = d => Fault(d)'
        BY <2>1 DEF Because, Fault
    <2>4. \A a \in Agents : seat[a].phase = "clearing" /\ seat[a].branch = d => Fault(d)'
        BY <2>1 DEF Because, Fault
    <2>5. \A a \in Agents : seat'[a].phase # "erasing" BY <1>25 DEF Crash, NoSeat
    <2>6. \A q \in disk : Kept(d, q) => Kept(d, q)' \/ Fault(d)'
        BY <2>1, <2>3, <2>4, <2>5 DEF Kept
    <2> QED BY <2>1, <2>2, <2>6, StaysJustified
<1>26. ASSUME NEW b \in Branches, SpawnRefused(b) PROVE Justified(d)'
    <2>1. UNCHANGED <<reg, disk, half>> /\ (head'[d] # "gone" => head[d] # "gone")
        BY <1>26 DEF SpawnRefused, stores, workers, GitOK
    <2>2. SeatsStay BY <1>26 DEF SpawnRefused, SeatsStay, workers
    <2>3. \A q \in disk : CallsStay(d, q) BY <1>26 DEF SpawnRefused, CallsStay, workers
    <2>4. \A q \in disk : RecordStays(d, q) BY <1>26 DEF SpawnRefused, RecordStays, stores, Without, RowsOf, TableOK
    <2> QED BY <2>1, <2>2, <2>3, <2>4, StaysKept, StaysJustified
<1>27. ASSUME NEW p \in Paths, Vanish(p) PROVE Justified(d)'
    <2>1. /\ disk' = disk \ {p} /\ reg' = reg /\ seat' = Evicted(p)
          /\ why' = Because({reg[p]}, {"vanished"}) /\ UNCHANGED <<rows, head, call, half>>
        BY <1>27 DEF Vanish
    <2>2. reg[p] = d => Fault(d)' BY <2>1 DEF Because, Fault
    <2>3. \A q \in disk' : SeatsStay /\ CallsStay(d, q) /\ RecordStays(d, q)
        BY <2>1, EvictedStay DEF CallsStay, RecordStays
    <2> QED BY <2>1, <2>2, <2>3, StaysKept, StaysJustified, DirectoryGone
<1>28. ASSUME NEW c \in Callers, NEW ok \in BOOLEAN, Push(c, ok) PROVE Justified(d)'
    <2>1. UNCHANGED <<reg, disk, half>> /\ (head'[d] # "gone" => head[d] # "gone")
        BY <1>28 DEF Push, stores, workers, GitOK
    <2>2. SeatsStay BY <1>28 DEF Push, SeatsStay, workers
    <2>3. \A q \in disk : CallsStay(d, q) BY <1>28 DEF Push, CallsStay, workers, WorkersOK
    <2>4. \A q \in disk : RecordStays(d, q) BY <1>28 DEF Push, RecordStays, stores
    <2> QED BY <2>1, <2>2, <2>3, <2>4, StaysKept, StaysJustified
<1>29. CASE Create BY <1>29, <1>2, <1>3, <1>4, <1>5 DEF Create
<1>30. CASE Work BY <1>30, <1>6, <1>7, <1>8, <1>9, <1>10, <1>11, <1>12 DEF Work
<1>31. CASE Handle BY <1>31, <1>13, <1>14, <1>15, <1>16, <1>17, <1>18, <1>19 DEF Handle
<1>32. CASE Clean BY <1>32, <1>1, <1>20, <1>21, <1>22, <1>23, <1>24 DEF Clean,
          BeginReap, stores, workers, Spared
<1> QED BY <1>1, <1>25, <1>26, <1>27, <1>28, <1>29, <1>30, <1>31, <1>32 DEF Next, vars,
        stores, workers, Spared

\* Whoever is evicted was on the branch of the directory; the branch notes for
\* which other's sake, or else the reasons, and forgets nothing.
LEMMA EvictedForAReason ==
    ASSUME GroundInv, NEW a \in Agents, seat[a].phase = "working", seat'[a].phase = "homeless",
           NEW b, NEW p, NEW reasons, why' = Blame(b, p, reasons),
           seat'[a] = Evicted(p)[a]
    PROVE  /\ seat[a].path = p
           /\ seat[a].branch \in Branches
           /\ seat[a].branch # b => "mistaken" \in why'[seat[a].branch]
           /\ seat[a].branch = b => reasons \subseteq why'[seat[a].branch]
           /\ why[seat[a].branch] \subseteq why'[seat[a].branch]
<1>1. GitOK /\ WorkersOK /\ Homes BY DEF GroundInv, IInv, TypeOK
<1>2. seat[a].path = p BY <1>1 DEF Evicted
<1>3. seat[a].path \in disk /\ reg[p] = seat[a].branch /\ reg[p] # None BY <1>1, <1>2 DEF Homes
<1>4. seat[a].branch \in Branches BY <1>1, <1>2, <1>3 DEF GitOK
<1> QED BY <1>2, <1>3, <1>4 DEF Blame

Reasoned(a) ==
    why'[seat[a].branch] \cap {"asked", "vanished", "merged", "listed", "shared", "mistaken"} # {}

\* Whoever is evicted in a step has a reason on the branch it worked on.
LEMMA EvictionStep ==
    ASSUME GroundInv, [Next]_vars, NEW a \in Agents,
           seat[a].phase = "working", seat'[a].phase = "homeless"
    PROVE  Reasoned(a)
<1>0. /\ GitOK /\ WorkersOK /\ Homes /\ SharersAreMarked /\ MarksStay
    BY DEF GroundInv, IInv, TypeOK
<1> USE <1>0
<1>1. ASSUME UNCHANGED seat PROVE Reasoned(a)
    BY <1>1
<1>2. ASSUME NEW c \in Callers, UndoCreate(c) PROVE Reasoned(a)
    <2>1. PICK reasons : DeleteByForce(call[c].branch, call[c].path, reasons) BY <1>2 DEF UndoCreate
    <2>2. seat' = Evicted(call[c].path) /\ why' = Blame(call[c].branch, call[c].path, reasons)
        BY <2>1 DEF DeleteByForce
    <2>3. seat[a].path = call[c].path => "shared" \in why[seat[a].branch]
        BY <1>2 DEF UndoCreate, Unsettled, SharersAreMarked
    <2> QED BY <2>2, <2>3, EvictedForAReason DEF Reasoned
<1>3. ASSUME NEW o \in Agents, NEW i \in DOMAIN rows, SpawnShared(o, i) PROVE
        Reasoned(a)
    BY <1>3 DEF SpawnShared, NoSeat, WorkersOK
<1>4. ASSUME NEW o \in Agents, NEW b \in Branches, SpawnFresh(o, b) PROVE Reasoned(a)
    BY <1>4 DEF SpawnFresh, NoSeat, WorkersOK
<1>5. ASSUME NEW o \in Agents, Prepared(o) PROVE Reasoned(a)
    BY <1>5 DEF Prepared, NoSeat, WorkersOK
<1>6. ASSUME NEW o \in Agents, CleanUp(o) PROVE Reasoned(a)
    <2> DEFINE p == seat[o].path
    <2>1. /\ seat[o].phase \in {"preparing", "clearing"} /\ o # a
          /\ seat' = [Evicted(p) EXCEPT ![o].phase = "erasing"]
          /\ why' = Blame(seat[o].branch, p, {"left"})
        BY <1>6 DEF CleanUp
    <2>2. seat'[a] = Evicted(p)[a] BY <2>1 DEF Evicted
    <2>3. seat[a].path = p => "shared" \in why[seat[a].branch]
        BY <2>1 DEF Unsettled, SharersAreMarked
    <2> QED BY <2>1, <2>2, <2>3, EvictedForAReason DEF Reasoned
<1>7. ASSUME NEW o \in Agents, EraseRecord(o) PROVE Reasoned(a)
    BY <1>7 DEF EraseRecord, NoSeat, WorkersOK
<1>8. ASSUME NEW o \in Agents, End(o) PROVE Reasoned(a)
    BY <1>8 DEF End, NoSeat, WorkersOK
<1>9. ASSUME NEW i \in DOMAIN rows, NEW force \in BOOLEAN, DeleteWorktree(i, force)
        PROVE Reasoned(a)
    <2> DEFINE b == rows[i].branch
               p == rows[i].path
    <2>1. PICK reasons : /\ seat' = Evicted(p) /\ "asked" \in reasons
                         /\ why' = Blame(b, p, reasons)
        <3> DEFINE all(bs) == {"asked"} \cup (IF force THEN {"forced"} ELSE {})
                                       \cup (IF bs = {} THEN {"left"} ELSE {})
        <3>1. PICK r : seat' = Evicted(p) /\ why' = Blame(b, p, all(IF Deletable(b, r, force) THEN {b} ELSE {}))
            BY <1>9 DEF DeleteWorktree
        <3> QED BY <3>1
    <2> QED BY <2>1, EvictedForAReason DEF Reasoned
<1>10. ASSUME NEW i \in DOMAIN rows, RouteDelete(i) PROVE Reasoned(a)
    <2>1. seat' = Evicted(rows[i].path) /\ why' = Blame(rows[i].branch, rows[i].path, {"asked", "left"})
        BY <1>10 DEF RouteDelete
    <2> QED BY <2>1, EvictedForAReason DEF Reasoned
<1>11. ASSUME NEW m \in list, SweepItem(m) PROVE Reasoned(a)
    <2> DEFINE reasons == IF m.kind = "stale" THEN {"asked", "forced"} ELSE {}
    <2>1. seat' = Evicted(m.path) /\ why' = Blame(m.branch, m.path, reasons)
        BY <1>11 DEF SweepItem, DeleteByForce
    <2>2. m.kind # "stale" => why[m.branch] \cap {"merged", "listed"} # {} BY DEF MarksStay
    <2> QED BY <2>1, <2>2, EvictedForAReason DEF Reasoned
<1>12. ASSUME NEW m \in list, NEW usable \in BOOLEAN, ReapDirectory(m, usable) PROVE
        Reasoned(a)
    <2>1. seat' = Evicted(m.path) /\ why' = Blame(m.branch, m.path, {}) /\ m.kind = "reaped"
        BY <1>12 DEF ReapDirectory
    <2>2. why[m.branch] \cap {"merged", "listed"} # {} BY <2>1 DEF MarksStay
    <2> QED BY <2>1, <2>2, EvictedForAReason DEF Reasoned
<1>13. ASSUME Crash PROVE Reasoned(a)
    BY <1>13 DEF Crash, NoSeat
<1>14. ASSUME NEW p \in Paths, Vanish(p) PROVE Reasoned(a)
    <2>1. seat' = Evicted(p) /\ why' = Because({reg[p]}, {"vanished"}) BY <1>14 DEF Vanish
    <2>2. seat[a].path = p BY <2>1 DEF Evicted, WorkersOK
    <2>3. reg[p] = seat[a].branch /\ reg[p] \in Branches BY <2>2 DEF Homes, GitOK, Paths
    <2> QED BY <2>1, <2>3 DEF Because, Reasoned
<1>15. CASE Create BY <1>15, <1>1, <1>2 DEF Create, BeginCreate, AddWorktree,
          RecordWorktree, stores, workers, Spared
<1>16. CASE Work BY <1>16, <1>1, <1>3, <1>4, <1>5, <1>6, <1>7, <1>8 DEF Work, Commit,
          stores, workers, Spared
<1>17. CASE Handle BY <1>17, <1>1, <1>9, <1>10 DEF Handle, MarkMerged, Abandon,
          Reactivate, Ripen, Merge, stores, workers, Spared
<1>18. CASE Clean BY <1>18, <1>1, <1>11, <1>12 DEF Clean, Sweep, ReapBranch,
          ReapTimesOut, BeginReap, stores, workers, Spared
<1> QED BY <1>1, <1>13, <1>14, <1>15, <1>16, <1>17, <1>18 DEF Next, vars, SpawnRefused,
        Push, stores, workers, Spared

\* A branch that is justified does not block a spawn.
LEMMA JustifiedMeansFree == GroundInv => SpawnsAreNotBlocked
<1> SUFFICES ASSUME GroundInv, NEW b \in Branches, ~Busy(b), ~PathTaken(b), ~Fault(b)
             PROVE  CanSpawn(b)
    BY DEF SpawnsAreNotBlocked, Fault
<1>0. TableOK /\ GitOK /\ Checkouts /\ Homes BY DEF GroundInv, IInv, TypeOK
<1>1. CASE Tended(b)
    <2>1. PICK q \in disk : reg[q] = b /\ Kept(b, q) BY <1>1 DEF Tended, Busy
    <2>2. PICK i \in DOMAIN rows : rows[i].branch = b /\ rows[i].path = q BY <2>1 DEF Kept, Busy
    <2> QED BY <2>1, <2>2 DEF CanSpawn, RowsOf
<1>2. CASE ~Tended(b)
    <2>1. head[b] = "gone" BY <1>2 DEF GroundInv, BranchesAreTended, Justified
    <2>2. reg[b] = None BY <1>0, <2>1 DEF PathTaken, Checkouts, Paths
    <2>3. b \notin disk BY <1>0, <2>2 DEF Homes
    <2>4. CanAdd(b, b, TRUE) BY <2>1, <2>2, <2>3 DEF CanAdd
    <2>5. Insertable(Without(RowsOf(b)), b, b) BY DEF Insertable, Without, RowsOf, RowsAt, PathTaken
    <2> QED BY <2>4, <2>5 DEF CanSpawn
<1> QED BY <1>1, <1>2

\* The invariant holds in every reachable state.
LEMMA GroundHolds == Spec => []GroundInv
<1>1. GroundInv /\ [Next]_vars => GroundInv'
    <2> SUFFICES ASSUME GroundInv, [Next]_vars PROVE GroundInv' OBVIOUS
    <2>1. IInv' BY IInvStep DEF GroundInv
    <2>2. BranchesAreTended' BY JustifiedStep DEF BranchesAreTended
    <2> QED BY <2>1, <2>2, HomesStep, IdsStep, MarksStep, SharersStep, OneStep DEF GroundInv
<1> QED BY InitGround, <1>1, PTL DEF Spec

-----------------------------------------------------------------------------

\* The variables keep their types, and the table its unique indices, whatever
\* the branches, agents, callers and bounds.
THEOREM TypeCorrect == Spec => []TypeOK
<1>1. IInv => TypeOK BY DEF IInv
<1> QED BY Inductive, <1>1, PTL

\* Commits are lost by force, by a mark without a push, by a deletion decided
\* before they were made, or by the undoing of a borrowed branch: in no other way.
THEOREM WorkIsNotLost == Spec => []LostWorkHasACause
<1>1. IInv => LostWorkHasACause BY DEF IInv
<1> QED BY Inductive, <1>1, PTL

\* A spawn on a branch can go through unless the branch is busy, its path taken,
\* or a failure, a crash or a mistaken deletion left it behind.
THEOREM SpawnsGoThrough == Spec => []SpawnsAreNotBlocked
<1> QED BY GroundHolds, JustifiedMeansFree, PTL

\* Whoever loses the directory it works in can find the reason on its branch.
THEOREM EvictionsHaveReasons == Spec => NobodyIsEvicted
<1>1. GroundInv /\ [Next]_vars =>
          [\A a \in Agents :
              seat[a].phase = "working" /\ seat'[a].phase = "homeless" =>
                 why'[seat[a].branch] \cap {"asked", "vanished", "merged", "listed", "shared", "mistaken"} # {}]_vars
    BY EvictionStep DEF Reasoned
<1> QED BY GroundHolds, <1>1, PTL DEF Spec, NobodyIsEvicted

=============================================================================
