------------------------------ MODULE TreePages ------------------------------
(***************************************************************************)
(* A B+tree in the pages of the database file (storage/btree.zig), the     *)
(* buffer pool above them, the root page number in the file header, and    *)
(* what a killed process leaves: pages that were written back or not, and  *)
(* the log of the operations committed since the last checkpoint, which    *)
(* recovery repeats through the tree (storage/recovery.zig).               *)
(*                                                                         *)
(* Leaves split, merge and redistribute under one level of inner pages     *)
(* that have room for any number of keys.                                  *)
(*                                                                         *)
(* The log names keys, not pages, so it repairs a tree only if the pages   *)
(* in the file make up a tree.  exposed is auxiliary: the windows now open *)
(* in which they may not.  Windows are those a run lets the process be     *)
(* killed in:                                                              *)
(*   "young"   the root of a new tree has not been written yet             *)
(*   "saved"   the header names a root that has not been written yet       *)
(*   "merge"   a page merged away is already marked free in the file       *)
(*   "evict"   part of the pages of a split or a merge were evicted        *)
(*   "roots"   the log was cut while the header named an old root          *)
(***************************************************************************)
EXTENDS Integers, Sequences, FiniteSets, FiniteSetsExt

CONSTANTS
    Keys,
    LeafCap,        \* entries that fit in a leaf
    MaxPages,       \* bound: no operation or kill when the file has more
    MaxLog,         \* bound: operations between two checkpoints
    Windows

ASSUME TreePagesAssumption ==
    /\ Keys \subseteq Nat \ {0}
    /\ LeafCap \in Nat \ {0, 1}
    /\ Windows \subseteq {"young", "saved", "merge", "evict", "roots"}

VARIABLES
    status,         \* "closed", "recovering" or "open"
    tree,           \* root_page, the pages in the pool and in the file, the free list
    header,         \* the root in the file header
    log,            \* committed operations a recovery repeats
    redone,         \* how many of them the recovery under way has repeated
    saving,         \* between saveTreeRoots and the flush of a sync, backup or close
    committed,      \* auxiliary: the keys callers were told are there
    exposed

vars == <<status, tree, header, log, redone, saving, committed, exposed>>

NULL_PAGE == 0
Free == [kind |-> "free", keys |-> {}, kids |-> {}]
Leaf(S) == [kind |-> "leaf", keys |-> S, kids |-> {}]

(* An inner page: a set of <<lowest key, page>>; the lowest of all is 0.   *)
Inner(kids) == [kind |-> "inner", keys |-> {}, kids |-> kids]

-------------------------------------------------------------------------------
(* Descent.  A page that is neither leaf nor inner has no child.           *)
Height == 4

findChild(page, k) ==
    LET below == {e \in page.kids : e[1] <= k}
    IN  (CHOOSE e \in below : \A f \in below : f[1] <= e[1])[2]

Descent(t, k) ==
    LET d[n \in 0..Height] ==
            IF n = 0 THEN t.root
            ELSE IF t.pages[d[n - 1]].kind = "inner" THEN findChild(t.pages[d[n - 1]], k)
            ELSE d[n - 1]
    IN  d

LeafOf(t, k) == Descent(t, k)[Height]
Found(t, k) == t.pages[LeafOf(t, k)].kind = "leaf"

ParentOf(t, k) ==
    LET d == Descent(t, k)
        above == {n \in 0..Height : d[n] # d[Height]}
    IN  IF above = {} THEN NULL_PAGE ELSE d[Max(above)]

Contents(t) == {k \in Keys : Found(t, k) /\ k \in t.pages[LeafOf(t, k)].keys}

Reachable(pages, root) ==
    LET r[n \in 0..Height] ==
            IF n = 0 THEN {root}
            ELSE r[n - 1] \cup {e[2] : e \in UNION {pages[p].kids : p \in r[n - 1]}}
    IN  r[Height]

-------------------------------------------------------------------------------
(* allocatePage takes the head of the free list or extends the file by a   *)
(* page marked free; header and free list are written at once.             *)
NewPage(t) == IF t.free = <<>> THEN Len(t.pages) + 1 ELSE Head(t.free)

(* Mutant of allocatePage: the file is not extended. *)
allocateInPool(t) ==
    IF t.free = <<>> THEN [t EXCEPT !.pages = Append(@, Free)]
    ELSE [t EXCEPT !.free = Tail(@)]

(* Mutant of allocatePage: the page stays on the free list. *)
allocateKeepingHead(t) ==
    IF t.free = <<>>
    THEN [t EXCEPT !.pages = Append(@, Free), !.disk = Append(@, Free)]
    ELSE t

allocatePage(t) ==
    IF t.free = <<>>
    THEN [t EXCEPT !.pages = Append(@, Free), !.disk = Append(@, Free)]
    ELSE [t EXCEPT !.free = Tail(@)]

(* The page is written to the file at once, too. *)
markPageFreeInPlace(t, p) ==
    [t EXCEPT !.pages[p] = Free, !.disk[p] = Free, !.free = <<p>> \o @]

(* The lower half goes left. *)
Lower(S) == {k \in S : Cardinality({j \in S : j < k}) < Cardinality(S) \div 2}

createNewRoot(t, left, low, right) ==
    LET n == NewPage(t)
    IN  [allocatePage(t) EXCEPT !.pages[n] = Inner({<<0, left>>, <<low, right>>}),
                                !.root = n]

splitLeafAndInsert(t, k) ==
    LET l == LeafOf(t, k)
        r == NewPage(t)
        all == t.pages[l].keys \cup {k}
        low == Min(all \ Lower(all))
        halves == [allocatePage(t) EXCEPT !.pages[l] = Leaf(Lower(all)),
                                          !.pages[r] = Leaf(all \ Lower(all))]
    IN  IF l = t.root THEN createNewRoot(halves, l, low, r)
        ELSE [halves EXCEPT !.pages[ParentOf(t, k)].kids = @ \cup {<<low, r>>}]

(* A duplicate, and a tree that cannot be descended, are errors. *)
insert(t, k) ==
    LET l == LeafOf(t, k)
    IN  IF ~Found(t, k) \/ k \in t.pages[l].keys THEN t
        ELSE IF Cardinality(t.pages[l].keys) < LeafCap
             THEN [t EXCEPT !.pages[l].keys = @ \cup {k}]
        ELSE splitLeafAndInsert(t, k)

collapseRootIfEmpty(t) ==
    LET kids == t.pages[t.root].kids
    IN  IF Cardinality(kids) # 1 THEN t
        ELSE markPageFreeInPlace([t EXCEPT !.root = (CHOOSE e \in kids : TRUE)[2]], t.root)

(* The separator between the leaf and its right sibling, or the left one   *)
(* for the last leaf, as <<left, right>> entries of the parent.            *)
Siblings(kids, l) ==
    LET own == CHOOSE e \in kids : e[2] = l
        after == {e \in kids : e[1] > own[1]}
        before == {e \in kids : e[1] < own[1]}
    IN  IF after # {} THEN <<own, CHOOSE e \in after : \A f \in after : e[1] <= f[1]>>
        ELSE <<CHOOSE e \in before : \A f \in before : f[1] <= e[1], own>>

mergeLeaf(t, parent, left, right) ==
    markPageFreeInPlace(
        [t EXCEPT !.pages[left[2]].keys = @ \cup t.pages[right[2]].keys,
                  !.pages[parent].kids = @ \ {right}],
        right[2])

(* Mutant of redistributeLeaves: the parent keeps the old separator. *)
redistributeBelow(t, parent, left, right) ==
    LET all == t.pages[left[2]].keys \cup t.pages[right[2]].keys
    IN  [t EXCEPT !.pages[left[2]] = Leaf(Lower(all)),
                  !.pages[right[2]] = Leaf(all \ Lower(all))]

redistributeLeaves(t, parent, left, right) ==
    LET all == t.pages[left[2]].keys \cup t.pages[right[2]].keys
    IN  [t EXCEPT !.pages[left[2]] = Leaf(Lower(all)),
                  !.pages[right[2]] = Leaf(all \ Lower(all)),
                  !.pages[parent].kids = (@ \ {right}) \cup {<<Min(all \ Lower(all)), right[2]>>}]

(* tryMergeLeaf and rebalanceAfterDelete *)
rebalanceAfterDelete(t, parent, l) ==
    LET kids == t.pages[parent].kids
        left == Siblings(kids, l)[1]
        right == Siblings(kids, l)[2]
        used(p) == Cardinality(t.pages[p].keys)
    IN  IF Cardinality(kids) = 1 \/ \E e \in {left, right} : t.pages[e[2]].kind # "leaf" THEN t
        ELSE IF used(left[2]) + used(right[2]) <= LeafCap
             THEN LET m == mergeLeaf(t, parent, left, right)
                  IN  IF parent = t.root THEN collapseRootIfEmpty(m) ELSE m
        ELSE IF 3 * used(l) < LeafCap THEN redistributeLeaves(t, parent, left, right)
        ELSE t

delete(t, k) ==
    LET l == LeafOf(t, k)
        removed == [t EXCEPT !.pages[l].keys = @ \ {k}]
    IN  IF ~Found(t, k) \/ k \notin t.pages[l].keys THEN t
        ELSE IF l = t.root THEN removed
        ELSE rebalanceAfterDelete(removed, ParentOf(t, k), l)

Apply(t, e) == IF e.op = "insert" THEN insert(t, e.key) ELSE delete(t, e.key)

-------------------------------------------------------------------------------
(* initNewTrees: the root is a leaf in the pool, the header names it.      *)
Init ==
    /\ status = "open"
    /\ tree = [root |-> 1, pages |-> <<Leaf({})>>, disk |-> <<Free>>, free |-> <<>>]
    /\ header = 1
    /\ log = <<>>
    /\ redone = 0
    /\ saving = FALSE
    /\ committed = {}
    /\ exposed = {"young"}

Idle == status = "open" /\ ~saving

(* What going from t to u opens. *)
Merged(t, u) == {w \in {"merge"} : \E p \in DOMAIN t.disk : t.disk[p] # u.disk[p]}

(* A committed transaction of one operation, which reached its page.       *)
commit(op, k) ==
    /\ Idle
    /\ Len(tree.pages) <= MaxPages /\ Len(log) < MaxLog
    /\ Found(tree, k)
    /\ (k \in Contents(tree)) = (op = "delete")
    /\ tree' = Apply(tree, [op |-> op, key |-> k])
    /\ log' = Append(log, [op |-> op, key |-> k])
    /\ committed' = IF op = "insert" THEN committed \cup {k} ELSE committed \ {k}
    /\ exposed' = exposed \cup Merged(tree, tree')
    /\ UNCHANGED <<status, header, redone, saving>>

(* Writing the page alone leaves the file a tree: its keys are where the   *)
(* tree in the file looks for them, and no live key has moved away.        *)
Plain(p) ==
    LET file == [root |-> header, pages |-> tree.disk]
    IN  /\ tree.pages[p].kind = tree.disk[p].kind
        /\ tree.pages[p].kids = tree.disk[p].kids
        /\ \A k \in tree.pages[p].keys : LeafOf(file, k) = p
        /\ (tree.disk[p].keys \ tree.pages[p].keys) \cap Contents(tree) = {}

evict(p) ==
    /\ status # "closed"
    /\ tree.pages[p] # tree.disk[p]
    /\ tree' = [tree EXCEPT !.disk[p] = tree.pages[p]]
    /\ exposed' = exposed \cup {w \in {"evict"} : ~Plain(p)}
    /\ UNCHANGED <<status, header, log, redone, saving, committed>>

(* Database.sync, quiesceForCopy, compact and close: the header, then the  *)
(* pages.                                                                  *)
saveTreeRoots ==
    /\ Idle
    /\ header' = tree.root
    /\ saving' = TRUE
    /\ exposed' = exposed \cup {w \in {"saved"} : header # tree.root}
    /\ UNCHANGED <<status, tree, log, redone, committed>>

flushAll ==
    /\ saving
    /\ tree' = [tree EXCEPT !.disk = tree.pages]
    /\ saving' = FALSE
    /\ exposed' = {}
    /\ UNCHANGED <<status, header, log, redone, committed>>

(* The checkpoint of maybeAutoCheckpoint and of Database.checkpoint: the   *)
(* pages are written and the log is cut; the header is left alone.         *)
checkpoint ==
    /\ Idle
    /\ tree' = [tree EXCEPT !.disk = tree.pages]
    /\ log' = <<>>
    /\ exposed' = {w \in {"roots"} : header # tree.root}
    /\ UNCHANGED <<status, header, redone, saving, committed>>

kill ==
    /\ status # "closed"
    /\ exposed \subseteq Windows
    /\ Len(tree.disk) <= MaxPages
    /\ status' = "closed"
    /\ tree' = [tree EXCEPT !.pages = tree.disk, !.root = header]
    /\ redone' = 0
    /\ saving' = FALSE
    /\ exposed' = {}
    /\ UNCHANGED <<header, log, committed>>

(* Mutant of open: the roots are not read from the header again. *)
openAtFirstRoot ==
    /\ status = "closed"
    /\ status' = "recovering"
    /\ tree' = [tree EXCEPT !.root = 1]
    /\ UNCHANGED <<header, log, redone, saving, committed, exposed>>

(* loadExistingTrees; the pages and the root are those of the file.        *)
open ==
    /\ status = "closed"
    /\ status' = "recovering"
    /\ UNCHANGED <<tree, header, log, redone, saving, committed, exposed>>

(* Recovery repeats the log, an operation at a time, and no page is        *)
(* flushed for it.                                                         *)
redo ==
    /\ status = "recovering" /\ redone < Len(log)
    /\ tree' = Apply(tree, log[redone + 1])
    /\ redone' = redone + 1
    /\ exposed' = exposed \cup Merged(tree, tree')
    /\ UNCHANGED <<status, header, log, saving, committed>>

(* The roots are saved if there was anything to repeat.                    *)
recovered ==
    /\ status = "recovering" /\ redone = Len(log)
    /\ status' = "open"
    /\ header' = IF log = <<>> THEN header ELSE tree.root
    /\ redone' = 0
    /\ exposed' = exposed \cup {w \in {"saved"} : header' # header}
    /\ UNCHANGED <<tree, log, saving, committed>>

Next ==
    \/ \E op \in {"insert", "delete"}, k \in Keys : commit(op, k)
    \/ \E p \in DOMAIN tree.pages : evict(p)
    \/ saveTreeRoots \/ flushAll \/ checkpoint
    \/ kill \/ open \/ redo \/ recovered

Spec == Init /\ [][Next]_vars

-------------------------------------------------------------------------------
TypeOK ==
    /\ status \in {"closed", "recovering", "open"}
    /\ redone \in 0..Len(log)
    /\ DOMAIN tree.pages = DOMAIN tree.disk
    /\ {tree.root, header} \cup Range(tree.free) \subseteq DOMAIN tree.pages
    /\ IsInjective(tree.free)
    /\ committed \subseteq Keys
    /\ saving \in BOOLEAN
    /\ exposed \subseteq {"young", "saved", "merge", "evict", "roots"}

(* A lookup in an open tree finds exactly the committed keys: after any    *)
(* splits and merges, evictions, kills and recoveries nothing committed is *)
(* lost and nothing deleted is back.                                       *)
CommittedFound == status = "open" => Contents(tree) = committed

(* The pages of an open tree are a search tree: no page is shared, free or *)
(* on the free list, and a scan of all leaves sees what lookups see.       *)
TreeIsSound ==
    status = "open" =>
        LET reachable == Reachable(tree.pages, tree.root)
            kids(p) == {e[2] : e \in tree.pages[p].kids}
        IN  /\ \A p \in reachable : tree.pages[p].kind # "free" /\ p \notin Range(tree.free)
            /\ \A p, q \in reachable : p # q => kids(p) \cap kids(q) = {}
            /\ \A p \in reachable : Cardinality(kids(p)) = Cardinality(tree.pages[p].kids)
            /\ UNION {tree.pages[p].keys : p \in reachable} = Contents(tree)
===============================================================================
