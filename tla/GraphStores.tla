------------------------------ MODULE GraphStores ------------------------------
(***************************************************************************)
(* The node and edge stores, the label and property indexes kept beside    *)
(* them (graph/*.zig), how a commit writes them (applyNodeState and        *)
(* applyEdgeState in storage/database.zig) and how recovery rebuilds them  *)
(* from the log (redoInsert, redoUpdate, redoDelete in                     *)
(* storage/recovery.zig).                                                  *)
(*                                                                         *)
(* A record of the log is a difference: a label added, a property set.  It *)
(* is redone over whatever the file holds, often a later state, because    *)
(* flushing does not cut the log.  An error in a redo is ignored.  The     *)
(* process may also die, and the pool write, in the middle of recovery.    *)
(*                                                                         *)
(* Every store is a tree in pages of its own, so the buffer pool may write *)
(* one to the file and not another.  A transaction writes one node or one  *)
(* edge.  Auxiliary: committed is what callers were told, mixed says that  *)
(* a killed process left the trees of different moments in the file, and   *)
(* used is the highest edge id ever committed.                             *)
(***************************************************************************)
EXTENDS Integers, FiniteSets, SequencesExt

CONSTANTS
    Labels,
    Values,         \* of the one property
    Absent,         \* no node, no edge, no property
    MaxNode,        \* bound on node ids
    MaxEdge,        \* bound on edge ids
    MaxLog,         \* bound: no commit when the log is as long
    Relabel         \* may a label go that the log still inserts its node with?

VARIABLES
    status,         \* "open", "recovering" or "closed"
    mem,            \* the trees as the open handle sees them
    disk,           \* the trees in the file
    next_node,      \* NodeStore.next_id
    next_edge,      \* EdgeStore.next_edge_id
    log,            \* what recovery redoes, of committed transactions
    applied,        \* how many records recovery has redone
    evicted,        \* a tree was written alone since the last flush
    committed, mixed, used

vars == <<status, mem, disk, next_node, next_edge, log, applied, evicted, committed, mixed,
          used>>

Nodes == 1..MaxNode
Edges == 1..MaxEdge
Props == Values \cup {Absent}
NodeStates == [labels : SUBSET Labels, prop : Props]
EdgeStates == [prop : Props]

ASSUME GraphStoresAssumption ==
    /\ Absent \notin Values \cup NodeStates \cup EdgeStates
    /\ IsFiniteSet(Labels)
    /\ MaxNode \in Nat /\ MaxEdge \in Nat
    /\ Relabel \in BOOLEAN

(* nodes, by_label and by_prop are the node tree, the label index and the  *)
(* node property index, which has a definition for every label; edges, adj *)
(* and edge_meta are the rows, the traversal keys and the id counter.      *)
EmptyTrees ==
    [nodes |-> [n \in Nodes |-> Absent], by_label |-> {}, by_prop |-> {},
     edges |-> [e \in Edges |-> Absent], adj |-> {}, edge_meta |-> 1]

Record(op, id, arg) == [op |-> op, id |-> id, arg |-> arg]

IndexEntries(n, s) ==
    IF s = Absent \/ s.prop = Absent THEN {} ELSE {<<l, s.prop, n>> : l \in s.labels}

-------------------------------------------------------------------------------
(* Mutant of createWithId: the counter skips an id. *)
createWithIdSkipping(t, e, prop) ==
    IF t.edges[e] # Absent \/ e \in t.adj THEN t
    ELSE [t EXCEPT !.edges[e] = [prop |-> prop],
                   !.adj = @ \cup {e},
                   !.edge_meta = IF e >= @ THEN e + 2 ELSE @]

(* The edge store.  A duplicate or a missing entry in any of its trees     *)
(* makes the whole call fail and leave no trace.                           *)
createWithId(t, e, prop) ==
    IF t.edges[e] # Absent \/ e \in t.adj THEN t
    ELSE [t EXCEPT !.edges[e] = [prop |-> prop],
                   !.adj = @ \cup {e},
                   !.edge_meta = IF e >= @ THEN e + 1 ELSE @]

(* Mutant of deleteById: the traversal keys stay. *)
deleteRowOnly(t, e) == [t EXCEPT !.edges[e] = Absent]

deleteById(t, e) ==
    IF t.edges[e] = Absent \/ e \notin t.adj THEN t
    ELSE [t EXCEPT !.edges[e] = Absent, !.adj = @ \ {e}]

-------------------------------------------------------------------------------
(* Commit                                                                  *)

Gone(old, new) ==
    IF old = Absent THEN {} ELSE IF new = Absent THEN old.labels ELSE old.labels \ new.labels

Fresh(old, new) ==
    IF new = Absent THEN {} ELSE IF old = Absent THEN new.labels ELSE new.labels \ old.labels

(* Mutant of NodeRecords: a property that is removed is not logged. *)
NodeRecordsKeepingProperty(n, old, new) ==
    LET each(op, S) == [i \in 1..Cardinality(S) |-> Record(op, n, SetToSeq(S)[i])]
        set(p) == IF p = Absent THEN <<>> ELSE <<Record("property", n, p)>>
    IN  CASE new = Absent -> <<Record("node_delete", n, Absent)>>
          [] new # Absent /\ old = Absent -> <<Record("node_insert", n, new.labels)>> \o set(new.prop)
          [] new # Absent /\ old # Absent ->
                each("label_remove", Gone(old, new)) \o each("label_add", Fresh(old, new))
                \o (IF new.prop = old.prop THEN <<>> ELSE set(new.prop))

(* logCommittedNodeState: the difference between two states, as records.   *)
NodeRecords(n, old, new) ==
    LET each(op, S) == [i \in 1..Cardinality(S) |-> Record(op, n, SetToSeq(S)[i])]
        set(p) == <<Record("property", n, p)>>
    IN  CASE new = Absent -> <<Record("node_delete", n, Absent)>>
          [] new # Absent /\ old = Absent ->
                <<Record("node_insert", n, new.labels)>>
                \o (IF new.prop = Absent THEN <<>> ELSE set(new.prop))
          [] new # Absent /\ old # Absent ->
                each("label_remove", Gone(old, new)) \o each("label_add", Fresh(old, new))
                \o (IF new.prop = old.prop THEN <<>> ELSE set(new.prop))

Entries(labels, n) == {<<l, n>> : l \in labels}

applyNodeState(n, new) ==
    LET old == mem.nodes[n]
    IN  [mem EXCEPT !.nodes[n] = new,
                    !.by_label = (@ \ Entries(Gone(old, new), n)) \cup Entries(Fresh(old, new), n),
                    !.by_prop = (@ \ IndexEntries(n, old)) \cup IndexEntries(n, new)]

Open == status = "open" /\ Len(log) < MaxLog

Inserted(n) == UNION {log[i].arg : i \in {j \in DOMAIN log : log[j].op = "node_insert" /\ log[j].id = n}}

(* A commit that creates, changes or deletes a node.  Adding a label the   *)
(* index already has for the node is an error: the commit fails in the     *)
(* middle of applying, as CommitFailsApplying of TxnOverlay.               *)
commitNode(n, new) ==
    LET old == mem.nodes[n]
    IN  /\ Open
        /\ new # old
        /\ n < next_node => old # Absent
        /\ n <= next_node
        /\ Relabel \/ IF new = Absent THEN TRUE ELSE Inserted(n) \subseteq new.labels
        /\ Entries(Fresh(old, new), n) \cap mem.by_label = {}
        /\ mem' = applyNodeState(n, new)
        /\ log' = log \o NodeRecords(n, old, new)
        /\ committed' = [committed EXCEPT !.nodes[n] = new]
        /\ next_node' = IF n = next_node THEN n + 1 ELSE next_node
        /\ UNCHANGED <<status, disk, next_edge, evicted, mixed, used, applied>>

EdgeApplied(t) == [t EXCEPT !.edge_meta = next_edge']

(* applyEdgeState and syncNextEdgeId for a new edge.  Leftovers of an edge *)
(* with the same id make the commit fail.                                  *)
commitCreateEdge(prop) ==
    /\ Open
    /\ next_edge \in Edges
    /\ mem.edges[next_edge] = Absent /\ next_edge \notin mem.adj
    /\ next_edge' = next_edge + 1
    /\ mem' = EdgeApplied(createWithId(mem, next_edge, prop))
    /\ LET created == Record("edge_insert", next_edge, Absent)
           set == Record("edge_property", next_edge, prop)
       IN  log' = log \o (IF prop = Absent THEN <<created>> ELSE <<created, set>>)
    /\ committed' = [committed EXCEPT !.edges[next_edge] = [prop |-> prop]]
    /\ used' = Max({used, next_edge})
    /\ UNCHANGED <<status, disk, next_node, evicted, mixed, applied>>

(* An edge that is replaced is deleted and created again.                  *)
commitEdgeProperty(e, prop) ==
    /\ Open
    /\ mem.edges[e] # Absent /\ e \in mem.adj
    /\ mem.edges[e].prop # prop
    /\ UNCHANGED next_edge
    /\ mem' = EdgeApplied(createWithId(deleteById(mem, e), e, prop))
    /\ log' = log \o <<Record("edge_property", e, prop)>>
    /\ committed' = [committed EXCEPT !.edges[e] = [prop |-> prop]]
    /\ UNCHANGED <<status, disk, next_node, evicted, mixed, used, applied>>

commitDeleteEdge(e) ==
    /\ Open
    /\ mem.edges[e] # Absent
    /\ UNCHANGED next_edge
    /\ mem' = EdgeApplied(deleteById(mem, e))
    /\ log' = log \o <<Record("edge_delete", e, Absent)>>
    /\ committed' = [committed EXCEPT !.edges[e] = Absent]
    /\ UNCHANGED <<status, disk, next_node, evicted, mixed, used, applied>>

(* Mutant of commitCreateDeleteEdge: nothing is logged for the edge. *)
commitCreateDeleteUnlogged ==
    /\ Open
    /\ next_edge \in Edges
    /\ next_edge' = next_edge + 1
    /\ mem' = EdgeApplied(mem)
    /\ used' = Max({used, next_edge})
    /\ UNCHANGED <<status, disk, next_node, log, evicted, committed, mixed, applied>>

(* One transaction creates an edge and deletes it: both are logged, so     *)
(* that recovery steps over the id.                                        *)
commitCreateDeleteEdge ==
    /\ Open
    /\ next_edge \in Edges
    /\ next_edge' = next_edge + 1
    /\ mem' = EdgeApplied(mem)
    /\ log' = log \o <<Record("edge_insert", next_edge, Absent),
                       Record("edge_delete", next_edge, Absent)>>
    /\ used' = Max({used, next_edge})
    /\ UNCHANGED <<status, disk, next_node, evicted, committed, mixed, applied>>

(* A transaction that was given an edge id rolls back.                     *)
rollbackCreateEdge ==
    /\ Open
    /\ next_edge \in Edges
    /\ next_edge' = next_edge + 1
    /\ UNCHANGED <<status, mem, disk, next_node, log, evicted, committed, mixed, used, applied>>

-------------------------------------------------------------------------------
(* Redo of one record                                                      *)

(* addLabels stops at the first label the index has for the node.          *)
addLabels(index, labels, n) ==
    LET order == SetToSeq(labels)
        clash == {i \in DOMAIN order : <<order[i], n>> \in index}
        upto == IF clash = {} THEN Len(order) ELSE Min(clash) - 1
    IN  index \cup {<<order[i], n>> : i \in 1..upto}

redoInsert(t, r) ==
    IF r.op = "edge_insert" THEN createWithId(t, r.id, Absent)
    ELSE [t EXCEPT !.nodes[r.id] = IF @ = Absent THEN [labels |-> r.arg, prop |-> Absent] ELSE @,
                   !.by_label = addLabels(@, r.arg, r.id)]

redoUpdate(t, r) ==
    LET n == r.id
    IN  CASE r.op = "edge_property" ->
               IF t.edges[n] = Absent THEN t
               ELSE createWithId(deleteById(t, n), n, r.arg)
          [] r.op # "edge_property" /\ t.nodes[n] = Absent -> t
          [] r.op = "property" /\ t.nodes[n] # Absent -> [t EXCEPT !.nodes[n].prop = r.arg]
          [] r.op = "label_add" /\ t.nodes[n] # Absent ->
               IF r.arg \in t.nodes[n].labels THEN t
               ELSE [t EXCEPT !.nodes[n].labels = @ \cup {r.arg},
                              !.by_label = @ \cup {<<r.arg, n>>}]
          [] r.op = "label_remove" /\ t.nodes[n] # Absent ->
               IF r.arg \notin t.nodes[n].labels THEN t
               ELSE [t EXCEPT !.nodes[n].labels = @ \ {r.arg},
                              !.by_label = @ \ {<<r.arg, n>>}]

(* Mutant of redoDelete: the node's labels stay in the index. *)
redoDeleteNodeOnly(t, r) ==
    IF r.op = "edge_delete" THEN deleteById(t, r.id) ELSE [t EXCEPT !.nodes[r.id] = Absent]

redoDelete(t, r) ==
    IF r.op = "edge_delete" THEN deleteById(t, r.id)
    ELSE IF t.nodes[r.id] = Absent THEN t
    ELSE [t EXCEPT !.nodes[r.id] = Absent,
                   !.by_label = @ \ {<<l, r.id>> : l \in t.nodes[r.id].labels}]

Redo(t, r) ==
    CASE r.op \in {"node_insert", "edge_insert"} -> redoInsert(t, r)
      [] r.op \in {"node_delete", "edge_delete"} -> redoDelete(t, r)
      [] OTHER -> redoUpdate(t, r)

(* The property index of the nodes the label index names.                  *)
rebuildPropertyIndexes(t) ==
    [t EXCEPT !.by_prop = {<<e[1], t.nodes[e[2]].prop, e[2]>> :
        e \in {x \in t.by_label : t.nodes[x[2]] # Absent /\ t.nodes[x[2]].prop # Absent}}]

-------------------------------------------------------------------------------
Init ==
    /\ status = "open"
    /\ mem = EmptyTrees /\ disk = EmptyTrees
    /\ next_node = 1 /\ next_edge = 1
    /\ log = <<>> /\ applied = 0
    /\ evicted = FALSE
    /\ committed = [nodes |-> EmptyTrees.nodes, edges |-> EmptyTrees.edges]
    /\ mixed = FALSE
    /\ used = 0

(* A tree written alone, with whatever belongs to it.                      *)
Written(tree) ==
    IF tree = "edges" THEN [disk EXCEPT !.edges = mem.edges, !.edge_meta = mem.edge_meta]
    ELSE [disk EXCEPT ![tree] = mem[tree]]

evict(tree) ==
    /\ status # "closed"
    /\ Written(tree) # disk
    /\ disk' = Written(tree)
    /\ evicted' = TRUE
    /\ UNCHANGED <<status, mem, next_node, next_edge, log, applied, committed, mixed, used>>

(* Database.sync and close: everything is written, the log is kept.        *)
flushAll ==
    /\ status = "open"
    /\ disk' = mem
    /\ evicted' = FALSE
    /\ UNCHANGED <<status, mem, next_node, next_edge, log, applied, committed, mixed, used>>

(* A checkpoint also moves the start of recovery to the end of the log.    *)
checkpoint ==
    /\ status = "open"
    /\ disk' = mem
    /\ log' = <<>>
    /\ evicted' = FALSE
    /\ UNCHANGED <<status, mem, next_node, next_edge, applied, committed, mixed, used>>

(* The process ends; after close the file is what flushAll left.           *)
kill ==
    /\ status # "closed"
    /\ status' = "closed"
    /\ mem' = EmptyTrees
    /\ next_node' = 1 /\ next_edge' = 1
    /\ applied' = 0
    /\ mixed' = (mixed \/ evicted)
    /\ evicted' = FALSE
    /\ UNCHANGED <<disk, log, committed, used>>

(* The stores take the next ids from what they find in the file.           *)
open ==
    /\ status = "closed"
    /\ status' = "recovering"
    /\ mem' = disk
    /\ next_node' = 1 + Max({0} \cup {n \in Nodes : disk.nodes[n] # Absent})
    /\ next_edge' = disk.edge_meta
    /\ UNCHANGED <<disk, log, applied, evicted, committed, mixed, used>>

(* One record, and the ids that createWithId of both stores steps over.    *)
redoPass ==
    /\ status = "recovering" /\ applied < Len(log)
    /\ LET r == log[applied + 1]
       IN  /\ mem' = Redo(mem, r)
           /\ next_node' = IF r.op = "node_insert" /\ r.id >= next_node THEN r.id + 1 ELSE next_node
    /\ next_edge' = mem'.edge_meta
    /\ applied' = applied + 1
    /\ UNCHANGED <<status, disk, log, evicted, committed, mixed, used>>

(* Mutant of resume: the property indexes are not rebuilt. *)
resumeWithoutRebuild ==
    /\ status = "recovering" /\ applied = Len(log)
    /\ status' = "open"
    /\ applied' = 0
    /\ UNCHANGED <<mem, disk, next_node, next_edge, log, evicted, committed, mixed, used>>

(* The end of recovery.                                                    *)
resume ==
    /\ status = "recovering" /\ applied = Len(log)
    /\ status' = "open"
    /\ mem' = IF log = <<>> THEN mem ELSE rebuildPropertyIndexes(mem)
    /\ applied' = 0
    /\ UNCHANGED <<disk, next_node, next_edge, log, evicted, committed, mixed, used>>

Commit ==
    \/ \E n \in Nodes, new \in NodeStates \cup {Absent} : commitNode(n, new)
    \/ \E prop \in Props : commitCreateEdge(prop)
    \/ \E e \in Edges, prop \in Props : commitEdgeProperty(e, prop)
    \/ \E e \in Edges : commitDeleteEdge(e)
    \/ commitCreateDeleteEdge

Next ==
    \/ Commit
    \/ rollbackCreateEdge
    \/ \E tree \in {"nodes", "by_label", "edges", "adj"} : evict(tree)
    \/ flushAll \/ checkpoint
    \/ kill \/ open \/ redoPass \/ resume

Spec == Init /\ [][Next]_vars

-------------------------------------------------------------------------------
TypeOK ==
    /\ status \in {"open", "recovering", "closed"}
    /\ \A t \in {mem, disk} :
         /\ t.nodes \in [Nodes -> NodeStates \cup {Absent}]
         /\ t.by_label \subseteq Labels \X Nodes
         /\ t.by_prop \subseteq Labels \X Values \X Nodes
         /\ t.edges \in [Edges -> EdgeStates \cup {Absent}]
         /\ t.adj \subseteq Edges
         /\ t.edge_meta \in 1..(MaxEdge + 1)
    /\ next_node \in 1..(MaxNode + 1)
    /\ next_edge \in 1..(MaxEdge + 1)
    /\ applied \in 0..Len(log)
    /\ used \in 0..MaxEdge

(* Whichever trees had reached the file, in whichever versions, and        *)
(* however often the log is redone over later states: the node store of an *)
(* open database is exactly what was committed (recovery.zig, redoPass).   *)
NodesRecovered == status = "open" => mem.nodes = committed.nodes

(* So is the edge store, by id and by traversal, unless a kill left its    *)
(* trees in the file in versions of different moments.                     *)
EdgesRecovered ==
    status = "open" /\ ~mixed =>
        /\ mem.edges = committed.edges
        /\ mem.adj = {e \in Edges : mem.edges[e] # Absent}

(* And the label index names for each label the nodes that have it, and    *)
(* the property index the nodes with the label and the value: lookups find *)
(* all of them and no others.                                              *)
LabelsIndexed ==
    status = "open" /\ ~mixed =>
        mem.by_label = {x \in Labels \X Nodes : /\ mem.nodes[x[2]] # Absent
                                                /\ x[1] \in mem.nodes[x[2]].labels}

PropertiesIndexed ==
    status = "open" /\ ~mixed =>
        mem.by_prop = UNION {IndexEntries(n, mem.nodes[n]) : n \in Nodes}

(* An edge id that was ever committed is not given out again, though the   *)
(* edge is gone and the counter was not flushed.                           *)
CommittedEdgeIdsNotReused == status = "open" /\ ~mixed => used < next_edge
===============================================================================
