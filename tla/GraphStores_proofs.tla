--------------------------- MODULE GraphStores_proofs ---------------------------
(***************************************************************************)
(* Theorems about GraphStores: what redoing the log over any version of    *)
(* the trees gives, and that stores, indexes and counters come back as     *)
(* committed.                                                              *)
(***************************************************************************)
EXTENDS GraphStores, FiniteSetTheorems, WellFoundedInduction, TLAPS

-----------------------------------------------------------------------------
(* The records of a log and what they do to one node or one edge.  A cell  *)
(* is a node's state or an edge's, with no labels; an attribute is a label *)
(* or the property.                                                        *)
NodeOps == [insert |-> "node_insert", delete |-> "node_delete", property |-> "property",
            add |-> "label_add", remove |-> "label_remove"]
EdgeOps == [insert |-> "edge_insert", delete |-> "edge_delete", property |-> "edge_property",
            add |-> "no_add", remove |-> "no_remove"]

Cells == NodeStates \cup {Absent}
EdgeCell(s) == IF s = Absent THEN Absent ELSE [labels |-> {}, prop |-> s.prop]

Attributes == {<<"label", l>> : l \in Labels} \cup {<<"property", Absent>>}
Value(s, a) == IF a[1] = "label" THEN a[2] \in s.labels ELSE s.prop

Inserts(K, r, n) == r.op = K.insert /\ r.id = n
Deletes(K, r, n) == r.op = K.delete /\ r.id = n
Touches(K, r, n, a) ==
    /\ r.id = n
    /\ \/ a[1] = "label" /\ r.op \in {K.add, K.remove} /\ r.arg = a[2]
       \/ a[1] = "property" /\ r.op = K.property
Given(K, r, a) == IF a[1] = "label" THEN r.op = K.add ELSE r.arg
About(K, r, n) == Inserts(K, r, n) \/ Deletes(K, r, n) \/ \E a \in Attributes : Touches(K, r, n, a)

NewCell(r) == [labels |-> IF r.op = "node_insert" THEN r.arg ELSE {}, prop |-> Absent]

RedoCell(K, s, r, n) ==
    IF Deletes(K, r, n) THEN Absent
    ELSE IF Inserts(K, r, n) THEN IF s = Absent THEN NewCell(r) ELSE s
    ELSE IF s = Absent \/ r.id # n THEN s
    ELSE IF r.op = K.property THEN [labels |-> s.labels, prop |-> r.arg]
    ELSE IF r.op = K.add THEN [labels |-> s.labels \cup {r.arg}, prop |-> s.prop]
    ELSE IF r.op = K.remove THEN [labels |-> s.labels \ {r.arg}, prop |-> s.prop]
    ELSE s

(* What redoing L after its first k records makes of n, from s to f.       *)
After(L, k) == (k + 1)..Len(L)

LastTouch(K, L, i, n, a) ==
    Touches(K, L[i], n, a) /\ \A j \in After(L, i) : ~Touches(K, L[j], n, a)
LastDelete(K, L, i, n) ==
    Deletes(K, L[i], n) /\ \A j \in After(L, i) : ~Deletes(K, L[j], n)
FirstInsert(K, L, k, i, n) ==
    Inserts(K, L[i], n) /\ \A j \in (k + 1)..(i - 1) : ~Inserts(K, L[j], n)

ChangesTo(K, L, k, n, s, f) ==
    /\ f # Absent
    /\ \A a \in Attributes :
         /\ \A i \in After(L, k) : LastTouch(K, L, i, n, a) => Value(f, a) = Given(K, L[i], a)
         /\ (\A i \in After(L, k) : ~Touches(K, L[i], n, a)) => Value(f, a) = Value(s, a)

CreatesTo(K, L, k, n, f) ==
    /\ (\A i \in After(L, k) : ~Inserts(K, L[i], n)) => f = Absent
    /\ \A i \in After(L, k) : FirstInsert(K, L, k, i, n) => ChangesTo(K, L, i, n, NewCell(L[i]), f)

Gives(K, L, k, n, s, f) ==
    /\ \A d \in After(L, k) : LastDelete(K, L, d, n) => CreatesTo(K, L, d, n, f)
    /\ (\A d \in After(L, k) : ~Deletes(K, L[d], n)) =>
         IF s = Absent THEN CreatesTo(K, L, k, n, f) ELSE ChangesTo(K, L, k, n, s, f)

(* Nothing of n comes before its insertion but what a deletion ended.      *)
InsertFirst(K, L, n) ==
    \A i \in DOMAIN L : Inserts(K, L[i], n) =>
        \A j \in 1..(i - 1) : About(K, L[j], n) => \E d \in j..(i - 1) : Deletes(K, L[d], n)
Ended(K, L, n) ==
    \A j \in DOMAIN L : About(K, L[j], n) => \E d \in j..Len(L) : Deletes(K, L[d], n)

LogOf(K, L, n, f) ==
    /\ InsertFirst(K, L, n)
    /\ f = Absent => Ended(K, L, n)
    /\ Gives(K, L, 0, n, f, f)

(* An insertion that is redone over n finds its labels there.              *)
Keeps(L, k, n, s) ==
    s # Absent => \A i \in After(L, k) :
        Inserts(NodeOps, L[i], n) /\ (\A d \in (k + 1)..(i - 1) : ~Deletes(NodeOps, L[d], n))
            => L[i].arg \subseteq s.labels

-----------------------------------------------------------------------------
Records ==
    [op : {"node_insert"}, id : Nodes, arg : SUBSET Labels]
    \cup [op : {"node_delete"}, id : Nodes, arg : {Absent}]
    \cup [op : {"property"}, id : Nodes, arg : Props]
    \cup [op : {"label_add", "label_remove"}, id : Nodes, arg : Labels]
    \cup [op : {"edge_insert", "edge_delete"}, id : Edges, arg : {Absent}]
    \cup [op : {"edge_property"}, id : Edges, arg : Props]

Trees ==
    [nodes : [Nodes -> Cells], by_label : SUBSET (Labels \X Nodes),
     by_prop : SUBSET (Labels \X Values \X Nodes),
     edges : [Edges -> EdgeStates \cup {Absent}], adj : SUBSET Edges,
     edge_meta : 1..(MaxEdge + 1)]

TInv ==
    /\ status \in {"open", "recovering", "closed"}
    /\ mem \in Trees /\ disk \in Trees
    /\ next_node \in 1..(MaxNode + 1) /\ next_edge \in 1..(MaxEdge + 1)
    /\ log \in Seq(Records)
    /\ applied \in 0..Len(log)
    /\ committed \in [nodes : [Nodes -> Cells], edges : [Edges -> EdgeStates \cup {Absent}]]
    /\ evicted \in BOOLEAN /\ mixed \in BOOLEAN
    /\ used \in 0..MaxEdge
    /\ status # "recovering" => applied = 0
    /\ status = "closed" => ~evicted

NodeInv ==
    \A n \in Nodes :
        /\ LogOf(NodeOps, log, n, committed.nodes[n])
        /\ Gives(NodeOps, log, 0, n, disk.nodes[n], committed.nodes[n])
        /\ status = "recovering" =>
             /\ Gives(NodeOps, log, 0, n, mem.nodes[n], committed.nodes[n])
             /\ Gives(NodeOps, log, applied, n, mem.nodes[n], committed.nodes[n])
        /\ status = "open" => mem.nodes[n] = committed.nodes[n]

EdgeTrees(t) ==
    /\ t.adj = {e \in Edges : t.edges[e] # Absent}
    /\ \A e \in t.adj : e < t.edge_meta
UsedSeen(t, k) ==
    \/ used < t.edge_meta
    \/ \E i \in After(log, k) : Inserts(EdgeOps, log[i], used)
EdgesGive(t, k) ==
    /\ EdgeTrees(t)
    /\ UsedSeen(t, k)
    /\ \A e \in Edges : Gives(EdgeOps, log, k, e, EdgeCell(t.edges[e]), EdgeCell(committed.edges[e]))

EdgeInv ==
    ~mixed =>
        /\ \A e \in Edges : LogOf(EdgeOps, log, e, EdgeCell(committed.edges[e]))
        /\ ~evicted => EdgesGive(disk, 0)
        /\ status = "recovering" => EdgesGive(mem, applied) /\ next_edge = mem.edge_meta
        /\ status = "open" =>
             /\ EdgeTrees(mem) /\ mem.edges = committed.edges
             /\ used < mem.edge_meta /\ mem.edge_meta <= next_edge

LabelIndex(t) ==
    t.by_label = {x \in Labels \X Nodes : /\ t.nodes[x[2]] # Absent
                                          /\ x[1] \in t.nodes[x[2]].labels}
PropertyIndex(t) == t.by_prop = UNION {IndexEntries(n, t.nodes[n]) : n \in Nodes}

LabelInv ==
    ~mixed /\ ~Relabel =>
        /\ \A n \in Nodes : committed.nodes[n] # Absent => Inserted(n) \subseteq committed.nodes[n].labels
        /\ ~evicted => /\ LabelIndex(disk) /\ PropertyIndex(disk)
                       /\ \A n \in Nodes : Keeps(log, 0, n, disk.nodes[n])
        /\ status = "recovering" => /\ LabelIndex(mem)
                                    /\ log = <<>> => PropertyIndex(mem)
                                    /\ \A n \in Nodes : Keeps(log, applied, n, mem.nodes[n])
        /\ status = "open" => LabelIndex(mem) /\ PropertyIndex(mem)
-----------------------------------------------------------------------------
(* One record and one cell.                                                *)

Kinds == {NodeOps, EdgeOps}

LEMMA Exclusive ==
    ASSUME NEW K \in Kinds, NEW r, NEW n
    PROVE  /\ Inserts(K, r, n) => ~Deletes(K, r, n) /\ \A a \in Attributes : ~Touches(K, r, n, a)
           /\ Deletes(K, r, n) => \A a \in Attributes : ~Touches(K, r, n, a)
  <1>1. CASE K = NodeOps
    BY <1>1 DEF NodeOps, Inserts, Deletes, Touches, Attributes
  <1>2. CASE K = EdgeOps
    BY <1>2 DEF EdgeOps, Inserts, Deletes, Touches, Attributes
  <1> QED BY <1>1, <1>2 DEF Kinds

LEMMA CellsOf ==
    /\ Absent \notin NodeStates
    /\ \A s \in NodeStates : s.labels \subseteq Labels /\ s.prop \in Props
    /\ \A L \in SUBSET Labels, p \in Props : [labels |-> L, prop |-> p] \in NodeStates
  BY GraphStoresAssumption DEF NodeStates

LEMMA NewCellType ==
    ASSUME NEW K \in Kinds, NEW r \in Records, NEW n, Inserts(K, r, n)
    PROVE  NewCell(r) \in NodeStates
  <1>1. IF r.op = "node_insert" THEN r.arg \in SUBSET Labels ELSE TRUE
    BY DEF Records
  <1> QED BY <1>1 DEF NewCell, NodeStates, Props

LEMMA RedoCellType ==
    ASSUME NEW K \in Kinds, NEW r \in Records, NEW n, NEW s \in Cells
    PROVE  RedoCell(K, s, r, n) \in Cells
  <1>1. CASE Inserts(K, r, n) \/ Deletes(K, r, n) \/ s = Absent \/ r.id # n
    BY <1>1, NewCellType DEF RedoCell, Cells
  <1>2. CASE ~(Inserts(K, r, n) \/ Deletes(K, r, n) \/ s = Absent \/ r.id # n)
    <2>1. s \in NodeStates
      BY <1>2 DEF Cells
    <2>2. CASE r.op = K.property
      <3>1. r.arg \in Props
        BY <2>2 DEF Records, Kinds, NodeOps, EdgeOps
      <3> QED BY <1>2, <2>1, <2>2, <3>1 DEF RedoCell, Cells, NodeStates
    <2>3. CASE r.op \in {K.add, K.remove} /\ r.op # K.property
      <3>1. r.arg \in Labels
        BY <2>3 DEF Records, Kinds, NodeOps, EdgeOps
      <3> QED BY <1>2, <2>1, <2>3, <3>1 DEF RedoCell, Cells, NodeStates
    <2>4. CASE r.op \notin {K.property, K.add, K.remove}
      BY <1>2, <2>4 DEF RedoCell
    <2> QED BY <2>2, <2>3, <2>4
  <1> QED BY <1>1, <1>2

(* A record that touches an attribute sets it; others leave it.            *)
LEMMA RedoValue ==
    ASSUME NEW K \in Kinds, NEW r \in Records, NEW n, NEW s \in NodeStates,
           ~Deletes(K, r, n), NEW a \in Attributes
    PROVE  /\ RedoCell(K, s, r, n) # Absent
           /\ Value(RedoCell(K, s, r, n), a) =
                 IF Touches(K, r, n, a) THEN Given(K, r, a) ELSE Value(s, a)
  <1>0. s # Absent /\ s = [labels |-> s.labels, prop |-> s.prop]
    BY CellsOf DEF NodeStates
  <1>1. CASE Inserts(K, r, n) \/ r.id # n
    <2>1. RedoCell(K, s, r, n) = s
      BY <1>0, <1>1 DEF RedoCell
    <2>2. ~Touches(K, r, n, a)
      BY <1>1, Exclusive DEF Touches
    <2> QED BY <1>0, <2>1, <2>2
  <1>2. CASE ~Inserts(K, r, n) /\ r.id = n
    <2>0. a[1] \in {"label", "property"}
      BY DEF Attributes
    <2>1. CASE r.op = K.property
      <3>1. RedoCell(K, s, r, n) = [labels |-> s.labels, prop |-> r.arg]
        BY <1>0, <1>2, <2>1 DEF RedoCell
      <3>3. r.op \notin {K.add, K.remove}
        BY <2>1 DEF Kinds, NodeOps, EdgeOps
      <3>4. r.arg \in Props
        BY <2>1 DEF Records, Kinds, NodeOps, EdgeOps
      <3>5. RedoCell(K, s, r, n) \in NodeStates
        BY <3>1, <3>4, CellsOf
      <3> QED BY <1>2, <2>0, <2>1, <3>1, <3>3, <3>5, CellsOf DEF Touches, Given, Value
    <2>2. CASE r.op = K.add \/ r.op = K.remove
      <3>1. r.op # K.property /\ K.add # K.remove
        BY <2>2 DEF Kinds, NodeOps, EdgeOps
      <3>2. r.arg \in Labels
        BY <2>2 DEF Records, Kinds, NodeOps, EdgeOps
      <3> DEFINE labels == IF r.op = K.add THEN s.labels \cup {r.arg} ELSE s.labels \ {r.arg}
      <3>3. RedoCell(K, s, r, n) = [labels |-> labels, prop |-> s.prop]
        BY <1>0, <1>2, <2>2, <3>1 DEF RedoCell
      <3>5. labels \in SUBSET Labels
        BY <3>2, CellsOf
      <3>6. RedoCell(K, s, r, n) \in NodeStates
        BY <3>3, <3>5, CellsOf
      <3> QED BY <1>2, <2>0, <2>2, <3>1, <3>3, <3>6, CellsOf DEF Touches, Given, Value
    <2>3. CASE r.op \notin {K.property, K.add, K.remove}
      <3>1. RedoCell(K, s, r, n) = s
        BY <1>0, <1>2, <2>3 DEF RedoCell
      <3> QED BY <1>0, <2>0, <2>3, <3>1 DEF Touches
    <2> QED BY <2>1, <2>2, <2>3
  <1> QED BY <1>1, <1>2

(* Cells with the same attributes are the same.                            *)
LEMMA SameCells ==
    ASSUME NEW s \in NodeStates, NEW f \in NodeStates,
           \A a \in Attributes : Value(f, a) = Value(s, a)
    PROVE  f = s
  <1>1. \A l \in Labels : l \in f.labels <=> l \in s.labels
    <2> SUFFICES ASSUME NEW l \in Labels PROVE l \in f.labels <=> l \in s.labels
      OBVIOUS
    <2>1. <<"label", l>> \in Attributes
      BY DEF Attributes
    <2> QED BY <2>1 DEF Value
  <1>2. f.prop = s.prop
    <2>1. <<"property", Absent>> \in Attributes
      BY DEF Attributes
    <2> QED BY <2>1 DEF Value
  <1>3. f.labels = s.labels
    BY <1>1, CellsOf
  <1> QED BY <1>2, <1>3 DEF NodeStates

(* What a record does to a cell that is absent.                            *)
LEMMA RedoAbsent ==
    ASSUME NEW K \in Kinds, NEW r, NEW n
    PROVE  RedoCell(K, Absent, r, n) = IF Inserts(K, r, n) THEN NewCell(r) ELSE Absent
  BY Exclusive DEF RedoCell

LEMMA RedoDelete ==
    ASSUME NEW K \in Kinds, NEW r, NEW n, NEW s, Deletes(K, r, n)
    PROVE  RedoCell(K, s, r, n) = Absent
  BY DEF RedoCell
-----------------------------------------------------------------------------
(* A log and one cell.                                                     *)

LEMMA AfterIs ==
    ASSUME NEW L \in Seq(Records), NEW k \in Nat, k < Len(L)
    PROVE  /\ After(L, k) = {k + 1} \cup After(L, k + 1)
           /\ k + 1 \in Nat /\ k + 1 \in DOMAIN L
           /\ After(L, k + 1) \subseteq DOMAIN L
  BY DEF After

LEMMA ChangesStep ==
    ASSUME NEW K \in Kinds, NEW L \in Seq(Records), NEW k \in Nat, k < Len(L),
           NEW n, NEW s \in NodeStates, NEW f,
           ~Deletes(K, L[k + 1], n), ChangesTo(K, L, k, n, s, f)
    PROVE  ChangesTo(K, L, k + 1, n, RedoCell(K, s, L[k + 1], n), f)
  <1> DEFINE r == L[k + 1]
             t == RedoCell(K, s, r, n)
  <1>1. f # Absent
    BY DEF ChangesTo
  <1>2. ASSUME NEW a \in Attributes
        PROVE  /\ \A i \in After(L, k + 1) :
                    LastTouch(K, L, i, n, a) => Value(f, a) = Given(K, L[i], a)
               /\ (\A i \in After(L, k + 1) : ~Touches(K, L[i], n, a)) => Value(f, a) = Value(t, a)
    <2>1. /\ \A i \in After(L, k) : LastTouch(K, L, i, n, a) => Value(f, a) = Given(K, L[i], a)
          /\ (\A i \in After(L, k) : ~Touches(K, L[i], n, a)) => Value(f, a) = Value(s, a)
      BY DEF ChangesTo
    <2>2. Value(t, a) = IF Touches(K, r, n, a) THEN Given(K, r, a) ELSE Value(s, a)
      BY AfterIs, RedoValue
    <2>3. ASSUME \A i \in After(L, k + 1) : ~Touches(K, L[i], n, a)
          PROVE  Value(f, a) = Value(t, a)
      <3>1. CASE Touches(K, r, n, a)
        <4>1. LastTouch(K, L, k + 1, n, a)
          BY <2>3, <3>1 DEF LastTouch
        <4> QED BY <2>1, <2>2, <3>1, <4>1, AfterIs
      <3>2. CASE ~Touches(K, r, n, a)
        BY <2>1, <2>2, <2>3, <3>2, AfterIs
      <3> QED BY <3>1, <3>2
    <2> QED BY <2>1, <2>3, AfterIs
  <1> QED BY <1>1, <1>2 DEF ChangesTo

LEMMA CreatesStep ==
    ASSUME NEW K \in Kinds, NEW L \in Seq(Records), NEW k \in Nat, k < Len(L),
           NEW n, NEW f, ~Inserts(K, L[k + 1], n), CreatesTo(K, L, k, n, f)
    PROVE  CreatesTo(K, L, k + 1, n, f)
  <1>1. (\A i \in After(L, k + 1) : ~Inserts(K, L[i], n)) => f = Absent
    BY AfterIs DEF CreatesTo
  <1>2. ASSUME NEW i \in After(L, k + 1), FirstInsert(K, L, k + 1, i, n)
        PROVE  ChangesTo(K, L, i, n, NewCell(L[i]), f)
    <2>1. FirstInsert(K, L, k, i, n)
      <3>1. \A j \in (k + 1)..(i - 1) : j = k + 1 \/ j \in (k + 1 + 1)..(i - 1)
        BY <1>2 DEF After
      <3> QED BY <1>2, <3>1 DEF FirstInsert
    <2> QED BY <1>2, <2>1, AfterIs DEF CreatesTo
  <1> QED BY <1>1, <1>2 DEF CreatesTo

(* Redoing one record leaves what the rest gives as it was.                *)
LEMMA GivesStep ==
    ASSUME NEW K \in Kinds, NEW L \in Seq(Records), NEW k \in Nat, k < Len(L),
           NEW n, NEW s \in Cells, NEW f, Gives(K, L, k, n, s, f)
    PROVE  Gives(K, L, k + 1, n, RedoCell(K, s, L[k + 1], n), f)
  <1> DEFINE r == L[k + 1]
             t == RedoCell(K, s, r, n)
  <1>1. \A d \in After(L, k + 1) : LastDelete(K, L, d, n) => CreatesTo(K, L, d, n, f)
    BY AfterIs DEF Gives
  <1>2. ASSUME \A d \in After(L, k + 1) : ~Deletes(K, L[d], n)
        PROVE  IF t = Absent THEN CreatesTo(K, L, k + 1, n, f)
               ELSE ChangesTo(K, L, k + 1, n, t, f)
    <2>1. CASE Deletes(K, r, n)
      <3>1. LastDelete(K, L, k + 1, n)
        BY <1>2, <2>1 DEF LastDelete
      <3>2. CreatesTo(K, L, k + 1, n, f)
        BY <3>1, AfterIs DEF Gives
      <3> QED BY <2>1, <3>2, RedoDelete
    <2>2. CASE ~Deletes(K, r, n)
      <3>1. \A d \in After(L, k) : ~Deletes(K, L[d], n)
        BY <1>2, <2>2, AfterIs
      <3>2. CASE s = Absent /\ Inserts(K, r, n)
        <4>1. t = NewCell(r) /\ t # Absent
          BY <3>2, RedoAbsent, NewCellType, CellsOf, AfterIs
        <4>2. FirstInsert(K, L, k, k + 1, n)
          BY <3>2 DEF FirstInsert
        <4>3. CreatesTo(K, L, k, n, f)
          BY <3>1, <3>2 DEF Gives
        <4>4. ChangesTo(K, L, k + 1, n, NewCell(r), f)
          BY <4>2, <4>3, AfterIs DEF CreatesTo
        <4> QED BY <4>1, <4>4
      <3>3. CASE s = Absent /\ ~Inserts(K, r, n)
        <4>1. t = Absent
          BY <3>3, RedoAbsent
        <4>2. CreatesTo(K, L, k, n, f)
          BY <3>1, <3>3 DEF Gives
        <4> QED BY <3>3, <4>1, <4>2, CreatesStep
      <3>4. CASE s # Absent
        <4>1. s \in NodeStates
          BY <3>4 DEF Cells
        <4>2. ChangesTo(K, L, k, n, s, f)
          BY <3>1, <3>4 DEF Gives
        <4>3. t # Absent
          <5>1. PICK a \in Attributes : TRUE
            BY DEF Attributes
          <5> QED BY <2>2, <4>1, <5>1, RedoValue, AfterIs
        <4> QED BY <2>2, <4>1, <4>2, <4>3, ChangesStep
      <3> QED BY <3>2, <3>3, <3>4
    <2> QED BY <2>1, <2>2
  <1> QED BY <1>1, <1>2 DEF Gives

(* When all is redone, the cell is what was to be given.                   *)
LEMMA GivesAll ==
    ASSUME NEW K \in Kinds, NEW L \in Seq(Records), NEW n, NEW s \in Cells, NEW f \in Cells,
           Gives(K, L, Len(L), n, s, f)
    PROVE  s = f
  <1>1. After(L, Len(L)) = {}
    BY DEF After
  <1>2. CASE s = Absent
    BY <1>1, <1>2 DEF Gives, CreatesTo
  <1>3. CASE s # Absent
    <2>1. ChangesTo(K, L, Len(L), n, s, f)
      BY <1>1, <1>3 DEF Gives
    <2>2. s \in NodeStates /\ f \in NodeStates
      BY <1>3, <2>1 DEF ChangesTo, Cells
    <2>3. \A a \in Attributes : Value(f, a) = Value(s, a)
      BY <1>1, <2>1 DEF ChangesTo
    <2> QED BY <2>2, <2>3, SameCells
  <1> QED BY <1>2, <1>3

(* Nothing of n is redone between k and its insertion, unless something is *)
(* deleted.                                                                *)
LEMMA NothingBefore ==
    ASSUME NEW K \in Kinds, NEW L \in Seq(Records), NEW n, InsertFirst(K, L, n),
           \A d \in After(L, 0) : ~Deletes(K, L[d], n),
           NEW i \in After(L, 0), Inserts(K, L[i], n)
    PROVE  \A j \in 1..(i - 1) : ~About(K, L[j], n)
  <1> SUFFICES ASSUME NEW j \in 1..(i - 1), About(K, L[j], n) PROVE FALSE
    OBVIOUS
  <1>1. i \in DOMAIN L
    BY DEF After
  <1>2. PICK d \in j..(i - 1) : Deletes(K, L[d], n)
    BY <1>1 DEF InsertFirst
  <1>3. d \in After(L, 0)
    BY <1>1 DEF After
  <1> QED BY <1>2, <1>3

LEMMA TouchIsAbout ==
    ASSUME NEW K, NEW r, NEW n, NEW a \in Attributes, Touches(K, r, n, a)
    PROVE  About(K, r, n)
  BY DEF About

(* Changes after an insertion are all the changes there are.               *)
LEMMA ChangesFromStart ==
    ASSUME NEW K \in Kinds, NEW L \in Seq(Records), NEW n, InsertFirst(K, L, n),
           \A d \in After(L, 0) : ~Deletes(K, L[d], n),
           NEW i \in After(L, 0), Inserts(K, L[i], n),
           NEW s, NEW f, ChangesTo(K, L, i, n, s, f)
    PROVE  ChangesTo(K, L, 0, n, s, f)
  <1>1. f # Absent
    BY DEF ChangesTo
  <1>2. ASSUME NEW a \in Attributes
        PROVE  /\ \A j \in After(L, 0) :
                    LastTouch(K, L, j, n, a) => Value(f, a) = Given(K, L[j], a)
               /\ (\A j \in After(L, 0) : ~Touches(K, L[j], n, a)) => Value(f, a) = Value(s, a)
    <2>1. \A j \in After(L, 0) : j \in After(L, i) \/ ~Touches(K, L[j], n, a)
      <3> SUFFICES ASSUME NEW j \in After(L, 0), j \notin After(L, i), Touches(K, L[j], n, a)
                   PROVE  FALSE
        OBVIOUS
      <3>1. CASE j = i
        BY <3>1, Exclusive
      <3>2. CASE j # i
        <4>1. j \in 1..(i - 1)
          BY <3>2 DEF After
        <4> QED BY <4>1, NothingBefore, TouchIsAbout
      <3> QED BY <3>1, <3>2
    <2>2. After(L, i) \subseteq After(L, 0)
      BY DEF After
    <2> QED BY <2>1, <2>2 DEF ChangesTo, LastTouch
  <1> QED BY <1>1, <1>2 DEF ChangesTo

(* Redoing a record twice does no harm: the log may be redone from its     *)
(* start over a cell in the middle of redo ...                             *)
LEMMA GivesAgain ==
    ASSUME NEW K \in Kinds, NEW L \in Seq(Records), NEW n, InsertFirst(K, L, n),
           NEW s \in Cells, NEW f, Gives(K, L, 0, n, s, f), NEW k \in Nat, k < Len(L)
    PROVE  Gives(K, L, 0, n, RedoCell(K, s, L[k + 1], n), f)
  <1> DEFINE r == L[k + 1]
             t == RedoCell(K, s, r, n)
  <1>0. k + 1 \in After(L, 0) /\ r \in Records
    BY DEF After
  <1>1. \A d \in After(L, 0) : LastDelete(K, L, d, n) => CreatesTo(K, L, d, n, f)
    BY DEF Gives
  <1>2. ASSUME \A d \in After(L, 0) : ~Deletes(K, L[d], n)
        PROVE  IF t = Absent THEN CreatesTo(K, L, 0, n, f) ELSE ChangesTo(K, L, 0, n, t, f)
    <2>1. ~Deletes(K, r, n)
      BY <1>0, <1>2
    <2>2. CASE s = Absent /\ ~Inserts(K, r, n)
      <3>1. t = Absent
        BY <2>2, RedoAbsent
      <3> QED BY <1>2, <2>2, <3>1 DEF Gives
    <2>3. CASE s = Absent /\ Inserts(K, r, n)
      <3>1. t = NewCell(r) /\ t # Absent
        BY <1>0, <2>3, RedoAbsent, NewCellType, CellsOf
      <3>2. CreatesTo(K, L, 0, n, f)
        BY <1>2, <2>3 DEF Gives
      <3>3. \A j \in 1..(k + 1 - 1) : ~Inserts(K, L[j], n)
        BY <1>0, <1>2, <2>3, NothingBefore DEF About
      <3>4. FirstInsert(K, L, 0, k + 1, n)
        BY <2>3, <3>3 DEF FirstInsert
      <3>5. ChangesTo(K, L, k + 1, n, NewCell(r), f)
        BY <1>0, <3>2, <3>4 DEF CreatesTo
      <3> QED BY <1>0, <1>2, <2>3, <3>1, <3>5, ChangesFromStart
    <2>4. CASE s # Absent
      <3>1. s \in NodeStates
        BY <2>4 DEF Cells
      <3>2. ChangesTo(K, L, 0, n, s, f)
        BY <1>2, <2>4 DEF Gives
      <3>3. \A a \in Attributes : /\ t # Absent
                                  /\ ~Touches(K, r, n, a) => Value(t, a) = Value(s, a)
        BY <1>0, <2>1, <3>1, RedoValue
      <3>4. ChangesTo(K, L, 0, n, t, f)
        BY <1>0, <3>2, <3>3 DEF ChangesTo
      <3>5. PICK a \in Attributes : TRUE
        BY DEF Attributes
      <3> QED BY <3>3, <3>4, <3>5
    <2> QED BY <2>2, <2>3, <2>4
  <1> QED BY <1>1, <1>2 DEF Gives

(* ... or at its end.                                                      *)
LEMMA GivesAtEnd ==
    ASSUME NEW K \in Kinds, NEW L \in Seq(Records), NEW n, InsertFirst(K, L, n),
           NEW s, NEW f, Gives(K, L, 0, n, s, f)
    PROVE  Gives(K, L, 0, n, f, f)
  <1>1. \A d \in After(L, 0) : LastDelete(K, L, d, n) => CreatesTo(K, L, d, n, f)
    BY DEF Gives
  <1>2. ASSUME \A d \in After(L, 0) : ~Deletes(K, L[d], n)
        PROVE  IF f = Absent THEN CreatesTo(K, L, 0, n, f) ELSE ChangesTo(K, L, 0, n, f, f)
    <2>1. CASE s # Absent
      <3>1. ChangesTo(K, L, 0, n, s, f)
        BY <1>2, <2>1 DEF Gives
      <3> QED BY <3>1 DEF ChangesTo
    <2>2. CASE s = Absent
      <3>1. CreatesTo(K, L, 0, n, f)
        BY <1>2, <2>2 DEF Gives
      <3>2. CASE f # Absent
        <4>1. PICK i \in After(L, 0) : Inserts(K, L[i], n)
          BY <3>1, <3>2 DEF CreatesTo
        <4>2. \A j \in 1..(i - 1) : ~Inserts(K, L[j], n)
          BY <1>2, <4>1, NothingBefore DEF About
        <4>3. FirstInsert(K, L, 0, i, n)
          BY <4>1, <4>2 DEF FirstInsert
        <4>4. ChangesTo(K, L, i, n, NewCell(L[i]), f)
          BY <3>1, <4>3 DEF CreatesTo
        <4>5. ChangesTo(K, L, 0, n, NewCell(L[i]), f)
          BY <1>2, <4>1, <4>4, ChangesFromStart
        <4> QED BY <3>2, <4>5 DEF ChangesTo
      <3> QED BY <3>1, <3>2
    <2> QED BY <2>1, <2>2
  <1> QED BY <1>1, <1>2 DEF Gives
-----------------------------------------------------------------------------
(* The records of a commit that takes n from old to new.                   *)

Carries(K, R, n, old, new) ==
    \/ /\ new = Absent /\ R # <<>> /\ Deletes(K, R[Len(R)], n)
       /\ \A i \in DOMAIN R : Inserts(K, R[i], n) => i = 1 /\ old = Absent
    \/ /\ old = Absent /\ R # <<>> /\ Inserts(K, R[1], n)
       /\ \A i \in DOMAIN R : ~Deletes(K, R[i], n) /\ (Inserts(K, R[i], n) => i = 1)
       /\ ChangesTo(K, R, 1, n, NewCell(R[1]), new)
    \/ /\ \A i \in DOMAIN R : ~Deletes(K, R[i], n) /\ ~Inserts(K, R[i], n)
       /\ IF old = Absent THEN new = Absent /\ \A i \in DOMAIN R : ~About(K, R[i], n)
          ELSE ChangesTo(K, R, 0, n, old, new)

LEMMA Concat ==
    ASSUME NEW L \in Seq(Records), NEW R \in Seq(Records)
    PROVE  /\ L \o R \in Seq(Records)
           /\ Len(L) \in Nat /\ Len(R) \in Nat /\ Len(L \o R) = Len(L) + Len(R)
           /\ \A i \in DOMAIN L : i \in DOMAIN (L \o R) /\ (L \o R)[i] = L[i]
           /\ \A i \in DOMAIN R : /\ Len(L) + i \in DOMAIN (L \o R)
                                  /\ (L \o R)[Len(L) + i] = R[i]
           /\ \A i \in DOMAIN (L \o R) : i \in DOMAIN L \/ \E j \in DOMAIN R : i = Len(L) + j
  <1>1. /\ L \o R \in Seq(Records)
        /\ Len(L) \in Nat /\ Len(R) \in Nat /\ Len(L \o R) = Len(L) + Len(R)
        /\ DOMAIN L = 1..Len(L) /\ DOMAIN R = 1..Len(R) /\ DOMAIN (L \o R) = 1..(Len(L) + Len(R))
    OBVIOUS
  <1>2. ASSUME NEW i \in DOMAIN L PROVE i \in DOMAIN (L \o R) /\ (L \o R)[i] = L[i]
    BY <1>1
  <1>3. ASSUME NEW i \in DOMAIN R
        PROVE  Len(L) + i \in DOMAIN (L \o R) /\ (L \o R)[Len(L) + i] = R[i]
    BY <1>1
  <1>4. ASSUME NEW i \in DOMAIN (L \o R), i \notin DOMAIN L
        PROVE  \E j \in DOMAIN R : i = Len(L) + j
    <2>1. i - Len(L) \in DOMAIN R /\ i = Len(L) + (i - Len(L))
      BY <1>1, <1>4
    <2> QED BY <2>1
  <1> QED BY <1>1, <1>2, <1>3, <1>4

(* Records after k in the old log, and records of the new one.             *)
LEMMA AfterJoined ==
    ASSUME NEW L \in Seq(Records), NEW R \in Seq(Records), NEW k \in 0..Len(L)
    PROVE  /\ After(L, k) \subseteq After(L \o R, k) /\ After(L, k) \subseteq DOMAIN L
           /\ \A j \in DOMAIN R : Len(L) + j \in After(L \o R, k)
           /\ \A i \in After(L \o R, k) : i \in After(L, k) \/ \E j \in DOMAIN R : i = Len(L) + j
  <1>1. /\ Len(L) \in Nat /\ Len(R) \in Nat /\ Len(L \o R) = Len(L) + Len(R)
        /\ DOMAIN L = 1..Len(L) /\ DOMAIN R = 1..Len(R) /\ DOMAIN (L \o R) = 1..(Len(L) + Len(R))
    OBVIOUS
  <1>2. ASSUME NEW i \in After(L \o R, k), i \notin After(L, k)
        PROVE  \E j \in DOMAIN R : i = Len(L) + j
    <2>1. i - Len(L) \in DOMAIN R /\ i = Len(L) + (i - Len(L))
      BY <1>1, <1>2 DEF After
    <2> QED BY <2>1
  <1> QED BY <1>1, <1>2 DEF After

LEMMA AfterShifted ==
    ASSUME NEW L \in Seq(Records), NEW R \in Seq(Records), NEW m \in 0..Len(R)
    PROVE  /\ \A j \in After(R, m) : j \in DOMAIN R /\ Len(L) + j \in After(L \o R, Len(L) + m)
           /\ \A i \in After(L \o R, Len(L) + m) : \E j \in After(R, m) : i = Len(L) + j
  <1>1. /\ Len(L) \in Nat /\ Len(R) \in Nat /\ Len(L \o R) = Len(L) + Len(R)
        /\ DOMAIN R = 1..Len(R)
    OBVIOUS
  <1>2. ASSUME NEW i \in After(L \o R, Len(L) + m)
        PROVE  \E j \in After(R, m) : i = Len(L) + j
    <2>1. i - Len(L) \in After(R, m) /\ i = Len(L) + (i - Len(L))
      BY <1>1, <1>2 DEF After
    <2> QED BY <2>1
  <1> QED BY <1>1, <1>2 DEF After

LEMMA ChangesShifted ==
    ASSUME NEW K \in Kinds, NEW L \in Seq(Records), NEW R \in Seq(Records), NEW m \in 0..Len(R),
           NEW n, NEW s, NEW f, ChangesTo(K, R, m, n, s, f)
    PROVE  ChangesTo(K, L \o R, Len(L) + m, n, s, f)
  <1> DEFINE M == L \o R
  <1>1. \A j \in DOMAIN R : M[Len(L) + j] = R[j]
    BY Concat
  <1>2. ASSUME NEW j \in After(R, m), NEW a \in Attributes, LastTouch(K, M, Len(L) + j, n, a)
        PROVE  LastTouch(K, R, j, n, a)
    <2>1. Touches(K, R[j], n, a)
      BY <1>1, <1>2, AfterShifted DEF LastTouch
    <2>2. ASSUME NEW i \in After(R, j) PROVE ~Touches(K, R[i], n, a)
      <3>1. i \in DOMAIN R /\ Len(L) + i \in After(M, Len(L) + j)
        <4>1. j \in 0..Len(R)
          BY DEF After
        <4> QED BY <4>1, AfterShifted
      <3> QED BY <1>1, <1>2, <3>1 DEF LastTouch
    <2> QED BY <2>1, <2>2 DEF LastTouch
  <1>3. ASSUME NEW a \in Attributes
        PROVE  /\ \A i \in After(M, Len(L) + m) :
                    LastTouch(K, M, i, n, a) => Value(f, a) = Given(K, M[i], a)
               /\ (\A i \in After(M, Len(L) + m) : ~Touches(K, M[i], n, a)) =>
                      Value(f, a) = Value(s, a)
    <2>1. /\ \A j \in After(R, m) : LastTouch(K, R, j, n, a) => Value(f, a) = Given(K, R[j], a)
          /\ (\A j \in After(R, m) : ~Touches(K, R[j], n, a)) => Value(f, a) = Value(s, a)
      BY DEF ChangesTo
    <2>2. ASSUME NEW i \in After(M, Len(L) + m), LastTouch(K, M, i, n, a)
          PROVE  Value(f, a) = Given(K, M[i], a)
      <3>1. PICK j \in After(R, m) : i = Len(L) + j
        BY AfterShifted
      <3> QED BY <1>1, <1>2, <2>1, <2>2, <3>1, AfterShifted
    <2>3. ASSUME \A i \in After(M, Len(L) + m) : ~Touches(K, M[i], n, a)
          PROVE  Value(f, a) = Value(s, a)
      BY <1>1, <2>1, <2>3, AfterShifted
    <2> QED BY <2>2, <2>3
  <1> QED BY <1>3 DEF ChangesTo

LEMMA ChangesJoined ==
    ASSUME NEW K \in Kinds, NEW L \in Seq(Records), NEW R \in Seq(Records), NEW k \in 0..Len(L),
           NEW n, NEW s, NEW old, NEW new,
           ChangesTo(K, L, k, n, s, old), ChangesTo(K, R, 0, n, old, new)
    PROVE  ChangesTo(K, L \o R, k, n, s, new)
  <1> DEFINE M == L \o R
  <1>1. ChangesTo(K, M, Len(L), n, old, new)
    <2>1. 0 \in 0..Len(R) /\ Len(L) + 0 = Len(L)
      OBVIOUS
    <2> QED BY <2>1, ChangesShifted
  <1>2. \A i \in After(L, k) : M[i] = L[i]
    BY Concat, AfterJoined
  <1>3. ASSUME NEW a \in Attributes
        PROVE  /\ \A i \in After(M, k) : LastTouch(K, M, i, n, a) => Value(new, a) = Given(K, M[i], a)
               /\ (\A i \in After(M, k) : ~Touches(K, M[i], n, a)) => Value(new, a) = Value(s, a)
    <2>1. /\ \A i \in After(L, k) : LastTouch(K, L, i, n, a) => Value(old, a) = Given(K, L[i], a)
          /\ (\A i \in After(L, k) : ~Touches(K, L[i], n, a)) => Value(old, a) = Value(s, a)
      BY DEF ChangesTo
    <2>2. /\ \A i \in After(M, Len(L)) : LastTouch(K, M, i, n, a) => Value(new, a) = Given(K, M[i], a)
          /\ (\A i \in After(M, Len(L)) : ~Touches(K, M[i], n, a)) => Value(new, a) = Value(old, a)
      BY <1>1 DEF ChangesTo
    <2>3. /\ After(M, Len(L)) \subseteq After(M, k)
          /\ \A i \in After(M, k) : i \in After(L, k) \/ i \in After(M, Len(L))
          /\ \A i \in After(L, k) : /\ After(L, i) \subseteq After(M, i)
                                    /\ After(L, i) \subseteq After(L, k)
                                    /\ After(M, Len(L)) \subseteq After(M, i)
      <3>1. Len(L) \in Nat /\ Len(R) \in Nat /\ Len(M) = Len(L) + Len(R)
        BY Concat
      <3> HIDE DEF M
      <3> QED BY <3>1 DEF After
    <2> HIDE DEF M
    <2>4. ASSUME NEW i \in After(M, k), LastTouch(K, M, i, n, a)
          PROVE  Value(new, a) = Given(K, M[i], a)
      <3>1. CASE i \in After(M, Len(L))
        BY <2>2, <2>4, <3>1
      <3>2. CASE i \in After(L, k)
        <4>1. Value(new, a) = Value(old, a)
          BY <2>2, <2>3, <2>4, <3>2 DEF LastTouch
        <4>2. LastTouch(K, L, i, n, a)
          BY <1>2, <2>3, <2>4, <3>2 DEF LastTouch
        <4> QED BY <1>2, <2>1, <3>2, <4>1, <4>2
      <3> QED BY <2>3, <3>1, <3>2
    <2>5. ASSUME \A i \in After(M, k) : ~Touches(K, M[i], n, a)
          PROVE  Value(new, a) = Value(s, a)
      <3>1. Value(new, a) = Value(old, a)
        BY <2>2, <2>3, <2>5
      <3>2. After(L, k) \subseteq After(M, k)
        BY AfterJoined DEF M
      <3> QED BY <1>2, <2>1, <2>5, <3>1, <3>2
    <2> QED BY <2>4, <2>5
  <1>4. new # Absent
    BY DEF ChangesTo
  <1> QED BY <1>3, <1>4 DEF ChangesTo

LEMMA CreatesJoined ==
    ASSUME NEW K \in Kinds, NEW L \in Seq(Records), NEW R \in Seq(Records), NEW k \in 0..Len(L),
           NEW n, NEW old, NEW new, CreatesTo(K, L, k, n, old),
           Carries(K, R, n, old, new), \A i \in DOMAIN R : ~Deletes(K, R[i], n)
    PROVE  CreatesTo(K, L \o R, k, n, new)
  <1> DEFINE M == L \o R
  <1>0. /\ \A i \in After(L, k) : i \in After(M, k) /\ M[i] = L[i]
        /\ \A j \in DOMAIN R : Len(L) + j \in After(M, k) /\ M[Len(L) + j] = R[j]
        /\ \A i \in After(M, k) : i \in After(L, k) \/ \E j \in DOMAIN R : i = Len(L) + j
        /\ R # <<>> => 1 \in DOMAIN R /\ Len(R) \in DOMAIN R
    BY Concat, AfterJoined
  <1>1. ASSUME \A i \in After(M, k) : ~Inserts(K, M[i], n)
        PROVE  new = Absent
    <2>1. old = Absent
      BY <1>0, <1>1 DEF CreatesTo
    <2>2. \A j \in DOMAIN R : ~Inserts(K, R[j], n)
      BY <1>0, <1>1
    <2> QED BY <1>0, <2>1, <2>2 DEF Carries
  <1>2. ASSUME NEW i \in After(M, k), FirstInsert(K, M, k, i, n)
        PROVE  ChangesTo(K, M, i, n, NewCell(M[i]), new)
    <2>1. CASE i \in After(L, k)
      <3>1. FirstInsert(K, L, k, i, n)
        <4>1. \A j \in (k + 1)..(i - 1) : j \in After(L, k)
          BY <2>1 DEF After
        <4> QED BY <1>0, <1>2, <2>1, <4>1 DEF FirstInsert
      <3>2. ChangesTo(K, L, i, n, NewCell(L[i]), old)
        BY <2>1, <3>1 DEF CreatesTo
      <3>3. ChangesTo(K, R, 0, n, old, new)
        <4>1. old # Absent
          BY <3>2 DEF ChangesTo
        <4> QED BY <1>0, <4>1 DEF Carries
      <3>4. i \in 0..Len(L)
        BY <2>1 DEF After
      <3> QED BY <1>0, <2>1, <3>2, <3>3, <3>4, ChangesJoined
    <2>2. CASE i \notin After(L, k)
      <3>1. PICK j \in DOMAIN R : i = Len(L) + j
        BY <1>0, <2>2
      <3>2. \A h \in After(L, k) : ~Inserts(K, L[h], n)
        <4>1. \A h \in After(L, k) : h \in (k + 1)..(i - 1)
          BY <3>1 DEF After
        <4> QED BY <1>0, <1>2, <4>1 DEF FirstInsert
      <3>3. old = Absent
        BY <3>2 DEF CreatesTo
      <3>4. Inserts(K, R[j], n)
        BY <1>0, <1>2, <3>1 DEF FirstInsert
      <3>5. j = 1 /\ ChangesTo(K, R, 1, n, NewCell(R[1]), new)
        BY <1>0, <3>3, <3>4 DEF Carries
      <3>6. 1 \in 0..Len(R)
        BY <3>1, <3>5
      <3> QED BY <1>0, <3>1, <3>5, <3>6, ChangesShifted
    <2> QED BY <2>1, <2>2
  <1> QED BY <1>1, <1>2 DEF CreatesTo

(* What the log gave before a commit, it gives as the commit changed it.   *)
LEMMA GivesJoined ==
    ASSUME NEW K \in Kinds, NEW L \in Seq(Records), NEW R \in Seq(Records), NEW k \in 0..Len(L),
           NEW n, NEW s, NEW old, NEW new,
           Gives(K, L, k, n, s, old), Carries(K, R, n, old, new)
    PROVE  Gives(K, L \o R, k, n, s, new)
  <1> DEFINE M == L \o R
  <1>0. /\ \A i \in After(L, k) : i \in After(M, k) /\ M[i] = L[i]
        /\ \A j \in DOMAIN R : Len(L) + j \in After(M, k) /\ M[Len(L) + j] = R[j]
        /\ \A i \in After(M, k) : i \in After(L, k) \/ \E j \in DOMAIN R : i = Len(L) + j
        /\ R # <<>> => 1 \in DOMAIN R /\ Len(R) \in DOMAIN R
        /\ Len(L) \in Nat /\ Len(R) \in Nat /\ Len(M) = Len(L) + Len(R) /\ DOMAIN R = 1..Len(R)
    <2>1. DOMAIN R = 1..Len(R) /\ Len(R) \in Nat
      OBVIOUS
    <2>2. R # <<>> => 1 \in DOMAIN R /\ Len(R) \in DOMAIN R
      OBVIOUS
    <2> QED BY <2>1, <2>2, Concat, AfterJoined
  <1>1. ASSUME NEW d \in After(M, k), LastDelete(K, M, d, n)
        PROVE  CreatesTo(K, M, d, n, new)
    <2>1. CASE d \in After(L, k)
      <3>1. \A i \in DOMAIN R : ~Deletes(K, R[i], n)
        <4>1. \A i \in DOMAIN R : Len(L) + i \in After(M, d)
          <5>1. d \in 0..Len(L)
            BY <2>1 DEF After
          <5> QED BY <5>1, AfterJoined
        <4> QED BY <1>0, <1>1, <4>1 DEF LastDelete
      <3>2. LastDelete(K, L, d, n)
        <4>1. \A j \in After(L, d) : j \in After(L, k) /\ j \in After(M, d)
          <5> HIDE DEF M
          <5> QED BY <1>0, <2>1 DEF After
        <4> QED BY <1>0, <1>1, <2>1, <4>1 DEF LastDelete
      <3>3. CreatesTo(K, L, d, n, old)
        BY <2>1, <3>2 DEF Gives
      <3>4. d \in 0..Len(L)
        BY <2>1 DEF After
      <3> QED BY <3>1, <3>3, <3>4, CreatesJoined
    <2>2. CASE d \notin After(L, k)
      <3>1. PICK j \in DOMAIN R : d = Len(L) + j
        BY <1>0, <2>2
      <3>2. Deletes(K, R[j], n)
        BY <1>0, <1>1, <3>1 DEF LastDelete
      <3>3. new = Absent /\ R # <<>> /\ Deletes(K, R[Len(R)], n)
        BY <3>2 DEF Carries
      <3>4. Len(R) = j
        <4>1. Len(L) + Len(R) \in After(M, d) \/ Len(R) <= j
          <5> HIDE DEF M
          <5> QED BY <1>0, <3>1 DEF After
        <4>2. M[Len(L) + Len(R)] = R[Len(R)]
          BY <1>0, <3>3
        <4>3. Len(R) <= j
          BY <1>1, <3>3, <4>1, <4>2 DEF LastDelete
        <4> QED BY <1>0, <4>3
      <3>5. After(M, d) = {}
        <4> HIDE DEF M
        <4> QED BY <1>0, <3>1, <3>4 DEF After
      <3> QED BY <3>3, <3>5 DEF CreatesTo
    <2> QED BY <2>1, <2>2
  <1>2. ASSUME \A d \in After(M, k) : ~Deletes(K, M[d], n)
        PROVE  IF s = Absent THEN CreatesTo(K, M, k, n, new) ELSE ChangesTo(K, M, k, n, s, new)
    <2>1. \A i \in DOMAIN R : ~Deletes(K, R[i], n)
      BY <1>0, <1>2
    <2>2. \A d \in After(L, k) : ~Deletes(K, L[d], n)
      BY <1>0, <1>2
    <2>3. CASE s = Absent
      <3>1. CreatesTo(K, L, k, n, old)
        BY <2>2, <2>3 DEF Gives
      <3> QED BY <2>1, <2>3, <3>1, CreatesJoined
    <2>4. CASE s # Absent
      <3>1. ChangesTo(K, L, k, n, s, old)
        BY <2>2, <2>4 DEF Gives
      <3>2. old # Absent
        BY <3>1 DEF ChangesTo
      <3>3. ChangesTo(K, R, 0, n, old, new)
        BY <1>0, <2>1, <3>2 DEF Carries
      <3> QED BY <2>4, <3>1, <3>3, ChangesJoined
    <2> QED BY <2>3, <2>4
  <1> QED BY <1>1, <1>2 DEF Gives

(* The log of n stays one whose redo settles n.                            *)
LEMMA LogJoined ==
    ASSUME NEW K \in Kinds, NEW L \in Seq(Records), NEW R \in Seq(Records), NEW n,
           NEW old, NEW new, LogOf(K, L, n, old), Carries(K, R, n, old, new)
    PROVE  LogOf(K, L \o R, n, new)
  <1> DEFINE M == L \o R
  <1>0. /\ \A i \in DOMAIN L : i \in DOMAIN M /\ M[i] = L[i]
        /\ \A j \in DOMAIN R : Len(L) + j \in DOMAIN M /\ M[Len(L) + j] = R[j]
        /\ \A i \in DOMAIN M : i \in DOMAIN L \/ \E j \in DOMAIN R : i = Len(L) + j
        /\ R # <<>> => 1 \in DOMAIN R /\ Len(R) \in DOMAIN R
        /\ Len(L) \in Nat /\ Len(R) \in Nat /\ Len(M) = Len(L) + Len(R)
        /\ DOMAIN R = 1..Len(R) /\ DOMAIN L = 1..Len(L) /\ DOMAIN M = 1..(Len(L) + Len(R))
    BY Concat
  <1>1. InsertFirst(K, M, n)
    <2> SUFFICES ASSUME NEW i \in DOMAIN M, Inserts(K, M[i], n),
                        NEW j \in 1..(i - 1), About(K, M[j], n)
                 PROVE  \E d \in j..(i - 1) : Deletes(K, M[d], n)
      BY DEF InsertFirst
    <2> HIDE DEF M
    <2>1. CASE i \in DOMAIN L
      <3>1. j \in DOMAIN L
        BY <1>0, <2>1
      <3>2. PICK d \in j..(i - 1) : Deletes(K, L[d], n)
        BY <1>0, <2>1, <3>1 DEF LogOf, InsertFirst
      <3>3. d \in DOMAIN L
        BY <1>0, <2>1, <3>1
      <3> QED BY <1>0, <3>2, <3>3
    <2>2. CASE i \notin DOMAIN L
      <3>1. PICK h \in DOMAIN R : i = Len(L) + h
        BY <1>0, <2>2
      <3>2. Inserts(K, R[h], n)
        BY <1>0, <3>1
      <3>3. h = 1 /\ old = Absent
        BY <3>2 DEF Carries
      <3>4. j \in DOMAIN L
        BY <1>0, <3>1, <3>3
      <3>5. PICK d \in j..Len(L) : Deletes(K, L[d], n)
        BY <1>0, <3>3, <3>4 DEF LogOf, Ended
      <3>6. d \in DOMAIN L /\ d \in j..(i - 1)
        BY <1>0, <3>1, <3>3, <3>4
      <3> QED BY <1>0, <3>5, <3>6
    <2> QED BY <2>1, <2>2
  <1>2. ASSUME new = Absent PROVE Ended(K, M, n)
    <2> SUFFICES ASSUME NEW j \in DOMAIN M, About(K, M[j], n)
                 PROVE  \E d \in j..Len(M) : Deletes(K, M[d], n)
      BY DEF Ended
    <2> HIDE DEF M
    <2>1. CASE R # <<>> /\ Deletes(K, R[Len(R)], n)
      <3>1. Deletes(K, M[Len(L) + Len(R)], n)
        BY <1>0, <2>1
      <3>2. Len(L) + Len(R) \in j..Len(M)
        BY <1>0, <2>1
      <3> QED BY <3>1, <3>2
    <2>2. CASE old = Absent /\ \A i \in DOMAIN R : ~About(K, R[i], n)
      <3>1. j \in DOMAIN L
        BY <1>0, <2>2
      <3>2. PICK d \in j..Len(L) : Deletes(K, L[d], n)
        BY <1>0, <2>2, <3>1 DEF LogOf, Ended
      <3>3. d \in DOMAIN L /\ d \in j..Len(M)
        BY <1>0, <3>1
      <3> QED BY <1>0, <3>2, <3>3
    <2> QED BY <1>2, <2>1, <2>2 DEF Carries, ChangesTo
  <1>3. Gives(K, M, 0, n, new, new)
    <2>1. Gives(K, L, 0, n, old, old)
      BY DEF LogOf
    <2>2. 0 \in 0..Len(L)
      OBVIOUS
    <2>3. Gives(K, M, 0, n, old, new)
      BY <2>1, <2>2, GivesJoined
    <2>4. M \in Seq(Records)
      BY Concat
    <2> HIDE DEF M
    <2> QED BY <1>1, <2>3, <2>4, GivesAtEnd
  <1> QED BY <1>1, <1>2, <1>3 DEF LogOf
-----------------------------------------------------------------------------
(* The order in which a set of labels is written.                          *)

LEMMA LeastExists ==
    ASSUME NEW S, S \subseteq Nat, S # {}
    PROVE  \E x \in S : \A y \in S : x <= y
  <1>1. PICK x \in S : \A y \in S : <<y, x>> \notin OpToRel(<, Nat)
    BY NatLessThanWellFounded, WFMin
  <1>2. ASSUME NEW y \in S PROVE x <= y
    <2>1. x \in Nat /\ y \in Nat
      OBVIOUS
    <2>2. ~(y < x)
      BY <1>1, <2>1 DEF OpToRel
    <2> QED BY <2>1, <2>2
  <1> QED BY <1>2

LEMMA MinIs ==
    ASSUME NEW S, S \subseteq Nat, S # {}
    PROVE  Min(S) \in S /\ \A y \in S : Min(S) <= y
  <1>1. \E x \in S : \A y \in S : x =< y
    BY LeastExists
  <1> QED BY <1>1 DEF Min

LEMMA LabelsFinite ==
    ASSUME NEW S \in SUBSET Labels
    PROVE  IsFiniteSet(S) /\ Cardinality(S) \in Nat
  BY GraphStoresAssumption, FS_Subset, FS_CardinalityType

LEMMA OrderOf ==
    ASSUME NEW S \in SUBSET Labels
    PROVE  /\ SetToSeq(S) \in Seq(S) /\ Len(SetToSeq(S)) = Cardinality(S)
           /\ DOMAIN SetToSeq(S) = 1..Cardinality(S)
           /\ \A i \in 1..Cardinality(S) : SetToSeq(S)[i] \in S
           /\ \A l \in S : \E i \in 1..Cardinality(S) : SetToSeq(S)[i] = l
  <1> DEFINE c == Cardinality(S)
             f == SetToSeq(S)
  <1>1. IsFiniteSet(S) /\ c \in Nat
    BY LabelsFinite
  <1>2. f \in [1..c -> S] /\ IsInjective(f)
    <2>1. PICK g \in Bijection(1..c, S) : TRUE
      BY <1>1, FS_CardinalityType DEF ExistsBijection
    <2>2. g \in [1..c -> S] /\ IsInjective(g)
      BY <2>1 DEF Bijection, Injection
    <2> QED BY <2>2 DEF SetToSeq
  <1>3. f \in Injection(1..c, S)
    BY <1>2 DEF Injection
  <1>4. Cardinality(1..c) = c
    BY <1>1, FS_Interval
  <1> HIDE DEF f
  <1>5. f \in Surjection(1..c, S)
    BY <1>1, <1>3, <1>4, FS_Injection
  <1>6. \A l \in S : \E i \in 1..c : f[i] = l
    BY <1>2, <1>5 DEF Surjection
  <1>7. f \in Seq(S) /\ Len(f) = c
    BY <1>1, <1>2
  <1> QED BY <1>2, <1>6, <1>7 DEF f

(* What the label index has after labels are added, when it has none of    *)
(* them or all of them.                                                    *)
LEMMA AddLabelsIs ==
    ASSUME NEW index \in SUBSET (Labels \X Nodes), NEW S \in SUBSET Labels, NEW n \in Nodes
    PROVE  /\ addLabels(index, S, n) \in SUBSET (Labels \X Nodes)
           /\ (\A l \in S : <<l, n>> \notin index) =>
                  addLabels(index, S, n) = index \cup Entries(S, n)
           /\ (\A l \in S : <<l, n>> \in index) => addLabels(index, S, n) = index
  <1> DEFINE order == SetToSeq(S)
             c == Cardinality(S)
             clash == {i \in DOMAIN order : <<order[i], n>> \in index}
             upto == IF clash = {} THEN Len(order) ELSE Min(clash) - 1
  <1>1. addLabels(index, S, n) = index \cup {<<order[i], n>> : i \in 1..upto}
    BY DEF addLabels
  <1>2. c \in Nat
    BY LabelsFinite
  <1>3. /\ Len(order) = c /\ DOMAIN order = 1..c
        /\ \A i \in 1..c : order[i] \in S
        /\ \A l \in S : \E i \in 1..c : order[i] = l
    BY OrderOf
  <1> HIDE DEF order, c
  <1>4. clash # {} => Min(clash) \in clash /\ \A y \in clash : Min(clash) <= y
    <2>1. clash \subseteq Nat
      BY <1>2, <1>3
    <2> HIDE DEF clash
    <2> QED BY <2>1, MinIs
  <1>5. upto \in 0..c
    <2>1. CASE clash = {}
      BY <1>2, <1>3, <2>1
    <2>2. CASE clash # {}
      <3>1. Min(clash) \in 1..c
        <4>1. clash \subseteq 1..c
          BY <1>3
        <4> HIDE DEF clash
        <4> QED BY <1>4, <2>2, <4>1
      <3>2. upto = Min(clash) - 1
        BY <2>2
      <3> HIDE DEF upto
      <3> QED BY <1>2, <3>1, <3>2
    <2> QED BY <2>1, <2>2
  <1>6. ASSUME \A l \in S : <<l, n>> \notin index
        PROVE  addLabels(index, S, n) = index \cup Entries(S, n)
    <2>1. clash = {}
      BY <1>3, <1>6
    <2>2. upto = c
      BY <1>3, <2>1
    <2>3. {<<order[i], n>> : i \in 1..upto} = Entries(S, n)
      BY <1>3, <2>2 DEF Entries
    <2> QED BY <1>1, <2>3
  <1>7. ASSUME \A l \in S : <<l, n>> \in index
        PROVE  addLabels(index, S, n) = index
    <2>1. clash = 1..c
      BY <1>3, <1>7
    <2>2. 1..upto = {}
      <3>1. CASE c = 0
        BY <1>3, <2>1, <3>1
      <3>2. CASE c # 0
        <4>1. 1 \in clash
          BY <1>2, <2>1, <3>2
        <4>2. Min(clash) <= 1 /\ Min(clash) \in 1..c
          BY <1>4, <2>1, <4>1
        <4>3. upto = Min(clash) - 1
          BY <4>1
        <4>4. upto = 0
          <5> HIDE DEF upto, clash
          <5> QED BY <1>2, <4>2, <4>3
        <4> HIDE DEF upto
        <4> QED BY <4>4
      <3> QED BY <3>1, <3>2
    <2> QED BY <1>1, <2>2
  <1>8. {<<order[i], n>> : i \in 1..upto} \subseteq Labels \X Nodes
    <2> HIDE DEF upto
    <2>1. \A i \in 1..upto : order[i] \in Labels
      BY <1>2, <1>3, <1>5
    <2> QED BY <2>1
  <1> QED BY <1>1, <1>6, <1>7, <1>8

LEMMA AddLabelsAll ==
    ASSUME NEW index \in SUBSET (Labels \X Nodes), NEW S \in SUBSET Labels, NEW n \in Nodes,
           \A l \in S : <<l, n>> \in index
    PROVE  addLabels(index, S, n) = index
  BY AddLabelsIs
-----------------------------------------------------------------------------
(* One record and the trees.                                               *)

LEMMA RecordIs ==
    ASSUME NEW r \in Records
    PROVE  /\ r.op \in {"node_insert", "node_delete", "property", "label_add", "label_remove",
                        "edge_insert", "edge_delete", "edge_property"}
           /\ r.op \in {"node_insert", "node_delete", "property", "label_add", "label_remove"}
                 => r.id \in Nodes
           /\ r.op \in {"edge_insert", "edge_delete", "edge_property"} => r.id \in Edges
           /\ r.op = "node_insert" => r.arg \subseteq Labels
           /\ r.op \in {"property", "edge_property"} => r.arg \in Props
           /\ r.op \in {"label_add", "label_remove"} => r.arg \in Labels
  BY DEF Records

LEMMA Numbers == MaxNode \in Nat /\ MaxEdge \in Nat
  BY GraphStoresAssumption

LEMMA CreateType ==
    ASSUME NEW t \in Trees, NEW e \in Edges, NEW prop \in Props
    PROVE  /\ createWithId(t, e, prop) \in Trees
           /\ createWithId(t, e, prop).nodes = t.nodes
           /\ createWithId(t, e, prop).by_label = t.by_label
           /\ createWithId(t, e, prop).by_prop = t.by_prop
  <1>1. CASE t.edges[e] # Absent \/ e \in t.adj
    BY <1>1 DEF createWithId
  <1>2. CASE ~(t.edges[e] # Absent \/ e \in t.adj)
    <2> DEFINE m == IF e >= t.edge_meta THEN e + 1 ELSE t.edge_meta
               d == [t EXCEPT !.edges[e] = [prop |-> prop], !.adj = t.adj \cup {e}, !.edge_meta = m]
    <2>1. createWithId(t, e, prop) = d
      BY <1>2 DEF createWithId
    <2>2. m \in 1..(MaxEdge + 1)
      BY Numbers DEF Edges, Trees
    <2>3. [t.edges EXCEPT ![e] = [prop |-> prop]] \in [Edges -> EdgeStates \cup {Absent}]
      BY DEF EdgeStates, Trees
    <2>4. t.adj \cup {e} \in SUBSET Edges
      BY DEF Trees
    <2> HIDE DEF m
    <2>5. d \in Trees /\ d.nodes = t.nodes /\ d.by_label = t.by_label /\ d.by_prop = t.by_prop
      BY <2>2, <2>3, <2>4 DEF Trees
    <2> QED BY <2>1, <2>5
  <1> QED BY <1>1, <1>2

LEMMA DeleteType ==
    ASSUME NEW t \in Trees, NEW e \in Edges
    PROVE  /\ deleteById(t, e) \in Trees
           /\ deleteById(t, e).nodes = t.nodes
           /\ deleteById(t, e).by_label = t.by_label
           /\ deleteById(t, e).by_prop = t.by_prop
  BY DEF deleteById, Trees

(* The edge operations on trees that agree.                                *)
LEMMA CreateIs ==
    ASSUME NEW t \in Trees, EdgeTrees(t), NEW e \in Edges, NEW prop \in Props
    PROVE  /\ EdgeTrees(createWithId(t, e, prop))
           /\ createWithId(t, e, prop).edges =
                 IF t.edges[e] = Absent THEN [t.edges EXCEPT ![e] = [prop |-> prop]] ELSE t.edges
           /\ e < createWithId(t, e, prop).edge_meta
           /\ t.edge_meta <= createWithId(t, e, prop).edge_meta
           /\ e < t.edge_meta => createWithId(t, e, prop).edge_meta = t.edge_meta
  <1>0. t.edge_meta \in Nat /\ Edges \subseteq Nat /\ [prop |-> prop] # Absent
    BY GraphStoresAssumption DEF Trees, Edges, EdgeStates
  <1>1. e \in t.adj <=> t.edges[e] # Absent
    BY DEF EdgeTrees
  <1>2. CASE t.edges[e] # Absent
    <2>1. createWithId(t, e, prop) = t
      BY <1>2 DEF createWithId
    <2>2. e < t.edge_meta
      BY <1>1, <1>2 DEF EdgeTrees
    <2> QED BY <1>0, <1>2, <2>1, <2>2
  <1>3. CASE t.edges[e] = Absent
    <2> DEFINE m == IF e >= t.edge_meta THEN e + 1 ELSE t.edge_meta
               d == [t EXCEPT !.edges[e] = [prop |-> prop], !.adj = t.adj \cup {e}, !.edge_meta = m]
    <2>1. createWithId(t, e, prop) = d
      BY <1>1, <1>3 DEF createWithId
    <2>2. m \in Nat /\ e < m /\ t.edge_meta <= m /\ (e < t.edge_meta => m = t.edge_meta)
      BY <1>0
    <2>3. \A x \in t.adj : x < m
      BY <1>0, <2>2 DEF EdgeTrees, Trees
    <2> HIDE DEF m
    <2>4. /\ d.edges = [t.edges EXCEPT ![e] = [prop |-> prop]]
          /\ d.adj = t.adj \cup {e} /\ d.edge_meta = m
      BY DEF Trees
    <2>5. d.adj = {x \in Edges : d.edges[x] # Absent}
      BY <1>0, <2>4 DEF EdgeTrees, Trees
    <2>6. \A x \in d.adj : x < d.edge_meta
      BY <2>2, <2>3, <2>4
    <2> QED BY <1>3, <2>1, <2>2, <2>4, <2>5, <2>6 DEF EdgeTrees
  <1> QED BY <1>2, <1>3

LEMMA DeleteIs ==
    ASSUME NEW t \in Trees, EdgeTrees(t), NEW e \in Edges
    PROVE  /\ EdgeTrees(deleteById(t, e))
           /\ deleteById(t, e).edges = [t.edges EXCEPT ![e] = Absent]
           /\ deleteById(t, e).edge_meta = t.edge_meta
  <1>1. e \in t.adj <=> t.edges[e] # Absent
    BY DEF EdgeTrees
  <1>2. CASE t.edges[e] = Absent
    BY <1>2 DEF deleteById, Trees
  <1>3. CASE t.edges[e] # Absent
    <2> DEFINE d == [t EXCEPT !.edges[e] = Absent, !.adj = t.adj \ {e}]
    <2>1. deleteById(t, e) = d
      BY <1>1, <1>3 DEF deleteById
    <2>2. /\ d.edges = [t.edges EXCEPT ![e] = Absent]
          /\ d.adj = t.adj \ {e} /\ d.edge_meta = t.edge_meta
      BY DEF Trees
    <2>3. d.adj = {x \in Edges : d.edges[x] # Absent}
      BY <2>2 DEF EdgeTrees, Trees
    <2> QED BY <2>1, <2>2, <2>3 DEF EdgeTrees
  <1> QED BY <1>2, <1>3

(* What redo does to the node tree and the label index.                    *)
NodesUpdated(t, N, B) == [t EXCEPT !.nodes = N, !.by_label = B]

LEMMA TreesUpdate ==
    ASSUME NEW t \in Trees, NEW N, NEW B
    PROVE  /\ NodesUpdated(t, N, B).nodes = N
           /\ NodesUpdated(t, N, B).by_label = B
           /\ NodesUpdated(t, N, B).by_prop = t.by_prop
           /\ NodesUpdated(t, N, B).edges = t.edges
           /\ NodesUpdated(t, N, B).adj = t.adj
           /\ NodesUpdated(t, N, B).edge_meta = t.edge_meta
           /\ N \in [Nodes -> Cells] /\ B \in SUBSET (Labels \X Nodes)
                => NodesUpdated(t, N, B) \in Trees
           /\ N = t.nodes /\ B = t.by_label => NodesUpdated(t, N, B) = t
           /\ B = t.by_label => [t EXCEPT !.nodes = N] = NodesUpdated(t, N, B)
  BY DEF Trees, NodesUpdated

LEMMA CellUpdate ==
    ASSUME NEW s \in NodeStates, NEW v
    PROVE  /\ [s EXCEPT !.prop = v] = [labels |-> s.labels, prop |-> v]
           /\ [s EXCEPT !.labels = v] = [labels |-> v, prop |-> s.prop]
           /\ s = [labels |-> s.labels, prop |-> s.prop]
  BY DEF NodeStates

(* The label index after a record about a node.                            *)
RedoIndex(t, r) ==
    IF r.op = "node_insert" THEN addLabels(t.by_label, r.arg, r.id)
    ELSE IF t.nodes[r.id] = Absent THEN t.by_label
    ELSE IF r.op = "node_delete" THEN t.by_label \ Entries(t.nodes[r.id].labels, r.id)
    ELSE IF r.op = "label_add" /\ r.arg \notin t.nodes[r.id].labels
      THEN t.by_label \cup {<<r.arg, r.id>>}
    ELSE IF r.op = "label_remove" /\ r.arg \in t.nodes[r.id].labels
      THEN t.by_label \ {<<r.arg, r.id>>}
    ELSE t.by_label

LEMMA RedoNode ==
    ASSUME NEW t \in Trees, NEW r \in Records,
           r.op \in {"node_insert", "node_delete", "property", "label_add", "label_remove"}
    PROVE  Redo(t, r) =
             NodesUpdated(t, [t.nodes EXCEPT ![r.id] = RedoCell(NodeOps, t.nodes[r.id], r, r.id)],
                          RedoIndex(t, r))
  <1> DEFINE n == r.id
             s == t.nodes[n]
             c == RedoCell(NodeOps, s, r, n)
  <1> SUFFICES Redo(t, r) = NodesUpdated(t, [t.nodes EXCEPT ![n] = c], RedoIndex(t, r))
    OBVIOUS
  <1>0. /\ n \in Nodes /\ s \in Cells /\ t.nodes \in [Nodes -> Cells]
        /\ s # Absent => s \in NodeStates
        /\ \A v : v = s => [t.nodes EXCEPT ![n] = v] = t.nodes
    BY RecordIs DEF Trees, Cells
  <1>a. CASE c = s /\ RedoIndex(t, r) = t.by_label /\ Redo(t, r) = t
    BY <1>0, <1>a, TreesUpdate
  <1>1. CASE r.op = "node_insert"
    <2>1. Redo(t, r) = [t EXCEPT !.nodes[n] = IF s = Absent THEN [labels |-> r.arg, prop |-> Absent] ELSE s,
                                 !.by_label = addLabels(t.by_label, r.arg, n)]
      BY <1>1 DEF Redo, redoInsert
    <2>2. c = IF s = Absent THEN [labels |-> r.arg, prop |-> Absent] ELSE s
      BY <1>1 DEF RedoCell, Inserts, Deletes, NodeOps, NewCell
    <2>3. RedoIndex(t, r) = addLabels(t.by_label, r.arg, n)
      BY <1>1 DEF RedoIndex
    <2> HIDE DEF c
    <2> QED BY <2>1, <2>2, <2>3 DEF NodesUpdated
  <1>2. CASE r.op = "node_delete"
    <2>1. Redo(t, r) = IF s = Absent THEN t
                       ELSE [t EXCEPT !.nodes[n] = Absent,
                                      !.by_label = t.by_label \ {<<l, n>> : l \in s.labels}]
      BY <1>2 DEF Redo, redoDelete
    <2>2. c = Absent
      BY <1>2 DEF RedoCell, Deletes, NodeOps
    <2>3. RedoIndex(t, r) = IF s = Absent THEN t.by_label
                            ELSE t.by_label \ {<<l, n>> : l \in s.labels}
      BY <1>2 DEF RedoIndex, Entries
    <2>4. CASE s = Absent
      BY <1>a, <2>1, <2>2, <2>3, <2>4
    <2>5. CASE s # Absent
      <3> HIDE DEF c
      <3> QED BY <2>1, <2>2, <2>3, <2>5 DEF NodesUpdated
    <2> QED BY <2>4, <2>5
  <1>3. CASE r.op = "property"
    <2>1. Redo(t, r) = IF s = Absent THEN t ELSE [t EXCEPT !.nodes[n].prop = r.arg]
      BY <1>3 DEF Redo, redoUpdate
    <2>2. c = IF s = Absent THEN s ELSE [labels |-> s.labels, prop |-> r.arg]
      BY <1>3 DEF RedoCell, Inserts, Deletes, NodeOps
    <2>3. RedoIndex(t, r) = t.by_label
      BY <1>3 DEF RedoIndex
    <2>4. CASE s = Absent
      BY <1>a, <2>1, <2>2, <2>3, <2>4
    <2>5. CASE s # Absent
      <3>1. [t.nodes[n] EXCEPT !.prop = r.arg] = c
        BY <1>0, <2>2, <2>5, CellUpdate
      <3>2. Redo(t, r) = [t EXCEPT !.nodes = [t.nodes EXCEPT ![n] = [t.nodes[n] EXCEPT !.prop = r.arg]]]
        BY <2>1, <2>5
      <3>3. Redo(t, r) = [t EXCEPT !.nodes = [t.nodes EXCEPT ![n] = c]]
        BY <3>1, <3>2
      <3> HIDE DEF c
      <3> QED BY <2>3, <3>3, TreesUpdate
    <2> QED BY <2>4, <2>5
  <1>4. CASE r.op = "label_add"
    <2>1. Redo(t, r) = IF s = Absent \/ r.arg \in s.labels THEN t
                       ELSE [t EXCEPT !.nodes[n].labels = t.nodes[n].labels \cup {r.arg},
                                      !.by_label = t.by_label \cup {<<r.arg, n>>}]
      BY <1>4 DEF Redo, redoUpdate
    <2>2. c = IF s = Absent THEN s ELSE [labels |-> s.labels \cup {r.arg}, prop |-> s.prop]
      BY <1>4 DEF RedoCell, Inserts, Deletes, NodeOps
    <2>3. RedoIndex(t, r) = IF s = Absent \/ r.arg \in s.labels THEN t.by_label
                            ELSE t.by_label \cup {<<r.arg, n>>}
      BY <1>4 DEF RedoIndex
    <2>4. CASE s = Absent \/ r.arg \in s.labels
      <3>1. s # Absent => s.labels \cup {r.arg} = s.labels
        BY <2>4
      <3>2. s # Absent => s = [labels |-> s.labels, prop |-> s.prop]
        BY <1>0, CellUpdate
      <3>3. c = s
        BY <2>2, <3>1, <3>2
      <3> QED BY <1>a, <2>1, <2>3, <2>4, <3>3
    <2>5. CASE ~(s = Absent \/ r.arg \in s.labels)
      <3>1. [t.nodes[n] EXCEPT !.labels = t.nodes[n].labels \cup {r.arg}] = c
        BY <1>0, <2>2, <2>5, CellUpdate
      <3>2. Redo(t, r) = [t EXCEPT !.nodes = [t.nodes EXCEPT ![n] =
                                     [t.nodes[n] EXCEPT !.labels = t.nodes[n].labels \cup {r.arg}]],
                                   !.by_label = t.by_label \cup {<<r.arg, n>>}]
        BY <2>1, <2>5
      <3>3. Redo(t, r) = [t EXCEPT !.nodes = [t.nodes EXCEPT ![n] = c],
                                   !.by_label = t.by_label \cup {<<r.arg, n>>}]
        BY <3>1, <3>2
      <3> HIDE DEF c
      <3> QED BY <2>3, <2>5, <3>3 DEF NodesUpdated
    <2> QED BY <2>4, <2>5
  <1>5. CASE r.op = "label_remove"
    <2>1. Redo(t, r) = IF s = Absent \/ r.arg \notin s.labels THEN t
                       ELSE [t EXCEPT !.nodes[n].labels = t.nodes[n].labels \ {r.arg},
                                      !.by_label = t.by_label \ {<<r.arg, n>>}]
      BY <1>5 DEF Redo, redoUpdate
    <2>2. c = IF s = Absent THEN s ELSE [labels |-> s.labels \ {r.arg}, prop |-> s.prop]
      BY <1>5 DEF RedoCell, Inserts, Deletes, NodeOps
    <2>3. RedoIndex(t, r) = IF s = Absent \/ r.arg \notin s.labels THEN t.by_label
                            ELSE t.by_label \ {<<r.arg, n>>}
      BY <1>5 DEF RedoIndex
    <2>4. CASE s = Absent \/ r.arg \notin s.labels
      <3>1. s # Absent => s.labels \ {r.arg} = s.labels
        BY <2>4
      <3>2. s # Absent => s = [labels |-> s.labels, prop |-> s.prop]
        BY <1>0, CellUpdate
      <3>3. c = s
        BY <2>2, <3>1, <3>2
      <3> QED BY <1>a, <2>1, <2>3, <2>4, <3>3
    <2>5. CASE ~(s = Absent \/ r.arg \notin s.labels)
      <3>1. [t.nodes[n] EXCEPT !.labels = t.nodes[n].labels \ {r.arg}] = c
        BY <1>0, <2>2, <2>5, CellUpdate
      <3>2. Redo(t, r) = [t EXCEPT !.nodes = [t.nodes EXCEPT ![n] =
                                     [t.nodes[n] EXCEPT !.labels = t.nodes[n].labels \ {r.arg}]],
                                   !.by_label = t.by_label \ {<<r.arg, n>>}]
        BY <2>1, <2>5
      <3>3. Redo(t, r) = [t EXCEPT !.nodes = [t.nodes EXCEPT ![n] = c],
                                   !.by_label = t.by_label \ {<<r.arg, n>>}]
        BY <3>1, <3>2
      <3> HIDE DEF c
      <3> QED BY <2>3, <2>5, <3>3 DEF NodesUpdated
    <2> QED BY <2>4, <2>5
  <1> QED BY <1>1, <1>2, <1>3, <1>4, <1>5

LEMMA RedoEdge ==
    ASSUME NEW t \in Trees, NEW r \in Records,
           r.op \in {"edge_insert", "edge_delete", "edge_property"}
    PROVE  Redo(t, r) =
             IF r.op = "edge_insert" THEN createWithId(t, r.id, Absent)
             ELSE IF r.op = "edge_delete" THEN deleteById(t, r.id)
             ELSE IF t.edges[r.id] = Absent THEN t
             ELSE createWithId(deleteById(t, r.id), r.id, r.arg)
  <1>1. CASE r.op = "edge_insert"
    BY <1>1 DEF Redo, redoInsert
  <1>2. CASE r.op = "edge_delete"
    BY <1>2 DEF Redo, redoDelete
  <1>3. CASE r.op = "edge_property"
    BY <1>3 DEF Redo, redoUpdate
  <1> QED BY <1>1, <1>2, <1>3

LEMMA RedoType ==
    ASSUME NEW t \in Trees, NEW r \in Records
    PROVE  Redo(t, r) \in Trees
  <1>1. CASE r.op \in {"node_insert", "node_delete", "property", "label_add", "label_remove"}
    <2>1. r.id \in Nodes /\ t.nodes \in [Nodes -> Cells] /\ t.by_label \in SUBSET (Labels \X Nodes)
      BY <1>1, RecordIs DEF Trees
    <2>2. RedoCell(NodeOps, t.nodes[r.id], r, r.id) \in Cells
      BY <2>1, RedoCellType DEF Kinds
    <2>3. [t.nodes EXCEPT ![r.id] = RedoCell(NodeOps, t.nodes[r.id], r, r.id)] \in [Nodes -> Cells]
      BY <2>1, <2>2
    <2>4. r.op = "node_insert" => addLabels(t.by_label, r.arg, r.id) \in SUBSET (Labels \X Nodes)
      BY <2>1, RecordIs, AddLabelsIs
    <2>5. r.op \in {"label_add", "label_remove"} => r.arg \in Labels
      BY RecordIs
    <2>6. RedoIndex(t, r) \in SUBSET (Labels \X Nodes)
      BY <2>1, <2>4, <2>5 DEF RedoIndex
    <2>7. Redo(t, r) = NodesUpdated(t, [t.nodes EXCEPT ![r.id] = RedoCell(NodeOps, t.nodes[r.id], r, r.id)],
                                    RedoIndex(t, r))
      BY <1>1, RedoNode
    <2> QED BY <2>3, <2>6, <2>7, TreesUpdate
  <1>2. CASE r.op \in {"edge_insert", "edge_delete", "edge_property"}
    <2>1. r.id \in Edges /\ Absent \in Props /\ (r.op = "edge_property" => r.arg \in Props)
      BY <1>2, RecordIs DEF Props
    <2> QED BY <1>2, <2>1, RedoEdge, CreateType, DeleteType
  <1> QED BY <1>1, <1>2, RecordIs

LEMMA RedoNodesAre ==
    ASSUME NEW t \in Trees, NEW r \in Records, NEW n \in Nodes
    PROVE  Redo(t, r).nodes[n] = RedoCell(NodeOps, t.nodes[n], r, n)
  <1>1. CASE r.op \in {"node_insert", "node_delete", "property", "label_add", "label_remove"}
    <2>1. r.id \in Nodes /\ t.nodes \in [Nodes -> Cells]
      BY <1>1, RecordIs DEF Trees
    <2>2. Redo(t, r).nodes = [t.nodes EXCEPT ![r.id] = RedoCell(NodeOps, t.nodes[r.id], r, r.id)]
      BY <1>1, RedoNode, TreesUpdate
    <2>3. n # r.id => RedoCell(NodeOps, t.nodes[n], r, n) = t.nodes[n]
      BY DEF RedoCell, Inserts, Deletes
    <2> QED BY <2>1, <2>2, <2>3
  <1>2. CASE r.op \in {"edge_insert", "edge_delete", "edge_property"}
    <2>1. Redo(t, r).nodes = t.nodes
      <3>1. r.id \in Edges /\ Absent \in Props /\ (r.op = "edge_property" => r.arg \in Props)
        BY <1>2, RecordIs DEF Props
      <3> QED BY <1>2, <3>1, RedoEdge, CreateType, DeleteType
    <2>2. RedoCell(NodeOps, t.nodes[n], r, n) = t.nodes[n]
      BY <1>2 DEF RedoCell, Inserts, Deletes, NodeOps
    <2> QED BY <2>1, <2>2
  <1> QED BY <1>1, <1>2, RecordIs

LEMMA EdgeCells ==
    /\ \A x \in EdgeStates \cup {Absent} : EdgeCell(x) \in Cells /\ (EdgeCell(x) = Absent <=> x = Absent)
    /\ \A x, y \in EdgeStates \cup {Absent} : EdgeCell(x) = EdgeCell(y) => x = y
    /\ \A p \in Props : /\ [prop |-> p] \in EdgeStates /\ [prop |-> p] # Absent
                        /\ EdgeCell([prop |-> p]) = [labels |-> {}, prop |-> p]
    /\ EdgeCell(Absent) = Absent
    /\ \A x \in EdgeStates : EdgeCell(x).labels = {}
  <1>1. Absent \notin EdgeStates /\ Absent \notin NodeStates
    BY GraphStoresAssumption
  <1>2. \A x \in EdgeStates : x.prop \in Props /\ x = [prop |-> x.prop]
    BY DEF EdgeStates
  <1>3. \A p \in Props : /\ [labels |-> {}, prop |-> p] \in NodeStates
                          /\ [labels |-> {}, prop |-> p].prop = p
                          /\ [labels |-> {}, prop |-> p].labels = {}
                          /\ [prop |-> p] \in EdgeStates /\ [prop |-> p].prop = p
    BY DEF NodeStates, EdgeStates
  <1>4. \A x \in EdgeStates : EdgeCell(x) = [labels |-> {}, prop |-> x.prop]
    BY <1>1 DEF EdgeCell
  <1>5. EdgeCell(Absent) = Absent
    BY DEF EdgeCell
  <1>6. \A x, y \in EdgeStates \cup {Absent} : EdgeCell(x) = EdgeCell(y) => x = y
    <2> SUFFICES ASSUME NEW x \in EdgeStates \cup {Absent}, NEW y \in EdgeStates \cup {Absent},
                        EdgeCell(x) = EdgeCell(y)
                 PROVE  x = y
      OBVIOUS
    <2>1. CASE x \in EdgeStates /\ y \in EdgeStates
      BY <1>2, <1>3, <1>4, <2>1
    <2>2. CASE x = Absent \/ y = Absent
      BY <1>1, <1>2, <1>3, <1>4, <1>5, <2>2
    <2> QED BY <2>1, <2>2
  <1>7. \A x \in EdgeStates \cup {Absent} : EdgeCell(x) \in Cells /\ (EdgeCell(x) = Absent <=> x = Absent)
    BY <1>1, <1>2, <1>3, <1>4, <1>5 DEF Cells
  <1> QED BY <1>1, <1>2, <1>3, <1>4, <1>5, <1>6, <1>7

LEMMA RedoEdgesAre ==
    ASSUME NEW t \in Trees, NEW r \in Records, EdgeTrees(t)
    PROVE  /\ EdgeTrees(Redo(t, r))
           /\ \A e \in Edges : EdgeCell(Redo(t, r).edges[e]) = RedoCell(EdgeOps, EdgeCell(t.edges[e]), r, e)
           /\ t.edge_meta <= Redo(t, r).edge_meta
           /\ \A u : Inserts(EdgeOps, r, u) => u < Redo(t, r).edge_meta
  <1>0. /\ t.edge_meta \in Nat /\ t.edges \in [Edges -> EdgeStates \cup {Absent}]
        /\ Absent \notin EdgeStates /\ Absent # [labels |-> {}, prop |-> Absent]
        /\ \A p \in Props : [prop |-> p] \in EdgeStates /\ Absent # [labels |-> {}, prop |-> p]
        /\ Absent \in Props
        /\ \A e \in Edges : \A p \in Props : createWithId(t, e, p) \in Trees
        /\ \A e \in Edges : deleteById(t, e) \in Trees
    <2>1. \A p \in Props : [labels |-> {}, prop |-> p] \in NodeStates
      BY DEF NodeStates
    <2>2. Absent \in Props
      BY DEF Props
    <2> QED BY <2>1, <2>2, GraphStoresAssumption, CreateType, DeleteType DEF Trees, EdgeStates
  <1>1. CASE r.op \in {"node_insert", "node_delete", "property", "label_add", "label_remove"}
    <2>1. /\ Redo(t, r).edges = t.edges /\ Redo(t, r).adj = t.adj
          /\ Redo(t, r).edge_meta = t.edge_meta
      <3>1. Redo(t, r) = NodesUpdated(t, [t.nodes EXCEPT ![r.id] = RedoCell(NodeOps, t.nodes[r.id], r, r.id)],
                                      RedoIndex(t, r))
        BY <1>1, RedoNode
      <3> QED BY <3>1, TreesUpdate
    <2>2. \A e \in Edges : RedoCell(EdgeOps, EdgeCell(t.edges[e]), r, e) = EdgeCell(t.edges[e])
      BY <1>1 DEF RedoCell, Inserts, Deletes, EdgeOps
    <2>3. \A u : ~Inserts(EdgeOps, r, u)
      BY <1>1 DEF Inserts, EdgeOps
    <2> QED BY <1>0, <2>1, <2>2, <2>3 DEF EdgeTrees
  <1>2. CASE r.op = "edge_insert"
    <2>1. r.id \in Edges /\ Redo(t, r) = createWithId(t, r.id, Absent)
      BY <1>2, RecordIs, RedoEdge
    <2>2. /\ EdgeTrees(Redo(t, r)) /\ r.id < Redo(t, r).edge_meta
          /\ t.edge_meta <= Redo(t, r).edge_meta
          /\ Redo(t, r).edges = IF t.edges[r.id] = Absent
                                THEN [t.edges EXCEPT ![r.id] = [prop |-> Absent]] ELSE t.edges
      BY <1>0, <2>1, CreateIs
    <2>3. \A e \in Edges : \A s : RedoCell(EdgeOps, s, r, e) =
            IF e = r.id /\ s = Absent THEN [labels |-> {}, prop |-> Absent] ELSE s
      BY <1>2 DEF RedoCell, Inserts, Deletes, EdgeOps, NewCell
    <2>4. \A e \in Edges : EdgeCell(Redo(t, r).edges[e]) = RedoCell(EdgeOps, EdgeCell(t.edges[e]), r, e)
      <3> SUFFICES ASSUME NEW e \in Edges
                   PROVE  EdgeCell(Redo(t, r).edges[e]) = RedoCell(EdgeOps, EdgeCell(t.edges[e]), r, e)
        OBVIOUS
      <3>1. e # r.id => Redo(t, r).edges[e] = t.edges[e]
        BY <1>0, <2>2
      <3>2. t.edges[e] \in EdgeStates \cup {Absent}
        BY <1>0
      <3>3. CASE e = r.id /\ t.edges[e] = Absent
        <4>1. Redo(t, r).edges[e] = [prop |-> Absent]
          BY <1>0, <2>1, <2>2, <3>3
        <4> QED BY <1>0, <2>3, <3>3, <4>1, EdgeCells
      <3>4. CASE ~(e = r.id /\ t.edges[e] = Absent)
        <4>1. Redo(t, r).edges[e] = t.edges[e]
          BY <2>2, <3>1, <3>4
        <4>2. ~(e = r.id /\ EdgeCell(t.edges[e]) = Absent)
          BY <3>2, <3>4, EdgeCells
        <4> QED BY <2>3, <4>1, <4>2
      <3> QED BY <3>3, <3>4
    <2>5. \A u : Inserts(EdgeOps, r, u) => u = r.id
      BY DEF Inserts
    <2> QED BY <2>2, <2>4, <2>5
  <1>3. CASE r.op = "edge_delete"
    <2>1. r.id \in Edges /\ Redo(t, r) = deleteById(t, r.id)
      BY <1>3, RecordIs, RedoEdge
    <2>2. /\ EdgeTrees(Redo(t, r)) /\ Redo(t, r).edge_meta = t.edge_meta
          /\ Redo(t, r).edges = [t.edges EXCEPT ![r.id] = Absent]
      BY <2>1, DeleteIs
    <2>3. \A e \in Edges : \A s : RedoCell(EdgeOps, s, r, e) = IF e = r.id THEN Absent ELSE s
      BY <1>3 DEF RedoCell, Inserts, Deletes, EdgeOps
    <2>4. \A e \in Edges : EdgeCell(Redo(t, r).edges[e]) = RedoCell(EdgeOps, EdgeCell(t.edges[e]), r, e)
      <3> SUFFICES ASSUME NEW e \in Edges
                   PROVE  EdgeCell(Redo(t, r).edges[e]) = RedoCell(EdgeOps, EdgeCell(t.edges[e]), r, e)
        OBVIOUS
      <3>1. e # r.id => Redo(t, r).edges[e] = t.edges[e]
        BY <1>0, <2>2
      <3>2. CASE e = r.id
        <4>1. Redo(t, r).edges[e] = Absent
          BY <1>0, <2>1, <2>2, <3>2
        <4> QED BY <2>3, <3>2, <4>1, EdgeCells
      <3> QED BY <2>3, <3>1, <3>2
    <2>5. \A u : ~Inserts(EdgeOps, r, u)
      BY <1>3 DEF Inserts, EdgeOps
    <2> QED BY <1>0, <2>2, <2>4, <2>5
  <1>4. CASE r.op = "edge_property"
    <2>1. r.id \in Edges /\ r.arg \in Props
      BY <1>4, RecordIs
    <2>2. \A e \in Edges : \A s : RedoCell(EdgeOps, s, r, e) =
            IF e = r.id /\ s # Absent THEN [labels |-> s.labels, prop |-> r.arg] ELSE s
      BY <1>4 DEF RedoCell, Inserts, Deletes, EdgeOps
    <2>3. \A u : ~Inserts(EdgeOps, r, u)
      BY <1>4 DEF Inserts, EdgeOps
    <2>4. CASE t.edges[r.id] = Absent
      <3>1. Redo(t, r) = t
        BY <1>4, <2>4, RedoEdge
      <3> QED BY <1>0, <2>1, <2>2, <2>3, <2>4, <3>1 DEF EdgeCell
    <2>5. CASE t.edges[r.id] # Absent
      <3> DEFINE d == deleteById(t, r.id)
      <3>1. Redo(t, r) = createWithId(d, r.id, r.arg)
        BY <1>4, <2>5, RedoEdge
      <3>2. /\ d \in Trees /\ EdgeTrees(d) /\ d.edges = [t.edges EXCEPT ![r.id] = Absent]
            /\ d.edge_meta = t.edge_meta
        BY <1>0, <2>1, DeleteIs
      <3> HIDE DEF d
      <3>3. /\ EdgeTrees(Redo(t, r)) /\ t.edge_meta <= Redo(t, r).edge_meta
            /\ Redo(t, r).edges = [d.edges EXCEPT ![r.id] = [prop |-> r.arg]]
        BY <1>0, <2>1, <3>1, <3>2, CreateIs
      <3>4. \A e \in Edges : EdgeCell(Redo(t, r).edges[e]) = RedoCell(EdgeOps, EdgeCell(t.edges[e]), r, e)
        BY <1>0, <2>1, <2>2, <2>5, <3>2, <3>3 DEF EdgeCell
      <3> QED BY <2>3, <3>3, <3>4
    <2> QED BY <2>4, <2>5
  <1> QED BY <1>1, <1>2, <1>3, <1>4, RecordIs
-----------------------------------------------------------------------------
(* The label index follows the nodes through a redo, as long as a node     *)
(* that is inserted over has the labels it is inserted with.               *)

LEMMA LabelIndexIs ==
    ASSUME NEW t \in Trees
    PROVE  LabelIndex(t) <=>
             \A l \in Labels, n \in Nodes :
               <<l, n>> \in t.by_label <=> t.nodes[n] # Absent /\ l \in t.nodes[n].labels
  <1>1. t.by_label \in SUBSET (Labels \X Nodes)
    BY DEF Trees
  <1>2. ASSUME LabelIndex(t), NEW l \in Labels, NEW n \in Nodes
        PROVE  <<l, n>> \in t.by_label <=> t.nodes[n] # Absent /\ l \in t.nodes[n].labels
    BY <1>2 DEF LabelIndex
  <1>3. ASSUME \A l \in Labels, n \in Nodes :
                 <<l, n>> \in t.by_label <=> t.nodes[n] # Absent /\ l \in t.nodes[n].labels
        PROVE  LabelIndex(t)
    <2> DEFINE S == {x \in Labels \X Nodes : /\ t.nodes[x[2]] # Absent
                                             /\ x[1] \in t.nodes[x[2]].labels}
    <2>1. ASSUME NEW x \in Labels \X Nodes PROVE x \in t.by_label <=> x \in S
      <3>1. PICK l \in Labels, n \in Nodes : x = <<l, n>>
        OBVIOUS
      <3> QED BY <1>3, <3>1
    <2>2. t.by_label = S
      BY <1>1, <2>1
    <2> QED BY <2>2 DEF LabelIndex
  <1> QED BY <1>2, <1>3

LEMMA RedoLabelIndex ==
    ASSUME NEW t \in Trees, LabelIndex(t), NEW r \in Records,
           r.op = "node_insert" /\ t.nodes[r.id] # Absent => r.arg \subseteq t.nodes[r.id].labels
    PROVE  LabelIndex(Redo(t, r))
  <1>0. Redo(t, r) \in Trees
    BY RedoType
  <1>1. CASE r.op \in {"edge_insert", "edge_delete", "edge_property"}
    <2>1. Redo(t, r).nodes = t.nodes /\ Redo(t, r).by_label = t.by_label
      <3>1. r.id \in Edges /\ Absent \in Props /\ (r.op = "edge_property" => r.arg \in Props)
        BY <1>1, RecordIs DEF Props
      <3> QED BY <1>1, <3>1, RedoEdge, CreateType, DeleteType
    <2> QED BY <2>1 DEF LabelIndex
  <1>2. CASE r.op \in {"node_insert", "node_delete", "property", "label_add", "label_remove"}
    <2> DEFINE n == r.id
               s == t.nodes[n]
               c == RedoCell(NodeOps, s, r, n)
               B == RedoIndex(t, r)
    <2>0. /\ n \in Nodes /\ t.nodes \in [Nodes -> Cells] /\ s \in Cells /\ c \in Cells
          /\ t.by_label \in SUBSET (Labels \X Nodes)
          /\ s # Absent => s \in NodeStates
          /\ Absent \notin NodeStates
      BY <1>2, RecordIs, RedoCellType, GraphStoresAssumption DEF Kinds, Trees, Cells
    <2>1. Redo(t, r).nodes = [t.nodes EXCEPT ![n] = c] /\ Redo(t, r).by_label = B
      <3>1. Redo(t, r) = NodesUpdated(t, [t.nodes EXCEPT ![n] = c], B)
        BY <1>2, RedoNode
      <3> HIDE DEF c, B
      <3> QED BY <3>1, TreesUpdate
    <2>2. \A l \in Labels, m \in Nodes :
            <<l, m>> \in t.by_label <=> t.nodes[m] # Absent /\ l \in t.nodes[m].labels
      BY LabelIndexIs
    <2>3. \A l \in Labels : <<l, n>> \in B <=> c # Absent /\ l \in c.labels
      <3> SUFFICES ASSUME NEW l \in Labels PROVE <<l, n>> \in B <=> c # Absent /\ l \in c.labels
        OBVIOUS
      <3>1. CASE r.op = "node_insert"
        <4>1. r.arg \in SUBSET Labels
          BY <3>1, RecordIs
        <4>2. c = IF s = Absent THEN [labels |-> r.arg, prop |-> Absent] ELSE s
          BY <3>1 DEF RedoCell, Inserts, Deletes, NodeOps, NewCell
        <4>3. B = addLabels(t.by_label, r.arg, n)
          BY <3>1 DEF RedoIndex
        <4>4. CASE s = Absent
          <5>1. \A m \in r.arg : <<m, n>> \notin t.by_label
            BY <2>0, <2>2, <4>1, <4>4
          <5>2. B = t.by_label \cup Entries(r.arg, n)
            <6>1. addLabels(t.by_label, r.arg, n) = t.by_label \cup Entries(r.arg, n)
              <7> HIDE DEF B, c, s
              <7> QED BY <2>0, <4>1, <5>1, AddLabelsIs
            <6> QED BY <4>3, <6>1
          <5>3. <<l, n>> \in Entries(r.arg, n) <=> l \in r.arg
            BY DEF Entries
          <5>4. <<l, n>> \notin t.by_label
            BY <2>0, <2>2, <4>4
          <5>5. c \in NodeStates /\ c.labels = r.arg
            BY <4>1, <4>2, <4>4, CellsOf DEF Props
          <5> QED BY <2>0, <5>2, <5>3, <5>4, <5>5
        <4>5. CASE s # Absent
          <5>1. \A m \in r.arg : <<m, n>> \in t.by_label
            BY <2>0, <2>2, <3>1, <4>1, <4>5
          <5>2. B = t.by_label
            <6>1. addLabels(t.by_label, r.arg, n) = t.by_label
              <7> HIDE DEF B, c, s
              <7> QED BY <2>0, <4>1, <5>1, AddLabelsAll
            <6> QED BY <4>3, <6>1
          <5> QED BY <2>0, <2>2, <4>2, <4>5, <5>2
        <4> QED BY <4>4, <4>5
      <3>2. CASE r.op = "node_delete"
        <4>1. c = Absent
          BY <3>2 DEF RedoCell, Deletes, NodeOps
        <4>2. B = IF s = Absent THEN t.by_label ELSE t.by_label \ Entries(s.labels, n)
          BY <3>2 DEF RedoIndex
        <4>3. s # Absent /\ l \in s.labels => <<l, n>> \in Entries(s.labels, n)
          BY DEF Entries
        <4> QED BY <2>0, <2>2, <4>1, <4>2, <4>3
      <3>3. CASE s = Absent /\ r.op \in {"property", "label_add", "label_remove"}
        <4>1. c = Absent /\ B = t.by_label
          BY <3>3 DEF RedoCell, Inserts, Deletes, NodeOps, RedoIndex
        <4> QED BY <2>0, <2>2, <3>3, <4>1
      <3>4. CASE s # Absent /\ r.op = "property"
        <4>1. c = [labels |-> s.labels, prop |-> r.arg] /\ B = t.by_label
          BY <3>4 DEF RedoCell, Inserts, Deletes, NodeOps, RedoIndex
        <4>2. c \in NodeStates /\ c.labels = s.labels
          BY <2>0, <3>4, <4>1, RecordIs, CellsOf
        <4> QED BY <2>0, <2>2, <3>4, <4>1, <4>2
      <3>5. CASE s # Absent /\ r.op = "label_add"
        <4>1. c = [labels |-> s.labels \cup {r.arg}, prop |-> s.prop]
          BY <3>5 DEF RedoCell, Inserts, Deletes, NodeOps
        <4>2. B = IF r.arg \notin s.labels THEN t.by_label \cup {<<r.arg, n>>} ELSE t.by_label
          BY <3>5 DEF RedoIndex
        <4>3. s.labels \cup {r.arg} \in SUBSET Labels /\ s.prop \in Props
          BY <2>0, <3>5, RecordIs, CellsOf
        <4>4. c \in NodeStates /\ c.labels = s.labels \cup {r.arg}
          BY <4>1, <4>3, CellsOf
        <4>5. <<l, n>> = <<r.arg, n>> <=> l = r.arg
          OBVIOUS
        <4> QED BY <2>0, <2>2, <3>5, <4>2, <4>4, <4>5
      <3>6. CASE s # Absent /\ r.op = "label_remove"
        <4>1. c = [labels |-> s.labels \ {r.arg}, prop |-> s.prop]
          BY <3>6 DEF RedoCell, Inserts, Deletes, NodeOps
        <4>2. B = IF r.arg \in s.labels THEN t.by_label \ {<<r.arg, n>>} ELSE t.by_label
          BY <3>6 DEF RedoIndex
        <4>3. s.labels \ {r.arg} \in SUBSET Labels /\ s.prop \in Props
          BY <2>0, <3>6, RecordIs, CellsOf
        <4>4. c \in NodeStates /\ c.labels = s.labels \ {r.arg}
          BY <4>1, <4>3, CellsOf
        <4>5. <<l, n>> = <<r.arg, n>> <=> l = r.arg
          OBVIOUS
        <4> QED BY <2>0, <2>2, <3>6, <4>2, <4>4, <4>5
      <3> QED BY <1>2, <3>1, <3>2, <3>3, <3>4, <3>5, <3>6
    <2>4. ASSUME NEW l \in Labels, NEW m \in Nodes, m # n
          PROVE  <<l, m>> \in B <=> <<l, m>> \in t.by_label
      <3>1. \A S : <<l, m>> \notin Entries(S, n)
        BY <2>4 DEF Entries
      <3>2. <<l, m>> # <<r.arg, n>>
        BY <2>4
      <3>3. CASE r.op = "node_insert"
        <4>1. r.arg \in SUBSET Labels
          BY <3>3, RecordIs
        <4>2. B = addLabels(t.by_label, r.arg, n)
          BY <3>3 DEF RedoIndex
        <4>3. s = Absent \/ s # Absent
          OBVIOUS
        <4>4. B = t.by_label \/ B = t.by_label \cup Entries(r.arg, n)
          <5>1. CASE s = Absent
            BY <2>0, <2>2, <4>1, <4>2, <5>1, AddLabelsIs
          <5>2. CASE s # Absent
            BY <2>0, <2>2, <3>3, <4>1, <4>2, <5>2, AddLabelsIs
          <5> QED BY <5>1, <5>2
        <4> QED BY <3>1, <4>4
      <3>4. CASE r.op # "node_insert"
        BY <3>1, <3>2, <3>4 DEF RedoIndex
      <3> QED BY <3>3, <3>4
    <2>5. \A l \in Labels, m \in Nodes :
            <<l, m>> \in Redo(t, r).by_label
              <=> Redo(t, r).nodes[m] # Absent /\ l \in Redo(t, r).nodes[m].labels
      <3> SUFFICES ASSUME NEW l \in Labels, NEW m \in Nodes
                   PROVE  <<l, m>> \in Redo(t, r).by_label
                            <=> Redo(t, r).nodes[m] # Absent /\ l \in Redo(t, r).nodes[m].labels
        OBVIOUS
      <3> HIDE DEF c, B
      <3>1. CASE m = n
        <4>1. Redo(t, r).nodes[m] = c
          BY <2>0, <2>1, <3>1
        <4> QED BY <2>1, <2>3, <3>1, <4>1
      <3>2. CASE m # n
        <4>1. Redo(t, r).nodes[m] = t.nodes[m]
          BY <2>0, <2>1, <3>2
        <4> QED BY <2>1, <2>2, <2>4, <3>2, <4>1
      <3> QED BY <3>1, <3>2
    <2> QED BY <1>0, <2>5, LabelIndexIs
  <1> QED BY <1>1, <1>2, RecordIs

LEMMA KeepsStep ==
    ASSUME NEW L \in Seq(Records), NEW k \in Nat, k < Len(L), NEW n,
           NEW s, Keeps(L, k, n, s), InsertFirst(NodeOps, L, n)
    PROVE  /\ s # Absent /\ Inserts(NodeOps, L[k + 1], n) => L[k + 1].arg \subseteq s.labels
           /\ Keeps(L, k + 1, n, RedoCell(NodeOps, s, L[k + 1], n))
  <1> DEFINE r == L[k + 1]
             t == RedoCell(NodeOps, s, r, n)
  <1>0. /\ After(L, k) = {k + 1} \cup After(L, k + 1) /\ k + 1 \in Nat /\ k + 1 \in DOMAIN L
        /\ After(L, k + 1) \subseteq DOMAIN L /\ r \in Records
    BY AfterIs
  <1>1. s # Absent /\ Inserts(NodeOps, r, n) => r.arg \subseteq s.labels
    <2>1. (k + 1)..(k + 1 - 1) = {}
      OBVIOUS
    <2> QED BY <1>0, <2>1 DEF Keeps
  <1>2. ASSUME t # Absent, NEW i \in After(L, k + 1), Inserts(NodeOps, L[i], n),
               \A d \in (k + 1 + 1)..(i - 1) : ~Deletes(NodeOps, L[d], n)
        PROVE  L[i].arg \subseteq t.labels
    <2>1. i \in Nat /\ k + 1 < i /\ k + 1 \in 1..(i - 1) /\ i \in DOMAIN L
      BY <1>0 DEF After
    <2>2. ~Deletes(NodeOps, r, n)
      BY <1>2, RedoDelete DEF Kinds
    <2>3. \A d \in (k + 1)..(i - 1) : ~Deletes(NodeOps, L[d], n)
      <3>1. \A d \in (k + 1)..(i - 1) : d = k + 1 \/ d \in (k + 1 + 1)..(i - 1)
        BY <2>1
      <3> QED BY <1>2, <2>2, <3>1
    <2>4. ~About(NodeOps, r, n)
      BY <1>2, <2>1, <2>3 DEF InsertFirst
    <2>5. t = s
      <3>1. ~Inserts(NodeOps, r, n) /\ \A a \in Attributes : ~Touches(NodeOps, r, n, a)
        BY <2>4 DEF About
      <3>2. <<"property", Absent>> \in Attributes /\ \A l \in Labels : <<"label", l>> \in Attributes
        BY DEF Attributes
      <3>3. r.id = n => r.op # "property"
        BY <3>1, <3>2 DEF Touches, NodeOps
      <3>4. r.id = n => r.op \notin {"label_add", "label_remove"}
        <4>1. r.op \in {"label_add", "label_remove"} => r.arg \in Labels
          BY <1>0, RecordIs
        <4> QED BY <3>1, <3>2, <4>1 DEF Touches, NodeOps
      <3>5. NodeOps.property = "property" /\ NodeOps.add = "label_add" /\ NodeOps.remove = "label_remove"
        BY DEF NodeOps
      <3> QED BY <2>2, <3>1, <3>3, <3>4, <3>5 DEF RedoCell
    <2> QED BY <1>0, <1>2, <2>3, <2>5 DEF Keeps
  <1>3. Keeps(L, k + 1, n, t)
    <2> HIDE DEF t
    <2> QED BY <1>2 DEF Keeps
  <1> QED BY <1>1, <1>3
-----------------------------------------------------------------------------
(* The records each commit writes carry its node or edge from the old      *)
(* state to the new, and no other.                                         *)

NodeOpNames == {"node_insert", "node_delete", "property", "label_add", "label_remove"}
EdgeOpNames == {"edge_insert", "edge_delete", "edge_property"}

LEMMA ForeignRecord ==
    ASSUME NEW r, NEW m
    PROVE  /\ r.id # m => \A K \in Kinds : ~About(K, r, m)
           /\ r.op \in NodeOpNames => ~About(EdgeOps, r, m)
           /\ r.op \in EdgeOpNames => ~About(NodeOps, r, m)
  BY DEF About, Inserts, Deletes, Touches, NodeOps, EdgeOps, NodeOpNames, EdgeOpNames, Attributes

LEMMA CarriesOthers ==
    ASSUME NEW K \in Kinds, NEW R \in Seq(Records), NEW m, NEW f,
           \A i \in DOMAIN R : ~About(K, R[i], m)
    PROVE  Carries(K, R, m, f, f)
  <1>1. \A i \in DOMAIN R : ~Inserts(K, R[i], m) /\ ~Deletes(K, R[i], m)
    BY DEF About
  <1>2. ASSUME NEW i \in After(R, 0), NEW a \in Attributes PROVE ~Touches(K, R[i], m, a)
    <2>1. i \in DOMAIN R
      BY DEF After
    <2> QED BY <2>1, TouchIsAbout
  <1>3. f # Absent => ChangesTo(K, R, 0, m, f, f)
    BY <1>2 DEF ChangesTo, LastTouch
  <1> QED BY <1>1, <1>3 DEF Carries

(* Every change agrees with the new state: then the last one does.         *)
LEMMA ChangesAgree ==
    ASSUME NEW K, NEW R, NEW k, NEW n, NEW s, NEW f, f # Absent,
           \A a \in Attributes :
             /\ \A i \in After(R, k) : Touches(K, R[i], n, a) => Value(f, a) = Given(K, R[i], a)
             /\ (\A i \in After(R, k) : ~Touches(K, R[i], n, a)) => Value(f, a) = Value(s, a)
    PROVE  ChangesTo(K, R, k, n, s, f)
  BY DEF ChangesTo, LastTouch

LEMMA RecordTypes ==
    /\ \A n \in Nodes : /\ Record("node_delete", n, Absent) \in Records
                        /\ \A S \in SUBSET Labels : Record("node_insert", n, S) \in Records
                        /\ \A p \in Props : Record("property", n, p) \in Records
                        /\ \A l \in Labels : /\ Record("label_add", n, l) \in Records
                                             /\ Record("label_remove", n, l) \in Records
    /\ \A e \in Edges : /\ Record("edge_insert", e, Absent) \in Records
                        /\ Record("edge_delete", e, Absent) \in Records
                        /\ \A p \in Props : Record("edge_property", e, p) \in Records
  BY DEF Record, Records

LEMMA RecordFields ==
    ASSUME NEW op, NEW id, NEW arg
    PROVE  /\ Record(op, id, arg).op = op /\ Record(op, id, arg).id = id
           /\ Record(op, id, arg).arg = arg
  BY DEF Record

LEMMA OneRecord ==
    ASSUME NEW a \in Records
    PROVE  /\ <<a>> \in Seq(Records) /\ Len(<<a>>) = 1 /\ <<a>>[1] = a /\ <<a>> # <<>>
           /\ DOMAIN <<a>> = {1} /\ <<a>> \o <<>> = <<a>>
           /\ After(<<a>>, 0) = {1} /\ After(<<a>>, 1) = {}
  BY DEF After

LEMMA TwoRecords ==
    ASSUME NEW a \in Records, NEW b \in Records
    PROVE  /\ <<a, b>> \in Seq(Records) /\ Len(<<a, b>>) = 2
           /\ <<a, b>>[1] = a /\ <<a, b>>[2] = b /\ <<a, b>> # <<>>
           /\ DOMAIN <<a, b>> = {1, 2} /\ <<a>> \o <<b>> = <<a, b>>
           /\ After(<<a, b>>, 1) = {2}
  <1>1. /\ <<a, b>> \in Seq(Records) /\ Len(<<a, b>>) = 2
        /\ <<a, b>>[1] = a /\ <<a, b>>[2] = b /\ <<a, b>> # <<>>
        /\ DOMAIN <<a, b>> = {1, 2}
    OBVIOUS
  <1>2. <<a>> \o <<b>> = <<a, b>>
    <2>1. /\ <<a>> \in Seq(Records) /\ <<b>> \in Seq(Records) /\ Len(<<a>>) = 1 /\ Len(<<b>>) = 1
          /\ <<a>>[1] = a /\ <<b>>[1] = b
      OBVIOUS
    <2> DEFINE M == <<a>> \o <<b>>
    <2>2. M \in Seq(Records) /\ Len(M) = 2 /\ M[1] = a /\ M[2] = b
      BY <2>1
    <2>3. \A X, Y \in Seq(Records) : Len(X) = 2 /\ Len(Y) = 2 /\ X[1] = Y[1] /\ X[2] = Y[2] => X = Y
      <3> SUFFICES ASSUME NEW X \in Seq(Records), NEW Y \in Seq(Records), Len(X) = 2, Len(Y) = 2,
                          X[1] = Y[1], X[2] = Y[2]
                   PROVE  X = Y
        OBVIOUS
      <3>1. Len(X) = Len(Y) /\ \A i \in 1..Len(X) : X[i] = Y[i]
        OBVIOUS
      <3> QED BY <3>1
    <2> HIDE DEF M
    <2>4. M = <<a, b>>
      BY <1>1, <2>2, <2>3
    <2> QED BY <2>4 DEF M
  <1>3. After(<<a, b>>, 1) = {2}
    BY <1>1 DEF After
  <1> QED BY <1>1, <1>2, <1>3

(* An insertion, with the property if there is one.                        *)
LEMMA InsertionCarries ==
    ASSUME NEW K \in Kinds, NEW n,
           NEW a \in Records, Inserts(K, a, n),
           NEW b \in Records, b.id = n, b.op = K.property,
           NEW f \in NodeStates, f.labels = NewCell(a).labels, b.arg = f.prop,
           NEW R, R = IF f.prop = Absent THEN <<a>> ELSE <<a, b>>
    PROVE  /\ R \in Seq(Records)
           /\ \A i \in DOMAIN R : R[i].id = n /\ R[i].op \in {K.insert, K.property}
           /\ \A i \in DOMAIN R : Inserts(K, R[i], n) => i = 1
           /\ R # <<>> /\ R[1] = a /\ 1 \in DOMAIN R
           /\ Carries(K, R, n, Absent, f)
  <1> DEFINE p == f.prop
  <1>0. /\ a.id = n /\ a.op = K.insert /\ b.arg = p
        /\ NewCell(a) \in NodeStates /\ NewCell(a).prop = Absent
    BY NewCellType DEF Inserts, NewCell
  <1>1. f # Absent
    BY CellsOf
  <1>2. K.insert # K.property /\ K.insert # K.delete /\ K.property # K.delete
        /\ K.property \notin {K.add, K.remove}
    BY DEF Kinds, NodeOps, EdgeOps
  <1>3. CASE p = Absent
    <2>1. R = <<a>>
      BY <1>3, OneRecord
    <2>2. R \in Seq(Records) /\ DOMAIN R = {1} /\ R[1] = a /\ R # <<>> /\ Len(R) = 1
      BY <2>1, OneRecord
    <2>3. ChangesTo(K, R, 1, n, NewCell(a), f)
      <3>1. After(R, 1) = {}
        BY <2>1, OneRecord
      <3>2. \A x \in Attributes : Value(f, x) = Value(NewCell(a), x)
        BY <1>0, <1>1, <1>3 DEF Value
      <3> QED BY <1>1, <3>1, <3>2, ChangesAgree
    <2>4. ~Deletes(K, a, n)
      BY <1>0, <1>2 DEF Deletes
    <2> QED BY <1>0, <2>2, <2>3, <2>4 DEF Carries
  <1>4. CASE p # Absent
    <2>1. R = <<a, b>>
      BY <1>4, TwoRecords
    <2>2. /\ R \in Seq(Records) /\ DOMAIN R = {1, 2} /\ R[1] = a /\ R[2] = b /\ R # <<>>
          /\ Len(R) = 2
      BY <2>1, TwoRecords
    <2>3. ChangesTo(K, R, 1, n, NewCell(a), f)
      <3>1. After(R, 1) = {2}
        <4>1. After(<<a, b>>, 1) = {2}
          BY TwoRecords
        <4> QED BY <2>1, <4>1
      <3>2. ASSUME NEW x \in Attributes
            PROVE  /\ Touches(K, b, n, x) => Value(f, x) = Given(K, b, x)
                   /\ ~Touches(K, b, n, x) => Value(f, x) = Value(NewCell(a), x)
        BY <1>0, <1>1, <1>2 DEF Touches, Value, Given, Attributes
      <3>3. ASSUME NEW x \in Attributes
            PROVE  /\ \A i \in After(R, 1) : Touches(K, R[i], n, x) => Value(f, x) = Given(K, R[i], x)
                   /\ (\A i \in After(R, 1) : ~Touches(K, R[i], n, x))
                        => Value(f, x) = Value(NewCell(a), x)
        BY <2>2, <3>1, <3>2
      <3> QED BY <1>1, <3>3, ChangesAgree
    <2>4. ~Deletes(K, a, n) /\ ~Deletes(K, b, n) /\ ~Inserts(K, b, n)
      BY <1>0, <1>2 DEF Deletes, Inserts
    <2> QED BY <1>0, <2>2, <2>3, <2>4 DEF Carries
  <1> QED BY <1>3, <1>4

LEMMA DeletionCarries ==
    ASSUME NEW K \in Kinds, NEW n, NEW a \in Records, Deletes(K, a, n), NEW old
    PROVE  /\ <<a>> \in Seq(Records) /\ DOMAIN <<a>> = {1} /\ <<a>>[1] = a
           /\ a.id = n /\ a.op = K.delete /\ ~Inserts(K, a, n)
           /\ Carries(K, <<a>>, n, old, Absent)
  <1>1. a.id = n /\ a.op = K.delete
    BY DEF Deletes
  <1>2. Deletes(K, a, n) /\ ~Inserts(K, a, n)
    BY <1>1, Exclusive DEF Deletes
  <1>3. <<a>> \in Seq(Records) /\ Len(<<a>>) = 1 /\ <<a>>[1] = a /\ <<a>> # <<>> /\ DOMAIN <<a>> = {1}
    OBVIOUS
  <1> QED BY <1>1, <1>2, <1>3 DEF Carries

LEMMA CreatedDeletedCarries ==
    ASSUME NEW K \in Kinds, NEW n,
           NEW a \in Records, Inserts(K, a, n), NEW b \in Records, Deletes(K, b, n),
           NEW R, R = <<a, b>>
    PROVE  /\ R \in Seq(Records)
           /\ \A i \in DOMAIN R : R[i].id = n /\ R[i].op \in {K.insert, K.delete}
           /\ Carries(K, R, n, Absent, Absent)
  <1>1. a.id = n /\ a.op = K.insert /\ b.id = n /\ b.op = K.delete
    BY DEF Inserts, Deletes
  <1>2. ~Inserts(K, b, n)
    BY Exclusive
  <1>3. R \in Seq(Records) /\ DOMAIN R = {1, 2} /\ Len(R) = 2 /\ R[1] = a /\ R[2] = b /\ R # <<>>
    BY TwoRecords
  <1> QED BY <1>1, <1>2, <1>3 DEF Carries

LEMMA PropertyCarries ==
    ASSUME NEW K \in Kinds, NEW n, NEW a \in Records, a.id = n, a.op = K.property,
           NEW s \in NodeStates, NEW f \in NodeStates, f.labels = s.labels, f.prop = a.arg
    PROVE  /\ <<a>> \in Seq(Records) /\ DOMAIN <<a>> = {1} /\ <<a>>[1] = a
           /\ Carries(K, <<a>>, n, s, f)
  <1> DEFINE R == <<a>>
  <1>2. K.property \notin {K.insert, K.delete, K.add, K.remove}
    BY DEF Kinds, NodeOps, EdgeOps
  <1>3. f # Absent /\ s # Absent
    BY CellsOf
  <1>4. R \in Seq(Records) /\ Len(R) = 1 /\ R[1] = a /\ DOMAIN R = {1}
    OBVIOUS
  <1>5. ~Inserts(K, a, n) /\ ~Deletes(K, a, n)
    BY <1>2 DEF Inserts, Deletes
  <1>6. ChangesTo(K, R, 0, n, s, f)
    <2>1. After(R, 0) = {1}
      BY <1>4 DEF After
    <2>2. ASSUME NEW x \in Attributes
          PROVE  /\ Touches(K, a, n, x) => Value(f, x) = Given(K, a, x)
                 /\ ~Touches(K, a, n, x) => Value(f, x) = Value(s, x)
      BY <1>2, <1>3 DEF Touches, Value, Given, Attributes
    <2>3. ASSUME NEW x \in Attributes
          PROVE  /\ \A i \in After(R, 0) : Touches(K, R[i], n, x) => Value(f, x) = Given(K, R[i], x)
                 /\ (\A i \in After(R, 0) : ~Touches(K, R[i], n, x)) => Value(f, x) = Value(s, x)
      BY <1>4, <2>1, <2>2
    <2> HIDE DEF R
    <2> QED BY <1>3, <2>3, ChangesAgree
  <1>7. Carries(K, R, n, s, f)
    <2> HIDE DEF R
    <2> QED BY <1>3, <1>4, <1>5, <1>6 DEF Carries
  <1> QED BY <1>4, <1>7
-----------------------------------------------------------------------------
(* The records of a node that is changed: labels gone, labels fresh, and   *)
(* the property.                                                           *)

LabelRecords(op, n, S) == [i \in 1..Cardinality(S) |-> Record(op, n, SetToSeq(S)[i])]

LEMMA LabelRecordsAre ==
    ASSUME NEW op \in {"label_add", "label_remove"}, NEW n \in Nodes, NEW S \in SUBSET Labels
    PROVE  /\ LabelRecords(op, n, S) \in Seq(Records)
           /\ \A i \in DOMAIN LabelRecords(op, n, S) :
                \E l \in S : LabelRecords(op, n, S)[i] = Record(op, n, l)
           /\ \A l \in S : \E i \in DOMAIN LabelRecords(op, n, S) :
                LabelRecords(op, n, S)[i] = Record(op, n, l)
  <1> DEFINE c == Cardinality(S)
             order == SetToSeq(S)
             R == LabelRecords(op, n, S)
  <1>1. c \in Nat
    BY LabelsFinite
  <1>2. (\A i \in 1..c : order[i] \in S) /\ \A l \in S : \E i \in 1..c : order[i] = l
    BY OrderOf
  <1>3. R = [i \in 1..c |-> Record(op, n, order[i])]
    BY DEF LabelRecords
  <1> HIDE DEF c, order, R
  <1>4. \A i \in 1..c : R[i] = Record(op, n, order[i]) /\ R[i] \in Records
    BY <1>2, <1>3, RecordTypes
  <1>5. R \in Seq(Records) /\ DOMAIN R = 1..c
    BY <1>1, <1>3, <1>4
  <1>6. /\ \A i \in DOMAIN R : \E l \in S : R[i] = Record(op, n, l)
        /\ \A l \in S : \E i \in DOMAIN R : R[i] = Record(op, n, l)
    BY <1>2, <1>4, <1>5
  <1> QED BY <1>5, <1>6 DEF R

(* Which records two joined sequences have.                                *)
Has(R, r) == \E i \in DOMAIN R : R[i] = r

LEMMA JoinedHas ==
    ASSUME NEW L \in Seq(Records), NEW R \in Seq(Records)
    PROVE  L \o R \in Seq(Records) /\ \A r : Has(L \o R, r) <=> Has(L, r) \/ Has(R, r)
  <1>1. ASSUME NEW r, Has(L \o R, r) PROVE Has(L, r) \/ Has(R, r)
    <2>1. PICK i \in DOMAIN (L \o R) : (L \o R)[i] = r
      BY <1>1 DEF Has
    <2>2. i \in DOMAIN L \/ \E j \in DOMAIN R : i = Len(L) + j
      BY Concat
    <2> QED BY <2>1, <2>2, Concat DEF Has
  <1>2. ASSUME NEW r, Has(L, r) \/ Has(R, r) PROVE Has(L \o R, r)
    <2>1. CASE Has(L, r)
      BY <2>1, Concat DEF Has
    <2>2. CASE Has(R, r)
      <3>1. PICK j \in DOMAIN R : R[j] = r
        BY <2>2 DEF Has
      <3>2. Len(L) + j \in DOMAIN (L \o R) /\ (L \o R)[Len(L) + j] = r
        BY <3>1, Concat
      <3> QED BY <3>2 DEF Has
    <2> QED BY <1>2, <2>1, <2>2
  <1> QED BY <1>1, <1>2, Concat

LEMMA ChangedNode ==
    ASSUME NEW n \in Nodes, NEW old \in NodeStates, NEW new \in NodeStates
    PROVE  LET C == IF new.prop = old.prop THEN <<>> ELSE <<Record("property", n, new.prop)>>
               R == LabelRecords("label_remove", n, Gone(old, new))
                      \o LabelRecords("label_add", n, Fresh(old, new)) \o C
           IN  /\ R \in Seq(Records)
               /\ \A i \in DOMAIN R : R[i].id = n /\ R[i].op \in {"property", "label_add", "label_remove"}
               /\ Carries(NodeOps, R, n, old, new)
  <1> DEFINE A == LabelRecords("label_remove", n, Gone(old, new))
             B == LabelRecords("label_add", n, Fresh(old, new))
             p == Record("property", n, new.prop)
             C == IF new.prop = old.prop THEN <<>> ELSE <<p>>
             R == A \o B \o C
  <1>0. /\ old # Absent /\ new # Absent
        /\ old.labels \subseteq Labels /\ new.labels \subseteq Labels
        /\ old.prop \in Props /\ new.prop \in Props
    BY CellsOf
  <1>1. Gone(old, new) = old.labels \ new.labels /\ Fresh(old, new) = new.labels \ old.labels
    BY <1>0 DEF Gone, Fresh
  <1>2. /\ A \in Seq(Records)
        /\ \A r : Has(A, r) <=> \E l \in old.labels \ new.labels : r = Record("label_remove", n, l)
    <2>1. Gone(old, new) \in SUBSET Labels /\ Gone(old, new) = old.labels \ new.labels
      BY <1>0, <1>1
    <2>2. /\ A \in Seq(Records)
          /\ \A i \in DOMAIN A : \E l \in Gone(old, new) : A[i] = Record("label_remove", n, l)
          /\ \A l \in Gone(old, new) : \E i \in DOMAIN A : A[i] = Record("label_remove", n, l)
      BY <2>1, LabelRecordsAre
    <2> HIDE DEF A
    <2> QED BY <2>1, <2>2 DEF Has
  <1>3. /\ B \in Seq(Records)
        /\ \A r : Has(B, r) <=> \E l \in new.labels \ old.labels : r = Record("label_add", n, l)
    <2>1. Fresh(old, new) \in SUBSET Labels /\ Fresh(old, new) = new.labels \ old.labels
      BY <1>0, <1>1
    <2>2. /\ B \in Seq(Records)
          /\ \A i \in DOMAIN B : \E l \in Fresh(old, new) : B[i] = Record("label_add", n, l)
          /\ \A l \in Fresh(old, new) : \E i \in DOMAIN B : B[i] = Record("label_add", n, l)
      BY <2>1, LabelRecordsAre
    <2> HIDE DEF B
    <2> QED BY <2>1, <2>2 DEF Has
  <1>4. C \in Seq(Records) /\ \A r : Has(C, r) <=> new.prop # old.prop /\ r = p
    <2>1. p \in Records
      BY <1>0, RecordTypes
    <2> HIDE DEF p
    <2>2. CASE new.prop = old.prop
      <3>1. C = <<>>
        BY <2>2
      <3> QED BY <2>2, <3>1 DEF Has
    <2>3. CASE new.prop # old.prop
      <3>1. C = <<p>>
        BY <2>3
      <3>2. C \in Seq(Records) /\ DOMAIN C = {1} /\ C[1] = p
        BY <2>1, <3>1, OneRecord
      <3> HIDE DEF C
      <3> QED BY <2>3, <3>2 DEF Has
    <2> QED BY <2>2, <2>3
  <1> HIDE DEF A, B, C
  <1>5. R \in Seq(Records) /\ \A r : Has(R, r) <=> Has(A, r) \/ Has(B, r) \/ Has(C, r)
    <2>1. A \o B \in Seq(Records) /\ \A r : Has(A \o B, r) <=> Has(A, r) \/ Has(B, r)
      BY <1>2, <1>3, JoinedHas
    <2> DEFINE D == A \o B
    <2> HIDE DEF D
    <2>2. D \in Seq(Records) /\ \A r : Has(D, r) <=> Has(A, r) \/ Has(B, r)
      BY <2>1 DEF D
    <2>3. D \o C \in Seq(Records) /\ \A r : Has(D \o C, r) <=> Has(D, r) \/ Has(C, r)
      BY <1>4, <2>2, JoinedHas
    <2> QED BY <2>2, <2>3 DEF D
  <1> HIDE DEF R
  <1>6. ASSUME NEW i \in DOMAIN R
        PROVE  \/ \E l \in old.labels \ new.labels : R[i] = Record("label_remove", n, l)
               \/ \E l \in new.labels \ old.labels : R[i] = Record("label_add", n, l)
               \/ R[i] = p /\ new.prop # old.prop
    <2>1. Has(R, R[i])
      BY DEF Has
    <2> QED BY <1>2, <1>3, <1>4, <1>5, <2>1
  <1>7. \A i \in DOMAIN R : R[i].id = n /\ R[i].op \in {"property", "label_add", "label_remove"}
    BY <1>6, RecordFields
  <1>8. \A i \in DOMAIN R : ~Inserts(NodeOps, R[i], n) /\ ~Deletes(NodeOps, R[i], n)
    BY <1>7 DEF Inserts, Deletes, NodeOps
  <1>9. ChangesTo(NodeOps, R, 0, n, old, new)
    <2>0. \A i : i \in After(R, 0) <=> i \in DOMAIN R
      BY <1>5 DEF After
    <2>1. ASSUME NEW a \in Attributes, NEW i \in DOMAIN R, Touches(NodeOps, R[i], n, a)
          PROVE  Value(new, a) = Given(NodeOps, R[i], a)
      <3>1. CASE \E l \in old.labels \ new.labels : R[i] = Record("label_remove", n, l)
        <4>1. PICK l \in old.labels \ new.labels : R[i] = Record("label_remove", n, l)
          BY <3>1
        <4>2. R[i].op = "label_remove" /\ R[i].arg = l
          BY <4>1, RecordFields
        <4> QED BY <2>1, <4>2 DEF Touches, Value, Given, NodeOps
      <3>2. CASE \E l \in new.labels \ old.labels : R[i] = Record("label_add", n, l)
        <4>1. PICK l \in new.labels \ old.labels : R[i] = Record("label_add", n, l)
          BY <3>2
        <4>2. R[i].op = "label_add" /\ R[i].arg = l
          BY <4>1, RecordFields
        <4> QED BY <2>1, <4>2 DEF Touches, Value, Given, NodeOps
      <3>3. CASE R[i] = p
        <4>1. R[i].op = "property" /\ R[i].arg = new.prop
          BY <3>3, RecordFields
        <4> QED BY <2>1, <4>1 DEF Touches, Value, Given, NodeOps
      <3> QED BY <1>6, <3>1, <3>2, <3>3
    <2>2. ASSUME NEW a \in Attributes, \A i \in DOMAIN R : ~Touches(NodeOps, R[i], n, a)
          PROVE  Value(new, a) = Value(old, a)
      <3>1. CASE \E l \in Labels : a = <<"label", l>>
        <4>1. PICK l \in Labels : a = <<"label", l>>
          BY <3>1
        <4>2. ASSUME l \in old.labels \ new.labels PROVE FALSE
          <5>1. Has(R, Record("label_remove", n, l))
            BY <1>2, <1>5, <4>2
          <5>2. PICK i \in DOMAIN R : R[i] = Record("label_remove", n, l)
            BY <5>1 DEF Has
          <5>3. R[i].id = n /\ R[i].op = "label_remove" /\ R[i].arg = l
            BY <5>2, RecordFields
          <5> QED BY <2>2, <4>1, <5>3 DEF Touches, NodeOps
        <4>3. ASSUME l \in new.labels \ old.labels PROVE FALSE
          <5>1. Has(R, Record("label_add", n, l))
            BY <1>3, <1>5, <4>3
          <5>2. PICK i \in DOMAIN R : R[i] = Record("label_add", n, l)
            BY <5>1 DEF Has
          <5>3. R[i].id = n /\ R[i].op = "label_add" /\ R[i].arg = l
            BY <5>2, RecordFields
          <5> QED BY <2>2, <4>1, <5>3 DEF Touches, NodeOps
        <4> QED BY <4>1, <4>2, <4>3 DEF Value
      <3>2. CASE a = <<"property", Absent>>
        <4>1. ASSUME new.prop # old.prop PROVE FALSE
          <5>1. Has(R, p)
            BY <1>4, <1>5, <4>1
          <5>2. PICK i \in DOMAIN R : R[i] = p
            BY <5>1 DEF Has
          <5>3. R[i].id = n /\ R[i].op = "property"
            BY <5>2, RecordFields
          <5> QED BY <2>2, <3>2, <5>3 DEF Touches, NodeOps
        <4> QED BY <3>2, <4>1 DEF Value
      <3> QED BY <3>1, <3>2 DEF Attributes
    <2> QED BY <1>0, <2>0, <2>1, <2>2, ChangesAgree
  <1>10. Carries(NodeOps, R, n, old, new)
    BY <1>0, <1>8, <1>9 DEF Carries
  <1> QED BY <1>5, <1>7, <1>10 DEF R, A, B, C

LEMMA NodeRecordsAre ==
    ASSUME NEW n \in Nodes, NEW old \in Cells, NEW new \in Cells, new # old
    PROVE  /\ NodeRecords(n, old, new) \in Seq(Records)
           /\ \A i \in DOMAIN NodeRecords(n, old, new) :
                /\ NodeRecords(n, old, new)[i].id = n
                /\ NodeRecords(n, old, new)[i].op \in NodeOpNames
                /\ NodeRecords(n, old, new)[i].op = "node_insert" =>
                     i = 1 /\ old = Absent /\ new # Absent /\ NodeRecords(n, old, new)[i].arg = new.labels
           /\ new # Absent /\ old = Absent => 
                /\ 1 \in DOMAIN NodeRecords(n, old, new)
                /\ NodeRecords(n, old, new)[1] = Record("node_insert", n, new.labels)
           /\ Carries(NodeOps, NodeRecords(n, old, new), n, old, new)
  <1> DEFINE R == NodeRecords(n, old, new)
  <1>0. /\ NodeOps \in Kinds /\ NodeOps.insert = "node_insert" /\ NodeOps.delete = "node_delete"
        /\ NodeOps.property = "property"
    BY DEF Kinds, NodeOps
  <1>1. CASE new = Absent
    <2> DEFINE a == Record("node_delete", n, Absent)
    <2>1. R = <<a>>
      BY <1>1 DEF NodeRecords
    <2>2. a \in Records
      BY RecordTypes
    <2> HIDE DEF a, R
    <2>3. Deletes(NodeOps, a, n) /\ a.op = "node_delete"
      BY <1>0, RecordFields DEF Deletes, a
    <2>4. /\ R \in Seq(Records) /\ DOMAIN R = {1} /\ R[1] = a /\ a.id = n /\ a.op = "node_delete"
          /\ Carries(NodeOps, R, n, old, Absent)
      <3>1. /\ <<a>> \in Seq(Records) /\ DOMAIN <<a>> = {1} /\ <<a>>[1] = a
            /\ a.id = n
            /\ Carries(NodeOps, <<a>>, n, old, Absent)
        BY <1>0, <2>2, <2>3, DeletionCarries
      <3> QED BY <2>1, <2>3, <3>1
    <2>5. "node_delete" \in NodeOpNames
      BY DEF NodeOpNames
    <2>6. \A i \in DOMAIN R : R[i].id = n /\ R[i].op = "node_delete"
      BY <2>4
    <2> QED BY <1>1, <2>4, <2>5, <2>6 DEF R
  <1>2. CASE new # Absent /\ old = Absent
    <2> DEFINE a == Record("node_insert", n, new.labels)
               b == Record("property", n, new.prop)
    <2>0. new \in NodeStates /\ new.labels \in SUBSET Labels /\ new.prop \in Props
      BY <1>2, CellsOf DEF Cells
    <2>1. R = <<a>> \o (IF new.prop = Absent THEN <<>> ELSE <<b>>)
      BY <1>2 DEF NodeRecords
    <2>2. /\ a \in Records /\ b \in Records /\ a.op = "node_insert" /\ a.arg = new.labels
          /\ b.id = n /\ b.op = "property" /\ b.arg = new.prop /\ a.id = n
      BY <2>0, RecordTypes, RecordFields
    <2>3. NewCell(a).labels = new.labels
      BY <2>2 DEF NewCell
    <2>a. a = Record("node_insert", n, new.labels)
      OBVIOUS
    <2> HIDE DEF a, b, R
    <2>4. R = IF new.prop = Absent THEN <<a>> ELSE <<a, b>>
      <3>0. a \in Records /\ b \in Records
        BY <2>2
      <3>1. <<a>> \o <<>> = <<a>>
        BY <3>0, OneRecord
      <3>2. <<a>> \o <<b>> = <<a, b>>
        BY <3>0, TwoRecords
      <3> QED BY <2>1, <3>1, <3>2
    <2>b. Inserts(NodeOps, a, n)
      BY <1>0, <2>2 DEF Inserts
    <2>5. /\ R \in Seq(Records)
          /\ \A i \in DOMAIN R : R[i].id = n /\ R[i].op \in {NodeOps.insert, NodeOps.property}
          /\ \A i \in DOMAIN R : Inserts(NodeOps, R[i], n) => i = 1
          /\ R # <<>> /\ R[1] = a /\ 1 \in DOMAIN R
          /\ Carries(NodeOps, R, n, Absent, new)
      BY <1>0, <2>0, <2>2, <2>3, <2>4, <2>b, InsertionCarries
    <2>6. \A i \in DOMAIN R :
            /\ R[i].id = n /\ R[i].op \in NodeOpNames
            /\ R[i].op = "node_insert" => i = 1 /\ R[i].arg = new.labels
      BY <1>0, <2>2, <2>5 DEF Inserts, NodeOpNames
    <2> QED BY <1>2, <2>5, <2>6, <2>a DEF R
  <1>3. CASE new # Absent /\ old # Absent
    <2>0. old \in NodeStates /\ new \in NodeStates
      BY <1>3 DEF Cells
    <2>1. R = LabelRecords("label_remove", n, Gone(old, new))
                \o LabelRecords("label_add", n, Fresh(old, new))
                \o (IF new.prop = old.prop THEN <<>> ELSE <<Record("property", n, new.prop)>>)
      BY <1>3 DEF NodeRecords, LabelRecords
    <2> HIDE DEF R
    <2>2. /\ R \in Seq(Records)
          /\ \A i \in DOMAIN R : R[i].id = n /\ R[i].op \in {"property", "label_add", "label_remove"}
          /\ Carries(NodeOps, R, n, old, new)
      BY <2>0, <2>1, ChangedNode
    <2>3. \A i \in DOMAIN R : R[i].op \in NodeOpNames /\ R[i].op # "node_insert"
      BY <2>2 DEF NodeOpNames
    <2> QED BY <1>3, <2>2, <2>3 DEF R
  <1> QED BY <1>1, <1>2, <1>3
-----------------------------------------------------------------------------
(* The types.                                                              *)

LEMMA GreatestExists ==
    ASSUME NEW N \in Nat, NEW S, S \subseteq 0..N, S # {}
    PROVE  \E x \in S : \A y \in S : y <= x
  <1> DEFINE D == {N - x : x \in S}
  <1>1. D \subseteq Nat /\ D # {}
    <2>1. \A x \in S : N - x \in Nat
      OBVIOUS
    <2>2. PICK x \in S : TRUE
      OBVIOUS
    <2> QED BY <2>1, <2>2
  <1> HIDE DEF D
  <1>2. PICK d \in D : \A y \in D : d <= y
    BY <1>1, LeastExists
  <1>3. PICK x \in S : d = N - x
    BY DEF D
  <1>4. \A y \in S : N - y \in D
    BY DEF D
  <1>5. ASSUME NEW y \in S PROVE y <= x
    <2>1. N - x <= N - y
      BY <1>2, <1>3, <1>4
    <2> QED BY <2>1
  <1> QED BY <1>5

LEMMA MaxIs ==
    ASSUME NEW N \in Nat, NEW S, S \subseteq 0..N, S # {}
    PROVE  Max(S) \in S /\ \A y \in S : y <= Max(S)
  <1>1. \E x \in S : \A y \in S : x >= y
    <2>1. PICK x \in S : \A y \in S : y <= x
      BY GreatestExists
    <2>2. \A y \in S : x >= y
      BY <2>1
    <2> QED BY <2>2
  <1>2. Max(S) \in S /\ \A y \in S : Max(S) >= y
    BY <1>1 DEF Max
  <1> QED BY <1>2

LEMMA TypesHold ==
    ASSUME TInv
    PROVE  TypeOK
  BY DEF TInv, TypeOK, Trees, Cells

LEMMA IndexEntriesType ==
    ASSUME NEW n \in Nodes, NEW s \in Cells
    PROVE  IndexEntries(n, s) \in SUBSET (Labels \X Values \X Nodes)
  <1>1. CASE s = Absent \/ s.prop = Absent
    BY <1>1 DEF IndexEntries
  <1>2. CASE ~(s = Absent \/ s.prop = Absent)
    <2>1. s.labels \subseteq Labels /\ s.prop \in Values
      BY <1>2, CellsOf DEF Cells, Props
    <2> QED BY <1>2, <2>1 DEF IndexEntries
  <1> QED BY <1>1, <1>2

LEMMA LabelSets ==
    ASSUME NEW old \in Cells, NEW new \in Cells
    PROVE  Gone(old, new) \in SUBSET Labels /\ Fresh(old, new) \in SUBSET Labels
  BY CellsOf DEF Cells, Gone, Fresh

LEMMA ApplyNodeIs ==
    ASSUME mem \in Trees, NEW n \in Nodes, NEW new \in Cells
    PROVE  LET t == applyNodeState(n, new)
               old == mem.nodes[n]
           IN  /\ t \in Trees
               /\ t.nodes = [mem.nodes EXCEPT ![n] = new]
               /\ t.by_label = (mem.by_label \ Entries(Gone(old, new), n)) \cup Entries(Fresh(old, new), n)
               /\ t.by_prop = (mem.by_prop \ IndexEntries(n, old)) \cup IndexEntries(n, new)
               /\ t.edges = mem.edges /\ t.adj = mem.adj /\ t.edge_meta = mem.edge_meta
  <1> DEFINE old == mem.nodes[n]
             N == [mem.nodes EXCEPT ![n] = new]
             B == (mem.by_label \ Entries(Gone(old, new), n)) \cup Entries(Fresh(old, new), n)
             P == (mem.by_prop \ IndexEntries(n, old)) \cup IndexEntries(n, new)
             t == applyNodeState(n, new)
  <1>1. mem.nodes \in [Nodes -> Cells] /\ old \in Cells
    BY DEF Trees
  <1>2. N \in [Nodes -> Cells]
    BY <1>1
  <1>3. B \in SUBSET (Labels \X Nodes)
    <2>1. Fresh(old, new) \in SUBSET Labels
      BY <1>1, LabelSets
    <2>2. Entries(Fresh(old, new), n) \in SUBSET (Labels \X Nodes)
      BY <2>1 DEF Entries
    <2> QED BY <2>2 DEF Trees
  <1>4. P \in SUBSET (Labels \X Values \X Nodes)
    BY IndexEntriesType DEF Trees
  <1>5. t = [mem EXCEPT !.nodes = N, !.by_label = B, !.by_prop = P]
    BY DEF applyNodeState
  <1> HIDE DEF N, B, P, t
  <1>6. /\ t \in Trees /\ t.nodes = N /\ t.by_label = B /\ t.by_prop = P
        /\ t.edges = mem.edges /\ t.adj = mem.adj /\ t.edge_meta = mem.edge_meta
    BY <1>2, <1>3, <1>4, <1>5 DEF Trees
  <1> QED BY <1>6 DEF N, B, P, t

LEMMA MetaUpdate ==
    ASSUME NEW t \in Trees, NEW m
    PROVE  /\ m \in 1..(MaxEdge + 1) => [t EXCEPT !.edge_meta = m] \in Trees
           /\ [t EXCEPT !.edge_meta = m].nodes = t.nodes
           /\ [t EXCEPT !.edge_meta = m].by_label = t.by_label
           /\ [t EXCEPT !.edge_meta = m].by_prop = t.by_prop
           /\ [t EXCEPT !.edge_meta = m].edges = t.edges
           /\ [t EXCEPT !.edge_meta = m].adj = t.adj
           /\ [t EXCEPT !.edge_meta = m].edge_meta = m
  BY DEF Trees

LEMMA WrittenIs ==
    ASSUME mem \in Trees, disk \in Trees, NEW tree \in {"nodes", "by_label", "edges", "adj"}
    PROVE  /\ Written(tree) \in Trees
           /\ Written(tree).nodes \in {mem.nodes, disk.nodes}
  <1>1. CASE tree = "nodes"
    <2>1. Written(tree) = [disk EXCEPT !.nodes = mem.nodes]
      BY <1>1 DEF Written
    <2> QED BY <2>1 DEF Trees
  <1>2. CASE tree = "by_label"
    <2>1. Written(tree) = [disk EXCEPT !.by_label = mem.by_label]
      BY <1>2 DEF Written
    <2> QED BY <2>1 DEF Trees
  <1>3. CASE tree = "edges"
    <2>1. Written(tree) = [disk EXCEPT !.edges = mem.edges, !.edge_meta = mem.edge_meta]
      BY <1>3 DEF Written
    <2> QED BY <2>1 DEF Trees
  <1>4. CASE tree = "adj"
    <2>1. Written(tree) = [disk EXCEPT !.adj = mem.adj]
      BY <1>4 DEF Written
    <2> QED BY <2>1 DEF Trees
  <1> QED BY <1>1, <1>2, <1>3, <1>4

LEMMA RebuiltIs ==
    ASSUME NEW t \in Trees
    PROVE  LET u == rebuildPropertyIndexes(t)
           IN  /\ u \in Trees
               /\ u.nodes = t.nodes /\ u.by_label = t.by_label
               /\ u.edges = t.edges /\ u.adj = t.adj /\ u.edge_meta = t.edge_meta
               /\ u.by_prop = {<<e[1], t.nodes[e[2]].prop, e[2]>> :
                    e \in {x \in t.by_label : t.nodes[x[2]] # Absent /\ t.nodes[x[2]].prop # Absent}}
  <1> DEFINE P == {<<e[1], t.nodes[e[2]].prop, e[2]>> :
                    e \in {x \in t.by_label : t.nodes[x[2]] # Absent /\ t.nodes[x[2]].prop # Absent}}
             u == rebuildPropertyIndexes(t)
  <1>1. P \subseteq Labels \X Values \X Nodes
    <2>1. ASSUME NEW e \in t.by_label, t.nodes[e[2]] # Absent, t.nodes[e[2]].prop # Absent
          PROVE  <<e[1], t.nodes[e[2]].prop, e[2]>> \in Labels \X Values \X Nodes
      <3>1. e[1] \in Labels /\ e[2] \in Nodes
        BY DEF Trees
      <3>2. t.nodes[e[2]] \in NodeStates
        BY <2>1, <3>1 DEF Trees, Cells
      <3>3. t.nodes[e[2]].prop \in Values
        BY <2>1, <3>2, CellsOf DEF Props
      <3> QED BY <3>1, <3>3
    <2> QED BY <2>1
  <1>2. u = [t EXCEPT !.by_prop = P]
    BY DEF rebuildPropertyIndexes
  <1> HIDE DEF P, u
  <1>3. /\ u \in Trees /\ u.nodes = t.nodes /\ u.by_label = t.by_label
        /\ u.edges = t.edges /\ u.adj = t.adj /\ u.edge_meta = t.edge_meta /\ u.by_prop = P
    BY <1>1, <1>2 DEF Trees
  <1> QED BY <1>3 DEF P, u

LEMMA EmptyTreesType == EmptyTrees \in Trees
  <1>1. [n \in Nodes |-> Absent] \in [Nodes -> Cells]
    BY DEF Cells
  <1>2. [e \in Edges |-> Absent] \in [Edges -> EdgeStates \cup {Absent}]
    OBVIOUS
  <1>3. 1 \in 1..(MaxEdge + 1)
    BY Numbers
  <1> QED BY <1>1, <1>2, <1>3 DEF EmptyTrees, Trees

(* Edge records of the four edge commits, which leave nodes alone.         *)
LEMMA EdgeCommit ==
    ASSUME TInv, NEW R \in Seq(Records), log' = log \o R
    PROVE  log' \in Seq(Records) /\ Len(log) \in Nat /\ 0 \in 0..Len(log')
  <1>1. log \in Seq(Records)
    BY DEF TInv
  <1>2. log' \in Seq(Records) /\ Len(log) \in Nat /\ Len(log') \in Nat
    BY <1>1, Concat
  <1> QED BY <1>2

LEMMA TypesStart == Init => TInv
  <1> SUFFICES ASSUME Init PROVE TInv
    OBVIOUS
  <1>0. /\ status = "open" /\ mem = EmptyTrees /\ disk = EmptyTrees /\ next_node = 1 /\ next_edge = 1
        /\ log = <<>> /\ applied = 0 /\ evicted = FALSE /\ mixed = FALSE /\ used = 0
        /\ committed = [nodes |-> EmptyTrees.nodes, edges |-> EmptyTrees.edges]
    BY DEF Init
  <1>1. <<>> \in Seq(Records) /\ 0 \in 0..Len(<<>>)
    OBVIOUS
  <1>2. EmptyTrees.nodes \in [Nodes -> Cells] /\ EmptyTrees.edges \in [Edges -> EdgeStates \cup {Absent}]
    BY EmptyTreesType DEF Trees
  <1>3. committed \in [nodes : [Nodes -> Cells], edges : [Edges -> EdgeStates \cup {Absent}]]
    BY <1>0, <1>2
  <1>4. 1 \in 1..(MaxNode + 1) /\ 1 \in 1..(MaxEdge + 1) /\ 0 \in 0..MaxEdge
    BY Numbers
  <1> QED BY <1>0, <1>1, <1>3, <1>4, EmptyTreesType DEF TInv

LEMMA TypesStep == TInv /\ [Next]_vars => TInv'
  <1> SUFFICES ASSUME TInv, [Next]_vars PROVE TInv'
    OBVIOUS
  <1>0. /\ MaxNode \in Nat /\ MaxEdge \in Nat /\ Nodes \subseteq Nat /\ Edges \subseteq Nat
        /\ log \in Seq(Records) /\ Len(log) \in Nat
    <2>1. log \in Seq(Records)
      BY DEF TInv
    <2> QED BY <2>1, Numbers DEF Nodes, Edges
  <1>1. CASE UNCHANGED vars
    BY <1>1 DEF TInv, vars
  <1>2. ASSUME NEW n \in Nodes, NEW new \in Cells, commitNode(n, new) PROVE TInv'
    <2> DEFINE old == mem.nodes[n]
    <2>1. old \in Cells /\ new # old
      BY <1>2 DEF TInv, Trees, commitNode
    <2>2. mem' \in Trees
      <3>1. mem' = applyNodeState(n, new)
        BY <1>2 DEF commitNode
      <3> QED BY <3>1, ApplyNodeIs DEF TInv
    <2>3. NodeRecords(n, old, new) \in Seq(Records) /\ log' = log \o NodeRecords(n, old, new)
      BY <1>2, <2>1, NodeRecordsAre DEF commitNode
    <2>4. log' \in Seq(Records) /\ 0 \in 0..Len(log')
      BY <2>3, EdgeCommit
    <2>5. committed' \in [nodes : [Nodes -> Cells], edges : [Edges -> EdgeStates \cup {Absent}]]
      <3>1. committed' = [committed EXCEPT !.nodes[n] = new]
        BY <1>2 DEF commitNode
      <3> QED BY <3>1 DEF TInv
    <2>6. next_node' \in 1..(MaxNode + 1)
      <3>1. next_node' = IF n = next_node THEN n + 1 ELSE next_node
        BY <1>2 DEF commitNode
      <3> QED BY <1>0, <3>1 DEF TInv, Nodes
    <2>7. status = "open" /\ applied = 0
      BY <1>2 DEF commitNode, Open, TInv
    <2>8. UNCHANGED <<status, disk, next_edge, evicted, mixed, used, applied>>
      BY <1>2 DEF commitNode
    <2> QED BY <2>2, <2>4, <2>5, <2>6, <2>7, <2>8 DEF TInv
  <1>3. ASSUME NEW prop \in Props, commitCreateEdge(prop) PROVE TInv'
    <2>0. /\ next_edge \in Edges /\ next_edge' = next_edge + 1 /\ next_edge' \in 1..(MaxEdge + 1)
          /\ status = "open" /\ applied = 0
      BY <1>0, <1>3 DEF commitCreateEdge, Open, TInv, Edges
    <2>1. mem' \in Trees
      <3>1. mem' = [createWithId(mem, next_edge, prop) EXCEPT !.edge_meta = next_edge']
        BY <1>3 DEF commitCreateEdge, EdgeApplied
      <3>2. createWithId(mem, next_edge, prop) \in Trees
        BY <2>0, CreateType DEF TInv
      <3> QED BY <2>0, <3>1, <3>2, MetaUpdate
    <2>2. PICK R \in Seq(Records) : log' = log \o R
      <3> DEFINE a == Record("edge_insert", next_edge, Absent)
                 b == Record("edge_property", next_edge, prop)
      <3>1. log' = log \o (IF prop = Absent THEN <<a>> ELSE <<a, b>>)
        BY <1>3 DEF commitCreateEdge
      <3>2. a \in Records /\ b \in Records
        BY <2>0, RecordTypes
      <3> HIDE DEF a, b
      <3>3. (IF prop = Absent THEN <<a>> ELSE <<a, b>>) \in Seq(Records)
        BY <3>2
      <3> QED BY <3>1, <3>3
    <2>3. log' \in Seq(Records) /\ 0 \in 0..Len(log')
      BY <2>2, EdgeCommit
    <2>4. committed' \in [nodes : [Nodes -> Cells], edges : [Edges -> EdgeStates \cup {Absent}]]
      <3>1. committed' = [committed EXCEPT !.edges[next_edge] = [prop |-> prop]]
        BY <1>3 DEF commitCreateEdge
      <3>2. [prop |-> prop] \in EdgeStates
        BY DEF EdgeStates
      <3> QED BY <2>0, <3>1, <3>2 DEF TInv
    <2>5. used' \in 0..MaxEdge
      <3>1. used' = Max({used, next_edge})
        BY <1>3 DEF commitCreateEdge
      <3>2. {used, next_edge} \subseteq 0..MaxEdge
        BY <1>0, <2>0 DEF TInv, Edges
      <3>3. used' \in {used, next_edge}
        BY <1>0, <3>1, <3>2, MaxIs
      <3> QED BY <3>2, <3>3
    <2>6. UNCHANGED <<status, disk, next_node, evicted, mixed, applied>>
      BY <1>3 DEF commitCreateEdge
    <2> QED BY <2>0, <2>1, <2>3, <2>4, <2>5, <2>6 DEF TInv
  <1>4. ASSUME NEW e \in Edges, NEW prop \in Props, commitEdgeProperty(e, prop) PROVE TInv'
    <2>0. status = "open" /\ applied = 0 /\ next_edge' = next_edge /\ next_edge \in 1..(MaxEdge + 1)
      BY <1>4 DEF commitEdgeProperty, Open, TInv
    <2>1. mem' \in Trees
      <3>1. mem' = [createWithId(deleteById(mem, e), e, prop) EXCEPT !.edge_meta = next_edge']
        BY <1>4 DEF commitEdgeProperty, EdgeApplied
      <3>2. deleteById(mem, e) \in Trees
        BY DeleteType DEF TInv
      <3>3. createWithId(deleteById(mem, e), e, prop) \in Trees
        BY <3>2, CreateType
      <3> QED BY <2>0, <3>1, <3>3, MetaUpdate
    <2>2. log' \in Seq(Records) /\ 0 \in 0..Len(log')
      <3>1. log' = log \o <<Record("edge_property", e, prop)>>
        BY <1>4 DEF commitEdgeProperty
      <3>2. <<Record("edge_property", e, prop)>> \in Seq(Records)
        BY RecordTypes
      <3> QED BY <3>1, <3>2, EdgeCommit
    <2>3. committed' \in [nodes : [Nodes -> Cells], edges : [Edges -> EdgeStates \cup {Absent}]]
      <3>1. committed' = [committed EXCEPT !.edges[e] = [prop |-> prop]]
        BY <1>4 DEF commitEdgeProperty
      <3>2. [prop |-> prop] \in EdgeStates
        BY DEF EdgeStates
      <3> QED BY <3>1, <3>2 DEF TInv
    <2>4. UNCHANGED <<status, disk, next_node, evicted, mixed, used, applied>>
      BY <1>4 DEF commitEdgeProperty
    <2> QED BY <2>0, <2>1, <2>2, <2>3, <2>4 DEF TInv
  <1>5. ASSUME NEW e \in Edges, commitDeleteEdge(e) PROVE TInv'
    <2>0. status = "open" /\ applied = 0 /\ next_edge' = next_edge /\ next_edge \in 1..(MaxEdge + 1)
      BY <1>5 DEF commitDeleteEdge, Open, TInv
    <2>1. mem' \in Trees
      <3>1. mem' = [deleteById(mem, e) EXCEPT !.edge_meta = next_edge']
        BY <1>5 DEF commitDeleteEdge, EdgeApplied
      <3>2. deleteById(mem, e) \in Trees
        BY DeleteType DEF TInv
      <3> QED BY <2>0, <3>1, <3>2, MetaUpdate
    <2>2. log' \in Seq(Records) /\ 0 \in 0..Len(log')
      <3>1. log' = log \o <<Record("edge_delete", e, Absent)>>
        BY <1>5 DEF commitDeleteEdge
      <3>2. <<Record("edge_delete", e, Absent)>> \in Seq(Records)
        BY RecordTypes
      <3> QED BY <3>1, <3>2, EdgeCommit
    <2>3. committed' \in [nodes : [Nodes -> Cells], edges : [Edges -> EdgeStates \cup {Absent}]]
      <3>1. committed' = [committed EXCEPT !.edges[e] = Absent]
        BY <1>5 DEF commitDeleteEdge
      <3> QED BY <3>1 DEF TInv
    <2>4. UNCHANGED <<status, disk, next_node, evicted, mixed, used, applied>>
      BY <1>5 DEF commitDeleteEdge
    <2> QED BY <2>0, <2>1, <2>2, <2>3, <2>4 DEF TInv
  <1>6. CASE commitCreateDeleteEdge
    <2>0. /\ next_edge \in Edges /\ next_edge' = next_edge + 1 /\ next_edge' \in 1..(MaxEdge + 1)
          /\ status = "open" /\ applied = 0
      BY <1>0, <1>6 DEF commitCreateDeleteEdge, Open, TInv, Edges
    <2>1. mem' \in Trees
      <3>1. mem' = [mem EXCEPT !.edge_meta = next_edge']
        BY <1>6 DEF commitCreateDeleteEdge, EdgeApplied
      <3> QED BY <2>0, <3>1, MetaUpdate DEF TInv
    <2>2. log' \in Seq(Records) /\ 0 \in 0..Len(log')
      <3> DEFINE a == Record("edge_insert", next_edge, Absent)
                 b == Record("edge_delete", next_edge, Absent)
      <3>1. log' = log \o <<a, b>>
        BY <1>6 DEF commitCreateDeleteEdge
      <3>2. a \in Records /\ b \in Records
        BY <2>0, RecordTypes
      <3> HIDE DEF a, b
      <3>3. <<a, b>> \in Seq(Records)
        BY <3>2, TwoRecords
      <3> QED BY <3>1, <3>3, EdgeCommit
    <2>5. used' \in 0..MaxEdge
      <3>1. used' = Max({used, next_edge})
        BY <1>6 DEF commitCreateDeleteEdge
      <3>2. {used, next_edge} \subseteq 0..MaxEdge
        BY <1>0, <2>0 DEF TInv, Edges
      <3>3. used' \in {used, next_edge}
        BY <1>0, <3>1, <3>2, MaxIs
      <3> QED BY <3>2, <3>3
    <2>6. UNCHANGED <<status, disk, next_node, evicted, committed, mixed, applied>>
      BY <1>6 DEF commitCreateDeleteEdge
    <2> QED BY <2>0, <2>1, <2>2, <2>5, <2>6 DEF TInv
  <1>7. CASE rollbackCreateEdge
    <2>1. next_edge' \in 1..(MaxEdge + 1)
      BY <1>0, <1>7 DEF rollbackCreateEdge, Edges
    <2> QED BY <1>7, <2>1 DEF rollbackCreateEdge, TInv
  <1>8. ASSUME NEW tree \in {"nodes", "by_label", "edges", "adj"}, evict(tree) PROVE TInv'
    <2>1. disk' \in Trees
      BY <1>8, WrittenIs DEF TInv, evict
    <2> QED BY <1>8, <2>1 DEF evict, TInv
  <1>9. CASE flushAll
    BY <1>9 DEF flushAll, TInv
  <1>10. CASE checkpoint
    <2>1. log' \in Seq(Records) /\ applied' \in 0..Len(log')
      BY <1>10 DEF checkpoint, TInv
    <2> QED BY <1>10, <2>1 DEF checkpoint, TInv
  <1>11. CASE kill
    <2>1. 1 \in 1..(MaxNode + 1) /\ 1 \in 1..(MaxEdge + 1) /\ 0 \in 0..Len(log)
      BY <1>0
    <2> QED BY <1>11, <2>1, EmptyTreesType DEF kill, TInv
  <1>12. CASE open
    <2>1. next_node' \in 1..(MaxNode + 1)
      <3> DEFINE S == {0} \cup {n \in Nodes : disk.nodes[n] # Absent}
      <3>1. next_node' = 1 + Max(S)
        BY <1>12 DEF open
      <3>2. S \subseteq 0..MaxNode /\ S # {}
        BY <1>0 DEF Nodes
      <3> HIDE DEF S
      <3>3. Max(S) \in 0..MaxNode
        BY <1>0, <3>2, MaxIs
      <3> QED BY <1>0, <3>1, <3>3
    <2>2. next_edge' \in 1..(MaxEdge + 1)
      BY <1>12 DEF open, TInv, Trees
    <2> QED BY <1>12, <2>1, <2>2 DEF open, TInv
  <1>13. CASE redoPass
    <2> DEFINE r == log[applied + 1]
    <2>1. status = "recovering" /\ applied \in Nat /\ applied < Len(log) /\ r \in Records
      BY <1>0, <1>13 DEF redoPass, TInv
    <2>2. mem' \in Trees
      BY <1>13, <2>1, RedoType DEF redoPass, TInv
    <2>3. next_node' \in 1..(MaxNode + 1)
      <3>1. next_node' = IF r.op = "node_insert" /\ r.id >= next_node THEN r.id + 1 ELSE next_node
        BY <1>13 DEF redoPass
      <3>2. r.op = "node_insert" => r.id \in 1..MaxNode
        BY <2>1, RecordIs DEF Nodes
      <3> HIDE DEF r
      <3> QED BY <1>0, <3>1, <3>2 DEF TInv
    <2>4. next_edge' \in 1..(MaxEdge + 1)
      BY <1>13, <2>2 DEF redoPass, Trees
    <2>5. applied' = applied + 1 /\ applied' \in 0..Len(log)
      BY <1>0, <1>13, <2>1 DEF redoPass
    <2>6. UNCHANGED <<status, disk, log, evicted, committed, mixed, used>>
      BY <1>13 DEF redoPass
    <2> QED BY <2>1, <2>2, <2>3, <2>4, <2>5, <2>6 DEF TInv
  <1>14. CASE resume
    <2>1. mem' \in Trees
      BY <1>14, RebuiltIs DEF resume, TInv
    <2>2. 0 \in 0..Len(log)
      BY <1>0
    <2> QED BY <1>14, <2>1, <2>2 DEF resume, TInv
  <1>15. NodeStates \cup {Absent} = Cells
    BY DEF Cells
  <1> QED BY <1>1, <1>2, <1>3, <1>4, <1>5, <1>6, <1>7, <1>8, <1>9, <1>10, <1>11, <1>12, <1>13, <1>14, <1>15
          DEF Next, Commit
-----------------------------------------------------------------------------
(* The node store.                                                         *)

LEMMA EmptyLog ==
    ASSUME NEW K \in Kinds, NEW n, NEW f
    PROVE  LogOf(K, <<>>, n, f)
  <1>1. After(<<>>, 0) = {} /\ DOMAIN <<>> = {}
    BY DEF After
  <1>2. InsertFirst(K, <<>>, n) /\ Ended(K, <<>>, n)
    BY <1>1 DEF InsertFirst, Ended
  <1>3. Gives(K, <<>>, 0, n, f, f)
    BY <1>1 DEF Gives, CreatesTo, ChangesTo
  <1> QED BY <1>2, <1>3 DEF LogOf

LEMMA NodeOpsKinds == NodeOps \in Kinds /\ EdgeOps \in Kinds
  BY DEF Kinds

(* A commit whose records carry every node to what is then committed.      *)
LEMMA CommitNodes ==
    ASSUME TInv, NodeInv, status = "open", status' = "open", disk' = disk,
           NEW R \in Seq(Records), log' = log \o R,
           \A n \in Nodes : Carries(NodeOps, R, n, committed.nodes[n], committed'.nodes[n]),
           \A n \in Nodes : mem'.nodes[n] = committed'.nodes[n]
    PROVE  NodeInv'
  <1> SUFFICES ASSUME NEW n \in Nodes
               PROVE  /\ LogOf(NodeOps, log', n, committed'.nodes[n])
                      /\ Gives(NodeOps, log', 0, n, disk'.nodes[n], committed'.nodes[n])
    BY DEF NodeInv
  <1>1. log \in Seq(Records) /\ 0 \in 0..Len(log)
    BY DEF TInv
  <1>2. /\ LogOf(NodeOps, log, n, committed.nodes[n])
        /\ Gives(NodeOps, log, 0, n, disk.nodes[n], committed.nodes[n])
        /\ Carries(NodeOps, R, n, committed.nodes[n], committed'.nodes[n])
    BY DEF NodeInv
  <1>3. LogOf(NodeOps, log \o R, n, committed'.nodes[n])
    BY <1>1, <1>2, NodeOpsKinds, LogJoined
  <1>4. Gives(NodeOps, log \o R, 0, n, disk.nodes[n], committed'.nodes[n])
    BY <1>1, <1>2, NodeOpsKinds, GivesJoined
  <1> QED BY <1>3, <1>4

(* The records of an edge say nothing of nodes.                            *)
LEMMA EdgeRecordsOfNodes ==
    ASSUME TInv, NodeInv, status = "open", status' = "open", disk' = disk,
           NEW R \in Seq(Records), log' = log \o R,
           \A i \in DOMAIN R : R[i].op \in EdgeOpNames,
           committed'.nodes = committed.nodes, mem'.nodes = mem.nodes
    PROVE  NodeInv'
  <1>1. \A n \in Nodes : \A i \in DOMAIN R : ~About(NodeOps, R[i], n)
    BY ForeignRecord
  <1>2. \A n \in Nodes : Carries(NodeOps, R, n, committed.nodes[n], committed'.nodes[n])
    BY <1>1, NodeOpsKinds, CarriesOthers
  <1>3. \A n \in Nodes : mem'.nodes[n] = committed'.nodes[n]
    BY DEF NodeInv
  <1> QED BY <1>2, <1>3, CommitNodes

(* The records of the commits on edges.                                    *)
LEMMA CreateEdgeRecords ==
    ASSUME TInv, NEW prop \in Props, commitCreateEdge(prop)
    PROVE  \E R \in Seq(Records) :
             /\ log' = log \o R
             /\ \A i \in DOMAIN R : R[i].id = next_edge /\ R[i].op \in EdgeOpNames
             /\ 1 \in DOMAIN R /\ Inserts(EdgeOps, R[1], next_edge)
             /\ Carries(EdgeOps, R, next_edge, Absent, EdgeCell([prop |-> prop]))
  <1> DEFINE a == Record("edge_insert", next_edge, Absent)
             b == Record("edge_property", next_edge, prop)
             f == EdgeCell([prop |-> prop])
  <1>0. next_edge \in Edges
    BY DEF commitCreateEdge
  <1>1. log' = log \o (IF prop = Absent THEN <<a>> ELSE <<a, b>>)
    BY DEF commitCreateEdge
  <1>2. /\ a \in Records /\ b \in Records /\ a.op = "edge_insert" /\ a.id = next_edge
        /\ b.op = "edge_property" /\ b.id = next_edge /\ b.arg = prop
    BY <1>0, RecordTypes, RecordFields
  <1>3. f = [labels |-> {}, prop |-> prop]
    BY EdgeCells
  <1>4. f \in NodeStates /\ f.labels = {} /\ f.prop = prop
    BY <1>3, CellsOf
  <1> DEFINE R == IF prop = Absent THEN <<a>> ELSE <<a, b>>
  <1> HIDE DEF a, b, f
  <1>5. R = IF f.prop = Absent THEN <<a>> ELSE <<a, b>>
    BY <1>4
  <1>6. EdgeOps.insert = "edge_insert" /\ EdgeOps.property = "edge_property"
    BY DEF EdgeOps
  <1>7. Inserts(EdgeOps, a, next_edge) /\ b.op = EdgeOps.property
    BY <1>2, <1>6 DEF Inserts
  <1>8. NewCell(a).labels = {}
    BY <1>2 DEF NewCell
  <1> HIDE DEF R
  <1>9. /\ R \in Seq(Records)
        /\ \A i \in DOMAIN R : R[i].id = next_edge /\ R[i].op \in {EdgeOps.insert, EdgeOps.property}
        /\ R[1] = a /\ 1 \in DOMAIN R
        /\ Carries(EdgeOps, R, next_edge, Absent, f)
    <2>1. /\ EdgeOps \in Kinds /\ f \in NodeStates /\ f.labels = NewCell(a).labels /\ b.arg = f.prop
          /\ a \in Records /\ b \in Records /\ b.id = next_edge /\ b.op = EdgeOps.property
          /\ Inserts(EdgeOps, a, next_edge)
      BY <1>2, <1>4, <1>7, <1>8, NodeOpsKinds
    <2> QED BY <2>1, <1>5, InsertionCarries
  <1>10. \A i \in DOMAIN R : R[i].op \in EdgeOpNames
    BY <1>6, <1>9 DEF EdgeOpNames
  <1>11. log' = log \o R
    BY <1>1 DEF R
  <1> QED BY <1>7, <1>9, <1>10, <1>11 DEF f

LEMMA EdgePropertyRecords ==
    ASSUME TInv, NEW e \in Edges, NEW prop \in Props, commitEdgeProperty(e, prop)
    PROVE  \E R \in Seq(Records) :
             /\ log' = log \o R
             /\ \A i \in DOMAIN R : R[i].id = e /\ R[i].op \in EdgeOpNames
             /\ \A s \in EdgeStates : Carries(EdgeOps, R, e, EdgeCell(s), EdgeCell([prop |-> prop]))
  <1> DEFINE a == Record("edge_property", e, prop)
             f == EdgeCell([prop |-> prop])
  <1>1. log' = log \o <<a>>
    BY DEF commitEdgeProperty
  <1>2. a \in Records /\ a.op = "edge_property" /\ a.id = e /\ a.arg = prop
    BY RecordTypes, RecordFields
  <1>3. f = [labels |-> {}, prop |-> prop]
    BY EdgeCells
  <1>4. f \in NodeStates /\ f.labels = {} /\ f.prop = prop
    BY <1>3, CellsOf
  <1> HIDE DEF a, f
  <1>5. a.op = EdgeOps.property
    BY <1>2 DEF EdgeOps
  <1>6. ASSUME NEW s \in EdgeStates PROVE Carries(EdgeOps, <<a>>, e, EdgeCell(s), f)
    <2>1. EdgeCell(s) \in NodeStates /\ EdgeCell(s).labels = {}
      BY EdgeCells, GraphStoresAssumption DEF Cells
    <2> QED BY <1>2, <1>4, <1>5, <2>1, NodeOpsKinds, PropertyCarries
  <1>7. <<a>> \in Seq(Records) /\ DOMAIN <<a>> = {1} /\ <<a>>[1] = a
    BY <1>2, OneRecord
  <1>8. \A i \in DOMAIN <<a>> : <<a>>[i].id = e /\ <<a>>[i].op \in EdgeOpNames
    BY <1>2, <1>7 DEF EdgeOpNames
  <1> QED BY <1>1, <1>6, <1>7, <1>8 DEF f

LEMMA DeleteEdgeRecords ==
    ASSUME TInv, NEW e \in Edges, commitDeleteEdge(e)
    PROVE  \E R \in Seq(Records) :
             /\ log' = log \o R
             /\ \A i \in DOMAIN R : R[i].id = e /\ R[i].op \in EdgeOpNames
             /\ \A s : Carries(EdgeOps, R, e, s, Absent)
  <1> DEFINE a == Record("edge_delete", e, Absent)
  <1>1. log' = log \o <<a>>
    BY DEF commitDeleteEdge
  <1>2. a \in Records /\ a.op = "edge_delete" /\ a.id = e
    BY RecordTypes, RecordFields
  <1> HIDE DEF a
  <1>3. Deletes(EdgeOps, a, e)
    BY <1>2 DEF Deletes, EdgeOps
  <1>4. \A s : Carries(EdgeOps, <<a>>, e, s, Absent)
    BY <1>2, <1>3, NodeOpsKinds, DeletionCarries
  <1>5. <<a>> \in Seq(Records) /\ DOMAIN <<a>> = {1} /\ <<a>>[1] = a
    BY <1>2, OneRecord
  <1>6. \A i \in DOMAIN <<a>> : <<a>>[i].id = e /\ <<a>>[i].op \in EdgeOpNames
    BY <1>2, <1>5 DEF EdgeOpNames
  <1> QED BY <1>1, <1>4, <1>5, <1>6

LEMMA CreateDeleteRecords ==
    ASSUME TInv, commitCreateDeleteEdge
    PROVE  \E R \in Seq(Records) :
             /\ log' = log \o R
             /\ \A i \in DOMAIN R : R[i].id = next_edge /\ R[i].op \in EdgeOpNames
             /\ 1 \in DOMAIN R /\ Inserts(EdgeOps, R[1], next_edge)
             /\ Carries(EdgeOps, R, next_edge, Absent, Absent)
  <1> DEFINE a == Record("edge_insert", next_edge, Absent)
             b == Record("edge_delete", next_edge, Absent)
  <1>0. next_edge \in Edges
    BY DEF commitCreateDeleteEdge
  <1>1. log' = log \o <<a, b>>
    BY DEF commitCreateDeleteEdge
  <1>2. /\ a \in Records /\ b \in Records /\ a.op = "edge_insert" /\ a.id = next_edge
        /\ b.op = "edge_delete" /\ b.id = next_edge
    BY <1>0, RecordTypes, RecordFields
  <1> HIDE DEF a, b
  <1> DEFINE R == <<a, b>>
  <1>3. R \in Seq(Records) /\ DOMAIN R = {1, 2} /\ R[1] = a /\ R[2] = b
    BY <1>2, TwoRecords
  <1>4. Inserts(EdgeOps, a, next_edge) /\ Deletes(EdgeOps, b, next_edge)
    BY <1>2 DEF Inserts, Deletes, EdgeOps
  <1>5. R = <<a, b>>
    OBVIOUS
  <1> HIDE DEF R
  <1>6. Carries(EdgeOps, R, next_edge, Absent, Absent)
    BY <1>2, <1>4, <1>5, NodeOpsKinds, CreatedDeletedCarries
  <1>7. \A i \in DOMAIN R : R[i].id = next_edge /\ R[i].op \in EdgeOpNames
    BY <1>2, <1>3 DEF EdgeOpNames
  <1>8. log' = log \o R
    BY <1>1, <1>5
  <1> QED BY <1>3, <1>4, <1>6, <1>7, <1>8

LEMMA NodesStart == Init => NodeInv
  <1> SUFFICES ASSUME Init, NEW n \in Nodes
               PROVE  /\ LogOf(NodeOps, log, n, committed.nodes[n])
                      /\ Gives(NodeOps, log, 0, n, disk.nodes[n], committed.nodes[n])
                      /\ status = "open" /\ mem.nodes[n] = committed.nodes[n]
    BY DEF NodeInv
  <1>1. /\ log = <<>> /\ status = "open" /\ committed.nodes = EmptyTrees.nodes
        /\ mem.nodes = EmptyTrees.nodes /\ disk.nodes = EmptyTrees.nodes
    BY DEF Init
  <1>2. LogOf(NodeOps, <<>>, n, committed.nodes[n])
    BY EmptyLog, NodeOpsKinds
  <1> QED BY <1>1, <1>2 DEF LogOf

LEMMA NodesStep == TInv /\ TInv' /\ NodeInv /\ [Next]_vars => NodeInv'
  <1> SUFFICES ASSUME TInv, TInv', NodeInv, [Next]_vars PROVE NodeInv'
    OBVIOUS
  <1>0. \A n \in Nodes :
          /\ mem.nodes[n] \in Cells /\ disk.nodes[n] \in Cells /\ committed.nodes[n] \in Cells
          /\ LogOf(NodeOps, log, n, committed.nodes[n])
          /\ InsertFirst(NodeOps, log, n)
          /\ Gives(NodeOps, log, 0, n, committed.nodes[n], committed.nodes[n])
    BY DEF TInv, Trees, NodeInv, LogOf
  <1>1. CASE UNCHANGED vars
    BY <1>1 DEF NodeInv, vars
  <1>2. ASSUME NEW n \in Nodes, NEW new \in Cells, commitNode(n, new) PROVE NodeInv'
    <2> DEFINE old == mem.nodes[n]
               R == NodeRecords(n, old, new)
    <2>1. /\ old \in Cells /\ new # old /\ status = "open" /\ status' = "open" /\ disk' = disk
          /\ log' = log \o R /\ mem' = applyNodeState(n, new)
          /\ committed' = [committed EXCEPT !.nodes[n] = new]
      BY <1>0, <1>2 DEF commitNode, Open
    <2>2. /\ R \in Seq(Records) /\ (\A i \in DOMAIN R : R[i].id = n)
          /\ Carries(NodeOps, R, n, old, new)
      BY <2>1, NodeRecordsAre
    <2>3. mem'.nodes = [mem.nodes EXCEPT ![n] = new]
      BY <2>1, ApplyNodeIs DEF TInv
    <2>4. committed'.nodes = [committed.nodes EXCEPT ![n] = new]
      BY <2>1 DEF TInv
    <2>5. \A m \in Nodes : mem.nodes[m] = committed.nodes[m]
      BY <2>1 DEF NodeInv
    <2> HIDE DEF R
    <2>6. \A m \in Nodes : /\ mem'.nodes[m] = IF m = n THEN new ELSE mem.nodes[m]
                           /\ committed'.nodes[m] = IF m = n THEN new ELSE committed.nodes[m]
      BY <2>3, <2>4 DEF TInv, Trees
    <2>7. ASSUME NEW m \in Nodes
          PROVE  Carries(NodeOps, R, m, committed.nodes[m], committed'.nodes[m])
      <3>1. CASE m = n
        BY <2>2, <2>5, <2>6, <3>1
      <3>2. CASE m # n
        <4>1. \A i \in DOMAIN R : ~About(NodeOps, R[i], m)
          BY <2>2, <3>2, ForeignRecord, NodeOpsKinds
        <4> QED BY <2>2, <2>6, <3>2, <4>1, CarriesOthers, NodeOpsKinds
      <3> QED BY <3>1, <3>2
    <2>8. \A m \in Nodes : mem'.nodes[m] = committed'.nodes[m]
      BY <2>5, <2>6
    <2> QED BY <2>1, <2>2, <2>7, <2>8, CommitNodes
  <1>3. ASSUME NEW prop \in Props, commitCreateEdge(prop) PROVE NodeInv'
    <2>1. PICK R \in Seq(Records) : log' = log \o R /\ \A i \in DOMAIN R : R[i].op \in EdgeOpNames
      BY <1>3, CreateEdgeRecords
    <2>2. mem' = [createWithId(mem, next_edge, prop) EXCEPT !.edge_meta = next_edge']
      BY <1>3 DEF commitCreateEdge, EdgeApplied
    <2>3. mem'.nodes = mem.nodes
      <3>1. next_edge \in Edges
        BY <1>3 DEF commitCreateEdge
      <3> QED BY <2>2, <3>1, CreateType, MetaUpdate DEF TInv
    <2>4. /\ committed'.nodes = committed.nodes
          /\ status = "open" /\ status' = "open" /\ disk' = disk
      BY <1>3 DEF commitCreateEdge, Open, TInv
    <2> QED BY <2>1, <2>3, <2>4, EdgeRecordsOfNodes
  <1>4. ASSUME NEW e \in Edges, NEW prop \in Props, commitEdgeProperty(e, prop) PROVE NodeInv'
    <2>1. PICK R \in Seq(Records) : log' = log \o R /\ \A i \in DOMAIN R : R[i].op \in EdgeOpNames
      BY <1>4, EdgePropertyRecords
    <2>2. mem' = [createWithId(deleteById(mem, e), e, prop) EXCEPT !.edge_meta = next_edge']
      BY <1>4 DEF commitEdgeProperty, EdgeApplied
    <2>3. mem'.nodes = mem.nodes
      <3>1. deleteById(mem, e) \in Trees /\ deleteById(mem, e).nodes = mem.nodes
        BY DeleteType DEF TInv
      <3>2. /\ createWithId(deleteById(mem, e), e, prop) \in Trees
            /\ createWithId(deleteById(mem, e), e, prop).nodes = mem.nodes
        BY <3>1, CreateType
      <3> QED BY <2>2, <3>2, MetaUpdate
    <2>4. /\ committed'.nodes = committed.nodes
          /\ status = "open" /\ status' = "open" /\ disk' = disk
      BY <1>4 DEF commitEdgeProperty, Open, TInv
    <2> QED BY <2>1, <2>3, <2>4, EdgeRecordsOfNodes
  <1>5. ASSUME NEW e \in Edges, commitDeleteEdge(e) PROVE NodeInv'
    <2>1. PICK R \in Seq(Records) : log' = log \o R /\ \A i \in DOMAIN R : R[i].op \in EdgeOpNames
      BY <1>5, DeleteEdgeRecords
    <2>2. mem' = [deleteById(mem, e) EXCEPT !.edge_meta = next_edge']
      BY <1>5 DEF commitDeleteEdge, EdgeApplied
    <2>3. mem'.nodes = mem.nodes
      BY <2>2, DeleteType, MetaUpdate DEF TInv
    <2>4. /\ committed'.nodes = committed.nodes
          /\ status = "open" /\ status' = "open" /\ disk' = disk
      BY <1>5 DEF commitDeleteEdge, Open, TInv
    <2> QED BY <2>1, <2>3, <2>4, EdgeRecordsOfNodes
  <1>6. CASE commitCreateDeleteEdge
    <2>1. PICK R \in Seq(Records) : log' = log \o R /\ \A i \in DOMAIN R : R[i].op \in EdgeOpNames
      BY <1>6, CreateDeleteRecords
    <2>2. mem' = [mem EXCEPT !.edge_meta = next_edge']
      BY <1>6 DEF commitCreateDeleteEdge, EdgeApplied
    <2>3. mem'.nodes = mem.nodes
      BY <2>2, MetaUpdate DEF TInv
    <2>4. /\ committed'.nodes = committed.nodes
          /\ status = "open" /\ status' = "open" /\ disk' = disk
      BY <1>6 DEF commitCreateDeleteEdge, Open
    <2> QED BY <2>1, <2>3, <2>4, EdgeRecordsOfNodes
  <1>7. CASE rollbackCreateEdge
    BY <1>7 DEF rollbackCreateEdge, NodeInv
  <1>8. ASSUME NEW tree \in {"nodes", "by_label", "edges", "adj"}, evict(tree) PROVE NodeInv'
    <2>1. disk'.nodes \in {mem.nodes, disk.nodes}
      BY <1>8, WrittenIs DEF evict, TInv
    <2>2. /\ status \in {"open", "recovering"}
          /\ UNCHANGED <<status, mem, log, applied, committed>>
      BY <1>8 DEF evict, TInv
    <2>3. \A n \in Nodes : Gives(NodeOps, log, 0, n, mem.nodes[n], committed.nodes[n])
      BY <1>0, <2>2 DEF NodeInv
    <2>4. \A n \in Nodes : Gives(NodeOps, log, 0, n, disk'.nodes[n], committed.nodes[n])
      BY <2>1, <2>3 DEF NodeInv
    <2> QED BY <2>2, <2>4 DEF NodeInv
  <1>9. CASE flushAll
    <2>1. \A n \in Nodes : Gives(NodeOps, log, 0, n, mem.nodes[n], committed.nodes[n])
      BY <1>0, <1>9 DEF NodeInv, flushAll
    <2> QED BY <1>9, <2>1 DEF NodeInv, flushAll
  <1>10. CASE checkpoint
    <2>1. \A n \in Nodes : LogOf(NodeOps, <<>>, n, committed.nodes[n])
      BY EmptyLog, NodeOpsKinds
    <2>2. \A n \in Nodes : Gives(NodeOps, <<>>, 0, n, committed.nodes[n], committed.nodes[n])
      BY <2>1 DEF LogOf
    <2>3. /\ status = "open" /\ status' = "open" /\ log' = <<>> /\ disk' = mem /\ mem' = mem
          /\ committed' = committed
      BY <1>10 DEF checkpoint
    <2>4. \A n \in Nodes : mem.nodes[n] = committed.nodes[n]
      BY <2>3 DEF NodeInv
    <2> QED BY <2>1, <2>2, <2>3, <2>4 DEF NodeInv
  <1>11. CASE kill
    <2>1. status' = "closed" /\ UNCHANGED <<disk, log, committed>>
      BY <1>11 DEF kill
    <2> QED BY <2>1 DEF NodeInv
  <1>12. CASE open
    <2>1. /\ status' = "recovering" /\ mem' = disk /\ applied' = 0
          /\ UNCHANGED <<disk, log, committed>>
      BY <1>12 DEF open, TInv
    <2> QED BY <2>1 DEF NodeInv
  <1>13. CASE redoPass
    <2> DEFINE r == log[applied + 1]
    <2>1. /\ status = "recovering" /\ applied \in Nat /\ applied < Len(log) /\ log \in Seq(Records)
          /\ mem' = Redo(mem, r) /\ applied' = applied + 1 /\ r \in Records
          /\ UNCHANGED <<status, disk, log, committed>>
      BY <1>13 DEF redoPass, TInv
    <2> HIDE DEF r
    <2>2. ASSUME NEW n \in Nodes
          PROVE  /\ Gives(NodeOps, log, 0, n, mem'.nodes[n], committed.nodes[n])
                 /\ Gives(NodeOps, log, applied + 1, n, mem'.nodes[n], committed.nodes[n])
      <3>1. mem'.nodes[n] = RedoCell(NodeOps, mem.nodes[n], log[applied + 1], n)
        BY <2>1, RedoNodesAre DEF TInv, r
      <3>2. /\ Gives(NodeOps, log, 0, n, mem.nodes[n], committed.nodes[n])
            /\ Gives(NodeOps, log, applied, n, mem.nodes[n], committed.nodes[n])
        BY <2>1 DEF NodeInv
      <3>3. Gives(NodeOps, log, 0, n, RedoCell(NodeOps, mem.nodes[n], log[applied + 1], n), committed.nodes[n])
        BY <1>0, <2>1, <3>2, GivesAgain, NodeOpsKinds
      <3>4. Gives(NodeOps, log, applied + 1, n, RedoCell(NodeOps, mem.nodes[n], log[applied + 1], n),
                  committed.nodes[n])
        BY <1>0, <2>1, <3>2, GivesStep, NodeOpsKinds
      <3> QED BY <3>1, <3>3, <3>4
    <2> QED BY <2>1, <2>2 DEF NodeInv
  <1>14. CASE resume
    <2>1. /\ status = "recovering" /\ applied = Len(log) /\ status' = "open"
          /\ UNCHANGED <<disk, log, committed>>
          /\ mem' = IF log = <<>> THEN mem ELSE rebuildPropertyIndexes(mem)
      BY <1>14 DEF resume
    <2>2. mem'.nodes = mem.nodes
      BY <2>1, RebuiltIs DEF TInv
    <2>3. ASSUME NEW n \in Nodes PROVE mem.nodes[n] = committed.nodes[n]
      <3>1. Gives(NodeOps, log, Len(log), n, mem.nodes[n], committed.nodes[n])
        BY <2>1 DEF NodeInv
      <3>2. log \in Seq(Records)
        BY DEF TInv
      <3> QED BY <1>0, <3>1, <3>2, GivesAll, NodeOpsKinds
    <2> QED BY <2>1, <2>2, <2>3 DEF NodeInv
  <1>15. NodeStates \cup {Absent} = Cells
    BY DEF Cells
  <1> QED BY <1>1, <1>2, <1>3, <1>4, <1>5, <1>6, <1>7, <1>8, <1>9, <1>10, <1>11, <1>12, <1>13, <1>14, <1>15
          DEF Next, Commit
-----------------------------------------------------------------------------
(* The edge store.                                                         *)

LEMMA MetaTrees ==
    ASSUME NEW t \in Trees, EdgeTrees(t), NEW m, \A e \in t.adj : e < m
    PROVE  EdgeTrees([t EXCEPT !.edge_meta = m])
  BY MetaUpdate DEF EdgeTrees

(* A commit whose records carry every edge to what is then committed.      *)
CommitStep(R) ==
    /\ status = "open" /\ status' = "open" /\ disk' = disk /\ mixed' = mixed /\ evicted' = evicted
    /\ log' = log \o R
    /\ ~mixed => \A e \in Edges :
         Carries(EdgeOps, R, e, EdgeCell(committed.edges[e]), EdgeCell(committed'.edges[e]))
    /\ ~mixed => EdgeTrees(mem') /\ mem'.edges = committed'.edges
    /\ ~mixed => used' < mem'.edge_meta /\ mem'.edge_meta <= next_edge'
    /\ used' = used \/ (1 \in DOMAIN R /\ Inserts(EdgeOps, R[1], used'))

LEMMA CommitEdges ==
    ASSUME TInv, EdgeInv, NEW R \in Seq(Records), CommitStep(R)
    PROVE  EdgeInv'
  <1>0. /\ status = "open" /\ status' = "open" /\ disk' = disk /\ mixed' = mixed /\ evicted' = evicted
        /\ log' = log \o R
        /\ ~mixed => \A e \in Edges :
             Carries(EdgeOps, R, e, EdgeCell(committed.edges[e]), EdgeCell(committed'.edges[e]))
        /\ ~mixed => EdgeTrees(mem') /\ mem'.edges = committed'.edges
        /\ ~mixed => used' < mem'.edge_meta /\ mem'.edge_meta <= next_edge'
        /\ used' = used \/ (1 \in DOMAIN R /\ Inserts(EdgeOps, R[1], used'))
    BY DEF CommitStep
  <1> SUFFICES ASSUME ~mixed PROVE EdgeInv'
    BY <1>0 DEF EdgeInv
  <1>1. log \in Seq(Records) /\ 0 \in 0..Len(log)
    BY DEF TInv
  <1>2. ASSUME NEW e \in Edges PROVE LogOf(EdgeOps, log', e, EdgeCell(committed'.edges[e]))
    <2>1. LogOf(EdgeOps, log, e, EdgeCell(committed.edges[e]))
      BY DEF EdgeInv
    <2> QED BY <1>0, <1>1, <2>1, NodeOpsKinds, LogJoined
  <1>3. ASSUME ~evicted PROVE EdgesGive(disk, 0)'
    <2>1. EdgesGive(disk, 0)
      BY <1>3 DEF EdgeInv
    <2>2. EdgeTrees(disk)'
      <3>1. EdgeTrees(disk)
        BY <2>1 DEF EdgesGive
      <3> QED BY <1>0, <3>1 DEF EdgeTrees
    <2>3. UsedSeen(disk, 0)'
      <3>1. CASE used' = used
        <4>1. CASE used < disk.edge_meta
          BY <1>0, <3>1, <4>1 DEF UsedSeen
        <4>2. CASE \E i \in After(log, 0) : Inserts(EdgeOps, log[i], used)
          <5>1. PICK i \in After(log, 0) : Inserts(EdgeOps, log[i], used)
            BY <4>2
          <5>2. i \in After(log', 0) /\ log'[i] = log[i]
            BY <1>0, <1>1, AfterJoined, Concat
          <5> QED BY <3>1, <5>1, <5>2 DEF UsedSeen
        <4> QED BY <2>1, <4>1, <4>2 DEF EdgesGive, UsedSeen
      <3>2. CASE 1 \in DOMAIN R /\ Inserts(EdgeOps, R[1], used')
        <4>1. Len(log) + 1 \in After(log', 0) /\ log'[Len(log) + 1] = R[1]
          BY <1>0, <1>1, <3>2, AfterJoined, Concat
        <4> QED BY <3>2, <4>1 DEF UsedSeen
      <3> QED BY <1>0, <3>1, <3>2
    <2>4. ASSUME NEW e \in Edges
          PROVE  Gives(EdgeOps, log', 0, e, EdgeCell(disk.edges[e]), EdgeCell(committed'.edges[e]))
      <3>1. Gives(EdgeOps, log, 0, e, EdgeCell(disk.edges[e]), EdgeCell(committed.edges[e]))
        BY <2>1 DEF EdgesGive
      <3> QED BY <1>0, <1>1, <3>1, NodeOpsKinds, GivesJoined
    <2> QED BY <1>0, <2>2, <2>3, <2>4 DEF EdgesGive
  <1>4. EdgeTrees(mem)'
    BY <1>0 DEF EdgeTrees
  <1> QED BY <1>0, <1>2, <1>3, <1>4 DEF EdgeInv

(* A commit that carries one edge.                                         *)
LEMMA CommitOneEdge ==
    ASSUME TInv, EdgeInv, ~mixed, NEW R \in Seq(Records), NEW e \in Edges,
           \A i \in DOMAIN R : R[i].id = e,
           NEW new, committed'.edges = [committed.edges EXCEPT ![e] = new],
           Carries(EdgeOps, R, e, EdgeCell(committed.edges[e]), EdgeCell(new))
    PROVE  \A x \in Edges :
             Carries(EdgeOps, R, x, EdgeCell(committed.edges[x]), EdgeCell(committed'.edges[x]))
  <1> SUFFICES ASSUME NEW x \in Edges
               PROVE  Carries(EdgeOps, R, x, EdgeCell(committed.edges[x]), EdgeCell(committed'.edges[x]))
    OBVIOUS
  <1>1. committed'.edges[x] = IF x = e THEN new ELSE committed.edges[x]
    BY DEF TInv
  <1>2. CASE x = e
    BY <1>1, <1>2
  <1>3. CASE x # e
    <2>1. \A i \in DOMAIN R : ~About(EdgeOps, R[i], x)
      BY <1>3, ForeignRecord, NodeOpsKinds
    <2> QED BY <1>1, <1>3, <2>1, CarriesOthers, NodeOpsKinds
  <1> QED BY <1>2, <1>3

LEMMA EdgesStart == Init => EdgeInv
  <1> SUFFICES ASSUME Init PROVE EdgeInv
    OBVIOUS
  <1>1. /\ log = <<>> /\ status = "open" /\ committed.edges = EmptyTrees.edges
        /\ mem = EmptyTrees /\ disk = EmptyTrees /\ used = 0 /\ next_edge = 1
    BY DEF Init
  <1>2. /\ EmptyTrees.edge_meta = 1 /\ EmptyTrees.adj = {}
        /\ \A e \in Edges : EmptyTrees.edges[e] = Absent
    BY DEF EmptyTrees
  <1>3. EdgeTrees(EmptyTrees)
    BY <1>2 DEF EdgeTrees
  <1>4. \A e \in Edges : LogOf(EdgeOps, <<>>, e, EdgeCell(EmptyTrees.edges[e]))
    BY EmptyLog, NodeOpsKinds
  <1>5. EdgesGive(disk, 0)
    <2>1. UsedSeen(disk, 0)
      BY <1>1, <1>2 DEF UsedSeen
    <2>2. \A e \in Edges : Gives(EdgeOps, <<>>, 0, e, EdgeCell(EmptyTrees.edges[e]), EdgeCell(EmptyTrees.edges[e]))
      BY <1>4 DEF LogOf
    <2> QED BY <1>1, <1>3, <2>1, <2>2 DEF EdgesGive
  <1> QED BY <1>1, <1>2, <1>3, <1>4, <1>5 DEF EdgeInv

LEMMA EdgesStep == TInv /\ TInv' /\ EdgeInv /\ [Next]_vars => EdgeInv'
  <1> SUFFICES ASSUME TInv, TInv', EdgeInv, [Next]_vars PROVE EdgeInv'
    OBVIOUS
  <1>0. /\ Edges \subseteq Nat /\ next_edge \in Nat /\ used \in Nat
        /\ mem.edge_meta \in Nat /\ disk.edge_meta \in Nat
        /\ mem \in Trees /\ disk \in Trees /\ log \in Seq(Records) /\ Len(log) \in Nat
        /\ mem.edges \in [Edges -> EdgeStates \cup {Absent}]
        /\ disk.edges \in [Edges -> EdgeStates \cup {Absent}]
        /\ committed.edges \in [Edges -> EdgeStates \cup {Absent}]
        /\ mem.adj \subseteq Edges
    <2>1. /\ log \in Seq(Records) /\ mem \in Trees /\ disk \in Trees
          /\ next_edge \in 1..(MaxEdge + 1) /\ used \in 0..MaxEdge
          /\ committed.edges \in [Edges -> EdgeStates \cup {Absent}]
      BY DEF TInv
    <2>2. /\ mem.edge_meta \in 1..(MaxEdge + 1) /\ disk.edge_meta \in 1..(MaxEdge + 1)
          /\ mem.edges \in [Edges -> EdgeStates \cup {Absent}]
          /\ disk.edges \in [Edges -> EdgeStates \cup {Absent}]
          /\ mem.adj \subseteq Edges
      BY <2>1 DEF Trees
    <2>3. Edges \subseteq Nat /\ Len(log) \in Nat
      BY <2>1 DEF Edges
    <2> QED BY <2>1, <2>2, <2>3, Numbers
  <1>a. Absent \notin EdgeStates
    BY GraphStoresAssumption
  <1>b. ASSUME status = "open", ~mixed
        PROVE  /\ EdgeTrees(mem) /\ mem.edges = committed.edges
               /\ used < mem.edge_meta /\ mem.edge_meta <= next_edge
               /\ mem.adj = {e \in Edges : mem.edges[e] # Absent}
               /\ \A e \in mem.adj : e < next_edge
    <2>1. /\ EdgeTrees(mem) /\ mem.edges = committed.edges
          /\ used < mem.edge_meta /\ mem.edge_meta <= next_edge
      BY <1>b DEF EdgeInv
    <2>2. mem.adj = {e \in Edges : mem.edges[e] # Absent} /\ \A e \in mem.adj : e < mem.edge_meta
      BY <2>1 DEF EdgeTrees
    <2> QED BY <1>0, <2>1, <2>2
  <1>1. CASE UNCHANGED vars
    BY <1>1 DEF EdgeInv, EdgesGive, EdgeTrees, UsedSeen, vars
  <1>2. ASSUME NEW n \in Nodes, NEW new \in Cells, commitNode(n, new) PROVE EdgeInv'
    <2> DEFINE old == mem.nodes[n]
               R == NodeRecords(n, old, new)
    <2>1. /\ old \in Cells /\ new # old /\ status = "open" /\ status' = "open" /\ disk' = disk
          /\ log' = log \o R /\ mem' = applyNodeState(n, new)
          /\ committed'.edges = committed.edges
          /\ UNCHANGED <<next_edge, evicted, mixed, used>>
      BY <1>0, <1>2 DEF commitNode, Open, Trees, TInv
    <2>2. R \in Seq(Records) /\ \A i \in DOMAIN R : R[i].op \in NodeOpNames
      BY <2>1, NodeRecordsAre
    <2>3. mem'.edges = mem.edges /\ mem'.adj = mem.adj /\ mem'.edge_meta = mem.edge_meta
      BY <1>0, <2>1, ApplyNodeIs
    <2> HIDE DEF R
    <2>4. \A e \in Edges : Carries(EdgeOps, R, e, EdgeCell(committed.edges[e]), EdgeCell(committed'.edges[e]))
      <3>1. \A e : \A i \in DOMAIN R : ~About(EdgeOps, R[i], e)
        BY <2>2, ForeignRecord
      <3> QED BY <2>1, <2>2, <3>1, CarriesOthers, NodeOpsKinds
    <2>5. ~mixed => EdgeTrees(mem') /\ mem'.edges = committed'.edges
      BY <1>b, <2>1, <2>3 DEF EdgeTrees
    <2>6. ~mixed => used' < mem'.edge_meta /\ mem'.edge_meta <= next_edge'
      BY <1>b, <2>1, <2>3
    <2>7. CommitStep(R)
      BY <2>1, <2>2, <2>4, <2>5, <2>6 DEF CommitStep
    <2> QED BY <2>2, <2>7, CommitEdges
  <1>3. ASSUME NEW prop \in Props, commitCreateEdge(prop) PROVE EdgeInv'
    <2>1. PICK R \in Seq(Records) :
             /\ log' = log \o R
             /\ \A i \in DOMAIN R : R[i].id = next_edge
             /\ 1 \in DOMAIN R /\ Inserts(EdgeOps, R[1], next_edge)
             /\ Carries(EdgeOps, R, next_edge, Absent, EdgeCell([prop |-> prop]))
      BY <1>3, CreateEdgeRecords
    <2>2. /\ mem' = [createWithId(mem, next_edge, prop) EXCEPT !.edge_meta = next_edge']
          /\ next_edge \in Edges /\ next_edge' = next_edge + 1 /\ mem.edges[next_edge] = Absent
          /\ used' = Max({used, next_edge})
          /\ committed' = [committed EXCEPT !.edges[next_edge] = [prop |-> prop]]
          /\ status = "open" /\ status' = "open" /\ disk' = disk /\ mixed' = mixed /\ evicted' = evicted
      BY <1>3 DEF commitCreateEdge, EdgeApplied, Open
    <2>3. committed'.edges = [committed.edges EXCEPT ![next_edge] = [prop |-> prop]]
      BY <2>2 DEF TInv
    <2>4. used' = used \/ used' = next_edge
      <3>1. {used, next_edge} \subseteq 0..MaxEdge
        BY <2>2, Numbers DEF TInv, Edges
      <3>2. Max({used, next_edge}) \in {used, next_edge}
        BY <3>1, Numbers, MaxIs
      <3> QED BY <2>2, <3>2
    <2>5. ASSUME ~mixed
          PROVE  /\ EdgeTrees(mem') /\ mem'.edges = committed'.edges
                 /\ used' < mem'.edge_meta /\ mem'.edge_meta <= next_edge'
      <3> DEFINE t == createWithId(mem, next_edge, prop)
      <3>1. /\ EdgeTrees(t) /\ t.edges = [mem.edges EXCEPT ![next_edge] = [prop |-> prop]] /\ t \in Trees
        BY <1>0, <1>b, <2>2, <2>5, CreateIs, CreateType
      <3> HIDE DEF t
      <3>2. \A e \in t.adj : e < next_edge'
        <4>1. \A e \in t.adj : e = next_edge \/ e \in mem.adj
          BY <1>0, <1>b, <2>2, <2>5, <3>1 DEF EdgeTrees
        <4>2. \A e \in mem.adj : e < next_edge
          BY <1>b, <2>2, <2>5
        <4>3. ASSUME NEW e \in t.adj PROVE e < next_edge'
          <5>1. e = next_edge \/ (e \in mem.adj /\ e < next_edge)
            BY <4>1, <4>2
          <5>2. e \in Nat /\ next_edge \in Nat /\ next_edge' = next_edge + 1
            BY <1>0, <2>2, <5>1
          <5> QED BY <5>1, <5>2
        <4> QED BY <4>3
      <3>3. mem' = [t EXCEPT !.edge_meta = next_edge']
        BY <2>2 DEF t
      <3>4. EdgeTrees(mem') /\ mem'.edges = t.edges /\ mem'.edge_meta = next_edge'
        BY <3>1, <3>2, <3>3, MetaTrees, MetaUpdate
      <3> QED BY <1>0, <1>b, <2>2, <2>3, <2>4, <2>5, <3>1, <3>4
    <2>6. ~mixed => \A x \in Edges :
            Carries(EdgeOps, R, x, EdgeCell(committed.edges[x]), EdgeCell(committed'.edges[x]))
      <3> SUFFICES ASSUME ~mixed
                   PROVE  \A x \in Edges :
                     Carries(EdgeOps, R, x, EdgeCell(committed.edges[x]), EdgeCell(committed'.edges[x]))
        OBVIOUS
      <3>1. EdgeCell(committed.edges[next_edge]) = Absent
        BY <1>b, <2>2, EdgeCells
      <3>2. Carries(EdgeOps, R, next_edge, EdgeCell(committed.edges[next_edge]), EdgeCell([prop |-> prop]))
        BY <2>1, <3>1
      <3> QED BY <2>1, <2>2, <2>3, <3>2, CommitOneEdge
    <2>7. CommitStep(R)
      BY <2>1, <2>2, <2>4, <2>5, <2>6 DEF CommitStep
    <2> QED BY <2>7, CommitEdges
  <1>4. ASSUME NEW e \in Edges, NEW prop \in Props, commitEdgeProperty(e, prop) PROVE EdgeInv'
    <2>1. PICK R \in Seq(Records) :
             /\ log' = log \o R
             /\ \A i \in DOMAIN R : R[i].id = e
             /\ \A s \in EdgeStates : Carries(EdgeOps, R, e, EdgeCell(s), EdgeCell([prop |-> prop]))
      BY <1>4, EdgePropertyRecords
    <2>2. /\ mem' = [createWithId(deleteById(mem, e), e, prop) EXCEPT !.edge_meta = next_edge']
          /\ next_edge' = next_edge /\ mem.edges[e] # Absent
          /\ committed' = [committed EXCEPT !.edges[e] = [prop |-> prop]]
          /\ status = "open" /\ status' = "open" /\ disk' = disk /\ mixed' = mixed /\ evicted' = evicted
          /\ used' = used
      BY <1>4 DEF commitEdgeProperty, EdgeApplied, Open
    <2>3. committed'.edges = [committed.edges EXCEPT ![e] = [prop |-> prop]]
      BY <2>2 DEF TInv
    <2>5. ASSUME ~mixed
          PROVE  /\ EdgeTrees(mem') /\ mem'.edges = committed'.edges
                 /\ used' < mem'.edge_meta /\ mem'.edge_meta <= next_edge'
      <3> DEFINE d == deleteById(mem, e)
                 t == createWithId(d, e, prop)
      <3>1. /\ EdgeTrees(d) /\ d.edges = [mem.edges EXCEPT ![e] = Absent] /\ d \in Trees
        BY <1>0, <1>b, <2>2, <2>5, DeleteIs, DeleteType
      <3> HIDE DEF d
      <3>2. d.edges[e] = Absent
        BY <1>0, <3>1
      <3>3. /\ EdgeTrees(t) /\ t.edges = [d.edges EXCEPT ![e] = [prop |-> prop]] /\ t \in Trees
        BY <3>1, <3>2, CreateIs, CreateType
      <3> HIDE DEF t
      <3>4. t.edges = [mem.edges EXCEPT ![e] = [prop |-> prop]]
        BY <1>0, <3>1, <3>3
      <3>5. \A x \in t.adj : x < next_edge'
        <4>1. \A x \in t.adj : x \in mem.adj
          BY <1>0, <1>b, <2>2, <2>5, <3>3, <3>4 DEF EdgeTrees
        <4> QED BY <1>0, <1>b, <2>2, <2>5, <4>1
      <3>6. mem' = [t EXCEPT !.edge_meta = next_edge']
        BY <2>2 DEF t, d
      <3>7. EdgeTrees(mem') /\ mem'.edges = t.edges /\ mem'.edge_meta = next_edge'
        BY <3>3, <3>5, <3>6, MetaTrees, MetaUpdate
      <3>8. mem'.edges = committed'.edges
        BY <1>b, <2>2, <2>3, <2>5, <3>4, <3>7
      <3>9. used < mem.edge_meta /\ mem.edge_meta <= next_edge
        BY <1>b, <2>2, <2>5
      <3>10. used < next_edge
        BY <1>0, <3>9
      <3> QED BY <1>0, <2>2, <3>7, <3>8, <3>10
    <2>6. ~mixed => \A x \in Edges :
            Carries(EdgeOps, R, x, EdgeCell(committed.edges[x]), EdgeCell(committed'.edges[x]))
      <3> SUFFICES ASSUME ~mixed
                   PROVE  \A x \in Edges :
                     Carries(EdgeOps, R, x, EdgeCell(committed.edges[x]), EdgeCell(committed'.edges[x]))
        OBVIOUS
      <3>1. committed.edges[e] \in EdgeStates
        BY <1>0, <1>b, <2>2
      <3>2. Carries(EdgeOps, R, e, EdgeCell(committed.edges[e]), EdgeCell([prop |-> prop]))
        BY <2>1, <3>1
      <3> QED BY <2>1, <2>3, <3>2, CommitOneEdge
    <2>7. CommitStep(R)
      BY <2>1, <2>2, <2>5, <2>6 DEF CommitStep
    <2> QED BY <2>7, CommitEdges
  <1>5. ASSUME NEW e \in Edges, commitDeleteEdge(e) PROVE EdgeInv'
    <2>1. PICK R \in Seq(Records) :
             /\ log' = log \o R
             /\ \A i \in DOMAIN R : R[i].id = e
             /\ \A s : Carries(EdgeOps, R, e, s, Absent)
      BY <1>5, DeleteEdgeRecords
    <2>2. /\ mem' = [deleteById(mem, e) EXCEPT !.edge_meta = next_edge']
          /\ next_edge' = next_edge /\ mem.edges[e] # Absent
          /\ committed' = [committed EXCEPT !.edges[e] = Absent]
          /\ status = "open" /\ status' = "open" /\ disk' = disk /\ mixed' = mixed /\ evicted' = evicted
          /\ used' = used
      BY <1>5 DEF commitDeleteEdge, EdgeApplied, Open
    <2>3. committed'.edges = [committed.edges EXCEPT ![e] = Absent]
      BY <2>2 DEF TInv
    <2>5. ASSUME ~mixed
          PROVE  /\ EdgeTrees(mem') /\ mem'.edges = committed'.edges
                 /\ used' < mem'.edge_meta /\ mem'.edge_meta <= next_edge'
      <3> DEFINE t == deleteById(mem, e)
      <3>1. /\ EdgeTrees(t) /\ t.edges = [mem.edges EXCEPT ![e] = Absent] /\ t \in Trees
        BY <1>0, <1>b, <2>2, <2>5, DeleteIs, DeleteType
      <3> HIDE DEF t
      <3>5. \A x \in t.adj : x < next_edge'
        <4>1. \A x \in t.adj : x \in mem.adj
          BY <1>0, <1>b, <2>2, <2>5, <3>1 DEF EdgeTrees
        <4> QED BY <1>0, <1>b, <2>2, <2>5, <4>1
      <3>6. mem' = [t EXCEPT !.edge_meta = next_edge']
        BY <2>2 DEF t
      <3>7. EdgeTrees(mem') /\ mem'.edges = t.edges /\ mem'.edge_meta = next_edge'
        BY <3>1, <3>5, <3>6, MetaTrees, MetaUpdate
      <3>8. mem'.edges = committed'.edges
        BY <1>b, <2>2, <2>3, <2>5, <3>1, <3>7
      <3>9. used < mem.edge_meta /\ mem.edge_meta <= next_edge
        BY <1>b, <2>2, <2>5
      <3>10. used < next_edge
        BY <1>0, <3>9
      <3> QED BY <1>0, <2>2, <3>7, <3>8, <3>10
    <2>6. ~mixed => \A x \in Edges :
            Carries(EdgeOps, R, x, EdgeCell(committed.edges[x]), EdgeCell(committed'.edges[x]))
      <3> SUFFICES ASSUME ~mixed
                   PROVE  \A x \in Edges :
                     Carries(EdgeOps, R, x, EdgeCell(committed.edges[x]), EdgeCell(committed'.edges[x]))
        OBVIOUS
      <3>2. Carries(EdgeOps, R, e, EdgeCell(committed.edges[e]), EdgeCell(Absent))
        BY <2>1, EdgeCells
      <3> QED BY <2>1, <2>3, <3>2, CommitOneEdge
    <2>7. CommitStep(R)
      BY <2>1, <2>2, <2>5, <2>6 DEF CommitStep
    <2> QED BY <2>7, CommitEdges
  <1>6. CASE commitCreateDeleteEdge
    <2>1. PICK R \in Seq(Records) :
             /\ log' = log \o R
             /\ \A i \in DOMAIN R : R[i].id = next_edge
             /\ 1 \in DOMAIN R /\ Inserts(EdgeOps, R[1], next_edge)
             /\ Carries(EdgeOps, R, next_edge, Absent, Absent)
      BY <1>6, CreateDeleteRecords
    <2>2. /\ mem' = [mem EXCEPT !.edge_meta = next_edge']
          /\ next_edge \in Edges /\ next_edge' = next_edge + 1
          /\ used' = Max({used, next_edge}) /\ committed' = committed
          /\ status = "open" /\ status' = "open" /\ disk' = disk /\ mixed' = mixed /\ evicted' = evicted
      BY <1>6 DEF commitCreateDeleteEdge, EdgeApplied, Open
    <2>4. used' = used \/ used' = next_edge
      <3>1. {used, next_edge} \subseteq 0..MaxEdge
        BY <2>2, Numbers DEF TInv, Edges
      <3>2. Max({used, next_edge}) \in {used, next_edge}
        BY <3>1, Numbers, MaxIs
      <3> QED BY <2>2, <3>2
    <2>5. ASSUME ~mixed
          PROVE  /\ EdgeTrees(mem') /\ mem'.edges = committed'.edges
                 /\ used' < mem'.edge_meta /\ mem'.edge_meta <= next_edge'
      <3>2. \A e \in mem.adj : e < next_edge'
        BY <1>0, <1>b, <2>2, <2>5
      <3>4. EdgeTrees(mem') /\ mem'.edges = mem.edges /\ mem'.edge_meta = next_edge'
        <4>1. EdgeTrees(mem)
          BY <1>b, <2>2, <2>5
        <4>2. mem' = [mem EXCEPT !.edge_meta = next_edge'] /\ mem \in Trees
          BY <1>0, <2>2
        <4>3. EdgeTrees(mem')
          BY <3>2, <4>1, <4>2, MetaTrees
        <4>4. mem'.edges = mem.edges /\ mem'.edge_meta = next_edge'
          BY <4>2, MetaUpdate
        <4> QED BY <4>3, <4>4
      <3> QED BY <1>0, <1>b, <2>2, <2>4, <2>5, <3>4
    <2>6. ~mixed => \A x \in Edges :
            Carries(EdgeOps, R, x, EdgeCell(committed.edges[x]), EdgeCell(committed'.edges[x]))
      <3> SUFFICES ASSUME ~mixed, NEW x \in Edges
                   PROVE  Carries(EdgeOps, R, x, EdgeCell(committed.edges[x]), EdgeCell(committed'.edges[x]))
        OBVIOUS
      <3>1. CASE x = next_edge
        <4>1. next_edge \notin mem.adj
          BY <1>0, <1>b, <2>2
        <4>2. committed.edges[next_edge] = Absent
          BY <1>b, <2>2, <4>1
        <4> QED BY <2>1, <2>2, <3>1, <4>2, EdgeCells
      <3>2. CASE x # next_edge
        <4>1. \A i \in DOMAIN R : ~About(EdgeOps, R[i], x)
          BY <2>1, <3>2, ForeignRecord, NodeOpsKinds
        <4> QED BY <2>1, <2>2, <4>1, CarriesOthers, NodeOpsKinds
      <3> QED BY <3>1, <3>2
    <2>7. CommitStep(R)
      BY <2>1, <2>2, <2>4, <2>5, <2>6 DEF CommitStep
    <2> QED BY <2>7, CommitEdges
  <1>7. CASE rollbackCreateEdge
    <2>1. /\ next_edge' = next_edge + 1 /\ status = "open"
          /\ UNCHANGED <<status, mem, disk, next_node, log, evicted, committed, mixed, used, applied>>
      BY <1>7 DEF rollbackCreateEdge, Open
    <2>2. ~mixed => mem.edge_meta <= next_edge'
      BY <1>0, <1>b, <2>1
    <2> QED BY <2>1, <2>2 DEF EdgeInv, EdgesGive, EdgeTrees, UsedSeen
  <1>8. ASSUME NEW tree \in {"nodes", "by_label", "edges", "adj"}, evict(tree) PROVE EdgeInv'
    <2>1. evicted' /\ UNCHANGED <<status, mem, next_node, next_edge, log, applied, committed, mixed, used>>
      BY <1>8 DEF evict
    <2> QED BY <2>1 DEF EdgeInv, EdgesGive, EdgeTrees, UsedSeen
  <1>9. CASE flushAll
    <2>1. /\ status = "open" /\ disk' = mem /\ ~evicted'
          /\ UNCHANGED <<status, mem, next_node, next_edge, log, applied, committed, mixed, used>>
      BY <1>9 DEF flushAll
    <2>2. ~mixed => EdgesGive(mem, 0)
      <3>1. ~mixed => \A e \in Edges : LogOf(EdgeOps, log, e, EdgeCell(committed.edges[e]))
        BY DEF EdgeInv
      <3>2. ~mixed => \A e \in Edges : Gives(EdgeOps, log, 0, e, EdgeCell(mem.edges[e]), EdgeCell(committed.edges[e]))
        BY <1>b, <2>1, <3>1 DEF LogOf
      <3>3. ~mixed => UsedSeen(mem, 0)
        BY <1>b, <2>1 DEF UsedSeen
      <3> QED BY <1>b, <2>1, <3>2, <3>3 DEF EdgesGive
    <2>3. EdgesGive(mem, 0) => EdgesGive(disk, 0)'
      BY <2>1 DEF EdgesGive, EdgeTrees, UsedSeen
    <2>4. EdgeTrees(mem) => EdgeTrees(mem)'
      BY <2>1 DEF EdgeTrees
    <2> QED BY <2>1, <2>2, <2>3, <2>4 DEF EdgeInv
  <1>10. CASE checkpoint
    <2>1. /\ status = "open" /\ disk' = mem /\ ~evicted' /\ log' = <<>>
          /\ UNCHANGED <<status, mem, next_node, next_edge, applied, committed, mixed, used>>
      BY <1>10 DEF checkpoint
    <2>2. \A e \in Edges : LogOf(EdgeOps, <<>>, e, EdgeCell(committed.edges[e]))
      BY EmptyLog, NodeOpsKinds
    <2>3. ~mixed => EdgesGive(disk, 0)'
      <3>2. ~mixed => \A e \in Edges : Gives(EdgeOps, <<>>, 0, e, EdgeCell(mem.edges[e]), EdgeCell(committed.edges[e]))
        BY <1>b, <2>1, <2>2 DEF LogOf
      <3>3. ~mixed => UsedSeen(disk, 0)'
        BY <1>b, <2>1 DEF UsedSeen
      <3>4. ~mixed => EdgeTrees(disk)'
        BY <1>b, <2>1 DEF EdgeTrees
      <3> QED BY <2>1, <3>2, <3>3, <3>4 DEF EdgesGive
    <2>4. EdgeTrees(mem) => EdgeTrees(mem)'
      BY <2>1 DEF EdgeTrees
    <2> QED BY <1>b, <2>1, <2>2, <2>3, <2>4 DEF EdgeInv
  <1>11. CASE kill
    <2>1. /\ status' = "closed" /\ mixed' = (mixed \/ evicted) /\ ~evicted'
          /\ UNCHANGED <<disk, log, committed, used>>
      BY <1>11 DEF kill
    <2>2. EdgesGive(disk, 0) => EdgesGive(disk, 0)'
      BY <2>1 DEF EdgesGive, EdgeTrees, UsedSeen
    <2> QED BY <2>1, <2>2 DEF EdgeInv
  <1>12. CASE open
    <2>1. /\ status = "closed" /\ status' = "recovering" /\ mem' = disk /\ applied' = 0 /\ ~evicted
          /\ next_edge' = disk.edge_meta
          /\ UNCHANGED <<disk, log, evicted, committed, mixed, used>>
      BY <1>12 DEF open, TInv
    <2>2. EdgesGive(disk, 0) => EdgesGive(disk, 0)' /\ EdgesGive(mem, applied)'
      BY <2>1 DEF EdgesGive, EdgeTrees, UsedSeen
    <2> QED BY <2>1, <2>2 DEF EdgeInv
  <1>13. CASE redoPass
    <2> DEFINE r == log[applied + 1]
    <2>1. /\ status = "recovering" /\ applied \in Nat /\ applied < Len(log)
          /\ mem' = Redo(mem, r) /\ applied' = applied + 1 /\ r \in Records
          /\ next_edge' = mem'.edge_meta
          /\ UNCHANGED <<status, disk, log, evicted, committed, mixed, used>>
      BY <1>0, <1>13 DEF redoPass, TInv
    <2>2. EdgesGive(disk, 0) => EdgesGive(disk, 0)'
      BY <2>1 DEF EdgesGive, EdgeTrees, UsedSeen
    <2>3. ASSUME ~mixed PROVE EdgesGive(mem, applied)'
      <3>1. EdgesGive(mem, applied)
        BY <2>1, <2>3 DEF EdgeInv
      <3>2. /\ EdgeTrees(mem')
            /\ \A e \in Edges : EdgeCell(mem'.edges[e]) = RedoCell(EdgeOps, EdgeCell(mem.edges[e]), r, e)
            /\ mem.edge_meta <= mem'.edge_meta
            /\ \A u : Inserts(EdgeOps, r, u) => u < mem'.edge_meta
        BY <1>0, <2>1, <3>1, RedoEdgesAre DEF EdgesGive
      <3>3. mem'.edge_meta \in Nat
        BY Numbers DEF TInv, Trees
      <3>4. UsedSeen(mem, applied)'
        <4>1. UsedSeen(mem, applied)
          BY <3>1 DEF EdgesGive
        <4>2. CASE used < mem.edge_meta
          <5>1. used < mem'.edge_meta
            BY <1>0, <3>2, <3>3, <4>2
          <5> QED BY <2>1, <5>1 DEF UsedSeen
        <4>3. CASE \E i \in After(log, applied) : Inserts(EdgeOps, log[i], used)
          <5>1. PICK i \in After(log, applied) : Inserts(EdgeOps, log[i], used)
            BY <4>3
          <5>2. i = applied + 1 \/ i \in After(log, applied + 1)
            BY <1>0, <2>1, AfterIs
          <5>3. CASE i = applied + 1
            BY <2>1, <3>2, <5>1, <5>3 DEF UsedSeen
          <5>4. CASE i \in After(log, applied + 1)
            BY <2>1, <5>1, <5>4 DEF UsedSeen
          <5> QED BY <5>2, <5>3, <5>4
        <4> QED BY <4>1, <4>2, <4>3 DEF UsedSeen
      <3>5. ASSUME NEW e \in Edges
            PROVE  Gives(EdgeOps, log, applied + 1, e, EdgeCell(mem'.edges[e]), EdgeCell(committed.edges[e]))
        <4>1. Gives(EdgeOps, log, applied, e, EdgeCell(mem.edges[e]), EdgeCell(committed.edges[e]))
          BY <3>1 DEF EdgesGive
        <4>2. EdgeCell(mem.edges[e]) \in Cells
          BY <1>0, EdgeCells
        <4>3. Gives(EdgeOps, log, applied + 1, e, RedoCell(EdgeOps, EdgeCell(mem.edges[e]), log[applied + 1], e),
                    EdgeCell(committed.edges[e]))
          BY <1>0, <2>1, <4>1, <4>2, GivesStep, NodeOpsKinds
        <4> QED BY <3>2, <4>3
      <3>6. EdgeTrees(mem)'
        BY <3>2 DEF EdgeTrees
      <3> QED BY <2>1, <3>4, <3>5, <3>6 DEF EdgesGive
    <2> QED BY <2>1, <2>2, <2>3 DEF EdgeInv
  <1>14. CASE resume
    <2>1. /\ status = "recovering" /\ applied = Len(log) /\ status' = "open"
          /\ UNCHANGED <<disk, next_node, next_edge, log, evicted, committed, mixed, used>>
          /\ mem' = IF log = <<>> THEN mem ELSE rebuildPropertyIndexes(mem)
      BY <1>14 DEF resume
    <2>2. mem'.edges = mem.edges /\ mem'.adj = mem.adj /\ mem'.edge_meta = mem.edge_meta
      BY <1>0, <2>1, RebuiltIs
    <2>3. EdgesGive(disk, 0) => EdgesGive(disk, 0)'
      BY <2>1 DEF EdgesGive, EdgeTrees, UsedSeen
    <2>4. ASSUME ~mixed
          PROVE  /\ EdgeTrees(mem)' /\ mem'.edges = committed.edges
                 /\ used < mem'.edge_meta /\ mem'.edge_meta <= next_edge
      <3>1. EdgesGive(mem, applied) /\ next_edge = mem.edge_meta
        BY <2>1, <2>4 DEF EdgeInv
      <3>2. \A e \in Edges : mem.edges[e] = committed.edges[e]
        <4> SUFFICES ASSUME NEW e \in Edges PROVE mem.edges[e] = committed.edges[e]
          OBVIOUS
        <4>1. Gives(EdgeOps, log, Len(log), e, EdgeCell(mem.edges[e]), EdgeCell(committed.edges[e]))
          BY <2>1, <3>1 DEF EdgesGive
        <4>2. EdgeCell(mem.edges[e]) \in Cells /\ EdgeCell(committed.edges[e]) \in Cells
          BY <1>0, EdgeCells
        <4>3. EdgeCell(mem.edges[e]) = EdgeCell(committed.edges[e])
          BY <1>0, <4>1, <4>2, GivesAll, NodeOpsKinds
        <4>4. mem.edges[e] \in EdgeStates \cup {Absent} /\ committed.edges[e] \in EdgeStates \cup {Absent}
          BY <1>0
        <4> QED BY <4>3, <4>4, EdgeCells
      <3>3. mem.edges = committed.edges
        <4>1. /\ mem.edges \in [Edges -> EdgeStates \cup {Absent}]
              /\ committed.edges \in [Edges -> EdgeStates \cup {Absent}]
          BY <1>0
        <4> QED BY <3>2, <4>1
      <3>4. used < mem.edge_meta
        <4>1. After(log, applied) = {}
          BY <1>0, <2>1 DEF After
        <4> QED BY <3>1, <4>1 DEF EdgesGive, UsedSeen
      <3>5. EdgeTrees(mem)'
        BY <2>2, <3>1 DEF EdgesGive, EdgeTrees
      <3> QED BY <1>0, <2>2, <3>1, <3>3, <3>4, <3>5
    <2> QED BY <2>1, <2>3, <2>4 DEF EdgeInv
  <1>15. NodeStates \cup {Absent} = Cells
    BY DEF Cells
  <1> QED BY <1>1, <1>2, <1>3, <1>4, <1>5, <1>6, <1>7, <1>8, <1>9, <1>10, <1>11, <1>12, <1>13, <1>14, <1>15
          DEF Next, Commit
-----------------------------------------------------------------------------
(* The indexes.                                                            *)

LEMMA IndexEntriesAre ==
    ASSUME NEW n \in Nodes, NEW s, NEW x, x \in IndexEntries(n, s)
    PROVE  x[3] = n
  BY DEF IndexEntries

LEMMA PropertyIndexIs ==
    ASSUME NEW t
    PROVE  PropertyIndex(t) <=>
             \A x : x \in t.by_prop <=> \E n \in Nodes : x \in IndexEntries(n, t.nodes[n])
  BY DEF PropertyIndex

LEMMA LabelIndexApplied ==
    ASSUME mem \in Trees, LabelIndex(mem), NEW n \in Nodes, NEW new \in Cells
    PROVE  LabelIndex(applyNodeState(n, new))
  <1> DEFINE t == applyNodeState(n, new)
             old == mem.nodes[n]
  <1>1. /\ t \in Trees /\ t.nodes = [mem.nodes EXCEPT ![n] = new]
        /\ t.by_label = (mem.by_label \ Entries(Gone(old, new), n)) \cup Entries(Fresh(old, new), n)
    BY ApplyNodeIs
  <1> HIDE DEF t
  <1>2. \A l \in Labels, m \in Nodes :
          <<l, m>> \in mem.by_label <=> mem.nodes[m] # Absent /\ l \in mem.nodes[m].labels
    BY LabelIndexIs
  <1>3. mem.nodes \in [Nodes -> Cells]
    BY DEF Trees
  <1>4. ASSUME NEW l \in Labels, NEW m \in Nodes
        PROVE  <<l, m>> \in t.by_label <=> t.nodes[m] # Absent /\ l \in t.nodes[m].labels
    <2>1. CASE m = n
      <3>1. \A S : <<l, n>> \in Entries(S, n) <=> l \in S
        BY DEF Entries
      <3>2. /\ l \in Gone(old, new) <=> /\ old # Absent /\ l \in old.labels
                                        /\ ~(new # Absent /\ l \in new.labels)
            /\ l \in Fresh(old, new) <=> /\ new # Absent /\ l \in new.labels
                                         /\ ~(old # Absent /\ l \in old.labels)
        BY DEF Gone, Fresh
      <3>3. t.nodes[n] = new
        BY <1>1, <1>3
      <3>4. <<l, n>> \in t.by_label <=> (<<l, n>> \in mem.by_label /\ l \notin Gone(old, new)) \/ l \in Fresh(old, new)
        BY <1>1, <3>1
      <3>5. <<l, n>> \in mem.by_label <=> old # Absent /\ l \in old.labels
        BY <1>2
      <3> HIDE DEF old
      <3> QED BY <2>1, <3>2, <3>3, <3>4, <3>5
    <2>2. CASE m # n
      <3>1. \A S : <<l, m>> \notin Entries(S, n)
        BY <2>2 DEF Entries
      <3>2. t.nodes[m] = mem.nodes[m]
        BY <1>1, <1>3, <2>2
      <3> QED BY <1>1, <1>2, <3>1, <3>2
    <2> QED BY <2>1, <2>2
  <1>5. LabelIndex(t)
    BY <1>1, <1>4, LabelIndexIs
  <1> QED BY <1>5 DEF t

LEMMA PropertyIndexApplied ==
    ASSUME mem \in Trees, PropertyIndex(mem), NEW n \in Nodes, NEW new \in Cells
    PROVE  PropertyIndex(applyNodeState(n, new))
  <1> DEFINE t == applyNodeState(n, new)
             old == mem.nodes[n]
  <1>1. /\ t.nodes = [mem.nodes EXCEPT ![n] = new]
        /\ t.by_prop = (mem.by_prop \ IndexEntries(n, old)) \cup IndexEntries(n, new)
    BY ApplyNodeIs
  <1> HIDE DEF t
  <1>2. \A x : x \in mem.by_prop <=> \E m \in Nodes : x \in IndexEntries(m, mem.nodes[m])
    BY PropertyIndexIs
  <1>3. \A m \in Nodes : t.nodes[m] = IF m = n THEN new ELSE mem.nodes[m]
    BY <1>1 DEF Trees
  <1>4. ASSUME NEW x
        PROVE  x \in t.by_prop <=> \E m \in Nodes : x \in IndexEntries(m, t.nodes[m])
    <2>1. ASSUME x \in t.by_prop PROVE \E m \in Nodes : x \in IndexEntries(m, t.nodes[m])
      <3>1. CASE x \in IndexEntries(n, new)
        BY <1>3, <3>1
      <3>2. CASE x \in mem.by_prop /\ x \notin IndexEntries(n, old)
        <4>1. PICK m \in Nodes : x \in IndexEntries(m, mem.nodes[m])
          BY <1>2, <3>2
        <4>2. m # n
          BY <3>2, <4>1
        <4> QED BY <1>3, <4>1, <4>2
      <3> QED BY <1>1, <2>1, <3>1, <3>2
    <2>2. ASSUME NEW m \in Nodes, x \in IndexEntries(m, t.nodes[m]) PROVE x \in t.by_prop
      <3>1. CASE m = n
        BY <1>1, <1>3, <2>2, <3>1
      <3>2. CASE m # n
        <4>1. x \in IndexEntries(m, mem.nodes[m])
          BY <1>3, <2>2, <3>2
        <4>2. x \notin IndexEntries(n, old)
          BY <3>2, <4>1, IndexEntriesAre
        <4> QED BY <1>1, <1>2, <4>1, <4>2
      <3> QED BY <3>1, <3>2
    <2> QED BY <2>1, <2>2
  <1>5. PropertyIndex(t)
    BY <1>4, PropertyIndexIs
  <1> QED BY <1>5 DEF t

LEMMA PropertyIndexRebuilt ==
    ASSUME NEW t \in Trees, LabelIndex(t)
    PROVE  PropertyIndex(rebuildPropertyIndexes(t))
  <1> DEFINE u == rebuildPropertyIndexes(t)
  <1>1. /\ u.nodes = t.nodes
        /\ u.by_prop = {<<e[1], t.nodes[e[2]].prop, e[2]>> :
             e \in {x \in t.by_label : t.nodes[x[2]] # Absent /\ t.nodes[x[2]].prop # Absent}}
    BY RebuiltIs
  <1> HIDE DEF u
  <1>2. \A l \in Labels, m \in Nodes :
          <<l, m>> \in t.by_label <=> t.nodes[m] # Absent /\ l \in t.nodes[m].labels
    BY LabelIndexIs
  <1>3. t.by_label \subseteq Labels \X Nodes /\ t.nodes \in [Nodes -> Cells]
    BY DEF Trees
  <1>4. ASSUME NEW x
        PROVE  x \in u.by_prop <=> \E m \in Nodes : x \in IndexEntries(m, t.nodes[m])
    <2>1. ASSUME x \in u.by_prop PROVE \E m \in Nodes : x \in IndexEntries(m, t.nodes[m])
      <3>1. PICK e \in t.by_label : /\ t.nodes[e[2]] # Absent /\ t.nodes[e[2]].prop # Absent
                                    /\ x = <<e[1], t.nodes[e[2]].prop, e[2]>>
        BY <1>1, <2>1
      <3>2. PICK l \in Labels, m \in Nodes : e = <<l, m>>
        BY <1>3
      <3>3. l \in t.nodes[m].labels
        BY <1>2, <3>2
      <3>4. x = <<l, t.nodes[m].prop, m>> /\ t.nodes[m] # Absent /\ t.nodes[m].prop # Absent
        BY <3>1, <3>2
      <3>5. x \in IndexEntries(m, t.nodes[m])
        BY <3>3, <3>4 DEF IndexEntries
      <3> QED BY <3>5
    <2>2. ASSUME NEW m \in Nodes, x \in IndexEntries(m, t.nodes[m]) PROVE x \in u.by_prop
      <3>1. PICK l \in t.nodes[m].labels : /\ x = <<l, t.nodes[m].prop, m>>
                                           /\ t.nodes[m] # Absent /\ t.nodes[m].prop # Absent
        BY <2>2 DEF IndexEntries
      <3>2. l \in Labels
        BY <1>3, <3>1, CellsOf DEF Cells
      <3>3. <<l, m>> \in t.by_label
        BY <1>2, <3>1, <3>2
      <3> QED BY <1>1, <3>1, <3>3
    <2> QED BY <2>1, <2>2
  <1>5. PropertyIndex(u)
    BY <1>1, <1>4, PropertyIndexIs
  <1> QED BY <1>5 DEF u

(* What was inserted, and what an insertion in new records is redone over. *)
LEMMA InsertedJoined ==
    ASSUME log \in Seq(Records), NEW R \in Seq(Records), log' = log \o R, NEW n, NEW X,
           Inserted(n) \subseteq X,
           \A j \in DOMAIN R : Inserts(NodeOps, R[j], n) => R[j].arg \subseteq X
    PROVE  Inserted(n)' \subseteq X
  <1> SUFFICES ASSUME NEW i \in DOMAIN log', log'[i].op = "node_insert", log'[i].id = n
               PROVE  log'[i].arg \subseteq X
    BY DEF Inserted
  <1>1. CASE i \in DOMAIN log
    <2>1. log'[i] = log[i]
      BY <1>1, Concat
    <2> QED BY <1>1, <2>1 DEF Inserted
  <1>2. CASE i \notin DOMAIN log
    <2>1. PICK j \in DOMAIN R : i = Len(log) + j
      BY <1>2, Concat
    <2>2. log'[i] = R[j]
      BY <2>1, Concat
    <2>3. Inserts(NodeOps, R[j], n)
      BY <2>2 DEF Inserts, NodeOps
    <2> QED BY <2>2, <2>3
  <1> QED BY <1>1, <1>2

LEMMA InsertedEach ==
    ASSUME NEW n, NEW i \in DOMAIN log, Inserts(NodeOps, log[i], n)
    PROVE  log[i].arg \subseteq Inserted(n)
  BY DEF Inserts, NodeOps, Inserted

LEMMA KeepsJoined ==
    ASSUME NEW L \in Seq(Records), NEW R \in Seq(Records), NEW n, NEW s, NEW old,
           Keeps(L, 0, n, s), Gives(NodeOps, L, 0, n, s, old),
           \A j \in DOMAIN R : Inserts(NodeOps, R[j], n) => old = Absent
    PROVE  Keeps(L \o R, 0, n, s)
  <1> DEFINE M == L \o R
  <1>1. /\ Len(L) \in Nat /\ DOMAIN L = 1..Len(L) /\ After(L, 0) = DOMAIN L
        /\ After(M, 0) = DOMAIN M /\ DOMAIN R \subseteq Nat \ {0}
    <2>1. M \in Seq(Records)
      BY Concat
    <2> QED BY <2>1 DEF After
  <1>2. ASSUME s # Absent, NEW i \in DOMAIN M, Inserts(NodeOps, M[i], n),
               \A d \in (0 + 1)..(i - 1) : ~Deletes(NodeOps, M[d], n)
        PROVE  M[i].arg \subseteq s.labels
    <2>1. CASE i \in DOMAIN L
      <3>1. M[i] = L[i]
        BY <2>1, Concat
      <3>2. \A d \in (0 + 1)..(i - 1) : d \in DOMAIN L
        BY <1>1, <2>1
      <3>3. \A d \in (0 + 1)..(i - 1) : ~Deletes(NodeOps, L[d], n)
        <4>1. \A d \in (0 + 1)..(i - 1) : M[d] = L[d]
          BY <3>2, Concat
        <4> QED BY <1>2, <4>1
      <3> QED BY <1>1, <1>2, <2>1, <3>1, <3>3 DEF Keeps
    <2>2. CASE i \notin DOMAIN L
      <3>1. PICK j \in DOMAIN R : i = Len(L) + j
        BY <2>2, Concat
      <3>2. M[i] = R[j]
        BY <3>1, Concat
      <3>3. old = Absent
        BY <1>2, <3>2
      <3>4. ASSUME NEW d \in DOMAIN L PROVE ~Deletes(NodeOps, L[d], n)
        <4>1. d \in (0 + 1)..(i - 1)
          BY <1>1, <3>1
        <4>2. M[d] = L[d]
          BY Concat
        <4> QED BY <1>2, <4>1, <4>2
      <3>5. ChangesTo(NodeOps, L, 0, n, s, old)
        BY <1>1, <1>2, <3>4 DEF Gives
      <3> QED BY <3>3, <3>5 DEF ChangesTo
    <2> QED BY <2>1, <2>2
  <1> HIDE DEF M
  <1>3. Keeps(M, 0, n, s)
    BY <1>1, <1>2 DEF Keeps
  <1> QED BY <1>3 DEF M

CommitLabelsStep(R) ==
    /\ status = "open" /\ status' = "open" /\ disk' = disk /\ mixed' = mixed /\ evicted' = evicted
    /\ log' = log \o R
    /\ \A n \in Nodes : \A j \in DOMAIN R : Inserts(NodeOps, R[j], n) =>
         /\ committed.nodes[n] = Absent
         /\ committed'.nodes[n] # Absent => R[j].arg \subseteq committed'.nodes[n].labels
    /\ ~mixed /\ ~Relabel => \A n \in Nodes :
         committed'.nodes[n] # Absent => Inserted(n) \subseteq committed'.nodes[n].labels
    /\ ~mixed /\ ~Relabel => LabelIndex(mem') /\ PropertyIndex(mem')

LEMMA CommitLabels ==
    ASSUME TInv, NodeInv, LabelInv, NEW R \in Seq(Records), CommitLabelsStep(R)
    PROVE  LabelInv'
  <1>0. /\ status = "open" /\ status' = "open" /\ disk' = disk /\ mixed' = mixed /\ evicted' = evicted
        /\ log' = log \o R
        /\ \A n \in Nodes : \A j \in DOMAIN R : Inserts(NodeOps, R[j], n) =>
             /\ committed.nodes[n] = Absent
             /\ committed'.nodes[n] # Absent => R[j].arg \subseteq committed'.nodes[n].labels
    BY DEF CommitLabelsStep
  <1> SUFFICES ASSUME ~mixed, ~Relabel PROVE LabelInv'
    BY <1>0 DEF LabelInv
  <1>1. /\ \A n \in Nodes :
             committed'.nodes[n] # Absent => Inserted(n) \subseteq committed'.nodes[n].labels
        /\ LabelIndex(mem') /\ PropertyIndex(mem') /\ log \in Seq(Records)
    BY DEF CommitLabelsStep, TInv
  <1>2. ASSUME NEW n \in Nodes, committed'.nodes[n] # Absent
        PROVE  Inserted(n)' \subseteq committed'.nodes[n].labels
    <2> DEFINE X == committed'.nodes[n].labels
    <2>1. Inserted(n) \subseteq X /\ \A j \in DOMAIN R : Inserts(NodeOps, R[j], n) => R[j].arg \subseteq X
      BY <1>0, <1>1, <1>2
    <2> HIDE DEF X
    <2>2. Inserted(n)' \subseteq X
      BY <1>0, <1>1, <2>1, InsertedJoined
    <2> QED BY <2>2 DEF X
  <1>3. ASSUME ~evicted
        PROVE  /\ LabelIndex(disk) /\ PropertyIndex(disk)
               /\ \A n \in Nodes : Keeps(log', 0, n, disk.nodes[n])
    <2>1. LabelIndex(disk) /\ PropertyIndex(disk)
      BY <1>3 DEF LabelInv
    <2>2. ASSUME NEW n \in Nodes PROVE Keeps(log', 0, n, disk.nodes[n])
      <3>1. Keeps(log, 0, n, disk.nodes[n])
        BY <1>3 DEF LabelInv
      <3>2. Gives(NodeOps, log, 0, n, disk.nodes[n], committed.nodes[n])
        BY DEF NodeInv
      <3>3. Keeps(log \o R, 0, n, disk.nodes[n])
        BY <1>0, <1>1, <3>1, <3>2, KeepsJoined
      <3> QED BY <1>0, <3>3
    <2> QED BY <2>1, <2>2
  <1>4. LabelIndex(disk)' = LabelIndex(disk) /\ PropertyIndex(disk)' = PropertyIndex(disk)
    BY <1>0 DEF LabelIndex, PropertyIndex
  <1>5. LabelIndex(mem)' = LabelIndex(mem') /\ PropertyIndex(mem)' = PropertyIndex(mem')
    BY DEF LabelIndex, PropertyIndex
  <1> QED BY <1>0, <1>1, <1>2, <1>3, <1>4, <1>5 DEF LabelInv

(* The records of an edge insert no node.                                  *)
LEMMA EdgeRecordsOfLabels ==
    ASSUME TInv, NodeInv, LabelInv, status = "open", status' = "open", disk' = disk,
           mixed' = mixed, evicted' = evicted,
           NEW R \in Seq(Records), log' = log \o R,
           \A i \in DOMAIN R : R[i].op \in EdgeOpNames,
           committed'.nodes = committed.nodes,
           mem'.nodes = mem.nodes, mem'.by_label = mem.by_label, mem'.by_prop = mem.by_prop
    PROVE  LabelInv'
  <1>1. \A n \in Nodes : \A j \in DOMAIN R : ~Inserts(NodeOps, R[j], n)
    BY DEF Inserts, NodeOps, EdgeOpNames
  <1>2. ASSUME ~mixed, ~Relabel PROVE LabelIndex(mem') /\ PropertyIndex(mem')
    BY <1>2 DEF LabelInv, LabelIndex, PropertyIndex
  <1>3. ASSUME ~mixed, ~Relabel
        PROVE  \A n \in Nodes : committed'.nodes[n] # Absent => Inserted(n) \subseteq committed'.nodes[n].labels
    BY <1>3 DEF LabelInv
  <1>4. CommitLabelsStep(R)
    BY <1>1, <1>2, <1>3 DEF CommitLabelsStep
  <1> QED BY <1>4, CommitLabels
-----------------------------------------------------------------------------
(* The indexes of every reachable state.                                   *)

LEMMA LabelsStart == Init => LabelInv
  <1> SUFFICES ASSUME Init PROVE LabelInv
    OBVIOUS
  <1>1. /\ log = <<>> /\ status = "open" /\ committed.nodes = EmptyTrees.nodes
        /\ mem = EmptyTrees /\ disk = EmptyTrees
    BY DEF Init
  <1>2. /\ EmptyTrees.by_label = {} /\ EmptyTrees.by_prop = {}
        /\ \A n \in Nodes : EmptyTrees.nodes[n] = Absent
    BY DEF EmptyTrees
  <1>3. LabelIndex(EmptyTrees) /\ PropertyIndex(EmptyTrees)
    <2>1. \A n \in Nodes : IndexEntries(n, EmptyTrees.nodes[n]) = {}
      BY <1>2 DEF IndexEntries
    <2>2. PropertyIndex(EmptyTrees)
      BY <1>2, <2>1, PropertyIndexIs
    <2>3. LabelIndex(EmptyTrees)
      BY <1>2 DEF LabelIndex
    <2> QED BY <2>2, <2>3
  <1>4. \A n \in Nodes : Keeps(log, 0, n, disk.nodes[n])
    BY <1>1, <1>2 DEF Keeps
  <1> QED BY <1>1, <1>2, <1>3, <1>4 DEF LabelInv

LEMMA NodeLabelsStep ==
    ASSUME TInv, NodeInv, LabelInv, NEW n \in Nodes, NEW new \in Cells, commitNode(n, new)
    PROVE  LabelInv'
  <1> DEFINE old == mem.nodes[n]
             R == NodeRecords(n, old, new)
  <1>1. /\ new # old /\ status = "open" /\ status' = "open" /\ disk' = disk
        /\ mixed' = mixed /\ evicted' = evicted
        /\ log' = log \o R /\ mem' = applyNodeState(n, new)
        /\ committed' = [committed EXCEPT !.nodes[n] = new]
        /\ Relabel \/ IF new = Absent THEN TRUE ELSE Inserted(n) \subseteq new.labels
    BY DEF commitNode, Open
  <1>2. old \in Cells /\ mem \in Trees
    BY DEF TInv, Trees
  <1>3. /\ R \in Seq(Records)
        /\ \A i \in DOMAIN R : R[i].id = n /\ (R[i].op = "node_insert" =>
             old = Absent /\ new # Absent /\ R[i].arg = new.labels)
    BY <1>1, <1>2, NodeRecordsAre
  <1> HIDE DEF R
  <1>4. \A m \in Nodes : /\ mem.nodes[m] = committed.nodes[m]
                         /\ committed'.nodes[m] = IF m = n THEN new ELSE committed.nodes[m]
    <2>1. committed'.nodes = [committed.nodes EXCEPT ![n] = new]
      BY <1>1 DEF TInv
    <2> QED BY <1>1, <2>1 DEF TInv, NodeInv
  <1>5. \A m \in Nodes : \A j \in DOMAIN R : Inserts(NodeOps, R[j], m) =>
          /\ committed.nodes[m] = Absent
          /\ committed'.nodes[m] # Absent => R[j].arg \subseteq committed'.nodes[m].labels
    <2> SUFFICES ASSUME NEW m \in Nodes, NEW j \in DOMAIN R, Inserts(NodeOps, R[j], m)
                 PROVE  /\ committed.nodes[m] = Absent
                        /\ R[j].arg \subseteq committed'.nodes[m].labels
      OBVIOUS
    <2>1. m = n /\ R[j].op = "node_insert"
      BY <1>3 DEF Inserts, NodeOps
    <2> QED BY <1>3, <1>4, <2>1
  <1>6. ASSUME ~mixed, ~Relabel
        PROVE  \A m \in Nodes :
                 committed'.nodes[m] # Absent => Inserted(m) \subseteq committed'.nodes[m].labels
    BY <1>1, <1>4, <1>6 DEF LabelInv
  <1>7. ASSUME ~mixed, ~Relabel PROVE LabelIndex(mem') /\ PropertyIndex(mem')
    <2>1. LabelIndex(mem) /\ PropertyIndex(mem)
      BY <1>1, <1>7 DEF LabelInv
    <2> QED BY <1>1, <1>2, <2>1, LabelIndexApplied, PropertyIndexApplied
  <1>8. CommitLabelsStep(R)
    BY <1>1, <1>5, <1>6, <1>7 DEF CommitLabelsStep
  <1> QED BY <1>3, <1>8, CommitLabels

LEMMA EdgeLabelsStep ==
    ASSUME TInv, NodeInv, LabelInv, NEW t \in Trees, NEW m,
           t.nodes = mem.nodes, t.by_label = mem.by_label, t.by_prop = mem.by_prop,
           mem' = [t EXCEPT !.edge_meta = m],
           NEW R \in Seq(Records), log' = log \o R,
           \A i \in DOMAIN R : R[i].op \in EdgeOpNames,
           committed'.nodes = committed.nodes, status = "open",
           UNCHANGED <<status, disk, mixed, evicted>>
    PROVE  LabelInv'
  <1>1. mem'.nodes = mem.nodes /\ mem'.by_label = mem.by_label /\ mem'.by_prop = mem.by_prop
    BY MetaUpdate
  <1> QED BY <1>1, EdgeRecordsOfLabels

LEMMA LabelsRedone ==
    ASSUME TInv, NodeInv, LabelInv, redoPass
    PROVE  LabelInv'
  <1> DEFINE r == log[applied + 1]
  <1>1. /\ status = "recovering" /\ applied \in Nat /\ applied < Len(log) /\ log \in Seq(Records)
        /\ mem' = Redo(mem, r) /\ applied' = applied + 1 /\ r \in Records
        /\ UNCHANGED <<status, disk, log, evicted, committed, mixed>>
    BY DEF redoPass, TInv
  <1> HIDE DEF r
  <1> SUFFICES ASSUME ~mixed, ~Relabel PROVE LabelInv'
    BY <1>1 DEF LabelInv
  <1>2. /\ LabelIndex(mem) /\ mem \in Trees
        /\ \A n \in Nodes : Keeps(log, applied, n, mem.nodes[n]) /\ InsertFirst(NodeOps, log, n)
    BY <1>1 DEF LabelInv, NodeInv, LogOf, TInv
  <1>3. LabelIndex(mem')
    <2>1. ASSUME r.op = "node_insert", mem.nodes[r.id] # Absent
          PROVE  r.arg \subseteq mem.nodes[r.id].labels
      <3>1. r.id \in Nodes
        BY <1>1, <2>1, RecordIs
      <3>2. Inserts(NodeOps, log[applied + 1], r.id)
        BY <2>1 DEF Inserts, NodeOps, r
      <3>3. log[applied + 1].arg \subseteq mem.nodes[r.id].labels
        BY <1>1, <1>2, <2>1, <3>1, <3>2, KeepsStep
      <3> QED BY <3>3 DEF r
    <2> QED BY <1>1, <1>2, <2>1, RedoLabelIndex
  <1>4. \A n \in Nodes : Keeps(log, applied + 1, n, mem'.nodes[n])
    <2> SUFFICES ASSUME NEW n \in Nodes PROVE Keeps(log, applied + 1, n, mem'.nodes[n])
      OBVIOUS
    <2>1. Keeps(log, applied + 1, n, RedoCell(NodeOps, mem.nodes[n], log[applied + 1], n))
      BY <1>1, <1>2, KeepsStep
    <2>2. mem'.nodes[n] = RedoCell(NodeOps, mem.nodes[n], log[applied + 1], n)
      BY <1>1, <1>2, RedoNodesAre DEF r
    <2> QED BY <2>1, <2>2
  <1>5. log # <<>>
    BY <1>1
  <1>6. /\ LabelIndex(mem)' = LabelIndex(mem') /\ LabelIndex(disk)' = LabelIndex(disk)
        /\ PropertyIndex(disk)' = PropertyIndex(disk)
        /\ \A n \in Nodes : Inserted(n)' = Inserted(n)
    BY <1>1 DEF LabelIndex, PropertyIndex, Inserted
  <1> QED BY <1>1, <1>3, <1>4, <1>5, <1>6 DEF LabelInv

LEMMA LabelsStep == TInv /\ NodeInv /\ LabelInv /\ [Next]_vars => LabelInv'
  <1> SUFFICES ASSUME TInv, NodeInv, LabelInv, [Next]_vars PROVE LabelInv'
    OBVIOUS
  <1>0. mem \in Trees /\ disk \in Trees
    BY DEF TInv
  <1>1. CASE UNCHANGED vars
    BY <1>1 DEF LabelInv, LabelIndex, PropertyIndex, Inserted, vars
  <1>2. ASSUME NEW n \in Nodes, NEW new \in Cells, commitNode(n, new) PROVE LabelInv'
    BY <1>2, NodeLabelsStep
  <1>3. ASSUME NEW prop \in Props, commitCreateEdge(prop) PROVE LabelInv'
    <2>1. PICK R \in Seq(Records) : log' = log \o R /\ \A i \in DOMAIN R : R[i].op \in EdgeOpNames
      BY <1>3, CreateEdgeRecords
    <2>2. next_edge \in Edges
      BY <1>3 DEF commitCreateEdge
    <2>3. /\ mem' = [createWithId(mem, next_edge, prop) EXCEPT !.edge_meta = next_edge']
          /\ committed'.nodes = committed.nodes /\ status = "open"
          /\ UNCHANGED <<status, disk, mixed, evicted>>
      BY <1>3 DEF commitCreateEdge, EdgeApplied, Open, TInv
    <2> QED BY <1>0, <2>1, <2>2, <2>3, CreateType, EdgeLabelsStep
  <1>4. ASSUME NEW e \in Edges, NEW prop \in Props, commitEdgeProperty(e, prop) PROVE LabelInv'
    <2>1. PICK R \in Seq(Records) : log' = log \o R /\ \A i \in DOMAIN R : R[i].op \in EdgeOpNames
      BY <1>4, EdgePropertyRecords
    <2> DEFINE t == createWithId(deleteById(mem, e), e, prop)
    <2>2. /\ mem' = [t EXCEPT !.edge_meta = next_edge']
          /\ committed'.nodes = committed.nodes /\ status = "open"
          /\ UNCHANGED <<status, disk, mixed, evicted>>
      BY <1>4 DEF commitEdgeProperty, EdgeApplied, Open, TInv
    <2>3. /\ t \in Trees /\ t.nodes = mem.nodes /\ t.by_label = mem.by_label
          /\ t.by_prop = mem.by_prop
      <3>1. /\ deleteById(mem, e) \in Trees /\ deleteById(mem, e).nodes = mem.nodes
            /\ deleteById(mem, e).by_label = mem.by_label /\ deleteById(mem, e).by_prop = mem.by_prop
        BY <1>0, DeleteType
      <3> QED BY <3>1, CreateType
    <2> HIDE DEF t
    <2> QED BY <2>1, <2>2, <2>3, EdgeLabelsStep
  <1>5. ASSUME NEW e \in Edges, commitDeleteEdge(e) PROVE LabelInv'
    <2>1. PICK R \in Seq(Records) : log' = log \o R /\ \A i \in DOMAIN R : R[i].op \in EdgeOpNames
      BY <1>5, DeleteEdgeRecords
    <2>2. /\ mem' = [deleteById(mem, e) EXCEPT !.edge_meta = next_edge']
          /\ committed'.nodes = committed.nodes /\ status = "open"
          /\ UNCHANGED <<status, disk, mixed, evicted>>
      BY <1>5 DEF commitDeleteEdge, EdgeApplied, Open, TInv
    <2> QED BY <1>0, <2>1, <2>2, DeleteType, EdgeLabelsStep
  <1>6. CASE commitCreateDeleteEdge
    <2>1. PICK R \in Seq(Records) : log' = log \o R /\ \A i \in DOMAIN R : R[i].op \in EdgeOpNames
      BY <1>6, CreateDeleteRecords
    <2>2. /\ mem' = [mem EXCEPT !.edge_meta = next_edge']
          /\ committed'.nodes = committed.nodes /\ status = "open"
          /\ UNCHANGED <<status, disk, mixed, evicted>>
      BY <1>6 DEF commitCreateDeleteEdge, EdgeApplied, Open
    <2> QED BY <1>0, <2>1, <2>2, EdgeLabelsStep
  <1>7. CASE rollbackCreateEdge
    BY <1>7 DEF rollbackCreateEdge, LabelInv, LabelIndex, PropertyIndex, Inserted
  <1>8. ASSUME NEW tree \in {"nodes", "by_label", "edges", "adj"}, evict(tree) PROVE LabelInv'
    <2>1. evicted' /\ UNCHANGED <<status, mem, log, applied, committed, mixed>>
      BY <1>8 DEF evict
    <2> QED BY <2>1 DEF LabelInv, LabelIndex, PropertyIndex, Inserted
  <1>9. CASE flushAll
    <2>1. status = "open" /\ disk' = mem /\ UNCHANGED <<status, mem, log, applied, committed, mixed>>
      BY <1>9 DEF flushAll
    <2>2. ASSUME ~mixed, ~Relabel, NEW n \in Nodes PROVE Keeps(log, 0, n, mem.nodes[n])
      <3>1. mem.nodes[n] = committed.nodes[n]
        BY <2>1 DEF NodeInv
      <3>2. committed.nodes[n] # Absent => Inserted(n) \subseteq committed.nodes[n].labels
        BY <2>2 DEF LabelInv
      <3>3. After(log, 0) = DOMAIN log
        BY DEF After, TInv
      <3> QED BY <3>1, <3>2, <3>3, InsertedEach DEF Keeps
    <2>3. /\ LabelIndex(mem)' = LabelIndex(mem) /\ PropertyIndex(mem)' = PropertyIndex(mem)
          /\ LabelIndex(disk)' = LabelIndex(mem) /\ PropertyIndex(disk)' = PropertyIndex(mem)
          /\ \A n \in Nodes : Inserted(n)' = Inserted(n)
      BY <2>1 DEF LabelIndex, PropertyIndex, Inserted
    <2> QED BY <2>1, <2>2, <2>3 DEF LabelInv
  <1>10. CASE checkpoint
    <2>1. /\ status = "open" /\ disk' = mem /\ log' = <<>>
          /\ UNCHANGED <<status, mem, applied, committed, mixed>>
      BY <1>10 DEF checkpoint
    <2>2. /\ LabelIndex(mem)' = LabelIndex(mem) /\ PropertyIndex(mem)' = PropertyIndex(mem)
          /\ LabelIndex(disk)' = LabelIndex(mem) /\ PropertyIndex(disk)' = PropertyIndex(mem)
      BY <2>1 DEF LabelIndex, PropertyIndex
    <2>3. \A n \in Nodes : Inserted(n)' = {}
      BY <2>1 DEF Inserted
    <2>4. \A n \in Nodes : Keeps(<<>>, 0, n, mem.nodes[n])
      BY DEF Keeps, After
    <2> QED BY <2>1, <2>2, <2>3, <2>4 DEF LabelInv
  <1>11. CASE kill
    <2>1. /\ status' = "closed" /\ mixed' = (mixed \/ evicted) /\ UNCHANGED <<disk, log, committed>>
      BY <1>11 DEF kill
    <2>2. /\ LabelIndex(disk)' = LabelIndex(disk) /\ PropertyIndex(disk)' = PropertyIndex(disk)
          /\ \A n \in Nodes : Inserted(n)' = Inserted(n)
      BY <2>1 DEF LabelIndex, PropertyIndex, Inserted
    <2> QED BY <2>1, <2>2 DEF LabelInv
  <1>12. CASE open
    <2>1. /\ status = "closed" /\ status' = "recovering" /\ mem' = disk /\ applied' = 0 /\ ~evicted
          /\ UNCHANGED <<disk, log, evicted, committed, mixed>>
      BY <1>12 DEF open, TInv
    <2>2. /\ LabelIndex(disk)' = LabelIndex(disk) /\ PropertyIndex(disk)' = PropertyIndex(disk)
          /\ LabelIndex(mem)' = LabelIndex(disk) /\ PropertyIndex(mem)' = PropertyIndex(disk)
          /\ \A n \in Nodes : Inserted(n)' = Inserted(n)
      BY <2>1 DEF LabelIndex, PropertyIndex, Inserted
    <2> QED BY <2>1, <2>2 DEF LabelInv
  <1>13. CASE redoPass
    BY <1>13, LabelsRedone
  <1>14. CASE resume
    <2>1. /\ status = "recovering" /\ status' = "open"
          /\ UNCHANGED <<disk, log, evicted, committed, mixed>>
          /\ mem' = IF log = <<>> THEN mem ELSE rebuildPropertyIndexes(mem)
      BY <1>14 DEF resume
    <2>2. ASSUME ~mixed, ~Relabel PROVE LabelIndex(mem') /\ PropertyIndex(mem')
      <3>1. LabelIndex(mem) /\ (log = <<>> => PropertyIndex(mem))
        BY <2>1, <2>2 DEF LabelInv
      <3>2. CASE log = <<>>
        BY <2>1, <3>1, <3>2
      <3>3. CASE log # <<>>
        <4>1. mem' = rebuildPropertyIndexes(mem)
          BY <2>1, <3>3
        <4>2. PropertyIndex(mem')
          BY <1>0, <3>1, <4>1, PropertyIndexRebuilt
        <4>3. mem'.nodes = mem.nodes /\ mem'.by_label = mem.by_label
          BY <1>0, <4>1, RebuiltIs
        <4> QED BY <3>1, <4>2, <4>3 DEF LabelIndex
      <3> QED BY <3>2, <3>3
    <2>3. /\ LabelIndex(disk)' = LabelIndex(disk) /\ PropertyIndex(disk)' = PropertyIndex(disk)
          /\ LabelIndex(mem)' = LabelIndex(mem') /\ PropertyIndex(mem)' = PropertyIndex(mem')
          /\ \A n \in Nodes : Inserted(n)' = Inserted(n)
      BY <2>1 DEF LabelIndex, PropertyIndex, Inserted
    <2> QED BY <2>1, <2>2, <2>3 DEF LabelInv
  <1>15. NodeStates \cup {Absent} = Cells
    BY DEF Cells
  <1> QED BY <1>1, <1>2, <1>3, <1>4, <1>5, <1>6, <1>7, <1>8, <1>9, <1>10, <1>11, <1>12, <1>13, <1>14, <1>15
          DEF Next, Commit
-----------------------------------------------------------------------------
(* The theorems.                                                           *)

(* Every tree, in the open handle and in the file, keeps its type through  *)
(* commits, kills and recoveries: no counter leaves its range and recovery *)
(* never runs past the log.                                                *)
THEOREM TypeCorrect == Spec => []TypeOK
  <1>1. TInv => TypeOK
    BY TypesHold
  <1> QED BY <1>1, TypesStart, TypesStep, PTL DEF Spec

(* Recovery gives back the committed nodes, whichever version of the node  *)
(* tree was in the file and however often the log was redone over later    *)
(* versions of it, a kill in the middle of recovery included.              *)
THEOREM NodesComeBack == Spec => []NodesRecovered
  <1>1. TInv /\ NodeInv => NodesRecovered
    <2> SUFFICES ASSUME TInv, NodeInv, status = "open" PROVE mem.nodes = committed.nodes
      BY DEF NodesRecovered
    <2>1. mem.nodes \in [Nodes -> Cells] /\ committed.nodes \in [Nodes -> Cells]
      BY DEF TInv, Trees
    <2>2. \A n \in Nodes : mem.nodes[n] = committed.nodes[n]
      BY DEF NodeInv
    <2> QED BY <2>1, <2>2
  <1> QED BY <1>1, TypesStart, TypesStep, NodesStart, NodesStep, PTL DEF Spec

(* So it does with the edges, rows and traversal keys alike, as long as no *)
(* kill found their trees in the file in versions of different moments.    *)
THEOREM EdgesComeBack == Spec => []EdgesRecovered
  <1>1. EdgeInv => EdgesRecovered
    BY DEF EdgeInv, EdgeTrees, EdgesRecovered
  <1> QED BY <1>1, TypesStart, TypesStep, EdgesStart, EdgesStep, PTL DEF Spec

(* And no edge id that a transaction committed is given out again, though  *)
(* the counter that said so had not been written when the process died.    *)
THEOREM EdgeIdsAreNotReused == Spec => []CommittedEdgeIdsNotReused
  <1>1. TInv /\ EdgeInv => CommittedEdgeIdsNotReused
    <2> SUFFICES ASSUME TInv, EdgeInv, status = "open", ~mixed PROVE used < next_edge
      BY DEF CommittedEdgeIdsNotReused
    <2>1. used < mem.edge_meta /\ mem.edge_meta <= next_edge
      BY DEF EdgeInv
    <2>2. used \in Int /\ mem.edge_meta \in Int /\ next_edge \in Int
      BY Numbers DEF TInv, Trees
    <2> QED BY <2>1, <2>2
  <1> QED BY <1>1, TypesStart, TypesStep, EdgesStart, EdgesStep, PTL DEF Spec

(* Unless a transaction takes away a label that the log still inserts its  *)
(* node with, a lookup by label finds the nodes that have the label and no *)
(* others, before and after a recovery.                                    *)
THEOREM LabelsStayIndexed == ~Relabel => (Spec => []LabelsIndexed)
  <1> SUFFICES ASSUME ~Relabel PROVE Spec => []LabelsIndexed
    OBVIOUS
  <1>1. LabelInv => LabelsIndexed
    BY DEF LabelInv, LabelIndex, LabelsIndexed
  <1> QED BY <1>1, TypesStart, TypesStep, NodesStart, NodesStep, LabelsStart, LabelsStep, PTL DEF Spec

(* And a lookup by label and value finds the nodes that have both.         *)
THEOREM PropertiesStayIndexed == ~Relabel => (Spec => []PropertiesIndexed)
  <1> SUFFICES ASSUME ~Relabel PROVE Spec => []PropertiesIndexed
    OBVIOUS
  <1>1. LabelInv => PropertiesIndexed
    BY DEF LabelInv, PropertyIndex, PropertiesIndexed
  <1> QED BY <1>1, TypesStart, TypesStep, NodesStart, NodesStep, LabelsStart, LabelsStep, PTL DEF Spec
=============================================================================
