---------------------------- MODULE PyGraph_proofs ----------------------------
(***************************************************************************)
(* Theorems about PyGraph: between calls, what the methods that read would *)
(* return is what the methods have told the program, and a creation is     *)
(* committed whole or not at all.  The codec is any that gives back what   *)
(* it has encoded.                                                         *)
(***************************************************************************)
EXTENDS PyGraph, FiniteSetTheorems, TLAPS

(* Types, and what a creation under way has made so far.                   *)
UnderWay == IF call.op = None THEN {} ELSE {<<call.op, call.id>>}

CallInv ==
  /\ call.op = None => call = NoCall
  /\ call.op = "node" =>
       /\ call.id \in Nodes /\ call.id < ids.node /\ view.node[call.id] # None
       /\ view.node[call.id].labels \cup call.todo = call.labels
       /\ view.node[call.id].prop = None /\ view.node[call.id].vector = FALSE
  /\ call.op = "edge" =>
       /\ call.id \in Edges /\ call.id < ids.edge /\ view.edge[call.id] # None
       /\ view.edge[call.id].prop = None

TInv == TypeOK /\ CallInv

(* What is stored is what was told.                                        *)
PropSame(p, v) == IF v = None THEN p = None ELSE p = PythonToValue(v) /\ p # Refused

NodeSame(s, k) ==
  IF k = None THEN s = None
  ELSE s # None /\ s.labels = k.labels /\ s.vector = k.vector /\ PropSame(s.prop, k.prop)

EdgeSame(s, k) ==
  IF k = None THEN s = None
  ELSE s # None /\ s.source = k.source /\ s.target = k.target /\ PropSame(s.prop, k.prop)

\* The graph g is as h says, but for the things in T.
Agree(g, h, T) ==
  /\ \A n \in Nodes : <<"node", n>> \notin T => NodeSame(g.node[n], h.node[n])
  /\ \A e \in Edges : <<"edge", e>> \notin T => EdgeSame(g.edge[e], h.edge[e])

AInv == Agree(base, settled, torn) /\ Agree(view, known, torn \cup UnderWay)

(* What was torn is not made again, and is nowhere that a block without a  *)
(* caught exception could commit.                                          *)
Held(g) ==
  /\ \A n \in Nodes : <<"node", n>> \in torn \ excused => g.node[n] = None
  /\ \A e \in Edges : <<"edge", e>> \in torn \ excused => g.edge[e] = None

\* No node or edge of g is one that is still to be made, or in T.
Unmade(g, T) ==
  /\ \A n \in Nodes : n >= ids.node \/ <<"node", n>> \in T => g.node[n] = None
  /\ \A e \in Edges : e >= ids.edge \/ <<"edge", e>> \in T => g.edge[e] = None

OInv ==
  /\ Unmade(base, UnderWay) /\ Unmade(view, {})
  /\ Unmade(settled, torn \cup UnderWay) /\ Unmade(known, torn \cup UnderWay)
  /\ \A n \in Nodes : <<"node", n>> \in torn => n < ids.node
  /\ \A e \in Edges : <<"edge", e>> \in torn => e < ids.edge
  /\ torn \cap UnderWay = {}
  /\ Held(base)
  /\ block = "in" /\ ~caught => Held(view)

-----------------------------------------------------------------------------
(* Graphs and their things.                                                *)

Stores == GraphsOf(SUBSET Labels, Stored)
Tellings == GraphsOf(SUBSET Labels, Values)

LEMMA NoNone ==
  /\ None \notin NodesOf(SUBSET Labels, Stored) /\ None \notin EdgesOf(Stored)
  /\ None \notin NodesOf(SUBSET Labels, Values) /\ None \notin EdgesOf(Values)
  /\ None \notin Nodes \cup Edges
  /\ \A v \in Values : v # None /\ PythonToValue(v) # None
  /\ Nodes \subseteq Nat /\ Edges \subseteq Nat /\ None # "node" /\ None # "edge"
  BY GraphAssumption, NoneAssumption

\* A thing of a graph is None or has the fields of a node or an edge.
LEMMA Things ==
  ASSUME NEW Ls, NEW Ps, NEW g \in GraphsOf(Ls, Ps)
  PROVE  /\ g = [node |-> g.node, edge |-> g.edge]
         /\ \A n \in Nodes : g.node[n] \in NodesOf(Ls, Ps) \cup {None}
         /\ \A e \in Edges : g.edge[e] \in EdgesOf(Ps) \cup {None}
  BY DEF GraphsOf

\* What replacing a node does.
LEMMA PutNode ==
  ASSUME NEW Ls, NEW Ps, NEW g \in GraphsOf(Ls, Ps), NEW n \in Nodes,
         NEW x \in NodesOf(Ls, Ps) \cup {None},
         NEW h, h = [g EXCEPT !.node[n] = x]
  PROVE  /\ h \in GraphsOf(Ls, Ps) /\ h.edge = g.edge /\ h.node[n] = x
         /\ \A m \in Nodes : m # n => h.node[m] = g.node[m]
  <1>1. h = [g EXCEPT !.node = [g.node EXCEPT ![n] = x]]
    OBVIOUS
  <1>2. h = [node |-> [g.node EXCEPT ![n] = x], edge |-> g.edge]
    BY <1>1, Things
  <1> QED BY <1>2 DEF GraphsOf

\* The same for an edge.
LEMMA PutEdge ==
  ASSUME NEW Ls, NEW Ps, NEW g \in GraphsOf(Ls, Ps), NEW e \in Edges,
         NEW x \in EdgesOf(Ps) \cup {None},
         NEW h, h = [g EXCEPT !.edge[e] = x]
  PROVE  /\ h \in GraphsOf(Ls, Ps) /\ h.node = g.node /\ h.edge[e] = x
         /\ \A d \in Edges : d # e => h.edge[d] = g.edge[d]
  <1>1. h = [g EXCEPT !.edge = [g.edge EXCEPT ![e] = x]]
    OBVIOUS
  <1>2. h = [node |-> g.node, edge |-> [g.edge EXCEPT ![e] = x]]
    BY <1>1, Things
  <1> QED BY <1>2 DEF GraphsOf

\* Replacing one attribute of a node or an edge.
LEMMA NodeProp ==
  ASSUME NEW Ls, NEW Ps, NEW p \in Ps \cup {None}, NEW s \in NodesOf(Ls, Ps),
         NEW x, x = [s EXCEPT !.prop = p]
  PROVE  x \in NodesOf(Ls, Ps) /\ x.labels = s.labels /\ x.prop = p /\ x.vector = s.vector
  <1>1. x = [labels |-> s.labels, prop |-> p, vector |-> s.vector]
    BY DEF NodesOf
  <1> QED BY <1>1 DEF NodesOf

LEMMA NodeVector ==
  ASSUME NEW Ls, NEW Ps, NEW b \in BOOLEAN, NEW s \in NodesOf(Ls, Ps),
         NEW x, x = [s EXCEPT !.vector = b]
  PROVE  x \in NodesOf(Ls, Ps) /\ x.labels = s.labels /\ x.prop = s.prop /\ x.vector = b
  <1>1. x = [labels |-> s.labels, prop |-> s.prop, vector |-> b]
    BY DEF NodesOf
  <1> QED BY <1>1 DEF NodesOf

LEMMA NodeLabels ==
  ASSUME NEW Ls, NEW Ps, NEW L \in Ls, NEW s \in NodesOf(Ls, Ps),
         NEW x, x = [s EXCEPT !.labels = L]
  PROVE  x \in NodesOf(Ls, Ps) /\ x.labels = L /\ x.prop = s.prop /\ x.vector = s.vector
  <1>1. x = [labels |-> L, prop |-> s.prop, vector |-> s.vector]
    BY DEF NodesOf
  <1> QED BY <1>1 DEF NodesOf

LEMMA EdgeProp ==
  ASSUME NEW Ps, NEW p \in Ps \cup {None}, NEW s \in EdgesOf(Ps),
         NEW x, x = [s EXCEPT !.prop = p]
  PROVE  x \in EdgesOf(Ps) /\ x.source = s.source /\ x.target = s.target /\ x.prop = p
  <1>1. x = [source |-> s.source, target |-> s.target, prop |-> p]
    BY DEF EdgesOf
  <1> QED BY <1>1 DEF EdgesOf

\* Agreement is kept when one node changes in step.
LEMMA NodeAgrees ==
  ASSUME NEW g, NEW h, NEW g2, NEW h2, NEW n \in Nodes, NEW T, NEW T2, Agree(g, h, T),
         \A m \in Nodes : m # n => g2.node[m] = g.node[m] /\ h2.node[m] = h.node[m],
         g2.edge = g.edge, h2.edge = h.edge, T \subseteq T2 \cup {<<"node", n>>},
         <<"node", n>> \notin T2 => NodeSame(g2.node[n], h2.node[n])
  PROVE  Agree(g2, h2, T2)
  <1>1. ASSUME NEW m \in Nodes, <<"node", m>> \notin T2 PROVE NodeSame(g2.node[m], h2.node[m])
    <2>1. CASE m = n
      BY <1>1, <2>1
    <2>2. CASE m # n
      <3>1. <<"node", m>> \notin T
        BY <1>1, <2>2
      <3> QED BY <2>2, <3>1 DEF Agree
    <2> QED BY <2>1, <2>2
  <1>2. ASSUME NEW e \in Edges, <<"edge", e>> \notin T2 PROVE EdgeSame(g2.edge[e], h2.edge[e])
    <2>1. <<"edge", e>> \notin T
      BY <1>2
    <2> QED BY <2>1 DEF Agree
  <1> QED BY <1>1, <1>2 DEF Agree

\* The same for an edge.
LEMMA EdgeAgrees ==
  ASSUME NEW g, NEW h, NEW g2, NEW h2, NEW e \in Edges, NEW T, NEW T2, Agree(g, h, T),
         \A d \in Edges : d # e => g2.edge[d] = g.edge[d] /\ h2.edge[d] = h.edge[d],
         g2.node = g.node, h2.node = h.node, T \subseteq T2 \cup {<<"edge", e>>},
         <<"edge", e>> \notin T2 => EdgeSame(g2.edge[e], h2.edge[e])
  PROVE  Agree(g2, h2, T2)
  <1>1. ASSUME NEW d \in Edges, <<"edge", d>> \notin T2 PROVE EdgeSame(g2.edge[d], h2.edge[d])
    <2>1. CASE d = e
      BY <1>1, <2>1
    <2>2. CASE d # e
      <3>1. <<"edge", d>> \notin T
        BY <1>1, <2>2
      <3> QED BY <2>2, <3>1 DEF Agree
    <2> QED BY <2>1, <2>2
  <1>2. ASSUME NEW n \in Nodes, <<"node", n>> \notin T2 PROVE NodeSame(g2.node[n], h2.node[n])
    <2>1. <<"node", n>> \notin T
      BY <1>2
    <2> QED BY <2>1 DEF Agree
  <1> QED BY <1>1, <1>2 DEF Agree

\* Agreement but for more things is less.
LEMMA AgreeLess ==
  ASSUME NEW g, NEW h, NEW T, NEW T2, Agree(g, h, T), T \subseteq T2
  PROVE  Agree(g, h, T2)
  BY DEF Agree
-----------------------------------------------------------------------------
(* What the methods do to the graph, in a common form.                     *)

Put(f, g, x, s) == g[x] = s /\ \A y \in DOMAIN f : y # x => g[y] = f[y]

\* A method of one native call changed the node n, here and in what was told.
NodeWritten(n) ==
  /\ view'.edge = view.edge /\ known'.edge = known.edge
  /\ \E s, k : /\ Put(view.node, view'.node, n, s) /\ Put(known.node, known'.node, n, k)
               /\ NodeSame(view.node[n], known.node[n]) => NodeSame(s, k)
               /\ s # None => view.node[n] # None
               /\ k # None => known.node[n] # None

EdgeWritten(e) ==
  /\ view'.node = view.node /\ known'.node = known.node
  /\ \E s, k : /\ Put(view.edge, view'.edge, e, s) /\ Put(known.edge, known'.edge, e, k)
               /\ EdgeSame(view.edge[e], known.edge[e]) => EdgeSame(s, k)
               /\ s # None => view.edge[e] # None
               /\ k # None => known.edge[e] # None

Written ==
  /\ Write /\ view' \in Stores /\ known' \in Tellings
  /\ UNCHANGED <<base, ids, block, call, torn, readOnly, settled, caught, excused>>

Raised == Write /\ Raises /\ UNCHANGED <<readOnly, settled, caught, excused>>

LEMMA GraphTypes ==
  ASSUME TInv
  PROVE  /\ base \in Stores /\ view \in Stores /\ settled \in Tellings /\ known \in Tellings
         /\ DOMAIN view.node = Nodes /\ DOMAIN known.node = Nodes
         /\ DOMAIN view.edge = Edges /\ DOMAIN known.edge = Edges
         /\ \A n \in Nodes : /\ view.node[n] \in NodesOf(SUBSET Labels, Stored) \cup {None}
                             /\ known.node[n] \in NodesOf(SUBSET Labels, Values) \cup {None}
         /\ \A e \in Edges : /\ view.edge[e] \in EdgesOf(Stored) \cup {None}
                             /\ known.edge[e] \in EdgesOf(Values) \cup {None}
  BY DEF TInv, TypeOK, GraphsOf, Stores, Tellings

\* Both for the view and for what was told.
LEMMA Replaced ==
  ASSUME TInv
  PROVE  /\ \A n \in Nodes, x \in NodesOf(SUBSET Labels, Stored) \cup {None} :
              view' = [view EXCEPT !.node[n] = x] =>
                view' \in Stores /\ view'.edge = view.edge /\ Put(view.node, view'.node, n, x)
         /\ \A n \in Nodes, x \in NodesOf(SUBSET Labels, Values) \cup {None} :
              known' = [known EXCEPT !.node[n] = x] =>
                known' \in Tellings /\ known'.edge = known.edge /\ Put(known.node, known'.node, n, x)
         /\ \A e \in Edges, x \in EdgesOf(Stored) \cup {None} :
              view' = [view EXCEPT !.edge[e] = x] =>
                view' \in Stores /\ view'.node = view.node /\ Put(view.edge, view'.edge, e, x)
         /\ \A e \in Edges, x \in EdgesOf(Values) \cup {None} :
              known' = [known EXCEPT !.edge[e] = x] =>
                known' \in Tellings /\ known'.node = known.node /\ Put(known.edge, known'.edge, e, x)
  <1> DEFINE Ls == SUBSET Labels
             Ps == Stored
             Vs == Values
  <1>0. /\ view \in GraphsOf(Ls, Ps) /\ known \in GraphsOf(Ls, Vs)
        /\ DOMAIN view.node = Nodes /\ DOMAIN known.node = Nodes
        /\ DOMAIN view.edge = Edges /\ DOMAIN known.edge = Edges
    BY GraphTypes DEF Stores, Tellings
  <1> HIDE DEF Ls, Ps, Vs
  <1>1. \A n \in Nodes, x \in NodesOf(Ls, Ps) \cup {None} :
          view' = [view EXCEPT !.node[n] = x] =>
            view' \in GraphsOf(Ls, Ps) /\ view'.edge = view.edge /\ Put(view.node, view'.node, n, x)
    BY <1>0, PutNode DEF Put
  <1>2. \A n \in Nodes, x \in NodesOf(Ls, Vs) \cup {None} :
          known' = [known EXCEPT !.node[n] = x] =>
            known' \in GraphsOf(Ls, Vs) /\ known'.edge = known.edge /\ Put(known.node, known'.node, n, x)
    BY <1>0, PutNode DEF Put
  <1>3. \A e \in Edges, x \in EdgesOf(Ps) \cup {None} :
          view' = [view EXCEPT !.edge[e] = x] =>
            view' \in GraphsOf(Ls, Ps) /\ view'.node = view.node /\ Put(view.edge, view'.edge, e, x)
    BY <1>0, PutEdge DEF Put
  <1>4. \A e \in Edges, x \in EdgesOf(Vs) \cup {None} :
          known' = [known EXCEPT !.edge[e] = x] =>
            known' \in GraphsOf(Ls, Vs) /\ known'.node = known.node /\ Put(known.edge, known'.edge, e, x)
    BY <1>0, PutEdge DEF Put
  <1> QED BY <1>1, <1>2, <1>3, <1>4 DEF Ls, Ps, Vs, Stores, Tellings

LEMMA SetPropertyDoes ==
  ASSUME TInv, NEW n \in Nodes, NEW v \in Values, SetProperty(n, v)
  PROVE  Raised \/ (Written /\ NodeWritten(n))
  <1>1. SUFFICES ASSUME /\ HasNode(n) /\ PythonToValue(v) # Refused
                        /\ view' = [view EXCEPT !.node[n].prop = PythonToValue(v)]
                        /\ known' = IF known.node[n] = None THEN known ELSE [known EXCEPT !.node[n].prop = v]
                        /\ UNCHANGED <<base, ids, block, call, torn>>
                 PROVE  Written /\ NodeWritten(n)
    BY DEF SetProperty, Raised
  <1> DEFINE p == PythonToValue(v)
             s == [view.node[n] EXCEPT !.prop = p]
             k == [known.node[n] EXCEPT !.prop = v]
  <1>2. p \in Stored /\ view.node[n] \in NodesOf(SUBSET Labels, Stored)
    BY <1>1, GraphTypes DEF Stored, HasNode
  <1>3. /\ s \in NodesOf(SUBSET Labels, Stored)
        /\ s.labels = view.node[n].labels /\ s.prop = p /\ s.vector = view.node[n].vector
    <2> HIDE DEF p
    <2> QED BY <1>2, NodeProp
  <1>4. view' = [view EXCEPT !.node[n] = s]
    BY <1>1
  <1>5. known.node[n] # None =>
          /\ k \in NodesOf(SUBSET Labels, Values)
          /\ k.labels = known.node[n].labels /\ k.prop = v /\ k.vector = known.node[n].vector
          /\ known' = [known EXCEPT !.node[n] = k]
    <2> SUFFICES ASSUME known.node[n] # None
                 PROVE  /\ k \in NodesOf(SUBSET Labels, Values)
                        /\ k.labels = known.node[n].labels /\ k.prop = v /\ k.vector = known.node[n].vector
                        /\ known' = [known EXCEPT !.node[n] = k]
      OBVIOUS
    <2>1. known.node[n] \in NodesOf(SUBSET Labels, Values)
      BY GraphTypes
    <2>2. /\ k \in NodesOf(SUBSET Labels, Values)
          /\ k.labels = known.node[n].labels /\ k.prop = v /\ k.vector = known.node[n].vector
      BY <2>1, NodeProp
    <2> QED BY <1>1, <2>2
  <1> HIDE DEF s, k, p
  <1>6. /\ view' \in Stores /\ view'.edge = view.edge /\ Put(view.node, view'.node, n, s)
    BY <1>3, <1>4, Replaced
  <1>7. s # None /\ view.node[n] # None
    BY <1>1, <1>3, NoNone DEF HasNode
  <1>8. CASE known.node[n] = None
    <2>1. known' = known
      BY <1>1, <1>8
    <2>2. ~NodeSame(view.node[n], known.node[n])
      BY <1>7, <1>8 DEF NodeSame
    <2>3. Put(known.node, known'.node, n, known.node[n]) /\ known' \in Tellings
      BY <2>1, GraphTypes DEF Put
    <2> QED BY <1>1, <1>6, <1>7, <2>1, <2>2, <2>3 DEF Written, NodeWritten, SetProperty
  <1>9. CASE known.node[n] # None
    <2>1. /\ known' \in Tellings /\ known'.edge = known.edge /\ Put(known.node, known'.node, n, k)
      BY <1>5, <1>9, Replaced
    <2>2. k # None /\ v # None
      BY <1>5, <1>9, NoNone
    <2>3. NodeSame(view.node[n], known.node[n]) => NodeSame(s, k)
      <3>1. PropSame(p, v)
        BY <1>1, <2>2 DEF PropSame, p
      <3> QED BY <1>3, <1>5, <1>7, <1>9, <2>2, <3>1 DEF NodeSame
    <2> QED BY <1>1, <1>6, <1>7, <1>9, <2>1, <2>3 DEF Written, NodeWritten, SetProperty
  <1> QED BY <1>8, <1>9

LEMMA SetVectorDoes ==
  ASSUME TInv, NEW n \in Nodes, SetVector(n)
  PROVE  Raised \/ (Written /\ NodeWritten(n))
  <1>1. SUFFICES ASSUME /\ HasNode(n)
                        /\ view' = [view EXCEPT !.node[n].vector = TRUE]
                        /\ known' = IF known.node[n] = None THEN known ELSE [known EXCEPT !.node[n].vector = TRUE]
                        /\ UNCHANGED <<base, ids, block, call, torn>>
                 PROVE  Written /\ NodeWritten(n)
    BY DEF SetVector, Raised
  <1> DEFINE b == TRUE
             s == [view.node[n] EXCEPT !.vector = b]
             k == [known.node[n] EXCEPT !.vector = b]
  <1>2. b \in BOOLEAN /\ view.node[n] \in NodesOf(SUBSET Labels, Stored)
    BY <1>1, GraphTypes DEF HasNode
  <1>4. view' = [view EXCEPT !.node[n] = s]
    BY <1>1
  <1>5. known.node[n] # None => known' = [known EXCEPT !.node[n] = k]
    BY <1>1
  <1> HIDE DEF b
  <1>3. /\ s \in NodesOf(SUBSET Labels, Stored)
        /\ s.labels = view.node[n].labels /\ s.prop = view.node[n].prop /\ s.vector = b
    BY <1>2, NodeVector
  <1>10. known.node[n] # None =>
          /\ k \in NodesOf(SUBSET Labels, Values)
          /\ k.labels = known.node[n].labels /\ k.prop = known.node[n].prop /\ k.vector = b
    <2>1. known.node[n] # None => known.node[n] \in NodesOf(SUBSET Labels, Values)
      BY GraphTypes
    <2> QED BY <1>2, <2>1, NodeVector
  <1> HIDE DEF s, k
  <1>6. /\ view' \in Stores /\ view'.edge = view.edge /\ Put(view.node, view'.node, n, s)
    BY <1>3, <1>4, Replaced
  <1>7. s # None /\ view.node[n] # None
    BY <1>1, <1>3, NoNone DEF HasNode
  <1>8. CASE known.node[n] = None
    <2>1. known' = known
      BY <1>1, <1>8
    <2>2. ~NodeSame(view.node[n], known.node[n])
      BY <1>7, <1>8 DEF NodeSame
    <2>3. Put(known.node, known'.node, n, known.node[n]) /\ known' \in Tellings
      BY <2>1, GraphTypes DEF Put
    <2> QED BY <1>1, <1>6, <1>7, <2>1, <2>2, <2>3 DEF Written, NodeWritten, SetVector
  <1>9. CASE known.node[n] # None
    <2>1. /\ known' \in Tellings /\ known'.edge = known.edge /\ Put(known.node, known'.node, n, k)
      BY <1>5, <1>9, <1>10, Replaced
    <2>2. k # None
      BY <1>9, <1>10, NoNone
    <2>3. NodeSame(view.node[n], known.node[n]) => NodeSame(s, k)
      BY <1>3, <1>7, <1>9, <1>10, <2>2 DEF NodeSame
    <2> QED BY <1>1, <1>6, <1>7, <1>9, <2>1, <2>3 DEF Written, NodeWritten, SetVector
  <1> QED BY <1>8, <1>9

LEMMA DeleteNodeDoes ==
  ASSUME TInv, NEW n \in Nodes, DeleteNode(n)
  PROVE  Raised \/ (Written /\ NodeWritten(n))
  <1>1. SUFFICES ASSUME /\ view' = [view EXCEPT !.node[n] = None]
                        /\ known' = [known EXCEPT !.node[n] = None]
                        /\ UNCHANGED <<base, ids, block, call, torn>>
                 PROVE  Written /\ NodeWritten(n)
    BY DEF DeleteNode, Raised
  <1>2. /\ view' \in Stores /\ view'.edge = view.edge /\ Put(view.node, view'.node, n, None)
    BY <1>1, Replaced
  <1>3. /\ known' \in Tellings /\ known'.edge = known.edge /\ Put(known.node, known'.node, n, None)
    BY <1>1, Replaced
  <1>4. NodeSame(None, None)
    BY DEF NodeSame
  <1> QED BY <1>1, <1>2, <1>3, <1>4 DEF Written, NodeWritten, DeleteNode

LEMMA EdgePropertyDoes ==
  ASSUME TInv, NEW e \in Edges, HasEdge(e), Write, NEW p, NEW v \in Values \cup {None},
         PropSame(p, v), p \in Stored \cup {None},
         view' = [view EXCEPT !.edge[e].prop = p],
         known' = IF known.edge[e] = None THEN known ELSE [known EXCEPT !.edge[e].prop = v],
         UNCHANGED <<base, ids, block, call, torn, readOnly, settled, caught, excused>>
  PROVE  Written /\ EdgeWritten(e)
  <1> DEFINE s == [view.edge[e] EXCEPT !.prop = p]
             k == [known.edge[e] EXCEPT !.prop = v]
  <1>2. view.edge[e] \in EdgesOf(Stored)
    BY GraphTypes DEF HasEdge
  <1>3. /\ s \in EdgesOf(Stored)
        /\ s.source = view.edge[e].source /\ s.target = view.edge[e].target /\ s.prop = p
    BY <1>2, EdgeProp
  <1>4. view' = [view EXCEPT !.edge[e] = s]
    OBVIOUS
  <1>5. known.edge[e] # None =>
          /\ k \in EdgesOf(Values) /\ known' = [known EXCEPT !.edge[e] = k]
          /\ k.source = known.edge[e].source /\ k.target = known.edge[e].target /\ k.prop = v
    <2>1. ASSUME known.edge[e] # None
          PROVE  /\ k \in EdgesOf(Values)
                 /\ k.source = known.edge[e].source /\ k.target = known.edge[e].target /\ k.prop = v
      <3> DEFINE x == known.edge[e]
      <3>1. x \in EdgesOf(Values) /\ k = [x EXCEPT !.prop = v]
        BY <2>1, GraphTypes
      <3> HIDE DEF x, k
      <3>2. k \in EdgesOf(Values) /\ k.source = x.source /\ k.target = x.target /\ k.prop = v
        BY <3>1, EdgeProp
      <3> QED BY <3>2 DEF x
    <2>2. known.edge[e] # None => known' = [known EXCEPT !.edge[e] = k]
      OBVIOUS
    <2> HIDE DEF k
    <2> QED BY <2>1, <2>2
  <1> HIDE DEF s, k
  <1>6. /\ view' \in Stores /\ view'.node = view.node /\ Put(view.edge, view'.edge, e, s)
    BY <1>3, <1>4, Replaced
  <1>7. s # None /\ view.edge[e] # None
    BY <1>3, NoNone DEF HasEdge
  <1>8. CASE known.edge[e] = None
    <2>1. known' = known
      BY <1>8
    <2>2. ~EdgeSame(view.edge[e], known.edge[e])
      BY <1>7, <1>8 DEF EdgeSame
    <2>3. Put(known.edge, known'.edge, e, known.edge[e]) /\ known' \in Tellings
      BY <2>1, GraphTypes DEF Put
    <2> QED BY <1>6, <1>7, <2>1, <2>2, <2>3 DEF Written, EdgeWritten
  <1>9. CASE known.edge[e] # None
    <2>1. /\ known' \in Tellings /\ known'.node = known.node /\ Put(known.edge, known'.edge, e, k)
      BY <1>5, <1>9, Replaced
    <2>2. k # None
      BY <1>5, <1>9, NoNone
    <2>3. EdgeSame(view.edge[e], known.edge[e]) => EdgeSame(s, k)
      BY <1>3, <1>5, <1>7, <1>9, <2>2 DEF EdgeSame
    <2> QED BY <1>6, <1>7, <1>9, <2>1, <2>3 DEF Written, EdgeWritten
  <1> QED BY <1>8, <1>9

LEMMA SetEdgePropertyDoes ==
  ASSUME TInv, NEW e \in Edges, NEW v \in Values, SetEdgeProperty(e, v)
  PROVE  Raised \/ (Written /\ EdgeWritten(e))
  <1>1. SUFFICES ASSUME /\ HasEdge(e) /\ PythonToValue(v) # Refused
                        /\ view' = [view EXCEPT !.edge[e].prop = PythonToValue(v)]
                        /\ known' = IF known.edge[e] = None THEN known ELSE [known EXCEPT !.edge[e].prop = v]
                        /\ UNCHANGED <<base, ids, block, call, torn>>
                 PROVE  Written /\ EdgeWritten(e)
    BY DEF SetEdgeProperty, Raised
  <1>2. PythonToValue(v) \in Stored /\ PropSame(PythonToValue(v), v)
    BY <1>1, NoNone DEF Stored, PropSame
  <1>3. Write /\ UNCHANGED <<base, ids, block, call, torn, readOnly, settled, caught, excused>>
    BY <1>1 DEF SetEdgeProperty
  <1> QED BY <1>1, <1>2, <1>3, EdgePropertyDoes

LEMMA RemoveEdgePropertyDoes ==
  ASSUME TInv, NEW e \in Edges, RemoveEdgeProperty(e)
  PROVE  Raised \/ (Written /\ EdgeWritten(e))
  <1>1. SUFFICES ASSUME /\ HasEdge(e)
                        /\ view' = [view EXCEPT !.edge[e].prop = None]
                        /\ known' = IF known.edge[e] = None THEN known ELSE [known EXCEPT !.edge[e].prop = None]
                        /\ UNCHANGED <<base, ids, block, call, torn>>
                 PROVE  Written /\ EdgeWritten(e)
    BY DEF RemoveEdgeProperty, Raised
  <1>2. PropSame(None, None)
    BY DEF PropSame
  <1>3. Write /\ UNCHANGED <<base, ids, block, call, torn, readOnly, settled, caught, excused>>
    BY <1>1 DEF RemoveEdgeProperty
  <1> QED BY <1>1, <1>2, <1>3, EdgePropertyDoes

LEMMA DeleteEdgeDoes ==
  ASSUME TInv, NEW s \in Nodes, NEW t \in Nodes, DeleteEdge(s, t)
  PROVE  Raised \/ \E e \in Edges : Written /\ EdgeWritten(e)
  <1>1. Write /\ UNCHANGED <<readOnly, settled, caught, excused>>
    BY DEF DeleteEdge
  <1>2. SUFFICES ASSUME NEW e \in Edges,
                        /\ view' = [view EXCEPT !.edge[e] = None]
                        /\ known' = [known EXCEPT !.edge[e] = None]
                        /\ UNCHANGED <<base, ids, block, call, torn>>
                 PROVE  Written /\ EdgeWritten(e)
    BY <1>1 DEF DeleteEdge, Raised
  <1>3. /\ view' \in Stores /\ view'.node = view.node /\ Put(view.edge, view'.edge, e, None)
    BY <1>2, Replaced
  <1>4. /\ known' \in Tellings /\ known'.node = known.node /\ Put(known.edge, known'.edge, e, None)
    BY <1>2, Replaced
  <1>5. EdgeSame(None, None)
    BY DEF EdgeSame
  <1> QED BY <1>1, <1>2, <1>3, <1>4, <1>5 DEF Written, EdgeWritten

-----------------------------------------------------------------------------
(* Creations.                                                              *)

Calls == [op : {"node", "edge", None}, id : Nodes \cup Edges \cup {None},
          todo : SUBSET Labels, labels : SUBSET Labels, prop : Values \cup {None}]

LEMMA CallTypes ==
  ASSUME TInv
  PROVE  /\ call \in Calls /\ call = [op |-> call.op, id |-> call.id, todo |-> call.todo,
                                      labels |-> call.labels, prop |-> call.prop]
         /\ call.todo \subseteq Labels /\ call.labels \subseteq Labels
         /\ call.prop \in Values \cup {None} /\ call.op \in {"node", "edge", None}
         /\ ids = [node |-> ids.node, edge |-> ids.edge] /\ ids.node \in Nat /\ ids.edge \in Nat
         /\ NoCall \in Calls /\ (call # NoCall => block = "in")
  BY DEF TInv, TypeOK, Calls, NoCall

LEMMA NodeCreateDoes ==
  ASSUME TInv, NEW labels \in SUBSET Labels, NEW prop \in Values \cup {None}, NodeCreate(labels, prop)
  PROVE  /\ Write /\ ids.node \in Nodes /\ view' \in Stores /\ view'.edge = view.edge
         /\ call' \in Calls /\ call'.op = "node" /\ call'.id = ids.node
         /\ ids' = [node |-> ids.node + 1, edge |-> ids.edge]
         /\ UNCHANGED <<base, block, readOnly, told>>
         /\ \E s : /\ Put(view.node, view'.node, ids.node, s) /\ s # None
                   /\ s.labels \cup call'.todo = call'.labels /\ s.prop = None /\ s.vector = FALSE
  <1> DEFINE n == ids.node
             here == IF Cardinality(labels) = 1 THEN labels ELSE {}
             todo == IF Cardinality(labels) > 1 THEN labels ELSE {}
             s == [labels |-> here, prop |-> None, vector |-> FALSE]
  <1>1. /\ Write /\ n \in Nodes /\ view' = [view EXCEPT !.node[n] = s]
        /\ ids' = [ids EXCEPT !.node = n + 1]
        /\ call' = [op |-> "node", id |-> n, labels |-> labels, prop |-> prop, todo |-> todo]
        /\ UNCHANGED <<base, block, readOnly, told>>
    BY DEF NodeCreate
  <1>2. here \cup todo = labels
    <2>1. IsFiniteSet(labels)
      BY GraphAssumption, FS_Subset
    <2>2. Cardinality(labels) \in Nat /\ (Cardinality(labels) = 0 => labels = {})
      BY <2>1, FS_CardinalityType, FS_EmptySet
    <2> QED BY <2>2
  <1>3. here \in SUBSET Labels /\ todo \in SUBSET Labels
    OBVIOUS
  <1> HIDE DEF here, todo
  <1>4. s \in NodesOf(SUBSET Labels, Stored)
    BY <1>3 DEF NodesOf
  <1>5. s.labels = here /\ s.prop = None /\ s.vector = FALSE /\ s # None
    BY <1>4, NoNone
  <1>6. call' \in Calls /\ call'.op = "node" /\ call'.id = n /\ call'.todo = todo /\ call'.labels = labels
    BY <1>1, <1>3 DEF Calls
  <1>7. ids' = [node |-> n + 1, edge |-> ids.edge]
    BY <1>1, CallTypes
  <1> HIDE DEF s, n
  <1>8. view' \in Stores /\ view'.edge = view.edge /\ Put(view.node, view'.node, n, s)
    BY <1>1, <1>4, Replaced
  <1> QED BY <1>1, <1>2, <1>5, <1>6, <1>7, <1>8 DEF n

LEMMA NodeAddLabelDoes ==
  ASSUME TInv, NodeAddLabel
  PROVE  /\ call.op = "node" /\ view' \in Stores /\ view'.edge = view.edge
         /\ call' \in Calls /\ call'.op = "node" /\ call'.id = call.id
         /\ UNCHANGED <<writes, base, ids, block, readOnly, told>>
         /\ \E s : /\ Put(view.node, view'.node, call.id, s) /\ s # None
                   /\ s.labels \cup call'.todo = call'.labels /\ s.prop = None /\ s.vector = FALSE
  <1> DEFINE n == call.id
             x == view.node[n]
  <1>1. PICK l \in call.todo : /\ view' = [view EXCEPT !.node[n].labels = @ \cup {l}]
                               /\ call' = [call EXCEPT !.todo = @ \ {l}]
    BY DEF NodeAddLabel
  <1>2. call.op = "node" /\ UNCHANGED <<writes, base, ids, block, readOnly, told>>
    BY DEF NodeAddLabel
  <1>3. /\ n \in Nodes /\ x \in NodesOf(SUBSET Labels, Stored)
        /\ x.labels \cup call.todo = call.labels /\ x.prop = None /\ x.vector = FALSE
    BY <1>2, GraphTypes DEF TInv, CallInv
  <1>4. l \in Labels /\ call.todo \subseteq Labels /\ call.labels \subseteq Labels
    BY <1>1, CallTypes
  <1> DEFINE L == x.labels \cup {l}
             s == [x EXCEPT !.labels = L]
  <1>5. view' = [view EXCEPT !.node[n] = s]
    BY <1>1
  <1>6. L \in SUBSET Labels
    BY <1>3, <1>4 DEF NodesOf
  <1>7. L \cup (call.todo \ {l}) = call.labels
    BY <1>1, <1>3
  <1>8. call' = [op |-> "node", id |-> n, todo |-> call.todo \ {l}, labels |-> call.labels, prop |-> call.prop]
    BY <1>1, <1>2, CallTypes
  <1>9. call' \in Calls /\ call'.op = "node" /\ call'.id = n /\ call'.todo = call.todo \ {l}
        /\ call'.labels = call.labels
    BY <1>8, <1>3, <1>4, CallTypes DEF Calls
  <1> HIDE DEF L, n, x
  <1>10. s \in NodesOf(SUBSET Labels, Stored) /\ s.labels = L /\ s.prop = x.prop /\ s.vector = x.vector
    <2> DEFINE Ls == SUBSET Labels
    <2>1. x \in NodesOf(Ls, Stored) /\ L \in Ls /\ s = [x EXCEPT !.labels = L]
      BY <1>3, <1>6
    <2> HIDE DEF Ls, s
    <2>2. s \in NodesOf(Ls, Stored) /\ s.labels = L /\ s.prop = x.prop /\ s.vector = x.vector
      BY <2>1, NodeLabels
    <2> QED BY <2>2 DEF Ls
  <1> HIDE DEF s
  <1>11. view' \in Stores /\ view'.edge = view.edge /\ Put(view.node, view'.node, n, s) /\ s # None
    BY <1>3, <1>5, <1>10, Replaced, NoNone
  <1> QED BY <1>2, <1>3, <1>7, <1>9, <1>10, <1>11 DEF n

LEMMA NodeReturnDoes ==
  ASSUME TInv, NodeReturn
  PROVE  /\ call.op = "node" /\ call.id \in Nodes /\ call' = NoCall
         /\ view' \in Stores /\ view'.edge = view.edge /\ known' \in Tellings /\ known'.edge = known.edge
         /\ UNCHANGED <<writes, base, ids, block, readOnly, settled, torn, caught, excused>>
         /\ \E s, k : /\ Put(view.node, view'.node, call.id, s) /\ Put(known.node, known'.node, call.id, k)
                      /\ NodeSame(s, k) /\ s # None
  <1> DEFINE n == call.id
             x == view.node[n]
             p == IF call.prop = None THEN None ELSE PythonToValue(call.prop)
             s == [x EXCEPT !.prop = p]
             k == [labels |-> call.labels, prop |-> call.prop, vector |-> FALSE]
  <1>1. /\ call.op = "node" /\ call.todo = {} /\ (call.prop # None => PythonToValue(call.prop) # Refused)
        /\ view' = IF call.prop = None THEN view ELSE [view EXCEPT !.node[n].prop = PythonToValue(call.prop)]
        /\ known' = [known EXCEPT !.node[n] = k] /\ call' = NoCall
        /\ UNCHANGED <<writes, base, ids, block, readOnly, settled, torn, caught, excused>>
    BY DEF NodeReturn
  <1>2. /\ n \in Nodes /\ x \in NodesOf(SUBSET Labels, Stored)
        /\ x.labels = call.labels /\ x.prop = None /\ x.vector = FALSE
    BY <1>1, GraphTypes DEF TInv, CallInv
  <1>3. p \in Stored \cup {None} /\ PropSame(p, call.prop)
    BY <1>1, CallTypes DEF PropSame, Stored
  <1>4. /\ k \in NodesOf(SUBSET Labels, Values)
        /\ k.labels = call.labels /\ k.prop = call.prop /\ k.vector = FALSE
    BY CallTypes DEF NodesOf
  <1>5. \E y : /\ view' \in Stores /\ view'.edge = view.edge /\ Put(view.node, view'.node, n, y)
               /\ y \in NodesOf(SUBSET Labels, Stored)
               /\ y.labels = call.labels /\ y.prop = p /\ y.vector = FALSE
    <2>1. CASE call.prop = None
      <3>1. view' = view /\ p = None
        BY <1>1, <2>1
      <3>2. Put(view.node, view'.node, n, x) /\ view' \in Stores
        BY <3>1, GraphTypes DEF Put
      <3> QED BY <1>2, <3>1, <3>2
    <2>2. CASE call.prop # None
      <3>1. view' = [view EXCEPT !.node[n] = s]
        BY <1>1, <2>2
      <3> HIDE DEF x, p, n
      <3>2. s \in NodesOf(SUBSET Labels, Stored) /\ s.labels = x.labels /\ s.prop = p /\ s.vector = x.vector
        <4> DEFINE Ls == SUBSET Labels
                   Ps == Stored
        <4>1. x \in NodesOf(Ls, Ps) /\ p \in Ps /\ s = [x EXCEPT !.prop = p]
          BY <1>1, <1>2, <2>2, CallTypes DEF p, Stored
        <4> HIDE DEF Ls, Ps, s
        <4>2. s \in NodesOf(Ls, Ps) /\ s.labels = x.labels /\ s.prop = p /\ s.vector = x.vector
          BY <4>1, NodeProp
        <4> QED BY <4>2 DEF Ls, Ps
      <3> HIDE DEF s
      <3>3. view' \in Stores /\ view'.edge = view.edge /\ Put(view.node, view'.node, n, s)
        BY <1>2, <3>1, <3>2, Replaced
      <3> QED BY <1>2, <3>2, <3>3
    <2> QED BY <2>1, <2>2
  <1>6. PICK y : /\ view' \in Stores /\ view'.edge = view.edge /\ Put(view.node, view'.node, n, y)
                 /\ y \in NodesOf(SUBSET Labels, Stored)
                 /\ y.labels = call.labels /\ y.prop = p /\ y.vector = FALSE
    BY <1>5
  <1> HIDE DEF k, p
  <1>7. known' \in Tellings /\ known'.edge = known.edge /\ Put(known.node, known'.node, n, k)
    BY <1>1, <1>2, <1>4, Replaced
  <1>8. y # None /\ k # None
    BY <1>4, <1>6, NoNone
  <1>9. NodeSame(y, k)
    BY <1>3, <1>4, <1>6, <1>8 DEF NodeSame
  <1> QED BY <1>1, <1>2, <1>6, <1>7, <1>8, <1>9

LEMMA EdgeCreateDoes ==
  ASSUME TInv, NEW s \in Nodes, NEW t \in Nodes, NEW prop \in Values \cup {None}, EdgeCreate(s, t, prop)
  PROVE  /\ Write /\ ids.edge \in Edges /\ view' \in Stores /\ view'.node = view.node
         /\ call' \in Calls /\ call'.op = "edge" /\ call'.id = ids.edge
         /\ ids' = [node |-> ids.node, edge |-> ids.edge + 1]
         /\ UNCHANGED <<base, block, readOnly, told>>
         /\ \E x : Put(view.edge, view'.edge, ids.edge, x) /\ x # None /\ x.prop = None
  <1> DEFINE e == ids.edge
             x == [source |-> s, target |-> t, prop |-> None]
  <1>1. /\ Write /\ e \in Edges /\ view' = [view EXCEPT !.edge[e] = x]
        /\ ids' = [ids EXCEPT !.edge = e + 1]
        /\ call' = [NoCall EXCEPT !.op = "edge", !.id = e, !.prop = prop]
        /\ UNCHANGED <<base, block, readOnly, told>>
    BY DEF EdgeCreate
  <1>2. call' = [op |-> "edge", id |-> e, todo |-> {}, labels |-> {}, prop |-> prop]
    BY <1>1 DEF NoCall
  <1>3. call' \in Calls /\ call'.op = "edge" /\ call'.id = e
    <2>1. e \in Edges
      BY <1>1
    <2> HIDE DEF e
    <2> QED BY <1>2, <2>1 DEF Calls
  <1>4. ids' = [node |-> ids.node, edge |-> e + 1]
    BY <1>1, CallTypes
  <1>5. x \in EdgesOf(Stored) /\ x.prop = None
    BY DEF EdgesOf
  <1>6. x # None
    BY <1>5, NoNone
  <1> HIDE DEF x, e
  <1>7. view' \in Stores /\ view'.node = view.node /\ Put(view.edge, view'.edge, e, x)
    BY <1>1, <1>5, Replaced
  <1> QED BY <1>1, <1>3, <1>4, <1>5, <1>6, <1>7 DEF e

LEMMA EdgeReturnDoes ==
  ASSUME TInv, EdgeReturn
  PROVE  /\ call.op = "edge" /\ call.id \in Edges /\ call' = NoCall
         /\ view' \in Stores /\ view'.node = view.node /\ known' \in Tellings /\ known'.node = known.node
         /\ UNCHANGED <<writes, base, ids, block, readOnly, settled, torn, caught, excused>>
         /\ \E s, k : /\ Put(view.edge, view'.edge, call.id, s) /\ Put(known.edge, known'.edge, call.id, k)
                      /\ EdgeSame(s, k) /\ s # None
  <1> DEFINE e == call.id
             x == view.edge[e]
             p == IF call.prop = None THEN None ELSE PythonToValue(call.prop)
             s == [x EXCEPT !.prop = p]
             k == [x EXCEPT !.prop = call.prop]
  <1>1. /\ call.op = "edge" /\ (call.prop # None => PythonToValue(call.prop) # Refused)
        /\ view' = IF call.prop = None THEN view ELSE [view EXCEPT !.edge[e].prop = PythonToValue(call.prop)]
        /\ known' = [known EXCEPT !.edge[e] = k] /\ call' = NoCall
        /\ UNCHANGED <<writes, base, ids, block, readOnly, settled, torn, caught, excused>>
    BY DEF EdgeReturn
  <1>2. e \in Edges /\ x \in EdgesOf(Stored) /\ x.prop = None
    BY <1>1, GraphTypes DEF TInv, CallInv
  <1>3. PropSame(p, call.prop)
    BY <1>1, CallTypes DEF PropSame
  <1>4. /\ k \in EdgesOf(Values)
        /\ k.source = x.source /\ k.target = x.target /\ k.prop = call.prop
    <2> DEFINE q == call.prop
    <2>1. k = [source |-> x.source, target |-> x.target, prop |-> q]
      BY <1>2 DEF EdgesOf
    <2>2. x.source \in Nodes /\ x.target \in Nodes /\ q \in Values \cup {None}
      BY <1>2, CallTypes DEF EdgesOf
    <2> HIDE DEF x, k, q
    <2>3. k \in EdgesOf(Values) /\ k.source = x.source /\ k.target = x.target /\ k.prop = q
      BY <2>1, <2>2 DEF EdgesOf
    <2> QED BY <2>3 DEF q
  <1>5. \E y : /\ view' \in Stores /\ view'.node = view.node /\ Put(view.edge, view'.edge, e, y)
               /\ y \in EdgesOf(Stored)
               /\ y.source = x.source /\ y.target = x.target /\ y.prop = p
    <2>1. CASE call.prop = None
      <3>1. view' = view /\ p = None
        BY <1>1, <2>1
      <3>2. Put(view.edge, view'.edge, e, x) /\ view' \in Stores
        BY <3>1, GraphTypes DEF Put
      <3> QED BY <1>2, <3>1, <3>2
    <2>2. CASE call.prop # None
      <3>1. view' = [view EXCEPT !.edge[e] = s] /\ p \in Stored
        BY <1>1, <2>2, CallTypes DEF Stored
      <3> HIDE DEF x, p, e
      <3>2. s \in EdgesOf(Stored) /\ s.source = x.source /\ s.target = x.target /\ s.prop = p
        <4> DEFINE Ps == Stored
        <4>1. x \in EdgesOf(Ps) /\ p \in Ps /\ s = [x EXCEPT !.prop = p]
          BY <1>2, <3>1
        <4> HIDE DEF Ps, s
        <4>2. s \in EdgesOf(Ps) /\ s.source = x.source /\ s.target = x.target /\ s.prop = p
          BY <4>1, EdgeProp
        <4> QED BY <4>2 DEF Ps
      <3> HIDE DEF s
      <3>3. view' \in Stores /\ view'.node = view.node /\ Put(view.edge, view'.edge, e, s)
        BY <1>2, <3>1, <3>2, Replaced
      <3> QED BY <1>2, <3>2, <3>3
    <2> QED BY <2>1, <2>2
  <1>6. PICK y : /\ view' \in Stores /\ view'.node = view.node /\ Put(view.edge, view'.edge, e, y)
                 /\ y \in EdgesOf(Stored)
                 /\ y.source = x.source /\ y.target = x.target /\ y.prop = p
    BY <1>5
  <1> HIDE DEF k, p, x
  <1>7. known' \in Tellings /\ known'.node = known.node /\ Put(known.edge, known'.edge, e, k)
    BY <1>1, <1>2, <1>4, Replaced
  <1>8. y # None /\ k # None
    BY <1>4, <1>6, NoNone
  <1>9. EdgeSame(y, k)
    BY <1>3, <1>4, <1>6, <1>8 DEF EdgeSame
  <1> QED BY <1>1, <1>2, <1>6, <1>7, <1>8, <1>9

\* The nodes that a batch made, all or some of them.
LEMMA BatchDoes ==
  ASSUME TInv, NEW l \in Labels, BatchInsert(l)
  PROVE  \E made \in 0..2, new \in SUBSET Nodes :
           /\ Write /\ new = {n \in Nodes : ids.node <= n /\ n < ids.node + made}
           /\ ids' = [node |-> ids.node + made, edge |-> ids.edge]
           /\ view' \in Stores /\ view'.edge = view.edge
           /\ UNCHANGED <<base, readOnly, settled, caught, excused>>
           /\ \A n \in Nodes \ new : view'.node[n] = view.node[n]
           /\ \A n \in new : view'.node[n] # None
           /\ \/ /\ known' \in Tellings /\ known'.edge = known.edge
                 /\ \A n \in Nodes \ new : known'.node[n] = known.node[n]
                 /\ \A n \in new : NodeSame(view'.node[n], known'.node[n])
                 /\ UNCHANGED <<block, call, torn>>
              \/ Raise({<<"node", n>> : n \in new}) /\ UNCHANGED known
  <1>1. Write /\ {ids.node, ids.node + 1} \subseteq Nodes
        /\ UNCHANGED <<base, readOnly, settled, caught, excused>>
    BY DEF BatchInsert
  <1>2. PICK made \in 0..2, last \in BOOLEAN, ok \in BOOLEAN :
       LET new == ids.node .. (ids.node + made - 1)
           Made(n) == [labels |-> {l}, prop |-> None,
                       vector |-> n = ids.node + made - 1 => last] IN
       /\ view' = [view EXCEPT !.node = [n \in Nodes |-> IF n \in new THEN Made(n) ELSE @[n]]]
       /\ ids' = [ids EXCEPT !.node = @ + made]
       /\ IF ok THEN /\ known' = [known EXCEPT !.node =
                                   [n \in Nodes |-> IF n \in new THEN Made(n) ELSE @[n]]]
                     /\ UNCHANGED <<block, call, torn>>
                ELSE Raise({<<"node", n>> : n \in new}) /\ UNCHANGED known
    BY DEF BatchInsert
  <1> DEFINE i == ids.node
             new == i .. (i + made - 1)
             Made(n) == [labels |-> {l}, prop |-> None, vector |-> n = i + made - 1 => last]
             On(f) == [n \in Nodes |-> IF n \in new THEN Made(n) ELSE f[n]]
  <1>3. i \in Nat /\ ids' = [node |-> i + made, edge |-> ids.edge]
    BY <1>2, CallTypes
  <1>4. new \in SUBSET Nodes /\ new = {n \in Nodes : i <= n /\ n < i + made}
    <2>1. made \in {0, 1, 2} /\ i \in Nodes /\ i + 1 \in Nodes
      BY <1>1
    <2>2. \A n \in new : n = i \/ n = i + 1
      BY <1>3, <2>1
    <2>3. new \subseteq Nodes
      BY <2>1, <2>2
    <2>4. \A n \in Nodes : n \in Nat
      BY NoNone
    <2>5. \A n \in Nodes : n \in new <=> i <= n /\ n < i + made
      BY <1>3, <2>1, <2>4
    <2> HIDE DEF new
    <2> QED BY <2>3, <2>5
  <1>5. view' = [view EXCEPT !.node = On(view.node)]
    BY <1>2
  <1>6. \A n : Made(n) \in NodesOf(SUBSET Labels, Stored) /\ Made(n) \in NodesOf(SUBSET Labels, Values)
    BY DEF NodesOf
  <1>7. \A n : Made(n).prop = None /\ Made(n) # None
    BY <1>6, NoNone
  <1>8. \A n : NodeSame(Made(n), Made(n))
    BY <1>7 DEF NodeSame, PropSame
  <1>9. \/ known' = [known EXCEPT !.node = On(known.node)] /\ UNCHANGED <<block, call, torn>>
        \/ Raise({<<"node", n>> : n \in new}) /\ UNCHANGED known
    BY <1>2
  <1> HIDE DEF Made, new, i
  <1>10. /\ view' \in Stores /\ view'.edge = view.edge
         /\ \A n \in Nodes \ new : view'.node[n] = view.node[n]
         /\ \A n \in new : view'.node[n] = Made(n)
    <2>1. view' = [node |-> On(view.node), edge |-> view.edge]
      BY <1>5, GraphTypes, Things DEF Stores
    <2>2. On(view.node) \in [Nodes -> NodesOf(SUBSET Labels, Stored) \cup {None}]
      BY <1>6, GraphTypes
    <2>3. \A n \in Nodes : On(view.node)[n] = IF n \in new THEN Made(n) ELSE view.node[n]
      OBVIOUS
    <2>4. view.edge \in [Edges -> EdgesOf(Stored) \cup {None}]
      BY GraphTypes DEF Stores, GraphsOf
    <2> HIDE DEF On
    <2> QED BY <1>4, <2>1, <2>2, <2>3, <2>4 DEF Stores, GraphsOf
  <1>11. known' = [known EXCEPT !.node = On(known.node)] =>
           /\ known' \in Tellings /\ known'.edge = known.edge
           /\ \A n \in Nodes \ new : known'.node[n] = known.node[n]
           /\ \A n \in new : known'.node[n] = Made(n)
    <2> SUFFICES ASSUME known' = [known EXCEPT !.node = On(known.node)]
                 PROVE  /\ known' \in Tellings /\ known'.edge = known.edge
                        /\ \A n \in Nodes \ new : known'.node[n] = known.node[n]
                        /\ \A n \in new : known'.node[n] = Made(n)
      OBVIOUS
    <2>1. known' = [node |-> On(known.node), edge |-> known.edge]
      BY GraphTypes, Things DEF Tellings
    <2>2. On(known.node) \in [Nodes -> NodesOf(SUBSET Labels, Values) \cup {None}]
      BY <1>6, GraphTypes
    <2>3. \A n \in Nodes : On(known.node)[n] = IF n \in new THEN Made(n) ELSE known.node[n]
      OBVIOUS
    <2>4. known.edge \in [Edges -> EdgesOf(Values) \cup {None}]
      BY GraphTypes DEF Tellings, GraphsOf
    <2> HIDE DEF On
    <2> QED BY <1>4, <2>1, <2>2, <2>3, <2>4 DEF Tellings, GraphsOf
  <1>12. \A n \in new : view'.node[n] # None
    BY <1>7, <1>10
  <1>13. \/ /\ known' \in Tellings /\ known'.edge = known.edge
            /\ \A n \in Nodes \ new : known'.node[n] = known.node[n]
            /\ \A n \in new : NodeSame(view'.node[n], known'.node[n])
            /\ UNCHANGED <<block, call, torn>>
         \/ Raise({<<"node", n>> : n \in new}) /\ UNCHANGED known
    BY <1>8, <1>9, <1>10, <1>11
  <1> QED BY <1>1, <1>3, <1>4, <1>10, <1>12, <1>13 DEF i

-----------------------------------------------------------------------------
(* The inductive invariants.                                               *)

\* Every step, with the methods of one native call in their common form.
LEMMA Steps ==
  ASSUME TInv, Next
  PROVE  \/ \E ro \in BOOLEAN : Begin(ro)
         \/ Commit \/ Exit \/ Catch \/ Raised \/ CreationRaises
         \/ \E n \in Nodes : Written /\ NodeWritten(n)
         \/ \E e \in Edges : Written /\ EdgeWritten(e)
         \/ \E labels \in SUBSET Labels, prop \in Values \cup {None} : NodeCreate(labels, prop)
         \/ NodeAddLabel \/ NodeReturn \/ EdgeReturn
         \/ \E s, t \in Nodes, prop \in Values \cup {None} : EdgeCreate(s, t, prop)
         \/ \E l \in Labels : BatchInsert(l)
  <1>1. ASSUME NEW n \in Nodes, SetVector(n) \/ DeleteNode(n)
        PROVE  Raised \/ (Written /\ NodeWritten(n))
    BY <1>1, SetVectorDoes, DeleteNodeDoes
  <1>2. ASSUME NEW n \in Nodes, NEW v \in Values, SetProperty(n, v)
        PROVE  Raised \/ (Written /\ NodeWritten(n))
    BY <1>2, SetPropertyDoes
  <1>3. ASSUME NEW e \in Edges, RemoveEdgeProperty(e) PROVE Raised \/ (Written /\ EdgeWritten(e))
    BY <1>3, RemoveEdgePropertyDoes
  <1>4. ASSUME NEW e \in Edges, NEW v \in Values, SetEdgeProperty(e, v)
        PROVE  Raised \/ (Written /\ EdgeWritten(e))
    BY <1>4, SetEdgePropertyDoes
  <1>5. ASSUME NEW s \in Nodes, NEW t \in Nodes, DeleteEdge(s, t)
        PROVE  Raised \/ \E e \in Edges : Written /\ EdgeWritten(e)
    BY <1>5, DeleteEdgeDoes
  <1> QED BY <1>1, <1>2, <1>3, <1>4, <1>5, ZenonT(60) DEF Next

\* TInv, with the graphs and the call as sets that need not be looked into.
Typed == /\ base \in Stores /\ view \in Stores /\ known \in Tellings /\ settled \in Tellings
         /\ ids \in [node : Nat, edge : Nat]
         /\ block \in {"out", "in", "raising"} /\ readOnly \in BOOLEAN
         /\ call \in Calls /\ (call # NoCall => block = "in")
         /\ torn \subseteq NodeIds \cup EdgeIds /\ excused \subseteq torn
         /\ caught \in BOOLEAN /\ writes \in 0..MaxWrites
         /\ CallInv

LEMMA TypedIs == (TInv <=> Typed) /\ (TInv' <=> Typed')
  BY DEF TInv, TypeOK, Stores, Tellings, Calls, Typed

LEMMA Idle ==
  /\ NoCall.op = None /\ NoCall \in Calls
  /\ call = NoCall => UnderWay = {}
  /\ call' = NoCall => UnderWay' = {} /\ CallInv'
  BY NoNone DEF NoCall, CallInv, UnderWay, Calls

LEMMA WriteDoes ==
  ASSUME TInv, Write
  PROVE  block = "in" /\ call = NoCall /\ writes' \in 0..MaxWrites
  <1>1. writes \in Nat /\ writes < MaxWrites /\ writes' = writes + 1 /\ MaxWrites \in Nat
    BY GraphAssumption DEF Write, TInv, TypeOK
  <1> QED BY <1>1 DEF Write, Ready

LEMMA TInit == ASSUME Init PROVE TInv
  <1>1. EmptyGraph \in Stores /\ EmptyGraph \in Tellings
    BY DEF EmptyGraph, Stores, Tellings, GraphsOf
  <1>2. CallInv
    BY NoNone DEF Init, CallInv, NoCall
  <1>3. 0 \in 0..MaxWrites
    BY GraphAssumption
  <1> QED BY <1>1, <1>2, <1>3, TypedIs, Idle DEF Init, Typed

LEMMA TBlock ==
  ASSUME TInv, (\E ro \in BOOLEAN : Begin(ro)) \/ Commit \/ Exit \/ Catch
  PROVE  TInv'
  <1>1. call = NoCall
    BY DEF Begin, Commit, Exit, Catch, TInv, TypeOK
  <1>2. call' = NoCall /\ CallInv'
    BY <1>1, Idle DEF Begin, Commit, Exit, Catch
  <1>3. CASE \E ro \in BOOLEAN : Begin(ro)
    BY <1>2, <1>3, TypedIs DEF Begin, Typed
  <1>4. CASE Commit
    BY <1>2, <1>4, TypedIs DEF Commit, Typed
  <1>5. CASE Exit
    BY <1>2, <1>5, TypedIs DEF Exit, Typed
  <1>6. CASE Catch
    BY <1>2, <1>6, TypedIs DEF Catch, graphs, Typed
  <1> QED BY <1>3, <1>4, <1>5, <1>6

LEMMA TWritten == ASSUME TInv, Written PROVE TInv'
  <1>1. call' = NoCall /\ CallInv' /\ writes' \in 0..MaxWrites
    BY WriteDoes, Idle DEF Written
  <1> QED BY <1>1, TypedIs DEF Written, Typed

LEMMA TRaised == ASSUME TInv, Raised PROVE TInv'
  <1>1. call' = NoCall /\ CallInv' /\ writes' \in 0..MaxWrites
    BY WriteDoes, Idle DEF Raised, Raises, Raise
  <1> QED BY <1>1, TypedIs, Idle DEF Raised, Raises, Raise, graphs, Typed

LEMMA TCreationRaises == ASSUME TInv, CreationRaises PROVE TInv'
  <1>1. call' = NoCall /\ CallInv' /\ block' = "raising"
    BY Idle DEF CreationRaises, Raise
  <1>2. <<call.op, call.id>> \in NodeIds \cup EdgeIds
    BY DEF CreationRaises, TInv, CallInv, NodeIds, EdgeIds
  <1>3. torn' \subseteq NodeIds \cup EdgeIds /\ torn \subseteq torn'
    BY <1>2, TypedIs DEF CreationRaises, Raise, Typed
  <1>4. UNCHANGED <<writes, base, view, ids, readOnly, known, settled, caught, excused>>
    BY DEF CreationRaises, graphs
  <1> QED BY <1>1, <1>3, <1>4, TypedIs, Idle DEF Typed

LEMMA TCreates ==
  ASSUME TInv, \/ \E labels \in SUBSET Labels, prop \in Values \cup {None} : NodeCreate(labels, prop)
               \/ \E s, t \in Nodes, prop \in Values \cup {None} : EdgeCreate(s, t, prop)
  PROVE  TInv'
  <1>1. CASE \E labels \in SUBSET Labels, prop \in Values \cup {None} : NodeCreate(labels, prop)
    <2>1. PICK labels \in SUBSET Labels, prop \in Values \cup {None} : NodeCreate(labels, prop)
      BY <1>1
    <2>2. /\ Write /\ ids.node \in Nodes /\ view' \in Stores /\ view'.edge = view.edge
          /\ call' \in Calls /\ call'.op = "node" /\ call'.id = ids.node
          /\ ids' = [node |-> ids.node + 1, edge |-> ids.edge]
          /\ UNCHANGED <<base, block, readOnly, told>>
      BY <2>1, NodeCreateDoes
    <2>3. PICK s : /\ Put(view.node, view'.node, ids.node, s) /\ s # None
                   /\ s.labels \cup call'.todo = call'.labels /\ s.prop = None /\ s.vector = FALSE
      BY <2>1, NodeCreateDoes
    <2>4. block = "in" /\ writes' \in 0..MaxWrites /\ ids.node \in Nat /\ ids.edge \in Nat
      BY <2>2, WriteDoes, CallTypes
    <2>5. ids' \in [node : Nat, edge : Nat] /\ ids'.node = ids.node + 1
      BY <2>2, <2>4
    <2>6. CallInv'
      BY <2>2, <2>3, <2>4, <2>5, NoNone DEF CallInv, Put
    <2>7. UNCHANGED <<base, block, readOnly, known, settled, torn, caught, excused>>
      BY <2>2 DEF told
    <2> QED BY <2>2, <2>4, <2>5, <2>6, <2>7, TypedIs DEF Typed
  <1>2. CASE \E s, t \in Nodes, prop \in Values \cup {None} : EdgeCreate(s, t, prop)
    <2>1. PICK s \in Nodes, t \in Nodes, prop \in Values \cup {None} : EdgeCreate(s, t, prop)
      BY <1>2
    <2>2. /\ Write /\ ids.edge \in Edges /\ view' \in Stores /\ view'.node = view.node
          /\ call' \in Calls /\ call'.op = "edge" /\ call'.id = ids.edge
          /\ ids' = [node |-> ids.node, edge |-> ids.edge + 1]
          /\ UNCHANGED <<base, block, readOnly, told>>
      BY <2>1, EdgeCreateDoes
    <2>3. PICK x : Put(view.edge, view'.edge, ids.edge, x) /\ x # None /\ x.prop = None
      BY <2>1, EdgeCreateDoes
    <2>4. block = "in" /\ writes' \in 0..MaxWrites /\ ids.node \in Nat /\ ids.edge \in Nat
      BY <2>2, WriteDoes, CallTypes
    <2>5. ids' \in [node : Nat, edge : Nat] /\ ids'.edge = ids.edge + 1
      BY <2>2, <2>4
    <2>6. CallInv'
      BY <2>2, <2>3, <2>4, <2>5, NoNone DEF CallInv, Put
    <2>7. UNCHANGED <<base, block, readOnly, known, settled, torn, caught, excused>>
      BY <2>2 DEF told
    <2> QED BY <2>2, <2>4, <2>5, <2>6, <2>7, TypedIs DEF Typed
  <1> QED BY <1>1, <1>2

LEMMA TContinues ==
  ASSUME TInv, NodeAddLabel \/ NodeReturn \/ EdgeReturn
  PROVE  TInv'
  <1>1. CASE NodeAddLabel
    <2>1. /\ call.op = "node" /\ view' \in Stores /\ view'.edge = view.edge
          /\ call' \in Calls /\ call'.op = "node" /\ call'.id = call.id
          /\ UNCHANGED <<writes, base, ids, block, readOnly, told>>
      BY <1>1, NodeAddLabelDoes
    <2>2. PICK s : /\ Put(view.node, view'.node, call.id, s) /\ s # None
                   /\ s.labels \cup call'.todo = call'.labels /\ s.prop = None /\ s.vector = FALSE
      BY <1>1, NodeAddLabelDoes
    <2>3. call.id \in Nodes /\ call.id < ids.node /\ block = "in"
      BY <2>1, NoNone, Idle DEF TInv, TypeOK, CallInv
    <2>4. CallInv'
      BY <2>1, <2>2, <2>3, NoNone DEF CallInv, Put
    <2>5. UNCHANGED <<known, settled, torn, caught, excused>>
      BY <2>1 DEF told
    <2> QED BY <2>1, <2>3, <2>4, <2>5, TypedIs DEF Typed
  <1>2. CASE NodeReturn
    <2>1. /\ call' = NoCall /\ view' \in Stores /\ known' \in Tellings
          /\ UNCHANGED <<writes, base, ids, block, readOnly, settled, torn, caught, excused>>
      BY <1>2, NodeReturnDoes
    <2> QED BY <2>1, TypedIs, Idle DEF Typed
  <1>3. CASE EdgeReturn
    <2>1. /\ call' = NoCall /\ view' \in Stores /\ known' \in Tellings
          /\ UNCHANGED <<writes, base, ids, block, readOnly, settled, torn, caught, excused>>
      BY <1>3, EdgeReturnDoes
    <2> QED BY <2>1, TypedIs, Idle DEF Typed
  <1> QED BY <1>1, <1>2, <1>3

LEMMA TBatch == ASSUME TInv, NEW l \in Labels, BatchInsert(l) PROVE TInv'
  <1>1. PICK made \in 0..2, new \in SUBSET Nodes :
          /\ Write /\ ids' = [node |-> ids.node + made, edge |-> ids.edge]
          /\ view' \in Stores
          /\ UNCHANGED <<base, readOnly, settled, caught, excused>>
          /\ \/ known' \in Tellings /\ UNCHANGED <<block, call, torn>>
             \/ Raise({<<"node", n>> : n \in new}) /\ UNCHANGED known
    BY BatchDoes
  <1>2. call = NoCall /\ writes' \in 0..MaxWrites /\ block = "in"
    BY <1>1, WriteDoes
  <1>3. ids' \in [node : Nat, edge : Nat]
    BY <1>1, CallTypes
  <1>4. call' = NoCall /\ block' \in {"in", "raising"} /\ known' \in Tellings
    BY <1>1, <1>2, TypedIs DEF Raise, Typed
  <1>5. torn \subseteq torn' /\ torn' \subseteq NodeIds \cup EdgeIds
    BY <1>1, TypedIs DEF Raise, NodeIds, Typed
  <1> QED BY <1>1, <1>2, <1>3, <1>4, <1>5, TypedIs, Idle DEF Typed

LEMMA TStep == ASSUME TInv, [Next]_vars PROVE TInv'
  <1>1. CASE Next
    BY <1>1, Steps, TBlock, TWritten, TRaised, TCreationRaises, TCreates, TContinues, TBatch
  <1>2. CASE UNCHANGED vars
    BY <1>2 DEF vars, told, TInv, TypeOK, CallInv
  <1> QED BY <1>1, <1>2

(* Every variable keeps its type: both graphs hold whole nodes and edges   *)
(* with what the codec made of a value, what the program was told holds    *)
(* the values themselves, and a method is under way only inside a block.   *)
THEOREM TypeCorrect == Spec => []TypeOK
  <1>1. Spec => []TInv
    BY TInit, TStep, PTL DEF Spec
  <1>2. TInv => TypeOK
    BY DEF TInv
  <1> QED BY <1>1, <1>2, PTL

-----------------------------------------------------------------------------
(* What is stored agrees with what was told.                               *)

LEMMA AInit == ASSUME Init PROVE AInv
  <1>1. Agree(EmptyGraph, EmptyGraph, {})
    BY DEF Agree, EmptyGraph, NodeSame, EdgeSame
  <1>2. Agree(EmptyGraph, EmptyGraph, {} \cup UnderWay)
    BY <1>1, AgreeLess
  <1> QED BY <1>1, <1>2 DEF Init, AInv

LEMMA ABlock ==
  ASSUME TInv, AInv, (\E ro \in BOOLEAN : Begin(ro)) \/ Commit \/ Exit \/ Catch
  PROVE  AInv'
  <1>1. call = NoCall /\ call' = NoCall /\ torn' = torn
    BY DEF Begin, Commit, Exit, Catch, TInv, TypeOK
  <1>2. UnderWay = {} /\ UnderWay' = {}
    BY <1>1, Idle
  <1>3. Agree(base, settled, torn) /\ Agree(view, known, torn)
    BY <1>2 DEF AInv
  <1>4. /\ <<base', settled'>> = <<base, settled>> \/ <<base', settled'>> = <<view, known>>
        /\ <<view', known'>> = <<base, settled>> \/ <<view', known'>> = <<view, known>>
    BY DEF Begin, Commit, Exit, Catch, graphs
  <1>5. Agree(base', settled', torn) /\ Agree(view', known', torn)
    BY <1>3, <1>4
  <1>6. torn' = torn /\ torn' \cup UnderWay' = torn
    BY <1>1, <1>2
  <1> QED BY <1>5, <1>6 DEF AInv

LEMMA AWritten ==
  ASSUME TInv, AInv, Written,
         (\E n \in Nodes : NodeWritten(n)) \/ (\E e \in Edges : EdgeWritten(e))
  PROVE  AInv'
  <1>1. call = NoCall /\ call' = NoCall /\ base' = base /\ settled' = settled /\ torn' = torn
    BY WriteDoes DEF Written
  <1>2. torn \cup UnderWay = torn /\ torn' \cup UnderWay' = torn
    BY <1>1, Idle
  <1>3. Agree(view, known, torn)
    BY <1>2 DEF AInv
  <1>4. CASE \E n \in Nodes : NodeWritten(n)
    <2>1. PICK n \in Nodes : NodeWritten(n)
      BY <1>4
    <2>2. PICK s, k : /\ Put(view.node, view'.node, n, s) /\ Put(known.node, known'.node, n, k)
                      /\ NodeSame(view.node[n], known.node[n]) => NodeSame(s, k)
      BY <2>1 DEF NodeWritten
    <2>3. \A m \in Nodes : m # n => view'.node[m] = view.node[m] /\ known'.node[m] = known.node[m]
      BY <2>2, GraphTypes DEF Put
    <2>4. <<"node", n>> \notin torn => NodeSame(view'.node[n], known'.node[n])
      BY <1>3, <2>2 DEF Agree, Put
    <2>5. Agree(view', known', torn)
      BY <1>3, <2>1, <2>3, <2>4, NodeAgrees DEF NodeWritten
    <2> QED BY <1>1, <1>2, <2>5 DEF AInv
  <1>5. CASE \E e \in Edges : EdgeWritten(e)
    <2>1. PICK e \in Edges : EdgeWritten(e)
      BY <1>5
    <2>2. PICK s, k : /\ Put(view.edge, view'.edge, e, s) /\ Put(known.edge, known'.edge, e, k)
                      /\ EdgeSame(view.edge[e], known.edge[e]) => EdgeSame(s, k)
      BY <2>1 DEF EdgeWritten
    <2>3. \A m \in Edges : m # e => view'.edge[m] = view.edge[m] /\ known'.edge[m] = known.edge[m]
      BY <2>2, GraphTypes DEF Put
    <2>4. <<"edge", e>> \notin torn => EdgeSame(view'.edge[e], known'.edge[e])
      BY <1>3, <2>2 DEF Agree, Put
    <2>5. Agree(view', known', torn)
      BY <1>3, <2>1, <2>3, <2>4, EdgeAgrees DEF EdgeWritten
    <2> QED BY <1>1, <1>2, <2>5 DEF AInv
  <1> QED BY <1>4, <1>5

LEMMA ARaises ==
  ASSUME TInv, AInv, Raised \/ CreationRaises
  PROVE  AInv'
  <1>1. torn' \cup UnderWay' = torn \cup UnderWay /\ torn \subseteq torn'
    <2>1. CASE Raised
      <3>1. call = NoCall /\ call' = NoCall /\ torn' = torn
        BY <2>1, WriteDoes DEF Raised, Raises, Raise
      <3> QED BY <3>1, Idle
    <2>2. CASE CreationRaises
      <3>1. torn' = torn \cup {<<call.op, call.id>>} /\ call' = NoCall /\ call.op \in {"node", "edge"}
        BY <2>2 DEF CreationRaises, Raise
      <3>2. UnderWay = {<<call.op, call.id>>} /\ UnderWay' = {}
        BY <3>1, NoNone, Idle DEF UnderWay
      <3> QED BY <3>1, <3>2
    <2> QED BY <2>1, <2>2
  <1>2. UNCHANGED <<base, settled, view, known>>
    BY DEF Raised, Raises, CreationRaises, graphs
  <1>3. Agree(base, settled, torn')
    BY <1>1, AgreeLess DEF AInv
  <1> QED BY <1>1, <1>2, <1>3 DEF AInv

LEMMA ACreates ==
  ASSUME TInv, AInv,
         \/ \E labels \in SUBSET Labels, prop \in Values \cup {None} : NodeCreate(labels, prop)
         \/ \E s, t \in Nodes, prop \in Values \cup {None} : EdgeCreate(s, t, prop)
         \/ NodeAddLabel
  PROVE  AInv'
  <1>1. UNCHANGED <<base, settled, torn, known>>
    BY DEF NodeCreate, EdgeCreate, NodeAddLabel, told
  <1>2. Agree(view, known, torn \cup UnderWay)
    BY DEF AInv
  <1>3. SUFFICES Agree(view', known, torn \cup UnderWay')
    BY <1>1 DEF AInv
  <1>4. ASSUME NEW n \in Nodes, NEW s, call'.op = "node", call'.id = n, UnderWay \subseteq {<<"node", n>>},
               view'.edge = view.edge, Put(view.node, view'.node, n, s)
        PROVE  Agree(view', known, torn \cup UnderWay')
    <2>1. UnderWay' = {<<"node", n>>}
      BY <1>4, NoNone DEF UnderWay
    <2>2. \A m \in Nodes : m # n => view'.node[m] = view.node[m]
      BY <1>4, GraphTypes DEF Put
    <2> DEFINE T == torn \cup UnderWay
               T2 == torn \cup UnderWay'
    <2>3. T \subseteq T2 \cup {<<"node", n>>} /\ <<"node", n>> \in T2 /\ Agree(view, known, T)
      BY <1>2, <1>4, <2>1
    <2> HIDE DEF T, T2
    <2>4. Agree(view', known, T2)
      BY <1>4, <2>2, <2>3, NodeAgrees
    <2> QED BY <2>4 DEF T2
  <1>5. CASE \E labels \in SUBSET Labels, prop \in Values \cup {None} : NodeCreate(labels, prop)
    <2>1. /\ Write /\ ids.node \in Nodes /\ view'.edge = view.edge
          /\ call'.op = "node" /\ call'.id = ids.node
          /\ \E s : Put(view.node, view'.node, ids.node, s)
      BY <1>5, NodeCreateDoes
    <2>2. UnderWay = {}
      BY <2>1, WriteDoes, Idle
    <2> QED BY <1>4, <2>1, <2>2
  <1>6. CASE NodeAddLabel
    <2>1. /\ call.op = "node" /\ view'.edge = view.edge
          /\ call'.op = "node" /\ call'.id = call.id
          /\ \E s : Put(view.node, view'.node, call.id, s)
      BY <1>6, NodeAddLabelDoes
    <2>2. call.id \in Nodes /\ UnderWay = {<<"node", call.id>>}
      BY <2>1, NoNone DEF UnderWay, TInv, CallInv
    <2> QED BY <1>4, <2>1, <2>2
  <1>7. CASE \E s, t \in Nodes, prop \in Values \cup {None} : EdgeCreate(s, t, prop)
    <2>1. /\ Write /\ ids.edge \in Edges /\ view'.node = view.node
          /\ call'.op = "edge" /\ call'.id = ids.edge
          /\ \E x : Put(view.edge, view'.edge, ids.edge, x)
      BY <1>7, EdgeCreateDoes
    <2>2. UnderWay = {} /\ UnderWay' = {<<"edge", ids.edge>>}
      BY <2>1, WriteDoes, Idle, NoNone DEF UnderWay
    <2>3. \A m \in Edges : m # ids.edge => view'.edge[m] = view.edge[m]
      BY <2>1, GraphTypes DEF Put
    <2> DEFINE T == torn \cup UnderWay
               T2 == torn \cup UnderWay'
               e == ids.edge
    <2>4. T \subseteq T2 \cup {<<"edge", e>>} /\ <<"edge", e>> \in T2 /\ Agree(view, known, T)
      BY <1>2, <2>2
    <2>5. e \in Edges /\ \A m \in Edges : m # e => view'.edge[m] = view.edge[m]
      BY <2>1, <2>3
    <2> HIDE DEF T, T2, e
    <2>6. Agree(view', known, T2)
      BY <2>1, <2>4, <2>5, EdgeAgrees
    <2> QED BY <2>6 DEF T2
  <1> QED BY <1>5, <1>6, <1>7

LEMMA AReturns ==
  ASSUME TInv, AInv, NodeReturn \/ EdgeReturn
  PROVE  AInv'
  <1>1. /\ UNCHANGED <<base, settled, torn>> /\ call' = NoCall
    BY DEF NodeReturn, EdgeReturn
  <1>2. Agree(view, known, torn \cup UnderWay) /\ torn' \cup UnderWay' = torn
    BY <1>1, Idle DEF AInv
  <1>3. CASE NodeReturn
    <2>1. /\ call.op = "node" /\ call.id \in Nodes
          /\ view'.edge = view.edge /\ known'.edge = known.edge
      BY <1>3, NodeReturnDoes
    <2>2. PICK s, k : /\ Put(view.node, view'.node, call.id, s) /\ Put(known.node, known'.node, call.id, k)
                      /\ NodeSame(s, k)
      BY <1>3, NodeReturnDoes
    <2>3. UnderWay = {<<"node", call.id>>}
      BY <2>1, NoNone DEF UnderWay
    <2>4. /\ \A m \in Nodes : m # call.id => view'.node[m] = view.node[m] /\ known'.node[m] = known.node[m]
          /\ NodeSame(view'.node[call.id], known'.node[call.id])
      BY <2>2, GraphTypes DEF Put
    <2> DEFINE T == torn \cup UnderWay
    <2>6. T \subseteq torn \cup {<<"node", call.id>>} /\ Agree(view, known, T)
      BY <1>2, <2>3
    <2> DEFINE i == call.id
    <2>7. /\ i \in Nodes /\ T \subseteq torn \cup {<<"node", i>>} /\ NodeSame(view'.node[i], known'.node[i])
          /\ \A m \in Nodes : m # i => view'.node[m] = view.node[m] /\ known'.node[m] = known.node[m]
      BY <2>1, <2>4, <2>6
    <2> HIDE DEF T, i
    <2>5. Agree(view', known', torn)
      <3>1. ASSUME NEW m \in Nodes, <<"node", m>> \notin torn PROVE NodeSame(view'.node[m], known'.node[m])
        <4>1. CASE m = i
          BY <2>7, <4>1
        <4>2. CASE m # i
          <5>1. <<"node", m>> \notin T
            BY <2>7, <3>1, <4>2
          <5> QED BY <2>6, <2>7, <4>2, <5>1 DEF Agree
        <4> QED BY <4>1, <4>2
      <3>2. ASSUME NEW m \in Edges, <<"edge", m>> \notin torn PROVE EdgeSame(view'.edge[m], known'.edge[m])
        <4>1. <<"edge", m>> \notin T
          BY <2>7, <3>2
        <4> QED BY <2>1, <2>6, <4>1 DEF Agree
      <3> QED BY <3>1, <3>2 DEF Agree
    <2> QED BY <1>1, <1>2, <2>5 DEF AInv
  <1>4. CASE EdgeReturn
    <2>1. /\ call.op = "edge" /\ call.id \in Edges
          /\ view'.node = view.node /\ known'.node = known.node
      BY <1>4, EdgeReturnDoes
    <2>2. PICK s, k : /\ Put(view.edge, view'.edge, call.id, s) /\ Put(known.edge, known'.edge, call.id, k)
                      /\ EdgeSame(s, k)
      BY <1>4, EdgeReturnDoes
    <2>3. UnderWay = {<<"edge", call.id>>}
      BY <2>1, NoNone DEF UnderWay
    <2>4. /\ \A m \in Edges : m # call.id => view'.edge[m] = view.edge[m] /\ known'.edge[m] = known.edge[m]
          /\ EdgeSame(view'.edge[call.id], known'.edge[call.id])
      BY <2>2, GraphTypes DEF Put
    <2> DEFINE T == torn \cup UnderWay
    <2>6. T \subseteq torn \cup {<<"edge", call.id>>} /\ Agree(view, known, T)
      BY <1>2, <2>3
    <2> DEFINE i == call.id
    <2>7. /\ i \in Edges /\ T \subseteq torn \cup {<<"edge", i>>} /\ EdgeSame(view'.edge[i], known'.edge[i])
          /\ \A m \in Edges : m # i => view'.edge[m] = view.edge[m] /\ known'.edge[m] = known.edge[m]
      BY <2>1, <2>4, <2>6
    <2> HIDE DEF T, i
    <2>5. Agree(view', known', torn)
      <3>1. ASSUME NEW m \in Edges, <<"edge", m>> \notin torn PROVE EdgeSame(view'.edge[m], known'.edge[m])
        <4>1. CASE m = i
          BY <2>7, <4>1
        <4>2. CASE m # i
          <5>1. <<"edge", m>> \notin T
            BY <2>7, <3>1, <4>2
          <5> QED BY <2>6, <2>7, <4>2, <5>1 DEF Agree
        <4> QED BY <4>1, <4>2
      <3>2. ASSUME NEW m \in Nodes, <<"node", m>> \notin torn PROVE NodeSame(view'.node[m], known'.node[m])
        <4>1. <<"node", m>> \notin T
          BY <2>7, <3>2
        <4> QED BY <2>1, <2>6, <4>1 DEF Agree
      <3> QED BY <3>1, <3>2 DEF Agree
    <2> QED BY <1>1, <1>2, <2>5 DEF AInv
  <1> QED BY <1>3, <1>4

LEMMA ABatch == ASSUME TInv, AInv, NEW l \in Labels, BatchInsert(l) PROVE AInv'
  <1>1. PICK made \in 0..2, new \in SUBSET Nodes :
          /\ Write /\ view'.edge = view.edge /\ UNCHANGED <<base, settled>>
          /\ \A n \in Nodes \ new : view'.node[n] = view.node[n]
          /\ \/ /\ known'.edge = known.edge
                /\ \A n \in Nodes \ new : known'.node[n] = known.node[n]
                /\ \A n \in new : NodeSame(view'.node[n], known'.node[n])
                /\ UNCHANGED <<call, torn>>
             \/ Raise({<<"node", n>> : n \in new}) /\ UNCHANGED known
    BY BatchDoes
  <1>2. call = NoCall /\ call' = NoCall /\ torn \subseteq torn'
    BY <1>1, WriteDoes DEF Raise
  <1>3. UnderWay = {} /\ UnderWay' = {}
    BY <1>2, Idle
  <1>4. Agree(base', settled', torn')
    BY <1>1, <1>2, AgreeLess DEF AInv
  <1>5. Agree(view, known, torn)
    BY <1>3 DEF AInv
  <1>6. Agree(view', known', torn')
    <2>1. ASSUME NEW n \in Nodes, <<"node", n>> \notin torn'
          PROVE  NodeSame(view'.node[n], known'.node[n])
      BY <1>1, <1>2, <1>5, <2>1 DEF Agree, Raise
    <2>2. ASSUME NEW e \in Edges, <<"edge", e>> \notin torn'
          PROVE  EdgeSame(view'.edge[e], known'.edge[e])
      BY <1>1, <1>2, <1>5, <2>2 DEF Agree
    <2> QED BY <2>1, <2>2 DEF Agree
  <1> QED BY <1>3, <1>4, <1>6 DEF AInv

LEMMA AStep == ASSUME TInv, AInv, [Next]_vars PROVE AInv'
  <1>1. CASE Next
    BY <1>1, Steps, ABlock, AWritten, ARaises, ACreates, AReturns, ABatch
  <1>2. CASE UNCHANGED vars
    BY <1>2 DEF vars, told, AInv, UnderWay
  <1> QED BY <1>1, <1>2
-----------------------------------------------------------------------------
(* What was torn stays out of the committed graph.                         *)

LEMMA OInit == ASSUME Init PROVE OInv
  <1>1. UnderWay = {} /\ torn = {}
    BY Idle DEF Init
  <1>2. /\ \A n \in Nodes : EmptyGraph.node[n] = None
        /\ \A e \in Edges : EmptyGraph.edge[e] = None
    BY DEF EmptyGraph
  <1> QED BY <1>1, <1>2 DEF Init, OInv, Unmade, Held

\* Steps that leave the identifiers and what is torn alone: what the parts of
\* OInv say of a graph is kept when the graph gains nothing.
LEMMA Gains ==
  ASSUME NEW g, NEW h, NEW T,
         \A n \in Nodes : h.node[n] # None => g.node[n] # None,
         \A e \in Edges : h.edge[e] # None => g.edge[e] # None
  PROVE  (Unmade(g, T) => Unmade(h, T)) /\ (Held(g) => Held(h))
  BY DEF Unmade, Held

LEMMA OBlock ==
  ASSUME TInv, OInv, (\E ro \in BOOLEAN : Begin(ro)) \/ Commit \/ Exit \/ Catch
  PROVE  OInv'
  <1>1. call = NoCall /\ call' = NoCall /\ torn' = torn /\ ids' = ids
    BY DEF Begin, Commit, Exit, Catch, TInv, TypeOK, graphs
  <1>2. UnderWay = {} /\ UnderWay' = {}
    BY <1>1, Idle
  <1>3. /\ Unmade(base, {}) /\ Unmade(view, {}) /\ Unmade(settled, torn) /\ Unmade(known, torn)
        /\ Held(base) /\ (block = "in" /\ ~caught => Held(view))
    BY <1>2 DEF OInv
  <1>4. /\ Unmade(base', {}) /\ Unmade(view', {}) /\ Unmade(settled', torn) /\ Unmade(known', torn)
    BY <1>3 DEF Begin, Commit, Exit, Catch, graphs
  <1>5. Held(base)'
    <2>1. CASE Commit
      <3>1. block = "in" /\ base' = view /\ excused' = IF caught THEN torn ELSE excused
        BY <2>1 DEF Commit
      <3> QED BY <1>1, <1>3, <3>1 DEF Held
    <2>2. CASE ~Commit
      <3>1. base' = base /\ excused' = excused
        BY <2>2 DEF Begin, Exit, Catch, graphs
      <3> QED BY <1>1, <1>3, <3>1 DEF Held
    <2> QED BY <2>1, <2>2
  <1>6. block' = "in" /\ ~caught' => Held(view)'
    <2>1. CASE \E ro \in BOOLEAN : Begin(ro)
      <3>1. view' = base /\ excused' = excused
        BY <2>1 DEF Begin
      <3> QED BY <1>1, <1>3, <3>1 DEF Held
    <2>2. CASE Commit \/ Exit \/ Catch
      BY <2>2 DEF Commit, Exit, Catch
    <2> QED BY <2>1, <2>2
  <1>7. /\ Unmade(base, UnderWay)' /\ Unmade(view, {})'
        /\ Unmade(settled, torn \cup UnderWay)' /\ Unmade(known, torn \cup UnderWay)'
    BY <1>1, <1>2, <1>4 DEF Unmade
  <1> QED BY <1>1, <1>2, <1>5, <1>6, <1>7 DEF OInv

LEMMA OWritten ==
  ASSUME TInv, OInv, Written,
         (\E n \in Nodes : NodeWritten(n)) \/ (\E e \in Edges : EdgeWritten(e))
  PROVE  OInv'
  <1>1. /\ call = NoCall /\ call' = NoCall
        /\ UNCHANGED <<base, settled, torn, ids, caught, excused, block>>
    BY WriteDoes DEF Written
  <1>2. UnderWay = {} /\ UnderWay' = {}
    BY <1>1, Idle
  <1>3. /\ \A n \in Nodes : view'.node[n] # None => view.node[n] # None
        /\ \A e \in Edges : view'.edge[e] # None => view.edge[e] # None
        /\ \A n \in Nodes : known'.node[n] # None => known.node[n] # None
        /\ \A e \in Edges : known'.edge[e] # None => known.edge[e] # None
    <2>1. CASE \E n \in Nodes : NodeWritten(n)
      <3>1. PICK n \in Nodes : NodeWritten(n)
        BY <2>1
      <3>2. PICK s, k : /\ Put(view.node, view'.node, n, s) /\ Put(known.node, known'.node, n, k)
                        /\ (s # None => view.node[n] # None) /\ (k # None => known.node[n] # None)
        BY <3>1 DEF NodeWritten
      <3> QED BY <3>1, <3>2, GraphTypes DEF NodeWritten, Put
    <2>2. CASE \E e \in Edges : EdgeWritten(e)
      <3>1. PICK e \in Edges : EdgeWritten(e)
        BY <2>2
      <3>2. PICK s, k : /\ Put(view.edge, view'.edge, e, s) /\ Put(known.edge, known'.edge, e, k)
                        /\ (s # None => view.edge[e] # None) /\ (k # None => known.edge[e] # None)
        BY <3>1 DEF EdgeWritten
      <3> QED BY <3>1, <3>2, GraphTypes DEF EdgeWritten, Put
    <2> QED BY <2>1, <2>2
  <1>4. /\ Unmade(view', {}) /\ Unmade(known', torn)
        /\ (block = "in" /\ ~caught => Held(view'))
    BY <1>2, <1>3, Gains DEF OInv
  <1>5. /\ Unmade(base, UnderWay)' /\ Unmade(view, {})'
        /\ Unmade(settled, torn \cup UnderWay)' /\ Unmade(known, torn \cup UnderWay)'
    BY <1>1, <1>2, <1>4 DEF Unmade, OInv
  <1>6. Held(base)' /\ (block' = "in" /\ ~caught' => Held(view)')
    BY <1>1, <1>4 DEF Held, OInv
  <1> QED BY <1>1, <1>2, <1>5, <1>6 DEF OInv

LEMMA ORaises ==
  ASSUME TInv, OInv, Raised \/ CreationRaises
  PROVE  OInv'
  <1>1. /\ torn' \cup UnderWay' = torn \cup UnderWay /\ UnderWay' = {}
        /\ torn' = torn \cup UnderWay /\ block' = "raising"
    <2>1. CASE Raised
      <3>1. call = NoCall /\ call' = NoCall /\ torn' = torn /\ block' = "raising"
        BY <2>1, WriteDoes DEF Raised, Raises, Raise
      <3> QED BY <3>1, Idle
    <2>2. CASE CreationRaises
      <3>1. /\ torn' = torn \cup {<<call.op, call.id>>} /\ call' = NoCall
            /\ call.op \in {"node", "edge"} /\ block' = "raising"
        BY <2>2 DEF CreationRaises, Raise
      <3>2. UnderWay = {<<call.op, call.id>>} /\ UnderWay' = {}
        BY <3>1, NoNone, Idle DEF UnderWay
      <3> QED BY <3>1, <3>2
    <2> QED BY <2>1, <2>2
  <1>2. UNCHANGED <<base, settled, view, known, ids, excused>>
    BY DEF Raised, Raises, CreationRaises, graphs
  <1>3. /\ \A n \in Nodes : <<"node", n>> \in UnderWay => n < ids.node
        /\ \A e \in Edges : <<"edge", e>> \in UnderWay => e < ids.edge
    BY DEF UnderWay, TInv, CallInv
  <1>4. Held(base)'
    BY <1>1, <1>2 DEF Held, OInv, Unmade
  <1>5. /\ Unmade(base, UnderWay)' /\ Unmade(view, {})'
        /\ Unmade(settled, torn \cup UnderWay)' /\ Unmade(known, torn \cup UnderWay)'
    BY <1>1, <1>2 DEF Unmade, OInv
  <1> QED BY <1>1, <1>2, <1>3, <1>4, <1>5 DEF OInv

LEMMA ONodeCreate ==
  ASSUME TInv, OInv, NEW labels \in SUBSET Labels, NEW prop \in Values \cup {None},
         NodeCreate(labels, prop)
  PROVE  OInv'
  <1> DEFINE i == ids.node
  <1>1. /\ Write /\ i \in Nodes /\ view'.edge = view.edge
        /\ call'.op = "node" /\ call'.id = i
        /\ ids' = [node |-> i + 1, edge |-> ids.edge]
        /\ UNCHANGED <<base, block, readOnly, told>>
    BY NodeCreateDoes
  <1>2. PICK s : Put(view.node, view'.node, i, s)
    BY NodeCreateDoes
  <1>3. UnderWay = {} /\ UnderWay' = {<<"node", i>>}
    BY <1>1, WriteDoes, Idle, NoNone DEF UnderWay
  <1>4. ids'.node = i + 1 /\ ids'.edge = ids.edge /\ i \in Nat /\ \A n \in Nodes : n \in Nat
    BY <1>1, CallTypes, NoNone
  <1>5. \A m \in Nodes : m # i => view'.node[m] = view.node[m]
    BY <1>2, GraphTypes DEF Put
  <1>6. UNCHANGED <<base, block, settled, known, torn, caught, excused>>
    BY <1>1 DEF told
  <1>7. <<"node", i>> \notin torn
    BY <1>1, <1>4 DEF OInv
  <1> HIDE DEF i
  <1>8. /\ \A n \in Nodes : n >= i + 1 => n >= i
        /\ \A n \in Nodes : n < i => n < i + 1
        /\ \A n \in Nodes : n >= i + 1 => n # i
        /\ i >= i
    BY <1>4
  <1>9. Unmade(base, UnderWay)' /\ Unmade(settled, torn \cup UnderWay)' /\ Unmade(known, torn \cup UnderWay)'
    BY <1>3, <1>4, <1>6, <1>8 DEF OInv, Unmade, i
  <1>10. Unmade(view, {})'
    BY <1>1, <1>4, <1>5, <1>8 DEF OInv, Unmade, i
  <1>11. Held(base)' /\ (block' = "in" /\ ~caught' => Held(view)')
    BY <1>1, <1>5, <1>6, <1>7 DEF OInv, Held
  <1>12. torn' \cap UnderWay' = {}
    BY <1>3, <1>6, <1>7
  <1>13. /\ \A n \in Nodes : <<"node", n>> \in torn' => n < ids'.node
         /\ \A e \in Edges : <<"edge", e>> \in torn' => e < ids'.edge
    BY <1>4, <1>6, <1>8 DEF OInv, i
  <1> QED BY <1>9, <1>10, <1>11, <1>12, <1>13 DEF OInv

LEMMA OEdgeCreate ==
  ASSUME TInv, OInv, NEW s \in Nodes, NEW t \in Nodes, NEW prop \in Values \cup {None},
         EdgeCreate(s, t, prop)
  PROVE  OInv'
  <1> DEFINE i == ids.edge
  <1>1. /\ Write /\ i \in Edges /\ view'.node = view.node
        /\ call'.op = "edge" /\ call'.id = i
        /\ ids' = [node |-> ids.node, edge |-> i + 1]
        /\ UNCHANGED <<base, block, readOnly, told>>
    BY EdgeCreateDoes
  <1>2. PICK x : Put(view.edge, view'.edge, i, x)
    BY EdgeCreateDoes
  <1>3. UnderWay = {} /\ UnderWay' = {<<"edge", i>>}
    BY <1>1, WriteDoes, Idle, NoNone DEF UnderWay
  <1>4. ids'.edge = i + 1 /\ ids'.node = ids.node /\ i \in Nat /\ \A e \in Edges : e \in Nat
    BY <1>1, CallTypes, NoNone
  <1>5. \A m \in Edges : m # i => view'.edge[m] = view.edge[m]
    BY <1>2, GraphTypes DEF Put
  <1>6. UNCHANGED <<base, block, settled, known, torn, caught, excused>>
    BY <1>1 DEF told
  <1>7. <<"edge", i>> \notin torn
    BY <1>1, <1>4 DEF OInv
  <1> HIDE DEF i
  <1>8. /\ \A n \in Edges : n >= i + 1 => n >= i
        /\ \A n \in Edges : n < i => n < i + 1
        /\ \A n \in Edges : n >= i + 1 => n # i
        /\ i >= i
    BY <1>4
  <1>9. Unmade(base, UnderWay)' /\ Unmade(settled, torn \cup UnderWay)' /\ Unmade(known, torn \cup UnderWay)'
    BY <1>3, <1>4, <1>6, <1>8 DEF OInv, Unmade, i
  <1>10. Unmade(view, {})'
    BY <1>1, <1>4, <1>5, <1>8 DEF OInv, Unmade, i
  <1>11. Held(base)' /\ (block' = "in" /\ ~caught' => Held(view)')
    BY <1>1, <1>5, <1>6, <1>7 DEF OInv, Held
  <1>12. torn' \cap UnderWay' = {}
    BY <1>3, <1>6, <1>7
  <1>13. /\ \A n \in Nodes : <<"node", n>> \in torn' => n < ids'.node
         /\ \A e \in Edges : <<"edge", e>> \in torn' => e < ids'.edge
    BY <1>4, <1>6, <1>8 DEF OInv, i
  <1> QED BY <1>9, <1>10, <1>11, <1>12, <1>13 DEF OInv

LEMMA OContinues ==
  ASSUME TInv, OInv, NodeAddLabel \/ NodeReturn \/ EdgeReturn
  PROVE  OInv'
  <1>1. UNCHANGED <<base, ids, block, settled, torn, caught, excused>>
    BY DEF NodeAddLabel, NodeReturn, EdgeReturn, told
  <1>2. CASE call.op = "node"
    <2>1. call.id \in Nodes /\ UnderWay = {<<"node", call.id>>} /\ UnderWay' \subseteq UnderWay
      <3>1. call.id \in Nodes /\ UnderWay = {<<"node", call.id>>}
        BY <1>2, NoNone DEF UnderWay, TInv, CallInv
      <3>2. UnderWay' \subseteq UnderWay
        <4>1. CASE NodeAddLabel
          BY <4>1, <3>1, NodeAddLabelDoes, NoNone DEF UnderWay
        <4>2. CASE NodeReturn \/ EdgeReturn
          BY <4>2, Idle DEF NodeReturn, EdgeReturn
        <4> QED BY <4>1, <4>2
      <3> QED BY <3>1, <3>2
    <2> DEFINE i == call.id
    <2>2. /\ view'.edge = view.edge /\ known'.edge = known.edge
          /\ \A n \in Nodes : n # i => view'.node[n] = view.node[n] /\ known'.node[n] = known.node[n]
          /\ UnderWay' # {} => known' = known
      <3>1. CASE NodeAddLabel
        <4>1. view'.edge = view.edge /\ known' = known
          BY <3>1, NodeAddLabelDoes DEF told
        <4>2. PICK s : Put(view.node, view'.node, call.id, s)
          BY <3>1, NodeAddLabelDoes
        <4> QED BY <4>1, <4>2, GraphTypes DEF Put
      <3>2. CASE NodeReturn
        <4>1. view'.edge = view.edge /\ known'.edge = known.edge /\ call' = NoCall
          BY <3>2, NodeReturnDoes
        <4>2. PICK s, k : Put(view.node, view'.node, call.id, s) /\ Put(known.node, known'.node, call.id, k)
          BY <3>2, NodeReturnDoes
        <4> QED BY <4>1, <4>2, GraphTypes, Idle DEF Put
      <3>3. CASE EdgeReturn
        BY <1>2, <3>3 DEF EdgeReturn
      <3> QED BY <3>1, <3>2, <3>3
    <2>3. <<"node", i>> \notin torn /\ ~(i >= ids.node)
      <3>1. i < ids.node /\ i \in Nat /\ ids.node \in Nat
        BY <1>2, <2>1, CallTypes, NoNone DEF TInv, CallInv
      <3> QED BY <2>1, <3>1 DEF OInv
    <2> HIDE DEF i
    <2>4. Unmade(base, UnderWay)' /\ Unmade(settled, torn \cup UnderWay)'
      BY <1>1, <2>1 DEF OInv, Unmade
    <2>5. Unmade(view, {})'
      BY <1>1, <2>1, <2>2, <2>3 DEF OInv, Unmade
    <2>6. Unmade(known, torn \cup UnderWay)'
      <3>1. CASE UnderWay' = {}
        BY <1>1, <2>1, <2>2, <2>3, <3>1 DEF OInv, Unmade
      <3>2. CASE UnderWay' # {}
        BY <1>1, <2>1, <2>2, <3>2 DEF OInv, Unmade
      <3> QED BY <3>1, <3>2
    <2>7. Held(base)' /\ (block' = "in" /\ ~caught' => Held(view)')
      BY <1>1, <2>1, <2>2, <2>3 DEF OInv, Held
    <2> QED BY <1>1, <2>1, <2>4, <2>5, <2>6, <2>7 DEF OInv
  <1>3. CASE call.op = "edge"
    <2>1. call.id \in Edges /\ UnderWay = {<<"edge", call.id>>} /\ UnderWay' = {}
      <3>1. EdgeReturn
        BY <1>3 DEF NodeAddLabel, NodeReturn
      <3> QED BY <1>3, <3>1, NoNone, Idle DEF UnderWay, TInv, CallInv, EdgeReturn
    <2> DEFINE i == call.id
    <2>2. /\ view'.node = view.node /\ known'.node = known.node
          /\ \A e \in Edges : e # i => view'.edge[e] = view.edge[e] /\ known'.edge[e] = known.edge[e]
      <3>1. EdgeReturn
        BY <1>3 DEF NodeAddLabel, NodeReturn
      <3>2. view'.node = view.node /\ known'.node = known.node
        BY <3>1, EdgeReturnDoes
      <3>3. PICK s, k : Put(view.edge, view'.edge, call.id, s) /\ Put(known.edge, known'.edge, call.id, k)
        BY <3>1, EdgeReturnDoes
      <3> QED BY <3>2, <3>3, GraphTypes DEF Put
    <2>3. <<"edge", i>> \notin torn /\ ~(i >= ids.edge)
      <3>1. i < ids.edge /\ i \in Nat /\ ids.edge \in Nat
        BY <1>3, <2>1, CallTypes, NoNone DEF TInv, CallInv
      <3> QED BY <2>1, <3>1 DEF OInv
    <2> HIDE DEF i
    <2>4. Unmade(base, UnderWay)' /\ Unmade(settled, torn \cup UnderWay)'
      BY <1>1, <2>1 DEF OInv, Unmade
    <2>5. Unmade(view, {})'
      BY <1>1, <2>1, <2>2, <2>3 DEF OInv, Unmade
    <2>6. Unmade(known, torn \cup UnderWay)'
      BY <1>1, <2>1, <2>2, <2>3 DEF OInv, Unmade
    <2>7. Held(base)' /\ (block' = "in" /\ ~caught' => Held(view)')
      BY <1>1, <2>1, <2>2, <2>3 DEF OInv, Held
    <2> QED BY <1>1, <2>1, <2>4, <2>5, <2>6, <2>7 DEF OInv
  <1> QED BY <1>2, <1>3 DEF NodeAddLabel, NodeReturn, EdgeReturn

LEMMA OBatch == ASSUME TInv, OInv, NEW l \in Labels, BatchInsert(l) PROVE OInv'
  <1> DEFINE i == ids.node
  <1>1. PICK made \in 0..2, new \in SUBSET Nodes :
          /\ Write /\ new = {n \in Nodes : i <= n /\ n < i + made}
          /\ ids' = [node |-> i + made, edge |-> ids.edge]
          /\ view'.edge = view.edge /\ UNCHANGED <<base, settled, caught, excused>>
          /\ \A n \in Nodes \ new : view'.node[n] = view.node[n]
          /\ \/ /\ known'.edge = known.edge
                /\ \A n \in Nodes \ new : known'.node[n] = known.node[n]
                /\ UNCHANGED <<block, call, torn>>
             \/ Raise({<<"node", n>> : n \in new}) /\ UNCHANGED known
    BY BatchDoes
  <1>2. call = NoCall /\ call' = NoCall
    BY <1>1, WriteDoes DEF Raise
  <1>3. UnderWay = {} /\ UnderWay' = {}
    BY <1>2, Idle
  <1>4. ids'.node = i + made /\ ids'.edge = ids.edge /\ i \in Nat /\ made \in Nat /\ \A n \in Nodes : n \in Nat
    BY <1>1, CallTypes, NoNone
  <1>5. /\ \A n \in Nodes : n >= i + made => n >= i /\ n \notin new
        /\ \A n \in new : n >= i /\ n < i + made
        /\ \A n \in Nodes : n < i => n < i + made /\ n \notin new
        /\ \A n \in new : ~(n < i)
    BY <1>1, <1>4
  <1> HIDE DEF i
  <1>6. \/ torn' = torn /\ block' = block
        \/ torn' = torn \cup {<<"node", n>> : n \in new} /\ known' = known /\ block' = "raising"
    BY <1>1 DEF Raise
  <1>7. /\ known'.edge = known.edge
        /\ \A n \in Nodes \ new : known'.node[n] = known.node[n]
        /\ torn' # torn => known' = known
    BY <1>1 DEF Raise
  <1>8. /\ \A n \in Nodes : <<"node", n>> \in torn' => <<"node", n>> \in torn \/ n \in new
        /\ \A e \in Edges : <<"edge", e>> \in torn' => <<"edge", e>> \in torn
    BY <1>6
  <1>9. \A n \in new : <<"node", n>> \notin torn
    BY <1>5 DEF OInv, i
  <1>10. Unmade(base, UnderWay)' /\ Unmade(view, {})'
    BY <1>1, <1>3, <1>4, <1>5 DEF OInv, Unmade, i
  <1>11. Unmade(settled, torn \cup UnderWay)'
    BY <1>1, <1>3, <1>4, <1>5, <1>8 DEF OInv, Unmade, i
  <1>12. Unmade(known, torn \cup UnderWay)'
    <2>1. CASE torn' = torn
      BY <1>3, <1>4, <1>5, <1>7, <1>9, <2>1 DEF OInv, Unmade, i
    <2>2. CASE torn' # torn
      BY <1>3, <1>4, <1>5, <1>7, <1>8, <2>2 DEF OInv, Unmade, i
    <2> QED BY <2>1, <2>2
  <1>13. Held(base)'
    BY <1>1, <1>5, <1>8 DEF OInv, Held, Unmade, i
  <1>14. block' = "in" /\ ~caught' => Held(view)'
    <2>1. SUFFICES ASSUME block' = "in", ~caught' PROVE Held(view)'
      OBVIOUS
    <2>2. torn' = torn /\ block = "in" /\ ~caught
      BY <1>1, <1>6, <2>1
    <2> QED BY <1>1, <1>9, <2>2 DEF OInv, Held
  <1>15. /\ \A n \in Nodes : <<"node", n>> \in torn' => n < ids'.node
         /\ \A e \in Edges : <<"edge", e>> \in torn' => e < ids'.edge
    BY <1>4, <1>5, <1>8 DEF OInv, i
  <1> QED BY <1>3, <1>10, <1>11, <1>12, <1>13, <1>14, <1>15 DEF OInv

LEMMA OStep == ASSUME TInv, OInv, [Next]_vars PROVE OInv'
  <1>1. CASE Next
    BY <1>1, Steps, OBlock, OWritten, ORaises, ONodeCreate, OEdgeCreate, OContinues, OBatch
  <1>2. CASE UNCHANGED vars
    BY <1>2 DEF vars, told, graphs, OInv, UnderWay, Unmade, Held
  <1> QED BY <1>1, <1>2

(* A node or an edge whose creation raised part-way is in no committed     *)
(* graph, unless the program itself caught the exception inside the block  *)
(* and went on to commit.  It takes that an identifier is never given out  *)
(* again and that the end of a block commits nothing after an exception.   *)
THEOREM CreationsAreWhole == Spec => []OnlyWholeCommitted
  <1>1. Spec => [](TInv /\ OInv)
    BY TInit, TStep, OInit, OStep, PTL DEF Spec
  <1>2. OInv => OnlyWholeCommitted
    BY DEF OInv, Held, OnlyWholeCommitted, TornNodes, TornEdges
  <1> QED BY <1>1, <1>2, PTL

-----------------------------------------------------------------------------
(* The conditions under which a read gives back what was written.  The     *)
(* codec returns the value that it took, and a label has no comma in it,   *)
(* which is to say that it is a single word.                               *)
CodecKeeps == \A v \in Values : PythonToValue(v) # Refused => ValueToPython(PythonToValue(v)) = v
WordLabels == \A l \in Labels : \E w : l = <<w>>

\* The split of the joined labels gives them back.
LEMMA LabelsSplit ==
  ASSUME WordLabels, NEW L, L \subseteq Labels
  PROVE  UNION {{<<l[i]>> : i \in DOMAIN l} : l \in L} = L
  <1>1. ASSUME NEW l \in L PROVE {<<l[i]>> : i \in DOMAIN l} = {l}
    <2>1. PICK w : l = <<w>>
      BY <1>1 DEF WordLabels
    <2>2. DOMAIN l = {1} /\ l[1] = w
      BY <2>1
    <2> QED BY <2>1, <2>2
  <1> QED BY <1>1

LEMMA EdgeOtherProp ==
  ASSUME NEW a, NEW b, NEW c, NEW d, NEW s, s = [source |-> a, target |-> b, prop |-> c]
  PROVE  [s EXCEPT !.prop = d] = [source |-> a, target |-> b, prop |-> d]
  OBVIOUS

(* Between the calls of a block every method that reads answers with what  *)
(* the methods that wrote have told the program: the labels, the value and *)
(* the vector of every node, every edge from both its ends, every search,  *)
(* whatever calls failed before.  Only what a creation that raised had     *)
(* made until then may appear besides.                                     *)
THEOREM ReadsAlwaysAgree == CodecKeeps /\ WordLabels => (Spec => []ReadsAgree)
  <1>0. SUFFICES ASSUME CodecKeeps, WordLabels PROVE Spec => []ReadsAgree
    OBVIOUS
  <1>1. Spec => [](TInv /\ AInv /\ OInv)
    BY TInit, TStep, AInit, AStep, OInit, OStep, PTL DEF Spec
  <1>2. ASSUME TInv, AInv, OInv PROVE ReadsAgree
    <2>0. SUFFICES ASSUME Ready PROVE ReadsAgree
      BY DEF ReadsAgree
    <2>1. Agree(view, known, torn)
      BY <1>2, <2>0, Idle DEF AInv, Ready
    <2>2. ASSUME NEW n \in Nodes \ TornNodes
          PROVE  NodeSame(view.node[n], known.node[n])
      BY <2>1 DEF Agree, TornNodes
    <2>3. ASSUME NEW e \in Edges \ TornEdges
          PROVE  EdgeSame(view.edge[e], known.edge[e])
      BY <2>1 DEF Agree, TornEdges
    <2>4. ASSUME NEW n \in Nodes, known.node[n] # None
          PROVE  /\ known.node[n] \in NodesOf(SUBSET Labels, Values)
                 /\ known.node[n] = [labels |-> known.node[n].labels, prop |-> known.node[n].prop,
                                     vector |-> known.node[n].vector]
                 /\ known.node[n].labels \subseteq Labels /\ known.node[n].prop \in Values \cup {None}
      BY <1>2, <2>4, GraphTypes DEF NodesOf
    <2>5. ASSUME NEW e \in Edges, known.edge[e] # None, HasEdge(e)
          PROVE  /\ known.edge[e] = [source |-> known.edge[e].source, target |-> known.edge[e].target,
                                     prop |-> known.edge[e].prop]
                 /\ known.edge[e].prop \in Values \cup {None}
                 /\ view.edge[e] = [source |-> view.edge[e].source, target |-> view.edge[e].target,
                                     prop |-> view.edge[e].prop]
      BY <1>2, <2>5, GraphTypes DEF EdgesOf, HasEdge
    <2>6. ASSUME NEW thing, NEW v \in Values \cup {None}, PropSame(thing.prop, v)
          PROVE  GetProperty(thing) = v
      BY <1>0, <2>6, NoNone DEF GetProperty, PropSame, CodecKeeps
    <2>7. ASSUME NEW n \in Nodes \ TornNodes PROVE GetNode(n) = known.node[n]
      <3>1. CASE known.node[n] = None
        BY <2>2, <2>7, <3>1 DEF NodeSame, GetNode, HasNode
      <3>2. CASE known.node[n] # None
        <4>1. /\ HasNode(n) /\ view.node[n].labels = known.node[n].labels
              /\ view.node[n].vector = known.node[n].vector
              /\ PropSame(view.node[n].prop, known.node[n].prop)
          BY <2>2, <2>7, <3>2 DEF NodeSame, HasNode
        <4>2. UNION {{<<l[i]>> : i \in DOMAIN l} : l \in view.node[n].labels} = known.node[n].labels
          BY <1>0, <2>4, <3>2, <4>1, LabelsSplit
        <4>3. GetProperty(view.node[n]) = known.node[n].prop
          BY <2>4, <2>6, <3>2, <4>1
        <4> QED BY <2>4, <3>2, <4>1, <4>2, <4>3 DEF GetNode
      <3> QED BY <3>1, <3>2
    <2>8. ASSUME NEW e \in Edges \ TornEdges
          PROVE  IF known.edge[e] = None
                   THEN ~HasEdge(e)
                   ELSE /\ HasEdge(e) /\ Edge(e) = known.edge[e]
                        /\ e \in OutgoingEdges(known.edge[e].source)
                        /\ e \in IncomingEdges(known.edge[e].target)
      <3>1. CASE known.edge[e] = None
        BY <2>3, <2>8, <3>1 DEF EdgeSame, HasEdge
      <3>2. CASE known.edge[e] # None
        <4>1. /\ HasEdge(e) /\ view.edge[e].source = known.edge[e].source
              /\ view.edge[e].target = known.edge[e].target
              /\ PropSame(view.edge[e].prop, known.edge[e].prop)
          BY <2>3, <2>8, <3>2 DEF EdgeSame, HasEdge
        <4>2. GetEdgeProperty(e) = known.edge[e].prop
          BY <2>5, <2>6, <3>2, <4>1 DEF GetEdgeProperty
        <4>3. Edge(e) = [source |-> view.edge[e].source, target |-> view.edge[e].target,
                         prop |-> GetEdgeProperty(e)]
          <5> DEFINE x == view.edge[e]
                     a == x.source
                     b == x.target
                     c == x.prop
                     d == GetEdgeProperty(e)
          <5>1. Edge(e) = [x EXCEPT !.prop = d]
            BY DEF Edge
          <5>2. x = [source |-> a, target |-> b, prop |-> c]
            BY <2>5, <3>2, <4>1
          <5> HIDE DEF x, a, b, c, d
          <5>3. [x EXCEPT !.prop = d] = [source |-> a, target |-> b, prop |-> d]
            BY <5>2, EdgeOtherProp
          <5> QED BY <5>1, <5>3 DEF x, a, b, d
        <4>4. Edge(e) = known.edge[e]
          BY <2>5, <3>2, <4>1, <4>2, <4>3
        <4> QED BY <3>2, <4>1, <4>4 DEF OutgoingEdges, IncomingEdges
      <3> QED BY <3>1, <3>2
    <2>9. ASSUME NEW n \in Nodes \ TornNodes
          PROVE  HasNode(n) <=> known.node[n] # None
      BY <2>2, <2>9 DEF NodeSame, HasNode
    <2>10. ASSUME NEW n \in Nodes \ TornNodes, known.node[n] # None
           PROVE  /\ view.node[n].labels = known.node[n].labels
                  /\ view.node[n].vector = known.node[n].vector
                  /\ PropSame(view.node[n].prop, known.node[n].prop)
      BY <2>2, <2>10 DEF NodeSame
    <2>11. ASSUME NEW v \in Values, NEW u \in Values \cup {None}, NEW p, PropSame(p, u)
           PROVE  p = PythonToValue(v) <=> u = v
      BY <1>0, <2>11, NoNone DEF PropSame, CodecKeeps
    <2>12. \A n \in Nodes : known.node[n] # None => n \notin TornNodes
      BY <1>2 DEF OInv, Unmade, TornNodes
    <2>13. ASSUME NEW l \in Labels
           PROVE  LET Has(k) == l \in k.labels
                  IN  NodesByLabel(l) \ TornNodes = KnownNodes(Has)
      BY <2>9, <2>10, <2>12 DEF NodesByLabel, KnownNodes
    <2>14. ASSUME NEW l \in Labels, NEW v \in Values
           PROVE  LET Has(k) == l \in k.labels /\ k.prop = v
                  IN  FindByProperty(l, v) \ TornNodes = KnownNodes(Has)
      <3>1. ASSUME NEW n \in Nodes \ TornNodes
            PROVE  n \in FindByProperty(l, v) <=>
                     known.node[n] # None /\ l \in known.node[n].labels /\ known.node[n].prop = v
        <4>1. CASE known.node[n] = None
          BY <2>9, <3>1, <4>1 DEF FindByProperty, NodesByLabel
        <4>2. CASE known.node[n] # None
          <5>1. view.node[n].prop = PythonToValue(v) <=> known.node[n].prop = v
            <6> DEFINE p == view.node[n].prop
                       u == known.node[n].prop
            <6>1. u \in Values \cup {None} /\ PropSame(p, u)
              BY <2>4, <2>10, <3>1, <4>2
            <6> HIDE DEF p, u
            <6>2. p = PythonToValue(v) <=> u = v
              BY <2>11, <6>1
            <6> QED BY <6>2 DEF p, u
          <5> QED BY <2>9, <2>10, <3>1, <4>2, <5>1 DEF FindByProperty, NodesByLabel
        <4> QED BY <4>1, <4>2
      <3> QED BY <2>12, <3>1 DEF FindByProperty, NodesByLabel, KnownNodes
    <2>15. LET Has(k) == k.vector IN VectorSearch \ TornNodes = KnownNodes(Has)
      BY <2>9, <2>10, <2>12 DEF VectorSearch, KnownNodes
    <2> QED BY <2>7, <2>8, <2>13, <2>14, <2>15 DEF ReadsAgree
  <1> QED BY <1>1, <1>2, PTL
=============================================================================
