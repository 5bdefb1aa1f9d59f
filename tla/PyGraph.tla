------------------------------- MODULE PyGraph -------------------------------
(***************************************************************************)
(* The data methods of the Python Transaction: how a call that is several  *)
(* native calls changes the transaction's view of the graph, what is left  *)
(* of it when one of them fails, and what the methods that read return.    *)
(*                                                                         *)
(* One program uses one Transaction object after another.  The native      *)
(* transaction is a private view that a commit makes the committed graph;  *)
(* failing commits are in PyClient.  There is one property key and one     *)
(* edge type.                                                              *)
(***************************************************************************)
EXTENDS Integers, FiniteSets

CONSTANTS
  Nodes,      \* node ids, given out in order and never again
  Edges,      \* edge ids, likewise
  Labels,     \* label names, each a sequence of words; commas join the words
  Values,     \* Python values the program passes as properties
  None,
  PythonToValue(_), ValueToPython(_),  \* the codec: ValueCodec's Encode and Decode
  Refused,    \* what PythonToValue gives for a value that it refuses
  MayFail,    \* whether native writes may fail
  MaxWrites   \* bound: methods that write which the program calls

ASSUME GraphAssumption ==
  /\ Nodes \subseteq Nat /\ Edges \subseteq Nat /\ IsFiniteSet(Labels)
  /\ None \notin Nodes \cup Edges
  /\ \A v \in Values : None \notin {v, PythonToValue(v)}
  /\ MayFail \in BOOLEAN
  /\ MaxWrites \in Nat

VARIABLES
  base,      \* the committed graph
  view,      \* the graph as the native transaction sees it
  ids,       \* the next node and edge ids
  block,     \* where the program is: outside, in a with-block, leaving by an exception
  readOnly,  \* whether the Transaction object is read-only
  call,      \* the method under way
  writes,    \* how many methods that write were called (history)
  known,     \* what the methods have told the program about the graph (history)
  settled,   \* known, as of the last commit (history)
  torn,      \* nodes and edges of creations that raised part-way (history)
  caught,    \* whether this block went on after an exception (history)
  excused    \* torn things that a block which had caught an exception committed (history)

graphs  == <<base, view, ids>>
told    == <<known, settled, torn, caught, excused>>
vars    == <<base, view, ids, block, readOnly, call, writes, told>>

NodeIds == {<<"node", n>> : n \in Nodes}
EdgeIds == {<<"edge", e>> : e \in Edges}

NoCall == [op |-> None, id |-> None, todo |-> {}, labels |-> {}, prop |-> None]

EmptyGraph == [node |-> [n \in Nodes |-> None], edge |-> [e \in Edges |-> None]]

Stored == {PythonToValue(v) : v \in Values} \ {Refused}

NodesOf(Ls, Ps) == [labels : Ls, prop : Ps \cup {None}, vector : BOOLEAN]
EdgesOf(Ps)     == [source : Nodes, target : Nodes, prop : Ps \cup {None}]
GraphsOf(Ls, Ps) ==
  [node : [Nodes -> NodesOf(Ls, Ps) \cup {None}], edge : [Edges -> EdgesOf(Ps) \cup {None}]]

\* What is not there is no node and no edge, and no call is none of the creations.
ASSUME NoneAssumption ==
  /\ None \notin {"node", "edge"}
  /\ \A Ps \in {Stored, Values} :
       None \notin NodesOf(SUBSET Labels, Ps) /\ None \notin EdgesOf(Ps)

TypeOK ==
  /\ base \in GraphsOf(SUBSET Labels, Stored) /\ view \in GraphsOf(SUBSET Labels, Stored)
  /\ ids \in [node : Nat, edge : Nat]
  /\ block \in {"out", "in", "raising"} /\ readOnly \in BOOLEAN
  /\ call \in [op : {"node", "edge", None}, id : Nodes \cup Edges \cup {None},
               todo : SUBSET Labels, labels : SUBSET Labels, prop : Values \cup {None}]
  /\ call # NoCall => block = "in"
  /\ known \in GraphsOf(SUBSET Labels, Values) /\ settled \in GraphsOf(SUBSET Labels, Values)
  /\ torn \subseteq NodeIds \cup EdgeIds /\ excused \subseteq torn
  /\ caught \in BOOLEAN /\ writes \in 0..MaxWrites

Init ==
  /\ base = EmptyGraph /\ view = EmptyGraph /\ ids = [node |-> 1, edge |-> 1]
  /\ block = "out" /\ readOnly = FALSE /\ call = NoCall
  /\ known = EmptyGraph /\ settled = EmptyGraph
  /\ torn = {} /\ caught = FALSE /\ excused = {} /\ writes = 0
-----------------------------------------------------------------------------
(* Blocks.                                                                 *)

Begin(ro) ==
  /\ block = "out"
  /\ block' = "in" /\ readOnly' = ro /\ caught' = FALSE
  /\ view' = base /\ known' = settled
  /\ UNCHANGED <<writes, base, ids, call, settled, torn, excused>>

\* commit(), and the end of the block.
Commit ==
  /\ block = "in" /\ call = NoCall
  /\ block' = "out"
  /\ base' = view /\ settled' = known
  /\ excused' = IF caught THEN torn ELSE excused
  /\ UNCHANGED <<writes, view, ids, readOnly, call, known, torn, caught>>

\* Commits whatever was staged when the block ends.
ExitCommitting ==
  /\ block \in {"in", "raising"} /\ call = NoCall
  /\ block' = "out"
  /\ base' = view /\ settled' = known
  /\ UNCHANGED <<writes, view, ids, readOnly, call, known, torn, caught, excused>>

\* The block ends without a commit, or by an exception.
Exit ==
  /\ block \in {"in", "raising"} /\ call = NoCall
  /\ block' = "out"
  /\ view' = base /\ known' = settled
  /\ UNCHANGED <<writes, base, ids, readOnly, call, settled, torn, caught, excused>>

\* The program handles the exception inside the block and goes on.
Catch ==
  /\ block = "raising"
  /\ block' = "in" /\ caught' = TRUE
  /\ UNCHANGED <<writes, graphs, readOnly, call, known, settled, torn, excused>>

Ready    == block = "in" /\ call = NoCall

\* A method that writes is called.
Write == /\ Ready /\ ~readOnly
         /\ writes < MaxWrites /\ writes' = writes + 1

RaiseMidCall(things) ==
  /\ block' = "raising"
  /\ torn' = torn \cup things
  /\ UNCHANGED call

\* An exception leaves the method; what it staged stays staged.
Raise(things) ==
  /\ block' = "raising" /\ call' = NoCall
  /\ torn' = torn \cup things

Raises == Raise({}) /\ UNCHANGED <<graphs, known>>

HasNode(n) == view.node[n] # None
HasEdge(e) == view.edge[e] # None
-----------------------------------------------------------------------------
(* create_node: the node, its labels when there are several, its property. *)

NodeCreate(labels, prop) ==
  /\ Write /\ ids.node \in Nodes
  /\ LET n == ids.node IN
       /\ view' = [view EXCEPT !.node[n] =
                     [labels |-> IF Cardinality(labels) = 1 THEN labels ELSE {},
                      prop |-> None, vector |-> FALSE]]
       /\ ids' = [ids EXCEPT !.node = n + 1]
       /\ call' = [op |-> "node", id |-> n, labels |-> labels, prop |-> prop,
                   todo |-> IF Cardinality(labels) > 1 THEN labels ELSE {}]
  /\ UNCHANGED <<base, block, readOnly, told>>

NodeAddLabel ==
  /\ call.op = "node"
  /\ \E l \in call.todo :
       /\ view' = [view EXCEPT !.node[call.id].labels = @ \cup {l}]
       /\ call' = [call EXCEPT !.todo = @ \ {l}]
  /\ UNCHANGED <<writes, base, ids, block, readOnly, told>>

\* Sets the property through the codec, when there is one, and returns the object.
NodeReturn ==
  /\ call.op = "node" /\ call.todo = {}
  /\ call.prop # None => PythonToValue(call.prop) # Refused
  /\ view' = IF call.prop = None
               THEN view ELSE [view EXCEPT !.node[call.id].prop = PythonToValue(call.prop)]
  /\ known' = [known EXCEPT !.node[call.id] =
                 [labels |-> call.labels, prop |-> call.prop, vector |-> FALSE]]
  /\ call' = NoCall
  /\ UNCHANGED <<writes, base, ids, block, readOnly, settled, torn, caught, excused>>

\* create_edge; the library does not look for the nodes.
EdgeCreate(s, t, prop) ==
  /\ Write /\ ids.edge \in Edges
  /\ view' = [view EXCEPT !.edge[ids.edge] = [source |-> s, target |-> t, prop |-> None]]
  /\ ids' = [ids EXCEPT !.edge = @ + 1]
  /\ call' = [NoCall EXCEPT !.op = "edge", !.id = ids.edge, !.prop = prop]
  /\ UNCHANGED <<base, block, readOnly, told>>

EdgeReturn ==
  /\ call.op = "edge"
  /\ call.prop # None => PythonToValue(call.prop) # Refused
  /\ view' = IF call.prop = None
               THEN view ELSE [view EXCEPT !.edge[call.id].prop = PythonToValue(call.prop)]
  /\ known' = [known EXCEPT !.edge[call.id] = [view.edge[call.id] EXCEPT !.prop = call.prop]]
  /\ call' = NoCall
  /\ UNCHANGED <<writes, base, ids, block, readOnly, settled, torn, caught, excused>>

\* A native call of the creation fails, or the property cannot be encoded.
CreationRaises ==
  /\ call.op \in {"node", "edge"}
  /\ \/ MayFail /\ (call.todo # {} \/ call.prop # None)
     \/ call.todo = {} /\ call.prop # None /\ PythonToValue(call.prop) = Refused
  /\ Raise({<<call.op, call.id>>})
  /\ UNCHANGED <<writes, graphs, readOnly, known, settled, caught, excused>>

\* One native call for two nodes with a label and a vector each; when it fails,
\* the nodes made until then stay, the last perhaps without its vector.
BatchInsert(l) ==
  /\ Write /\ {ids.node, ids.node + 1} \subseteq Nodes
  /\ \E made \in 0..2, last, ok \in BOOLEAN :
       LET new == ids.node .. (ids.node + made - 1)
           Made(n) == [labels |-> {l}, prop |-> None,
                       vector |-> n = ids.node + made - 1 => last] IN
       /\ ok <=> made = 2 /\ last
       /\ ~ok => MayFail
       /\ view' = [view EXCEPT !.node = [n \in Nodes |-> IF n \in new THEN Made(n) ELSE @[n]]]
       /\ ids' = [ids EXCEPT !.node = @ + made]
       /\ IF ok THEN /\ known' = [known EXCEPT !.node =
                                   [n \in Nodes |-> IF n \in new THEN Made(n) ELSE @[n]]]
                     /\ UNCHANGED <<block, call, torn>>
                ELSE Raise({<<"node", n>> : n \in new}) /\ UNCHANGED known
  /\ UNCHANGED <<base, readOnly, settled, caught, excused>>
-----------------------------------------------------------------------------
(* The other methods that write; each makes one native call.               *)

SetProperty(n, v) ==
  /\ Write
  /\ \/ /\ HasNode(n) /\ PythonToValue(v) # Refused
        /\ view' = [view EXCEPT !.node[n].prop = PythonToValue(v)]
        /\ known' = IF known.node[n] = None THEN known ELSE [known EXCEPT !.node[n].prop = v]
        /\ UNCHANGED <<base, ids, block, call, torn>>
     \/ (MayFail \/ ~HasNode(n) \/ PythonToValue(v) = Refused) /\ Raises
  /\ UNCHANGED <<readOnly, settled, caught, excused>>

SetVector(n) ==
  /\ Write
  /\ \/ /\ HasNode(n)
        /\ view' = [view EXCEPT !.node[n].vector = TRUE]
        /\ known' = IF known.node[n] = None THEN known ELSE [known EXCEPT !.node[n].vector = TRUE]
        /\ UNCHANGED <<base, ids, block, call, torn>>
     \/ (MayFail \/ ~HasNode(n)) /\ Raises
  /\ UNCHANGED <<readOnly, settled, caught, excused>>

\* The edges of the node stay; a node that is not there is deleted as well.
DeleteNode(n) ==
  /\ Write
  /\ \/ /\ view' = [view EXCEPT !.node[n] = None]
        /\ known' = [known EXCEPT !.node[n] = None]
        /\ UNCHANGED <<base, ids, block, call, torn>>
     \/ MayFail /\ Raises
  /\ UNCHANGED <<readOnly, settled, caught, excused>>

SetEdgeProperty(e, v) ==
  /\ Write
  /\ \/ /\ HasEdge(e) /\ PythonToValue(v) # Refused
        /\ view' = [view EXCEPT !.edge[e].prop = PythonToValue(v)]
        /\ known' = IF known.edge[e] = None THEN known ELSE [known EXCEPT !.edge[e].prop = v]
        /\ UNCHANGED <<base, ids, block, call, torn>>
     \/ (MayFail \/ ~HasEdge(e) \/ PythonToValue(v) = Refused) /\ Raises
  /\ UNCHANGED <<readOnly, settled, caught, excused>>

RemoveEdgeProperty(e) ==
  /\ Write
  /\ \/ /\ HasEdge(e)
        /\ view' = [view EXCEPT !.edge[e].prop = None]
        /\ known' = IF known.edge[e] = None THEN known ELSE [known EXCEPT !.edge[e].prop = None]
        /\ UNCHANGED <<base, ids, block, call, torn>>
     \/ (MayFail \/ ~HasEdge(e)) /\ Raises
  /\ UNCHANGED <<readOnly, settled, caught, excused>>

\* The library deletes one of the edges between the two nodes.
DeleteEdge(s, t) ==
  /\ Write
  /\ LET between == {e \in Edges : HasEdge(e) /\ view.edge[e].source = s
                                              /\ view.edge[e].target = t} IN
     \/ \E e \in between :
          /\ view' = [view EXCEPT !.edge[e] = None]
          /\ known' = [known EXCEPT !.edge[e] = None]
          /\ UNCHANGED <<base, ids, block, call, torn>>
     \/ (MayFail \/ between = {}) /\ Raises
  /\ UNCHANGED <<readOnly, settled, caught, excused>>
-----------------------------------------------------------------------------
Next ==
  \/ \E ro \in BOOLEAN : Begin(ro)
  \/ Commit \/ Exit \/ Catch
  \/ \E labels \in SUBSET Labels, prop \in Values \cup {None} : NodeCreate(labels, prop)
  \/ NodeAddLabel \/ NodeReturn \/ EdgeReturn \/ CreationRaises
  \/ \E s, t \in Nodes, prop \in Values \cup {None} : EdgeCreate(s, t, prop)
  \/ \E l \in Labels : BatchInsert(l)
  \/ \E n \in Nodes : SetVector(n) \/ DeleteNode(n)
  \/ \E n \in Nodes, v \in Values : SetProperty(n, v)
  \/ \E e \in Edges : RemoveEdgeProperty(e)
  \/ \E e \in Edges, v \in Values : SetEdgeProperty(e, v)
  \/ \E s, t \in Nodes : DeleteEdge(s, t)

Spec == Init /\ [][Next]_vars
-----------------------------------------------------------------------------
(* What the methods that read would return now.                            *)

GetProperty(thing) == IF thing.prop = None THEN None ELSE ValueToPython(thing.prop)

\* The library joins the labels with commas and get_node splits the string.
GetNode(n) ==
  IF HasNode(n)
    THEN [labels |-> UNION {{<<l[i]>> : i \in DOMAIN l} : l \in view.node[n].labels},
          prop |-> GetProperty(view.node[n]), vector |-> view.node[n].vector]
    ELSE None

GetEdgeProperty(e) == GetProperty(view.edge[e])

\* What a list of edges says of one, and its property.
Edge(e) == [view.edge[e] EXCEPT !.prop = GetEdgeProperty(e)]

OutgoingEdges(n) == {e \in Edges : HasEdge(e) /\ view.edge[e].source = n}
IncomingEdges(n) == {e \in Edges : HasEdge(e) /\ view.edge[e].target = n}

NodesByLabel(l) == {n \in Nodes : HasNode(n) /\ l \in view.node[n].labels}

\* Through an index on the label and the key: equality of native values.
FindByProperty(l, v) == {n \in NodesByLabel(l) : view.node[n].prop = PythonToValue(v)}

VectorSearch == {n \in Nodes : HasNode(n) /\ view.node[n].vector}

KnownNodes(Test(_)) == {n \in Nodes : known.node[n] # None /\ Test(known.node[n])}
TornNodes == {n \in Nodes : <<"node", n>> \in torn}
TornEdges == {e \in Edges : <<"edge", e>> \in torn}

(* Between calls of a block what its methods would read is what they have  *)
(* told the program: every object they returned, with the labels, the      *)
(* value and the vector it was given, in every lookup and search, and      *)
(* besides at most the remains of creations that raised.                   *)
ReadsAgree ==
  Ready =>
    /\ \A n \in Nodes \ TornNodes : GetNode(n) = known.node[n]
    /\ \A e \in Edges \ TornEdges :
         IF known.edge[e] = None
           THEN ~HasEdge(e)
           ELSE /\ HasEdge(e) /\ Edge(e) = known.edge[e]
                /\ e \in OutgoingEdges(known.edge[e].source)
                /\ e \in IncomingEdges(known.edge[e].target)
    /\ \A l \in Labels :
         LET Has(k) == l \in k.labels
         IN  NodesByLabel(l) \ TornNodes = KnownNodes(Has)
    /\ \A l \in Labels, v \in Values :
         LET Has(k) == l \in k.labels /\ k.prop = v
         IN  FindByProperty(l, v) \ TornNodes = KnownNodes(Has)
    /\ LET Has(k) == k.vector IN VectorSearch \ TornNodes = KnownNodes(Has)

(* A creation is committed whole or not at all, unless the program itself  *)
(* caught the exception and went on to commit.                             *)
OnlyWholeCommitted ==
  /\ \A n \in TornNodes : base.node[n] # None => <<"node", n>> \in excused
  /\ \A e \in TornEdges : base.edge[e] # None => <<"edge", e>> \in excused
===============================================================================
