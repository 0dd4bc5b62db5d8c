----------------------------- MODULE TaskGraph ------------------------------
(***************************************************************************)
(* The graphs a bundle carries (contracts' graphs.py), the nodes register_ *)
(* bundle makes of them (service.py) and what the dashboard shows of those *)
(* (projection.py): the nodes with the status of their task, and for every *)
(* mathematical node how many others rest on it.                           *)
(*                                                                         *)
(* A node is its number; an edge says that its target depends on its       *)
(* source.  A request's id stands for the bundle document, hence for its   *)
(* graphs.                                                                 *)
(***************************************************************************)
EXTENDS Projection

CONSTANTS
    GraphsOf,  \* bundle document -> [mathematical, formal, execution, alignments]
    NodeLimit  \* _EXACT_TRANSITIVE_LEVERAGE_NODE_LIMIT

GraphNames == {"mathematical", "formal", "execution"}

\* The graphs of a document are tuples of nodes and edges.
ASSUME GraphAssumption ==
    /\ \A d \in DOMAIN GraphsOf : IsFiniteSet(GraphsOf[d].mathematical.nodes)
    /\ NodeLimit \in Nat

\* Nodes a topological sort visits when only these edges count.
Visited(nodes, edges) ==
    LET visited[n \in 0 .. Cardinality(nodes)] ==
            IF n = 0 THEN {}
            ELSE {node \in nodes : \A e \in edges : e.target = node.id =>
                                       \E v \in visited[n - 1] : v.id = e.source}
    IN  visited[Cardinality(nodes)]

\* _validate_graph
GraphValid(nodes, edges, allowCycles) ==
    /\ \A m, n \in nodes : m.id = n.id => m = n
    /\ \A e, f \in edges : e.id = f.id => e = f
    /\ \A e \in edges : {e.source, e.target} \subseteq {n.id : n \in nodes} /\ e.source # e.target
    /\ allowCycles \/ Visited(nodes, edges) = nodes

\* validate_structure of the mathematical graph: equivalences and motivations
\* may be circular, prerequisites may not.
MathematicalGraphValid(graph) ==
    /\ GraphValid(graph.nodes, graph.edges, TRUE)
    /\ GraphValid(graph.nodes, {e \in graph.edges : e.kind \notin {"equivalent_to", "motivates"}}, FALSE)

\* validate_structure of the two other graphs, validate_alignments.
GraphBundleValid(graphs) ==
    /\ MathematicalGraphValid(graphs.mathematical)
    /\ GraphValid(graphs.formal.nodes, graphs.formal.edges, FALSE)
    /\ GraphValid(graphs.execution.nodes, graphs.execution.edges, FALSE)
    /\ \A a, b \in graphs.alignments : a.id = b.id => a = b
    /\ \A a \in graphs.alignments :
           /\ \E n \in graphs.mathematical.nodes : n.id = a.mathematical
           /\ \E n \in graphs.formal.nodes : n.id = a.formal

ValidDocuments == {d \in DOMAIN GraphsOf : GraphBundleValid(GraphsOf[d])}

\* A bundle whose graphs are not valid is refused when the document is parsed,
\* before register_bundle starts.
GNext ==
    /\ Next
    /\ \A c \in Callers : calls'[c] # Idle /\ calls'[c].req.op = "register" =>
           calls'[c].req.id \in ValidDocuments

GraphSpec == Init /\ [][GNext]_vars

-----------------------------------------------------------------------------
\* _graph_nodes: every edge, of whatever kind, is a dependency of its target.
GraphNodes(graphs, name) ==
    {[id |-> n.id, graph |-> name,
      dependencies |-> {e.source : e \in {f \in graphs[name].edges : f.target = n.id}}] :
        n \in graphs[name].nodes}

\* Mutant: the task is left out of the identity of a node.
PublicIdOfGraph(bundle, name, id) == <<name, id>>

\* public_id of _public_identity_node
PublicId(bundle, name, id) == <<bundle, name, id>>

\* _public_identity_node
PublicNode(bundle, node) ==
    [id |-> PublicId(bundle, node.graph, node.id), bundle |-> bundle, graph |-> node.graph,
     source |-> node.id,
     dependencies |-> {PublicId(bundle, node.graph, d) : d \in node.dependencies}]

\* The nodes the registration of a document contributes.
Contribution ==
    [bundle \in Jobs |-> [d \in DOMAIN GraphsOf |->
        UNION {{PublicNode(bundle, n) : n \in GraphNodes(GraphsOf[d], name)} : name \in GraphNames}]]
Contributed(e) == Contribution[e.req.bundle][e.req.id]

Registrations == {e \in events : e.req.op = "register"}

\* The dictionary of snapshot(): a later registration overwrites an identity.
Nodes ==
    UNION {{n \in Contributed(e) :
               \A f \in Registrations : f.pos > e.pos => \A m \in Contributed(f) : m.id # n.id} :
              e \in Registrations}

\* by_task: the mathematical nodes of a task.
TaskNodes(bundle) == {n \in Nodes : n.graph = "mathematical" /\ n.bundle = bundle}

\* dependents; a dependency that is no node of the task is passed over.
Dependents(nodes, id) == {n.id : n \in {m \in nodes : id \in m.dependencies}}

\* _transitive_dependents: what the work list has seen when it is empty.
TransitiveDependents(nodes, id) ==
    LET seen[n \in 0 .. Cardinality(nodes)] ==
            IF n = 0 THEN {id}
            ELSE LET before == seen[n - 1] IN before \cup UNION {Dependents(nodes, c) : c \in before}
    IN  seen[Cardinality(nodes)] \ {id}

ExactTransitive(nodes) == Cardinality(nodes) <= NodeLimit

\* _mathematical_dependency_leverage: the rows of a task; -1 for a count that
\* is not made.
Leverage(bundle) ==
    LET nodes == TaskNodes(bundle) IN
    {[id |-> n.id, source |-> n.source, direct |-> Cardinality(Dependents(nodes, n.id)),
      transitive |-> IF ExactTransitive(nodes) THEN Cardinality(TransitiveDependents(nodes, n.id)) ELSE -1] :
        n \in nodes}

\* The order of the rows: descending counts, then the identity.
Before(r, s) ==
    \/ r.transitive > s.transitive
    \/ /\ r.transitive = s.transitive
       /\ r.direct > s.direct \/ (r.direct = s.direct /\ r.source < s.source)

-----------------------------------------------------------------------------
\* What rests on what, in the document and without an algorithm: n rests on m
\* when m is in every set that holds the sources of n's edges and, with a node,
\* those of its own.
RestsOn(graph, n, m) ==
    \A S \in SUBSET {k.id : k \in graph.nodes} :
        (\A e \in graph.edges : e.target \in S \cup {n} => e.source \in S) => m \in S
Resting ==
    [d \in DOMAIN GraphsOf |->
        LET ids == {n.id : n \in GraphsOf[d].mathematical.nodes} IN
        UNION {{<<n, m>> : m \in {k \in ids : RestsOn(GraphsOf[d].mathematical, n, k)}} : n \in ids}]

\* For every registered bundle, whatever other bundles with nodes of the same
\* names were registered before or after it, the dashboard lists each
\* mathematical node of the document once and counts exactly the other nodes
\* that rest on it.  The list is in an order of study: a node stands before
\* what rests on it, unless the two rest on each other.
LeverageSound ==
    \A e \in Registrations :
        LET graph == GraphsOf[e.req.id].mathematical
            resting == Resting[e.req.id]
            rows == Leverage(e.req.bundle)
        IN  /\ {r.source : r \in rows} = {n.id : n \in graph.nodes}
            /\ Cardinality(rows) = Cardinality(graph.nodes)
            /\ \A r \in rows : r.direct =
                   Cardinality({f.target : f \in {g \in graph.edges : g.source = r.source}})
            /\ ExactTransitive(graph.nodes) =>
                   /\ \A r \in rows : r.transitive =
                          Cardinality({pair \in resting : pair[2] = r.source /\ pair[1] # r.source})
                   /\ \A r, s \in rows :
                          <<s.source, r.source>> \in resting /\ <<r.source, s.source>> \notin resting
                              => Before(r, s)

\* Everything a snapshot says can be told from the log and the documents.
SnapshotSound == DashboardSound /\ LeverageSound
=============================================================================
