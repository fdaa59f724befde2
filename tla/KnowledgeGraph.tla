--------------------------- MODULE KnowledgeGraph ---------------------------
(***************************************************************************)
(* Tier 4 of memory/: the nodes and edges of memory/knowledge_graph.py.    *)
(* Nothing is ever taken out; a deprecated node keeps its edges and has to *)
(* be kept out of every answer.  Labels and properties are not modelled.   *)
(***************************************************************************)
CONSTANT Nodes

VARIABLES
    node,           \* _nodes: "absent", "live" or "deprecated"
    edges,          \* _edges
    answered,       \* the nodes the last query gave its caller
    retired         \* history variable: the nodes that were deprecated, until
                    \* another is added under their id

graphVars == <<node, edges, answered, retired>>

GraphInit ==
    /\ node = [n \in Nodes |-> "absent"]
    /\ edges = {} /\ answered = {} /\ retired = {}

\* add_node, with a new object: whatever was there under this id is replaced.
\* (Adding the object that is there changes nothing, and leaves it deprecated.)
AddNode(n) ==
    /\ node' = [node EXCEPT ![n] = "live"]
    /\ retired' = retired \ {n}
    /\ answered' = {}
    /\ UNCHANGED edges

\* deprecate_node; its edges stay.
DeprecateNode(n) ==
    /\ node[n] # "absent"
    /\ node' = [node EXCEPT ![n] = "deprecated"]
    /\ retired' = retired \cup {n}
    /\ answered' = {}
    /\ UNCHANGED edges

\* add_edge, and get_edges, which answers with edges of any nodes.
AddEdge(m, n) ==
    /\ node[m] = "live" /\ node[n] = "live"
    /\ edges' = edges \cup {<<m, n>>}
    /\ answered' = {}
    /\ UNCHANGED <<node, retired>>

\* get_node and search_nodes
SearchNodes ==
    /\ answered' = {n \in Nodes : node[n] = "live"}
    /\ UNCHANGED <<node, edges, retired>>

\* Neighbours as far as their edges lead.
NeighborsByEdge(n) == {m \in Nodes : <<n, m>> \in edges}

Neighbors(n) == {m \in Nodes : <<n, m>> \in edges /\ node[m] = "live"}

\* get_neighbors, also of a deprecated node.
GetNeighbors(n) ==
    /\ node[n] # "absent"
    /\ answered' = Neighbors(n)
    /\ UNCHANGED <<node, edges, retired>>

GraphNext ==
    \/ SearchNodes
    \/ \E n \in Nodes :
          \/ AddNode(n) \/ DeprecateNode(n) \/ GetNeighbors(n)
          \/ \E m \in Nodes : AddEdge(m, n)

GraphSpec == GraphInit /\ [][GraphNext]_graphVars

\* A deprecated node is in no answer, whatever edges still lead to it.
NodesStayOut == answered \cap retired = {}
=============================================================================
