--------------------------- MODULE DependencyGraph ---------------------------
(***************************************************************************)
(* The compilation dependency graph of a project                           *)
(* (orchestrator/src/dependency_graph.rs, struct DependencyGraph): nodes   *)
(* and edges are added, contents edited, nodes marked compiled, in any     *)
(* order a caller likes; every state answers nodes_needing_recompile and   *)
(* parallel_groups by the algorithms of CompileGraph.                      *)
(***************************************************************************)
EXTENDS CompileGraph

CONSTANTS Nodes,     \* the nodes that may be added
          Contents,  \* content hashes
          NoHash,    \* last_compiled_hash: None
          MaxEdges   \* bound on the edges added

ASSUME DependencyGraphAssumption == NoHash \notin Contents /\ MaxEdges \in Nat

VARIABLES nodes,              \* node_indices: the nodes added
          edges,              \* the edges added
          content_hash,
          last_compiled_hash

vars == <<nodes, edges, content_hash, last_compiled_hash>>

NeedsRecompile(n) == last_compiled_hash[n] # content_hash[n]

Changed == {n \in nodes : NeedsRecompile(n)}

NodesNeedingRecompile == Propagate(edges, Changed)

Init ==
  /\ nodes = {}
  /\ edges = {}
  /\ content_hash = [n \in Nodes |-> NoHash]
  /\ last_compiled_hash = [n \in Nodes |-> NoHash]

(* add_node, with a node fresh from CompileNode::new *)
AddNode(n, c) ==
  /\ n \notin nodes
  /\ nodes' = nodes \cup {n}
  /\ content_hash' = [content_hash EXCEPT ![n] = c]
  /\ UNCHANGED <<edges, last_compiled_hash>>

(* add_dependency, when both ends are known (otherwise NodeNotFound and no  *)
(* change).  Neither a cycle nor an edge from a node to itself is refused.  *)
AddDependency(n, m) ==
  /\ {n, m} \subseteq nodes
  /\ Cardinality(edges) < MaxEdges
  /\ edges' = edges \cup {<<n, m>>}
  /\ UNCHANGED <<nodes, content_hash, last_compiled_hash>>

(* A new content, through get_node_mut. *)
Edit(n, c) ==
  /\ n \in nodes
  /\ content_hash' = [content_hash EXCEPT ![n] = c]
  /\ UNCHANGED <<nodes, edges, last_compiled_hash>>

(* mark_compiled, through get_node_mut. *)
MarkCompiled(n) ==
  /\ n \in nodes
  /\ last_compiled_hash' = [last_compiled_hash EXCEPT ![n] = content_hash[n]]
  /\ UNCHANGED <<nodes, edges, content_hash>>

Next ==
  \E n \in Nodes :
    \/ \E c \in Contents : AddNode(n, c) \/ Edit(n, c)
    \/ \E m \in Nodes : AddDependency(n, m)
    \/ MarkCompiled(n)

Spec == Init /\ [][Next]_vars

-----------------------------------------------------------------------------
(* Properties *)

(* The reference: what a node depends on, however far, is the least set     *)
(* that has its dependencies and is closed under the edges.                 *)
ClosedSets == {S \in SUBSET nodes : \A e \in edges : e[1] \in S => e[2] \in S}

DependsOn ==
  LET closed == ClosedSets
  IN [n \in nodes |-> {m \in nodes : \A S \in closed : Dependencies(edges, n) \subseteq S => m \in S}]

Orders == TopologicalOrders(nodes, edges)

(* nodes_needing_recompile is the set of changed nodes and of all nodes     *)
(* that depend on one, however far, also in a graph with cycles.            *)
NeededIsClosure ==
  LET depends == DependsOn
  IN NodesNeedingRecompile = {n \in nodes : \E m \in Changed : n = m \/ m \in depends[n]}

(* parallel_groups returns each node that needs recompilation exactly once, *)
(* in no empty group, and a node in a later group than every node it        *)
(* depends on, even through others: running a group in parallel, after the  *)
(* groups before it, never runs a node together with what it needs.  Nodes  *)
(* that are up to date cannot hide such a path, since they lie on none.     *)
GroupsRespectDependencies ==
  LET depends == DependsOn
      needed  == NodesNeedingRecompile
  IN \A order \in Orders :
       LET groups == Groups(edges, order, needed)
       IN /\ UNION {groups[i] : i \in DOMAIN groups} = needed
          /\ \A i \in DOMAIN groups : groups[i] # {}
          /\ \A i, k \in DOMAIN groups : i # k => groups[i] \cap groups[k] = {}
          /\ \A n, m \in needed : m \in depends[n] => GroupOf(groups, m) < GroupOf(groups, n)
=============================================================================
