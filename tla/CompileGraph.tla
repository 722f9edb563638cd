---------------------------- MODULE CompileGraph ----------------------------
(***************************************************************************)
(* The algorithms of the compilation dependency graph                      *)
(* (orchestrator/src/dependency_graph.rs): which nodes need recompilation, *)
(* in which order, and which of them may run in parallel.  A graph is a    *)
(* set N of nodes and a set E of edges; <<n, m>> \in E when n depends on m. *)
(***************************************************************************)
EXTENDS Integers, SequencesExt

Dependencies(E, n) == {e[2] : e \in {f \in E : f[1] = n}}
Dependents(E, n)   == {e[1] : e \in {f \in E : f[2] = n}}

(* Slips of the algorithms below: only direct dependents are found; a       *)
(* node's level is taken from its lowest dependency.                        *)
PropagateOnce(E, changed) == changed \cup UNION {Dependents(E, n) : n \in changed}

LevelsFromLowest(E, order, needed) ==
  LET filtered == {i \in DOMAIN order : order[i] \in needed}
      level[i \in DOMAIN order] ==
        LET below == {level[k] : k \in {p \in filtered : p < i /\ order[p] \in Dependencies(E, order[i])}}
        IN IF below = {} THEN 0 ELSE Min(below) + 1
  IN [n \in {order[i] : i \in filtered} |-> level[CHOOSE i \in filtered : order[i] = n]]

(* petgraph's toposort, reversed: some order in which dependencies come     *)
(* first.  There is none (CycleDetected) when the graph has a cycle.        *)
TopologicalOrders(N, E) ==
  {s \in SetToSeqs(N) : \A i, k \in DOMAIN s : <<s[k], s[i]>> \in E => i < k}

(* nodes_needing_recompile: changed nodes, then their dependents, one round *)
(* of the breadth-first search per application.                             *)
Propagate(E, changed) ==
  LET spread[k \in Nat] ==
        IF k = 0 THEN changed
        ELSE spread[k - 1] \cup UNION {Dependents(E, n) : n \in spread[k - 1]}
  IN spread[Cardinality(E)]

(* parallel_groups: the levels map, filled along the order without the      *)
(* nodes that need nothing; a dependency that is not in the map yet counts  *)
(* for nothing but its presence.                                            *)
Levels(E, order, needed) ==
  LET filtered == {i \in DOMAIN order : order[i] \in needed}
      level[i \in DOMAIN order] ==
        LET deps  == Dependencies(E, order[i])
            below == {level[k] : k \in {p \in filtered : p < i /\ order[p] \in deps}} \cup {0}
        IN IF deps = {} THEN 0 ELSE Max(below) + 1
  IN [n \in {order[i] : i \in filtered} |-> level[CHOOSE i \in filtered : order[i] = n]]

(* parallel_groups: nodes grouped by level, groups that stay empty removed. *)
Groups(E, order, needed) ==
  LET levels == Levels(E, order, needed)
      used   == {levels[n] : n \in DOMAIN levels}
  IN [i \in 1 .. Cardinality(used) |->
        {n \in DOMAIN levels : Cardinality({l \in used : l < levels[n]}) = i - 1}]

(* The position of a node's group. *)
GroupOf(groups, n) == CHOOSE i \in DOMAIN groups : n \in groups[i]
=============================================================================
