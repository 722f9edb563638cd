-------------------------- MODULE MCDependencyGraph --------------------------
(* What a compilation is planned with: the graph, with interchangeable      *)
(* nodes and contents; the planner, which reads nothing of a graph but how  *)
(* many nodes of a type it has; or the parser, which nothing calls yet.     *)
EXTENDS DependencyGraph, CompilationPlan, LatexParser

MCNames == {"intro", "proofs"}
MCChapters == {<<"intro">>}
MCSources == {<<"intro", "proofs">>}

MCSymmetry == Permutations(Nodes) \cup Permutations(Contents)

MCInit == Init /\ PlannerInit /\ ParserInit

Build == plan = NoPlan /\ ParserInit /\ Next /\ UNCHANGED <<plan, content>>

AskForPlan ==
  nodes = {} /\ plan = NoPlan /\ ParserInit /\ PlannerNext /\ UNCHANGED <<vars, content>>

WriteDocument == nodes = {} /\ plan = NoPlan /\ ParserNext /\ UNCHANGED <<vars, plan>>

MCSpec == MCInit /\ [][Build \/ AskForPlan \/ WriteDocument]_<<vars, plan, content>>
=============================================================================
