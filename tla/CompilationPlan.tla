--------------------------- MODULE CompilationPlan ---------------------------
(***************************************************************************)
(* The planner of a compilation (orchestrator/src/compilation_mode.rs):    *)
(* from the types of a graph's nodes to a mode, a strategy, phases with    *)
(* dependencies and an estimated duration.  A document stands for its      *)
(* graph; it maps a type to the number of nodes of it.                     *)
(***************************************************************************)
EXTENDS Integers, SequencesExt

CONSTANTS MaxNodes,            \* bound: nodes of one type in a document
          MaxWorkers,          \* bound: default_max_workers
          MaxConvergencePasses \* MAX_CONVERGENCE_PASSES of convergence.rs

ASSUME CompilationPlanAssumption ==
  /\ {MaxNodes, MaxWorkers} \subseteq Nat \ {0}
  /\ MaxConvergencePasses \in Nat

(* The types in the order of their phases.  Figures, styles and classes are *)
(* in no phase.                                                             *)
Preamble == 1
Chapter == 2
Bibliography == 3
MainDocument == 4
NodeTypes == 1 .. 4
Documents == [NodeTypes -> 0 .. MaxNodes]

Modes == {"Auto", "Speculative", "Guaranteed"}

VARIABLE plan  \* the last plan that was made, with its document

-----------------------------------------------------------------------------
(* from_graph: the complexity, in tenths *)
ReferenceComplexity(doc) ==
  IF doc[Bibliography] > 0 THEN 7 ELSE IF doc[Chapter] > 5 THEN 5 ELSE 2

(* recommended_mode: no graph is said to use problematic packages. *)
RecommendedMode(doc) ==
  IF \/ doc[Bibliography] > 0 /\ doc[Chapter] > 3
     \/ ReferenceComplexity(doc) > 6
  THEN "Guaranteed" ELSE "Speculative"

(* CompilationStrategy::speculative and ::guaranteed *)
Strategy(mode, workers) ==
  IF mode = "Speculative"
  THEN [mode |-> mode, workers |-> workers, max_passes |-> 3]
  ELSE [mode |-> mode, workers |-> 1, max_passes |-> MaxConvergencePasses]

IsParallel(strategy) == strategy.workers > 1

(* A slip of DependsOnPhases: the merge waits for the first phase. *)
DependsOnPhasesFirst(type, before) ==
  IF type = Preamble \/ before = 0 THEN {}
  ELSE {IF type = Bibliography THEN before - 1 ELSE 0}

(* depends_on of a phase, with that many phases before it (places count     *)
(* from 0).  The subtraction saturates: without a phase before them,        *)
(* bibliography and merge depend on phase 0, themselves.                    *)
DependsOnPhases(type, before) ==
  CASE type = Preamble -> {}
    [] type = Chapter -> IF before = 0 THEN {} ELSE {0}
    [] OTHER -> {IF before = 0 THEN 0 ELSE before - 1}

(* build_phases: a phase for each type that has nodes. *)
AddPhase(phases, type, doc, strategy) ==
  IF doc[type] = 0 THEN phases
  ELSE Append(phases, [type |-> type, nodes |-> doc[type],
                       parallel |-> type = Chapter /\ IsParallel(strategy),
                       depends_on |-> DependsOnPhases(type, Len(phases))])

BuildPhases(doc, strategy) ==
  LET preamble     == AddPhase(<<>>, Preamble, doc, strategy)
      chapters     == AddPhase(preamble, Chapter, doc, strategy)
      bibliography == AddPhase(chapters, Bibliography, doc, strategy)
  IN AddPhase(bibliography, MainDocument, doc, strategy)

(* estimate_duration: 10 seconds a node, 2 more for a phase run in batches *)
EstimateDuration(phases, strategy) ==
  LET PhaseTime(total, phase) ==
        total + IF phase.parallel
                THEN 10 * ((phase.nodes + strategy.workers - 1) \div strategy.workers) + 2
                ELSE 10 * phase.nodes
  IN strategy.max_passes * FoldLeft(PhaseTime, 0, phases)

(* The plan for a document. *)
PlanFor(doc, mode, workers) ==
  LET strategy == Strategy(mode, workers)
      phases   == BuildPhases(doc, strategy)
  IN [document |-> doc, strategy |-> strategy, phases |-> phases,
      estimated_duration |-> EstimateDuration(phases, strategy)]

NoPlan == [phases |-> <<>>]

PlannerInit == plan = NoPlan

(* plan: Auto follows the recommendation. *)
MakePlan(doc, mode, workers) ==
  plan' = PlanFor(doc, IF mode = "Auto" THEN RecommendedMode(doc) ELSE mode, workers)

PlannerNext ==
  \E doc \in Documents, mode \in Modes, workers \in 1 .. MaxWorkers : MakePlan(doc, mode, workers)

PlannerSpec == PlannerInit /\ [][PlannerNext]_plan

-----------------------------------------------------------------------------
(* Properties *)

(* The phases that must complete before phase i, however indirectly. *)
Awaited(phases, i) ==
  LET reach[k \in Nat] ==
        IF k = 0 THEN phases[i].depends_on
        ELSE reach[k - 1] \cup UNION {phases[d + 1].depends_on : d \in reach[k - 1]}
  IN reach[Len(phases)]

(* SYSTEM_ANALYSIS.md, "Linearization Requirements", 1, 2 and 4: a phase    *)
(* waits for every phase before it, the merge for all, although depends_on  *)
(* names one phase at most; and no phase waits for itself or a later one,   *)
(* so the plan can be carried out - but for a document with neither         *)
(* preamble nor chapters, whose first phase depends on itself.              *)
PhasesWaitForEarlierOnes ==
  (plan # NoPlan /\ plan.document[Preamble] + plan.document[Chapter] > 0) =>
    \A i \in DOMAIN plan.phases : Awaited(plan.phases, i) = 0 .. i - 2
=============================================================================
