--------------------------- MODULE MCJobScheduler ---------------------------
(* A small instance of JobScheduler for TLC. *)
EXTENDS JobScheduler, TLC

CONSTANTS preamble, chapter, main, figure,  \* jobs
          first, second,                    \* calls of schedule_jobs
          paper, thesis,                    \* projects
          w1, w2                            \* workers

(* One project, preamble <- chapter <- main and preamble <- main, scheduled *)
(* by the first call; a second call brings a lone figure.                   *)
MCJobs == {preamble, chapter, main, figure}
MCCalls == {first, second}
MCWorkers == {w1, w2}
MCProjects == {paper, thesis}
MCCallOf == [j \in MCJobs |-> IF j = figure THEN second ELSE first]
MCDeps ==
  (preamble :> {}) @@ (chapter :> {preamble}) @@ (main :> {preamble, chapter}) @@ (figure :> {})
MCPriority == (preamble :> 3) @@ (chapter :> 1) @@ (main :> 2) @@ (figure :> 1)
MCProjectOf == (first :> paper) @@ (second :> thesis)

(* The levels, which are the groups that parallel_groups returns for this   *)
(* graph.                                                                   *)
MCLevel == (preamble :> 1) @@ (chapter :> 2) @@ (main :> 3) @@ (figure :> 1)

Graph == INSTANCE CompileGraph

ASSUME LevelsAreGroups ==
  LET edges == {<<j, d>> \in MCJobs \X MCJobs : d \in MCDeps[j]}
  IN \A order \in Graph!TopologicalOrders(MCJobs, edges) :
       LET groups == Graph!Groups(edges, order, MCJobs)
       IN \A j \in MCJobs : MCLevel[j] = Graph!GroupOf(groups, j)
=============================================================================
