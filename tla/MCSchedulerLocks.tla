-------------------------- MODULE MCSchedulerLocks --------------------------
(* SchedulerLocks with particular mixes of concurrent calls. *)
EXTENDS SchedulerLocks

MCTasks == {"t1", "t2", "t3", "t4"}

Mix(a, b, c, d) ==
  [t \in MCTasks |-> CASE t = "t1" -> a [] t = "t2" -> b [] t = "t3" -> c [] t = "t4" -> d]

(* Every method but get_next_job at once; then two calls of get_next_job    *)
(* next to the methods that never hold jobs while they wait for the queue.  *)
OrderedMixes ==
  {Mix("schedule_jobs", "report_completion", "stats", "gather_results"),
   Mix("get_next_job", "get_next_job", "is_project_complete", "gather_results"),
   Mix("get_next_job", "get_next_job", "is_project_complete", "register_worker")}

ASSUME MixesAreOrdered == \A mix \in OrderedMixes : Ordered(mix)

(* One worker asks for a job while another reports. *)
ConflictTasks == {"next", "report"}
ConflictMixes ==
  {[t \in ConflictTasks |-> IF t = "next" THEN "get_next_job" ELSE "report_completion"]}
=============================================================================
