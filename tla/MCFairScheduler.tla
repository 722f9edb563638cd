-------------------------- MODULE MCFairScheduler --------------------------
(***************************************************************************)
(* Two small instances of FairScheduler for TLC, one per scene, so that    *)
(* a behaviour is about one of them.  In the line two users share a single *)
(* worker: one of them sends jobs of high priority, and limits, tiers and  *)
(* cancellations matter.  In the crowd, which has the constants of the     *)
(* configuration, the cap of a user is below the number of workers, and    *)
(* one user has more jobs than the cap and the race together let run.      *)
(***************************************************************************)
EXTENDS FairScheduler

VARIABLE scene

Line == INSTANCE FairScheduler WITH TotalWorkers <- 1, MinWorkersPerUser <- 2

MCJobs == {"rush1", "rush2", "rush3", "thesis"}
MCUsers == {"busy", "meek"}
MCUserOf == [j \in MCJobs |-> IF j = "thesis" THEN "meek" ELSE "busy"]
MCBasePriority == [j \in MCJobs |-> IF j = "thesis" THEN 0 ELSE 1]
MCTierLimits == {1, 3}

MCInit ==
  /\ Init
  /\ \/ scene = "line"
     \/ scene = "crowd" /\ \A u \in Users : limit[u] = 3

Stays(A) == A /\ UNCHANGED scene

MCGetNextJob(j) ==
  \/ scene = "line" /\ Stays(Line!GetNextJob(j))
  \/ scene = "crowd" /\ Stays(GetNextJob(j))

MCNext ==
  \/ \E j \in Jobs : MCGetNextJob(j) \/ Stays(Proceed(j))
  \/ \E j \in Jobs : (scene = "line" => j # "rush3") /\ Stays(Submit(j))
  \/ scene = "line" /\ \E u \in Users : Stays(CancelUserJobs(u) \/ SetUserTier(u))
  \/ Stays(Tick)

MCFairness ==
  /\ \A j \in Jobs : SF_vars(Stays(Proceed(j)))
  /\ WF_vars(\E j \in Jobs : MCGetNextJob(j))
  /\ WF_vars(Stays(Tick))

MCSpec == MCInit /\ [][MCNext]_<<vars, scene>> /\ MCFairness
=============================================================================
