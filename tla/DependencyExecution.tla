------------------------- MODULE DependencyExecution -------------------------
(***************************************************************************)
(* What the scatter/gather scheduler promises, without queue, workers or   *)
(* reports: a job starts only when every job it depends on is done, and a  *)
(* job that is done stays done (orchestrator/src/scheduler.rs, "Queue jobs *)
(* respecting dependencies").                                              *)
(***************************************************************************)
CONSTANTS Jobs, Deps

VARIABLES started, done

Init == started = {} /\ done = {}

Start(j) ==
  /\ j \notin started
  /\ Deps[j] \subseteq done
  /\ started' = started \cup {j}
  /\ UNCHANGED done

Finish(j) ==
  /\ j \in started \ done
  /\ done' = done \cup {j}
  /\ UNCHANGED started

Next == \E j \in Jobs : Start(j) \/ Finish(j)

Spec == Init /\ [][Next]_<<started, done>>
=============================================================================
