------------------------------- MODULE MCGuards -------------------------------
(* What bounds the cost of compilations: the circuit breaker of a document, *)
(* the quotas of a user and the convergence of one compilation.  They share *)
(* nothing, so that a behaviour is about one of them.                       *)
EXTENDS CircuitBreaker, QuotaManager, Convergence

VARIABLE guard

guards == <<breaker, quota, convergence>>

MCTiers == {"free", "paid"}
MCTierLimits == [t \in MCTiers |->
  IF t = "free"
  THEN [max_concurrent_jobs |-> 1, max_compute_time_per_hour |-> 3,
        requests_per_minute |-> 2, max_document_size |-> 1]
  ELSE [max_concurrent_jobs |-> 2, max_compute_time_per_hour |-> 4,
        requests_per_minute |-> 3, max_document_size |-> 2]]

MCInit ==
  /\ guard \in {"breaker", "quota", "convergence"}
  /\ BreakerInit /\ QuotaInit /\ ConvergenceInit

Breaker(A) == guard = "breaker" /\ A /\ UNCHANGED <<guard, quota, convergence>>
Quota(A)   == guard = "quota" /\ A /\ UNCHANGED <<guard, breaker, convergence>>

MCNext ==
  \/ Breaker(BreakerNext)
  \/ Quota(QuotaNext)
  \/ guard = "convergence" /\ ConvergenceNext /\ UNCHANGED <<guard, breaker, quota>>

(* Time passes and somebody keeps asking; jobs that were admitted start and *)
(* end, for compilers have time limits.                                     *)
MCSpec ==
  /\ MCInit /\ [][MCNext]_<<guard, guards>>
  /\ WF_guards(Breaker(Tick)) /\ WF_guards(Breaker(CheckAllowed \/ CheckRejected))
  /\ WF_guards(Quota(PassTime)) /\ WF_guards(Quota(CheckAdmission(1)))
  /\ WF_guards(Quota(RecordJobStart)) /\ WF_guards(Quota(EndJob))
=============================================================================
