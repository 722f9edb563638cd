--------------------------- MODULE FairScheduler ---------------------------
(***************************************************************************)
(* The fair scheduler (orchestrator/src/fair_scheduler.rs) with the limits *)
(* of the users' tiers that it reads (orchestrator/src/quotas.rs).         *)
(*                                                                         *)
(* A job goes through submit, get_next_job, record_job_start, its run and  *)
(* record_job_completion; its phase says how far it has come.  submit and  *)
(* the two records take one lock after the other, so each segment is an    *)
(* action.  get_next_job keeps the locks of the queue and of running_jobs  *)
(* until it returns: it is one action at its read of workers_in_use, and   *)
(* another that updates the statistics, with nobody at those two locks in  *)
(* between (Selecting).  A job that has left the system stands for one     *)
(* that may be submitted next.                                             *)
(***************************************************************************)
EXTENDS Integers, Sequences, FiniteSets

CONSTANTS Jobs,
          Users,
          UserOf,             \* ScheduledJob.user_id
          BasePriority,       \* ScheduledJob.base_priority
          AgingRate,          \* priority gained per unit of time
          MaxAge,             \* bound: a job that waited longer has waited this long
          TotalWorkers,       \* FairSchedulerConfig.total_workers
          MinWorkersPerUser,  \* FairSchedulerConfig.min_workers_per_user
          TierLimits,         \* QuotaLimits.max_concurrent_jobs of the tiers
          Dispatchers         \* how many tasks loop get_next_job; record_job_start

ASSUME ConstantsAssumption ==
  /\ IsFiniteSet(Jobs)
  /\ UserOf \in [Jobs -> Users]
  /\ BasePriority \in [Jobs -> Nat]
  /\ AgingRate \in Nat \ {0} /\ MaxAge \in Nat
  /\ TotalWorkers \in Nat \ {0} /\ MinWorkersPerUser \in Nat
  /\ TierLimits \subseteq Nat \ {0}
  /\ Dispatchers \in Nat \ {0}

(* At MaxAge a job is ahead of every job that comes new. *)
ASSUME MaxAgeSuffices == \A j \in Jobs : MaxAge * AgingRate > BasePriority[j]

VARIABLES
  phase,           \* how far a job has come
  queue,           \* the heap, in the order of get_next_job's sort
  waited,          \* the age of a queued job
  running_jobs,    \* the jobs listed as running, per user
  workers_in_use,
  queued_jobs,     \* UserSchedulingStats.queued_jobs
  active_jobs,     \* UserSchedulingStats.active_jobs and workers_allocated, always equal
  limit            \* max_concurrent_jobs of a user's present tier

stats == <<queued_jobs, active_jobs>>
vars  == <<phase, queue, waited, running_jobs, workers_in_use, stats, limit>>

Phases == {"Out", "Submitting", "Queued", "Selecting", "Selected", "Listed", "Counted",
           "Running", "Unlisted", "Uncounted"}

-----------------------------------------------------------------------------
(* Helpers *)

In(P) == {j \in Jobs : phase[j] \in P}

(* Jobs in the hands of a dispatcher. *)
Held == In({"Selecting", "Selected", "Listed", "Counted"})

(* get_next_job holds the locks of the queue and of running_jobs. *)
Locked == In({"Selecting"}) # {}

(* MAX_WORKER_PERCENTAGE of the workers, rounded down, or the minimum. *)
UserCap ==
  LET share == (3 * TotalWorkers) \div 10
  IN IF share >= MinWorkersPerUser THEN share ELSE MinWorkersPerUser

Minus1(n) == IF n = 0 THEN 0 ELSE n - 1  \* saturating_sub

EffectivePriority(j) == BasePriority[j] + AgingRate * waited[j]

(* A slip of can_run_job: the cap is not looked at, only the tier. *)
CanRunByTier(j) == Cardinality(running_jobs[UserOf[j]]) < limit[UserOf[j]]

CanRun(j) ==
  LET user_running == Cardinality(running_jobs[UserOf[j]])
  IN user_running < UserCap /\ user_running < limit[UserOf[j]]

-----------------------------------------------------------------------------
Init ==
  /\ phase = [j \in Jobs |-> "Out"]
  /\ queue = <<>>
  /\ waited = [j \in Jobs |-> 0]
  /\ running_jobs = [u \in Users |-> {}]
  /\ workers_in_use = 0
  /\ queued_jobs = [u \in Users |-> 0]
  /\ active_jobs = [u \in Users |-> 0]
  /\ limit \in [Users -> TierLimits]

Moves(j, from, to) == phase[j] = from /\ phase' = [phase EXCEPT ![j] = to]

(* Slips of the actions below: no ageing; the job stays in the queue's      *)
(* count; a worker is freed only with the user's last job.                  *)
PushByBasePriority(j) ==
  /\ ~Locked
  /\ Moves(j, "Submitting", "Queued")
  /\ \E i \in 0 .. Len(queue) :
       /\ \A k \in 1 .. i : BasePriority[queue[k]] >= BasePriority[j]
       /\ \A k \in i + 1 .. Len(queue) : BasePriority[queue[k]] <= BasePriority[j]
       /\ queue' = SubSeq(queue, 1, i) \o <<j>> \o SubSeq(queue, i + 1, Len(queue))
  /\ UNCHANGED <<waited, running_jobs, workers_in_use, stats, limit>>

CountDequeuedNot(j) ==
  /\ Moves(j, "Selecting", "Selected")
  /\ UNCHANGED <<queue, waited, running_jobs, workers_in_use, stats, limit>>

FreeWorkerWithLastJob(j) ==
  /\ Moves(j, "Unlisted", "Uncounted")
  /\ workers_in_use' = IF running_jobs[UserOf[j]] = {} THEN Minus1(workers_in_use) ELSE workers_in_use
  /\ UNCHANGED <<queue, waited, running_jobs, stats, limit>>

(* submit: the statistics *)
Submit(j) ==
  /\ Moves(j, "Out", "Submitting")
  /\ queued_jobs' = [queued_jobs EXCEPT ![UserOf[j]] = @ + 1]
  /\ UNCHANGED <<queue, waited, running_jobs, workers_in_use, active_jobs, limit>>

(* submit: queue.push.  Ages grow alike, so the order of any two jobs in    *)
(* the queue is settled when the later one comes: behind whoever has more   *)
(* priority by then.                                                        *)
Push(j) ==
  /\ ~Locked
  /\ Moves(j, "Submitting", "Queued")
  /\ \E i \in 0 .. Len(queue) :
       /\ \A k \in 1 .. i : EffectivePriority(queue[k]) >= BasePriority[j]
       /\ \A k \in i + 1 .. Len(queue) : EffectivePriority(queue[k]) <= BasePriority[j]
       /\ queue' = SubSeq(queue, 1, i) \o <<j>> \o SubSeq(queue, i + 1, Len(queue))
  /\ UNCHANGED <<waited, running_jobs, workers_in_use, stats, limit>>

(* get_next_job, when a worker is free: the first job that can run.  (With  *)
(* no free worker or no such job it returns None and changes nothing.)      *)
GetNextJob(j) ==
  /\ ~Locked
  /\ Cardinality(Held) < Dispatchers
  /\ workers_in_use < TotalWorkers
  /\ Moves(j, "Queued", "Selecting")
  /\ CanRun(j)
  /\ \E i \in DOMAIN queue :
       /\ queue[i] = j
       /\ \A k \in 1 .. i - 1 : ~CanRun(queue[k])
       /\ queue' = SubSeq(queue, 1, i - 1) \o SubSeq(queue, i + 1, Len(queue))
  /\ waited' = [waited EXCEPT ![j] = 0]
  /\ UNCHANGED <<running_jobs, workers_in_use, stats, limit>>

(* get_next_job: the statistics, and return *)
CountDequeued(j) ==
  /\ Moves(j, "Selecting", "Selected")
  /\ queued_jobs' = [queued_jobs EXCEPT ![UserOf[j]] = Minus1(@)]
  /\ UNCHANGED <<queue, waited, running_jobs, workers_in_use, active_jobs, limit>>

(* record_job_start: the list of running jobs, the workers, the statistics *)
List(j) ==
  /\ ~Locked
  /\ Moves(j, "Selected", "Listed")
  /\ running_jobs' = [running_jobs EXCEPT ![UserOf[j]] = @ \cup {j}]
  /\ UNCHANGED <<queue, waited, workers_in_use, stats, limit>>

TakeWorker(j) ==
  /\ Moves(j, "Listed", "Counted")
  /\ workers_in_use' = workers_in_use + 1
  /\ UNCHANGED <<queue, waited, running_jobs, stats, limit>>

CountActive(j) ==
  /\ Moves(j, "Counted", "Running")
  /\ active_jobs' = [active_jobs EXCEPT ![UserOf[j]] = @ + 1]
  /\ UNCHANGED <<queue, waited, running_jobs, workers_in_use, queued_jobs, limit>>

(* The job ends; record_job_completion: the same three in the same order *)
Unlist(j) ==
  /\ ~Locked
  /\ Moves(j, "Running", "Unlisted")
  /\ running_jobs' = [running_jobs EXCEPT ![UserOf[j]] = @ \ {j}]
  /\ UNCHANGED <<queue, waited, workers_in_use, stats, limit>>

FreeWorker(j) ==
  /\ Moves(j, "Unlisted", "Uncounted")
  /\ workers_in_use' = Minus1(workers_in_use)
  /\ UNCHANGED <<queue, waited, running_jobs, stats, limit>>

CountInactive(j) ==
  /\ Moves(j, "Uncounted", "Out")
  /\ active_jobs' = [active_jobs EXCEPT ![UserOf[j]] = Minus1(@)]
  /\ UNCHANGED <<queue, waited, running_jobs, workers_in_use, queued_jobs, limit>>

(* cancel_user_jobs keeps the lock of the queue until it returns. *)
QueuedOf(u) == {j \in In({"Queued"}) : UserOf[j] = u}

QueueWithout(u) == SelectSeq(queue, LAMBDA j : UserOf[j] # u)

CancelUserJobs(u) ==
  /\ ~Locked
  /\ QueuedOf(u) # {} \/ queued_jobs[u] # 0
  /\ queue' = QueueWithout(u)
  /\ phase' = [j \in Jobs |-> IF j \in QueuedOf(u) THEN "Out" ELSE phase[j]]
  /\ waited' = [j \in Jobs |-> IF j \in QueuedOf(u) THEN 0 ELSE waited[j]]
  /\ queued_jobs' = [queued_jobs EXCEPT ![u] = 0]
  /\ UNCHANGED <<running_jobs, workers_in_use, active_jobs, limit>>

(* QuotaManager::set_user_tier, as get_limits sees it *)
SetUserTier(u) ==
  /\ \E max \in TierLimits \ {limit[u]} : limit' = [limit EXCEPT ![u] = max]
  /\ UNCHANGED <<phase, queue, waited, running_jobs, workers_in_use, stats>>

(* Time passes for the jobs in the queue. *)
Tick ==
  /\ \E j \in In({"Queued"}) : waited[j] < MaxAge
  /\ waited' = [j \in Jobs |-> IF phase[j] = "Queued" /\ waited[j] < MaxAge
                               THEN waited[j] + 1 ELSE waited[j]]
  /\ UNCHANGED <<phase, queue, running_jobs, workers_in_use, stats, limit>>

(* What a task does with a job without being asked again. *)
Proceed(j) ==
  \/ Push(j) \/ CountDequeued(j) \/ List(j) \/ TakeWorker(j) \/ CountActive(j)
  \/ Unlist(j) \/ FreeWorker(j) \/ CountInactive(j)

Next ==
  \/ \E j \in Jobs : Submit(j) \/ GetNextJob(j) \/ Proceed(j)
  \/ \E u \in Users : CancelUserJobs(u) \/ SetUserTier(u)
  \/ Tick

Spec == Init /\ [][Next]_vars

(* Tasks are polled and jobs end; a lock is granted in the order of         *)
(* arrival, so a task that waits for one gets it although others come again *)
(* (hence SF); dispatchers keep asking; time passes.                        *)
Fairness ==
  /\ \A j \in Jobs : SF_vars(Proceed(j))
  /\ WF_vars(\E j \in Jobs : GetNextJob(j))
  /\ WF_vars(Tick)

FairSpec == Spec /\ Fairness

-----------------------------------------------------------------------------
(* Properties *)

TypeOK ==
  /\ phase \in [Jobs -> Phases]
  /\ queue \in Seq(Jobs)
  /\ waited \in [Jobs -> 0 .. MaxAge]
  /\ running_jobs \in [Users -> SUBSET Jobs]
  /\ workers_in_use \in Nat
  /\ queued_jobs \in [Users -> Nat]
  /\ active_jobs \in [Users -> Nat]
  /\ limit \in [Users -> TierLimits]

(* get_next_job decides by what record_job_start has recorded so far, and   *)
(* records nothing itself: with several dispatchers a user can get more     *)
(* than the cap and more jobs can run than there are workers, but never by  *)
(* more than the other dispatchers that were on their way.                  *)
OvershootIsBounded ==
  /\ \A u \in Users : Cardinality(running_jobs[u]) <= UserCap + Dispatchers - 1
  /\ workers_in_use <= TotalWorkers + Dispatchers - 1

(* Whenever no record is under way, the three counts of running jobs tell   *)
(* the same, and nothing has leaked in any of them.                         *)
BooksBalance ==
  In({"Listed", "Counted", "Unlisted", "Uncounted"}) = {} =>
    /\ workers_in_use = Cardinality(In({"Running"}))
    /\ \A u \in Users : /\ active_jobs[u] = Cardinality(running_jobs[u])
                        /\ running_jobs[u] = {j \in In({"Running"}) : UserOf[j] = u}

(* The statistics never report a queued job that is not there or about to   *)
(* be: a submission that a cancellation overtakes is left out of the count, *)
(* but never counted twice.                                                 *)
QueueIsNotOverstated ==
  \A u \in Users :
    queued_jobs[u] <= Cardinality({j \in In({"Submitting", "Queued", "Selecting"}) : UserOf[j] = u})

(* No job starves, however many jobs of more priority keep coming: ageing   *)
(* brings it to the front, and the limits of its user open again.           *)
NoStarvation == \A j \in Jobs : phase[j] = "Queued" ~> phase[j] # "Queued"

=============================================================================
