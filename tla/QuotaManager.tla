----------------------------- MODULE QuotaManager -----------------------------
(***************************************************************************)
(* The quotas of one user (orchestrator/src/quotas.rs).  The usage of two  *)
(* users does not mix, and every method holds the lock of the user map     *)
(* throughout, so a method is an action.  A user without an entry is like  *)
(* one with a fresh entry of the default tier.                             *)
(*                                                                         *)
(* A request asks check_admission, calls record_job_start and, when the    *)
(* job ends, record_job_completion.  Up to Handlers requests may stand     *)
(* between the first two calls at once; the jobs that run are not bounded  *)
(* but by the answers.  Instants are kept as the time passed since then.   *)
(***************************************************************************)
EXTENDS Integers, Sequences, FiniteSets

CONSTANTS Tiers,
          DefaultTier,
          TierLimits,    \* QuotaLimits::for_tier
          Minute, Hour,  \* the window of the request rate, the period of compute time
          MaxJobTime,    \* the longest job
          Handlers,      \* how many requests are between check and start at once
          Sizes          \* sizes of documents

Limits == [max_concurrent_jobs : Nat \ {0}, max_compute_time_per_hour : Nat \ {0},
           requests_per_minute : Nat \ {0}, max_document_size : Nat]

ASSUME QuotaAssumption ==
  /\ DefaultTier \in Tiers
  /\ TierLimits \in [Tiers -> Limits]
  /\ {Minute, Hour, Handlers} \subseteq Nat \ {0}
  /\ MaxJobTime \in Nat /\ Sizes \subseteq Nat

VARIABLES tier,
          active_jobs,
          compute_time_this_hour,
          request_timestamps,  \* the age of each, oldest first
          hour_start,          \* its age, NoHour when None
          admitted,            \* requests that are admitted and not started
          answer               \* the last answer of check_admission

usage == <<active_jobs, compute_time_this_hour, request_timestamps, hour_start>>
quota == <<tier, usage, admitted, answer>>

NoHour == -1
limits == TierLimits[tier]

QuotaInit ==
  /\ tier = DefaultTier
  /\ active_jobs = 0
  /\ compute_time_this_hour = 0
  /\ request_timestamps = <<>>
  /\ hour_start = NoHour
  /\ admitted = 0
  /\ answer = "None"

SetUserTier(t) ==
  /\ tier' = t
  /\ UNCHANGED <<usage, admitted, answer>>

(* cleanup_old_requests: retain drops a prefix, the timestamps being in the *)
(* order of time.                                                           *)
Expired == {i \in DOMAIN request_timestamps : request_timestamps[i] >= Minute}

RecentRequests ==
  SubSeq(request_timestamps, Cardinality(Expired) + 1, Len(request_timestamps))

(* A slip of check_hour_reset: the first hour never ends. *)
HourIsOverNever == hour_start = NoHour

(* check_hour_reset *)
HourIsOver == hour_start = NoHour \/ hour_start >= Hour

ComputeTime == IF HourIsOver THEN 0 ELSE compute_time_this_hour

(* What check_admission writes whatever it answers. *)
Refresh ==
  /\ request_timestamps' = RecentRequests
  /\ compute_time_this_hour' = ComputeTime
  /\ hour_start' = IF HourIsOver THEN 0 ELSE hour_start
  /\ UNCHANGED <<tier, active_jobs>>

(* A slip of check_admission: one job too many. *)
HasFreeJobOneTooMany == active_jobs <= limits.max_concurrent_jobs

HasFreeJob == active_jobs < limits.max_concurrent_jobs
HasComputeTime == ComputeTime < limits.max_compute_time_per_hour
HasFreeRequest == Len(RecentRequests) < limits.requests_per_minute
Fits(size) == size <= limits.max_document_size

RefuseJob ==
  /\ ~HasFreeJob
  /\ answer' = "ConcurrentJobLimitExceeded"

RefuseComputeTime ==
  /\ HasFreeJob /\ ~HasComputeTime
  /\ answer' = "ComputeTimeExceeded"

RefuseRate ==
  /\ HasFreeJob /\ HasComputeTime /\ ~HasFreeRequest
  /\ answer' = "RateLimitExceeded"

RefuseSize(size) ==
  /\ HasFreeJob /\ HasComputeTime /\ HasFreeRequest /\ ~Fits(size)
  /\ answer' = "DocumentSizeExceeded"

Refuse(size) ==
  /\ Refresh
  /\ RefuseJob \/ RefuseComputeTime \/ RefuseRate \/ RefuseSize(size)
  /\ UNCHANGED admitted

Admit(size) ==
  /\ admitted < Handlers
  /\ Refresh
  /\ HasFreeJob /\ HasComputeTime /\ HasFreeRequest /\ Fits(size)
  /\ answer' = "Ok"
  /\ admitted' = admitted + 1

CheckAdmission(size) == Admit(size) \/ Refuse(size)

RecordJobStart ==
  /\ admitted > 0
  /\ admitted' = admitted - 1
  /\ active_jobs' = active_jobs + 1
  /\ request_timestamps' = Append(request_timestamps, 0)
  /\ UNCHANGED <<tier, compute_time_this_hour, hour_start, answer>>

(* A request that was admitted goes away without a start. *)
Abandon ==
  /\ admitted > 0
  /\ admitted' = admitted - 1
  /\ UNCHANGED <<tier, usage, answer>>

(* A job ends.  Its time is charged to the hour that is counted now. *)
RecordJobCompletion(duration) ==
  /\ active_jobs > 0
  /\ active_jobs' = active_jobs - 1
  /\ compute_time_this_hour' = compute_time_this_hour + duration
  /\ UNCHANGED <<tier, request_timestamps, hour_start, admitted, answer>>

(* Time passes; ages are counted up to the period they are compared with. *)
Age(age, period) == IF age < period THEN age + 1 ELSE age

PassTime ==
  /\ request_timestamps' =
       [i \in DOMAIN request_timestamps |-> Age(request_timestamps[i], Minute)]
  /\ hour_start' = IF hour_start = NoHour THEN NoHour ELSE Age(hour_start, Hour)
  /\ UNCHANGED <<tier, active_jobs, compute_time_this_hour, admitted, answer>>

EndJob == \E duration \in 0 .. MaxJobTime : RecordJobCompletion(duration)

QuotaNext ==
  \/ \E t \in Tiers : SetUserTier(t)
  \/ \E size \in Sizes : CheckAdmission(size)
  \/ RecordJobStart \/ Abandon \/ EndJob
  \/ PassTime

QuotaSpec == QuotaInit /\ [][QuotaNext]_quota

-----------------------------------------------------------------------------
(* Properties *)

(* SYSTEM_ANALYSIS.md, quotas: "Hard limits enforced".  The check and the   *)
(* record are two calls, so a limit may be exceeded - but by no more than   *)
(* the requests that can stand between them, under any mix of late starts,  *)
(* completions, changes of tier and resets: jobs, jobs started within a     *)
(* minute, and the compute time that is used or that running jobs may still *)
(* use.                                                                     *)
Within(used, limit, unit) == used <= limit - 1 + Handlers * unit

StartedWithinAMinute ==
  Cardinality({i \in DOMAIN request_timestamps : request_timestamps[i] < Minute})

JobsWithin     == \E t \in Tiers : Within(active_jobs + admitted, TierLimits[t].max_concurrent_jobs, 1)
RequestsWithin == \E t \in Tiers : Within(StartedWithinAMinute + admitted, TierLimits[t].requests_per_minute, 1)

ComputeTimeWithin ==
  \E t, u \in Tiers :
    Within(compute_time_this_hour + MaxJobTime * (active_jobs + admitted),
           TierLimits[t].max_compute_time_per_hour + MaxJobTime * (TierLimits[u].max_concurrent_jobs - 1),
           MaxJobTime)

QuotaOvershootIsBounded == JobsWithin /\ RequestsWithin /\ ComputeTimeWithin

(* A user who is refused for anything but the size of the document and who  *)
(* keeps asking is admitted in the end, whatever limit was exceeded and     *)
(* however often he asks: asking uses up nothing.                           *)
RefusedUserIsAdmittedAgain ==
  answer \in {"ConcurrentJobLimitExceeded", "ComputeTimeExceeded", "RateLimitExceeded"} ~> answer = "Ok"
=============================================================================
