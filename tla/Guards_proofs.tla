---------------------------- MODULE Guards_proofs ----------------------------
(***************************************************************************)
(* Proofs about what bounds the cost of compilations: CircuitBreaker for   *)
(* any limits, durations and number of compilations under way;             *)
(* QuotaManager for any tiers and limits, any number of requests between   *)
(* check and start, and jobs of any bounded length; Convergence for any    *)
(* files, any contents of them and any bound on the passes.                *)
(***************************************************************************)
EXTENDS CircuitBreaker, QuotaManager, Convergence, FiniteSetTheorems, TLAPS

-----------------------------------------------------------------------------
(* The circuit breaker *)

BreakerTypeOK ==
  /\ known \in BOOLEAN
  /\ state \in {"Closed", "Open", "HalfOpen"}
  /\ failure_count \in Nat
  /\ last_failure \in 0 .. MaxAge
  /\ quarantine_left \in Nat
  /\ running \in Nat

(* The count says which state the circuit is in: a circuit closes with a    *)
(* count of 0 and no failure at the limit leaves it closed.                 *)
CountMatchesState == state = "Closed" <=> failure_count < MaxFailures

(* A half-open circuit has served the quarantine of its last failure. *)
HalfOpenHasServed == state = "HalfOpen" => last_failure >= Quarantine

BreakerInv ==
  /\ BreakerTypeOK
  /\ CountMatchesState
  /\ QuarantineCountsFromLastFailure
  /\ HalfOpenHasServed

LEMMA Durations ==
  /\ MaxFailures \in Nat /\ Quarantine \in Nat /\ Cooldown \in Nat /\ Idle \in Nat /\ MaxAge \in Nat
  /\ MaxFailures > 0 /\ MaxAge >= Quarantine
  BY CircuitBreakerAssumption

LEMMA BreakerInvInit == BreakerInit => BreakerInv
<1> SUFFICES ASSUME BreakerInit
             PROVE  BreakerInv
  OBVIOUS
<1>1. BreakerTypeOK
  <2>1. known \in BOOLEAN
    BY Zenon DEF BreakerInit
  <2>2. QED
    BY <2>1, Durations DEF BreakerInit, FreshRecord, BreakerTypeOK
<1>2. CountMatchesState
  BY Durations DEF BreakerInit, FreshRecord, CountMatchesState
<1>3. QuarantineCountsFromLastFailure /\ HalfOpenHasServed
  BY DEF BreakerInit, FreshRecord, QuarantineCountsFromLastFailure, HalfOpenHasServed
<1>4. QED
  BY <1>1, <1>2, <1>3 DEF BreakerInv

(* An answer of check may half open the circuit or forget failures. *)
LEMMA CheckKeepsInv ==
  ASSUME BreakerInv, Check, running' \in Nat
  PROVE  BreakerInv'
  BY Durations
  DEF Check, UpdatedState, UpdatedCount, BreakerInv, BreakerTypeOK, CountMatchesState,
      QuarantineCountsFromLastFailure, HalfOpenHasServed

LEMMA BreakerInvInductive == BreakerInv /\ [BreakerNext]_breaker => BreakerInv'
<1> SUFFICES ASSUME BreakerInv, [BreakerNext]_breaker
             PROVE  BreakerInv'
  OBVIOUS
<1> USE Durations DEF BreakerInv, BreakerTypeOK
<1>1. CASE CheckAllowed
  BY <1>1, CheckKeepsInv DEF CheckAllowed
<1>2. CASE CheckRejected
  BY <1>2, CheckKeepsInv DEF CheckRejected
<1> USE DEF CountMatchesState, QuarantineCountsFromLastFailure, HalfOpenHasServed
<1>3. CASE RecordSuccess
  BY <1>3 DEF RecordSuccess, Finish, ClearRecord, record
<1>4. CASE RecordFailure
  <2>1. CASE failure_count' >= MaxFailures
    BY <1>4, <2>1 DEF RecordFailure, Finish
  <2>2. CASE ~(failure_count' >= MaxFailures)
    BY <1>4, <2>2 DEF RecordFailure, Finish
  <2>3. QED
    BY <2>1, <2>2
<1>5. CASE ReleaseQuarantine
  BY <1>5 DEF ReleaseQuarantine, ClearRecord
<1>6. CASE CleanupIdleRecords
  <2>1. BreakerTypeOK'
    <3>1. known' \in BOOLEAN
      BY <1>6, Zenon DEF CleanupIdleRecords
    <3>2. QED
      BY <1>6, <3>1 DEF CleanupIdleRecords
  <2>2. CountMatchesState'
    BY <1>6 DEF CleanupIdleRecords
  <2>3. QuarantineCountsFromLastFailure' /\ HalfOpenHasServed'
    BY <1>6 DEF CleanupIdleRecords
  <2>4. QED
    BY <2>1, <2>2, <2>3
<1>7. CASE Tick
  BY <1>7 DEF Tick
<1>8. CASE UNCHANGED breaker
  BY <1>8 DEF breaker, record
<1>9. QED
  BY <1>1, <1>2, <1>3, <1>4, <1>5, <1>6, <1>7, <1>8 DEF BreakerNext

(* Types, and the agreement of count, state and age of the last failure. *)
THEOREM BreakerInvCorrect == BreakerSpec => []BreakerInv
  BY BreakerInvInit, BreakerInvInductive, PTL DEF BreakerSpec

(* The quarantine is counted from the last failure, also from one reported  *)
(* late into an open circuit.                                               *)
THEOREM QuarantineCountsCorrect == BreakerSpec => []QuarantineCountsFromLastFailure
<1>1. BreakerInv => QuarantineCountsFromLastFailure
  BY DEF BreakerInv
<1>2. QED
  BY <1>1, BreakerInvCorrect, PTL

(* A document at its limit of failures is compiled again only when a full   *)
(* quarantine has passed since the last one.                                *)
THEOREM NoAdmissionCorrect == BreakerSpec => NoAdmissionInQuarantine
<1> DEFINE Served == running' > running /\ failure_count >= MaxFailures => last_failure >= Quarantine
<1>1. BreakerInv /\ [BreakerNext]_breaker => [Served]_breaker
  <2> SUFFICES ASSUME BreakerInv, BreakerNext, running' > running, failure_count >= MaxFailures
               PROVE  last_failure >= Quarantine
    OBVIOUS
  <2> USE Durations DEF BreakerInv, BreakerTypeOK
  <2>1. CheckAllowed
    BY DEF BreakerNext, CheckRejected, RecordSuccess, RecordFailure, Finish, ReleaseQuarantine,
           CleanupIdleRecords, Tick
  <2>2. state = "HalfOpen" \/ (state = "Open" /\ quarantine_left = 0)
    BY <2>1 DEF CheckAllowed, UpdatedState, CountMatchesState
  <2>3. QED
    BY <2>2 DEF HalfOpenHasServed, QuarantineCountsFromLastFailure
<1>2. QED
  BY <1>1, BreakerInvCorrect, PTL DEF BreakerSpec, NoAdmissionInQuarantine

-----------------------------------------------------------------------------
(* The quotas *)

QuotaTypeOK ==
  /\ tier \in Tiers
  /\ active_jobs \in Nat
  /\ compute_time_this_hour \in Nat
  /\ request_timestamps \in Seq(Nat)
  /\ hour_start \in Int
  /\ admitted \in 0 .. Handlers

(* The limits of a tier are natural numbers, and all but that of the size   *)
(* are positive.                                                            *)
LEMMA LimitsType ==
  /\ \A t \in Tiers :
       /\ TierLimits[t].max_concurrent_jobs \in Nat \ {0}
       /\ TierLimits[t].max_compute_time_per_hour \in Nat \ {0}
       /\ TierLimits[t].requests_per_minute \in Nat \ {0}
  /\ Handlers \in Nat \ {0} /\ MaxJobTime \in Nat /\ Minute \in Nat /\ Hour \in Nat
  BY QuotaAssumption DEF Limits

-----------------------------------------------------------------------------
(* Some of the first n numbers are at most n. *)
LEMMA SomeOfThem ==
  ASSUME NEW n \in Nat, NEW S \in SUBSET (1 .. n)
  PROVE  IsFiniteSet(S) /\ Cardinality(S) \in 0 .. n
<1>1. IsFiniteSet(1 .. n) /\ Cardinality(1 .. n) = n
  <2>1. IsFiniteSet(1 .. n) /\ Cardinality(1 .. n) = IF 1 > n THEN 0 ELSE n - 1 + 1
    BY FS_Interval
  <2>2. QED
    BY <2>1
<1>2. IsFiniteSet(S) /\ Cardinality(S) <= n
  BY <1>1, FS_Subset
<1>3. Cardinality(S) \in Nat
  BY <1>2, FS_CardinalityType
<1>4. QED
  BY <1>2, <1>3

(* Of the timestamps those that expired go, and no other. *)
LEMMA ExpiredCount ==
  ASSUME request_timestamps \in Seq(Nat)
  PROVE  /\ Cardinality(Expired) \in 0 .. Len(request_timestamps)
         /\ RecentRequests \in Seq(Nat)
         /\ Len(RecentRequests) = Len(request_timestamps) - Cardinality(Expired)
         /\ \A i \in 1 .. Len(RecentRequests) :
              RecentRequests[i] = request_timestamps[i + Cardinality(Expired)]
<1>1. Expired \in SUBSET (1 .. Len(request_timestamps)) /\ Len(request_timestamps) \in Nat
  BY DEF Expired
<1>2. Cardinality(Expired) \in 0 .. Len(request_timestamps)
  BY <1>1, SomeOfThem
<1> DEFINE n == Cardinality(Expired)
<1>3. n \in 0 .. Len(request_timestamps) /\ RecentRequests = SubSeq(request_timestamps, n + 1, Len(request_timestamps))
  BY <1>2 DEF RecentRequests
<1> HIDE DEF n
<1>4. /\ RecentRequests \in Seq(Nat)
      /\ Len(RecentRequests) = Len(request_timestamps) - n
      /\ \A i \in 1 .. Len(RecentRequests) : RecentRequests[i] = request_timestamps[i + n]
  BY <1>1, <1>3
<1>5. QED
  BY <1>2, <1>4 DEF n

(* The requests of the last minute are finitely many, at most all. *)
YoungIn(timestamps) == {i \in DOMAIN timestamps : timestamps[i] < Minute}

LEMMA YoungCount ==
  ASSUME NEW timestamps \in Seq(Nat)
  PROVE  /\ IsFiniteSet(YoungIn(timestamps))
         /\ Cardinality(YoungIn(timestamps)) \in 0 .. Len(timestamps)
<1>1. YoungIn(timestamps) \in SUBSET (1 .. Len(timestamps)) /\ Len(timestamps) \in Nat
  BY DEF YoungIn
<1>2. QED
  BY <1>1, SomeOfThem

(* Dropping what expired makes no request younger. *)
LEMMA RefreshKeepsYoung ==
  ASSUME request_timestamps \in Seq(Nat)
  PROVE  Cardinality(YoungIn(RecentRequests)) <= Cardinality(YoungIn(request_timestamps))
<1> DEFINE n == Cardinality(Expired)
           S == YoungIn(RecentRequests)
           T == YoungIn(request_timestamps)
           f == [i \in S |-> i + n]
<1>1. \A i \in S : i \in Nat /\ i + n \in T
  BY ExpiredCount DEF YoungIn
<1>2. n \in Nat
  BY ExpiredCount
<1>3. IsFiniteSet(T)
  BY YoungCount
<1> HIDE DEF n, S, T
<1>4. f \in Injection(S, T)
  BY <1>1, <1>2 DEF Injection, IsInjective
<1>5. QED
  BY <1>3, <1>4, FS_Injection DEF S, T

-----------------------------------------------------------------------------
LEMMA StartedType ==
  ASSUME QuotaTypeOK
  PROVE  StartedWithinAMinute \in Nat
<1>1. StartedWithinAMinute = Cardinality(YoungIn(request_timestamps))
  BY DEF StartedWithinAMinute, YoungIn
<1>2. QED
  BY <1>1, YoungCount DEF QuotaTypeOK

(* What check_admission does to the usage: nothing grows. *)
LEMMA RefreshEffect ==
  ASSUME QuotaTypeOK, Refresh
  PROVE  /\ tier' = tier /\ active_jobs' = active_jobs
         /\ request_timestamps' \in Seq(Nat) /\ hour_start' \in Int
         /\ compute_time_this_hour' = ComputeTime
         /\ compute_time_this_hour' \in 0 .. compute_time_this_hour
         /\ StartedWithinAMinute' \in 0 .. StartedWithinAMinute
         /\ StartedWithinAMinute' <= Len(RecentRequests)
<1>1. request_timestamps \in Seq(Nat) /\ RecentRequests \in Seq(Nat)
  BY ExpiredCount DEF QuotaTypeOK
<1>2. StartedWithinAMinute' = Cardinality(YoungIn(RecentRequests))
  BY DEF Refresh, StartedWithinAMinute, YoungIn
<1>3. StartedWithinAMinute = Cardinality(YoungIn(request_timestamps))
  BY DEF StartedWithinAMinute, YoungIn
<1>4. /\ Cardinality(YoungIn(RecentRequests)) <= Cardinality(YoungIn(request_timestamps))
      /\ Cardinality(YoungIn(RecentRequests)) \in 0 .. Len(RecentRequests)
      /\ Cardinality(YoungIn(request_timestamps)) \in Nat
  BY <1>1, RefreshKeepsYoung, YoungCount
<1>5. /\ StartedWithinAMinute' \in 0 .. StartedWithinAMinute
      /\ StartedWithinAMinute' <= Len(RecentRequests)
  BY <1>2, <1>3, <1>4
<1>6. QED
  BY <1>1, <1>5 DEF Refresh, ComputeTime, QuotaTypeOK

(* A start is one more request of the last minute. *)
LEMMA StartEffect ==
  ASSUME QuotaTypeOK, RecordJobStart
  PROVE  request_timestamps' \in Seq(Nat) /\ StartedWithinAMinute' = StartedWithinAMinute + 1
<1> DEFINE S == YoungIn(request_timestamps)
           n == Len(request_timestamps)
<1>1. /\ request_timestamps \in Seq(Nat) /\ n \in Nat
      /\ request_timestamps' = Append(request_timestamps, 0)
  BY DEF QuotaTypeOK, RecordJobStart
<1>2. YoungIn(request_timestamps') = S \cup {n + 1} /\ n + 1 \notin S
  BY <1>1, LimitsType, QuotaAssumption DEF YoungIn
<1>3. IsFiniteSet(S) /\ Cardinality(S) \in Nat
  BY <1>1, YoungCount
<1> HIDE DEF S, n
<1>4. Cardinality(S \cup {n + 1}) = Cardinality(S) + 1
  BY <1>2, <1>3, FS_AddElement
<1>5. StartedWithinAMinute' = Cardinality(YoungIn(request_timestamps'))
  BY DEF StartedWithinAMinute, YoungIn
<1>6. StartedWithinAMinute = Cardinality(S)
  BY DEF StartedWithinAMinute, YoungIn, S
<1>7. request_timestamps' \in Seq(Nat)
  BY <1>1
<1>8. QED
  BY <1>2, <1>4, <1>5, <1>6, <1>7

(* When time passes requests leave the last minute. *)
LEMMA PassTimeEffect ==
  ASSUME QuotaTypeOK, PassTime
  PROVE  /\ request_timestamps' \in Seq(Nat) /\ hour_start' \in Int
         /\ StartedWithinAMinute' \in 0 .. StartedWithinAMinute
<1> DEFINE S == YoungIn(request_timestamps)
           T == YoungIn(request_timestamps')
<1>1. request_timestamps \in Seq(Nat)
  BY DEF QuotaTypeOK
<1>2. request_timestamps' \in Seq(Nat)
  <2>1. \A i \in 1 .. Len(request_timestamps) : Age(request_timestamps[i], Minute) \in Nat
    BY <1>1 DEF Age
  <2>2. QED
    BY <1>1, <2>1 DEF PassTime
<1>3. T \in SUBSET S
  BY <1>1, <1>2, LimitsType DEF PassTime, Age, YoungIn
<1>4. IsFiniteSet(S) /\ Cardinality(S) \in Nat /\ Cardinality(T) \in Nat
  BY <1>1, <1>2, YoungCount
<1> HIDE DEF S, T
<1>5. Cardinality(T) <= Cardinality(S)
  BY <1>3, <1>4, FS_Subset
<1>6. hour_start' \in Int
  BY LimitsType DEF PassTime, Age, QuotaTypeOK
<1>7. QED
  BY <1>2, <1>4, <1>5, <1>6 DEF StartedWithinAMinute, YoungIn, S, T

-----------------------------------------------------------------------------
(* The three bounds as sums, which is what a step changes. *)
JobsBound == \E t \in Tiers :
  active_jobs + admitted <= TierLimits[t].max_concurrent_jobs - 1 + Handlers

RequestsBound == \E t \in Tiers :
  StartedWithinAMinute + admitted <= TierLimits[t].requests_per_minute - 1 + Handlers

ComputeTimeBound == \E t, u \in Tiers :
  compute_time_this_hour + MaxJobTime * (active_jobs + admitted)
    <= TierLimits[t].max_compute_time_per_hour - 1
         + MaxJobTime * (TierLimits[u].max_concurrent_jobs - 1 + Handlers)

Bounds == JobsBound /\ RequestsBound /\ ComputeTimeBound

(* Products with the longest job are natural numbers and grow with the      *)
(* other factor, and one job more is one more longest job.                  *)
LEMMA JobTimes ==
  ASSUME NEW m \in Nat, NEW n \in Nat
  PROVE  /\ MaxJobTime * m \in Nat
         /\ MaxJobTime * (m + n) = MaxJobTime * m + MaxJobTime * n
         /\ m <= n => MaxJobTime * m <= MaxJobTime * n
<1>1. MaxJobTime \in Nat
  BY LimitsType
<1>2. MaxJobTime * m \in Nat /\ MaxJobTime * (m + n) = MaxJobTime * m + MaxJobTime * n
  BY <1>1
<1>3. ASSUME m <= n
      PROVE  MaxJobTime * m <= MaxJobTime * n
  <2>1. n - m \in Nat /\ n = m + (n - m)
    BY <1>3
  <2>2. MaxJobTime * (n - m) \in Nat
    BY <1>1, <2>1
  <2>3. MaxJobTime * n = MaxJobTime * m + MaxJobTime * (n - m)
    BY <1>1, <2>1
  <2>4. QED
    BY <1>2, <2>2, <2>3
<1>4. QED
  BY <1>2, <1>3

LEMMA BoundsAreTheProperty == QuotaOvershootIsBounded <=> Bounds
<1> USE LimitsType
<1>1. JobsWithin <=> JobsBound
  BY DEF JobsWithin, JobsBound, Within
<1>2. RequestsWithin <=> RequestsBound
  BY DEF RequestsWithin, RequestsBound, Within
<1>3. ASSUME NEW t \in Tiers, NEW u \in Tiers
      PROVE  TierLimits[t].max_compute_time_per_hour
                 + MaxJobTime * (TierLimits[u].max_concurrent_jobs - 1) - 1 + Handlers * MaxJobTime
             = TierLimits[t].max_compute_time_per_hour - 1
                 + MaxJobTime * (TierLimits[u].max_concurrent_jobs - 1 + Handlers)
  <2> DEFINE m == TierLimits[u].max_concurrent_jobs - 1
             l == TierLimits[t].max_compute_time_per_hour
  <2>1. m \in Nat /\ l \in Nat
    OBVIOUS
  <2> HIDE DEF m, l
  <2>2. l + MaxJobTime * m - 1 + Handlers * MaxJobTime = l - 1 + MaxJobTime * (m + Handlers)
    BY <2>1
  <2>3. QED
    BY <2>2 DEF m, l
<1>4. ComputeTimeWithin <=> ComputeTimeBound
  BY <1>3 DEF ComputeTimeWithin, ComputeTimeBound, Within
<1>5. QED
  BY <1>1, <1>2, <1>4 DEF QuotaOvershootIsBounded, Bounds

-----------------------------------------------------------------------------
Jobs == active_jobs + admitted

(* The compute time that is used or that jobs may still use, and the most   *)
(* of it.                                                                   *)
Committed == compute_time_this_hour + MaxJobTime * Jobs

Ceiling(t, u) ==
  TierLimits[t].max_compute_time_per_hour - 1
    + MaxJobTime * (TierLimits[u].max_concurrent_jobs - 1 + Handlers)

LEMMA CommittedType ==
  ASSUME QuotaTypeOK
  PROVE  Jobs \in Nat /\ Committed \in Nat
<1>1. Jobs \in Nat
  BY LimitsType DEF QuotaTypeOK, Jobs
<1>2. MaxJobTime * Jobs \in Nat
  BY <1>1, JobTimes
<1>3. QED
  BY <1>1, <1>2 DEF Committed, QuotaTypeOK

LEMMA CeilingType ==
  ASSUME NEW t \in Tiers, NEW u \in Tiers
  PROVE  Ceiling(t, u) \in Nat
<1>1. TierLimits[u].max_concurrent_jobs - 1 + Handlers \in Nat
  BY LimitsType
<1>2. MaxJobTime * (TierLimits[u].max_concurrent_jobs - 1 + Handlers) \in Nat
  BY <1>1, JobTimes
<1> DEFINE m == MaxJobTime * (TierLimits[u].max_concurrent_jobs - 1 + Handlers)
<1>3. m \in Nat /\ Ceiling(t, u) = TierLimits[t].max_compute_time_per_hour - 1 + m
  BY <1>2 DEF Ceiling
<1> HIDE DEF m
<1>4. QED
  BY <1>3, LimitsType

(* A step under which none of the three sums grows keeps the bounds. *)
LEMMA NothingGrows ==
  ASSUME QuotaTypeOK, Bounds,
         Jobs' \in 0 .. Jobs,
         StartedWithinAMinute' + admitted' \in 0 .. StartedWithinAMinute + admitted,
         Committed' \in 0 .. Committed
  PROVE  Bounds'
<1>1. JobsBound'
  <2>1. PICK t \in Tiers : Jobs <= TierLimits[t].max_concurrent_jobs - 1 + Handlers
    BY DEF Bounds, JobsBound, Jobs
  <2>2. Jobs' <= TierLimits[t].max_concurrent_jobs - 1 + Handlers
    BY <2>1, CommittedType, LimitsType
  <2>3. QED
    BY <2>2 DEF JobsBound, Jobs
<1>2. RequestsBound'
  <2>1. StartedWithinAMinute + admitted \in Nat
    BY StartedType, LimitsType DEF QuotaTypeOK
  <2>2. PICK t \in Tiers :
          StartedWithinAMinute + admitted <= TierLimits[t].requests_per_minute - 1 + Handlers
    BY DEF Bounds, RequestsBound
  <2>3. StartedWithinAMinute' + admitted' <= TierLimits[t].requests_per_minute - 1 + Handlers
    BY <2>1, <2>2, LimitsType
  <2>4. QED
    BY <2>3 DEF RequestsBound
<1>3. ComputeTimeBound'
  <2>1. PICK t \in Tiers, u \in Tiers : Committed <= Ceiling(t, u)
    BY DEF Bounds, ComputeTimeBound, Committed, Ceiling, Jobs
  <2>2. Committed' <= Ceiling(t, u)
    BY <2>1, CommittedType, CeilingType
  <2>3. QED
    BY <2>2 DEF ComputeTimeBound, Committed, Ceiling, Jobs
<1>4. QED
  BY <1>1, <1>2, <1>3 DEF Bounds

(* An admission finds every count below the limit of the tier; only the     *)
(* requests between check and start come on top.                            *)
LEMMA AdmitWithinBounds ==
  ASSUME QuotaTypeOK, NEW size \in Sizes, Admit(size)
  PROVE  Bounds'
<1> USE LimitsType
<1>1. /\ tier \in Tiers /\ active_jobs \in Nat
      /\ active_jobs' = active_jobs /\ admitted' = admitted + 1
      /\ admitted' \in Nat /\ admitted' <= Handlers
      /\ active_jobs <= TierLimits[tier].max_concurrent_jobs - 1
  BY RefreshEffect DEF Admit, HasFreeJob, limits, QuotaTypeOK
<1>2. JobsBound'
  BY <1>1 DEF JobsBound
<1>3. RequestsBound'
  <2>1. /\ StartedWithinAMinute' \in Nat /\ Len(RecentRequests) \in Nat
        /\ StartedWithinAMinute' <= Len(RecentRequests)
        /\ Len(RecentRequests) <= TierLimits[tier].requests_per_minute - 1
    BY RefreshEffect, StartedType, ExpiredCount DEF Admit, HasFreeRequest, limits, QuotaTypeOK
  <2>2. QED
    BY <1>1, <2>1 DEF RequestsBound
<1>4. ComputeTimeBound'
  <2> DEFINE m == TierLimits[tier].max_concurrent_jobs - 1 + Handlers
  <2>1. /\ compute_time_this_hour' \in Nat
        /\ compute_time_this_hour' <= TierLimits[tier].max_compute_time_per_hour - 1
    BY RefreshEffect, <1>1 DEF Admit, HasComputeTime, limits, QuotaTypeOK
  <2>2. active_jobs' + admitted' \in Nat /\ m \in Nat /\ active_jobs' + admitted' <= m
    BY <1>1
  <2> HIDE DEF m
  <2>3. /\ MaxJobTime * (active_jobs' + admitted') \in Nat /\ MaxJobTime * m \in Nat
        /\ MaxJobTime * (active_jobs' + admitted') <= MaxJobTime * m
    BY <2>2, JobTimes
  <2>4. compute_time_this_hour' + MaxJobTime * (active_jobs' + admitted')
          <= TierLimits[tier].max_compute_time_per_hour - 1 + MaxJobTime * m
    BY <1>1, <2>1, <2>3
  <2>5. QED
    BY <1>1, <2>4 DEF ComputeTimeBound, m
<1>5. QED
  BY <1>2, <1>3, <1>4 DEF Bounds

LEMMA QuotaTypeInductive == QuotaTypeOK /\ [QuotaNext]_quota => QuotaTypeOK'
<1> SUFFICES ASSUME QuotaTypeOK, [QuotaNext]_quota
             PROVE  QuotaTypeOK'
  OBVIOUS
<1> USE LimitsType DEF QuotaTypeOK
<1>1. ASSUME NEW t \in Tiers, SetUserTier(t)
      PROVE  QuotaTypeOK'
  BY <1>1 DEF SetUserTier, usage
<1>2. ASSUME NEW size \in Sizes, Admit(size) \/ Refuse(size)
      PROVE  QuotaTypeOK'
  BY <1>2, RefreshEffect DEF Admit, Refuse
<1>3. CASE RecordJobStart
  BY <1>3, StartEffect DEF RecordJobStart
<1>4. CASE Abandon
  BY <1>4 DEF Abandon, usage
<1>5. CASE EndJob
  BY <1>5 DEF EndJob, RecordJobCompletion
<1>6. CASE PassTime
  BY <1>6, PassTimeEffect DEF PassTime
<1>7. CASE UNCHANGED quota
  BY <1>7 DEF quota, usage
<1>8. QED
  BY <1>1, <1>2, <1>3, <1>4, <1>5, <1>6, <1>7 DEF QuotaNext, CheckAdmission

(* Numbers that do not grow do not grow together. *)
LEMMA SumGrowsNot ==
  ASSUME NEW a \in Nat, NEW b \in Nat, NEW c \in 0 .. a
  PROVE  c \in 0 .. a /\ b \in 0 .. b /\ c + b \in 0 .. a + b
  OBVIOUS

LEMMA BoundsInductive == QuotaTypeOK /\ Bounds /\ [QuotaNext]_quota => Bounds'
<1> SUFFICES ASSUME QuotaTypeOK, Bounds, [QuotaNext]_quota
             PROVE  Bounds'
  OBVIOUS
<1>0. /\ Jobs \in Nat /\ Committed \in Nat /\ StartedWithinAMinute \in Nat
      /\ active_jobs \in Nat /\ admitted \in Nat /\ compute_time_this_hour \in Nat
  BY CommittedType, StartedType, LimitsType DEF QuotaTypeOK
<1>1. ASSUME UNCHANGED <<active_jobs, compute_time_this_hour, request_timestamps, admitted>>
      PROVE  Bounds'
  <2>1. Jobs' = Jobs /\ Committed' = Committed /\ StartedWithinAMinute' = StartedWithinAMinute
    BY <1>1 DEF Jobs, Committed, StartedWithinAMinute
  <2>2. QED
    BY <1>0, <1>1, <2>1, NothingGrows
<1>2. ASSUME NEW size \in Sizes, Admit(size)
      PROVE  Bounds'
  BY <1>2, AdmitWithinBounds
<1>3. ASSUME NEW size \in Sizes, Refuse(size)
      PROVE  Bounds'
  <2>1. Jobs' = Jobs /\ admitted' = admitted
    BY <1>3, RefreshEffect DEF Refuse, Jobs
  <2>2. /\ StartedWithinAMinute' \in 0 .. StartedWithinAMinute
        /\ compute_time_this_hour' \in 0 .. compute_time_this_hour
    BY <1>3, RefreshEffect DEF Refuse
  <2>3. Committed' \in 0 .. Committed
    <3>1. MaxJobTime * Jobs \in Nat /\ Committed = compute_time_this_hour + MaxJobTime * Jobs
      BY <1>0, JobTimes DEF Committed
    <3>2. Committed' = compute_time_this_hour' + MaxJobTime * Jobs
      BY <2>1 DEF Committed
    <3>3. QED
      BY <1>0, <2>2, <3>1, <3>2
  <2>4. /\ Jobs' \in 0 .. Jobs
        /\ StartedWithinAMinute' + admitted' \in 0 .. StartedWithinAMinute + admitted
    BY <1>0, <2>1, <2>2, SumGrowsNot
  <2>5. QED
    BY <2>3, <2>4, NothingGrows
<1>4. CASE RecordJobStart
  <2>1. /\ admitted' = admitted - 1 /\ active_jobs' = active_jobs + 1 /\ admitted > 0
        /\ compute_time_this_hour' = compute_time_this_hour
    BY <1>4 DEF RecordJobStart
  <2>2. Jobs' = Jobs
    BY <1>0, <2>1 DEF Jobs
  <2>3. Committed' = Committed
    BY <2>1, <2>2 DEF Committed
  <2>4. StartedWithinAMinute' = StartedWithinAMinute + 1
    BY <1>4, StartEffect
  <2>5. QED
    BY <1>0, <2>1, <2>2, <2>3, <2>4, NothingGrows
<1>5. CASE Abandon
  <2>1. /\ admitted' = admitted - 1 /\ admitted > 0
        /\ UNCHANGED <<active_jobs, compute_time_this_hour, request_timestamps>>
    BY <1>5 DEF Abandon, usage
  <2>2. Jobs' = Jobs - 1 /\ Jobs' \in Nat
    BY <1>0, <2>1 DEF Jobs
  <2>3. StartedWithinAMinute' = StartedWithinAMinute
    BY <2>1 DEF StartedWithinAMinute
  <2>4. Committed' \in 0 .. Committed
    <3>1. MaxJobTime * Jobs' \in Nat /\ MaxJobTime * Jobs \in Nat /\ MaxJobTime * Jobs' <= MaxJobTime * Jobs
      BY <1>0, <2>2, JobTimes
    <3>2. Committed = compute_time_this_hour + MaxJobTime * Jobs
      BY DEF Committed
    <3>3. Committed' = compute_time_this_hour + MaxJobTime * Jobs'
      BY <2>1 DEF Committed
    <3>4. QED
      BY <1>0, <3>1, <3>2, <3>3
  <2>5. QED
    BY <1>0, <2>1, <2>2, <2>3, <2>4, NothingGrows
<1>6. ASSUME NEW duration \in 0 .. MaxJobTime, RecordJobCompletion(duration)
      PROVE  Bounds'
  <2>1. /\ active_jobs' = active_jobs - 1 /\ active_jobs > 0
        /\ compute_time_this_hour' = compute_time_this_hour + duration
        /\ UNCHANGED <<request_timestamps, admitted>>
    BY <1>6 DEF RecordJobCompletion
  <2>2. Jobs = Jobs' + 1 /\ Jobs' \in Nat
    BY <1>0, <2>1 DEF Jobs
  <2>3. StartedWithinAMinute' = StartedWithinAMinute
    BY <2>1 DEF StartedWithinAMinute
  <2>4. Committed' \in 0 .. Committed
    <3> DEFINE n == Jobs'
    <3>0. n \in Nat /\ Jobs = n + 1
      BY <2>2
    <3> HIDE DEF n
    <3>1. MaxJobTime * n \in Nat /\ MaxJobTime * Jobs = MaxJobTime * n + MaxJobTime
      <4>1. MaxJobTime * n \in Nat /\ MaxJobTime * (n + 1) = MaxJobTime * n + MaxJobTime * 1
        BY <3>0, JobTimes
      <4>2. MaxJobTime * 1 = MaxJobTime
        BY LimitsType
      <4>3. QED
        BY <3>0, <4>1, <4>2
    <3>2. Committed = compute_time_this_hour + MaxJobTime * Jobs
      BY DEF Committed
    <3>3. Committed' = compute_time_this_hour + duration + MaxJobTime * n
      BY <2>1 DEF Committed, n
    <3>4. QED
      BY <1>0, <3>1, <3>2, <3>3, LimitsType
  <2>5. /\ Jobs' \in 0 .. Jobs
        /\ StartedWithinAMinute' + admitted' \in 0 .. StartedWithinAMinute + admitted
    <3>1. admitted' = admitted
      BY <2>1
    <3>2. Jobs' \in 0 .. Jobs
      <4> DEFINE n == Jobs'
      <4>1. n \in Nat /\ Jobs \in Int /\ Jobs = n + 1
        BY <1>0, <2>2
      <4> HIDE DEF n
      <4>2. n \in 0 .. Jobs
        BY <4>1
      <4>3. QED
        BY <4>2 DEF n
    <3>3. QED
      BY <1>0, <2>3, <3>1, <3>2, SumGrowsNot
  <2>6. QED
    BY <2>4, <2>5, NothingGrows
<1>7. CASE PassTime
  <2>1. UNCHANGED <<active_jobs, compute_time_this_hour, admitted>>
    BY <1>7 DEF PassTime
  <2>2. Jobs' = Jobs /\ Committed' = Committed
    BY <2>1 DEF Jobs, Committed
  <2>3. StartedWithinAMinute' \in 0 .. StartedWithinAMinute
    BY <1>7, PassTimeEffect
  <2>4. /\ Jobs' \in 0 .. Jobs /\ Committed' \in 0 .. Committed
        /\ StartedWithinAMinute' + admitted' \in 0 .. StartedWithinAMinute + admitted
    BY <1>0, <2>1, <2>2, <2>3, SumGrowsNot
  <2>5. QED
    BY <2>4, NothingGrows
<1>8. ASSUME NEW t \in Tiers, SetUserTier(t)
      PROVE  Bounds'
  BY <1>1, <1>8 DEF SetUserTier, usage
<1>9. CASE UNCHANGED quota
  BY <1>1, <1>9 DEF quota, usage
<1>10. QED
  BY <1>2, <1>3, <1>4, <1>5, <1>6, <1>7, <1>8, <1>9 DEF QuotaNext, CheckAdmission, EndJob

(* The usage of a user is made of natural numbers, and no more requests     *)
(* stand between check and start than handlers there are.                   *)
THEOREM QuotaTypeCorrect == QuotaSpec => []QuotaTypeOK
<1>1. QuotaInit => QuotaTypeOK
  BY LimitsType, QuotaAssumption DEF QuotaInit, QuotaTypeOK, NoHour
<1>2. QED
  BY <1>1, QuotaTypeInductive, PTL DEF QuotaSpec

(* However requests, completions, changes of tier and time interleave, the  *)
(* limits are exceeded by no more than the requests between check and start *)
(* account for.                                                             *)
THEOREM QuotaOvershootCorrect == QuotaSpec => []QuotaOvershootIsBounded
<1>1. QuotaInit => Bounds
  <2> SUFFICES ASSUME QuotaInit
               PROVE  Bounds
    OBVIOUS
  <2>1. /\ active_jobs = 0 /\ admitted = 0 /\ compute_time_this_hour = 0
        /\ request_timestamps = <<>> /\ DefaultTier \in Tiers
    BY QuotaAssumption DEF QuotaInit
  <2>2. Jobs = 0 /\ Committed = 0
    BY <2>1, LimitsType DEF Jobs, Committed
  <2>3. StartedWithinAMinute = 0
    <3>1. {i \in DOMAIN request_timestamps : request_timestamps[i] < Minute} = {}
      BY <2>1
    <3>2. QED
      BY <3>1, FS_EmptySet DEF StartedWithinAMinute
  <2>4. JobsBound /\ RequestsBound
    BY <2>1, <2>3, LimitsType DEF JobsBound, RequestsBound
  <2>5. Committed <= Ceiling(DefaultTier, DefaultTier)
    BY <2>1, <2>2, CeilingType
  <2>6. QED
    BY <2>1, <2>4, <2>5 DEF Bounds, ComputeTimeBound, Committed, Ceiling, Jobs
<1>2. QED
  BY <1>1, BoundsInductive, BoundsAreTheProperty, QuotaTypeCorrect, PTL DEF QuotaSpec

-----------------------------------------------------------------------------
(* The convergence checker *)

ConvergenceTypeOK ==
  /\ pass_states \in Seq(AuxStates)
  /\ changed_files \in SUBSET Files
  /\ overtime \in BOOLEAN

(* A step either starts over, or records nothing, or records one state of   *)
(* the files; and what it records decides what the caller is told.          *)
Restarted == pass_states' = <<>> /\ outcome' = Running /\ converged' = FALSE

Unrecorded ==
  /\ pass_states' = pass_states /\ converged' = converged
  /\ outcome' = outcome \/ outcome'.kind = "Failed"

Ended(aux) ==
  \/ outcome'.kind = "Converged"
  \/ outcome'.kind = "PartialConvergence" /\ outcome'.cause = "MaxPassesExceeded"
  \/ outcome'.kind = "PartialConvergence" /\ ~IsStable(aux) /\ IsOscillation(aux)

GoesOn(aux) ==
  /\ ~IsStable(aux) /\ ~IsOscillation(aux) /\ current_pass + 1 < MaxPasses
  /\ outcome' = Running /\ converged' = converged

Recorded(aux) ==
  /\ outcome = Running
  /\ pass_states' = Append(pass_states, aux)
  /\ Ended(aux) \/ GoesOn(aux)

LEMMA StepCases ==
  [ConvergenceNext]_convergence => Restarted \/ Unrecorded \/ \E aux \in AuxStates : Recorded(aux)
<1> SUFFICES ASSUME [ConvergenceNext]_convergence
             PROVE  Restarted \/ Unrecorded \/ \E aux \in AuxStates : Recorded(aux)
  OBVIOUS
<1>1. RecordTimeout \/ Expire \/ UNCHANGED convergence => Unrecorded
  BY DEF RecordTimeout, Expire, convergence, Unrecorded
<1>2. Start => Restarted
  BY DEF Start, Restarted
<1>3. ASSUME NEW aux \in AuxStates,
             RecordStable(aux) \/ RecordOscillation(aux) \/ RecordLastPass(aux) \/ RecordPass(aux)
      PROVE  Recorded(aux)
  <2> USE DEF Recorded, Push
  <2>1. RecordStable(aux) => Recorded(aux)
    BY DEF RecordStable, Ended
  <2>2. RecordOscillation(aux) => Recorded(aux)
    BY DEF RecordOscillation, Ended, Partial
  <2>3. RecordLastPass(aux) => Recorded(aux)
    BY DEF RecordLastPass, Ended, Partial
  <2>4. RecordPass(aux) => Recorded(aux)
    BY DEF RecordPass, GoesOn
  <2>5. QED
    BY <1>3, <2>1, <2>2, <2>3, <2>4
<1>4. QED
  BY <1>1, <1>2, <1>3 DEF ConvergenceNext

(* Every recorded pass is a state of the auxiliary files, and what is       *)
(* reported as changed are files.                                           *)
THEOREM ConvergenceTypeCorrect == ConvergenceSpec => []ConvergenceTypeOK
<1>1. ConvergenceInit => ConvergenceTypeOK
  <2>1. ConvergenceInit => overtime \in BOOLEAN
    BY Zenon DEF ConvergenceInit
  <2>2. QED
    BY <2>1 DEF ConvergenceInit, ConvergenceTypeOK
<1>2. ConvergenceTypeOK /\ [ConvergenceNext]_convergence => ConvergenceTypeOK'
  <2> SUFFICES ASSUME ConvergenceTypeOK, [ConvergenceNext]_convergence
               PROVE  ConvergenceTypeOK'
    OBVIOUS
  <2> USE DEF ConvergenceTypeOK
  <2>1. ASSUME NEW aux \in AuxStates, Push(aux)
        PROVE  ConvergenceTypeOK'
    <3>1. ChangedBy(aux) \subseteq Files
      BY DEF ChangedBy, ChangedSince, AuxStates
    <3>2. QED
      BY <2>1, <3>1 DEF Push
  <2>2. CASE RecordTimeout \/ UNCHANGED convergence
    BY <2>2 DEF RecordTimeout, convergence
  <2>3. CASE Expire
    BY <2>3, Zenon DEF Expire
  <2>4. CASE Start
    <3>1. overtime' \in BOOLEAN
      BY <2>4, Zenon DEF Start
    <3>2. QED
      BY <2>4, <3>1 DEF Start
  <2>5. QED
    BY <2>1, <2>2, <2>3, <2>4
    DEF ConvergenceNext, RecordStable, RecordOscillation, RecordLastPass, RecordPass
<1>3. QED
  BY <1>1, <1>2, PTL DEF ConvergenceSpec

-----------------------------------------------------------------------------
(* A state that is not stable is not the last one that was recorded. *)
LEMMA UnstableIsNew ==
  ASSUME NEW aux \in AuxStates, ~IsStable(aux), pass_states # <<>>
  PROVE  pass_states[current_pass] # aux
BY DEF IsStable, ChangedBy, ChangedSince

(* The number of passes is bounded whatever the compilations write. *)
THEOREM PassesAreBoundedCorrect == ConvergenceSpec => []PassesAreBounded
<1> USE ConvergenceAssumption
<1>1. ConvergenceInit => PassesAreBounded
  BY DEF ConvergenceInit, PassesAreBounded, current_pass
<1>2. ConvergenceTypeOK /\ PassesAreBounded /\ [ConvergenceNext]_convergence => PassesAreBounded'
  <2> SUFFICES ASSUME ConvergenceTypeOK, PassesAreBounded, [ConvergenceNext]_convergence
               PROVE  PassesAreBounded'
    OBVIOUS
  <2> USE DEF PassesAreBounded, current_pass, ConvergenceTypeOK
  <2>1. \A aux : Len(Append(pass_states, aux)) = Len(pass_states) + 1 /\ Len(pass_states) \in Nat
    OBVIOUS
  <2>2. Restarted \/ Unrecorded => PassesAreBounded'
    BY DEF Restarted, Unrecorded, Running
  <2>3. ASSUME NEW aux \in AuxStates, Recorded(aux)
        PROVE  PassesAreBounded'
    BY <2>1, <2>3 DEF Recorded, Ended, GoesOn, Running
  <2>4. QED
    BY <2>2, <2>3, StepCases
<1>3. QED
  BY <1>1, <1>2, ConvergenceTypeCorrect, PTL DEF ConvergenceSpec

(* No state of the auxiliary files comes twice while passes are asked for.  *)
THEOREM NoRepeatCorrect == ConvergenceSpec => []NoRepeatGoesUnnoticed
<1>1. ConvergenceInit => NoRepeatGoesUnnoticed
  BY DEF ConvergenceInit, NoRepeatGoesUnnoticed, current_pass
<1>2. ConvergenceTypeOK /\ NoRepeatGoesUnnoticed /\ [ConvergenceNext]_convergence
        => NoRepeatGoesUnnoticed'
  <2> SUFFICES ASSUME ConvergenceTypeOK, NoRepeatGoesUnnoticed, [ConvergenceNext]_convergence,
                      outcome' = Running
               PROVE  \A i, k \in 1 .. Len(pass_states') : i # k => pass_states'[i] # pass_states'[k]
    BY DEF NoRepeatGoesUnnoticed, current_pass
  <2> USE DEF NoRepeatGoesUnnoticed, current_pass
  <2>1. ASSUME NEW aux \in AuxStates, pass_states' = Append(pass_states, aux),
               outcome = Running, ~IsStable(aux), ~IsOscillation(aux)
        PROVE  \A i, k \in 1 .. Len(pass_states') : i # k => pass_states'[i] # pass_states'[k]
    <3>1. \A i \in 1 .. Len(pass_states) : pass_states[i] # aux
      BY <2>1, UnstableIsNew DEF IsOscillation, ConvergenceTypeOK
    <3>2. QED
      BY <2>1, <3>1 DEF ConvergenceTypeOK
  <2>2. CASE Restarted \/ Unrecorded
    BY <2>2 DEF Restarted, Unrecorded, Running
  <2>3. CASE \E aux \in AuxStates : Recorded(aux)
    BY <2>1, <2>3 DEF Recorded, Ended, GoesOn, Running
  <2>4. QED
    BY <2>2, <2>3, StepCases
<1>3. QED
  BY <1>1, <1>2, ConvergenceTypeCorrect, PTL DEF ConvergenceSpec

(* A reported oscillation is a state that came back after it was left. *)
THEOREM OscillationIsRealCorrect == ConvergenceSpec => []OscillationIsReal
<1>1. ConvergenceInit => OscillationIsReal
  BY DEF ConvergenceInit, OscillationIsReal, Running
<1>2. ConvergenceTypeOK /\ OscillationIsReal /\ [ConvergenceNext]_convergence => OscillationIsReal'
  <2> SUFFICES ASSUME ConvergenceTypeOK, OscillationIsReal, [ConvergenceNext]_convergence
               PROVE  OscillationIsReal'
    OBVIOUS
  <2> USE DEF OscillationIsReal, current_pass, ConvergenceTypeOK
  <2>1. ASSUME NEW aux \in AuxStates, pass_states' = Append(pass_states, aux),
               ~IsStable(aux), IsOscillation(aux)
        PROVE  OscillationIsReal'
    <3>1. PICK i \in 1 .. Len(pass_states) - 1 : pass_states[i] = aux
      BY <2>1 DEF IsOscillation
    <3>2. pass_states # <<>>
      BY <3>1
    <3>3. pass_states[Len(pass_states)] # aux
      BY <2>1, <3>2, UnstableIsNew
    <3>4. /\ Len(pass_states') = Len(pass_states) + 1
          /\ pass_states'[Len(pass_states')] = aux
          /\ \A n \in 1 .. Len(pass_states) : pass_states'[n] = pass_states[n]
      BY <2>1
    <3>5. i \in 1 .. Len(pass_states') - 2 /\ Len(pass_states') - 1 = Len(pass_states)
      BY <3>1, <3>4
    <3>6. QED
      BY <3>1, <3>3, <3>4, <3>5
  <2>2. CASE Restarted \/ Unrecorded
    BY <2>2 DEF Restarted, Unrecorded, Running
  <2>3. CASE \E aux \in AuxStates : Recorded(aux)
    BY <2>1, <2>3 DEF Recorded, Ended, GoesOn, Running
  <2>4. QED
    BY <2>2, <2>3, StepCases
<1>3. QED
  BY <1>1, <1>2, ConvergenceTypeCorrect, PTL DEF ConvergenceSpec
=============================================================================
