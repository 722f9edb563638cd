------------------------- MODULE JobScheduler_proofs -------------------------
(***************************************************************************)
(* Proofs that every behaviour of JobScheduler, whatever the jobs, the     *)
(* graph, the calls of schedule_jobs and the workers, respects the graph   *)
(* and loses no job.                                                       *)
(***************************************************************************)
EXTENDS JobScheduler, FiniteSetTheorems, WellFoundedInduction, TLAPS

-----------------------------------------------------------------------------
(* Sequences and their elements *)

(* Append adds its argument to the elements (VecDeque and Vec push). *)
LEMMA ElementsAppend ==
  ASSUME NEW S, NEW s \in Seq(S), NEW x \in S
  PROVE  Elements(Append(s, x)) = Elements(s) \cup {x}
<1>1. DOMAIN Append(s, x) = 1 .. Len(s) + 1 /\ DOMAIN s = 1 .. Len(s) /\ Len(s) \in Nat
  OBVIOUS
<1>2. \A i \in 1 .. Len(s) : Append(s, x)[i] = s[i]
  OBVIOUS
<1>3. Append(s, x)[Len(s) + 1] = x
  OBVIOUS
<1>4. Elements(Append(s, x)) \subseteq Elements(s) \cup {x}
  <2>1. SUFFICES ASSUME NEW i \in 1 .. Len(s) + 1
                 PROVE  Append(s, x)[i] \in Elements(s) \cup {x}
    BY <1>1 DEF Elements
  <2>2. CASE i = Len(s) + 1
    BY <2>2, <1>3
  <2>3. CASE i # Len(s) + 1
    <3>1. i \in 1 .. Len(s)
      BY <2>3, <1>1
    <3>2. QED
      BY <3>1, <1>1, <1>2 DEF Elements
  <2>4. QED
    BY <2>2, <2>3
<1>5. Elements(s) \subseteq Elements(Append(s, x))
  <2>1. \A i \in 1 .. Len(s) : i \in 1 .. Len(s) + 1
    BY <1>1
  <2>2. QED
    BY <2>1, <1>1, <1>2 DEF Elements
<1>6. x \in Elements(Append(s, x))
  <2>1. Len(s) + 1 \in 1 .. Len(s) + 1
    BY <1>1
  <2>2. QED
    BY <2>1, <1>1, <1>3 DEF Elements
<1>7. QED
  BY <1>4, <1>5, <1>6

(* Concatenation joins the elements (a batch of push_back). *)
LEMMA ElementsConcat ==
  ASSUME NEW S, NEW s \in Seq(S), NEW t \in Seq(S)
  PROVE  Elements(s \o t) = Elements(s) \cup Elements(t)
<1>1. /\ DOMAIN (s \o t) = 1 .. Len(s) + Len(t)
      /\ DOMAIN s = 1 .. Len(s) /\ DOMAIN t = 1 .. Len(t)
      /\ Len(s) \in Nat /\ Len(t) \in Nat
  OBVIOUS
<1>2. \A i \in 1 .. Len(s) : (s \o t)[i] = s[i] /\ i \in 1 .. Len(s) + Len(t)
  OBVIOUS
<1>3. \A i \in 1 .. Len(t) : (s \o t)[Len(s) + i] = t[i] /\ Len(s) + i \in 1 .. Len(s) + Len(t)
  OBVIOUS
<1>4. \A i \in 1 .. Len(s) + Len(t) :
        \/ i \in 1 .. Len(s)
        \/ \E k \in 1 .. Len(t) : i = Len(s) + k
  <2>1. TAKE i \in 1 .. Len(s) + Len(t)
  <2>2. CASE i > Len(s)
    <3>1. i - Len(s) \in 1 .. Len(t) /\ i = Len(s) + (i - Len(s))
      BY <1>1, <2>2
    <3>2. QED
      BY <3>1
  <2>3. CASE ~(i > Len(s))
    BY <1>1, <2>3
  <2>4. QED
    BY <2>2, <2>3
<1>5. Elements(s \o t) \subseteq Elements(s) \cup Elements(t)
  <2>1. SUFFICES ASSUME NEW i \in 1 .. Len(s) + Len(t)
                 PROVE  (s \o t)[i] \in Elements(s) \cup Elements(t)
    BY <1>1 DEF Elements
  <2>2. CASE i \in 1 .. Len(s)
    BY <2>2, <1>1, <1>2 DEF Elements
  <2>3. CASE \E k \in 1 .. Len(t) : i = Len(s) + k
    BY <2>3, <1>1, <1>3 DEF Elements
  <2>4. QED
    BY <2>2, <2>3, <1>4
<1>6. Elements(s) \subseteq Elements(s \o t)
  BY <1>1, <1>2 DEF Elements
<1>7. Elements(t) \subseteq Elements(s \o t)
  BY <1>1, <1>3 DEF Elements
<1>8. QED
  BY <1>5, <1>6, <1>7

(* What pop_front returns and leaves. *)
LEMMA ElementsHeadTail ==
  ASSUME NEW S, NEW s \in Seq(S), s # <<>>
  PROVE  Head(s) \in S /\ Tail(s) \in Seq(S) /\ Elements(s) = {Head(s)} \cup Elements(Tail(s))
<1>1. /\ Len(s) \in Nat /\ Len(s) >= 1
      /\ DOMAIN s = 1 .. Len(s) /\ DOMAIN Tail(s) = 1 .. Len(s) - 1
      /\ Head(s) = s[1] /\ Head(s) \in S /\ Tail(s) \in Seq(S)
  OBVIOUS
<1>2. \A i \in 1 .. Len(s) - 1 : Tail(s)[i] = s[i + 1] /\ i + 1 \in 1 .. Len(s)
  OBVIOUS
<1>3. Elements(Tail(s)) \subseteq Elements(s) /\ Head(s) \in Elements(s)
  <2>1. 1 \in 1 .. Len(s)
    BY <1>1
  <2>2. QED
    BY <2>1, <1>1, <1>2 DEF Elements
<1>4. Elements(s) \subseteq {Head(s)} \cup Elements(Tail(s))
  <2>1. SUFFICES ASSUME NEW i \in 1 .. Len(s)
                 PROVE  s[i] \in {Head(s)} \cup Elements(Tail(s))
    BY <1>1 DEF Elements
  <2>2. CASE i = 1
    BY <2>2, <1>1
  <2>3. CASE i # 1
    <3>1. i - 1 \in 1 .. Len(s) - 1 /\ (i - 1) + 1 = i
      BY <1>1, <2>3
    <3>2. QED
      BY <3>1, <1>1, <1>2 DEF Elements
  <2>4. QED
    BY <2>2, <2>3
<1>5. QED
  BY <1>1, <1>3, <1>4

(* A sort of a set of jobs is a sequence of jobs with just its elements. *)
LEMMA QueueOrdersType ==
  ASSUME NEW S \in SUBSET Jobs, NEW q \in QueueOrders(S)
  PROVE  q \in Seq(Jobs) /\ Elements(q) = S
<1>1. IsFiniteSet(S)
  BY FS_Subset, ConstantsAssumption
<1>2. Cardinality(S) \in Nat
  BY <1>1, FS_CardinalityType
<1>3. q \in [1 .. Cardinality(S) -> S] /\ Elements(q) = S
  BY DEF QueueOrders
<1>4. q \in Seq(Jobs)
  BY <1>2, <1>3
<1>5. QED
  BY <1>3, <1>4
-----------------------------------------------------------------------------
(* Type correctness *)

(* A worker that is not idle holds a job: what get_next_job popped. *)
HoldersHaveJobs == \A w \in Workers : pc[w] # "Idle" => job[w] \in Jobs

(* Every collection holds what its Rust type says, for any number of jobs,  *)
(* calls and workers.                                                       *)
THEOREM TypeCorrect == Spec => []TypeOK
<1>1. Init => TypeOK /\ HoldersHaveJobs
  BY ConstantsAssumption DEF Init, TypeOK, HoldersHaveJobs, Statuses, Results, Phases
<1>2. TypeOK /\ HoldersHaveJobs /\ [Next]_vars => TypeOK'
  <2>1. SUFFICES ASSUME TypeOK, HoldersHaveJobs, [Next]_vars
                 PROVE  TypeOK'
    OBVIOUS
  <2>2. ASSUME NEW c \in Calls, NEW j \in Jobs, InsertJob(c, j)
        PROVE  TypeOK'
    <3>1. Append(all_jobs[c], j) \in Seq(Jobs)
      BY <2>1 DEF TypeOK
    <3>2. Deps[j] \cap Elements(all_jobs[c]) \in SUBSET Jobs
      BY ConstantsAssumption
    <3>3. QED
      BY <2>1, <2>2, <3>1, <3>2 DEF TypeOK, InsertJob, Statuses, worker
  <2>3. ASSUME NEW c \in Calls, QueueNewJobs(c)
        PROVE  TypeOK'
    <3>1. JobsOf(c) \subseteq Jobs /\ Ready(JobsOf(c)) \in SUBSET Jobs
      BY DEF JobsOf, Ready
    <3>2. PICK q \in QueueOrders(Ready(JobsOf(c))) : pending_queue' = pending_queue \o q
      BY <2>3 DEF QueueNewJobs
    <3>3. q \in Seq(Jobs)
      BY <3>1, <3>2, QueueOrdersType
    <3>4. pending_queue' \in Seq(Jobs)
      BY <2>1, <3>2, <3>3 DEF TypeOK
    <3>5. QED
      BY <2>1, <2>3, <3>4 DEF TypeOK, QueueNewJobs, store, worker
  <2>4. ASSUME NEW w \in Workers, PopNextJob(w)
        PROVE  TypeOK'
    <3>1. pending_queue \in Seq(Jobs) /\ pending_queue # <<>>
      BY <2>1, <2>4 DEF TypeOK, PopNextJob
    <3>2. Head(pending_queue) \in Jobs /\ Tail(pending_queue) \in Seq(Jobs)
      BY <3>1, ElementsHeadTail
    <3>3. QED
      BY <2>1, <2>4, <3>2 DEF TypeOK, PopNextJob, Phases, planner, store
  <2>5. ASSUME NEW w \in Workers, ReportStatus(w)
        PROVE  TypeOK'
    <3>1. PICK ok \in BOOLEAN :
            /\ success' = [success EXCEPT ![w] = ok]
            /\ status' = [status EXCEPT ![job[w]] = IF ok THEN "Completed" ELSE "Failed"]
      BY <2>5 DEF ReportStatus
    <3>2. status' \in [Jobs -> Statuses]
      BY <2>1, <3>1 DEF TypeOK, Statuses
    <3>3. success' \in [Workers -> BOOLEAN]
      BY <2>1, <3>1 DEF TypeOK
    <3>4. QED
      BY <2>1, <2>5, <3>2, <3>3 DEF TypeOK, ReportStatus, Phases, planner
  <2>6. ASSUME NEW w \in Workers, ReportRemove(w)
        PROVE  TypeOK'
    BY <2>1, <2>6 DEF TypeOK, ReportRemove, Phases, planner, store
  <2>7. ASSUME NEW w \in Workers, ReportInsert(w)
        PROVE  TypeOK'
    BY <2>1, <2>7 DEF TypeOK, ReportInsert, Phases, Results, planner, store
  <2>8. ASSUME NEW w \in Workers, ReportSnapshot(w)
        PROVE  TypeOK'
    BY <2>1, <2>8 DEF TypeOK, ReportSnapshot, Phases, Known, planner, store
  <2>9. ASSUME NEW w \in Workers, ReportRequeue(w)
        PROVE  TypeOK'
    <3>1. Ready(snapshot[w]) \in SUBSET Jobs
      BY <2>1 DEF TypeOK, Ready
    <3>2. PICK q \in QueueOrders(Ready(snapshot[w])) : pending_queue' = pending_queue \o q
      BY <2>9 DEF ReportRequeue
    <3>3. q \in Seq(Jobs)
      BY <3>1, <3>2, QueueOrdersType
    <3>4. pending_queue' \in Seq(Jobs)
      BY <2>1, <3>2, <3>3 DEF TypeOK
    <3>5. QED
      BY <2>1, <2>9, <3>4 DEF TypeOK, ReportRequeue, Phases, planner, store
  <2>10. ASSUME NEW w \in Workers, Crash(w)
         PROVE  TypeOK'
    BY <2>1, <2>10, ConstantsAssumption DEF TypeOK, Crash, Phases, planner, store
  <2>11. ASSUME NEW w \in Workers, GetNextJob(w)
         PROVE  TypeOK'
    <3>1. job[w] \in Jobs
      BY <2>1, <2>11 DEF GetNextJob, HoldersHaveJobs
    <3>2. QED
      BY <2>1, <2>11, <3>1 DEF TypeOK, GetNextJob, Statuses, Phases, planner
  <2>12. ASSUME NEW w \in Workers, ReportRead(w)
         PROVE  TypeOK'
    BY <2>1, <2>12 DEF TypeOK, ReportRead, Phases, planner, store
  <2>13. ASSUME NEW c \in Calls, ReadNewJobs(c)
         PROVE  TypeOK'
    BY <2>1, <2>13 DEF TypeOK, ReadNewJobs, store, worker
  <2>14. CASE UNCHANGED vars
    BY <2>1, <2>14 DEF TypeOK, vars, store, planner, worker
  <2>15. QED
    BY <2>1, <2>2, <2>3, <2>4, <2>5, <2>6, <2>7, <2>8, <2>9, <2>10, <2>11, <2>12, <2>13, <2>14
       DEF Next, ScheduleJobs, WorkerLoop, ReportCompletion
<1>3. TypeOK /\ HoldersHaveJobs /\ [Next]_vars => HoldersHaveJobs'
  <2>1. SUFFICES ASSUME TypeOK, HoldersHaveJobs, [Next]_vars
                 PROVE  HoldersHaveJobs'
    OBVIOUS
  <2>2. ASSUME NEW w \in Workers, PopNextJob(w)
        PROVE  HoldersHaveJobs'
    <3>1. Head(pending_queue) \in Jobs
      BY <2>1, <2>2, ElementsHeadTail DEF TypeOK, PopNextJob
    <3>2. QED
      BY <2>1, <2>2, <3>1 DEF TypeOK, PopNextJob, HoldersHaveJobs
  <2>3. ASSUME NEW w \in Workers, GetNextJob(w) \/ ReportCompletion(w) \/ Crash(w)
        PROVE  HoldersHaveJobs'
    <3>1. /\ pc[w] # "Idle"
          /\ \A v \in Workers \ {w} : pc'[v] = pc[v] /\ job'[v] = job[v]
          /\ pc'[w] = "Idle" \/ job'[w] = job[w]
      BY <2>1, <2>3 DEF TypeOK, GetNextJob, Crash, ReportCompletion, ReportStatus, ReportRemove,
                        ReportInsert, ReportSnapshot, ReportRead, ReportRequeue
    <3>2. QED
      BY <2>1, <3>1 DEF HoldersHaveJobs
  <2>4. CASE UNCHANGED <<pc, job>>
    BY <2>1, <2>4 DEF HoldersHaveJobs
  <2>5. ASSUME NEW c \in Calls, ScheduleJobs(c)
        PROVE  UNCHANGED <<pc, job>>
    BY <2>5 DEF ScheduleJobs, InsertJob, ReadNewJobs, QueueNewJobs, worker
  <2>6. QED
    BY <2>1, <2>2, <2>3, <2>4, <2>5 DEF Next, WorkerLoop, vars, worker
<1>4. QED
  BY <1>1, <1>2, <1>3, PTL DEF Spec

-----------------------------------------------------------------------------
(* How a step changes the jobs that are known and those that are started *)

(* The loop of schedule_jobs puts a new job into the store with all of its  *)
(* edges, and starts nothing: the groups come in order, so what the filter  *)
(* by the jobs created so far keeps is everything.                          *)
LEMMA InsertJobEffect ==
  ASSUME TypeOK, Bookkeeping, NEW c \in Calls, NEW j \in Jobs, InsertJob(c, j)
  PROVE  /\ j \notin Known
         /\ Known' = Known \cup {j}
         /\ Started' = Started
         /\ dependencies' = [dependencies EXCEPT ![j] = Deps[j]]
         /\ Elements(all_jobs[c])' = Elements(all_jobs[c]) \cup {j}
<1>1. j \in JobsOf(c) /\ j \notin Elements(all_jobs[c])
  BY DEF InsertJob, JobsOf
<1>2. j \notin Known
  BY <1>1 DEF Bookkeeping
<1>3. status' = [status EXCEPT ![j] = "Pending"] /\ status \in [Jobs -> Statuses]
  BY DEF InsertJob, TypeOK
<1>4. Known' = Known \cup {j}
  BY <1>3 DEF Known
<1>5. Started' = Started
  BY <1>2, <1>3 DEF Started, Known
<1>6. Deps[j] \subseteq Elements(all_jobs[c])
  <2>1. SUFFICES ASSUME NEW d \in Deps[j], d \notin Elements(all_jobs[c])
                 PROVE  FALSE
    OBVIOUS
  <2>2. d \in Jobs /\ CallOf[d] = c /\ Level[d] < Level[j]
    BY ConstantsAssumption, GroupsRespectEdges DEF InsertJob
  <2>3. Level[j] <= Level[d]
    BY <2>1, <2>2 DEF InsertJob, JobsOf
  <2>4. QED
    BY <2>2, <2>3, ConstantsAssumption
<1>7. dependencies' = [dependencies EXCEPT ![j] = Deps[j]]
  BY <1>6 DEF InsertJob
<1>8. Elements(all_jobs[c])' = Elements(all_jobs[c]) \cup {j}
  <2>1. all_jobs[c]' = Append(all_jobs[c], j) /\ all_jobs[c] \in Seq(Jobs)
    BY DEF InsertJob, TypeOK
  <2>2. Elements(all_jobs[c]') = Elements(all_jobs[c]) \cup {j}
    BY <2>1, ElementsAppend
  <2>3. QED
    BY <2>2 DEF Elements
<1>9. QED
  BY <1>2, <1>4, <1>5, <1>7, <1>8

(* get_next_job takes a job off the queue, but it stays queued until it is  *)
(* handed out.                                                              *)
LEMMA PopNextJobEffect ==
  ASSUME TypeOK, NEW w \in Workers, PopNextJob(w)
  PROVE  /\ Queued' = Queued
         /\ Known' = Known
         /\ Started' = Started
         /\ job'[w] \in Elements(pending_queue)
<1> DEFINE j == Head(pending_queue)
<1>1. pending_queue \in Seq(Jobs) /\ pending_queue # <<>> /\ pending_queue' = Tail(pending_queue)
  BY DEF TypeOK, PopNextJob
<1>2. Elements(pending_queue) = {j} \cup Elements(pending_queue')
  BY <1>1, ElementsHeadTail
<1>3. /\ job' = [job EXCEPT ![w] = j]
      /\ pc' = [pc EXCEPT ![w] = "Dispatch"]
      /\ \A v \in Workers : pc[v] # "Dispatch"
      /\ pc \in [Workers -> Phases] /\ job \in [Workers -> Jobs \cup {NoJob}]
  BY DEF PopNextJob, QueueIsHeld, TypeOK
<1>4. {v \in Workers : pc'[v] = "Dispatch"} = {w}
  BY <1>3
<1>5. {job'[v] : v \in {v \in Workers : pc'[v] = "Dispatch"}} = {j}
  BY <1>3, <1>4
<1>6. {job[v] : v \in {v \in Workers : pc[v] = "Dispatch"}} = {}
  BY <1>3
<1>7. Queued' = Elements(pending_queue') \cup {j}
  BY <1>5 DEF Queued, Elements
<1>8. Queued = Elements(pending_queue)
  BY <1>6 DEF Queued
<1>9. Known' = Known /\ Started' = Started
  BY DEF PopNextJob, store, Known, Started
<1>10. job'[w] = j
  BY <1>3
<1>11. QED
  BY <1>2, <1>7, <1>8, <1>9, <1>10

(* get_next_job hands out a job of the store: it is started, and held.      *)
LEMMA GetNextJobEffect ==
  ASSUME TypeOK, Bookkeeping, NEW w \in Workers, GetNextJob(w)
  PROVE  /\ job[w] \in Queued \cap Known
         /\ Known' = Known
         /\ Started' = Started \cup {job[w]}
         /\ status' = [status EXCEPT ![job[w]] = "Compiling"]
         /\ Queued \subseteq {job[w]} \cup Queued'
         /\ Queued' \subseteq Queued
<1>1. job[w] \in Queued /\ job[w] \in Known
  BY DEF GetNextJob, Queued, Bookkeeping
<1>2. /\ status' = [status EXCEPT ![job[w]] = "Compiling"]
      /\ status \in [Jobs -> Statuses] /\ job[w] \in Jobs
  BY <1>1 DEF GetNextJob, TypeOK, Known
<1>3. Known' = Known /\ Started' = Started \cup {job[w]}
  BY <1>1, <1>2 DEF Known, Started
<1>4. \A v \in Workers : pc'[v] = "Dispatch" <=> (pc[v] = "Dispatch" /\ v # w)
  BY DEF GetNextJob, TypeOK
<1>5. job' = job /\ Elements(pending_queue') = Elements(pending_queue)
  BY DEF GetNextJob
<1>6. Queued \subseteq {job[w]} \cup Queued' /\ Queued' \subseteq Queued
  BY <1>4, <1>5 DEF Queued, Elements
<1>7. QED
  BY <1>1, <1>2, <1>3, <1>6

(* Every other step but an append leaves what is queued as it was.          *)
LEMMA QueuedStays ==
  ASSUME TypeOK, pending_queue' = pending_queue, job' = job,
         \A v \in Workers : pc'[v] = "Dispatch" <=> pc[v] = "Dispatch"
  PROVE  Queued' = Queued
BY DEF Queued, Elements

(* A report settles the job its worker holds, and no other; that job was    *)
(* started before.                                                          *)
LEMMA ReportStatusEffect ==
  ASSUME TypeOK, Bookkeeping, NEW w \in Workers, ReportStatus(w)
  PROVE  /\ Known' = Known
         /\ Started' = Started
         /\ job[w] \in Started
         /\ status'[job[w]] \in {"Completed", "Failed"}
         /\ \A j \in Jobs \ {job[w]} : status'[j] = status[j]
<1>1. job[w] \in Started
  BY DEF ReportStatus, Bookkeeping
<1>2. PICK ok \in BOOLEAN : status' = [status EXCEPT ![job[w]] = IF ok THEN "Completed" ELSE "Failed"]
  BY DEF ReportStatus
<1>3. status \in [Jobs -> Statuses] /\ job[w] \in Jobs
  BY <1>1 DEF TypeOK, Started
<1>4. /\ status'[job[w]] \in {"Completed", "Failed"}
      /\ \A j \in Jobs \ {job[w]} : status'[j] = status[j]
  BY <1>2, <1>3
<1>5. Known' = Known
  BY <1>1, <1>3, <1>4 DEF Known, Started
<1>6. Started' = Started
  BY <1>1, <1>3, <1>4 DEF Started
<1>7. QED
  BY <1>1, <1>4, <1>5, <1>6

(* queue_ready_jobs adds only jobs that are in the store. *)
LEMMA ReadyEffect ==
  ASSUME TypeOK, NEW S \in SUBSET Jobs, NEW q \in QueueOrders(Ready(S)),
         pending_queue' = pending_queue \o q,
         \A v \in Workers : /\ pc'[v] = "Dispatch" <=> pc[v] = "Dispatch"
                            /\ pc[v] = "Dispatch" => job'[v] = job[v]
  PROVE  /\ Queued' = Queued \cup Ready(S)
         /\ Ready(S) \subseteq Known
<1>1. Ready(S) \in SUBSET Jobs /\ Ready(S) \subseteq Known
  BY DEF Ready, Known
<1>2. q \in Seq(Jobs) /\ Elements(q) = Ready(S)
  BY <1>1, QueueOrdersType
<1>3. Elements(pending_queue \o q) = Elements(pending_queue) \cup Ready(S)
  BY <1>2, ElementsConcat DEF TypeOK
<1>4. {job'[v] : v \in {v \in Workers : pc'[v] = "Dispatch"}}
        = {job[v] : v \in {v \in Workers : pc[v] = "Dispatch"}}
  OBVIOUS
<1>5. QED
  BY <1>1, <1>3, <1>4 DEF Queued, Elements

(* The report's append, whose worker is not in get_next_job. *)
LEMMA ReportRequeueEffect ==
  ASSUME TypeOK, NEW w \in Workers, ReportRequeue(w)
  PROVE  /\ Queued' = Queued \cup Ready(snapshot[w])
         /\ Ready(snapshot[w]) \subseteq Known
<1>1. PICK q \in QueueOrders(Ready(snapshot[w])) : pending_queue' = pending_queue \o q
  BY DEF ReportRequeue
<1>2. \A v \in Workers : /\ pc'[v] = "Dispatch" <=> pc[v] = "Dispatch"
                         /\ pc[v] = "Dispatch" => job'[v] = job[v]
  BY DEF ReportRequeue, TypeOK
<1>3. snapshot[w] \in SUBSET Jobs
  BY DEF TypeOK
<1>4. QED
  BY <1>1, <1>2, <1>3, ReadyEffect

(* The append of schedule_jobs. *)
LEMMA QueueNewJobsEffect ==
  ASSUME TypeOK, NEW c \in Calls, QueueNewJobs(c)
  PROVE  /\ Queued' = Queued \cup Ready(JobsOf(c))
         /\ Ready(JobsOf(c)) \subseteq Known
<1>1. PICK q \in QueueOrders(Ready(JobsOf(c))) : pending_queue' = pending_queue \o q
  BY DEF QueueNewJobs
<1>2. pc' = pc /\ job' = job
  BY DEF QueueNewJobs, worker
<1>3. JobsOf(c) \in SUBSET Jobs
  BY DEF JobsOf
<1>4. QED
  BY <1>1, <1>2, <1>3, ReadyEffect

-----------------------------------------------------------------------------
(* Bookkeeping *)

(* For every graph, the job store, the calls' own lists, the queue and the  *)
(* workers agree with each other, and no edge of the graph is dropped when  *)
(* schedule_jobs filters a node's dependencies by the jobs it has created.  *)
THEOREM BookkeepingCorrect == Spec => []Bookkeeping
<1>1. Init => Bookkeeping
  <2>1. SUFFICES ASSUME Init PROVE Bookkeeping
    OBVIOUS
  <2>2. Known = {}
    BY <2>1 DEF Init, Known
  <2>3. \A c \in Calls : Elements(all_jobs[c]) = {}
    BY <2>1 DEF Init, Elements
  <2>4. Queued = {}
    BY <2>1 DEF Init, Elements, Queued
  <2>5. QED
    BY <2>1, <2>2, <2>3, <2>4 DEF Init, Bookkeeping
<1>2. TypeOK /\ Bookkeeping /\ [Next]_vars => Bookkeeping'
  <2>1. SUFFICES ASSUME TypeOK, Bookkeeping, [Next]_vars
                 PROVE  Bookkeeping'
    OBVIOUS
  <2>2. ASSUME NEW c \in Calls, NEW j \in Jobs, InsertJob(c, j)
        PROVE  Bookkeeping'
    <3>1. /\ j \notin Known
          /\ Known' = Known \cup {j}
          /\ Started' = Started
          /\ dependencies' = [dependencies EXCEPT ![j] = Deps[j]]
          /\ Elements(all_jobs[c])' = Elements(all_jobs[c]) \cup {j}
      BY <2>1, <2>2, InsertJobEffect
    <3>2. /\ CallOf[j] = c
          /\ all_jobs' = [all_jobs EXCEPT ![c] = Append(@, j)]
          /\ UNCHANGED <<pending_queue, appending, scheduled, pc, job>>
      BY <2>2 DEF InsertJob, worker
    <3>3. \A b \in Calls : Elements(all_jobs[b])' = Known' \cap JobsOf(b)
      <4>1. TAKE b \in Calls
      <4>2. CASE b = c
        BY <2>1, <3>1, <3>2, <4>2 DEF Bookkeeping, JobsOf
      <4>3. CASE b # c
        <5>1. Elements(all_jobs[b])' = Elements(all_jobs[b]) /\ j \notin JobsOf(b)
          BY <2>1, <3>2, <4>3 DEF TypeOK, Elements, JobsOf
        <5>2. QED
          BY <2>1, <3>1, <5>1 DEF Bookkeeping
      <4>4. QED
        BY <4>2, <4>3
    <3>4. \A b \in scheduled' \cup appending' : JobsOf(b) \subseteq Known'
      BY <2>1, <3>1, <3>2 DEF Bookkeeping
    <3>5. \A k \in Known' : dependencies'[k] = Deps[k]
      BY <2>1, <3>1 DEF Bookkeeping, TypeOK
    <3>6. Queued' \subseteq Known'
      BY <2>1, <3>1, <3>2, QueuedStays DEF Bookkeeping
    <3>7. \A w \in Workers : pc'[w] \notin {"Idle", "Dispatch"} => job'[w] \in Started'
      BY <2>1, <3>1, <3>2 DEF Bookkeeping
    <3>8. QED
      BY <3>3, <3>4, <3>5, <3>6, <3>7 DEF Bookkeeping, JobsOf
  <2>3. ASSUME NEW c \in Calls, QueueNewJobs(c)
        PROVE  Bookkeeping'
    <3>1. Queued' \subseteq Known
      BY <2>1, <2>3, QueueNewJobsEffect DEF Bookkeeping
    <3>2. Known' = Known /\ Started' = Started
      BY <2>3 DEF QueueNewJobs, store, Known, Started
    <3>3. c \in appending /\ scheduled' \cup appending' \subseteq scheduled \cup appending
      BY <2>3 DEF QueueNewJobs
    <3>4. QED
      BY <2>1, <2>3, <3>1, <3>2, <3>3 DEF QueueNewJobs, Bookkeeping, store, worker, Elements, JobsOf
  <2>4. ASSUME NEW c \in Calls, ReadNewJobs(c)
        PROVE  Bookkeeping'
    <3>1. /\ appending' = appending \cup {c}
          /\ UNCHANGED <<store, pending_queue, all_jobs, scheduled, pc, job>>
      BY <2>4 DEF ReadNewJobs, worker
    <3>2. JobsOf(c) \subseteq Known
      BY <2>1, <2>4 DEF ReadNewJobs, Bookkeeping
    <3>3. Queued' = Queued /\ Known' = Known /\ Started' = Started
      BY <2>1, <3>1, QueuedStays DEF store, Known, Started
    <3>4. QED
      BY <2>1, <3>1, <3>2, <3>3 DEF Bookkeeping, store, Elements, JobsOf
  <2>5. ASSUME NEW w \in Workers, PopNextJob(w)
        PROVE  Bookkeeping'
    <3>1. Queued' = Queued /\ Known' = Known /\ Started' = Started
      BY <2>1, <2>5, PopNextJobEffect
    <3>2. \A v \in Workers : pc'[v] \notin {"Idle", "Dispatch"} =>
            pc[v] \notin {"Idle", "Dispatch"} /\ job'[v] = job[v]
      BY <2>1, <2>5 DEF PopNextJob, TypeOK
    <3>3. QED
      BY <2>1, <2>5, <3>1, <3>2 DEF Bookkeeping, PopNextJob, planner, store, Elements, JobsOf
  <2>6. ASSUME NEW w \in Workers, GetNextJob(w)
        PROVE  Bookkeeping'
    <3>1. /\ Known' = Known
          /\ Started' = Started \cup {job[w]}
          /\ Queued' \subseteq Queued
      BY <2>1, <2>6, GetNextJobEffect
    <3>2. \A v \in Workers : pc'[v] \notin {"Idle", "Dispatch"} => job'[v] \in Started'
      BY <2>1, <2>6, <3>1 DEF Bookkeeping, GetNextJob, TypeOK
    <3>3. QED
      BY <2>1, <2>6, <3>1, <3>2 DEF Bookkeeping, GetNextJob, planner, Elements, JobsOf
  <2>7. ASSUME NEW w \in Workers, ReportStatus(w)
        PROVE  Bookkeeping'
    <3>1. Known' = Known /\ Started' = Started
      BY <2>1, <2>7, ReportStatusEffect
    <3>2. \A v \in Workers : pc'[v] \notin {"Idle", "Dispatch"} => job'[v] \in Started'
      BY <2>1, <2>7, <3>1 DEF Bookkeeping, ReportStatus, TypeOK
    <3>3. Queued' = Queued
      BY <2>1, <2>7, QueuedStays DEF ReportStatus, TypeOK
    <3>4. QED
      BY <2>1, <2>7, <3>1, <3>2, <3>3 DEF Bookkeeping, ReportStatus, planner, Elements, JobsOf
  <2>8. ASSUME NEW w \in Workers,
               ReportRemove(w) \/ ReportInsert(w) \/ ReportSnapshot(w) \/ ReportRead(w) \/ Crash(w)
        PROVE  Bookkeeping'
    <3>1. /\ UNCHANGED <<store, pending_queue, planner>>
          /\ \A v \in Workers : pc'[v] \notin {"Idle", "Dispatch"} =>
               pc[v] \notin {"Idle", "Dispatch"} /\ job'[v] = job[v]
          /\ \A v \in Workers : /\ pc'[v] = "Dispatch" <=> pc[v] = "Dispatch"
                                /\ pc[v] = "Dispatch" => job'[v] = job[v]
      BY <2>1, <2>8 DEF ReportRemove, ReportInsert, ReportSnapshot, ReportRead, Crash, TypeOK
    <3>2. Queued' = Queued
      BY <3>1 DEF Queued, Elements
    <3>3. QED
      BY <2>1, <3>1, <3>2 DEF Bookkeeping, store, planner, Known, Started, Elements, JobsOf
  <2>9. ASSUME NEW w \in Workers, ReportRequeue(w)
        PROVE  Bookkeeping'
    <3>1. Queued' \subseteq Known
      BY <2>1, <2>9, ReportRequeueEffect DEF Bookkeeping
    <3>2. Known' = Known /\ Started' = Started
      BY <2>9 DEF ReportRequeue, store, Known, Started
    <3>3. \A v \in Workers : pc'[v] \notin {"Idle", "Dispatch"} =>
            pc[v] \notin {"Idle", "Dispatch"} /\ job'[v] = job[v]
      BY <2>1, <2>9 DEF ReportRequeue, TypeOK
    <3>4. QED
      BY <2>1, <2>9, <3>1, <3>2, <3>3 DEF ReportRequeue, Bookkeeping, store, planner, Elements, JobsOf
  <2>10. CASE UNCHANGED vars
    <3>1. Queued' = Queued
      BY <2>1, <2>10, QueuedStays DEF vars, worker
    <3>2. QED
      BY <2>1, <2>10, <3>1 DEF Bookkeeping, vars, store, planner, worker, Known, Started, Elements, JobsOf
  <2>11. QED
    BY <2>1, <2>2, <2>3, <2>4, <2>5, <2>6, <2>7, <2>8, <2>9, <2>10
       DEF Next, ScheduleJobs, WorkerLoop, ReportCompletion
<1>3. QED
  BY <1>1, <1>2, TypeCorrect, PTL DEF Spec

-----------------------------------------------------------------------------
(* The order of the graph *)

(* completed_jobs only grows. *)
LEMMA ResultsPersist ==
  ASSUME TypeOK, [Next]_vars
  PROVE  \A j \in Jobs : HasResult(j) => HasResult(j)'
<1>1. CASE completed_jobs' = completed_jobs
  BY <1>1 DEF HasResult
<1>2. ASSUME NEW w \in Workers, ReportInsert(w)
      PROVE  \A j \in Jobs : HasResult(j) => HasResult(j)'
  BY <1>2 DEF ReportInsert, HasResult, TypeOK
<1>3. QED
  BY <1>1, <1>2 DEF Next, ScheduleJobs, WorkerLoop, ReportCompletion, InsertJob, ReadNewJobs,
     QueueNewJobs, PopNextJob, GetNextJob, ReportStatus, ReportRemove, ReportSnapshot, ReportRead,
     ReportRequeue, Crash, vars

(* For every graph, no job is queued or handed to a worker before every     *)
(* node it depends on has a result, whatever the tasks interleave.          *)
THEOREM DependencyOrderCorrect == Spec => []DependencyOrder
<1>1. Init => DependencyOrder
  BY DEF Init, DependencyOrder, Started, Elements, Queued
<1>2. TypeOK /\ Bookkeeping /\ DependencyOrder /\ [Next]_vars => DependencyOrder'
  <2>1. SUFFICES ASSUME TypeOK, Bookkeeping, DependencyOrder, [Next]_vars
                 PROVE  DependencyOrder'
    OBVIOUS
  <2>2. \A j \in Jobs : HasResult(j) => HasResult(j)'
    BY <2>1, ResultsPersist
  <2>3. SUFFICES Started' \cup Queued' \subseteq Started \cup Queued
                                    \cup {j \in Jobs : \A d \in Deps[j] : HasResult(d)}
    <3>1. \A j \in Jobs : Deps[j] \subseteq Jobs
      BY ConstantsAssumption
    <3>2. Started \subseteq Jobs /\ Queued \subseteq Jobs
      BY <2>1 DEF Started, Bookkeeping, Known
    <3>3. SUFFICES ASSUME NEW j \in Started' \cup Queued', NEW d \in Deps[j]
                   PROVE  HasResult(d)'
      BY DEF DependencyOrder
    <3>4. j \in Jobs /\ HasResult(d)
      BY <2>1, <2>3, <3>2, <3>3 DEF DependencyOrder
    <3>5. QED
      BY <2>2, <3>1, <3>3, <3>4
  <2>4. \A S \in SUBSET Jobs : Ready(S) \subseteq {j \in Jobs : \A d \in Deps[j] : HasResult(d)}
    BY <2>1 DEF Ready, Bookkeeping, Known
  <2>5. ASSUME NEW c \in Calls, NEW j \in Jobs, InsertJob(c, j)
        PROVE  Started' = Started /\ Queued' = Queued
    BY <2>1, <2>5, InsertJobEffect, QueuedStays DEF InsertJob, worker
  <2>6. ASSUME NEW c \in Calls, QueueNewJobs(c)
        PROVE  /\ Started' = Started
               /\ Queued' = Queued \cup Ready(JobsOf(c))
               /\ JobsOf(c) \in SUBSET Jobs
    BY <2>1, <2>6, QueueNewJobsEffect DEF QueueNewJobs, store, Started, JobsOf
  <2>7. ASSUME NEW c \in Calls, ReadNewJobs(c)
        PROVE  Started' = Started /\ Queued' = Queued
    BY <2>1, <2>7, QueuedStays DEF ReadNewJobs, store, worker, Started
  <2>8. ASSUME NEW w \in Workers, PopNextJob(w)
        PROVE  Started' = Started /\ Queued' = Queued
    BY <2>1, <2>8, PopNextJobEffect
  <2>9. ASSUME NEW w \in Workers, GetNextJob(w)
        PROVE  Started' \cup Queued' \subseteq Started \cup Queued
    BY <2>1, <2>9, GetNextJobEffect
  <2>10. ASSUME NEW w \in Workers, ReportStatus(w)
         PROVE  Started' = Started /\ Queued' = Queued
    BY <2>1, <2>10, ReportStatusEffect, QueuedStays DEF ReportStatus, TypeOK
  <2>11. ASSUME NEW w \in Workers,
                ReportRemove(w) \/ ReportInsert(w) \/ ReportSnapshot(w) \/ ReportRead(w) \/ Crash(w)
         PROVE  Started' = Started /\ Queued' = Queued
    <3>1. /\ status' = status /\ pending_queue' = pending_queue
          /\ \A v \in Workers : /\ pc'[v] = "Dispatch" <=> pc[v] = "Dispatch"
                                /\ pc[v] = "Dispatch" => job'[v] = job[v]
      BY <2>1, <2>11 DEF ReportRemove, ReportInsert, ReportSnapshot, ReportRead, Crash, store, TypeOK
    <3>2. QED
      BY <3>1 DEF Queued, Elements, Started
  <2>12. ASSUME NEW w \in Workers, ReportRequeue(w)
         PROVE  /\ Started' = Started
                /\ Queued' = Queued \cup Ready(snapshot[w])
                /\ snapshot[w] \in SUBSET Jobs
    BY <2>1, <2>12, ReportRequeueEffect DEF ReportRequeue, store, Started, TypeOK
  <2>13. CASE UNCHANGED vars
    BY <2>1, <2>13, QueuedStays DEF vars, store, worker, Started
  <2>14. QED
    BY <2>1, <2>4, <2>5, <2>6, <2>7, <2>8, <2>9, <2>10, <2>11, <2>12, <2>13
       DEF Next, ScheduleJobs, WorkerLoop, ReportCompletion
<1>3. QED
  BY <1>1, <1>2, TypeCorrect, BookkeepingCorrect, PTL DEF Spec

-----------------------------------------------------------------------------
(* No ready job is forgotten *)

(* Whatever the graph and however schedule_jobs calls and reports           *)
(* interleave, a job that could run is queued or someone is about to queue  *)
(* it: a report stores its result before it copies the keys, and a call of  *)
(* schedule_jobs checks the results after it has inserted every job.        *)
THEOREM NoLostJobCorrect == Spec => []NoLostJob
<1> DEFINE Coming(j)  == \E w \in Workers :
                           pc[w] = "Snapshot" \/ (pc[w] \in {"Requeue", "Append"} /\ j \in snapshot[w])
           Carried(j) == j \in Queued \/ CallOf[j] \notin scheduled \/ Coming(j)
<1>1. Init => NoLostJob
  BY DEF Init, NoLostJob, Ready
<1>2. TypeOK /\ Bookkeeping /\ NoLostJob /\ [Next]_vars => NoLostJob'
  <2>1. SUFFICES ASSUME TypeOK, Bookkeeping, NoLostJob, [Next]_vars,
                        NEW j \in Ready(Jobs)'
                 PROVE  Carried(j)'
    BY DEF NoLostJob
  <2>2. j \in Jobs /\ status'[j] = "Pending" /\ \A d \in dependencies'[j] : HasResult(d)'
    BY <2>1 DEF Ready
  <2>3. j \in Ready(Jobs) => Carried(j)
    BY <2>1 DEF NoLostJob
  <2>4. ASSUME status'[j] = status[j], dependencies' = dependencies, completed_jobs' = completed_jobs
        PROVE  j \in Ready(Jobs) /\ Carried(j)
    BY <2>2, <2>3, <2>4 DEF Ready, HasResult
  <2>5. ASSUME NEW c \in Calls, NEW k \in Jobs, InsertJob(c, k)
        PROVE  Carried(j)'
    <3>1. k \notin Known /\ dependencies' = [dependencies EXCEPT ![k] = Deps[k]]
      BY <2>1, <2>5, InsertJobEffect
    <3>2. /\ CallOf[k] = c /\ status' = [status EXCEPT ![k] = "Pending"]
          /\ UNCHANGED <<pending_queue, completed_jobs, scheduled, pc, job, snapshot>>
      BY <2>5 DEF InsertJob, worker
    <3>3. CASE j = k
      <4>1. CallOf[j] \notin scheduled
        BY <2>1, <2>2, <3>1, <3>2, <3>3 DEF Bookkeeping, JobsOf
      <4>2. QED
        BY <3>2, <4>1
    <3>4. CASE j # k
      <4>1. j \in Ready(Jobs)
        BY <2>1, <2>2, <3>1, <3>2, <3>4 DEF Ready, HasResult, TypeOK
      <4>2. Queued' = Queued
        BY <2>1, <3>2, QueuedStays
      <4>3. QED
        BY <2>3, <3>2, <4>1, <4>2
    <3>5. QED
      BY <3>3, <3>4
  <2>6. ASSUME NEW c \in Calls, QueueNewJobs(c)
        PROVE  Carried(j)'
    <3>1. Queued' = Queued \cup Ready(JobsOf(c))
      BY <2>1, <2>6, QueueNewJobsEffect
    <3>2. /\ scheduled' = scheduled \cup {c}
          /\ UNCHANGED <<status, dependencies, completed_jobs, pc, snapshot>>
      BY <2>6 DEF QueueNewJobs, store, worker
    <3>3. j \in Ready(Jobs) /\ Carried(j)
      BY <2>4, <3>2
    <3>4. CASE CallOf[j] = c
      BY <2>2, <3>1, <3>3, <3>4 DEF Ready, JobsOf
    <3>5. CASE CallOf[j] # c
      BY <3>1, <3>2, <3>3, <3>5
    <3>6. QED
      BY <3>4, <3>5
  <2>7. ASSUME NEW w \in Workers, PopNextJob(w)
        PROVE  Carried(j)'
    <3>1. Queued' = Queued
      BY <2>1, <2>7, PopNextJobEffect
    <3>2. /\ UNCHANGED <<status, dependencies, completed_jobs, scheduled, snapshot>>
          /\ \A v \in Workers : pc[v] # "Idle" => pc'[v] = pc[v]
      BY <2>1, <2>7 DEF PopNextJob, planner, store, TypeOK
    <3>3. Coming(j) => Coming(j)'
      BY <3>2
    <3>4. QED
      BY <2>4, <3>1, <3>2, <3>3
  <2>8. ASSUME NEW w \in Workers, GetNextJob(w)
        PROVE  Carried(j)'
    <3>1. /\ status' = [status EXCEPT ![job[w]] = "Compiling"]
          /\ Queued \subseteq {job[w]} \cup Queued'
          /\ job[w] \in Known
      BY <2>1, <2>8, GetNextJobEffect
    <3>2. /\ UNCHANGED <<dependencies, completed_jobs, scheduled, snapshot>>
          /\ \A v \in Workers : pc[v] # "Dispatch" => pc'[v] = pc[v]
      BY <2>1, <2>8 DEF GetNextJob, planner, TypeOK
    <3>3. j # job[w] /\ status'[j] = status[j]
      BY <2>1, <2>2, <3>1 DEF TypeOK, Known
    <3>4. Coming(j) => Coming(j)'
      BY <3>2
    <3>5. QED
      BY <2>4, <3>1, <3>2, <3>3, <3>4
  <2>9. ASSUME NEW w \in Workers,
               ReportStatus(w) \/ ReportRemove(w) \/ ReportRead(w) \/ Crash(w)
        PROVE  Carried(j)'
    <3>1. /\ UNCHANGED <<pending_queue, dependencies, completed_jobs, scheduled, snapshot>>
          /\ \A v \in Workers : /\ pc[v] = "Snapshot" => pc'[v] = pc[v]
                                /\ pc[v] \in {"Requeue", "Append"} => pc'[v] \in {"Requeue", "Append"}
                                /\ pc'[v] = "Dispatch" <=> pc[v] = "Dispatch"
                                /\ pc[v] = "Dispatch" => job'[v] = job[v]
      BY <2>1, <2>9 DEF ReportStatus, ReportRemove, ReportRead, Crash, store, planner, TypeOK
    <3>2. status'[j] = status[j]
      <4>1. CASE ReportStatus(w)
        BY <2>1, <2>2, <4>1, ReportStatusEffect DEF Started
      <4>2. CASE ReportRemove(w) \/ ReportRead(w) \/ Crash(w)
        BY <4>2 DEF ReportRemove, ReportRead, Crash, store
      <4>3. QED
        BY <2>9, <4>1, <4>2
    <3>3. Queued' = Queued
      BY <3>1 DEF Queued, Elements
    <3>4. Coming(j) => Coming(j)'
      BY <3>1
    <3>5. QED
      BY <2>4, <3>1, <3>2, <3>3, <3>4
  <2>10. ASSUME NEW w \in Workers, ReportInsert(w)
         PROVE  Carried(j)'
    BY <2>1, <2>10 DEF ReportInsert, TypeOK
  <2>11. ASSUME NEW w \in Workers, ReportSnapshot(w)
         PROVE  Carried(j)'
    <3>1. j \in Known
      BY <2>2, <2>11 DEF ReportSnapshot, store, Known
    <3>2. pc'[w] = "Requeue" /\ j \in snapshot'[w]
      BY <2>1, <2>11, <3>1 DEF ReportSnapshot, TypeOK
    <3>3. QED
      BY <3>2
  <2>12. ASSUME NEW w \in Workers, ReportRequeue(w)
         PROVE  Carried(j)'
    <3>1. Queued' = Queued \cup Ready(snapshot[w])
      BY <2>1, <2>12, ReportRequeueEffect
    <3>2. /\ UNCHANGED <<status, dependencies, completed_jobs, scheduled>>
          /\ pc[w] = "Append"
          /\ \A v \in Workers \ {w} : pc'[v] = pc[v] /\ snapshot'[v] = snapshot[v]
      BY <2>1, <2>12 DEF ReportRequeue, store, planner, TypeOK
    <3>3. j \in Ready(Jobs) /\ Carried(j)
      BY <2>4, <3>2
    <3>4. CASE j \in snapshot[w]
      BY <3>1, <3>3, <3>4 DEF Ready
    <3>5. CASE j \notin snapshot[w]
      <4>1. Coming(j) => Coming(j)'
        <5>1. SUFFICES ASSUME NEW v \in Workers,
                              pc[v] = "Snapshot" \/ (pc[v] \in {"Requeue", "Append"} /\ j \in snapshot[v])
                       PROVE  Coming(j)'
          OBVIOUS
        <5>2. v # w
          BY <3>2, <3>5, <5>1
        <5>3. QED
          BY <3>2, <5>1, <5>2
      <4>2. QED
        BY <3>1, <3>2, <3>3, <4>1
    <3>6. QED
      BY <3>4, <3>5
  <2>13. ASSUME NEW c \in Calls, ReadNewJobs(c)
         PROVE  Carried(j)'
    <3>1. UNCHANGED <<status, dependencies, completed_jobs, pending_queue, scheduled, pc, job, snapshot>>
      BY <2>13 DEF ReadNewJobs, store, worker
    <3>2. QED
      BY <2>1, <2>4, <3>1, QueuedStays
  <2>14. CASE UNCHANGED vars
    <3>1. UNCHANGED <<status, dependencies, completed_jobs, pending_queue, scheduled, pc, job, snapshot>>
      BY <2>14 DEF vars, store, planner, worker
    <3>2. QED
      BY <2>1, <2>4, <3>1, QueuedStays
  <2>15. QED
    BY <2>1, <2>5, <2>6, <2>7, <2>8, <2>9, <2>10, <2>11, <2>12, <2>13, <2>14
       DEF Next, ScheduleJobs, WorkerLoop, ReportCompletion
<1>3. QED
  BY <1>1, <1>2, TypeCorrect, BookkeepingCorrect, PTL DEF Spec

-----------------------------------------------------------------------------
(* Who holds a job *)

(* After every step a settled job has its result, or a report is between    *)
(* setting the status and storing the result, however often the job was     *)
(* handed out: a caller that sees the project complete and waits for the    *)
(* reports in flight misses no result.                                      *)
THEOREM SettledJobsHaveResultCorrect == Spec => []SettledJobsHaveResult
<1> DEFINE Settled(j) == status[j] \in {"Completed", "Failed"}
           Stored(j)  == \/ HasResult(j)
                         \/ \E w \in Workers : pc[w] \in {"Remove", "Insert"} /\ job[w] = j
<1>1. Init => SettledJobsHaveResult
  BY DEF Init, SettledJobsHaveResult
<1>2. TypeOK /\ Bookkeeping /\ SettledJobsHaveResult /\ [Next]_vars => SettledJobsHaveResult'
  <2>1. SUFFICES ASSUME TypeOK, Bookkeeping, SettledJobsHaveResult, [Next]_vars,
                        NEW j \in Jobs, Settled(j)'
                 PROVE  Stored(j)'
    BY DEF SettledJobsHaveResult
  <2>2. Settled(j) => Stored(j)
    BY <2>1 DEF SettledJobsHaveResult
  <2>3. HasResult(j) => HasResult(j)'
    BY <2>1, ResultsPersist
  <2>4. ASSUME UNCHANGED <<pc, job>>, status'[j] = status[j]
        PROVE  Stored(j)'
    BY <2>1, <2>2, <2>3, <2>4
  <2>5. ASSUME NEW c \in Calls, ScheduleJobs(c)
        PROVE  Stored(j)'
    <3>1. UNCHANGED <<pc, job>> /\ (status'[j] = status[j] \/ status'[j] = "Pending")
      BY <2>1, <2>5 DEF ScheduleJobs, InsertJob, ReadNewJobs, QueueNewJobs, worker, store, TypeOK
    <3>2. QED
      BY <2>1, <2>4, <3>1
  <2>6. ASSUME NEW w \in Workers, PopNextJob(w) \/ GetNextJob(w)
        PROVE  Stored(j)'
    <3>1. Settled(j)
      BY <2>1, <2>6 DEF PopNextJob, GetNextJob, store, TypeOK
    <3>2. \A v \in Workers : pc[v] \in {"Remove", "Insert"} => pc'[v] = pc[v] /\ job'[v] = job[v]
      BY <2>1, <2>6 DEF PopNextJob, GetNextJob, TypeOK
    <3>3. QED
      BY <2>2, <2>3, <3>1, <3>2
  <2>7. ASSUME NEW w \in Workers, ReportStatus(w)
        PROVE  Stored(j)'
    <3>1. /\ pc'[w] = "Remove" /\ job' = job
          /\ \A v \in Workers : pc[v] \in {"Remove", "Insert"} => pc'[v] = pc[v]
      BY <2>1, <2>7 DEF ReportStatus, TypeOK
    <3>2. CASE j = job[w]
      BY <3>1, <3>2
    <3>3. CASE j # job[w]
      <4>1. Settled(j)
        BY <2>1, <2>7, <3>3, ReportStatusEffect
      <4>2. QED
        BY <2>2, <2>3, <3>1, <4>1
    <3>4. QED
      BY <3>2, <3>3
  <2>8. ASSUME NEW w \in Workers, ReportInsert(w)
        PROVE  Stored(j)'
    <3>1. /\ status' = status /\ job' = job
          /\ \A v \in Workers \ {w} : pc'[v] = pc[v]
          /\ job[w] = j => HasResult(j)'
      BY <2>1, <2>8 DEF ReportInsert, store, HasResult, TypeOK
    <3>2. QED
      BY <2>1, <2>2, <2>3, <3>1
  <2>9. ASSUME NEW w \in Workers,
               \/ ReportRemove(w) \/ ReportSnapshot(w) \/ ReportRead(w)
               \/ ReportRequeue(w) \/ Crash(w)
        PROVE  Stored(j)'
    <3>1. /\ status' = status
          /\ \A v \in Workers : pc[v] \in {"Remove", "Insert"} =>
               pc'[v] \in {"Remove", "Insert"} /\ job'[v] = job[v]
      BY <2>1, <2>9 DEF ReportRemove, ReportSnapshot, ReportRead, ReportRequeue, Crash, store, TypeOK
    <3>2. QED
      BY <2>1, <2>2, <2>3, <3>1
  <2>10. CASE UNCHANGED vars
    BY <2>4, <2>10 DEF vars, store, worker
  <2>11. QED
    BY <2>1, <2>5, <2>6, <2>7, <2>8, <2>9, <2>10 DEF Next, WorkerLoop, ReportCompletion
<1>3. QED
  BY <1>1, <1>2, TypeCorrect, BookkeepingCorrect, PTL DEF Spec

(* What gather_results returns for a complete project is everything, but    *)
(* for the results that reports in flight are about to store.               *)
THEOREM CompleteMeansGatheredCorrect == Spec => []CompleteMeansGathered
<1>1. SettledJobsHaveResult => CompleteMeansGathered
  <2>1. SUFFICES ASSUME SettledJobsHaveResult,
                        NEW p \in Projects, IsProjectComplete(p),
                        NEW j \in Known, ProjectOf[CallOf[j]] = p
                 PROVE  \/ j \in GatherResults(p)
                        \/ \E w \in Workers : pc[w] \in {"Remove", "Insert"} /\ job[w] = j
    BY DEF CompleteMeansGathered
  <2>2. j \in Jobs /\ status[j] \in {"Completed", "Failed"}
    BY <2>1 DEF IsProjectComplete, Known
  <2>3. QED
    BY <2>1, <2>2 DEF SettledJobsHaveResult, GatherResults
<1>2. QED
  BY <1>1, SettledJobsHaveResultCorrect, PTL

(* As long as no worker is lost, a job that says Compiling is in the hands  *)
(* of a worker, and whatever running_jobs counts is too: handing a job out  *)
(* twice leaves no ghost behind.                                            *)
THEOREM NoGhostsCorrect == Spec => []NoGhosts
<1> DEFINE Inv == CompilingJobsAreHeld /\ RunningJobsAreHeld
<1>1. Init => Inv
  BY DEF Init, CompilingJobsAreHeld, RunningJobsAreHeld
<1>2. TypeOK /\ Bookkeeping /\ Inv /\ [Next]_vars => Inv'
  <2>1. SUFFICES ASSUME TypeOK, Bookkeeping, Inv, [Next]_vars
                 PROVE  Inv'
    OBVIOUS
  <2>2. ASSUME NEW c \in Calls, ScheduleJobs(c)
        PROVE  Inv'
    <3>1. UNCHANGED <<pc, job, running_jobs, crashes>>
      BY <2>2 DEF ScheduleJobs, InsertJob, ReadNewJobs, QueueNewJobs, worker
    <3>2. \A j \in Jobs : status'[j] = status[j] \/ status'[j] = "Pending"
      BY <2>1, <2>2 DEF ScheduleJobs, InsertJob, ReadNewJobs, QueueNewJobs, store, TypeOK
    <3>3. QED
      BY <2>1, <3>1, <3>2 DEF CompilingJobsAreHeld, RunningJobsAreHeld
  <2>3. ASSUME NEW w \in Workers, GetNextJob(w)
        PROVE  Inv'
    <3>1. /\ pc'[w] = "Compiling" /\ job' = job
          /\ \A v \in Workers \ {w} : pc'[v] = pc[v]
          /\ running_jobs' = running_jobs \cup {job[w]}
          /\ status' = [status EXCEPT ![job[w]] = "Compiling"]
          /\ crashes' = crashes /\ pc[w] = "Dispatch"
      BY <2>1, <2>3 DEF GetNextJob, TypeOK
    <3>2. \A j \in Jobs \ {job[w]} : status'[j] = status[j]
      BY <2>1, <3>1 DEF TypeOK
    <3>3. CompilingJobsAreHeld'
      BY <2>1, <3>1, <3>2 DEF CompilingJobsAreHeld
    <3>4. RunningJobsAreHeld'
      BY <2>1, <3>1 DEF RunningJobsAreHeld
    <3>5. QED
      BY <3>3, <3>4
  <2>4. ASSUME NEW w \in Workers, ReportStatus(w)
        PROVE  Inv'
    <3>1. /\ pc[w] = "Compiling" /\ pc'[w] = "Remove" /\ job' = job
          /\ \A v \in Workers \ {w} : pc'[v] = pc[v]
          /\ UNCHANGED <<running_jobs, crashes>>
      BY <2>1, <2>4 DEF ReportStatus, TypeOK
    <3>2. /\ status'[job[w]] # "Compiling"
          /\ \A j \in Jobs \ {job[w]} : status'[j] = status[j]
      BY <2>1, <2>4, ReportStatusEffect
    <3>3. CompilingJobsAreHeld'
      <4>1. SUFFICES ASSUME crashes' = 0, NEW j \in Jobs, status'[j] = "Compiling"
                     PROVE  \E v \in Workers : pc'[v] = "Compiling" /\ job'[v] = j
        BY DEF CompilingJobsAreHeld
      <4>2. j # job[w] /\ status[j] = "Compiling"
        BY <3>2, <4>1
      <4>3. PICK v \in Workers : pc[v] = "Compiling" /\ job[v] = j
        BY <2>1, <3>1, <4>1, <4>2 DEF CompilingJobsAreHeld
      <4>4. QED
        BY <3>1, <4>2, <4>3
    <3>4. RunningJobsAreHeld'
      BY <2>1, <3>1 DEF RunningJobsAreHeld
    <3>5. QED
      BY <3>3, <3>4
  <2>5. ASSUME NEW w \in Workers, ReportRemove(w)
        PROVE  Inv'
    <3>1. /\ pc[w] = "Remove" /\ job' = job /\ status' = status
          /\ \A v \in Workers \ {w} : pc'[v] = pc[v]
          /\ running_jobs' = running_jobs \ {job[w]} /\ crashes' = crashes
      BY <2>1, <2>5 DEF ReportRemove, store, TypeOK
    <3>2. QED
      BY <2>1, <3>1 DEF CompilingJobsAreHeld, RunningJobsAreHeld
  <2>6. ASSUME NEW w \in Workers,
               \/ PopNextJob(w) \/ ReportInsert(w) \/ ReportSnapshot(w)
               \/ ReportRead(w) \/ ReportRequeue(w)
        PROVE  Inv'
    <3>1. /\ pc[w] \in {"Idle", "Insert", "Snapshot", "Requeue", "Append"} /\ status' = status
          /\ \A v \in Workers \ {w} : pc'[v] = pc[v] /\ job'[v] = job[v]
          /\ UNCHANGED <<running_jobs, crashes>>
      BY <2>1, <2>6 DEF PopNextJob, ReportInsert, ReportSnapshot, ReportRead, ReportRequeue, store, TypeOK
    <3>2. QED
      BY <2>1, <3>1 DEF CompilingJobsAreHeld, RunningJobsAreHeld
  <2>7. ASSUME NEW w \in Workers, Crash(w)
        PROVE  Inv'
    <3>1. crashes' = crashes + 1 /\ crashes \in Nat
      BY <2>1, <2>7, ConstantsAssumption DEF Crash, TypeOK
    <3>2. crashes' # 0
      BY <3>1
    <3>3. QED
      BY <3>2 DEF CompilingJobsAreHeld, RunningJobsAreHeld
  <2>8. CASE UNCHANGED vars
    BY <2>1, <2>8 DEF vars, store, worker, CompilingJobsAreHeld, RunningJobsAreHeld
  <2>9. QED
    BY <2>1, <2>2, <2>3, <2>4, <2>5, <2>6, <2>7, <2>8 DEF Next, WorkerLoop, ReportCompletion
<1>3. Inv <=> NoGhosts
  BY DEF NoGhosts
<1>4. QED
  BY <1>1, <1>2, <1>3, TypeCorrect, BookkeepingCorrect, PTL DEF Spec

-----------------------------------------------------------------------------
(* The scheduler implements DependencyExecution *)

(* Every step of the scheduler starts one job whose dependencies are done,  *)
(* or finishes one started job, or is invisible to the abstract             *)
(* specification, for every graph and any number of workers.                *)
THEOREM Refinement == Spec => ImplementsDependencyExecution
<1> DEFINE Done == {j \in Jobs : HasResult(j)}
<1>1. Init => Abstract!Init
  BY DEF Init, Abstract!Init, Started, HasResult
<1>2. TypeOK /\ Bookkeeping /\ DependencyOrder /\ [Next]_vars
        => [Abstract!Next]_<<Started, Done>>
  <2>1. SUFFICES ASSUME TypeOK, Bookkeeping, DependencyOrder, [Next]_vars
                 PROVE  [Abstract!Next]_<<Started, Done>>
    OBVIOUS
  <2>2. ASSUME UNCHANGED completed_jobs, Started' = Started
        PROVE  UNCHANGED <<Started, Done>>
    BY <2>2 DEF HasResult
  <2>3. ASSUME NEW c \in Calls, NEW j \in Jobs, InsertJob(c, j)
        PROVE  UNCHANGED <<Started, Done>>
    <3>1. Started' = Started
      BY <2>1, <2>3, InsertJobEffect
    <3>2. QED
      BY <2>2, <2>3, <3>1 DEF InsertJob
  <2>4. ASSUME NEW c \in Calls, ReadNewJobs(c) \/ QueueNewJobs(c)
        PROVE  UNCHANGED <<Started, Done>>
    BY <2>2, <2>4 DEF ReadNewJobs, QueueNewJobs, store, Started
  <2>5. ASSUME NEW w \in Workers, GetNextJob(w)
        PROVE  Abstract!Next \/ UNCHANGED <<Started, Done>>
    <3> DEFINE j == job[w]
    <3>1. /\ j \in Queued \cap Known
          /\ Started' = Started \cup {j}
      BY <2>1, <2>5, GetNextJobEffect
    <3>2. UNCHANGED Done
      BY <2>5 DEF GetNextJob, HasResult
    <3>3. Deps[j] \subseteq Done /\ j \in Jobs
      BY <2>1, <3>1, ConstantsAssumption DEF DependencyOrder, Known
    <3>4. CASE j \in Started
      BY <3>1, <3>2, <3>4
    <3>5. CASE j \notin Started
      <4>1. Abstract!Start(j)
        BY <3>1, <3>2, <3>3, <3>5 DEF Abstract!Start
      <4>2. QED
        BY <3>3, <4>1 DEF Abstract!Next
    <3>6. QED
      BY <3>4, <3>5
  <2>6. ASSUME NEW w \in Workers, ReportStatus(w)
        PROVE  UNCHANGED <<Started, Done>>
    <3>1. Started' = Started
      BY <2>1, <2>6, ReportStatusEffect
    <3>2. QED
      BY <2>2, <2>6, <3>1 DEF ReportStatus
  <2>7. ASSUME NEW w \in Workers, ReportInsert(w)
        PROVE  Abstract!Next \/ UNCHANGED <<Started, Done>>
    <3>1. job[w] \in Started /\ job[w] \in Jobs
      BY <2>1, <2>7 DEF ReportInsert, Bookkeeping, Started
    <3>2. Started' = Started /\ Done' = Done \cup {job[w]}
      BY <2>1, <2>7, <3>1 DEF ReportInsert, store, Started, HasResult, TypeOK
    <3>3. CASE job[w] \in Done
      BY <3>2, <3>3
    <3>4. CASE job[w] \notin Done
      <4>1. Abstract!Finish(job[w])
        BY <3>1, <3>2, <3>4 DEF Abstract!Finish
      <4>2. QED
        BY <3>1, <4>1 DEF Abstract!Next
    <3>5. QED
      BY <3>3, <3>4
  <2>8. ASSUME NEW w \in Workers,
               \/ PopNextJob(w) \/ ReportRemove(w) \/ ReportSnapshot(w) \/ ReportRead(w)
               \/ ReportRequeue(w) \/ Crash(w)
        PROVE  UNCHANGED <<Started, Done>>
    BY <2>2, <2>8 DEF PopNextJob, ReportRemove, ReportSnapshot, ReportRead, ReportRequeue, Crash,
                      store, Started
  <2>9. CASE UNCHANGED vars
    BY <2>2, <2>9 DEF vars, store, Started
  <2>10. QED
    BY <2>1, <2>3, <2>4, <2>5, <2>6, <2>7, <2>8, <2>9
       DEF Next, ScheduleJobs, WorkerLoop, ReportCompletion
<1>3. QED
  BY <1>1, <1>2, TypeCorrect, BookkeepingCorrect, DependencyOrderCorrect, PTL
     DEF Spec, ImplementsDependencyExecution, Abstract!Spec

-----------------------------------------------------------------------------
(* Nobody waits for ever on a dependency *)

(* The levels are natural numbers: among some jobs one has the least level. *)
LEMMA LeastLevel ==
  ASSUME NEW S \in SUBSET Jobs, S # {}
  PROVE  \E j \in S : \A k \in S : Level[j] <= Level[k]
<1> DEFINE Levels == {Level[j] : j \in S}
<1>1. Levels \subseteq Nat /\ Levels # {}
  BY ConstantsAssumption
<1>2. \E n \in Levels : \A m \in Levels : <<m, n>> \notin OpToRel(<, Nat)
  <2> HIDE DEF Levels
  <2>1. QED
    BY <1>1, NatLessThanWellFounded, WFMin
<1>3. PICK n \in Levels : \A m \in Levels : <<m, n>> \notin OpToRel(<, Nat)
  BY <1>2
<1>4. \A m \in Levels : ~(m < n)
  <2> HIDE DEF Levels
  <2>1. QED
    BY <1>1, <1>3 DEF OpToRel
<1>5. PICK j \in S : n = Level[j]
  BY <1>3
<1>6. \A k \in S : Level[j] <= Level[k]
  <2>1. TAKE k \in S
  <2>2. Level[k] \in Nat /\ Level[j] \in Nat
    BY ConstantsAssumption
  <2>3. ~(Level[k] < Level[j])
    BY <1>4, <1>5
  <2>4. QED
    BY <2>2, <2>3
<1>7. QED
  BY <1>6

(* For every acyclic graph: when the scheduler has come to rest with no     *)
(* worker lost, every job of every call has been given a result.            *)
THEOREM QuietMeansDoneCorrect == Spec => []QuietMeansDone
<1>1. /\ TypeOK /\ Bookkeeping /\ NoLostJob
      /\ CompilingJobsAreHeld /\ SettledJobsHaveResult
      => QuietMeansDone
  <2> DEFINE Missing == {j \in Jobs : ~HasResult(j)}
  <2>1. SUFFICES ASSUME TypeOK, Bookkeeping, NoLostJob, CompilingJobsAreHeld,
                        SettledJobsHaveResult, Quiet, Missing # {}
                 PROVE  FALSE
    BY DEF QuietMeansDone
  <2>2. PICK j \in Missing : \A k \in Missing : Level[j] <= Level[k]
    <3> Missing \in SUBSET Jobs
      OBVIOUS
    <3> HIDE DEF Missing
    <3>1. QED
      BY <2>1, LeastLevel
  <2>3. \A d \in Deps[j] : HasResult(d)
    <3>1. SUFFICES ASSUME NEW d \in Deps[j], ~HasResult(d)
                   PROVE  FALSE
      OBVIOUS
    <3>2. d \in Jobs /\ Level[d] < Level[j] /\ Level[d] \in Nat /\ Level[j] \in Nat
      BY ConstantsAssumption, GroupsRespectEdges
    <3>3. Level[j] <= Level[d]
      BY <2>2, <3>1, <3>2
    <3>4. QED
      BY <3>2, <3>3
  <2>4. j \in Known
    BY <2>1, ConstantsAssumption DEF Quiet, Bookkeeping, JobsOf
  <2>5. CASE status[j] = "Pending"
    <3>1. j \in Ready(Jobs)
      BY <2>1, <2>3, <2>4, <2>5 DEF Ready, Bookkeeping
    <3>2. j \notin Queued
      BY <2>1 DEF Quiet, Elements, Queued
    <3>3. CallOf[j] \in scheduled
      BY <2>1, ConstantsAssumption DEF Quiet
    <3>4. QED
      BY <2>1, <3>1, <3>2, <3>3 DEF NoLostJob, Quiet
  <2>6. CASE status[j] = "Compiling"
    BY <2>1, <2>6 DEF CompilingJobsAreHeld, Quiet
  <2>7. CASE status[j] \in {"Completed", "Failed"}
    BY <2>1, <2>2, <2>7 DEF SettledJobsHaveResult, Quiet
  <2>8. QED
    BY <2>1, <2>4, <2>5, <2>6, <2>7 DEF TypeOK, Statuses, Known
<1>2. NoGhosts => CompilingJobsAreHeld
  BY DEF NoGhosts
<1>3. QED
  BY <1>1, <1>2, TypeCorrect, BookkeepingCorrect, NoLostJobCorrect, NoGhostsCorrect,
     SettledJobsHaveResultCorrect, PTL

=============================================================================
