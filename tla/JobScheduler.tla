---------------------------- MODULE JobScheduler ----------------------------
(***************************************************************************)
(* The scatter/gather scheduler of the orchestrator                        *)
(* (orchestrator/src/scheduler.rs, struct JobScheduler).                   *)
(*                                                                         *)
(* Tokio tasks share five collections, each behind a lock of its own.      *)
(* Three kinds of task change them: a call of schedule_jobs (one per       *)
(* element of Calls), a worker's loop get_next_job / compile /             *)
(* report_completion (one per element of Workers), and nothing else.       *)
(*                                                                         *)
(* Grain.  schedule_jobs takes and releases a lock once per job and        *)
(* report_completion five times: each of those segments is an action, and  *)
(* other tasks run between them.  get_next_job and queue_ready_jobs wait   *)
(* for a second lock while they hold one, in opposite orders, so each is   *)
(* two actions with a guard that waits: a worker at "Dispatch" holds       *)
(* pending_queue and waits for jobs; a worker at "Append" and a call in    *)
(* appending hold jobs and completed_jobs to read and wait for             *)
(* pending_queue.  A lock that is released in the step that takes it needs *)
(* no guard.  The queues of waiters at every lock, and the other methods,  *)
(* are the subject of SchedulerLocks.                                      *)
(***************************************************************************)
EXTENDS Integers, Sequences, FiniteSets

CONSTANTS Jobs,       \* the jobs that the calls of schedule_jobs create
          Calls,      \* the calls of schedule_jobs
          Projects,
          Workers,
          CallOf,     \* the call that creates a job
          ProjectOf,  \* the project a call schedules
          Deps,       \* edges of the graph between nodes of one call that need recompilation
          Level,      \* index of a job's group in graph.parallel_groups()
          Priority,   \* JobPriority as a number, Critical = 3
          MaxCrashes, \* bound: workers lost while they compile
          NoJob

ASSUME ConstantsAssumption ==
  /\ IsFiniteSet(Jobs)
  /\ NoJob \notin Jobs
  /\ CallOf \in [Jobs -> Calls]
  /\ ProjectOf \in [Calls -> Projects]
  /\ Level \in [Jobs -> Nat]
  /\ Priority \in [Jobs -> 0 .. 3]
  /\ Deps \in [Jobs -> SUBSET Jobs]
  /\ MaxCrashes \in Nat

(* DependencyGraph establishes this of the groups it returns. *)
ASSUME GroupsRespectEdges ==
  \A j \in Jobs : \A d \in Deps[j] : CallOf[d] = CallOf[j] /\ Level[d] < Level[j]

VARIABLES
  status,         \* jobs: JobStatus of every job, Absent until it is inserted
  dependencies,   \* jobs: CompileJob.dependencies
  pending_queue,  \* the queue of jobs to hand out
  running_jobs,   \* the set of jobs handed out and not reported
  completed_jobs, \* the result of every reported job, None when there is none
  all_jobs,       \* schedule_jobs: the jobs a call has created so far, in order
  appending,      \* the calls that are in queue_ready_jobs and wait for pending_queue
  scheduled,      \* the calls of schedule_jobs that have returned
  pc,             \* where a worker's loop stands
  job,            \* the job a worker holds
  success,        \* JobResult.success of what a worker reports
  snapshot,       \* report_completion: the local all_jobs
  crashes         \* how many workers were lost

store   == <<status, dependencies>>
planner == <<all_jobs, appending, scheduled>>
worker  == <<pc, job, success, snapshot>>
vars    == <<store, pending_queue, running_jobs, completed_jobs, planner, worker, crashes>>

Statuses == {"Absent", "Pending", "Compiling", "Completed", "Failed"}
Results  == {"None", "Ok", "Err"}
Phases   == {"Idle", "Dispatch", "Compiling", "Remove", "Insert", "Snapshot", "Requeue", "Append"}

-----------------------------------------------------------------------------
(* Helpers *)

Elements(q) == {q[i] : i \in DOMAIN q}

HasResult(j) == completed_jobs[j] # "None"

Known == {j \in Jobs : status[j] # "Absent"}

(* Who holds a lock while waiting for another, and everybody at once: the   *)
(* one waits for what the other holds, for ever.                            *)
QueueIsHeld == \E w \in Workers : pc[w] = "Dispatch"
StoreIsRead == appending # {} \/ \E w \in Workers : pc[w] = "Append"
Blocked     == QueueIsHeld /\ StoreIsRead

(* The jobs in the queue, and the one get_next_job has just taken off it. *)
Queued == Elements(pending_queue) \cup {job[w] : w \in {v \in Workers : pc[v] = "Dispatch"}}

(* Slips of Ready: one result is enough; what does not run is done; only a  *)
(* success counts.                                                          *)
ReadyAnyDependency(S) ==
  {j \in S : status[j] = "Pending" /\ (dependencies[j] = {} \/ \E d \in dependencies[j] : HasResult(d))}

ReadyNotRunning(S) ==
  {j \in S : status[j] = "Pending" /\ dependencies[j] \cap running_jobs = {}}

ReadyOnSuccess(S) ==
  {j \in S : status[j] = "Pending" /\ \A d \in dependencies[j] : status[d] = "Completed"}

(* The jobs of S that queue_ready_jobs appends. *)
Ready(S) == {j \in S : status[j] = "Pending" /\ \A d \in dependencies[j] : HasResult(d)}

(* The orders in which a sort by priority may leave S. *)
QueueOrders(S) ==
  {q \in [1 .. Cardinality(S) -> S] :
     /\ Elements(q) = S
     /\ \A i, k \in DOMAIN q : i < k => Priority[q[i]] >= Priority[q[k]]}

(* The sort is stable: among equals, the order of the argument is kept. *)
KeepsOrder(q, s) ==
  \A i, k \in DOMAIN q : \A m, n \in DOMAIN s :
    (i < k /\ Priority[q[i]] = Priority[q[k]] /\ q[i] = s[m] /\ q[k] = s[n]) => m < n

JobsOf(c) == {j \in Jobs : CallOf[j] = c}

IsProjectComplete(p) ==
  \A j \in Known : ProjectOf[CallOf[j]] = p => status[j] \in {"Completed", "Failed"}

(* The jobs whose result gather_results returns. *)
GatherResults(p) == {j \in Known : ProjectOf[CallOf[j]] = p /\ HasResult(j)}

-----------------------------------------------------------------------------
Init ==
  /\ status = [j \in Jobs |-> "Absent"]
  /\ dependencies = [j \in Jobs |-> {}]
  /\ pending_queue = <<>>
  /\ running_jobs = {}
  /\ completed_jobs = [j \in Jobs |-> "None"]
  /\ all_jobs = [c \in Calls |-> <<>>]
  /\ appending = {}
  /\ scheduled = {}
  /\ pc = [w \in Workers |-> "Idle"]
  /\ job = [w \in Workers |-> NoJob]
  /\ success = [w \in Workers |-> FALSE]
  /\ snapshot = [w \in Workers |-> {}]
  /\ crashes = 0

(* Slips of the actions below, which the properties must notice: a failure  *)
(* that changes no status, leaves no result, or ends the report early; the  *)
(* status stored as the result; a queue replaced instead of extended.       *)
ReportStatusOfSuccess(w) ==
  /\ pc[w] = "Compiling"
  /\ ~StoreIsRead
  /\ \E ok \in BOOLEAN :
       /\ success' = [success EXCEPT ![w] = ok]
       /\ status' = IF ok THEN [status EXCEPT ![job[w]] = "Completed"] ELSE status
  /\ pc' = [pc EXCEPT ![w] = "Remove"]
  /\ UNCHANGED <<dependencies, pending_queue, running_jobs, completed_jobs, planner,
                 job, snapshot, crashes>>

ReportInsertSuccess(w) ==
  /\ pc[w] = "Insert"
  /\ ~StoreIsRead
  /\ completed_jobs' = IF success[w] THEN [completed_jobs EXCEPT ![job[w]] = "Ok"] ELSE completed_jobs
  /\ pc' = [pc EXCEPT ![w] = "Snapshot"]
  /\ UNCHANGED <<store, pending_queue, running_jobs, planner, job, success, snapshot, crashes>>

ReportInsertStatus(w) ==
  /\ pc[w] = "Insert"
  /\ ~StoreIsRead
  /\ completed_jobs' = [completed_jobs EXCEPT ![job[w]] = status[job[w]]]
  /\ pc' = [pc EXCEPT ![w] = "Snapshot"]
  /\ UNCHANGED <<store, pending_queue, running_jobs, planner, job, success, snapshot, crashes>>

EndReport(w) ==
  /\ pc' = [pc EXCEPT ![w] = "Idle"]
  /\ job' = [job EXCEPT ![w] = NoJob]
  /\ success' = [success EXCEPT ![w] = FALSE]
  /\ snapshot' = [snapshot EXCEPT ![w] = {}]
  /\ UNCHANGED <<store, running_jobs, completed_jobs, planner, crashes>>

ReportRequeueReplaces(w) ==
  /\ pc[w] = "Append"
  /\ ~QueueIsHeld
  /\ pending_queue' \in QueueOrders(Ready(snapshot[w]))
  /\ EndReport(w)

ReportRequeueOnSuccess(w) ==
  /\ pc[w] = "Append"
  /\ ~QueueIsHeld
  /\ IF success[w]
     THEN \E q \in QueueOrders(Ready(snapshot[w])) : pending_queue' = pending_queue \o q
     ELSE UNCHANGED pending_queue
  /\ EndReport(w)

(* schedule_jobs: one turn of the loop over the groups, up to jobs.insert. *)
(* Groups are taken in order; inside a group any order is possible.        *)
InsertJob(c, j) ==
  LET created == Elements(all_jobs[c])
  IN /\ ~StoreIsRead
     /\ CallOf[j] = c
     /\ j \notin created
     /\ \A k \in JobsOf(c) \ created : Level[j] <= Level[k]
     /\ status' = [status EXCEPT ![j] = "Pending"]
     /\ dependencies' = [dependencies EXCEPT ![j] = Deps[j] \cap created]
     /\ all_jobs' = [all_jobs EXCEPT ![c] = Append(@, j)]
     /\ UNCHANGED <<pending_queue, running_jobs, completed_jobs, appending, scheduled, worker, crashes>>

(* schedule_jobs: the final queue_ready_jobs(&all_jobs) takes jobs and      *)
(* completed_jobs to read.                                                  *)
ReadNewJobs(c) ==
  /\ c \notin scheduled \cup appending
  /\ Elements(all_jobs[c]) = JobsOf(c)
  /\ appending' = appending \cup {c}
  /\ UNCHANGED <<store, pending_queue, running_jobs, completed_jobs, all_jobs, scheduled,
                 worker, crashes>>

(* schedule_jobs: queue_ready_jobs has pending_queue too, appends, and the  *)
(* call returns.                                                            *)
QueueNewJobs(c) ==
  /\ c \in appending
  /\ ~QueueIsHeld
  /\ \E q \in QueueOrders(Ready(JobsOf(c))) :
       /\ KeepsOrder(q, all_jobs[c])
       /\ pending_queue' = pending_queue \o q
  /\ appending' = appending \ {c}
  /\ scheduled' = scheduled \cup {c}
  /\ UNCHANGED <<store, running_jobs, completed_jobs, all_jobs, worker, crashes>>

ScheduleJobs(c) == ReadNewJobs(c) \/ QueueNewJobs(c) \/ \E j \in Jobs : InsertJob(c, j)

(* get_next_job takes pending_queue and pops the first job (from an empty   *)
(* queue it returns None and changes nothing).                              *)
PopNextJob(w) ==
  /\ pc[w] = "Idle"
  /\ ~QueueIsHeld
  /\ pending_queue # <<>>
  /\ job' = [job EXCEPT ![w] = Head(pending_queue)]
  /\ pending_queue' = Tail(pending_queue)
  /\ pc' = [pc EXCEPT ![w] = "Dispatch"]
  /\ UNCHANGED <<store, running_jobs, completed_jobs, planner, success, snapshot, crashes>>

(* get_next_job has jobs too: it hands the job out, whatever its status was. *)
GetNextJob(w) ==
  /\ pc[w] = "Dispatch"
  /\ ~StoreIsRead
  /\ status' = [status EXCEPT ![job[w]] = "Compiling"]
  /\ running_jobs' = running_jobs \cup {job[w]}
  /\ pc' = [pc EXCEPT ![w] = "Compiling"]
  /\ UNCHANGED <<dependencies, pending_queue, completed_jobs, planner, job, success,
                 snapshot, crashes>>

(* The compilation ends and report_completion sets the job's status. *)
ReportStatus(w) ==
  /\ pc[w] = "Compiling"
  /\ ~StoreIsRead
  /\ \E ok \in BOOLEAN :
       /\ success' = [success EXCEPT ![w] = ok]
       /\ status' = [status EXCEPT ![job[w]] = IF ok THEN "Completed" ELSE "Failed"]
  /\ pc' = [pc EXCEPT ![w] = "Remove"]
  /\ UNCHANGED <<dependencies, pending_queue, running_jobs, completed_jobs, planner,
                 job, snapshot, crashes>>

(* report_completion: running.remove *)
ReportRemove(w) ==
  /\ pc[w] = "Remove"
  /\ running_jobs' = running_jobs \ {job[w]}
  /\ pc' = [pc EXCEPT ![w] = "Insert"]
  /\ UNCHANGED <<store, pending_queue, completed_jobs, planner, job, success, snapshot, crashes>>

(* report_completion: completed.insert, which replaces an earlier result *)
ReportInsert(w) ==
  /\ pc[w] = "Insert"
  /\ ~StoreIsRead
  /\ completed_jobs' = [completed_jobs EXCEPT ![job[w]] = IF success[w] THEN "Ok" ELSE "Err"]
  /\ pc' = [pc EXCEPT ![w] = "Snapshot"]
  /\ UNCHANGED <<store, pending_queue, running_jobs, planner, job, success, snapshot, crashes>>

(* report_completion: the keys of jobs are copied *)
ReportSnapshot(w) ==
  /\ pc[w] = "Snapshot"
  /\ snapshot' = [snapshot EXCEPT ![w] = Known]
  /\ pc' = [pc EXCEPT ![w] = "Requeue"]
  /\ UNCHANGED <<store, pending_queue, running_jobs, completed_jobs, planner, job, success, crashes>>

(* report_completion: queue_ready_jobs takes jobs and completed_jobs to read *)
ReportRead(w) ==
  /\ pc[w] = "Requeue"
  /\ pc' = [pc EXCEPT ![w] = "Append"]
  /\ UNCHANGED <<store, pending_queue, running_jobs, completed_jobs, planner, job, success,
                 snapshot, crashes>>

(* report_completion: queue_ready_jobs has pending_queue too, appends what  *)
(* is ready among the copied keys, and the report returns.  The keys come   *)
(* from a HashMap, so equals may be queued in any order.                    *)
ReportRequeue(w) ==
  /\ pc[w] = "Append"
  /\ ~QueueIsHeld
  /\ \E q \in QueueOrders(Ready(snapshot[w])) : pending_queue' = pending_queue \o q
  /\ pc' = [pc EXCEPT ![w] = "Idle"]
  /\ job' = [job EXCEPT ![w] = NoJob]
  /\ success' = [success EXCEPT ![w] = FALSE]
  /\ snapshot' = [snapshot EXCEPT ![w] = {}]
  /\ UNCHANGED <<store, running_jobs, completed_jobs, planner, crashes>>

ReportCompletion(w) ==
  \/ ReportStatus(w) \/ ReportRemove(w) \/ ReportInsert(w)
  \/ ReportSnapshot(w) \/ ReportRead(w) \/ ReportRequeue(w)

(* A worker's loop. *)
WorkerLoop(w) == PopNextJob(w) \/ GetNextJob(w) \/ ReportCompletion(w)

(* A worker is lost while it compiles and a fresh one takes its place.  The *)
(* scheduler has no operation that would tell it so: nothing else changes.  *)
Crash(w) ==
  /\ pc[w] = "Compiling"
  /\ crashes < MaxCrashes
  /\ crashes' = crashes + 1
  /\ pc' = [pc EXCEPT ![w] = "Idle"]
  /\ job' = [job EXCEPT ![w] = NoJob]
  /\ UNCHANGED <<store, pending_queue, running_jobs, completed_jobs, planner, success, snapshot>>

Next ==
  \/ \E c \in Calls : ScheduleJobs(c)
  \/ \E w \in Workers : WorkerLoop(w) \/ Crash(w)

Spec == Init /\ [][Next]_vars

(* A task that has its locks is polled: a call of schedule_jobs that has    *)
(* started and every worker's loop take their next step when nobody holds   *)
(* what it waits for.  Nothing says that the locks are ever free (Blocked), *)
(* and nothing obliges anyone to call schedule_jobs or to lose a worker.    *)
Fairness ==
  /\ \A c \in Calls : WF_vars(all_jobs[c] # <<>> /\ ScheduleJobs(c))
  /\ \A w \in Workers : WF_vars(WorkerLoop(w))

FairSpec == Spec /\ Fairness

-----------------------------------------------------------------------------
(* Properties *)

TypeOK ==
  /\ status \in [Jobs -> Statuses]
  /\ dependencies \in [Jobs -> SUBSET Jobs]
  /\ pending_queue \in Seq(Jobs)
  /\ running_jobs \subseteq Jobs
  /\ completed_jobs \in [Jobs -> Results]
  /\ all_jobs \in [Calls -> Seq(Jobs)]
  /\ appending \subseteq Calls
  /\ scheduled \subseteq Calls
  /\ pc \in [Workers -> Phases]
  /\ job \in [Workers -> Jobs \cup {NoJob}]
  /\ success \in [Workers -> BOOLEAN]
  /\ snapshot \in [Workers -> SUBSET Jobs]
  /\ crashes \in 0 .. MaxCrashes

Started == {j \in Jobs : status[j] \in {"Compiling", "Completed", "Failed"}}

(* A job that is queued or taken off the queue, or was ever handed out, has *)
(* a result for every node it depends on: schedule_jobs, which sees only    *)
(* the jobs it has already created, misses no edge of the graph, and        *)
(* queue_ready_jobs lets no job overtake a dependency.                      *)
DependencyOrder ==
  \A j \in Started \cup Queued : \A d \in Deps[j] : HasResult(d)

(* A job that could run is never forgotten: while it is Pending and all its *)
(* dependencies have results, it is queued or just taken off the queue, or  *)
(* someone who will queue it is on the way - its own schedule_jobs call, or *)
(* a report that has not copied the keys yet, or has copied this one.       *)
(* Nothing polls for ready jobs, so a job outside these cases would wait    *)
(* for ever.  (A job that a lost worker held is Compiling, not Pending.)    *)
NoLostJob ==
  \A j \in Ready(Jobs) :
    \/ j \in Queued
    \/ CallOf[j] \notin scheduled
    \/ \E w \in Workers : pc[w] = "Snapshot" \/ (pc[w] \in {"Requeue", "Append"} /\ j \in snapshot[w])

(* The bookkeeping the guarantees above rest on: a call has created exactly *)
(* the jobs of its own that the job store knows, all of them once it has    *)
(* returned or gone to queue them; a job in the store has all its edges     *)
(* recorded; the queue holds only jobs that are in the store, and past      *)
(* get_next_job a worker holds one that is handed out.                      *)
Bookkeeping ==
  /\ \A c \in Calls : Elements(all_jobs[c]) = Known \cap JobsOf(c)
  /\ \A c \in scheduled \cup appending : JobsOf(c) \subseteq Known
  /\ \A j \in Known : dependencies[j] = Deps[j]
  /\ Queued \subseteq Known
  /\ \A w \in Workers : pc[w] \notin {"Idle", "Dispatch"} => job[w] \in Started

(* The status Compiling is true of someone: although a job can be handed    *)
(* out twice and reported twice, it never stays Compiling after its last    *)
(* holder has reported, unless a worker was lost.                           *)
CompilingJobsAreHeld ==
  crashes = 0 =>
    \A j \in Jobs : status[j] = "Compiling" =>
      \E w \in Workers : pc[w] = "Compiling" /\ job[w] = j

(* Once a job is Completed or Failed its result is stored, or the report    *)
(* that set the status is about to store it.                                *)
SettledJobsHaveResult ==
  \A j \in Jobs : status[j] \in {"Completed", "Failed"} =>
    \/ HasResult(j)
    \/ \E w \in Workers : pc[w] \in {"Remove", "Insert"} /\ job[w] = j

(* When is_project_complete answers true, gather_results returns the result *)
(* of every job of the project, except of those that a report is just about *)
(* to store: the window between setting a status and storing the result     *)
(* closes by itself, although jobs are handed out and reported twice.       *)
CompleteMeansGathered ==
  \A p \in Projects : IsProjectComplete(p) =>
    \A j \in Known : ProjectOf[CallOf[j]] = p =>
      \/ j \in GatherResults(p)
      \/ \E w \in Workers : pc[w] \in {"Remove", "Insert"} /\ job[w] = j

(* running_jobs counts no ghost: whatever is in it is held by a worker that *)
(* has not passed running.remove, unless a worker was lost.                 *)
RunningJobsAreHeld ==
  crashes = 0 =>
    \A j \in running_jobs : \E w \in Workers : pc[w] \in {"Compiling", "Remove"} /\ job[w] = j

(* What counts as under way is under way: neither the statuses nor          *)
(* running_jobs keep a job that no worker holds, although a job can be      *)
(* handed out twice, reported twice, and reported while it compiles again.  *)
NoGhosts == CompilingJobsAreHeld /\ RunningJobsAreHeld

(* The dependency order never leaves everyone waiting: when no worker has a *)
(* job, the queue is empty and every call of schedule_jobs has returned,    *)
(* every job has its result, unless a worker was lost.                      *)
Quiet ==
  /\ \A w \in Workers : pc[w] = "Idle"
  /\ pending_queue = <<>>
  /\ scheduled = Calls
  /\ crashes = 0

QuietMeansDone == Quiet => \A j \in Jobs : HasResult(j)

Abstract == INSTANCE DependencyExecution
              WITH started <- Started, done <- {j \in Jobs : HasResult(j)}

(* The scheduler implements DependencyExecution: handing a job out again,   *)
(* reporting it again, and everything the tasks do in between are stutters. *)
ImplementsDependencyExecution == Abstract!Spec

(* Every job that a call of schedule_jobs creates gets a result, whatever   *)
(* fails and is handed out twice, with two exceptions of the code: a worker *)
(* is lost, whose job nobody gets again, or get_next_job holds              *)
(* pending_queue and queue_ready_jobs holds jobs, each waiting for the      *)
(* other (the conflict that SchedulerLocks shows).  Nothing else - no order *)
(* of reports, calls and hand-outs, and no failure - leaves a job waiting.  *)
(* Results, losses and that conflict last, so it is enough that a time      *)
(* comes from which on every job created has its result.                    *)
EveryJobFinishes == <>[](Blocked \/ crashes > 0 \/ \A j \in Known : HasResult(j))

=============================================================================
