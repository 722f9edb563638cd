--------------------------- MODULE SchedulerLocks ---------------------------
(***************************************************************************)
(* The locks of JobScheduler (orchestrator/src/scheduler.rs) and the order *)
(* in which each method takes them.  Data is left out: only who holds and  *)
(* who waits matters.  A method is the sequence of its acquisitions and    *)
(* releases; .await on a lock is a place where other tasks run.            *)
(*                                                                         *)
(* Tokio's Mutex and RwLock serve their waiters in the order of arrival: a *)
(* reader that arrives after a waiting writer waits behind it.             *)
(***************************************************************************)
EXTENDS Integers, Sequences

CONSTANTS Tasks,  \* tasks that call the scheduler
          Mixes   \* which methods they may call: a task always the same one

Locks == {"jobs", "running", "completed", "queue", "workers"}

Read(l)    == [kind |-> "read", lock |-> l]
Write(l)   == [kind |-> "write", lock |-> l]
ReleaseAll == [kind |-> "release"]

(* A slip of queue_ready_jobs: the queue is locked first. *)
QueueReadyJobsQueueFirst == <<Write("queue"), Read("jobs"), Read("completed"), ReleaseAll>>

QueueReadyJobs == <<Read("jobs"), Read("completed"), Write("queue"), ReleaseAll>>

(* schedule_jobs is shown with two insertions into the job store. *)
Program ==
  [schedule_jobs       |-> <<Write("jobs"), ReleaseAll, Write("jobs"), ReleaseAll>> \o QueueReadyJobs,
   get_next_job        |-> <<Write("queue"), Write("jobs"), Write("running"), ReleaseAll>>,
   report_completion   |-> <<Write("jobs"), ReleaseAll, Write("running"), ReleaseAll,
                             Write("completed"), ReleaseAll, Read("jobs"), ReleaseAll>>
                           \o QueueReadyJobs,
   register_worker     |-> <<Write("workers"), ReleaseAll>>,
   stats               |-> <<Read("jobs"), Read("running"), Read("completed"), Write("queue"),
                             Read("workers"), ReleaseAll>>,
   is_project_complete |-> <<Read("jobs"), ReleaseAll>>,
   gather_results      |-> <<Read("jobs"), Read("completed"), ReleaseAll>>]

ASSUME MixesAssumption == Mixes \subseteq [Tasks -> DOMAIN Program]

(* get_next_job locks the queue before the job store, the methods that      *)
(* queue or count jobs lock it after: a mix has an order of the locks when  *)
(* it has not both.                                                         *)
Ordered(mix) ==
  \/ \A t \in DOMAIN mix : mix[t] # "get_next_job"
  \/ \A t \in DOMAIN mix : mix[t] \notin {"schedule_jobs", "report_completion", "stats"}

VARIABLES method,   \* the method a task calls, again and again
          next,     \* the step of its method a task is at, 0 between two calls
          holders,  \* the tasks that hold a lock, each with "read" or "write"
          waiting   \* the tasks that wait for a lock, in order of arrival

vars == <<method, next, holders, waiting>>

Steps(t) == Program[method[t]]
Step(t)  == Steps(t)[next[t]]

Waits(t) == \E l \in Locks : \E i \in DOMAIN waiting[l] : waiting[l][i] = t

Compatible(kind, l) ==
  IF kind = "write" THEN holders[l] = {} ELSE \A h \in holders[l] : h[2] = "read"

Advance(t) ==
  next' = [next EXCEPT ![t] = IF next[t] = Len(Steps(t)) THEN 0 ELSE next[t] + 1]

DropAll(t) == holders' = [l \in Locks |-> {h \in holders[l] : h[1] # t}]

-----------------------------------------------------------------------------
Init ==
  /\ method \in Mixes
  /\ next = [t \in Tasks |-> 0]
  /\ holders = [l \in Locks |-> {}]
  /\ waiting = [l \in Locks |-> <<>>]

Call(t) ==
  /\ next[t] = 0
  /\ next' = [next EXCEPT ![t] = 1]
  /\ UNCHANGED <<method, holders, waiting>>

Request(t) ==
  /\ next[t] # 0
  /\ ~Waits(t)
  /\ Step(t) # ReleaseAll
  /\ waiting' = [waiting EXCEPT ![Step(t).lock] = Append(@, t)]
  /\ UNCHANGED <<method, next, holders>>

Grant(l) ==
  /\ waiting[l] # <<>>
  /\ LET t == Head(waiting[l])
     IN /\ Compatible(Step(t).kind, l)
        /\ holders' = [holders EXCEPT ![l] = @ \cup {<<t, Step(t).kind>>}]
        /\ Advance(t)
  /\ waiting' = [waiting EXCEPT ![l] = Tail(@)]
  /\ UNCHANGED method

Release(t) ==
  /\ next[t] # 0
  /\ Step(t) = ReleaseAll
  /\ DropAll(t)
  /\ Advance(t)
  /\ UNCHANGED <<method, waiting>>

(* A slip of get_next_job: it tries again until the queue holds a job. *)
ReturnEarlyRetries(t) ==
  /\ method[t] = "get_next_job"
  /\ next[t] = 2
  /\ ~Waits(t)
  /\ DropAll(t)
  /\ next' = [next EXCEPT ![t] = 1]
  /\ UNCHANGED <<method, waiting>>

(* get_next_job finds the queue empty: the ? after pop_front returns. *)
ReturnEarly(t) ==
  /\ method[t] = "get_next_job"
  /\ next[t] = 2
  /\ ~Waits(t)
  /\ DropAll(t)
  /\ next' = [next EXCEPT ![t] = 0]
  /\ UNCHANGED <<method, waiting>>

Next ==
  \/ \E t \in Tasks : Call(t) \/ Request(t) \/ Release(t) \/ ReturnEarly(t)
  \/ \E l \in Locks : Grant(l)

Spec == Init /\ [][Next]_vars

(* A task that can go on is polled; a lock that can be granted is granted.  *)
FairSpec ==
  /\ Spec
  /\ \A t \in Tasks : WF_vars(Request(t)) /\ WF_vars(Release(t))
  /\ \A l \in Locks : WF_vars(Grant(l))

-----------------------------------------------------------------------------
(* Properties *)

(* t cannot go on before u does. *)
BlockedBy(t, u) ==
  \E l \in Locks : \E i \in DOMAIN waiting[l] :
    /\ waiting[l][i] = t
    /\ \/ \E h \in holders[l] : h[1] = u
       \/ \E k \in 1 .. i - 1 : waiting[l][k] = u

(* No group of tasks waits for one another. *)
NoCircularWait ==
  \A S \in (SUBSET Tasks) \ {{}} : \E t \in S : \A u \in S : ~BlockedBy(t, u)

(* Every call returns: no method waits for ever for a lock, although        *)
(* readers and writers keep arriving.                                       *)
EveryCallReturns == \A t \in Tasks : next[t] # 0 ~> next[t] = 0
=============================================================================
