------------------------ MODULE SchedulerLocks_proofs ------------------------
(***************************************************************************)
(* Proofs about SchedulerLocks for any number of tasks and any mixes of    *)
(* calls that are ordered.                                                 *)
(***************************************************************************)
EXTENDS SchedulerLocks, WellFoundedInduction, TLAPS

-----------------------------------------------------------------------------
(* The programs *)

Kinds == {"read", "write"}

LEMMA StepKinds ==
  ASSUME NEW l
  PROVE  /\ Read(l) # ReleaseAll /\ Read(l).lock = l /\ Read(l).kind = "read"
         /\ Write(l) # ReleaseAll /\ Write(l).lock = l /\ Write(l).kind = "write"
<1>1. Read(l).kind = "read" /\ Write(l).kind = "write" /\ ReleaseAll.kind = "release"
  BY DEF Read, Write, ReleaseAll
<1>2. QED
  BY <1>1 DEF Read, Write

(* The program of a method, step by step. *)
LEMMA ScheduleJobs ==
  LET p == Program["schedule_jobs"]
  IN /\ Len(p) = 8
     /\ p[1] = Write("jobs") /\ p[2] = ReleaseAll /\ p[3] = Write("jobs") /\ p[4] = ReleaseAll
     /\ p[5] = Read("jobs") /\ p[6] = Read("completed") /\ p[7] = Write("queue") /\ p[8] = ReleaseAll
  BY DEF Program, QueueReadyJobs

LEMMA ReportCompletion ==
  LET p == Program["report_completion"]
  IN /\ Len(p) = 12
     /\ p[1] = Write("jobs") /\ p[2] = ReleaseAll /\ p[3] = Write("running") /\ p[4] = ReleaseAll
     /\ p[5] = Write("completed") /\ p[6] = ReleaseAll /\ p[7] = Read("jobs") /\ p[8] = ReleaseAll
     /\ p[9] = Read("jobs") /\ p[10] = Read("completed") /\ p[11] = Write("queue") /\ p[12] = ReleaseAll
  BY DEF Program, QueueReadyJobs

LEMMA GetNextJob ==
  LET p == Program["get_next_job"]
  IN Len(p) = 4 /\ p[1] = Write("queue") /\ p[2] = Write("jobs") /\ p[3] = Write("running") /\ p[4] = ReleaseAll
  BY DEF Program

LEMMA Stats ==
  LET p == Program["stats"]
  IN /\ Len(p) = 6
     /\ p[1] = Read("jobs") /\ p[2] = Read("running") /\ p[3] = Read("completed")
     /\ p[4] = Write("queue") /\ p[5] = Read("workers") /\ p[6] = ReleaseAll
  BY DEF Program

LEMMA OtherMethods ==
  /\ DOMAIN Program = {"schedule_jobs", "get_next_job", "report_completion", "register_worker",
                       "stats", "is_project_complete", "gather_results"}
  /\ LET p == Program["register_worker"]
     IN Len(p) = 2 /\ p[1] = Write("workers") /\ p[2] = ReleaseAll
  /\ LET p == Program["is_project_complete"]
     IN Len(p) = 2 /\ p[1] = Read("jobs") /\ p[2] = ReleaseAll
  /\ LET p == Program["gather_results"]
     IN Len(p) = 3 /\ p[1] = Read("jobs") /\ p[2] = Read("completed") /\ p[3] = ReleaseAll
  BY DEF Program

(* A method acquires known locks and ends by releasing them. *)
LEMMA ProgramShape ==
  ASSUME NEW m \in DOMAIN Program
  PROVE  /\ Len(Program[m]) \in Nat \ {0, 1}
         /\ Program[m][Len(Program[m])] = ReleaseAll
         /\ \A i \in 1 .. Len(Program[m]) :
              Program[m][i] # ReleaseAll => /\ Program[m][i].lock \in Locks
                                            /\ Program[m][i].kind \in Kinds
<1> DEFINE p == Program[m]
<1> USE StepKinds DEF Locks, Kinds
<1>1. CASE m = "schedule_jobs"
  BY <1>1, ScheduleJobs
<1>2. CASE m = "report_completion"
  BY <1>2, ReportCompletion
<1>3. CASE m = "get_next_job"
  BY <1>3, GetNextJob
<1>4. CASE m = "stats"
  BY <1>4, Stats
<1>5. CASE m \in {"register_worker", "is_project_complete", "gather_results"}
  BY <1>5, OtherMethods
<1>6. QED
  BY <1>1, <1>2, <1>3, <1>4, <1>5, OtherMethods

(* The locks a method holds when it comes to its step i. *)
HeldBefore(m, i) ==
  {l \in Locks : \E j \in 1 .. i - 1 :
     /\ Program[m][j] # ReleaseAll /\ Program[m][j].lock = l
     /\ \A k \in j .. i - 1 : Program[m][k] # ReleaseAll}

(* The order of the locks, with and without calls of get_next_job. *)
RankWithoutNext ==
  [l \in Locks |-> CASE l = "jobs" -> 1 [] l = "running" -> 2 [] l = "completed" -> 3
                     [] l = "queue" -> 4 [] l = "workers" -> 5]
RankWithNext ==
  [l \in Locks |-> CASE l = "queue" -> 1 [] l = "jobs" -> 2 [] l = "running" -> 3
                     [] l = "completed" -> 4 [] l = "workers" -> 5]

(* A method asks for its locks in the order of rank. *)
Follows(m, rank) ==
  \A i \in 1 .. Len(Program[m]) : \A l \in HeldBefore(m, i) :
    Program[m][i] # ReleaseAll => rank[l] < rank[Program[m][i].lock]

LEMMA FollowWithoutNext ==
  ASSUME NEW m \in DOMAIN Program \ {"get_next_job"}
  PROVE  Follows(m, RankWithoutNext)
<1> USE StepKinds DEF Locks, Follows, HeldBefore, RankWithoutNext
<1>1. CASE m = "schedule_jobs"
  BY <1>1, ScheduleJobs
<1>2. CASE m = "report_completion"
  BY <1>2, ReportCompletion
<1>4. CASE m = "stats"
  BY <1>4, Stats
<1>5. CASE m \in {"register_worker", "is_project_complete", "gather_results"}
  BY <1>5, OtherMethods
<1>6. QED
  BY <1>1, <1>2, <1>4, <1>5, OtherMethods

LEMMA FollowWithNext ==
  ASSUME NEW m \in DOMAIN Program \ {"schedule_jobs", "report_completion", "stats"}
  PROVE  Follows(m, RankWithNext)
<1> USE StepKinds DEF Locks, Follows, HeldBefore, RankWithNext
<1>1. CASE m = "get_next_job"
  BY <1>1, GetNextJob
<1>2. CASE m \in {"register_worker", "is_project_complete", "gather_results"}
  BY <1>2, OtherMethods
<1>3. QED
  BY <1>1, <1>2, OtherMethods

-----------------------------------------------------------------------------
(* Who holds and who waits *)

LocksTypeOK ==
  /\ method \in [Tasks -> DOMAIN Program]
  /\ next \in [Tasks -> Nat]
  /\ \A t \in Tasks : next[t] <= Len(Steps(t))
  /\ holders \in [Locks -> SUBSET (Tasks \X Kinds)]
  /\ waiting \in [Locks -> Seq(Tasks)]

(* At its step i a method wants the lock l. *)
Wants(m, i, l) == i # 0 /\ Program[m][i] # ReleaseAll /\ Program[m][i].lock = l

WaitersWantTheLock ==
  \A l \in Locks : \A i \in DOMAIN waiting[l] :
    Wants(method[waiting[l][i]], next[waiting[l][i]], l)

WaitOnce ==
  \A l \in Locks : \A i, j \in DOMAIN waiting[l] : waiting[l][i] = waiting[l][j] => i = j

(* A task holds no lock but those its method has asked for since it last    *)
(* released its locks.                                                      *)
HoldersAcquired ==
  \A l \in Locks : \A h \in holders[l] :
    next[h[1]] # 0 /\ l \in HeldBefore(method[h[1]], next[h[1]])

LocksInv == LocksTypeOK /\ WaitersWantTheLock /\ WaitOnce /\ HoldersAcquired

LEMMA StepShape ==
  ASSUME LocksTypeOK, NEW t \in Tasks, next[t] # 0
  PROVE  /\ next[t] \in 1 .. Len(Steps(t))
         /\ Len(Steps(t)) \in Nat
         /\ Steps(t)[Len(Steps(t))] = ReleaseAll
         /\ Step(t) # ReleaseAll => Step(t).lock \in Locks /\ Step(t).kind \in Kinds
<1>1. method[t] \in DOMAIN Program /\ next[t] \in Nat /\ next[t] <= Len(Steps(t))
  BY DEF LocksTypeOK
<1>2. QED
  BY <1>1, ProgramShape DEF Steps, Step

LEMMA HeldGrows ==
  ASSUME NEW m \in DOMAIN Program, NEW i \in 1 .. Len(Program[m]), Program[m][i] # ReleaseAll
  PROVE  HeldBefore(m, i) \cup {Program[m][i].lock} \subseteq HeldBefore(m, i + 1)
<1>1. Program[m][i].lock \in Locks /\ Len(Program[m]) \in Nat
  BY ProgramShape
<1>2. QED
  BY <1>1 DEF HeldBefore

LEMMA AdvanceEffect ==
  ASSUME LocksTypeOK, NEW t \in Tasks, next[t] # 0, Advance(t)
  PROVE  /\ next' \in [Tasks -> Nat]
         /\ \A u \in Tasks \ {t} : next'[u] = next[u]
         /\ next'[t] <= Len(Steps(t))
<1> DEFINE i == IF next[t] = Len(Steps(t)) THEN 0 ELSE next[t] + 1
<1>1. next' = [next EXCEPT ![t] = i] /\ next \in [Tasks -> Nat]
  BY DEF Advance, LocksTypeOK
<1>2. next[t] \in 1 .. Len(Steps(t)) /\ Len(Steps(t)) \in Nat
  BY StepShape
<1>3. i \in Nat /\ i <= Len(Steps(t))
  BY <1>2
<1> HIDE DEF i
<1>4. QED
  BY <1>1, <1>3

LEMMA LocksInvInit == Init => LocksInv
<1> SUFFICES ASSUME Init PROVE LocksInv
  OBVIOUS
<1>1. method \in [Tasks -> DOMAIN Program]
  BY MixesAssumption DEF Init
<1>2. LocksTypeOK
  BY <1>1, ProgramShape DEF Init, LocksTypeOK, Steps
<1>3. QED
  BY <1>2 DEF Init, LocksInv, WaitersWantTheLock, WaitOnce, HoldersAcquired

(* Only the task that a step is about moves on in its method. *)
LEMMA CallKeepsInv ==
  ASSUME LocksInv, NEW t \in Tasks, Call(t)
  PROVE  LocksInv'
<1> USE DEF LocksInv
<1>1. LocksTypeOK'
  BY ProgramShape DEF Call, LocksTypeOK, Steps
<1>2. WaitersWantTheLock' /\ WaitOnce'
  <2>1. \A l \in Locks : \A i \in DOMAIN waiting[l] : waiting[l][i] \in Tasks \ {t}
    BY DEF Call, LocksTypeOK, WaitersWantTheLock, Wants
  <2>2. QED
    BY <2>1 DEF Call, LocksTypeOK, WaitersWantTheLock, WaitOnce
<1>3. HoldersAcquired'
  BY DEF Call, LocksTypeOK, HoldersAcquired
<1>4. QED
  BY <1>1, <1>2, <1>3

LEMMA RequestKeepsInv ==
  ASSUME LocksInv, NEW t \in Tasks, Request(t)
  PROVE  LocksInv'
<1> USE DEF LocksInv
<1> DEFINE l == Step(t).lock
<1>1. l \in Locks /\ Wants(method[t], next[t], l)
  BY StepShape DEF Request, Wants, Step, Steps
<1>2. /\ waiting' = [waiting EXCEPT ![l] = Append(@, t)]
      /\ method' = method /\ next' = next /\ holders' = holders
  BY DEF Request
<1>3. waiting[l] \in Seq(Tasks) /\ \A i \in DOMAIN waiting[l] : waiting[l][i] # t
  BY <1>1 DEF Request, Waits, LocksTypeOK
<1>4. LocksTypeOK'
  <2> HIDE DEF l
  <2>1. QED
    BY <1>1, <1>2, <1>3 DEF LocksTypeOK, Steps
<1>5. WaitersWantTheLock'
  <2>1. ASSUME NEW k \in Locks, NEW i \in DOMAIN waiting'[k], waiting'[k][i] # waiting[k][i] \/ i \notin DOMAIN waiting[k]
        PROVE  k = l /\ waiting'[k][i] = t
    <3> HIDE DEF l
    <3>1. QED
      BY <1>1, <1>2, <1>3, <2>1 DEF LocksTypeOK
  <2>2. QED
    BY <1>1, <1>2, <2>1 DEF WaitersWantTheLock
<1>6. WaitOnce'
  <2> HIDE DEF l
  <2>1. QED
    BY <1>1, <1>2, <1>3 DEF LocksTypeOK, WaitOnce
<1>7. HoldersAcquired'
  BY <1>2 DEF HoldersAcquired
<1>8. QED
  BY <1>4, <1>5, <1>6, <1>7

LEMMA DropAllKeeps ==
  ASSUME LocksTypeOK, HoldersAcquired, NEW t \in Tasks, DropAll(t), method' = method,
         \A u \in Tasks \ {t} : next'[u] = next[u]
  PROVE  /\ holders' \in [Locks -> SUBSET (Tasks \X Kinds)]
         /\ HoldersAcquired'
  BY DEF LocksTypeOK, HoldersAcquired, DropAll

LEMMA ReleaseKeepsInv ==
  ASSUME LocksInv, NEW t \in Tasks, Release(t) \/ ReturnEarly(t)
  PROVE  LocksInv'
<1> USE DEF LocksInv
<1>1. /\ next' \in [Tasks -> Nat]
      /\ \A u \in Tasks \ {t} : next'[u] = next[u]
      /\ next'[t] <= Len(Steps(t))
  <2>1. CASE Release(t)
    BY <2>1, AdvanceEffect DEF Release
  <2>2. CASE ReturnEarly(t)
    BY <2>2, StepShape DEF ReturnEarly, LocksTypeOK
  <2>3. QED
    BY <2>1, <2>2
<1>3. method' = method /\ waiting' = waiting /\ DropAll(t)
  BY DEF Release, ReturnEarly
<1>4. holders' \in [Locks -> SUBSET (Tasks \X Kinds)] /\ HoldersAcquired'
  BY <1>1, <1>3, DropAllKeeps
<1>5. LocksTypeOK'
  BY <1>1, <1>3, <1>4 DEF LocksTypeOK, Steps
<1>6. ~Waits(t)
  BY DEF Release, ReturnEarly, Waits, WaitersWantTheLock, Wants, Step, Steps
<1>7. WaitersWantTheLock' /\ WaitOnce'
  BY <1>1, <1>3, <1>6 DEF LocksTypeOK, WaitersWantTheLock, WaitOnce, Waits
<1>8. QED
  BY <1>4, <1>5, <1>7

LEMMA GrantKeepsInv ==
  ASSUME LocksInv, NEW l \in Locks, Grant(l)
  PROVE  LocksInv'
<1> USE DEF LocksInv
<1> DEFINE t == Head(waiting[l])
<1>1. /\ waiting[l] \in Seq(Tasks) /\ waiting[l] # <<>>
      /\ t \in Tasks /\ 1 \in DOMAIN waiting[l] /\ waiting[l][1] = t
  BY DEF Grant, LocksTypeOK
<1>2. next[t] # 0 /\ Step(t) # ReleaseAll /\ Step(t).lock = l
  BY <1>1 DEF WaitersWantTheLock, Wants, Step, Steps
<1>3. /\ Step(t).kind \in Kinds
      /\ next[t] \in 1 .. Len(Steps(t)) /\ Len(Steps(t)) \in Nat /\ next[t] # Len(Steps(t))
  BY <1>1, <1>2, StepShape DEF Step
<1>4. /\ holders' = [holders EXCEPT ![l] = @ \cup {<<t, Step(t).kind>>}]
      /\ waiting' = [waiting EXCEPT ![l] = Tail(@)]
      /\ method' = method
      /\ next' = [next EXCEPT ![t] = next[t] + 1]
  BY <1>3 DEF Grant, Advance
<1>5. ASSUME NEW k \in Locks, NEW i \in DOMAIN waiting'[k]
      PROVE  /\ waiting'[k][i] \in Tasks \ {t}
             /\ IF k = l THEN i + 1 \in DOMAIN waiting[k] /\ i \in Nat /\ waiting'[k][i] = waiting[k][i + 1]
                ELSE i \in DOMAIN waiting[k] /\ waiting'[k][i] = waiting[k][i]
  <2> HIDE DEF t
  <2>1. CASE k = l
    <3>1. waiting'[k] = Tail(waiting[l])
      BY <1>4, <2>1 DEF LocksTypeOK
    <3>2. i \in Nat \ {0} /\ i + 1 \in DOMAIN waiting[l] /\ waiting'[k][i] = waiting[l][i + 1]
      BY <1>1, <3>1
    <3>3. waiting[l][i + 1] # t
      BY <1>1, <3>2 DEF WaitOnce
    <3>4. waiting[l][i + 1] \in Tasks
      BY <1>1, <3>2
    <3>5. QED
      BY <2>1, <3>2, <3>3, <3>4
  <2>2. CASE k # l
    <3>1. waiting'[k] = waiting[k] /\ waiting[k] \in Seq(Tasks)
      BY <1>4, <2>2 DEF LocksTypeOK
    <3>2. waiting[k][i] # t
      BY <1>2, <2>2, <3>1 DEF WaitersWantTheLock, Wants, Step, Steps
    <3>3. QED
      BY <2>2, <3>1, <3>2
  <2>3. QED
    BY <2>1, <2>2
<1>6. LocksTypeOK'
  <2> HIDE DEF t
  <2>1. holders' \in [Locks -> SUBSET (Tasks \X Kinds)]
    BY <1>1, <1>3, <1>4 DEF LocksTypeOK
  <2>2. waiting' \in [Locks -> Seq(Tasks)]
    BY <1>1, <1>4 DEF LocksTypeOK
  <2>3. next' \in [Tasks -> Nat] /\ \A u \in Tasks : next'[u] <= Len(Steps(u))
    BY <1>1, <1>3, <1>4 DEF LocksTypeOK
  <2>4. QED
    BY <1>4, <2>1, <2>2, <2>3 DEF LocksTypeOK, Steps
<1>7. WaitersWantTheLock'
  <2> SUFFICES ASSUME NEW k \in Locks, NEW i \in DOMAIN waiting'[k]
               PROVE  Wants(method'[waiting'[k][i]], next'[waiting'[k][i]], k)
    BY DEF WaitersWantTheLock
  <2> DEFINE u == waiting'[k][i]
  <2>1. u \in Tasks \ {t} /\ Wants(method[u], next[u], k)
    BY <1>5 DEF WaitersWantTheLock
  <2> HIDE DEF t
  <2>2. method'[u] = method[u] /\ next'[u] = next[u]
    BY <1>4, <2>1 DEF LocksTypeOK
  <2>3. QED
    BY <2>1, <2>2
<1>8. WaitOnce'
  <2> SUFFICES ASSUME NEW k \in Locks, NEW i \in DOMAIN waiting'[k], NEW j \in DOMAIN waiting'[k],
                      waiting'[k][i] = waiting'[k][j]
               PROVE  i = j
    BY DEF WaitOnce
  <2> HIDE DEF t
  <2>1. QED
    BY <1>5 DEF WaitOnce
<1>9. HoldersAcquired'
  <2> SUFFICES ASSUME NEW k \in Locks, NEW h \in holders'[k]
               PROVE  next'[h[1]] # 0 /\ k \in HeldBefore(method[h[1]], next'[h[1]])
    BY <1>4 DEF HoldersAcquired
  <2>1. HeldBefore(method[t], next[t]) \cup {l} \subseteq HeldBefore(method[t], next[t] + 1)
    BY <1>1, <1>2, <1>3, HeldGrows DEF LocksTypeOK, Step, Steps
  <2> HIDE DEF t
  <2>2. \/ h \in holders[k]
        \/ k = l /\ h = <<t, Step(t).kind>>
    BY <1>4 DEF LocksTypeOK
  <2>3. h[1] \in Tasks
    BY <1>1, <2>2 DEF LocksTypeOK
  <2>4. CASE h[1] = t
    <3>1. next'[t] = next[t] + 1
      BY <1>1, <1>4 DEF LocksTypeOK
    <3>2. k \in HeldBefore(method[t], next[t]) \cup {l}
      BY <2>2, <2>4 DEF HoldersAcquired
    <3>3. QED
      BY <1>3, <2>1, <2>4, <3>1, <3>2
  <2>5. CASE h[1] # t
    BY <1>4, <2>2, <2>3, <2>5 DEF LocksTypeOK, HoldersAcquired
  <2>6. QED
    BY <2>4, <2>5
<1>10. QED
  BY <1>6, <1>7, <1>8, <1>9

(* Tasks hold and wait only as their methods say, for any mixes. *)
THEOREM LocksInvCorrect == Spec => []LocksInv
<1>1. LocksInv /\ UNCHANGED vars => LocksInv'
  BY Zenon DEF vars, LocksInv, LocksTypeOK, WaitersWantTheLock, WaitOnce, HoldersAcquired, Steps
<1>2. LocksInv /\ [Next]_vars => LocksInv'
  BY <1>1, CallKeepsInv, RequestKeepsInv, ReleaseKeepsInv, GrantKeepsInv DEF Next
<1>3. QED
  BY LocksInvInit, <1>2, PTL DEF Spec

-----------------------------------------------------------------------------
(* No circles *)

LEMMA LeastNumber ==
  ASSUME NEW S \in SUBSET Nat, S # {}
  PROVE  \E n \in S : \A m \in S : n <= m
<1>1. S \subseteq Nat /\ S # {}
  OBVIOUS
<1>2. \E n \in S : \A m \in S : <<m, n>> \notin OpToRel(<, Nat)
  BY <1>1, NatLessThanWellFounded, WFMin, Zenon
<1>3. PICK n \in S : \A m \in S : <<m, n>> \notin OpToRel(<, Nat)
  BY <1>2
<1>4. \A m \in S : ~(m < n)
  BY <1>3 DEF OpToRel
<1>5. QED
  BY <1>4

(* When every task follows one order of the locks, a task that waits for a  *)
(* lock of the highest rank, and is the first to do so, waits for nobody in *)
(* its group: what the others hold has a lower rank.                        *)
LEMMA NoCircleInOrder ==
  ASSUME LocksInv, NEW rank \in [Locks -> 1 .. 5], \A t \in Tasks : Follows(method[t], rank)
  PROVE  NoCircularWait
<1> SUFFICES ASSUME NEW S \in SUBSET Tasks, S # {}
             PROVE  \E t \in S : \A u \in S : ~BlockedBy(t, u)
  BY DEF NoCircularWait
<1> USE DEF LocksInv
<1>1. CASE \E t \in S : ~Waits(t)
  BY <1>1 DEF Waits, BlockedBy
<1>2. CASE \A t \in S : Waits(t)
  <2> DEFINE Lock(t) == Program[method[t]][next[t]].lock
             Slack == {5 - rank[Lock(t)] : t \in S}
  <2>1. ASSUME NEW t \in S, NEW l \in Locks, NEW i \in DOMAIN waiting[l], waiting[l][i] = t
        PROVE  Wants(method[t], next[t], l) /\ Lock(t) = l /\ i \in Nat
    BY <2>1 DEF WaitersWantTheLock, Wants, LocksTypeOK
  <2>2. ASSUME NEW t \in S
        PROVE  Lock(t) \in Locks /\ \E i \in DOMAIN waiting[Lock(t)] : waiting[Lock(t)][i] = t
    <3>1. PICK l \in Locks : \E i \in DOMAIN waiting[l] : waiting[l][i] = t
      BY <1>2 DEF Waits
    <3>2. Lock(t) = l
      BY <2>1, <3>1
    <3>3. QED
      BY <3>1, <3>2
  <2>3. Slack \in SUBSET Nat /\ Slack # {}
    BY <2>2
  <2>4. PICK t \in S : \A u \in S : rank[Lock(u)] <= rank[Lock(t)]
    <3>1. PICK n \in Slack : \A m \in Slack : n <= m
      <4> HIDE DEF Slack
      <4>1. QED
        BY <2>3, LeastNumber
    <3>2. PICK t \in S : n = 5 - rank[Lock(t)]
      BY <3>1
    <3>3. \A u \in S : 5 - rank[Lock(t)] <= 5 - rank[Lock(u)]
      BY <3>1, <3>2
    <3>4. \A u \in S : rank[Lock(u)] \in 1 .. 5
      BY <2>2
    <3> HIDE DEF Lock
    <3>5. QED
      BY <3>3, <3>4
  <2> DEFINE l == Lock(t)
             Places == {i \in DOMAIN waiting[l] : waiting[l][i] \in S}
  <2>5. l \in Locks /\ Places \in SUBSET Nat /\ Places # {}
    BY <2>2 DEF LocksTypeOK
  <2>6. PICK i \in Places : \A k \in Places : i <= k
    <3> HIDE DEF Places
    <3>1. QED
      BY <2>5, LeastNumber
  <2> DEFINE first == waiting[l][i]
  <2>7. first \in S
    BY <2>6
  <2>8. ASSUME NEW u \in S, BlockedBy(first, u)
        PROVE  FALSE
    <3>0. PICK k \in Locks : \E j \in DOMAIN waiting[k] :
            /\ waiting[k][j] = first
            /\ \/ \E h \in holders[k] : h[1] = u
               \/ \E p \in 1 .. j - 1 : waiting[k][p] = u
      BY <2>8 DEF BlockedBy
    <3>1. PICK j \in DOMAIN waiting[k] :
            /\ waiting[k][j] = first
            /\ \/ \E h \in holders[k] : h[1] = u
               \/ \E p \in 1 .. j - 1 : waiting[k][p] = u
      BY <3>0
    <3>2. k = l
      <4>1. i \in DOMAIN waiting[l] /\ waiting[l][i] = first
        BY <2>6
      <4> HIDE DEF first, l
      <4>2. Lock(first) = k /\ Lock(first) = l
        BY <2>1, <2>5, <2>7, <3>1, <4>1
      <4>3. QED
        BY <4>2
    <3>3. j = i
      BY <2>5, <2>6, <3>1, <3>2 DEF WaitOnce
    <3>4. CASE \E h \in holders[k] : h[1] = u
      <4>1. l \in HeldBefore(method[u], next[u]) /\ next[u] # 0
        BY <3>2, <3>4, <2>5 DEF HoldersAcquired
      <4>2. Wants(method[u], next[u], Lock(u))
        BY <2>1, <2>2
      <4>3. next[u] \in 1 .. Len(Program[method[u]])
        BY <4>1, StepShape DEF Steps
      <4>4. rank[l] < rank[Lock(u)]
        BY <4>1, <4>2, <4>3 DEF Follows, Wants
      <4>5. rank[Lock(u)] <= rank[l] /\ rank[l] \in 1 .. 5 /\ rank[Lock(u)] \in 1 .. 5
        BY <2>2, <2>4
      <4>6. QED
        BY <4>4, <4>5
    <3>5. CASE \E p \in 1 .. j - 1 : waiting[k][p] = u
      <4>1. PICK p \in 1 .. i - 1 : waiting[l][p] = u
        BY <3>2, <3>3, <3>5
      <4>2. waiting[l] \in Seq(Tasks) /\ i \in DOMAIN waiting[l]
        BY <2>5, <2>6 DEF LocksTypeOK
      <4>3. p \in DOMAIN waiting[l] /\ ~(i <= p)
        <5> HIDE DEF l
        <5>1. QED
          BY <4>1, <4>2
      <4>4. QED
        BY <2>6, <4>1, <4>3
    <3>6. QED
      BY <3>1, <3>4, <3>5
  <2>9. QED
    BY <2>7, <2>8
<1>3. QED
  BY <1>1, <1>2

(* No group of tasks waits for one another, for any number of tasks, when   *)
(* no task that calls get_next_job meets one that calls schedule_jobs,      *)
(* report_completion or stats: each such mix takes the locks of JobScheduler *)
(* in one order.                                                            *)
THEOREM NoCircularWaitCorrect ==
  ASSUME \A mix \in Mixes : Ordered(mix)
  PROVE  Spec => []NoCircularWait
<1> DEFINE Mixed == LocksInv /\ method \in Mixes
<1>1. Mixed => NoCircularWait
  <2> SUFFICES ASSUME LocksInv, method \in Mixes PROVE NoCircularWait
    OBVIOUS
  <2>1. method \in [Tasks -> DOMAIN Program] /\ Ordered(method)
    BY MixesAssumption
  <2>2. CASE \A t \in Tasks : method[t] # "get_next_job"
    <3>1. RankWithoutNext \in [Locks -> 1 .. 5]
      BY DEF RankWithoutNext, Locks
    <3>2. QED
      BY <2>1, <2>2, <3>1, FollowWithoutNext, NoCircleInOrder
  <2>3. CASE \A t \in Tasks : method[t] \notin {"schedule_jobs", "report_completion", "stats"}
    <3>1. RankWithNext \in [Locks -> 1 .. 5]
      BY DEF RankWithNext, Locks
    <3>2. QED
      BY <2>1, <2>3, <3>1, FollowWithNext, NoCircleInOrder
  <2>4. QED
    BY <2>1, <2>2, <2>3 DEF Ordered
<1>2. Spec => []Mixed
  <2>1. Init => method \in Mixes
    BY DEF Init
  <2>2. method \in Mixes /\ [Next]_vars => (method \in Mixes)'
    BY DEF Next, vars, Call, Request, Grant, Release, ReturnEarly
  <2>3. QED
    BY <2>1, <2>2, LocksInvCorrect, PTL DEF Spec
<1>3. QED
  BY <1>1, <1>2, PTL
=============================================================================
