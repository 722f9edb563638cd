------------------------ MODULE FairScheduler_proofs ------------------------
(***************************************************************************)
(* Proofs about FairScheduler for any number of jobs, users, workers and   *)
(* dispatchers, whatever the tiers and the priorities.                     *)
(***************************************************************************)
EXTENDS FairScheduler, FiniteSetTheorems, TLAPS

-----------------------------------------------------------------------------
(* Counting jobs by phase *)

JobsOf(u) == {j \in Jobs : UserOf[j] = u}

Part(Q, P) == {j \in Q : phase[j] \in P}

B(b) == IF b THEN 1 ELSE 0

(* A count of jobs is a natural number, and grows with the phases counted. *)
LEMMA PartCount ==
  ASSUME NEW Q \in SUBSET Jobs, NEW P
  PROVE  /\ IsFiniteSet(Part(Q, P))
         /\ Cardinality(Part(Q, P)) \in Nat
         /\ \A R : R \subseteq P => Cardinality(Part(Q, R)) <= Cardinality(Part(Q, P))
<1>1. \A R : IsFiniteSet(Part(Q, R))
  BY FS_Subset, ConstantsAssumption DEF Part
<1>2. ASSUME NEW R, R \subseteq P
      PROVE  Cardinality(Part(Q, R)) <= Cardinality(Part(Q, P))
  <2>1. Part(Q, R) \in SUBSET Part(Q, P)
    BY <1>2 DEF Part
  <2>2. QED
    BY <1>1, <2>1, FS_Subset
<1>3. QED
  BY <1>1, <1>2, FS_CardinalityType

(* When a job moves from one phase to another, a count gains it if it moves *)
(* into the phases counted and loses it if it moves out of them.            *)
LEMMA MoveCount ==
  ASSUME phase \in [Jobs -> Phases],
         NEW j \in Jobs, NEW from, NEW to, Moves(j, from, to),
         NEW Q \in SUBSET Jobs, NEW P
  PROVE  /\ Cardinality(Part(Q, P))' =
              Cardinality(Part(Q, P)) + B(j \in Q /\ to \in P) - B(j \in Q /\ from \in P)
         /\ Cardinality(Part(Q, P)) \in Nat
         /\ j \in Q /\ from \in P => Cardinality(Part(Q, P)) >= 1
<1>1. phase[j] = from /\ phase' = [phase EXCEPT ![j] = to]
  BY DEF Moves
<1>2. IsFiniteSet(Part(Q, P)) /\ Cardinality(Part(Q, P)) \in Nat
  BY PartCount
<1>3. ASSUME j \in Q /\ to \in P
      PROVE  Cardinality(Part(Q, P))' =
             Cardinality(Part(Q, P)) + B(j \in Q /\ to \in P) - B(j \in Q /\ from \in P)
  <2>1. Part(Q, P)' = Part(Q, P) \cup {j}
    BY <1>1, <1>3 DEF Part
  <2>2. j \in Part(Q, P) <=> from \in P
    BY <1>1, <1>3 DEF Part
  <2>3. Cardinality(Part(Q, P) \cup {j}) =
          IF j \in Part(Q, P) THEN Cardinality(Part(Q, P)) ELSE Cardinality(Part(Q, P)) + 1
    BY <1>2, FS_AddElement
  <2>4. Cardinality(Part(Q, P))' = Cardinality(Part(Q, P) \cup {j})
    BY <2>1
  <2>5. QED
    BY <1>2, <1>3, <2>2, <2>3, <2>4 DEF B
<1>4. ASSUME j \in Q /\ to \notin P
      PROVE  Cardinality(Part(Q, P))' =
             Cardinality(Part(Q, P)) + B(j \in Q /\ to \in P) - B(j \in Q /\ from \in P)
  <2>1. Part(Q, P)' = Part(Q, P) \ {j}
    BY <1>1, <1>4 DEF Part
  <2>2. j \in Part(Q, P) <=> from \in P
    BY <1>1, <1>4 DEF Part
  <2>3. Cardinality(Part(Q, P) \ {j}) =
          IF j \in Part(Q, P) THEN Cardinality(Part(Q, P)) - 1 ELSE Cardinality(Part(Q, P))
    BY <1>2, FS_RemoveElement
  <2>4. Cardinality(Part(Q, P))' = Cardinality(Part(Q, P) \ {j})
    BY <2>1
  <2>5. QED
    BY <1>2, <1>4, <2>2, <2>3, <2>4 DEF B
<1>5. ASSUME j \notin Q
      PROVE  Cardinality(Part(Q, P))' =
             Cardinality(Part(Q, P)) + B(j \in Q /\ to \in P) - B(j \in Q /\ from \in P)
  <2>1. Part(Q, P)' = Part(Q, P)
    BY <1>1, <1>5 DEF Part
  <2>2. QED
    BY <1>2, <1>5, <2>1 DEF B
<1>6. ASSUME j \in Q, from \in P
      PROVE  Cardinality(Part(Q, P)) >= 1
  <2>1. Part(Q, P) # {}
    BY <1>1, <1>6 DEF Part
  <2>2. QED
    BY <1>2, <2>1, FS_EmptySet
<1>7. QED
  BY <1>2, <1>3, <1>4, <1>5, <1>6

-----------------------------------------------------------------------------
(* The books *)

(* The phases in which a job is in running_jobs, in workers_in_use and in   *)
(* active_jobs.                                                             *)
InList  == {"Listed", "Counted", "Running"}
InCount == {"Counted", "Running", "Unlisted"}
InStats == {"Running", "Unlisted", "Uncounted"}

(* The inductive invariant under the counters: each of them is the number   *)
(* of jobs between the segment that counts it in and the one that counts it *)
(* out, so no saturating_sub ever loses anything.                           *)
Books ==
  /\ phase \in [Jobs -> Phases]
  /\ active_jobs \in [Users -> Nat]
  /\ running_jobs = [u \in Users |-> Part(JobsOf(u), InList)]
  /\ workers_in_use = Cardinality(Part(Jobs, InCount))
  /\ \A u \in Users : active_jobs[u] = Cardinality(Part(JobsOf(u), InStats))

(* Every step keeps the books. *)
LEMMA BooksKept ==
  ASSUME Books, [Next]_vars
  PROVE  Books'
<1> USE DEF InList, InCount, InStats
<1>0. \A u \in Users : JobsOf(u) \in SUBSET Jobs
  BY DEF JobsOf
<1>1. ASSUME NEW j \in Jobs, NEW from, NEW to, Moves(j, from, to), to \in Phases
      PROVE  phase' \in [Jobs -> Phases]
  BY <1>1 DEF Books, Moves
<1>2. ASSUME NEW j \in Jobs, NEW from, NEW to, Moves(j, from, to), NEW u \in Users
      PROVE  LET C == Cardinality(Part(JobsOf(u), InStats))
             IN /\ C' = C + B(u = UserOf[j] /\ to \in InStats) - B(u = UserOf[j] /\ from \in InStats)
                /\ C \in Nat
                /\ u = UserOf[j] /\ from \in InStats => C >= 1
  <2>1. JobsOf(u) \in SUBSET Jobs /\ (j \in JobsOf(u) <=> u = UserOf[j])
    BY DEF JobsOf
  <2>2. phase \in [Jobs -> Phases]
    BY DEF Books
  <2>3. QED
    BY <1>2, <2>1, <2>2, MoveCount
<1>3. ASSUME NEW j \in Jobs, NEW from, NEW to, Moves(j, from, to)
      PROVE  LET C == Cardinality(Part(Jobs, InCount))
             IN /\ C' = C + B(to \in InCount) - B(from \in InCount)
                /\ C \in Nat
                /\ from \in InCount => C >= 1
  <2>1. phase \in [Jobs -> Phases]
    BY DEF Books
  <2>2. QED
    BY <1>3, <2>1, MoveCount
<1>4. ASSUME NEW j \in Jobs, Submit(j) \/ Push(j) \/ GetNextJob(j) \/ CountDequeued(j)
      PROVE  Books'
  <2>1. PICK from, to \in {"Out", "Submitting", "Queued", "Selecting", "Selected"} :
          Moves(j, from, to)
    BY <1>4 DEF Submit, Push, GetNextJob, CountDequeued
  <2>2. UNCHANGED <<running_jobs, workers_in_use, active_jobs>>
    BY <1>4 DEF Submit, Push, GetNextJob, CountDequeued, stats
  <2>3. phase' \in [Jobs -> Phases]
    BY <1>1, <2>1 DEF Phases
  <2>4. \A u \in Users : Part(JobsOf(u), InList)' = Part(JobsOf(u), InList)
    BY <1>0, <2>1 DEF Part, Moves, Books
  <2>5. \A u \in Users : Cardinality(Part(JobsOf(u), InStats))' = Cardinality(Part(JobsOf(u), InStats))
    BY <1>2, <2>1 DEF B
  <2>6. Cardinality(Part(Jobs, InCount))' = Cardinality(Part(Jobs, InCount))
    BY <1>3, <2>1 DEF B
  <2>7. QED
    BY <2>2, <2>3, <2>4, <2>5, <2>6 DEF Books
<1>5. ASSUME NEW j \in Jobs, List(j)
      PROVE  Books'
  <2>1. Moves(j, "Selected", "Listed") /\ phase' \in [Jobs -> Phases] /\ UserOf[j] \in Users
    BY <1>1, <1>5, ConstantsAssumption DEF List, Phases
  <2>2. running_jobs' = [u \in Users |-> Part(JobsOf(u), InList)']
    <3>1. phase \in [Jobs -> Phases]
      BY DEF Books
    <3>2. ASSUME NEW u \in Users
          PROVE  Part(JobsOf(u), InList)' =
                   IF u = UserOf[j] THEN Part(JobsOf(u), InList) \cup {j} ELSE Part(JobsOf(u), InList)
      <4>1. CASE u = UserOf[j]
        BY <2>1, <3>1, <4>1 DEF Part, Moves, JobsOf
      <4>2. CASE u # UserOf[j]
        BY <2>1, <3>1, <4>2 DEF Part, Moves, JobsOf
      <4>3. QED
        BY <4>1, <4>2
    <3>3. running_jobs = [u \in Users |-> Part(JobsOf(u), InList)]
      BY DEF Books
    <3>4. QED
      BY <1>5, <2>1, <3>2, <3>3 DEF List
  <2>3. workers_in_use' = Cardinality(Part(Jobs, InCount))'
    BY <1>3, <1>5, <2>1 DEF List, Books, B
  <2>4. /\ active_jobs' \in [Users -> Nat]
        /\ \A u \in Users : active_jobs'[u] = Cardinality(Part(JobsOf(u), InStats))'
    BY <1>2, <1>5, <2>1 DEF List, stats, Books, B
  <2>5. QED
    BY <2>1, <2>2, <2>3, <2>4 DEF Books
<1>6. ASSUME NEW j \in Jobs, TakeWorker(j)
      PROVE  Books'
  <2>1. Moves(j, "Listed", "Counted") /\ phase' \in [Jobs -> Phases] /\ UserOf[j] \in Users
    BY <1>1, <1>6, ConstantsAssumption DEF TakeWorker, Phases
  <2>2. running_jobs' = [u \in Users |-> Part(JobsOf(u), InList)']
    <3>1. \A u \in Users : Part(JobsOf(u), InList)' = Part(JobsOf(u), InList)
      BY <1>0, <2>1 DEF Part, Moves, Books
    <3>2. QED
      BY <1>6, <3>1 DEF TakeWorker, Books
  <2>3. workers_in_use' = Cardinality(Part(Jobs, InCount))'
    BY <1>3, <1>6, <2>1 DEF TakeWorker, Books, B
  <2>4. /\ active_jobs' \in [Users -> Nat]
        /\ \A u \in Users : active_jobs'[u] = Cardinality(Part(JobsOf(u), InStats))'
    BY <1>2, <1>6, <2>1 DEF TakeWorker, stats, Books, B
  <2>5. QED
    BY <2>1, <2>2, <2>3, <2>4 DEF Books
<1>7. ASSUME NEW j \in Jobs, CountActive(j)
      PROVE  Books'
  <2>1. Moves(j, "Counted", "Running") /\ phase' \in [Jobs -> Phases] /\ UserOf[j] \in Users
    BY <1>1, <1>7, ConstantsAssumption DEF CountActive, Phases
  <2>2. running_jobs' = [u \in Users |-> Part(JobsOf(u), InList)']
    <3>1. \A u \in Users : Part(JobsOf(u), InList)' = Part(JobsOf(u), InList)
      BY <1>0, <2>1 DEF Part, Moves, Books
    <3>2. QED
      BY <1>7, <3>1 DEF CountActive, Books
  <2>3. workers_in_use' = Cardinality(Part(Jobs, InCount))'
    BY <1>3, <1>7, <2>1 DEF CountActive, Books, B
  <2>4. /\ active_jobs' \in [Users -> Nat]
        /\ \A u \in Users : active_jobs'[u] = Cardinality(Part(JobsOf(u), InStats))'
    BY <1>2, <1>7, <2>1 DEF CountActive, Books, B
  <2>5. QED
    BY <2>1, <2>2, <2>3, <2>4 DEF Books
<1>8. ASSUME NEW j \in Jobs, Unlist(j)
      PROVE  Books'
  <2>1. Moves(j, "Running", "Unlisted") /\ phase' \in [Jobs -> Phases] /\ UserOf[j] \in Users
    BY <1>1, <1>8, ConstantsAssumption DEF Unlist, Phases
  <2>2. running_jobs' = [u \in Users |-> Part(JobsOf(u), InList)']
    <3>1. phase \in [Jobs -> Phases]
      BY DEF Books
    <3>2. ASSUME NEW u \in Users
          PROVE  Part(JobsOf(u), InList)' =
                   IF u = UserOf[j] THEN Part(JobsOf(u), InList) \ {j} ELSE Part(JobsOf(u), InList)
      <4>1. CASE u = UserOf[j]
        BY <2>1, <3>1, <4>1 DEF Part, Moves, JobsOf
      <4>2. CASE u # UserOf[j]
        BY <2>1, <3>1, <4>2 DEF Part, Moves, JobsOf
      <4>3. QED
        BY <4>1, <4>2
    <3>3. running_jobs = [u \in Users |-> Part(JobsOf(u), InList)]
      BY DEF Books
    <3>4. QED
      BY <1>8, <2>1, <3>2, <3>3 DEF Unlist
  <2>3. workers_in_use' = Cardinality(Part(Jobs, InCount))'
    BY <1>3, <1>8, <2>1 DEF Unlist, Books, B
  <2>4. /\ active_jobs' \in [Users -> Nat]
        /\ \A u \in Users : active_jobs'[u] = Cardinality(Part(JobsOf(u), InStats))'
    BY <1>2, <1>8, <2>1 DEF Unlist, stats, Books, B
  <2>5. QED
    BY <2>1, <2>2, <2>3, <2>4 DEF Books
<1>9. ASSUME NEW j \in Jobs, FreeWorker(j)
      PROVE  Books'
  <2>1. Moves(j, "Unlisted", "Uncounted") /\ phase' \in [Jobs -> Phases] /\ UserOf[j] \in Users
    BY <1>1, <1>9, ConstantsAssumption DEF FreeWorker, Phases
  <2>2. running_jobs' = [u \in Users |-> Part(JobsOf(u), InList)']
    <3>1. \A u \in Users : Part(JobsOf(u), InList)' = Part(JobsOf(u), InList)
      BY <1>0, <2>1 DEF Part, Moves, Books
    <3>2. QED
      BY <1>9, <3>1 DEF FreeWorker, Books
  <2>3. workers_in_use' = Cardinality(Part(Jobs, InCount))'
    BY <1>3, <1>9, <2>1 DEF FreeWorker, Minus1, Books, B
  <2>4. /\ active_jobs' \in [Users -> Nat]
        /\ \A u \in Users : active_jobs'[u] = Cardinality(Part(JobsOf(u), InStats))'
    BY <1>2, <1>9, <2>1 DEF FreeWorker, Minus1, stats, Books, B
  <2>5. QED
    BY <2>1, <2>2, <2>3, <2>4 DEF Books
<1>10. ASSUME NEW j \in Jobs, CountInactive(j)
      PROVE  Books'
  <2>1. Moves(j, "Uncounted", "Out") /\ phase' \in [Jobs -> Phases] /\ UserOf[j] \in Users
    BY <1>1, <1>10, ConstantsAssumption DEF CountInactive, Phases
  <2>2. running_jobs' = [u \in Users |-> Part(JobsOf(u), InList)']
    <3>1. \A u \in Users : Part(JobsOf(u), InList)' = Part(JobsOf(u), InList)
      BY <1>0, <2>1 DEF Part, Moves, Books
    <3>2. QED
      BY <1>10, <3>1 DEF CountInactive, Books
  <2>3. workers_in_use' = Cardinality(Part(Jobs, InCount))'
    BY <1>3, <1>10, <2>1 DEF CountInactive, Minus1, Books, B
  <2>4. /\ active_jobs' \in [Users -> Nat]
        /\ \A u \in Users : active_jobs'[u] = Cardinality(Part(JobsOf(u), InStats))'
    BY <1>2, <1>10, <2>1 DEF CountInactive, Minus1, Books, B
  <2>5. QED
    BY <2>1, <2>2, <2>3, <2>4 DEF Books
<1>11. ASSUME NEW u \in Users, CancelUserJobs(u)
      PROVE  Books'
  <2>1. UNCHANGED <<running_jobs, workers_in_use, active_jobs>>
    BY <1>11 DEF CancelUserJobs
  <2>2. /\ phase' \in [Jobs -> Phases]
        /\ \A j \in Jobs : phase'[j] = phase[j] \/ (phase[j] = "Queued" /\ phase'[j] = "Out")
    <3>1. phase' = [j \in Jobs |-> IF j \in QueuedOf(u) THEN "Out" ELSE phase[j]]
      BY <1>11 DEF CancelUserJobs
    <3>2. \A j \in QueuedOf(u) : phase[j] = "Queued"
      BY DEF QueuedOf, In
    <3>3. QED
      BY <3>1, <3>2 DEF Books, Phases
  <2>3. \A Q \in SUBSET Jobs : /\ Part(Q, InList)' = Part(Q, InList)
                              /\ Part(Q, InCount)' = Part(Q, InCount)
                              /\ Part(Q, InStats)' = Part(Q, InStats)
    BY <2>2 DEF Part
  <2>4. /\ Part(Jobs, InCount)' = Part(Jobs, InCount)
        /\ \A v \in Users : /\ Part(JobsOf(v), InList)' = Part(JobsOf(v), InList)
                            /\ Part(JobsOf(v), InStats)' = Part(JobsOf(v), InStats)
    BY <1>0, <2>3
  <2>5. QED
    BY <2>1, <2>2, <2>4 DEF Books
<1>12. CASE UNCHANGED <<phase, running_jobs, workers_in_use, active_jobs>>
  BY <1>12 DEF Books, Part
<1>13. QED
  BY <1>4, <1>5, <1>6, <1>7, <1>8, <1>9, <1>10, <1>11, <1>12
  DEF Next, Proceed, SetUserTier, Tick, stats, vars

(* Whenever no record is under way, the three counts of running jobs tell   *)
(* the same: a worker is counted for every job that runs and for no other,  *)
(* whatever is submitted, cancelled and recorded meanwhile.                 *)
THEOREM BooksBalanceCorrect == Spec => []BooksBalance
<1>1. Init => Books
  <2>1. SUFFICES ASSUME Init PROVE Books
    OBVIOUS
  <2>2. \A Q \in SUBSET Jobs : /\ Part(Q, InList) = {}
                              /\ Part(Q, InCount) = {}
                              /\ Part(Q, InStats) = {}
    BY <2>1 DEF Init, Part, InList, InCount, InStats
  <2>3. \A u \in Users : JobsOf(u) \in SUBSET Jobs
    BY DEF JobsOf
  <2>4. QED
    BY <2>1, <2>2, <2>3, FS_EmptySet DEF Init, Books, Phases
<1>2. Books => BooksBalance
  <2>1. SUFFICES ASSUME Books, In({"Listed", "Counted", "Unlisted", "Uncounted"}) = {}
                 PROVE  /\ workers_in_use = Cardinality(In({"Running"}))
                        /\ \A u \in Users :
                             /\ active_jobs[u] = Cardinality(running_jobs[u])
                             /\ running_jobs[u] = {j \in In({"Running"}) : UserOf[j] = u}
    BY DEF BooksBalance
  <2>2. \A j \in Jobs : phase[j] \notin {"Listed", "Counted", "Unlisted", "Uncounted"}
    BY <2>1 DEF In
  <2>3. Part(Jobs, InCount) = In({"Running"})
    BY <2>2 DEF Part, In, InCount
  <2>4. \A u \in Users : /\ Part(JobsOf(u), InList) = Part(JobsOf(u), InStats)
                        /\ Part(JobsOf(u), InList) = {j \in In({"Running"}) : UserOf[j] = u}
    BY <2>2 DEF Part, In, InList, InStats, JobsOf
  <2>5. QED
    BY <2>1, <2>3, <2>4 DEF Books
<1>3. QED
  BY <1>1, <1>2, BooksKept, PTL DEF Spec

-----------------------------------------------------------------------------
(* The overshoot *)

(* A job counts against its user's cap, and against the workers, from the   *)
(* moment it is selected, although get_next_job does not see it until it is *)
(* listed, and counted.                                                     *)
OfUser    == {"Selecting", "Selected", "Listed", "Counted", "Running"}
OfWorkers == {"Selecting", "Selected", "Listed", "Counted", "Running", "Unlisted"}

Overshoot ==
  /\ \A u \in Users : Cardinality(Part(JobsOf(u), OfUser)) <= UserCap + Dispatchers - 1
  /\ Cardinality(Part(Jobs, OfWorkers)) <= TotalWorkers + Dispatchers - 1

(* Who dispatches a job finds at most Dispatchers - 1 others on their way:  *)
(* what is counted of a set of jobs is what is recorded and those in hand.  *)
LEMMA CountedAndHeld ==
  ASSUME NEW Q \in SUBSET Jobs, NEW P, NEW R, P \subseteq R \cup {"Selecting", "Selected", "Listed", "Counted"}
  PROVE  /\ Cardinality(Part(Q, P)) <= Cardinality(Part(Q, R)) + Cardinality(Held)
         /\ Cardinality(Held) \in Nat
         /\ Cardinality(Part(Q, R)) \in Nat
         /\ Cardinality(Part(Q, P)) \in Nat
<1> DEFINE A == Part(Q, R)
           H == Part(Jobs, {"Selecting", "Selected", "Listed", "Counted"})
<1>1. /\ IsFiniteSet(A) /\ IsFiniteSet(H) /\ IsFiniteSet(Part(Q, P))
      /\ Cardinality(A) \in Nat /\ Cardinality(H) \in Nat /\ Cardinality(Part(Q, P)) \in Nat
  BY PartCount
<1>2. H = Held
  BY DEF Part, Held, In
<1>3. Part(Q, P) \in SUBSET (A \cup H)
  BY DEF Part
<1>4. /\ IsFiniteSet(A \cup H) /\ IsFiniteSet(A \cap H)
      /\ Cardinality(A \cup H) = Cardinality(A) + Cardinality(H) - Cardinality(A \cap H)
  BY <1>1, FS_Union, FS_Intersection
<1>5. Cardinality(A \cap H) \in Nat /\ Cardinality(A \cup H) \in Nat
  BY <1>4, FS_CardinalityType
<1>6. Cardinality(Part(Q, P)) <= Cardinality(A \cup H)
  BY <1>3, <1>4, FS_Subset
<1>7. QED
  BY <1>1, <1>2, <1>4, <1>5, <1>6

LEMMA OvershootKept ==
  ASSUME Books, Overshoot, [Next]_vars
  PROVE  Overshoot'
<1>0. /\ phase \in [Jobs -> Phases]
      /\ \A u \in Users : JobsOf(u) \in SUBSET Jobs
      /\ UserCap \in Nat /\ TotalWorkers \in Nat /\ Dispatchers \in Nat \ {0}
  BY ConstantsAssumption DEF Books, JobsOf, UserCap
<1>1. ASSUME NEW j \in Jobs, GetNextJob(j)
      PROVE  Overshoot'
  <2>1. Moves(j, "Queued", "Selecting") /\ UserOf[j] \in Users
    BY <1>1, ConstantsAssumption DEF GetNextJob
  <2>2. /\ Cardinality(running_jobs[UserOf[j]]) < UserCap
        /\ workers_in_use < TotalWorkers
        /\ Cardinality(Held) < Dispatchers
    BY <1>1 DEF GetNextJob, CanRun
  <2>3. ASSUME NEW u \in Users
        PROVE  Cardinality(Part(JobsOf(u), OfUser))' <= UserCap + Dispatchers - 1
    <3>1. JobsOf(u) \in SUBSET Jobs
      BY <1>0
    <3>2. /\ Cardinality(Part(JobsOf(u), OfUser))' = Cardinality(Part(JobsOf(u), OfUser)) + B(j \in JobsOf(u))
          /\ Cardinality(Part(JobsOf(u), OfUser)) \in Nat
      <4>1. "Selecting" \in OfUser /\ "Queued" \notin OfUser
        BY DEF OfUser
      <4>2. phase \in [Jobs -> Phases] /\ Moves(j, "Queued", "Selecting")
        BY <1>0, <2>1
      <4>3. /\ Cardinality(Part(JobsOf(u), OfUser))' =
                 Cardinality(Part(JobsOf(u), OfUser))
                 + B(j \in JobsOf(u) /\ "Selecting" \in OfUser) - B(j \in JobsOf(u) /\ "Queued" \in OfUser)
            /\ Cardinality(Part(JobsOf(u), OfUser)) \in Nat
        BY <3>1, <4>2, MoveCount
      <4>4. QED
        BY <4>1, <4>3 DEF B
    <3>3. CASE j \notin JobsOf(u)
      BY <3>2, <3>3 DEF Overshoot, B
    <3>4. CASE j \in JobsOf(u)
      <4>1. u = UserOf[j] /\ running_jobs[u] = Part(JobsOf(u), InList)
        BY <3>4 DEF JobsOf, Books
      <4>2. OfUser \subseteq InList \cup {"Selecting", "Selected", "Listed", "Counted"}
        BY DEF OfUser, InList
      <4>3. /\ Cardinality(Part(JobsOf(u), OfUser)) <= Cardinality(Part(JobsOf(u), InList)) + Cardinality(Held)
            /\ Cardinality(Held) \in Nat
            /\ Cardinality(Part(JobsOf(u), InList)) \in Nat
        BY <3>1, <4>2, CountedAndHeld
      <4>4. QED
        BY <1>0, <2>2, <3>2, <3>4, <4>1, <4>3 DEF B
    <3>5. QED
      BY <3>3, <3>4
  <2>4. Cardinality(Part(Jobs, OfWorkers))' <= TotalWorkers + Dispatchers - 1
    <3>1. /\ Cardinality(Part(Jobs, OfWorkers))' = Cardinality(Part(Jobs, OfWorkers)) + 1
          /\ Cardinality(Part(Jobs, OfWorkers)) \in Nat
      <4>1. "Selecting" \in OfWorkers /\ "Queued" \notin OfWorkers
        BY DEF OfWorkers
      <4>2. QED
        BY <1>0, <2>1, <4>1, MoveCount DEF B
    <3>2. OfWorkers \subseteq InCount \cup {"Selecting", "Selected", "Listed", "Counted"}
      BY DEF OfWorkers, InCount
    <3>3. /\ Cardinality(Part(Jobs, OfWorkers)) <= Cardinality(Part(Jobs, InCount)) + Cardinality(Held)
          /\ Cardinality(Held) \in Nat
          /\ Cardinality(Part(Jobs, InCount)) \in Nat
      BY <3>2, CountedAndHeld
    <3>4. workers_in_use = Cardinality(Part(Jobs, InCount))
      BY DEF Books
    <3>5. QED
      BY <1>0, <2>2, <3>1, <3>3, <3>4
  <2>5. QED
    BY <2>3, <2>4 DEF Overshoot
<1>2. ASSUME NEW j \in Jobs, NEW from, NEW to, Moves(j, from, to),
             to \in OfUser => from \in OfUser, to \in OfWorkers => from \in OfWorkers
      PROVE  Overshoot'
  <2>1. ASSUME NEW u \in Users
        PROVE  Cardinality(Part(JobsOf(u), OfUser))' <= UserCap + Dispatchers - 1
    <3>1. JobsOf(u) \in SUBSET Jobs
      BY <1>0
    <3>2. /\ Cardinality(Part(JobsOf(u), OfUser))' =
               Cardinality(Part(JobsOf(u), OfUser))
               + B(j \in JobsOf(u) /\ to \in OfUser) - B(j \in JobsOf(u) /\ from \in OfUser)
          /\ Cardinality(Part(JobsOf(u), OfUser)) \in Nat
      <4>1. phase \in [Jobs -> Phases] /\ Moves(j, from, to)
        BY <1>0, <1>2
      <4>2. QED
        BY <3>1, <4>1, MoveCount
    <3>3. QED
      BY <1>0, <1>2, <3>2 DEF Overshoot, B
  <2>2. /\ Cardinality(Part(Jobs, OfWorkers))' =
             Cardinality(Part(Jobs, OfWorkers)) + B(j \in Jobs /\ to \in OfWorkers) - B(j \in Jobs /\ from \in OfWorkers)
        /\ Cardinality(Part(Jobs, OfWorkers)) \in Nat
    BY <1>0, <1>2, MoveCount
  <2>3. QED
    BY <1>0, <1>2, <2>1, <2>2 DEF Overshoot, B
<1>3. ASSUME NEW j \in Jobs, Submit(j) \/ Proceed(j)
      PROVE  Overshoot'
  <2>1. PICK from, to \in Phases :
          /\ Moves(j, from, to)
          /\ to \in OfUser => from \in OfUser
          /\ to \in OfWorkers => from \in OfWorkers
    BY <1>3 DEF Submit, Proceed, Push, CountDequeued, List, TakeWorker, CountActive, Unlist,
                FreeWorker, CountInactive, OfUser, OfWorkers, Phases
  <2>2. QED
    BY <1>2, <2>1
<1>4. ASSUME NEW u \in Users, CancelUserJobs(u)
      PROVE  Overshoot'
  <2>1. \A j \in Jobs : phase'[j] = phase[j] \/ (phase[j] = "Queued" /\ phase'[j] = "Out")
    BY <1>4 DEF CancelUserJobs, QueuedOf, In
  <2>2. /\ Part(Jobs, OfWorkers)' = Part(Jobs, OfWorkers)
        /\ \A v \in Users : Part(JobsOf(v), OfUser)' = Part(JobsOf(v), OfUser)
    BY <1>0, <2>1 DEF Part, OfWorkers, OfUser
  <2>3. QED
    BY <2>2 DEF Overshoot
<1>5. CASE UNCHANGED phase
  BY <1>5 DEF Overshoot, Part
<1>6. QED
  BY <1>1, <1>3, <1>4, <1>5 DEF Next, SetUserTier, Tick, vars

(* With any number of dispatchers, whatever the tiers: no user ever has     *)
(* more than the cap plus the other dispatchers' jobs listed as running,    *)
(* and no more workers are in use than there are, plus those others.  With  *)
(* a single dispatcher the cap of 30% is never exceeded.                    *)
THEOREM OvershootCorrect == Spec => []OvershootIsBounded
<1>1. Init => Books /\ Overshoot
  <2>1. SUFFICES ASSUME Init PROVE Books /\ Overshoot
    OBVIOUS
  <2>2. \A Q \in SUBSET Jobs : \A P \in SUBSET (Phases \ {"Out"}) : Part(Q, P) = {}
    BY <2>1 DEF Init, Part
  <2>3. \A u \in Users : JobsOf(u) \in SUBSET Jobs
    BY DEF JobsOf
  <2>4. \A u \in Users : /\ Part(JobsOf(u), InList) = {} /\ Part(JobsOf(u), InStats) = {}
                        /\ Part(JobsOf(u), OfUser) = {}
    BY <2>2, <2>3 DEF InList, InStats, OfUser, Phases
  <2>5. Part(Jobs, InCount) = {} /\ Part(Jobs, OfWorkers) = {}
    BY <2>2 DEF InCount, OfWorkers, Phases
  <2>6. UserCap \in Nat /\ TotalWorkers \in Nat /\ Dispatchers \in Nat \ {0}
    BY ConstantsAssumption DEF UserCap
  <2>7. Books
    BY <2>1, <2>4, <2>5, FS_EmptySet DEF Init, Books, Phases
  <2>8. Overshoot
    <3>1. /\ \A u \in Users : Cardinality(Part(JobsOf(u), OfUser)) = 0
          /\ Cardinality(Part(Jobs, OfWorkers)) = 0
      BY <2>4, <2>5, FS_EmptySet
    <3>2. 0 <= UserCap + Dispatchers - 1 /\ 0 <= TotalWorkers + Dispatchers - 1
      BY <2>6
    <3>3. QED
      BY <3>1, <3>2 DEF Overshoot
  <2>9. QED
    BY <2>7, <2>8
<1>2. Books /\ Overshoot => OvershootIsBounded
  <2>1. SUFFICES ASSUME Books, Overshoot PROVE OvershootIsBounded
    OBVIOUS
  <2>2. UserCap \in Nat /\ TotalWorkers \in Nat /\ Dispatchers \in Nat \ {0}
    BY ConstantsAssumption DEF UserCap
  <2>3. ASSUME NEW u \in Users
        PROVE  Cardinality(running_jobs[u]) <= UserCap + Dispatchers - 1
    <3>1. running_jobs[u] = Part(JobsOf(u), InList) /\ JobsOf(u) \in SUBSET Jobs
      BY <2>1 DEF Books, JobsOf
    <3>2. InList \subseteq OfUser
      BY DEF InList, OfUser
    <3>3. /\ Cardinality(Part(JobsOf(u), InList)) <= Cardinality(Part(JobsOf(u), OfUser))
          /\ Cardinality(Part(JobsOf(u), OfUser)) \in Nat
      BY <3>1, <3>2, PartCount
    <3>4. Cardinality(Part(JobsOf(u), InList)) \in Nat
      BY <3>1, PartCount
    <3>5. QED
      BY <2>1, <2>2, <3>1, <3>3, <3>4 DEF Overshoot
  <2>4. workers_in_use <= TotalWorkers + Dispatchers - 1
    <3>1. InCount \subseteq OfWorkers
      BY DEF InCount, OfWorkers
    <3>2. /\ Cardinality(Part(Jobs, InCount)) <= Cardinality(Part(Jobs, OfWorkers))
          /\ Cardinality(Part(Jobs, OfWorkers)) \in Nat
          /\ Cardinality(Part(Jobs, InCount)) \in Nat
      BY <3>1, PartCount
    <3>3. QED
      BY <2>1, <2>2, <3>2 DEF Overshoot, Books
  <2>5. QED
    BY <2>3, <2>4 DEF OvershootIsBounded
<1>3. QED
  BY <1>1, <1>2, BooksKept, OvershootKept, PTL DEF Spec

-----------------------------------------------------------------------------
(* The queue's statistics *)

InQueue == {"Submitting", "Queued", "Selecting"}

(* What the statistics say is queued is there, or on its way in or out,     *)
(* although cancel_user_jobs forgets submissions that have been counted and *)
(* not yet pushed.                                                          *)
THEOREM QueueCountCorrect == Spec => []QueueIsNotOverstated
<1> DEFINE Count(u) == Cardinality(Part(JobsOf(u), InQueue))
           Inv == /\ phase \in [Jobs -> Phases]
                  /\ queued_jobs \in [Users -> Nat]
                  /\ \A u \in Users : queued_jobs[u] <= Count(u)
<1>1. Init => Inv
  <2>1. SUFFICES ASSUME Init PROVE Inv
    OBVIOUS
  <2>2. ASSUME NEW u \in Users
        PROVE  Count(u) \in Nat
    <3>1. JobsOf(u) \in SUBSET Jobs
      BY DEF JobsOf
    <3>2. QED
      BY <3>1, PartCount
  <2>3. QED
    BY <2>1, <2>2 DEF Init, Phases
<1>2. Inv /\ [Next]_vars => Inv'
  <2>1. SUFFICES ASSUME Inv, [Next]_vars PROVE Inv'
    OBVIOUS
  <2> USE <2>1
  <2>2. ASSUME NEW j \in Jobs, NEW from, NEW to, Moves(j, from, to), to \in Phases,
               NEW u \in Users
        PROVE  /\ phase' \in [Jobs -> Phases]
               /\ Count(u)' = Count(u) + B(u = UserOf[j] /\ to \in InQueue) - B(u = UserOf[j] /\ from \in InQueue)
               /\ Count(u) \in Nat
    <3>1. JobsOf(u) \in SUBSET Jobs /\ (j \in JobsOf(u) <=> u = UserOf[j])
      BY DEF JobsOf
    <3>2. phase \in [Jobs -> Phases] /\ Moves(j, from, to)
      BY <2>2
    <3>3. phase' \in [Jobs -> Phases]
      BY <2>2, <3>2 DEF Moves
    <3>4. QED
      BY <3>1, <3>2, <3>3, MoveCount
  <2>3. ASSUME NEW j \in Jobs, Submit(j)
        PROVE  Inv'
    <3>1. Moves(j, "Out", "Submitting") /\ queued_jobs' = [queued_jobs EXCEPT ![UserOf[j]] = @ + 1]
      BY <2>3 DEF Submit
    <3>2. \A u \in Users : Count(u)' = Count(u) + B(u = UserOf[j]) /\ Count(u) \in Nat
      BY <2>2, <3>1 DEF Phases, InQueue, B
    <3>3. phase' \in [Jobs -> Phases]
      BY <3>1 DEF Moves, Phases
    <3>4. ASSUME NEW u \in Users
          PROVE  queued_jobs'[u] \in Nat /\ queued_jobs'[u] <= Count(u)'
      <4>1. queued_jobs'[u] = queued_jobs[u] + B(u = UserOf[j])
        BY <3>1 DEF B
      <4>2. Count(u)' = Count(u) + B(u = UserOf[j]) /\ Count(u) \in Nat
        BY <3>2
      <4>3. B(u = UserOf[j]) \in {0, 1} /\ queued_jobs[u] \in Nat /\ queued_jobs[u] <= Count(u)
        BY DEF B
      <4>4. QED
        BY <4>1, <4>2, <4>3
    <3>5. queued_jobs' \in [Users -> Nat]
      BY <3>1, <3>4
    <3>6. QED
      BY <3>3, <3>4, <3>5
  <2>4. ASSUME NEW j \in Jobs, CountDequeued(j)
        PROVE  Inv'
    <3>1. Moves(j, "Selecting", "Selected") /\ queued_jobs' = [queued_jobs EXCEPT ![UserOf[j]] = Minus1(@)]
      BY <2>4 DEF CountDequeued
    <3>2. \A u \in Users : /\ Count(u)' = Count(u) - B(u = UserOf[j])
                          /\ Count(u) \in Nat
      BY <2>2, <3>1 DEF Phases, InQueue, B
    <3>3. phase' \in [Jobs -> Phases]
      BY <3>1 DEF Moves, Phases
    <3>4. ASSUME NEW u \in Users
          PROVE  queued_jobs'[u] \in Nat /\ queued_jobs'[u] <= Count(u)'
      <4>1. JobsOf(u) \in SUBSET Jobs
        BY DEF JobsOf
      <4>2. u = UserOf[j] => Count(u) >= 1
        <5>1. phase \in [Jobs -> Phases] /\ Moves(j, "Selecting", "Selected") /\ "Selecting" \in InQueue
          BY <3>1 DEF InQueue
        <5>2. j \in JobsOf(u) => Count(u) >= 1
          BY <4>1, <5>1, MoveCount
        <5>3. QED
          BY <5>2 DEF JobsOf
      <4>3. QED
        BY <3>1, <3>2, <4>2 DEF B, Minus1
    <3>5. queued_jobs' \in [Users -> Nat]
      BY <3>1, <3>4
    <3>6. QED
      BY <3>3, <3>4, <3>5
  <2>5. ASSUME NEW j \in Jobs, GetNextJob(j) \/ (Proceed(j) /\ ~CountDequeued(j))
        PROVE  Inv'
    <3>1. /\ queued_jobs' = queued_jobs
          /\ \E from, to \in Phases :
               Moves(j, from, to) /\ (from \in InQueue <=> to \in InQueue)
      BY <2>5 DEF GetNextJob, Proceed, Push, List, TakeWorker, CountActive, Unlist,
                  FreeWorker, CountInactive, InQueue, Phases, stats
    <3>2. PICK from, to \in Phases :
            Moves(j, from, to) /\ (from \in InQueue <=> to \in InQueue)
      BY <3>1
    <3>3. \A u \in Users : Count(u)' = Count(u)
      BY <2>2, <3>2 DEF B
    <3>4. phase' \in [Jobs -> Phases]
      BY <3>2 DEF Moves
    <3>5. QED
      BY <3>1, <3>3, <3>4
  <2>6. ASSUME NEW v \in Users, CancelUserJobs(v)
        PROVE  Inv'
    <3>1. /\ phase' = [j \in Jobs |-> IF j \in QueuedOf(v) THEN "Out" ELSE phase[j]]
          /\ queued_jobs' = [queued_jobs EXCEPT ![v] = 0]
      BY <2>6 DEF CancelUserJobs
    <3>2. phase' \in [Jobs -> Phases]
      BY <3>1 DEF Phases
    <3>3. \A u \in Users \ {v} : Part(JobsOf(u), InQueue)' = Part(JobsOf(u), InQueue)
      BY <3>1 DEF QueuedOf, In, JobsOf, Part
    <3>4. Count(v)' \in Nat
      <4> DEFINE S == {j \in JobsOf(v) : phase'[j] \in InQueue}
      <4>1. S = Part(JobsOf(v), InQueue)'
        BY DEF Part
      <4>2. S \in SUBSET Jobs
        BY DEF JobsOf
      <4>3. Cardinality(S) \in Nat
        BY <4>2, FS_Subset, FS_CardinalityType, ConstantsAssumption
      <4>4. QED
        BY <4>1, <4>3
    <3>5. ASSUME NEW u \in Users
          PROVE  queued_jobs'[u] \in Nat /\ queued_jobs'[u] <= Count(u)'
      <4>1. CASE u = v
        BY <3>1, <3>4, <4>1
      <4>2. CASE u # v
        <5>1. Count(u)' = Count(u)
          BY <3>3, <4>2
        <5>2. queued_jobs'[u] = queued_jobs[u]
          BY <3>1, <4>2
        <5>3. QED
          BY <5>1, <5>2
      <4>3. QED
        BY <4>1, <4>2
    <3>6. queued_jobs' \in [Users -> Nat]
      BY <3>1
    <3>7. QED
      BY <3>2, <3>5, <3>6
  <2>7. CASE UNCHANGED <<phase, queued_jobs>>
    BY <2>7 DEF Part
  <2>8. QED
    BY <2>3, <2>4, <2>5, <2>6, <2>7 DEF Next, Proceed, SetUserTier, Tick, stats, vars
<1>3. Inv => QueueIsNotOverstated
  <2>1. \A u \in Users : Part(JobsOf(u), InQueue) = {j \in In(InQueue) : UserOf[j] = u}
    BY DEF Part, JobsOf, In
  <2>2. QED
    BY <2>1 DEF QueueIsNotOverstated, InQueue
<1>4. QED
  BY <1>1, <1>2, <1>3, PTL DEF Spec
=============================================================================
