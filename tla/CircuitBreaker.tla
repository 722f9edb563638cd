--------------------------- MODULE CircuitBreaker ---------------------------
(***************************************************************************)
(* The circuit breaker of one document                                     *)
(* (orchestrator/src/circuit_breaker.rs).  The records of two documents do *)
(* not influence each other, and every method holds the lock of the record *)
(* map throughout, so a method is an action.                               *)
(*                                                                         *)
(* The callers check before they compile and record the outcome            *)
(* afterwards; several compilations of the document may be under way, and  *)
(* their outcomes arrive in any order.  Instants are kept as time passed   *)
(* since last_failure and time left until quarantine_until.                *)
(***************************************************************************)
EXTENDS Integers

CONSTANTS MaxFailures,  \* config.max_failures
          Quarantine,   \* config.quarantine_duration
          Cooldown,     \* config.cooldown_period
          Idle,         \* idle_threshold of cleanup_idle_records
          MaxRunning,   \* bound: compilations of the document under way
          MaxCount,     \* bound: failure_count
          MaxAge        \* bound: time since the last failure is counted up to this

ASSUME CircuitBreakerAssumption ==
  /\ {MaxFailures, Quarantine, Cooldown, Idle, MaxRunning, MaxCount, MaxAge} \subseteq Nat
  /\ MaxFailures > 0
  /\ MaxAge > Cooldown /\ MaxAge >= Quarantine /\ MaxAge >= Idle

VARIABLES known,            \* the document has a record
          state,
          failure_count,
          last_failure,     \* time since then
          quarantine_left,  \* time until quarantine_until, 0 when None
          running           \* compilations under way that a check allowed

record == <<known, state, failure_count, last_failure, quarantine_left>>
breaker == <<record, running>>

FreshRecord ==
  /\ state = "Closed"
  /\ failure_count = 0
  /\ last_failure = 0
  /\ quarantine_left = 0

BreakerInit == known = FALSE /\ FreshRecord /\ running = 0

(* A slip of update_state: the cooldown ends the quarantine. *)
UpdatedStateAfterCooldown == IF state = "Open" /\ last_failure > Cooldown THEN "HalfOpen" ELSE state

(* update_state *)
UpdatedState == IF state = "Open" /\ quarantine_left = 0 THEN "HalfOpen" ELSE state
UpdatedCount == IF state = "Closed" /\ last_failure > Cooldown THEN 0 ELSE failure_count

(* check, which creates the record, up to its answer *)
Check ==
  /\ known' = TRUE
  /\ state' = UpdatedState
  /\ failure_count' = UpdatedCount
  /\ UNCHANGED <<last_failure, quarantine_left>>

CheckAllowed ==
  /\ UpdatedState # "Open"
  /\ running < MaxRunning
  /\ Check
  /\ running' = running + 1

(* A slip of check: asking extends the quarantine. *)
CheckRejectedExtends ==
  /\ UpdatedState = "Open"
  /\ quarantine_left' = Quarantine
  /\ UNCHANGED <<known, state, failure_count, last_failure, running>>

CheckRejected ==
  /\ UpdatedState = "Open"
  /\ Check
  /\ UNCHANGED running

(* One of the compilations under way ends. *)
Finish == running > 0 /\ running' = running - 1

ClearRecord ==
  /\ state' = "Closed"
  /\ failure_count' = 0
  /\ quarantine_left' = 0
  /\ UNCHANGED <<known, last_failure>>

RecordSuccess ==
  /\ Finish
  /\ IF known THEN ClearRecord ELSE UNCHANGED record

(* A slip of record_failure: only the failure that reaches the limit opens  *)
(* the circuit.                                                             *)
RecordFailureAtLimit ==
  /\ Finish
  /\ failure_count < MaxCount
  /\ known' = TRUE
  /\ failure_count' = failure_count + 1
  /\ last_failure' = 0
  /\ IF failure_count' = MaxFailures
     THEN state' = "Open" /\ quarantine_left' = Quarantine
     ELSE UNCHANGED <<state, quarantine_left>>

RecordFailure ==
  /\ Finish
  /\ failure_count < MaxCount
  /\ known' = TRUE
  /\ failure_count' = failure_count + 1
  /\ last_failure' = 0
  /\ IF failure_count' >= MaxFailures
     THEN state' = "Open" /\ quarantine_left' = Quarantine
     ELSE UNCHANGED <<state, quarantine_left>>

ReleaseQuarantine ==
  /\ known
  /\ ClearRecord
  /\ UNCHANGED running

(* cleanup_idle_records, when it drops this document's record *)
CleanupIdleRecords ==
  /\ known
  /\ ~(last_failure < Idle) /\ state # "Open"
  /\ known' = FALSE
  /\ state' = "Closed" /\ failure_count' = 0 /\ last_failure' = 0 /\ quarantine_left' = 0
  /\ UNCHANGED running

(* Time passes; without a record nothing ages. *)
Tick ==
  /\ known
  /\ last_failure' = IF last_failure < MaxAge THEN last_failure + 1 ELSE last_failure
  /\ quarantine_left' = IF quarantine_left > 0 THEN quarantine_left - 1 ELSE 0
  /\ UNCHANGED <<known, state, failure_count, running>>

BreakerNext ==
  \/ CheckAllowed \/ CheckRejected
  \/ RecordSuccess \/ RecordFailure
  \/ ReleaseQuarantine \/ CleanupIdleRecords
  \/ Tick

BreakerSpec == BreakerInit /\ [][BreakerNext]_breaker

-----------------------------------------------------------------------------
(* Properties *)

(* The time left is the quarantine minus the age of the last failure: no    *)
(* failure reported late into an open circuit fails to extend it, and none  *)
(* leaves it standing past its time.                                        *)
QuarantineCountsFromLastFailure ==
  state = "Open" =>
    quarantine_left = IF last_failure < Quarantine THEN Quarantine - last_failure ELSE 0

(* A document at its limit of failures is compiled again only when the last *)
(* failure is a full quarantine old (a success, a release or a cleanup      *)
(* resets the count first).                                                 *)
NoAdmissionInQuarantine ==
  [][running' > running /\ failure_count >= MaxFailures => last_failure >= Quarantine]_breaker

(* Quarantine ends although late failures may extend it, and although it    *)
(* only ever ends when somebody asks.                                       *)
QuarantineEnds == state = "Open" ~> state # "Open"
=============================================================================
