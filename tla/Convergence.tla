----------------------------- MODULE Convergence -----------------------------
(***************************************************************************)
(* Reference convergence (orchestrator/src/convergence.rs): a document is  *)
(* compiled again and again until its auxiliary files stop changing, a     *)
(* state of them comes back, or a bound on passes or time is reached.  The *)
(* caller does as the tests do: start, one record_pass per compilation     *)
(* while it answers Ok(true), finalize after Ok(false), handle_error after *)
(* Err.  What a compilation writes is arbitrary: files change, appear and  *)
(* disappear between passes.                                               *)
(***************************************************************************)
EXTENDS Integers, Sequences

CONSTANTS Files,     \* auxiliary files
          Hashes,    \* contents of them (AuxFileState)
          MaxPasses  \* max_passes

ASSUME ConvergenceAssumption == MaxPasses \in Nat \ {0}

(* HashMap<PathBuf, AuxFileState> *)
AuxStates == UNION {[S -> Hashes] : S \in SUBSET Files}

VARIABLES pass_states,    \* what each recorded pass left
          changed_files,  \* the files that differ between the last two passes
          converged,
          overtime,       \* max_time has passed since start
          outcome         \* what the caller has been told

convergence == <<pass_states, changed_files, converged, overtime, outcome>>

(* current_pass is incremented with every push onto pass_states. *)
current_pass == Len(pass_states)

Running == [kind |-> "Running"]

Partial(cause, files) == [kind |-> "PartialConvergence", cause |-> cause, unstable |-> files]

ConvergenceInit ==
  /\ pass_states = <<>>
  /\ changed_files = {}
  /\ converged = FALSE
  /\ overtime = FALSE
  /\ outcome = Running

(* The files of a pass that the pass before did not leave just so.  A file  *)
(* that has gone is not among them.                                         *)
ChangedSince(previous, current) ==
  {f \in DOMAIN current : f \in DOMAIN previous => previous[f] # current[f]}

ChangedBy(aux) ==
  IF pass_states = <<>> THEN changed_files ELSE ChangedSince(pass_states[current_pass], aux)

IsStable(aux) == pass_states # <<>> /\ ChangedBy(aux) = {}

(* Slips of the search for a cycle: only the state of two passes ago is     *)
(* compared; only the names of the files are.                               *)
IsOscillationOfTwo(aux) == current_pass > 1 /\ pass_states[current_pass - 1] = aux

IsOscillationOfNames(aux) == \E i \in 1 .. current_pass - 1 : DOMAIN pass_states[i] = DOMAIN aux

(* The state of two or more passes ago has come back. *)
IsOscillation(aux) == \E i \in 1 .. current_pass - 1 : pass_states[i] = aux

Push(aux) ==
  /\ pass_states' = Append(pass_states, aux)
  /\ changed_files' = ChangedBy(aux)
  /\ UNCHANGED overtime

(* A slip of record_pass: one pass too many. *)
RecordPassTooMany(aux) ==
  /\ outcome = Running /\ ~overtime
  /\ ~IsStable(aux) /\ ~IsOscillation(aux)
  /\ current_pass < MaxPasses
  /\ Push(aux)
  /\ UNCHANGED <<converged, outcome>>

(* record_pass beyond max_time records nothing; handle_error(Timeout)       *)
RecordTimeout ==
  /\ outcome = Running
  /\ overtime
  /\ outcome' = [kind |-> "Failed", cause |-> "Timeout"]
  /\ UNCHANGED <<pass_states, changed_files, converged, overtime>>

(* record_pass answers Ok(false); finalize *)
RecordStable(aux) ==
  /\ outcome = Running /\ ~overtime
  /\ IsStable(aux)
  /\ Push(aux)
  /\ converged' = TRUE
  /\ outcome' = [kind |-> "Converged", passes |-> current_pass + 1]

(* handle_error(OscillationDetected) *)
RecordOscillation(aux) ==
  /\ outcome = Running /\ ~overtime
  /\ ~IsStable(aux) /\ IsOscillation(aux)
  /\ Push(aux)
  /\ outcome' = Partial("OscillationDetected", ChangedBy(aux))
  /\ UNCHANGED converged

(* handle_error(MaxPassesExceeded) *)
RecordLastPass(aux) ==
  /\ outcome = Running /\ ~overtime
  /\ ~IsStable(aux) /\ ~IsOscillation(aux)
  /\ current_pass + 1 >= MaxPasses
  /\ Push(aux)
  /\ outcome' = Partial("MaxPassesExceeded", ChangedBy(aux))
  /\ UNCHANGED converged

(* record_pass answers Ok(true) *)
RecordPass(aux) ==
  /\ outcome = Running /\ ~overtime
  /\ ~IsStable(aux) /\ ~IsOscillation(aux)
  /\ current_pass + 1 < MaxPasses
  /\ Push(aux)
  /\ UNCHANGED <<converged, outcome>>

(* max_time passes. *)
Expire ==
  /\ outcome = Running
  /\ ~overtime
  /\ overtime' = TRUE
  /\ UNCHANGED <<pass_states, changed_files, converged, outcome>>

(* start, for the next compilation of the document *)
Start ==
  /\ outcome # Running
  /\ pass_states' = <<>>
  /\ changed_files' = {}
  /\ converged' = FALSE
  /\ overtime' = FALSE
  /\ outcome' = Running

ConvergenceNext ==
  \/ RecordTimeout \/ Expire \/ Start
  \/ \E aux \in AuxStates :
       RecordStable(aux) \/ RecordOscillation(aux) \/ RecordLastPass(aux) \/ RecordPass(aux)

ConvergenceSpec == ConvergenceInit /\ [][ConvergenceNext]_convergence

-----------------------------------------------------------------------------
(* Properties *)

(* As long as another pass is asked for, no state of the auxiliary files    *)
(* has come twice: a cycle of any length is noticed on the pass that closes *)
(* it, and never runs until the bound.                                      *)
NoRepeatGoesUnnoticed ==
  outcome = Running =>
    \A i, k \in 1 .. current_pass : i # k => pass_states[i] # pass_states[k]

(* SYSTEM_ANALYSIS.md, Rule 2: at most MaxPasses passes, whatever ends the  *)
(* process, and one more only when it has not converged.                    *)
PassesAreBounded ==
  /\ current_pass <= MaxPasses
  /\ outcome = Running => current_pass < MaxPasses /\ ~converged

(* Oscillation is reported only of a real cycle: the state that came back   *)
(* was left in between.                                                     *)
OscillationIsReal ==
  (outcome.kind = "PartialConvergence" /\ outcome.cause = "OscillationDetected") =>
    \E i \in 1 .. current_pass - 2 :
      /\ pass_states[i] = pass_states[current_pass]
      /\ pass_states[i] # pass_states[current_pass - 1]
=============================================================================
