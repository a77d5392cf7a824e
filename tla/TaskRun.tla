------------------------------- MODULE TaskRun -------------------------------
(***************************************************************************)
(* The TaskRun state machine of internal/taskrun/taskrun.go: the states,   *)
(* the transition table every handler goes through, and the predicate that *)
(* tells a finished run from one that still occupies the controller.       *)
(***************************************************************************)
EXTENDS Integers

CONSTANT MaxRetries   \* TaskRun.MaxRetries, set to 1 by taskrun.New

ASSUME MaxRetriesAssumption == MaxRetries \in Nat

States == {"Queued", "Running", "NeedsHuman", "Succeeded", "Failed",
           "Retrying", "TimedOut"}

\* An id no TaskRun has been allocated for yet.
Unused == "unused"

\* A state the map has no entry for has no successor.
validTransitions ==
  [Queued     |-> {"Running", "NeedsHuman"},
   Running    |-> {"NeedsHuman", "Succeeded", "Failed", "TimedOut"},
   NeedsHuman |-> {"Running", "Failed"},
   Failed     |-> {"Retrying"},
   Retrying   |-> {"Running"}]

\* Transition(target) returns no error exactly when this holds.
CanTransition(s, target) == s \in DOMAIN validTransitions /\ target \in validTransitions[s]

\* IsTerminal: a Failed run is terminal only once its retries are used up.
IsTerminal(s, retryCount) ==
  \/ s \in {"Succeeded", "TimedOut"}
  \/ s = "Failed" /\ retryCount >= MaxRetries
=============================================================================
