---------------------------- MODULE RunLifecycle ----------------------------
(***************************************************************************)
(* What a TaskRun promises, whoever drives it: it only moves along         *)
(* validTransitions, it is relaunched at most MaxRetries times on the same *)
(* engine, and an outcome is final.  Reconciler implements this with       *)
(* several goroutines that share the run.                                  *)
(***************************************************************************)
EXTENDS TaskRun

CONSTANT Runs

VARIABLES state, retry

lifecycle == <<state, retry>>

Init == /\ state = [r \in Runs |-> Unused]
        /\ retry = [r \in Runs |-> 0]

\* A new run is seen Queued, or after the first step it takes from there.
Create(r) == /\ state[r] = Unused
             /\ \E s \in {"Queued"} \cup validTransitions["Queued"] :
                  state' = [state EXCEPT ![r] = s]
             /\ UNCHANGED retry

\* One step along the table.  Retrying is entered by Relaunch only.
Advance(r) == /\ \E s \in States \ {"Retrying"} :
                   /\ CanTransition(state[r], s)
                   /\ state' = [state EXCEPT ![r] = s]
              /\ UNCHANGED retry

\* A failed attempt that another one follows: on another engine of the chain,
\* or as a retry, which uses up a part of the budget.
Relaunch(r) ==
  /\ CanTransition(state[r], "Failed") /\ CanTransition("Failed", "Retrying")
  /\ state' = [state EXCEPT ![r] = "Retrying"]
  /\ \/ UNCHANGED retry
     \/ retry[r] < MaxRetries /\ retry' = [retry EXCEPT ![r] = @ + 1]

\* The budget is taken away, so that a failure is final.
Exhaust(r) ==
  /\ retry' = [retry EXCEPT ![r] = MaxRetries]
  /\ \/ UNCHANGED state
     \/ CanTransition(state[r], "Failed") /\ state' = [state EXCEPT ![r] = "Failed"]

Next == \E r \in Runs : Create(r) \/ Advance(r) \/ Relaunch(r) \/ Exhaust(r)

Spec == Init /\ [][Next]_lifecycle
=============================================================================
