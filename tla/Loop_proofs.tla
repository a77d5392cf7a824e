----------------------------- MODULE Loop_proofs -----------------------------
(***************************************************************************)
(* The Jobs the reconcile loop looks after when it alone starts runs, and  *)
(* nobody but a callback on a finished Job handles them beside it.         *)
(***************************************************************************)
EXTENDS Reconciler_proofs

USE DEF Threads, Goto, Enter, Return, AfterTicket, AfterJob

\* Where the loop has taken up a run.
Handling == {"complete", "failed", "decide", "decideFallback", "fallback", "retry",
             "reportComplete", "reportFailed"}

NoLiveJob(r) == \A j \in DOMAIN jobs : j[1] = r => jobs[j] # "active"

\* The run the loop has taken up is registered, its Job has ended, and its state is
\* the loop's to change.
LoopHolds ==
  /\ pc[Loop] \in Handling =>
       Registered(cur[Loop]) /\ NoLiveJob(cur[Loop]) /\ cur[Loop] \notin todo[Loop]
  /\ pc[Loop] \in {"complete", "failed", "decide", "decideFallback"} =>
       state[cur[Loop]] = "Running"
  /\ pc[Loop] \in {"fallback", "retry"} => state[cur[Loop]] = "Retrying"
  /\ pc[Loop] = "decideFallback" => attempts[cur[Loop]] < ChainLen
  /\ pc[Loop] = "admit" => ~Occupied(tk[Loop])

\* So is every run it will look at in this tick; a callback holds another one.
LoopWillHold ==
  /\ \A r \in todo[Loop] : Registered(r) /\ state[r] = "Running"
  /\ todo[Loop] # {} => pc[Loop] \in Handling \cup {"reap"}
  /\ \A h \in Hooks : /\ pc[h] \in {"idle", "reject", "preMerge", "reportFailed"}
                      /\ pc[h] # "idle" => state[cur[h]] \in {"NeedsHuman", "Failed"}
  /\ \A r \in Runs : gate[r] # "continuation"

\* LiveJobsAreTracked rests on these views the goroutines have of the runs.
TrackInv == LiveJobsAreTracked /\ LoopHolds /\ LoopWillHold

-----------------------------------------------------------------------------
(* A live Job is the one its run names *)

\* What the leaves below need of the types, beside LoopTypes.
TrackTypes ==
  /\ LoopTypes /\ ChainLen \in Nat /\ attempts \in [Runs -> Nat \ {0}]
  /\ jobName \in [Runs -> JobNames \cup {NoJob}]
  /\ \A j \in DOMAIN jobs : j[1] \in Runs
  /\ pc[Loop] \in Handling => cur[Loop] \in Runs /\ ticketOf[cur[Loop]] \in Tickets
  /\ \A h \in Hooks : pc[h] \in Asks => cur[h] \in Runs

LEMMA HandledTickets ==
  ASSUME TypeInv
  PROVE  \A th \in Threads : pc[th] = "admit" => tk[th] \in Tickets
  BY DEF TypeInv, HandlesRuns

LEMMA TypesOfTrack ==
  ASSUME TypeInv
  PROVE  TrackTypes
<1>1. \A th \in Threads : pc[th] \in Handling \cup Asks => cur[th] \in Runs /\ ticketOf[cur[th]] \in Tickets
  BY DEF TypeInv, HandlesRuns, InHandler, Handling, Asks, Resting
<1>2. QED
  BY <1>1, TypesOfLoop, JobHasRun, ConfigAssumption, Zenon DEF TypeInv, RunTypes, TrackTypes

\* A step of the loop that leaves Jobs and their names alone and changes at most the
\* state of the run it has taken up.
LEMMA TrackHandled ==
  ASSUME TypeInv, TrackInv, OnlyMoves(Loop), pc[Loop] \in Handling,
         UNCHANGED <<jobs, jobName, taskRuns, ticketOf, todo>>,
         \/ UNCHANGED state
         \/ /\ state[cur[Loop]] \in {"Running", "Retrying"}
            /\ \E s : state' = [state EXCEPT ![cur[Loop]] = s],
         \A r \in Runs : gate'[r] # "continuation",
         pc'[Loop] \in Handling \cup {"reap"}, pc'[Loop] \in Handling => cur'[Loop] = cur[Loop],
         pc'[Loop] \in {"complete", "failed", "decide", "decideFallback"} =>
           state'[cur[Loop]] = "Running",
         pc'[Loop] \in {"fallback", "retry"} => state'[cur[Loop]] = "Retrying",
         pc'[Loop] = "decideFallback" => attempts'[cur[Loop]] < ChainLen
  PROVE  TrackInv'
<1>1. \A r \in Runs : r # cur[Loop] => state'[r] = state[r]
  BY TypesOfTrack, Zenon DEF TrackTypes, LoopTypes
<1>2. LiveJobsAreTracked'
  BY <1>1, TypesOfTrack DEF TrackInv, LiveJobsAreTracked, LoopHolds, NoLiveJob, Registered,
       TrackTypes
<1>3. LoopHolds'
  BY Zenon DEF TrackInv, LoopHolds, NoLiveJob, Registered, Handling
<1>4. LoopWillHold'
  <2>1. \A h \in Hooks : pc[h] # "idle" => cur[h] \in Runs /\ state[cur[h]] \in {"NeedsHuman", "Failed"}
    BY TypesOfTrack, Zenon DEF TrackInv, LoopWillHold, Asks, TrackTypes
  <2>2. \A h \in Hooks : pc'[h] = pc[h] /\ cur'[h] = cur[h]
    BY TypesOfTrack, Zenon DEF OnlyMoves, TrackTypes, LoopTypes
  <2>3. \A h \in Hooks : pc[h] # "idle" => state'[cur[h]] = state[cur[h]]
    BY <1>1, <2>1, Zenon
  <2>4. \A r \in todo[Loop] : r \in Runs /\ r # cur[Loop]
    BY TypesOfTrack, Zenon DEF TrackInv, LoopHolds, TrackTypes, LoopTypes
  <2>5. QED
    BY <1>1, <2>1, <2>2, <2>3, <2>4 DEF TrackInv, LoopWillHold, Registered
<1>5. QED
  BY <1>2, <1>3, <1>4, Zenon DEF TrackInv

\* A step of the loop that changes nothing of the runs and takes up none.
LEMMA TrackUnchanged ==
  ASSUME TypeInv, TrackInv, OnlyMoves(Loop),
         UNCHANGED <<jobs, jobName, taskRuns, ticketOf, state, gate, retry>>,
         pc'[Loop] \notin Handling, pc'[Loop] = "admit" => ~Occupied(tk'[Loop]),
         \A r \in todo'[Loop] : r \in Runs /\ Registered(r) /\ state[r] = "Running",
         todo'[Loop] = {} \/ pc'[Loop] = "reap"
  PROVE  TrackInv'
<1>1. LiveJobsAreTracked'
  BY Zenon DEF TrackInv, LiveJobsAreTracked, Registered
<1>2. LoopHolds'
  BY Zenon DEF LoopHolds, Handling, Occupied, Terminal
<1>3. LoopWillHold'
  BY TypesOfTrack DEF TrackInv, LoopWillHold, Registered, OnlyMoves, TrackTypes, LoopTypes
<1>4. QED
  BY <1>1, <1>2, <1>3 DEF TrackInv

LEMMA TrackTick ==
  ASSUME TypeInv, TrackInv,
         \/ LoopPoll \/ LoopReap \/ LoopDone \/ (\E t \in Tickets : LoopTicket(t))
         \/ RefuseTicket(Loop) \/ RefuseNoRepo(Loop) \/ MarkInProgress(Loop)
  PROVE  TrackInv'
<1>1. CASE LoopReap \/ LoopDone
  <2>1. /\ OnlyMoves(Loop) /\ UNCHANGED <<jobs, jobName, taskRuns, ticketOf, state, gate, retry>>
        /\ \/ todo'[Loop] = {} /\ pc'[Loop] = "idle"
           \/ /\ pc'[Loop] = "reap"
              /\ todo'[Loop] = {r \in Runs : Registered(r) /\ state[r] = "Running"}
    BY <1>1, TypesOfTrack, Zenon DEF LoopReap, LoopDone, OnlyMoves, runVars, counters,
         locals, TrackTypes, LoopTypes
  <2>2. QED
    BY <2>1, TrackUnchanged, Zenon DEF Handling
<1> DEFINE Ticking == /\ OnlyMoves(Loop) /\ UNCHANGED <<jobs, taskRuns, runVars, todo>>
                      /\ pc[Loop] \in {"idle", "tickets", "admit", "mark"}
                      /\ pc'[Loop] \in {"tickets", "admit"}
                      /\ pc'[Loop] = "admit" => ~Occupied(tk'[Loop])
<1>2. LoopPoll => Ticking
  BY TypesOfTrack, Zenon DEF LoopPoll, OnlyMoves, TrackTypes, LoopTypes
<1>3. ASSUME NEW t \in Tickets, LoopTicket(t) PROVE Ticking
  BY <1>3, TypesOfTrack, Zenon DEF LoopTicket, ProcessTicket, OnlyMoves, control,
       TrackTypes, LoopTypes
<1>4. RefuseTicket(Loop) => Ticking
  BY TypesOfTrack, Zenon DEF RefuseTicket, OnlyMoves, CountTicket, locals, TrackTypes,
       LoopTypes
<1>5. RefuseNoRepo(Loop) \/ MarkInProgress(Loop) => Ticking
  BY TypesOfTrack, Zenon DEF RefuseNoRepo, MarkInProgress, OnlyMoves, CountTicket, locals,
       TrackTypes, LoopTypes
<1>6. Ticking => TrackInv'
  <2>1. Ticking => todo'[Loop] = {}
    BY Zenon DEF TrackInv, LoopWillHold, Handling
  <2>2. QED
    BY <2>1, TrackUnchanged, Zenon DEF Handling, runVars, counters
<1>7. QED
  BY <1>1, <1>2, <1>3, <1>4, <1>5, <1>6, Zenon

LEMMA TrackCheck ==
  ASSUME TypeInv, TrackInv, NEW r \in Runs, CheckJobStatus(r)
  PROVE  TrackInv'
<1>1. /\ OnlyMoves(Loop) /\ pc[Loop] = "reap" /\ r \in todo[Loop]
      /\ UNCHANGED <<jobs, jobName, taskRuns, ticketOf, state, gate, retry>>
      /\ todo'[Loop] = todo[Loop] \ {r}
  BY TypesOfTrack, Zenon DEF CheckJobStatus, OnlyMoves, runVars, counters, control,
       TrackTypes, LoopTypes
<1>2. CASE pc'[Loop] = "reap"
  BY <1>1, <1>2, TrackUnchanged, TypesOfTrack DEF TrackInv, LoopWillHold, Handling,
       TrackTypes, LoopTypes
<1>3. CASE pc'[Loop] # "reap"
  <2>1. /\ pc'[Loop] \in {"complete", "failed"} /\ cur'[Loop] = r
        /\ jobName[r] \in DOMAIN jobs /\ jobs[jobName[r]] # "active"
    BY <1>1, <1>3, TypesOfTrack, Zenon DEF CheckJobStatus, control, TrackTypes, LoopTypes
  <2>2. Registered(r) /\ state[r] = "Running"
    BY <1>1, Zenon DEF TrackInv, LoopWillHold
  <2>3. NoLiveJob(r)
    BY <2>1 DEF TrackInv, LiveJobsAreTracked, NoLiveJob
  <2>4. LoopHolds'
    BY <1>1, <2>1, <2>2, <2>3, Zenon DEF LoopHolds, Handling, NoLiveJob, Registered
  <2>5. LiveJobsAreTracked'
    BY <1>1, Zenon DEF TrackInv, LiveJobsAreTracked, Registered
  <2>6. LoopWillHold'
    BY <1>1, <2>1 DEF TrackInv, LoopWillHold, Handling, Registered, OnlyMoves
  <2>7. QED
    BY <2>4, <2>5, <2>6 DEF TrackInv
<1>4. QED
  BY <1>2, <1>3

LEMMA TrackLaunch ==
  ASSUME TypeInv, TrackInv, NEW r \in Runs, LaunchTaskRun(Loop, r)
  PROVE  TrackInv'
<1> DEFINE j == JobName(r, "base", 1)
           t == tk[Loop]
<1>0. t \in Tickets
  BY Zenon DEF LaunchTaskRun, TypeInv, HandlesRuns
<1>1. /\ OnlyMoves(Loop) /\ pc[Loop] = "admit" /\ state[r] = Unused
      /\ UNCHANGED <<gate, todo>> /\ pc'[Loop] \in {"mark", "tickets"}
      /\ ticketOf' = [ticketOf EXCEPT ![r] = t]
  BY TypesOfTrack, Zenon DEF LaunchTaskRun, OnlyMoves, Unallocated, locals, TrackTypes,
       LoopTypes
<1>2. todo'[Loop] = {}
  BY <1>1 DEF TrackInv, LoopWillHold, Handling
<1>3. /\ \A i \in DOMAIN jobs : jobs[i] = "active" => i[1] # r
      /\ ~Occupied(t)
  BY <1>1, Zenon DEF TrackInv, LiveJobsAreTracked, LoopHolds, Unused
<1>4. \A i \in DOMAIN jobs : jobs[i] = "active" => ticketOf[i[1]] # t
  BY <1>0, <1>3, TypesOfTrack DEF TrackInv, LiveJobsAreTracked, Registered, Occupied,
       Terminal, IsTerminal, TrackTypes, LoopTypes
<1>5. LiveJobsAreTracked'
  <2>1. CASE /\ jobs' = [i \in DOMAIN jobs \cup {j} |-> IF i = j THEN "active" ELSE jobs[i]]
             /\ state' = [state EXCEPT ![r] = "Running"]
             /\ jobName' = [jobName EXCEPT ![r] = j]
             /\ taskRuns' = [taskRuns EXCEPT ![t] = r]
    <3>1. j[1] = r /\ Registered(r)' /\ state'[r] = "Running" /\ jobName'[r] = j
      BY <1>0, <1>1, <2>1, TypesOfTrack, NameRun, Zenon DEF Registered, TrackTypes, LoopTypes
    <3>2. ASSUME NEW i \in DOMAIN jobs, jobs[i] = "active", i # j
          PROVE  Registered(i[1])' /\ state'[i[1]] = "Running" /\ jobName'[i[1]] = i
      BY <1>0, <1>1, <1>3, <1>4, <2>1, <3>2 DEF TrackInv, LiveJobsAreTracked, Registered
    <3>3. QED
      BY <2>1, <3>1, <3>2 DEF LiveJobsAreTracked
  <2>2. CASE UNCHANGED <<jobs, jobName, taskRuns>> /\ state' = [state EXCEPT ![r] = "Queued"]
    BY <1>1, <1>3, <2>2 DEF TrackInv, LiveJobsAreTracked, Registered
  <2>3. QED
    BY <2>1, <2>2, Zenon DEF LaunchTaskRun, CreateJob, NameJob
<1>6. LoopHolds'
  BY <1>1, Zenon DEF LoopHolds, Handling
<1>7. LoopWillHold'
  <2>1. \A h \in Hooks : pc[h] # "idle" => cur[h] \in Runs /\ cur[h] # r
    BY <1>1, TypesOfTrack, Zenon DEF TrackInv, LoopWillHold, Asks, Unused, TrackTypes
  <2>2. \A q \in Runs \ {r} : state'[q] = state[q]
    BY TypesOfTrack, Zenon DEF LaunchTaskRun, TrackTypes, LoopTypes
  <2>3. QED
    BY <1>1, <1>2, <2>1, <2>2 DEF TrackInv, LoopWillHold, OnlyMoves
<1>8. QED
  BY <1>5, <1>6, <1>7 DEF TrackInv

LEMMA TrackComplete ==
  ASSUME MaxContinuations = 0, TypeInv, TrackInv, HandleJobComplete \/ Report(Loop)
  PROVE  TrackInv'
<1>1. /\ OnlyMoves(Loop) /\ UNCHANGED <<jobs, jobName, taskRuns, ticketOf, todo>>
      /\ pc[Loop] \in {"complete", "reportComplete", "reportFailed"}
      /\ pc'[Loop] \in {"reap", "reportComplete", "reportFailed"}
      /\ pc'[Loop] # "reap" => cur'[Loop] = cur[Loop]
  BY TypesOfTrack, Zenon DEF OnlyMoves, HandleJobComplete, PromptContinuation, HoldForMerge,
       HoldCompletedRun, ReviewRejects, JobSucceeded, Report, locals, runVars, TrackTypes,
       LoopTypes
<1>2. \/ UNCHANGED state
      \/ /\ pc[Loop] = "complete"
         /\ \E s : state' = [state EXCEPT ![cur[Loop]] = s]
  BY Zenon DEF HandleJobComplete, PromptContinuation, HoldForMerge, HoldCompletedRun,
       ReviewRejects, JobSucceeded, Report, Transition, TryTransition, runVars
<1>3. ~PromptContinuation
  <2>1. pc[Loop] = "complete" => cont[cur[Loop]] \in Nat
    BY TypesOfTrack, Zenon DEF Handling, TypeInv, RunTypes, TrackTypes
  <2>2. QED
    BY <2>1 DEF PromptContinuation
<1>4. \A r \in Runs : gate'[r] # "continuation"
  <2>1. \A r \in Runs : gate[r] # "continuation"
    BY DEF TrackInv, LoopWillHold
  <2>2. QED
    BY <1>3, <2>1, TypesOfTrack, Zenon DEF HandleJobComplete, HoldForMerge,
         HoldCompletedRun, ReviewRejects, JobSucceeded, Report, runVars, TrackTypes,
         LoopTypes
<1>5. pc[Loop] = "complete" => state[cur[Loop]] = "Running"
  BY DEF TrackInv, LoopHolds
<1>6. QED
  BY <1>1, <1>2, <1>4, <1>5, TrackHandled, Zenon DEF Handling

LEMMA TrackFailed ==
  ASSUME TypeInv, TrackInv,
         \/ JobFailed(Loop) \/ FailureIgnored(Loop) \/ GiveUp(Loop) \/ FallBack(Loop)
         \/ Retry(Loop) \/ FallBackPanics(Loop)
  PROVE  TrackInv'
<1>1. CanTransition("Running", "Failed")
  BY DEF CanTransition, validTransitions
<1>2. /\ pc[Loop] \in {"failed", "decide", "decideFallback"}
      /\ state[cur[Loop]] = "Running"
      /\ pc[Loop] = "decideFallback" => attempts[cur[Loop]] < ChainLen
  <2>1. pc[Loop] \in {"failed", "decide", "decideFallback"}
    BY Zenon DEF JobFailed, FailureIgnored, GiveUp, FallBack, Retry, FallBackPanics
  <2>2. QED
    BY <2>1, Zenon DEF TrackInv, LoopHolds
<1>3. ~FallBackPanics(Loop) /\ ~FailureIgnored(Loop)
  <2>1. cur[Loop] \in Runs
    BY <1>2, TypesOfTrack, Zenon DEF Handling, TrackTypes
  <2>2. QED
    BY <1>1, <1>2, <2>1, TypesOfTrack DEF FallBackPanics, FailureIgnored, TrackTypes
<1>4. /\ OnlyMoves(Loop)
      /\ UNCHANGED <<jobs, jobName, taskRuns, ticketOf, todo, cur, gate>>
      /\ \/ UNCHANGED <<state, attempts>> /\ pc'[Loop] \in {"decide", "decideFallback"}
         \/ /\ state' = [state EXCEPT ![cur[Loop]] = "Retrying"]
            /\ pc'[Loop] \in {"fallback", "retry"}
         \/ /\ state' = [state EXCEPT ![cur[Loop]] = "Failed"]
            /\ pc'[Loop] = "reportFailed"
  BY <1>3, TypesOfTrack, Zenon DEF OnlyMoves, JobFailed, GiveUp, FallBack, Retry, Requeue,
       Transition, locals, runVars, counters, TrackTypes, LoopTypes
<1>5. pc'[Loop] = "decideFallback" => attempts'[cur[Loop]] < ChainLen
  <2>1. cur[Loop] \in Runs /\ attempts[cur[Loop]] \in Nat
    BY <1>2, TypesOfTrack, Zenon DEF Handling, TrackTypes
  <2>2. QED
    BY <1>3, <2>1, TypesOfTrack, Zenon DEF JobFailed, GiveUp, FallBack, Retry, runVars,
         counters, TrackTypes, LoopTypes
<1>6. \A r \in Runs : gate'[r] # "continuation"
  BY <1>4, Zenon DEF TrackInv, LoopWillHold
<1>7. pc'[Loop] \in {"fallback", "retry"} => state'[cur[Loop]] = "Retrying"
  BY <1>2, <1>4, TypesOfTrack, Zenon DEF Handling, TrackTypes, LoopTypes
<1>8. pc'[Loop] \in {"complete", "failed", "decide", "decideFallback"} =>
        state'[cur[Loop]] = "Running"
  BY <1>2, <1>4, Zenon
<1>9. QED
  BY <1>2, <1>4, <1>5, <1>6, <1>7, <1>8, TrackHandled, Zenon DEF Handling

LEMMA TrackRelaunch ==
  ASSUME TypeInv, TrackInv, NEW kind \in {"fallback", "retry"}, NEW n, Relaunch(Loop, kind, n)
  PROVE  TrackInv'
<1> DEFINE r == cur[Loop]
           j == JobName(r, kind, n)
<1>1. /\ OnlyMoves(Loop) /\ pc[Loop] = kind /\ pc'[Loop] = "reap"
      /\ UNCHANGED <<taskRuns, ticketOf, todo, gate>>
  BY TypesOfTrack, Zenon DEF Relaunch, OnlyMoves, locals, TrackTypes, LoopTypes
<1>2. r \in Runs /\ state[r] = "Retrying" /\ Registered(r) /\ NoLiveJob(r)
  BY <1>1, TypesOfTrack, Zenon DEF TrackInv, LoopHolds, Handling, TrackTypes
<1>3. CASE UNCHANGED <<jobs, state, jobName>>
  BY <1>1, <1>2, <1>3, TrackHandled, Zenon DEF Handling, TrackInv, LoopWillHold
<1>4. CASE CreateJob(j) /\ Transition(r, "Running") /\ NameJob(r, j)
  <2>1. LiveJobsAreTracked'
    <3>a. j[1] = r
      BY NameRun, Zenon
    <3>b. /\ state'[r] = "Running" /\ jobName'[r] = j
          /\ ticketOf'[r] \in Tickets /\ taskRuns'[ticketOf'[r]] = r
      BY <1>1, <1>2, <1>4, TypesOfTrack, Zenon DEF Transition, NameJob, Registered,
           TrackTypes, LoopTypes
    <3>1. /\ j[1] = r /\ state'[r] = "Running" /\ jobName'[r] = j
          /\ ticketOf'[r] \in Tickets /\ taskRuns'[ticketOf'[r]] = r
      BY <3>a, <3>b, Zenon
    <3>2. ASSUME NEW i \in DOMAIN jobs, jobs[i] = "active"
          PROVE  Registered(i[1])' /\ state'[i[1]] = "Running" /\ jobName'[i[1]] = i
      BY <1>1, <1>2, <1>4, <3>2
      DEF TrackInv, LiveJobsAreTracked, NoLiveJob, Registered, Transition, NameJob
    <3>3. QED
      BY <1>4, <3>1, <3>2 DEF LiveJobsAreTracked, CreateJob, Registered
  <2>2. LoopHolds'
    BY <1>1 DEF LoopHolds, Handling
  <2>3. LoopWillHold'
    <3>1. \A h \in Hooks : pc[h] # "idle" => cur[h] \in Runs /\ cur[h] # r
      BY <1>2, TypesOfTrack, Zenon DEF TrackInv, LoopWillHold, Asks, TrackTypes
    <3>2. \A q \in Runs \ {r} : state'[q] = state[q]
      BY <1>4 DEF Transition
    <3>3. \A q \in todo[Loop] : q # r
      BY <1>2, Zenon DEF TrackInv, LoopWillHold
    <3>4. QED
      BY <1>1, <3>1, <3>2, <3>3, TypesOfTrack DEF TrackInv, LoopWillHold, OnlyMoves,
           Registered, TrackTypes, LoopTypes
  <2>4. QED
    BY <2>1, <2>2, <2>3 DEF TrackInv
<1>5. CanTransition("Retrying", "Running")
  BY DEF CanTransition, validTransitions
<1>6. QED
  BY <1>2, <1>3, <1>4, <1>5, Zenon DEF Relaunch

\* What an answer does: it leaves Jobs alone and at most fails the run it is about.
Answered(h) ==
  /\ UNCHANGED <<jobs, jobName, taskRuns, ticketOf, todo, gate, retry, attempts>>
  /\ tk'[Loop] = tk[Loop]
  /\ \/ UNCHANGED state
     \/ /\ cur[h] \in Runs /\ state[cur[h]] = "NeedsHuman"
        /\ state' = [state EXCEPT ![cur[h]] = "Failed"]
  /\ \/ pc'[h] = "idle"
     \/ /\ pc'[h] \in {"reject", "preMerge", "reportFailed"}
        /\ state'[cur'[h]] \in {"NeedsHuman", "Failed"}

LEMMA AnswersAreMild ==
  ASSUME TypeInv, ByLoop, LoopWillHold, NEW h \in Hooks, AnswerSteps(h)
  PROVE  Answered(h)
<1>1. /\ pc[h] \in {"idle", "reject", "preMerge", "reportFailed"}
      /\ pc[h] # "idle" => cur[h] \in Runs /\ state[cur[h]] \in {"NeedsHuman", "Failed"}
  BY TypesOfTrack, Zenon DEF LoopWillHold, Asks, TrackTypes
<1>2. ~ResolveContinuation(h) /\ ~LaunchContinuationJob(h)
  BY <1>1, Zenon DEF ResolveContinuation, LaunchContinuationJob
<1>3. /\ ~CanTransition("Failed", "Failed") /\ ~CanTransition("Failed", "Succeeded")
      /\ ~CanTransition("NeedsHuman", "Succeeded")
  BY DEF CanTransition, validTransitions
<1>4. ASSUME NEW r \in Runs, ApprovalCallback(h, r) PROVE Answered(h)
  <2>1. state[r] = "NeedsHuman" => gate[r] = "pre_merge"
    BY Zenon DEF ByLoop, LoopWillHold
  <2>2. UNCHANGED <<jobs, taskRuns, runVars, locals>>
    BY <1>4 DEF ApprovalCallback, ResolveApproval
  <2>3. \/ UNCHANGED control /\ pc[h] = "idle"
        \/ /\ state[r] = "NeedsHuman" /\ Enter(h, IF gate[r] = "pre_merge" THEN pc'[h] ELSE "", r)
           /\ pc'[h] \in {"reject", "preMerge"}
    BY <1>4, <2>1, TypesOfTrack, Zenon DEF ApprovalCallback, ResolveApproval, Resolver,
         TrackTypes, LoopTypes
  <2>4. QED
    BY <2>2, <2>3, TypesOfTrack, Zenon DEF Answered, runVars, counters, locals, control,
         TrackTypes, LoopTypes
<1>5. CASE RejectRun(h)
  BY <1>1, <1>3, <1>5, TypesOfTrack, Zenon DEF RejectRun, Refused, Transition, locals,
       Answered, TrackTypes, LoopTypes
<1>6. CASE ResolvePreMerge(h)
  BY <1>1, <1>3, <1>6, TypesOfTrack, Zenon DEF ResolvePreMerge, Refused, Transition, locals,
       Answered, TrackTypes, LoopTypes
<1>7. CASE Report(h)
  BY <1>7, TypesOfTrack, Zenon DEF Report, runVars, counters, locals, Answered, TrackTypes,
       LoopTypes
<1>8. QED
  BY <1>2, <1>4, <1>5, <1>6, <1>7 DEF AnswerSteps

LEMMA TrackAnswers ==
  ASSUME TypeInv, ByLoop, TrackInv, NEW h \in Hooks, AnswerSteps(h)
  PROVE  TrackInv'
<1>1. Answered(h) /\ OnlyMoves(h)
  BY AnswersAreMild, AnswerMoves DEF TrackInv
<1>2. LiveJobsAreTracked'
  BY <1>1, TypesOfTrack DEF TrackInv, LiveJobsAreTracked, Registered, Answered, TrackTypes,
       LoopTypes
<1>3. LoopHolds'
  <2>1. pc'[Loop] = pc[Loop] /\ cur'[Loop] = cur[Loop] /\ tk'[Loop] = tk[Loop]
    BY <1>1, TypesOfTrack, Zenon DEF OnlyMoves, Answered, TrackTypes, LoopTypes
  <2>2. pc[Loop] = "admit" => tk[Loop] \in Tickets
    BY HandledTickets
  <2>3. pc[Loop] = "admit" => ~Occupied(tk[Loop])'
    BY <1>1, <2>1, <2>2, TypesOfTrack DEF TrackInv, LoopHolds, Occupied, Terminal,
         IsTerminal, Answered, TrackTypes, LoopTypes
  <2>4. pc[Loop] \in {"complete", "failed", "decide", "decideFallback", "fallback", "retry"} =>
          state'[cur[Loop]] = state[cur[Loop]]
    BY <1>1, TypesOfTrack, Zenon DEF TrackInv, LoopHolds, Handling, Answered, TrackTypes,
         LoopTypes
  <2>5. QED
    BY <1>1, <2>1, <2>3, <2>4, Zenon DEF TrackInv, LoopHolds, NoLiveJob, Registered,
         Answered
<1>4. LoopWillHold'
  <2>1. \A g \in Hooks \ {h} : /\ pc'[g] = pc[g] /\ cur'[g] = cur[g]
                               /\ pc[g] # "idle" => cur[g] \in Runs
    BY <1>1, TypesOfTrack, Zenon DEF OnlyMoves, TrackInv, LoopWillHold, Asks, TrackTypes
  <2>2. pc'[Loop] = pc[Loop]
    BY <1>1, TypesOfTrack, Zenon DEF OnlyMoves, TrackTypes, LoopTypes
  <2>3. QED
    BY <1>1, <2>1, <2>2, TypesOfTrack DEF TrackInv, LoopWillHold, Registered, Answered,
         TrackTypes, LoopTypes
<1>5. QED
  BY <1>2, <1>3, <1>4 DEF TrackInv

\* Every live Job is the one its run names, and that run is registered and Running,
\* so the loop will notice its end: relaunches, fallbacks, failed launches and
\* rejected merges lose no Job.  Runs start in the loop, continue without a
\* question, and the process is not killed; each of the three leaves a Job behind.
THEOREM LiveJobsStayTracked ==
  ASSUME LoopStarts, MaxContinuations = 0, MaxCrashes = 0
  PROVE  Spec => []LiveJobsAreTracked
<1>1. Init => TrackInv
  BY DEF Init, TrackInv, LiveJobsAreTracked, LoopHolds, LoopWillHold, Handling
<1>2. ASSUME TypeInv, TrackInv, OtherSteps PROVE TrackInv'
  <2>1. ~Crash
    BY <1>2 DEF Crash, TypeInv, RunTypes
  <2>2. /\ UNCHANGED <<taskRuns, runVars, pc, cur, tk, todo>>
        /\ DOMAIN jobs' = DOMAIN jobs
        /\ \A j \in DOMAIN jobs : jobs'[j] = "active" => jobs[j] = "active"
    BY <2>1, <1>2, Zenon DEF OtherSteps, AnyJobEnds, JobEnds, RequeueTicket, vars, control,
         locals
  <2>3. LiveJobsAreTracked'
    BY <2>2, <1>2, Zenon DEF TrackInv, LiveJobsAreTracked, Registered, runVars
  <2>4. LoopHolds' /\ LoopWillHold'
    BY <2>2, <1>2 DEF TrackInv, LoopHolds, LoopWillHold, NoLiveJob, Registered, Occupied,
         Terminal, runVars, counters
  <2>5. QED
    BY <2>3, <2>4 DEF TrackInv
<1>3. ASSUME TypeInv, TrackInv, LoopNext PROVE TrackInv'
  <2>1. \A r \in Runs : ~StartRepoURLPoll(Loop, r) /\ ~HoldForStart(Loop, r)
    BY DEF LoopStarts, StartRepoURLPoll, HoldForStart
  <2>2. LaunchFallbackJob(Loop) \/ LaunchRetryJob(Loop) => TrackInv'
    BY <1>3, TrackRelaunch DEF LaunchFallbackJob, LaunchRetryJob
  <2>3. HandleJobFailed(Loop) => TrackInv'
    BY <1>3, <2>2, TrackFailed DEF HandleJobFailed
  <2>4. ProcessTicketSteps(Loop) => TrackInv'
    BY <1>3, <2>1, TrackTick, TrackLaunch DEF ProcessTicketSteps
  <2>5. QED
    BY <1>3, <2>3, <2>4, TrackTick, TrackCheck, TrackComplete DEF LoopNext
<1>4. TypeInv /\ ByLoop /\ TrackInv /\ [Next]_vars => TrackInv'
  BY <1>2, <1>3, LoopAndAnswers, TrackAnswers
<1>5. TrackInv => LiveJobsAreTracked
  BY DEF TrackInv
<1>6. QED
  BY <1>1, <1>4, <1>5, LoopsAlone, TypeCorrect, PTL DEF Spec
=============================================================================
