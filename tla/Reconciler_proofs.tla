------------------------- MODULE Reconciler_proofs --------------------------
(***************************************************************************)
(* Proofs about Reconciler for every set of tickets, runs and goroutines   *)
(* and every configuration: the types, the refinement of RunLifecycle, and *)
(* which goroutines a step moves.                                          *)
(***************************************************************************)
EXTENDS Reconciler, TLAPS

\* Inside a handler a goroutine holds a run that has a ticket, and what the loops
\* and the poller will look at has one too.
InHandler(th) == pc[th] \notin Resting \cup {"admit"}

HandlesRuns ==
  /\ \A th \in Threads : InHandler(th) => cur[th] \in Runs /\ ticketOf[cur[th]] \in Tickets
  /\ \A th \in Threads : pc[th] = "admit" => tk[th] \in Tickets
  /\ \A r \in polling \cup todo[Loop] \cup todo[Dog] : ticketOf[r] \in Tickets

TypeInv == RunTypes /\ HandlesRuns

USE DEF Threads, Goto, Enter, Return, AfterTicket, AfterJob

LEMMA TypeInit == Init => TypeInv
  BY MaxRetriesAssumption, ConfigAssumption
  DEF Init, TypeInv, RunTypes, HandlesRuns, InHandler, PCs, Resting, NoJob, JobNames, States,
      GateTypes, Unused

LEMMA TypePoll == TypeInv /\ LoopPoll => TypeInv'
<1> SUFFICES ASSUME TypeInv, LoopPoll PROVE TypeInv'
  OBVIOUS
<1>1. QED
  BY Zenon DEF LoopPoll, TypeInv, RunTypes, HandlesRuns, InHandler, PCs, Resting, runVars,
       counters, slack, ghosts

LEMMA TypeTicket ==
  ASSUME NEW th \in Threads, NEW t \in Tickets, TypeInv, ProcessTicket(th, t),
         queue' \subseteq Tickets
  PROVE TypeInv'
  BY DEF ProcessTicket, TypeInv, RunTypes, HandlesRuns, InHandler, PCs, Resting, runVars,
      counters, slack, ghosts, control

\* A launch creates a Job under a well-formed name, or none.
JobsTyped ==
  /\ DOMAIN jobs \subseteq JobNames
  /\ \A j \in DOMAIN jobs : jobs[j] \in {"active", "complete", "failed"}
  /\ jobName \in [Runs -> JobNames \cup {NoJob}]

\* A Job's name is made of its run: the kind and the number, or neither when it is cut.
\* Truncated or not, a Job's name holds the run's.
LEMMA NameRun ==
  ASSUME NEW r, NEW kind, NEW n
  PROVE  JobName(r, kind, n)[1] = r
<1>1. <<r, "base", 1>>[1] = r /\ <<r, kind, n>>[1] = r
  OBVIOUS
<1>2. QED
  BY <1>1, Zenon DEF JobName

LEMMA NamesOfRun ==
  ASSUME NEW r \in Runs, NEW kind \in {"base", "retry", "fallback", "continuation"}, NEW n \in Nat
  PROVE  /\ JobName(r, kind, n) \in JobNames /\ JobName(r, kind, n)[1] = r
         /\ JobName(r, kind, n) \in {<<r, "base", 1>>, <<r, kind, n>>}
<1>1. <<r, "base", 1>> \in JobNames /\ <<r, kind, n>> \in JobNames
  BY Zenon DEF JobNames
<1>2. <<r, "base", 1>>[1] = r /\ <<r, kind, n>>[1] = r
  OBVIOUS
<1> QED
  BY <1>1, <1>2, Zenon DEF JobName

LEMMA TypeLaunch ==
  ASSUME TypeInv, NEW r, NEW j \in JobNames,
         CreateJob(j) \/ UNCHANGED jobs, NameJob(r, j) \/ UNCHANGED jobName
  PROVE JobsTyped'
<1>1. JobsTyped
  BY Zenon DEF TypeInv, RunTypes, JobsTyped
<1>2. jobName' \in [Runs -> JobNames \cup {NoJob}]
  BY <1>1, Zenon DEF NameJob, JobsTyped
<1>3. QED
  BY <1>1, <1>2 DEF CreateJob, JobsTyped

\* The steps of ProcessTicket, for whichever goroutine runs it.
LEMMA TypeProcess ==
  ASSUME NEW th \in Threads, TypeInv, ProcessTicketSteps(th)
  PROVE TypeInv'
<1> USE DEF TypeInv, RunTypes, HandlesRuns, InHandler, PCs, Resting, runVars, counters, slack,
            ghosts, control, locals, CountTicket, Mark
<1>1. CASE RefuseTicket(th)
  BY <1>1, Zenon DEF RefuseTicket
<1>2. CASE RefuseNoRepo(th)
  BY <1>2, Zenon DEF RefuseNoRepo
<1>3. CASE MarkInProgress(th)
  BY <1>3, Zenon DEF MarkInProgress
<1>4. ASSUME NEW r \in Runs, StartRepoURLPoll(th, r) PROVE TypeInv'
  BY <1>4 DEF StartRepoURLPoll, HoldNewRun, States, GateTypes
<1>5. ASSUME NEW r \in Runs, HoldForStart(th, r) PROVE TypeInv'
  BY <1>5 DEF HoldForStart, HoldNewRun, States, GateTypes
<1>6. ASSUME NEW r \in Runs, LaunchTaskRun(th, r) PROVE TypeInv'
  <2>1. JobName(r, "base", 1) \in JobNames
    BY NamesOfRun, Zenon
  <2> HIDE DEF TypeInv
  <2>2. /\ CreateJob(JobName(r, "base", 1)) \/ UNCHANGED jobs
        /\ NameJob(r, JobName(r, "base", 1)) \/ UNCHANGED jobName
    BY <1>6, Zenon DEF LaunchTaskRun
  <2>3. JobsTyped'
    BY <2>1, <2>2, TypeLaunch, Zenon
  <2> USE DEF TypeInv, JobsTyped
  <2>4. /\ tk[th] \in Tickets /\ taskRuns' \in [Tickets -> Runs \cup {NoRun}]
        /\ state' \in [Runs -> States \cup {Unused}]
        /\ ticketOf' \in [Runs -> Tickets \cup {NoTicket}]
    BY <1>6 DEF LaunchTaskRun, States
  <2>5. /\ pc' \in [Threads -> PCs] /\ cur' \in [Threads -> Runs \cup {NoRun}]
        /\ tk' \in [Threads -> Tickets \cup {NoTicket}]
    BY <1>6 DEF LaunchTaskRun
  <2>6. RunTypes'
    BY <1>6, <2>3, <2>4, <2>5, Zenon DEF LaunchTaskRun
  <2>7. HandlesRuns'
    BY <1>6 DEF LaunchTaskRun
  <2>8. QED
    BY <2>6, <2>7, Zenon
<1> HIDE DEF TypeInv
<1>7. QED
  BY <1>1, <1>2, <1>3, <1>4, <1>5, <1>6, Zenon DEF ProcessTicketSteps

LEMMA TypeReport ==
  ASSUME NEW th \in Threads, TypeInv, Report(th)
  PROVE TypeInv'
  BY DEF Report, Mark, CancelPending, TypeInv, RunTypes, HandlesRuns, InHandler, PCs, Resting,
      runVars, counters, locals

LEMMA TypeDie ==
  ASSUME TypeInv, Die, crashes' \in 0..MaxCrashes
  PROVE TypeInv'
  BY Zenon DEF Die, TypeInv, RunTypes, HandlesRuns, InHandler, PCs, Resting, runVars,
       counters

\* The steps of handleJobFailed, in the reconcile or the watchdog loop.
LEMMA TypeFailed ==
  ASSUME NEW th \in {Loop, Dog}, TypeInv, HandleJobFailed(th)
  PROVE TypeInv'
<1> USE MaxRetriesAssumption
    DEF TypeInv, RunTypes, HandlesRuns, InHandler, PCs, Resting, runVars, counters, slack,
        ghosts, control, locals, CancelPending
<1>1. CASE JobFailed(th)
  BY <1>1, Zenon DEF JobFailed
<1>2. CASE FailureIgnored(th)
  BY <1>2 DEF FailureIgnored, SwitchEngine
<1>3. CASE FallBack(th)
  BY <1>3 DEF FallBack, Requeue, States
<1>4. CASE Retry(th)
  BY <1>4 DEF Retry, Requeue, CanRetry, CountRetry, SwitchEngine, States
<1>5. CASE GiveUp(th)
  BY <1>5, Zenon DEF GiveUp, Transition, States
<1>6. ASSUME NEW n \in Nat, NEW kind \in {"fallback", "retry"}, Relaunch(th, kind, n)
      PROVE TypeInv'
  <2>1. JobName(cur[th], kind, n) \in JobNames /\ th \in Threads /\ cur[th] \in Runs
    BY <1>6, NamesOfRun, Zenon DEF Relaunch
  <2> HIDE DEF TypeInv
  <2>2. /\ CreateJob(JobName(cur[th], kind, n)) \/ UNCHANGED jobs
        /\ NameJob(cur[th], JobName(cur[th], kind, n)) \/ UNCHANGED jobName
    BY <1>6, Zenon DEF Relaunch
  <2>3. JobsTyped'
    BY <2>1, <2>2, TypeLaunch, Zenon
  <2> USE DEF TypeInv, JobsTyped
  <2>4. state' \in [Runs -> States \cup {Unused}]
    BY <1>6, <2>1, Zenon DEF Relaunch, Transition, States
  <2>5. QED
    BY <1>6, <2>1, <2>3, <2>4, Zenon DEF Relaunch
<1>7. CASE LaunchFallbackJob(th)
  <2>1. cur[th] \in Runs
    BY <1>7, Zenon DEF LaunchFallbackJob, Relaunch
  <2>2. attempts[cur[th]] \in Nat
    BY <2>1, Zenon
  <2> HIDE DEF TypeInv
  <2>3. QED
    BY <1>6, <1>7, <2>2 DEF LaunchFallbackJob
<1>8. CASE LaunchRetryJob(th)
  <2>1. cur[th] \in Runs
    BY <1>8, Zenon DEF LaunchRetryJob, Relaunch
  <2>2. retry[cur[th]] \in Nat
    BY <2>1
  <2> HIDE DEF TypeInv
  <2>3. QED
    BY <1>6, <1>8, <2>2 DEF LaunchRetryJob
<1>9. CASE FallBackPanics(th)
  BY <1>9, TypeDie, Zenon DEF FallBackPanics
<1> HIDE DEF TypeInv
<1>10. QED
  BY <1>1, <1>2, <1>3, <1>4, <1>5, <1>7, <1>8, <1>9, Zenon DEF HandleJobFailed

\* The remaining steps of the reconcile and the watchdog loop.
LEMMA TypeLoops == TypeInv /\ (LoopNext \/ DogNext) => TypeInv'
<1> SUFFICES ASSUME TypeInv, LoopNext \/ DogNext PROVE TypeInv'
  OBVIOUS
<1> USE DEF TypeInv, RunTypes, HandlesRuns, InHandler, PCs, Resting, runVars, counters, slack,
            ghosts, control, locals
<1>1. CASE LoopReap
  BY <1>1, ConfigAssumption, Zenon DEF LoopReap, Registered
<1>2. CASE LoopDone
  BY <1>2, Zenon DEF LoopDone
<1>3. ASSUME NEW t \in Tickets, LoopTicket(t) PROVE TypeInv'
  BY <1>3, TypeTicket, Zenon DEF LoopTicket
<1>4. ASSUME NEW r \in Runs, CheckJobStatus(r) PROVE TypeInv'
  BY <1>4, ConfigAssumption DEF CheckJobStatus
<1>5. ASSUME NEW g \in GateTypes, HoldCompletedRun(g), pc[Loop] = "complete" PROVE TypeInv'
  <2>1. state' \in [Runs -> States \cup {Unused}]
    BY <1>5, Zenon DEF HoldCompletedRun, Transition, States
  <2>2. QED
    BY <1>5, <2>1 DEF HoldCompletedRun
<1>6. CASE HandleJobComplete
  <2>1. CASE PromptContinuation \/ HoldForMerge
    BY <1>5, <2>1, Zenon DEF PromptContinuation, HoldForMerge, GateTypes
  <2>2. CASE ReviewRejects
    BY <2>2, Zenon DEF ReviewRejects, TryTransition, States
  <2>3. CASE JobSucceeded
    BY <2>3 DEF JobSucceeded, Transition, States
  <2> HIDE DEF TypeInv
  <2>4. QED
    BY <1>6, <2>1, <2>2, <2>3, Zenon DEF HandleJobComplete
<1>7. CASE WatchdogTick
  BY <1>7, ConfigAssumption, Zenon DEF WatchdogTick, Registered
<1>8. CASE WatchdogDone
  BY <1>8, Zenon DEF WatchdogDone
<1>9. ASSUME NEW r \in Runs, WatchdogCheck(r) PROVE TypeInv'
  BY <1>9, ConfigAssumption DEF WatchdogCheck
<1> HIDE DEF TypeInv
<1>10. QED
  BY <1>1, <1>2, <1>3, <1>4, <1>6, <1>7, <1>8, <1>9, TypePoll, TypeProcess, TypeFailed,
     TypeReport, Zenon DEF LoopNext, DogNext, Threads

\* Requests, and the goroutines they start.
LEMMA TypeHooks ==
  ASSUME NEW h \in Hooks, TypeInv, HookSteps(h) \/ Requests(h)
  PROVE TypeInv'
<1> USE MaxRetriesAssumption
    DEF TypeInv, RunTypes, HandlesRuns, InHandler, PCs, Resting, runVars, counters, slack,
        ghosts, control, locals
<1>1. ASSUME NEW r \in Runs, NEW approved \in BOOLEAN, ResolveApproval(h, r, approved),
             polling' \subseteq polling
      PROVE TypeInv'
  BY <1>1 DEF ResolveApproval, Registered, Resolver
<1>2. ASSUME NEW r \in Runs, RepoURLFails(h, r) PROVE TypeInv'
  BY <1>2 DEF RepoURLFails, Mark
<1>3. CASE Requests(h)
  <2>1. ASSUME NEW r \in Runs, ApprovalCallback(h, r) \/ RepoURLArrives(h, r)
        PROVE (\E approved \in BOOLEAN : ResolveApproval(h, r, approved)) /\ polling' \subseteq polling
    BY <2>1, Zenon DEF ApprovalCallback, RepoURLArrives
  <2>2. ASSUME NEW t \in Tickets, WebhookTicket(h, t) PROVE TypeInv'
    <3>1. queue' \subseteq Tickets
      BY <2>2, Zenon DEF WebhookTicket
    <3>2. ProcessTicket(h, t)
      BY <2>2, Zenon DEF WebhookTicket
    <3> HIDE DEF TypeInv
    <3>3. QED
      BY <3>1, <3>2, TypeTicket
  <2> HIDE DEF TypeInv
  <2>3. QED
    BY <1>1, <1>2, <1>3, <2>1, <2>2, Zenon DEF Requests
<1>4. CASE RejectRun(h)
  BY <1>4 DEF RejectRun, Refused, Transition, States
<1>5. CASE ResolvePreStart(h)
  BY <1>5 DEF ResolvePreStart, Refused, Transition, States
<1>6. CASE LaunchPreStart(h)
  <2>1. JobName(cur[h], "base", 1) \in JobNames
    BY <1>6, NamesOfRun, Zenon DEF LaunchPreStart
  <2> HIDE DEF TypeInv
  <2>2. /\ CreateJob(JobName(cur[h], "base", 1)) \/ UNCHANGED jobs
        /\ NameJob(cur[h], JobName(cur[h], "base", 1)) \/ UNCHANGED jobName
    BY <1>6, Zenon DEF LaunchPreStart
  <2>3. JobsTyped'
    BY <2>1, <2>2, TypeLaunch, Zenon
  <2> USE DEF TypeInv, JobsTyped
  <2>4. QED
    BY <1>6, <2>3 DEF LaunchPreStart
<1>7. CASE ResolvePreMerge(h)
  BY <1>7 DEF ResolvePreMerge, Refused, Transition, States
<1>8. CASE ResolveContinuation(h)
  BY <1>8 DEF ResolveContinuation, Refused, Transition, States
<1>9. CASE LaunchContinuationJob(h)
  <2>1. JobName(cur[h], "continuation", cont[cur[h]]) \in JobNames
    BY <1>9, NamesOfRun, Zenon DEF LaunchContinuationJob
  <2> HIDE DEF TypeInv
  <2>2. /\ CreateJob(JobName(cur[h], "continuation", cont[cur[h]])) \/ UNCHANGED jobs
        /\ NameJob(cur[h], JobName(cur[h], "continuation", cont[cur[h]])) \/ UNCHANGED jobName
    BY <1>9, Zenon DEF LaunchContinuationJob
  <2>3. JobsTyped'
    BY <2>1, <2>2, TypeLaunch, Zenon
  <2> USE DEF TypeInv, JobsTyped
  <2>4. QED
    BY <1>9, <2>3, Zenon DEF LaunchContinuationJob
<1>10. CASE FailRepoURLTaskRun(h)
  <2>1. state' \in [Runs -> States \cup {Unused}]
    BY <1>10, Zenon DEF FailRepoURLTaskRun, TryTransition, States
  <2>2. retry' \in [Runs -> 0..MaxRetries]
    <3>1. MaxRetries \in 0..MaxRetries
      OBVIOUS
    <3>2. QED
      BY <1>10, <3>1, Zenon DEF FailRepoURLTaskRun, UseUpRetries
  <2>3. pc' \in [Threads -> PCs] /\ cur' \in [Threads -> Runs \cup {NoRun}]
        /\ tk' \in [Threads -> Tickets \cup {NoTicket}]
    BY <1>10, Zenon DEF FailRepoURLTaskRun
  <2>4. RunTypes'
    BY <1>10, <2>1, <2>2, <2>3, Zenon DEF FailRepoURLTaskRun
  <2>5. HandlesRuns'
    BY <1>10, Zenon DEF FailRepoURLTaskRun
  <2>6. QED
    BY <2>4, <2>5, Zenon
<1> HIDE DEF TypeInv
<1>11. QED
  BY <1>3, <1>4, <1>5, <1>6, <1>7, <1>8, <1>9, <1>10, TypeProcess, TypeReport, Zenon
  DEF HookSteps, ApprovalSteps, Threads

LEMMA TypeNext == TypeInv /\ [Next]_vars => TypeInv'
<1> SUFFICES ASSUME TypeInv, [Next]_vars PROVE TypeInv'
  OBVIOUS
<1>1. CASE AnyJobEnds
  BY <1>1 DEF AnyJobEnds, JobEnds, TypeInv, RunTypes, HandlesRuns, InHandler, runVars, counters,
      slack, control, locals, ghosts
<1>2. CASE Crash
  <2>1. crashes' \in 0..MaxCrashes
    BY <1>2, ConfigAssumption DEF Crash, TypeInv, RunTypes
  <2>2. QED
    BY <1>2, <2>1, TypeDie DEF Crash
<1>3. ASSUME NEW t \in Tickets, RequeueTicket(t) PROVE TypeInv'
  BY <1>3, Zenon DEF RequeueTicket, TypeInv, RunTypes, HandlesRuns, InHandler, runVars,
       counters, slack, control, locals, ghosts
<1>4. CASE UNCHANGED vars
  BY <1>4, Zenon DEF vars, TypeInv, RunTypes, HandlesRuns, InHandler, runVars, counters,
       slack, control, locals, ghosts
<1>5. QED
  BY <1>1, <1>2, <1>3, <1>4, TypeLoops, TypeHooks, Zenon DEF Next

\* Every variable keeps its type, the retry count stays within MaxRetries, and a
\* goroutine inside a handler holds a run with a ticket.
THEOREM TypeCorrect == Spec => []TypeInv
  BY TypeInit, TypeNext, PTL DEF Spec

-----------------------------------------------------------------------------
(* What the transition table allows *)

LEMMA TableFacts ==
  ASSUME NEW s, NEW target, CanTransition(s, target)
  PROVE /\ s \in {"Queued", "Running", "NeedsHuman", "Failed", "Retrying"}
        /\ target \in States \ {"Queued"}
        /\ s = "Failed" => target = "Retrying"
  BY DEF CanTransition, validTransitions, States

LEMMA SameTable ==
  /\ Lifecycle!States = States /\ Lifecycle!Unused = Unused
  /\ \A s, target : Lifecycle!CanTransition(s, target) = CanTransition(s, target)
  BY DEF Lifecycle!States, States, Lifecycle!Unused, Unused, Lifecycle!CanTransition,
      CanTransition, Lifecycle!validTransitions, validTransitions

-----------------------------------------------------------------------------
(* The runs behave as RunLifecycle says *)

LifecycleStep == Lifecycle!Next \/ UNCHANGED <<state, retry>>

LEMMA CreateStep ==
  ASSUME NEW r \in Runs, r \in Unallocated, NEW s \in {"Queued", "Running", "NeedsHuman"},
         state' = [state EXCEPT ![r] = s], UNCHANGED retry
  PROVE LifecycleStep
  BY Zenon DEF LifecycleStep, Lifecycle!Next, Lifecycle!Create, Unallocated, Unused,
      Lifecycle!Unused, Lifecycle!validTransitions

LEMMA AdvanceStep ==
  ASSUME NEW r \in Runs, NEW s \in States \ {"Retrying"}, Transition(r, s), UNCHANGED retry
  PROVE LifecycleStep
<1>1. Lifecycle!Advance(r)
  BY SameTable, Zenon DEF Lifecycle!Advance, Transition
<1>2. QED
  BY <1>1 DEF LifecycleStep, Lifecycle!Next

LEMMA RelaunchStep ==
  ASSUME NEW r \in Runs, Requeue(r), UNCHANGED retry \/ (CanRetry(r) /\ CountRetry(r))
  PROVE LifecycleStep
<1>1. Lifecycle!CanTransition("Failed", "Retrying")
  <2>1. CanTransition("Failed", "Retrying")
    BY DEF CanTransition, validTransitions
  <2>2. QED
    BY <2>1, SameTable, Zenon
<1>2. Lifecycle!Relaunch(r)
  BY <1>1, SameTable DEF Lifecycle!Relaunch, Requeue, CanRetry, CountRetry
<1>3. QED
  BY <1>2 DEF LifecycleStep, Lifecycle!Next

LEMMA ExhaustStep ==
  ASSUME NEW r \in Runs, TryTransition(r, "Failed"), UseUpRetries(r)
  PROVE LifecycleStep
<1>1. Lifecycle!Exhaust(r)
  BY SameTable DEF Lifecycle!Exhaust, TryTransition, UseUpRetries
<1>2. QED
  BY <1>1 DEF LifecycleStep, Lifecycle!Next

\* A goroutine of the reconcile or the watchdog loop in a handler holds a run.
LEMMA HoldsRun ==
  ASSUME TypeInv, NEW th \in Threads, pc[th] \notin Resting \cup {"admit"}
  PROVE cur[th] \in Runs
  BY DEF TypeInv, HandlesRuns, InHandler

LEMMA LifecycleProcess ==
  ASSUME NEW th \in Threads, TypeInv, ProcessTicketSteps(th)
  PROVE LifecycleStep
<1>1. CASE RefuseTicket(th) \/ RefuseNoRepo(th) \/ MarkInProgress(th)
  BY <1>1, Zenon DEF RefuseTicket, RefuseNoRepo, MarkInProgress, runVars, counters,
       LifecycleStep
<1>2. ASSUME NEW r \in Runs, StartRepoURLPoll(th, r) \/ HoldForStart(th, r)
      PROVE LifecycleStep
  BY <1>2, CreateStep, Zenon DEF StartRepoURLPoll, HoldForStart, HoldNewRun, counters
<1>3. ASSUME NEW r \in Runs, LaunchTaskRun(th, r) PROVE LifecycleStep
  BY <1>3, CreateStep, Zenon DEF LaunchTaskRun, counters
<1>4. QED
  BY <1>1, <1>2, <1>3 DEF ProcessTicketSteps

LEMMA LifecycleFailed ==
  ASSUME NEW th \in {Loop, Dog}, TypeInv, HandleJobFailed(th)
  PROVE LifecycleStep
<1>1. CASE JobFailed(th) \/ FailureIgnored(th) \/ FallBackPanics(th)
  BY <1>1, Zenon DEF JobFailed, FailureIgnored, FallBackPanics, Die, runVars, counters,
       LifecycleStep
<1>2. CASE FallBack(th)
  BY <1>2, HoldsRun, RelaunchStep, Zenon DEF FallBack, Resting
<1>3. CASE Retry(th)
  BY <1>3, HoldsRun, RelaunchStep, Zenon DEF Retry, Resting
<1>4. CASE GiveUp(th)
  BY <1>4, HoldsRun, AdvanceStep, Zenon DEF GiveUp, Resting, counters, States
<1>5. ASSUME NEW n, NEW kind \in {"fallback", "retry"}, Relaunch(th, kind, n)
      PROVE LifecycleStep
  BY <1>5, HoldsRun, AdvanceStep, Zenon DEF Relaunch, Resting, counters, States,
       LifecycleStep
<1>6. QED
  BY <1>1, <1>2, <1>3, <1>4, <1>5
  DEF HandleJobFailed, LaunchFallbackJob, LaunchRetryJob

LEMMA LifecycleLoops ==
  ASSUME TypeInv, LoopNext \/ DogNext
  PROVE LifecycleStep
<1>1. CASE \/ LoopPoll \/ LoopReap \/ LoopDone \/ \E t \in Tickets : LoopTicket(t)
           \/ \E r \in Runs : CheckJobStatus(r) \/ WatchdogCheck(r)
           \/ WatchdogTick \/ WatchdogDone \/ \E th \in Threads : Report(th)
  BY <1>1, Zenon DEF LoopPoll, LoopReap, LoopDone, LoopTicket, ProcessTicket,
       CheckJobStatus, WatchdogCheck, WatchdogTick, WatchdogDone, Report, runVars, counters,
       LifecycleStep
<1>2. CASE PromptContinuation \/ HoldForMerge
  BY <1>2, HoldsRun, AdvanceStep, Zenon
  DEF PromptContinuation, HoldForMerge, HoldCompletedRun, Resting, counters, States,
      LifecycleStep
<1>3. CASE ReviewRejects
  BY <1>3, HoldsRun, AdvanceStep, Zenon
  DEF ReviewRejects, TryTransition, Transition, Resting, counters, States, LifecycleStep
<1>4. CASE JobSucceeded
  BY <1>4, HoldsRun, AdvanceStep, Zenon DEF JobSucceeded, Resting, counters, States,
       LifecycleStep
<1>5. QED
  BY <1>1, <1>2, <1>3, <1>4, LifecycleProcess, LifecycleFailed, Zenon
  DEF LoopNext, DogNext, HandleJobComplete

LEMMA LifecycleHooks ==
  ASSUME NEW h \in Hooks, TypeInv, HookSteps(h) \/ Requests(h)
  PROVE LifecycleStep
<1>1. CASE Requests(h) \/ Report(h)
  BY <1>1, Zenon DEF Requests, WebhookTicket, ProcessTicket, ApprovalCallback,
       RepoURLArrives, RepoURLFails, ResolveApproval, Report, runVars, counters,
       LifecycleStep
<1>2. CASE RejectRun(h) \/ ResolvePreStart(h) \/ ResolvePreMerge(h) \/ ResolveContinuation(h)
  <2>1. cur[h] \in Runs
    <3>1. pc[h] \in {"reject", "preStart", "preMerge", "continuation"}
      BY <1>2, Zenon DEF RejectRun, ResolvePreStart, ResolvePreMerge, ResolveContinuation
    <3>2. QED
      BY <3>1, HoldsRun DEF Resting
  <2>2. UNCHANGED retry
    BY <1>2, Zenon DEF RejectRun, ResolvePreStart, ResolvePreMerge, ResolveContinuation
  <2>3. \/ UNCHANGED state
        \/ \E s \in {"Failed", "Running", "Succeeded"} : Transition(cur[h], s)
    BY <1>2, Zenon DEF RejectRun, ResolvePreStart, ResolvePreMerge, ResolveContinuation,
         Refused
  <2>4. QED
    <3>1. CASE UNCHANGED state
      BY <2>2, <3>1 DEF LifecycleStep
    <3>2. ASSUME NEW s \in {"Failed", "Running", "Succeeded"}, Transition(cur[h], s)
          PROVE LifecycleStep
      BY <2>1, <2>2, <3>2, AdvanceStep DEF States
    <3>3. QED
      BY <2>3, <3>1, <3>2
<1>3. CASE LaunchPreStart(h) \/ LaunchContinuationJob(h)
  BY <1>3, Zenon DEF LaunchPreStart, LaunchContinuationJob, counters, LifecycleStep
<1>4. CASE FailRepoURLTaskRun(h)
  BY <1>4, HoldsRun, ExhaustStep, Zenon DEF FailRepoURLTaskRun, Resting, LifecycleStep
<1>5. QED
  BY <1>1, <1>2, <1>3, <1>4, LifecycleProcess, Zenon DEF HookSteps, ApprovalSteps

LEMMA LifecycleNext ==
  ASSUME TypeInv, [Next]_vars
  PROVE LifecycleStep
<1>1. CASE AnyJobEnds \/ Crash \/ (\E t \in Tickets : RequeueTicket(t)) \/ UNCHANGED vars
  BY <1>1, Zenon DEF AnyJobEnds, JobEnds, Crash, Die, RequeueTicket, vars, runVars,
       counters, LifecycleStep
<1>2. QED
  BY <1>1, LifecycleLoops, LifecycleHooks DEF Next

\* Whatever the goroutines interleave, a run moves along the transition table
\* only, goes back to Retrying only from an attempt that could still fail, and is
\* retried at most MaxRetries times: Reconciler implements RunLifecycle.
THEOREM RunsFollowLifecycle == Spec => LifecycleSpec
<1>1. Init => Lifecycle!Init
  BY SameTable DEF Init, Lifecycle!Init
<1>2. TypeInv /\ [Next]_vars => [Lifecycle!Next]_(Lifecycle!lifecycle)
  BY LifecycleNext DEF LifecycleStep, Lifecycle!lifecycle
<1>3. QED
  BY <1>1, <1>2, TypeCorrect, PTL DEF Spec, LifecycleSpec, Lifecycle!Spec

-----------------------------------------------------------------------------
\* Without the watchdog its goroutine never leaves "idle".
NoDog == pc[Dog] = "idle"

\* The first part of a Job's name is a run.
LEMMA JobHasRun ==
  ASSUME TypeInv
  PROVE  \A j \in DOMAIN jobs : j[1] \in Runs
  BY DEF TypeInv, RunTypes, JobNames

\* What the leaves below need of the types.
NumberTypes ==
  /\ retry \in [Runs -> 0..MaxRetries] /\ attempts \in [Runs -> Nat \ {0}]
  /\ cont \in [Runs -> Nat] /\ pc \in [Threads -> PCs]
  /\ cur \in [Threads -> Runs \cup {NoRun}]
  /\ ChainLen \in Nat \ {0} /\ MaxRetries \in Nat

LEMMA Numbers ==
  ASSUME TypeInv
  PROVE  NumberTypes
  BY MaxRetriesAssumption, ConfigAssumption, Zenon DEF TypeInv, RunTypes, NumberTypes

-----------------------------------------------------------------------------
(* A step moves one goroutine, unless it ends the process *)

OnlyMoves(th) ==
  \A other \in Threads \ {th} : pc'[other] = pc[other] /\ cur'[other] = cur[other]

LEMMA ProcessMoves ==
  ASSUME TypeInv, NEW th \in Threads,
         ProcessTicketSteps(th) \/ \E t \in Tickets : ProcessTicket(th, t)
  PROVE  OnlyMoves(th)
  BY DEF TypeInv, RunTypes, OnlyMoves, ProcessTicketSteps, ProcessTicket, RefuseTicket,
      RefuseNoRepo, MarkInProgress, StartRepoURLPoll, HoldForStart, HoldNewRun,
      LaunchTaskRun, control

LEMMA HandlerMoves ==
  ASSUME TypeInv, NEW th \in Threads, HandleJobFailed(th) \/ Report(th)
  PROVE  OnlyMoves(th) \/ Die
  BY Zenon DEF TypeInv, RunTypes, OnlyMoves, HandleJobFailed, JobFailed, FailureIgnored,
       FallBack, Retry, GiveUp, LaunchFallbackJob, LaunchRetryJob, Relaunch, FallBackPanics,
       Report

LEMMA LoopMoves ==
  ASSUME TypeInv, LoopNext
  PROVE  OnlyMoves(Loop) \/ Die
<1>1. CASE \/ LoopPoll \/ LoopReap \/ LoopDone \/ \E r \in Runs : CheckJobStatus(r)
           \/ HandleJobComplete
  BY <1>1 DEF TypeInv, RunTypes, OnlyMoves, LoopPoll, LoopReap, LoopDone, CheckJobStatus,
      HandleJobComplete, PromptContinuation, HoldForMerge, HoldCompletedRun, ReviewRejects,
      JobSucceeded, control
<1>2. QED
  BY <1>1, ProcessMoves, HandlerMoves DEF LoopNext, LoopTicket

LEMMA HookMoves ==
  ASSUME TypeInv, NEW h \in Hooks, HookSteps(h) \/ Requests(h)
  PROVE  OnlyMoves(h) \/ Die
<1>1. CASE \/ ApprovalSteps(h)
           \/ \E r \in Runs : ApprovalCallback(h, r) \/ RepoURLArrives(h, r) \/ RepoURLFails(h, r)
  BY <1>1 DEF TypeInv, RunTypes, OnlyMoves, ApprovalSteps, RejectRun, ResolvePreStart,
      LaunchPreStart, ResolvePreMerge, ResolveContinuation, LaunchContinuationJob,
      FailRepoURLTaskRun, Refused, ApprovalCallback, RepoURLArrives, RepoURLFails,
      ResolveApproval, control
<1>2. QED
  BY <1>1, ProcessMoves, HandlerMoves DEF HookSteps, Requests, WebhookTicket

LEMMA DogStaysIdle ==
  ASSUME "watchdog" \notin Features, TypeInv, NoDog, [Next]_vars
  PROVE  NoDog'
<1>1. CASE LoopNext
  BY <1>1, LoopMoves, ConfigAssumption DEF OnlyMoves, Die, NoDog
<1>2. CASE DogNext
  BY <1>2, Zenon DEF NoDog, DogNext, WatchdogTick, WatchdogDone, WatchdogCheck,
       HandleJobFailed, Report, JobFailed, FailureIgnored, FallBack, Retry, GiveUp,
       LaunchFallbackJob, LaunchRetryJob, Relaunch, FallBackPanics
<1>3. ASSUME NEW h \in Hooks, HookSteps(h) \/ Requests(h) PROVE NoDog'
  BY <1>3, HookMoves, ConfigAssumption DEF OnlyMoves, Die, NoDog
<1>4. CASE AnyJobEnds \/ Crash \/ (\E t \in Tickets : RequeueTicket(t)) \/ UNCHANGED vars
  BY <1>4, Zenon DEF AnyJobEnds, JobEnds, Crash, Die, RequeueTicket, vars, control, NoDog
<1>5. QED
  BY <1>1, <1>2, <1>3, <1>4 DEF Next

-----------------------------------------------------------------------------
(* When the loop alone starts runs *)

\* Runs start in the loop, without a question, and end in the loop or after the
\* answer to a question about a finished Job.
LoopStarts ==
  /\ "pre_start" \notin Gates
  /\ Features \cap {"repoPoller", "webhooks", "watchdog"} = {}

Asks == {"reject", "preMerge", "continuation", "launchContinuation",
         "reportFailed", "reportComplete"}

ByLoop ==
  /\ NoDog /\ polling = {}
  /\ \A r \in Runs : /\ gate[r] \in {"none", "pre_merge", "continuation"}
                     /\ state[r] = "NeedsHuman" => gate[r] # "none"
  /\ \A h \in Hooks : pc[h] \in Asks \cup {"idle"}

\* What the leaves below need of the types.
LoopTypes ==
  /\ pc \in [Threads -> PCs] /\ cur \in [Threads -> Runs \cup {NoRun}]
  /\ tk \in [Threads -> Tickets \cup {NoTicket}] /\ todo \in [{Loop, Dog} -> SUBSET Runs]
  /\ state \in [Runs -> States \cup {Unused}] /\ gate \in [Runs -> GateTypes \cup {"none"}]
  /\ ticketOf \in [Runs -> Tickets \cup {NoTicket}] /\ NoTicket \notin Tickets
  /\ taskRuns \in [Tickets -> Runs \cup {NoRun}] /\ NoRun \notin Runs
  /\ Loop # Dog /\ Loop \notin Hooks /\ Dog \notin Hooks

LEMMA TypesOfLoop ==
  ASSUME TypeInv
  PROVE  LoopTypes
  BY ConfigAssumption, Zenon DEF TypeInv, RunTypes, LoopTypes

\* Besides the loop, Jobs that end, crashes and requeued tickets, what happens is
\* the answer to a question.
OtherSteps == AnyJobEnds \/ Crash \/ (\E t \in Tickets : RequeueTicket(t)) \/ UNCHANGED vars

AnswerSteps(h) ==
  \/ RejectRun(h) \/ ResolvePreMerge(h) \/ ResolveContinuation(h) \/ LaunchContinuationJob(h)
  \/ Report(h) \/ \E r \in Runs : ApprovalCallback(h, r)

LEMMA LoopAndAnswers ==
  ASSUME LoopStarts, TypeInv, ByLoop, [Next]_vars
  PROVE  LoopNext \/ OtherSteps \/ \E h \in Hooks : AnswerSteps(h)
<1>1. ~DogNext
  BY Zenon DEF LoopStarts, ByLoop, NoDog, DogNext, WatchdogTick, WatchdogDone,
       WatchdogCheck, HandleJobFailed, Report, JobFailed, FailureIgnored, FallBack, Retry,
       GiveUp, LaunchFallbackJob, LaunchRetryJob, Relaunch, FallBackPanics
<1>2. ASSUME NEW h \in Hooks, HookSteps(h) \/ Requests(h) PROVE AnswerSteps(h)
  <2>0. pc[h] \in Asks \cup {"idle"}
    BY DEF ByLoop
  <2>1. ~ProcessTicketSteps(h)
    BY <2>0, Zenon DEF Asks, ProcessTicketSteps, RefuseTicket, RefuseNoRepo, MarkInProgress,
         StartRepoURLPoll, HoldForStart, HoldNewRun, LaunchTaskRun
  <2>2. ~ResolvePreStart(h) /\ ~LaunchPreStart(h) /\ ~FailRepoURLTaskRun(h)
    BY <2>0, Zenon DEF Asks, ResolvePreStart, LaunchPreStart, FailRepoURLTaskRun
  <2>3. Requests(h) => \E r \in Runs : ApprovalCallback(h, r)
    BY Zenon DEF LoopStarts, ByLoop, Requests, WebhookTicket, RepoURLArrives, RepoURLFails
  <2>4. QED
    BY <1>2, <2>1, <2>2, <2>3 DEF HookSteps, ApprovalSteps, AnswerSteps
<1>3. QED
  BY <1>1, <1>2 DEF Next, OtherSteps

LEMMA AnswerMoves ==
  ASSUME TypeInv, NEW h \in Hooks, AnswerSteps(h)
  PROVE  OnlyMoves(h)
  BY TypesOfLoop, Zenon DEF LoopTypes, AnswerSteps, OnlyMoves, RejectRun, ResolvePreMerge,
       ResolveContinuation, LaunchContinuationJob, Report, ApprovalCallback,
       ResolveApproval, Refused, control

\* What the loop does to the gates, the pollers and the other goroutines.
LEMMA ByLoopNext ==
  ASSUME LoopStarts, TypeInv, ByLoop, [Next]_vars
  PROVE  ByLoop'
<1>0. NoDog'
  BY DogStaysIdle DEF LoopStarts, ByLoop
<1> USE TypesOfLoop DEF LoopTypes
<1>1. CASE LoopNext
  <2>1. OnlyMoves(Loop) \/ Die
    BY <1>1, LoopMoves, Zenon
  <2>2. \A h \in Hooks : pc'[h] \in Asks \cup {"idle"}
    BY <2>1, Zenon DEF ByLoop, OnlyMoves, Die
  <2>3. /\ polling' \subseteq polling
        /\ \A r \in Runs : \/ gate'[r] = gate[r] /\ (state'[r] = "NeedsHuman" => state[r] = "NeedsHuman")
                           \/ gate'[r] \in {"pre_merge", "continuation"}
    <3> USE DEF runVars, counters, slack, CancelPending, LoopStarts
    <3>1. CASE LoopPoll \/ LoopReap \/ LoopDone \/ (\E t \in Tickets : LoopTicket(t))
               \/ (\E r \in Runs : CheckJobStatus(r)) \/ Report(Loop)
      BY <3>1, Zenon DEF LoopPoll, LoopReap, LoopDone, LoopTicket, ProcessTicket,
           CheckJobStatus, Report
    <3>2. CASE ProcessTicketSteps(Loop)
      BY <3>2 DEF ProcessTicketSteps, RefuseTicket, RefuseNoRepo, MarkInProgress, StartRepoURLPoll,
          HoldForStart, LaunchTaskRun
    <3>3. CASE HandleJobComplete
      BY <3>3 DEF HandleJobComplete, PromptContinuation, HoldForMerge, HoldCompletedRun,
          ReviewRejects, JobSucceeded, Transition, TryTransition
    <3>4. CASE HandleJobFailed(Loop)
      BY <3>4, Zenon DEF HandleJobFailed, JobFailed, FailureIgnored, FallBack, Retry,
           GiveUp, LaunchFallbackJob, LaunchRetryJob, Relaunch, FallBackPanics, Die,
           Requeue, Transition
    <3>5. QED
      BY <1>1, <3>1, <3>2, <3>3, <3>4, Zenon DEF LoopNext
  <2>4. QED
    BY <1>0, <2>2, <2>3, Zenon DEF ByLoop
<1>2. ASSUME NEW h \in Hooks, AnswerSteps(h) PROVE ByLoop'
  <2>1. OnlyMoves(h)
    BY <1>2, AnswerMoves, Zenon
  <2>2. pc'[h] \in Asks \cup {"idle"}
    <3>1. \A r \in Runs : state[r] = "NeedsHuman" => gate[r] \in {"pre_merge", "continuation"}
      BY Zenon DEF ByLoop
    <3>2. QED
      BY <1>2, <3>1 DEF ByLoop, Asks, AnswerSteps, RejectRun, ResolvePreMerge, ResolveContinuation,
          LaunchContinuationJob, Report, ApprovalCallback, ResolveApproval, Resolver, Refused, control
  <2>3. /\ UNCHANGED <<gate, polling>>
        /\ \A r \in Runs : state'[r] = "NeedsHuman" => state[r] = "NeedsHuman"
    BY <1>2, ZenonT(20) DEF AnswerSteps, RejectRun, ResolvePreMerge, ResolveContinuation,
         LaunchContinuationJob, Report, ApprovalCallback, ResolveApproval, Refused,
         Transition, runVars, slack, CancelPending
  <2>4. QED
    BY <1>0, <2>1, <2>2, <2>3, Zenon DEF ByLoop, OnlyMoves
<1>3. CASE OtherSteps
  BY <1>0, <1>3, Zenon DEF OtherSteps, AnyJobEnds, JobEnds, Crash, Die, RequeueTicket, vars,
       runVars, slack, control, ByLoop
<1>4. QED
  BY <1>1, <1>2, <1>3, LoopAndAnswers, Zenon

LEMMA LoopsAlone ==
  ASSUME LoopStarts
  PROVE  Spec => []ByLoop
<1>1. Init => ByLoop
  BY DEF Init, ByLoop, NoDog, Unused
<1>2. TypeInv /\ ByLoop /\ [Next]_vars => ByLoop'
  BY ByLoopNext
<1>3. QED
  BY <1>1, <1>2, TypeCorrect, PTL DEF Spec
=============================================================================
