-------------------------- MODULE Decisions_proofs --------------------------
(***************************************************************************)
(* Who decides about a run: its outcome is reported once, and it gets no Job*)
(* before the pre_start gate and the guard rails have let it through.      *)
(***************************************************************************)
EXTENDS Reconciler_proofs

USE DEF Threads, Goto, Enter, Return, AfterTicket, AfterJob

(* The outcome of a run is reported once.  The code review gate (which ignores *)
(* the error of its transition) and the repository-URL poller (which reports   *)
(* before it transitions) are assumed to be off.                               *)

Decided == {"Succeeded", "Failed"}

Reporting(th) == pc[th] \in {"reportComplete", "reportFailed"}

\* OneOutcome is not inductive: what makes it hold is that a goroutine about to
\* report is the one whose transition decided the run, that no other is, and that
\* a run once decided stays so.
OutcomeInv ==
  /\ polling = {}
  /\ \A th \in Threads : pc[th] # "exhaust"
  /\ \A r \in Runs : reports[r] <= 1 /\ (reports[r] = 1 => state[r] \in Decided)
  /\ \A th \in Threads : Reporting(th) => state[cur[th]] \in Decided /\ reports[cur[th]] = 0
  /\ \A a, b \in Threads : Reporting(a) /\ Reporting(b) /\ cur[a] = cur[b] => a = b

LEMMA DecidedIsFinal ==
  ASSUME TypeInv, LifecycleStep, NEW r \in Runs, state[r] \in Decided
  PROVE state'[r] = state[r]
<1>1. ASSUME NEW q \in Runs, Lifecycle!Create(q) PROVE state'[r] = state[r]
  BY <1>1, Zenon DEF Lifecycle!Create, Lifecycle!Unused, Decided, TypeInv, RunTypes
<1>2. ASSUME NEW q \in Runs, Lifecycle!Advance(q) PROVE state'[r] = state[r]
  BY <1>2, SameTable, TableFacts DEF Lifecycle!Advance, Decided, TypeInv, RunTypes
<1>3. ASSUME NEW q \in Runs, Lifecycle!Relaunch(q) PROVE state'[r] = state[r]
  BY <1>3, SameTable, TableFacts, Zenon DEF Lifecycle!Relaunch, Decided, TypeInv, RunTypes
<1>4. ASSUME NEW q \in Runs, Lifecycle!Exhaust(q) PROVE state'[r] = state[r]
  BY <1>4, SameTable, TableFacts DEF Lifecycle!Exhaust, Decided, TypeInv, RunTypes
<1>5. QED
  BY <1>1, <1>2, <1>3, <1>4 DEF LifecycleStep, Lifecycle!Next

-----------------------------------------------------------------------------
(* A step reports nothing, decides a run, or reports one *)

ReportsNothing ==
  /\ UNCHANGED reports /\ polling' = {}
  /\ \A th \in Threads : /\ pc'[th] # "exhaust"
                         /\ Reporting(th)' => Reporting(th) /\ cur'[th] = cur[th]

Decides(th) ==
  /\ UNCHANGED <<reports, polling, cur>>
  /\ cur[th] \in Runs /\ state[cur[th]] \notin Decided /\ state'[cur[th]] \in Decided
  /\ \E l \in {"reportComplete", "reportFailed"} : pc' = [pc EXCEPT ![th] = l]

Publishes(th) ==
  /\ Reporting(th) /\ ~Reporting(th)'
  /\ reports' = [reports EXCEPT ![cur[th]] = @ + 1]
  /\ UNCHANGED polling
  /\ \A other \in Threads \ {th} : pc'[other] = pc[other] /\ cur'[other] = cur[other]
  /\ pc'[th] # "exhaust"

OutcomeStep == ReportsNothing \/ \E th \in Threads : Decides(th) \/ Publishes(th)

LEMMA OutcomePreserved ==
  ASSUME TypeInv, LifecycleStep, OutcomeInv, OutcomeStep
  PROVE OutcomeInv'
<1> USE DEF TypeInv, RunTypes
<1>1. \A r \in Runs : state[r] \in Decided => state'[r] = state[r]
  BY DecidedIsFinal, Zenon
<1>2. \A th \in Threads : Reporting(th) => cur[th] \in Runs
  BY HoldsRun, Zenon DEF Reporting, Resting
<1>3. CASE ReportsNothing
  BY <1>1, <1>2, <1>3 DEF ReportsNothing, OutcomeInv
<1>4. ASSUME NEW th \in Threads, Decides(th) PROVE OutcomeInv'
  <2>1. reports[cur[th]] = 0
    <3>1. cur[th] \in Runs /\ reports[cur[th]] # 1 /\ reports[cur[th]] <= 1
      BY <1>4, Zenon DEF Decides, OutcomeInv
    <3>2. reports[cur[th]] \in Nat
      BY <3>1, Zenon
    <3>3. QED
      BY <3>1, <3>2
  <2>2. \A other \in Threads : Reporting(other) => cur[other] # cur[th]
    BY <1>4, Zenon DEF Decides, OutcomeInv
  <2>3. \A other \in Threads : Reporting(other)' <=> Reporting(other) \/ other = th
    BY <1>4 DEF Decides, Reporting
  <2>4. polling' = {} /\ \A other \in Threads : pc'[other] # "exhaust"
    BY <1>4, Zenon DEF Decides, OutcomeInv
  <2>5. \A r \in Runs : reports'[r] <= 1 /\ (reports'[r] = 1 => state'[r] \in Decided)
    BY <1>1, <1>4, Zenon DEF Decides, OutcomeInv
  <2>6. QED
    BY <1>1, <1>2, <1>4, <2>1, <2>2, <2>3, <2>4, <2>5 DEF Decides, OutcomeInv
<1>5. ASSUME NEW th \in Threads, Publishes(th) PROVE OutcomeInv'
  BY <1>1, <1>2, <1>5 DEF Publishes, OutcomeInv, Reporting
<1>6. QED
  BY <1>3, <1>4, <1>5, Zenon DEF OutcomeStep

-----------------------------------------------------------------------------
(* Which action is which *)

\* Moving one goroutine to a place where it does not report is quiet.
LEMMA QuietMove ==
  ASSUME TypeInv, OutcomeInv, NEW th \in Threads, NEW l, NEW r,
         l \notin {"reportComplete", "reportFailed", "exhaust"},
         pc' = [pc EXCEPT ![th] = l],
         cur' = [cur EXCEPT ![th] = r] \/ UNCHANGED cur,
         UNCHANGED <<reports, polling>>
  PROVE OutcomeStep
  BY Zenon DEF TypeInv, RunTypes, OutcomeInv, Reporting, ReportsNothing, OutcomeStep

LEMMA QuietStay ==
  ASSUME OutcomeInv, UNCHANGED <<pc, cur, reports, polling>>
  PROVE OutcomeStep
  BY Zenon DEF OutcomeInv, Reporting, ReportsNothing, OutcomeStep

LEMMA DecidingMove ==
  ASSUME TypeInv, NEW th \in Threads, cur[th] \in Runs,
         NEW l \in {"reportComplete", "reportFailed"}, Goto(th, l),
         NEW s \in Decided, Transition(cur[th], s), UNCHANGED <<reports, polling>>
  PROVE OutcomeStep
<1>1. state[cur[th]] \notin Decided
  BY TableFacts DEF Transition, Decided
<1>2. QED
  BY <1>1, Zenon DEF TypeInv, RunTypes, Transition, Decides, OutcomeStep

LEMMA OutcomeProcess ==
  ASSUME "repoPoller" \notin Features, TypeInv, OutcomeInv, NEW th \in Threads,
         ProcessTicketSteps(th)
  PROVE OutcomeStep
<1>1. CASE RefuseTicket(th) \/ RefuseNoRepo(th) \/ MarkInProgress(th)
  BY <1>1, QuietMove, Zenon DEF RefuseTicket, RefuseNoRepo, MarkInProgress, slack, ghosts
<1>2. ASSUME NEW r \in Runs, HoldForStart(th, r) PROVE OutcomeStep
  BY <1>2, QuietMove, Zenon DEF HoldForStart, HoldNewRun, ghosts
<1>3. ASSUME NEW r \in Runs, LaunchTaskRun(th, r) PROVE OutcomeStep
  <2>1. \/ Enter(th, "mark", r)
        \/ Return(th, AfterTicket(th))
    BY <1>3, Zenon DEF LaunchTaskRun
  <2>2. UNCHANGED <<reports, polling>>
    BY <1>3, Zenon DEF LaunchTaskRun, slack, ghosts
  <2>3. QED
    BY <2>1, <2>2, QuietMove
<1>4. QED
  BY <1>1, <1>2, <1>3 DEF ProcessTicketSteps, StartRepoURLPoll

LEMMA OutcomeReport ==
  ASSUME TypeInv, NEW th \in Threads, Report(th)
  PROVE OutcomeStep
  BY Zenon DEF TypeInv, RunTypes, Report, CancelPending, Reporting, Publishes, OutcomeStep

LEMMA OutcomeDie ==
  ASSUME Die
  PROVE OutcomeStep
  BY DEF Die, Reporting, ReportsNothing, OutcomeStep

LEMMA OutcomeFailed ==
  ASSUME TypeInv, OutcomeInv, NEW th \in {Loop, Dog}, HandleJobFailed(th)
  PROVE OutcomeStep
<1>1. CASE JobFailed(th) \/ FallBack(th) \/ Retry(th)
  BY <1>1, QuietMove, Zenon DEF JobFailed, FallBack, Retry, slack, ghosts
<1>2. CASE FailureIgnored(th)
  BY <1>2, QuietMove, Zenon DEF FailureIgnored, CancelPending, ghosts
<1>3. CASE GiveUp(th)
  BY <1>3, HoldsRun, DecidingMove, Zenon DEF GiveUp, Resting, Decided, slack, ghosts
<1>4. ASSUME NEW n, NEW kind \in {"fallback", "retry"}, Relaunch(th, kind, n) PROVE OutcomeStep
  <2>1. /\ pc' = [pc EXCEPT ![th] = AfterJob(th)] /\ cur' = [cur EXCEPT ![th] = NoRun]
        /\ UNCHANGED <<reports, polling>>
    BY <1>4, Zenon DEF Relaunch, CancelPending, ghosts
  <2>2. QED
    BY <2>1, QuietMove, Zenon
<1>5. QED
  BY <1>1, <1>2, <1>3, <1>4, OutcomeDie
  DEF HandleJobFailed, LaunchFallbackJob, LaunchRetryJob, FallBackPanics

LEMMA OutcomeLoops ==
  ASSUME "codeReview" \notin Features, "repoPoller" \notin Features, TypeInv, OutcomeInv,
         LoopNext \/ DogNext
  PROVE OutcomeStep
<1>1. CASE LoopPoll \/ LoopReap \/ LoopDone \/ WatchdogTick \/ WatchdogDone
  BY <1>1, QuietMove, Zenon DEF LoopPoll, LoopReap, LoopDone, WatchdogTick, WatchdogDone,
       slack, ghosts
<1>2. ASSUME NEW t \in Tickets, LoopTicket(t) PROVE OutcomeStep
  BY <1>2, QuietMove, QuietStay, Zenon DEF LoopTicket, ProcessTicket, slack, ghosts, control
<1>3. ASSUME NEW r \in Runs, CheckJobStatus(r) \/ WatchdogCheck(r) PROVE OutcomeStep
  BY <1>3, QuietMove, QuietStay DEF CheckJobStatus, WatchdogCheck, slack, ghosts, control
<1>4. CASE PromptContinuation
  BY <1>4, QuietMove, Zenon DEF PromptContinuation, HoldCompletedRun, ghosts
<1>5. CASE HoldForMerge
  BY <1>5, QuietMove, Zenon DEF HoldForMerge, HoldCompletedRun, ghosts
<1>6. CASE JobSucceeded
  BY <1>6, HoldsRun, DecidingMove, QuietMove, Zenon
  DEF JobSucceeded, Resting, Decided, slack, ghosts
<1>7. QED
  BY <1>1, <1>2, <1>3, <1>4, <1>5, <1>6, OutcomeProcess, OutcomeFailed, OutcomeReport, Zenon
  DEF LoopNext, DogNext, HandleJobComplete, ReviewRejects

LEMMA OutcomeHooks ==
  ASSUME "repoPoller" \notin Features, TypeInv, OutcomeInv, NEW h \in Hooks,
         HookSteps(h) \/ Requests(h)
  PROVE OutcomeStep
<1>1. ASSUME NEW t \in Tickets, WebhookTicket(h, t) PROVE OutcomeStep
  BY <1>1, QuietMove, QuietStay, Zenon DEF WebhookTicket, ProcessTicket, slack, ghosts,
       control
<1>2. ASSUME NEW r \in Runs, ApprovalCallback(h, r) PROVE OutcomeStep
  BY <1>2, QuietMove, QuietStay DEF ApprovalCallback, ResolveApproval, Resolver, ghosts, control
<1>3. CASE Requests(h)
  BY <1>1, <1>2, <1>3, Zenon DEF Requests, RepoURLArrives, RepoURLFails, OutcomeInv
<1>4. CASE RejectRun(h) \/ ResolvePreMerge(h)
  BY <1>4, HoldsRun, DecidingMove, QuietMove, Zenon
  DEF RejectRun, ResolvePreMerge, Refused, Resting, Decided, slack
<1>5. CASE ResolvePreStart(h) \/ ResolveContinuation(h)
  BY <1>5, QuietMove, Zenon DEF ResolvePreStart, ResolveContinuation, Refused, slack
<1>6. CASE LaunchPreStart(h)
  BY <1>6, QuietMove DEF LaunchPreStart, slack, ghosts
<1>7. CASE LaunchContinuationJob(h)
  BY <1>7, QuietMove, Zenon DEF LaunchContinuationJob, slack, ghosts
<1>8. QED
  BY <1>3, <1>4, <1>5, <1>6, <1>7, OutcomeProcess, OutcomeReport, Zenon
  DEF HookSteps, ApprovalSteps, FailRepoURLTaskRun, OutcomeInv

\* MarkComplete or MarkFailed is called at most once for a run, however the loop,
\* the watchdog and the approval callbacks race for its outcome.
THEOREM OutcomeReportedOnce ==
  ASSUME "codeReview" \notin Features, "repoPoller" \notin Features
  PROVE  Spec => []OneOutcome
<1>1. Init => OutcomeInv
  BY DEF Init, OutcomeInv, Reporting
<1>2. ASSUME TypeInv, OutcomeInv, [Next]_vars PROVE OutcomeStep
  <2>1. CASE AnyJobEnds \/ (\E t \in Tickets : RequeueTicket(t)) \/ UNCHANGED vars
    BY <1>2, <2>1, QuietStay, Zenon
    DEF AnyJobEnds, JobEnds, RequeueTicket, vars, slack, control, ghosts
  <2>2. CASE Crash
    BY <2>2, OutcomeDie DEF Crash
  <2>3. QED
    BY <1>2, <2>1, <2>2, OutcomeLoops, OutcomeHooks DEF Next
<1>3. TypeInv /\ OutcomeInv /\ [Next]_vars => OutcomeInv'
  BY <1>2, LifecycleNext, OutcomePreserved
<1>4. OutcomeInv => OneOutcome
  BY DEF OutcomeInv, OneOutcome
<1>5. QED
  BY <1>1, <1>3, <1>4, TypeCorrect, PTL DEF Spec

-----------------------------------------------------------------------------
Holds(th, r) == InHandler(th) /\ cur[th] = r

\* Only the runs of tickets without a repository are held for its URL.
UrlGates ==
  \A r \in Runs : gate[r] = "missing_repo_url" => state[r] # Unused /\ ticketOf[r] \in NoRepo

\* A run nobody has started yet: it has no Job, the loop does not look at it, and
\* the only goroutines that hold it refuse it or are about to start it.
Confined(r) ==
  /\ \A j \in DOMAIN jobs : j[1] # r
  /\ state[r] \in {Unused, "NeedsHuman", "Failed"}
  /\ gate[r] \in {"none", "pre_start", "missing_repo_url"}
  /\ state[r] = "NeedsHuman" => gate[r] # "none"
  /\ r \notin todo[Loop]
  /\ \A th \in Threads :
       Holds(th, r) => /\ pc[th] \in {"preStart", "reject", "reportFailed", "exhaust"}
                       /\ pc[th] = "preStart" => gate[r] # "none"

\* The two ways out.
Launched(r) ==
  /\ state[r] = Unused /\ state'[r] # Unused
  /\ \E th \in Threads : MayStart(tk[th]) /\ ticketOf'[r] = tk[th]

Approved(r) ==
  \E h \in Hooks : /\ pc[h] = "preStart" /\ cur[h] = r
                   /\ granted' = IF gate[r] = "pre_start" THEN granted \cup {r} ELSE granted

\* StartsAreApproved is not inductive: what makes it hold is that a run whose start
\* nobody approved is confined, and so is an id no ticket has yet.
StartInv ==
  /\ NoDog /\ UrlGates
  /\ \A r \in Runs \ granted : state[r] = Unused \/ ticketOf[r] \notin NoRepo => Confined(r)

\* The runs of refused tickets, and the ids a later run may get.
RefusedInv ==
  /\ NoDog
  /\ \A r \in Runs : state[r] = Unused \/ ticketOf[r] \in Rejected =>
       /\ Confined(r) /\ r \notin asked
       /\ \A th \in Threads : Holds(th, r) => pc[th] # "preStart"

-----------------------------------------------------------------------------
(* A run stays confined until it is launched or approved *)

\* What the leaves below need of the types.
GateTypesOK ==
  /\ pc \in [Threads -> PCs] /\ cur \in [Threads -> Runs \cup {NoRun}]
  /\ state \in [Runs -> States \cup {Unused}] /\ gate \in [Runs -> GateTypes \cup {"none"}]
  /\ todo \in [{Loop, Dog} -> SUBSET Runs]

LEMMA InitiallyConfined ==
  ASSUME Init
  PROVE  \A r \in Runs : Confined(r)
  BY Zenon DEF Init, Confined, Holds, InHandler, Resting, Unused

LEMMA ConfinedProcess ==
  ASSUME TypeInv, NEW r \in Runs, Confined(r), NEW th \in Threads, ProcessTicketSteps(th)
  PROVE  Confined(r)' \/ Launched(r)
<1>0. GateTypesOK
  BY Zenon DEF TypeInv, RunTypes, GateTypesOK
<1> USE <1>0, ConfigAssumption
    DEF GateTypesOK, Confined, Holds, InHandler, Resting, runVars, counters, locals, CountTicket
<1>1. CASE RefuseTicket(th)
  BY <1>1, Zenon DEF RefuseTicket
<1>2. CASE RefuseNoRepo(th)
  BY <1>2, Zenon DEF RefuseNoRepo
<1>3. CASE MarkInProgress(th)
  BY <1>3, Zenon DEF MarkInProgress
<1>4. ASSUME NEW q \in Runs, NEW g \in {"pre_start", "missing_repo_url"}, HoldNewRun(th, q, g)
      PROVE  Confined(r)'
  BY <1>4 DEF HoldNewRun, Unallocated, Unused
<1>5. ASSUME NEW q \in Runs, LaunchTaskRun(th, q) PROVE Confined(r)' \/ Launched(r)
  <2>1. CASE q = r
    BY <1>5, <2>1 DEF LaunchTaskRun, Unallocated, Launched, Unused, TypeInv, RunTypes
  <2>2. CASE q # r
    BY <1>5, <2>2, NameRun DEF LaunchTaskRun, CreateJob
  <2>3. QED
    BY <2>1, <2>2, Zenon
<1>6. QED
  BY <1>1, <1>2, <1>3, <1>4, <1>5, Zenon
  DEF ProcessTicketSteps, StartRepoURLPoll, HoldForStart

LEMMA ConfinedLoop ==
  ASSUME TypeInv, NEW r \in Runs, Confined(r), LoopNext
  PROVE  Confined(r)' \/ Launched(r)
<1>0. GateTypesOK
  BY Zenon DEF TypeInv, RunTypes, GateTypesOK
<1> USE <1>0, ConfigAssumption
    DEF GateTypesOK, Confined, Holds, InHandler, Resting, runVars, counters, control, locals,
        CancelPending
<1>1. CASE LoopPoll \/ LoopReap \/ LoopDone
  BY <1>1 DEF LoopPoll, LoopReap, LoopDone, Unused
<1>2. ASSUME NEW t \in Tickets, LoopTicket(t) PROVE Confined(r)'
  BY <1>2 DEF LoopTicket, ProcessTicket
<1>3. ASSUME NEW q \in Runs, CheckJobStatus(q) PROVE Confined(r)'
  BY <1>3 DEF CheckJobStatus
<1>4. CASE PromptContinuation \/ HoldForMerge
  BY <1>4 DEF PromptContinuation, HoldForMerge, HoldCompletedRun, Transition
<1>5. CASE ReviewRejects \/ JobSucceeded
  BY <1>5 DEF ReviewRejects, JobSucceeded, Transition, TryTransition
<1>6. CASE JobFailed(Loop) \/ FailureIgnored(Loop) \/ GiveUp(Loop) \/ Report(Loop)
  BY <1>6 DEF JobFailed, FailureIgnored, GiveUp, Transition, Report
<1>7. CASE FallBack(Loop) \/ Retry(Loop)
  BY <1>7 DEF FallBack, Retry, Requeue
<1>8. ASSUME NEW kind \in {"fallback", "retry"}, NEW n, Relaunch(Loop, kind, n)
      PROVE  Confined(r)'
  BY <1>8, NameRun DEF Relaunch, CreateJob, Transition
<1>9. CASE FallBackPanics(Loop)
  BY <1>9, Zenon DEF FallBackPanics, Die
<1> HIDE DEF Confined
<1>10. QED
  BY <1>1, <1>2, <1>3, <1>4, <1>5, <1>6, <1>7, <1>8, <1>9, ConfinedProcess, Zenon
  DEF LoopNext, HandleJobComplete, HandleJobFailed, LaunchFallbackJob, LaunchRetryJob

LEMMA ConfinedHooks ==
  ASSUME TypeInv, NEW r \in Runs, Confined(r), NEW h \in Hooks, HookSteps(h) \/ Requests(h)
  PROVE  Confined(r)' \/ Launched(r) \/ Approved(r)
<1>0. GateTypesOK
  BY Zenon DEF TypeInv, RunTypes, GateTypesOK
<1> USE <1>0, ConfigAssumption
    DEF GateTypesOK, Confined, Holds, InHandler, Resting, runVars, counters, control, locals,
        CancelPending, Refused
<1>1. ASSUME NEW t \in Tickets, WebhookTicket(h, t) PROVE Confined(r)'
  BY <1>1 DEF WebhookTicket, ProcessTicket
<1>2. ASSUME NEW q \in Runs, NEW approved \in BOOLEAN, ResolveApproval(h, q, approved)
      PROVE  Confined(r)'
  BY <1>2 DEF ResolveApproval, Resolver
<1>3. ASSUME NEW q \in Runs, RepoURLFails(h, q) PROVE Confined(r)'
  BY <1>3, Zenon DEF RepoURLFails
<1>4. CASE RejectRun(h) \/ ResolvePreMerge(h)
  BY <1>4 DEF RejectRun, ResolvePreMerge, Transition
<1>5. CASE ResolvePreStart(h)
  BY <1>5 DEF ResolvePreStart, Transition, Approved
<1>6. CASE LaunchPreStart(h) \/ LaunchContinuationJob(h)
  BY <1>6, NameRun DEF LaunchPreStart, LaunchContinuationJob, CreateJob
<1>7. CASE ResolveContinuation(h)
  BY <1>7 DEF ResolveContinuation, Transition
<1>8. CASE FailRepoURLTaskRun(h)
  BY <1>8 DEF FailRepoURLTaskRun, TryTransition
<1>9. CASE Report(h)
  BY <1>9, Zenon DEF Report
<1> HIDE DEF Confined
<1>10. CASE ApprovalSteps(h)
  BY <1>4, <1>5, <1>6, <1>7, <1>8, <1>10, Zenon DEF ApprovalSteps
<1>11. CASE Requests(h)
  <2>1. ASSUME NEW q \in Runs, ApprovalCallback(h, q) \/ RepoURLArrives(h, q) PROVE Confined(r)'
    <3>1. \E approved \in BOOLEAN : ResolveApproval(h, q, approved)
      BY <2>1 DEF ApprovalCallback, RepoURLArrives
    <3>2. QED
      BY <1>2, <3>1, Zenon
  <2>2. QED
    BY <1>1, <1>3, <1>11, <2>1, Zenon DEF Requests
<1>12. QED
  BY <1>9, <1>10, <1>11, ConfinedProcess, Zenon DEF HookSteps

\* A run that was neither launched nor approved stays without a Job.
LEMMA Confinement ==
  ASSUME TypeInv, NoDog, "watchdog" \notin Features, NEW r \in Runs, Confined(r), [Next]_vars
  PROVE  Confined(r)' \/ Launched(r) \/ Approved(r)
<1> USE DEF Confined, Holds, InHandler
<1>1. CASE AnyJobEnds
  BY <1>1, Zenon DEF AnyJobEnds, JobEnds, runVars, control, locals
<1>2. CASE Crash
  BY <1>2, Zenon DEF Crash, Die, runVars, Resting
<1>3. CASE (\E t \in Tickets : RequeueTicket(t)) \/ UNCHANGED vars
  BY <1>3, Zenon DEF RequeueTicket, vars, runVars, control, locals
<1> HIDE DEF Confined
<1>4. ~DogNext
  BY Zenon DEF NoDog, DogNext, WatchdogTick, WatchdogDone, WatchdogCheck, HandleJobFailed,
       Report, JobFailed, FailureIgnored, FallBack, Retry, GiveUp, LaunchFallbackJob,
       LaunchRetryJob, Relaunch, FallBackPanics
<1>5. QED
  BY <1>1, <1>2, <1>3, <1>4, ConfinedLoop, ConfinedHooks DEF Next

-----------------------------------------------------------------------------
(* The pre_start gate *)

\* An id once allocated stays allocated, to the same ticket.
LEMMA TicketsStay ==
  ASSUME TypeInv, [Next]_vars, NEW r \in Runs
  PROVE  /\ state[r] = Unused \/ ticketOf'[r] = ticketOf[r]
         /\ state'[r] = Unused => state[r] = Unused
<1> USE DEF runVars
<1>0. ticketOf \in [Runs -> Tickets \cup {NoTicket}]
  BY Zenon DEF TypeInv, RunTypes
<1>1. state[r] = Unused \/ ticketOf'[r] = ticketOf[r]
  <2>1. ASSUME NEW th \in Threads, ProcessTicketSteps(th)
        PROVE  state[r] = Unused \/ ticketOf'[r] = ticketOf[r]
    BY <1>0, <2>1, Zenon DEF ProcessTicketSteps, RefuseTicket, RefuseNoRepo, MarkInProgress,
         StartRepoURLPoll, HoldForStart, HoldNewRun, LaunchTaskRun, Unallocated
  <2>2. CASE \/ \E th \in {Loop, Dog} : HandleJobFailed(th)
             \/ \E th \in Threads : Report(th)
             \/ AnyJobEnds \/ Crash \/ (\E t \in Tickets : RequeueTicket(t)) \/ UNCHANGED vars
    BY <2>2, Zenon DEF HandleJobFailed, JobFailed, FailureIgnored, FallBack, Retry, GiveUp,
         LaunchFallbackJob, LaunchRetryJob, Relaunch, FallBackPanics, Die, Report,
         AnyJobEnds, JobEnds, Crash, RequeueTicket, vars
  <2>3. CASE \/ LoopPoll \/ LoopReap \/ LoopDone \/ HandleJobComplete
             \/ \E t \in Tickets : LoopTicket(t)
             \/ \E q \in Runs : CheckJobStatus(q)
             \/ WatchdogTick \/ WatchdogDone
             \/ \E q \in Runs : WatchdogCheck(q)
    BY <2>3, Zenon DEF LoopPoll, LoopReap, LoopDone, LoopTicket, ProcessTicket,
         CheckJobStatus, HandleJobComplete, PromptContinuation, HoldForMerge,
         HoldCompletedRun, ReviewRejects, JobSucceeded, WatchdogTick, WatchdogDone,
         WatchdogCheck
  <2>4. CASE \E h \in Hooks : ApprovalSteps(h) \/ Requests(h)
    BY <2>4 DEF ApprovalSteps, Requests, RejectRun, ResolvePreStart, LaunchPreStart,
        ResolvePreMerge, ResolveContinuation, LaunchContinuationJob, FailRepoURLTaskRun,
        WebhookTicket, ProcessTicket, ApprovalCallback, RepoURLArrives, RepoURLFails,
        ResolveApproval
  <2>5. QED
    BY <2>1, <2>2, <2>3, <2>4, Zenon DEF Next, LoopNext, DogNext, HookSteps
<1>2. state'[r] = Unused => state[r] = Unused
  <2>0. state \in [Runs -> States \cup {Unused}]
    BY Zenon DEF TypeInv, RunTypes
  <2>1. LifecycleStep
    BY LifecycleNext
  <2>2. \A s \in States : s # Unused
    BY DEF States, Unused
  <2>3. QED
    BY <2>0, <2>1, <2>2, SameTable, TableFacts, Zenon
    DEF LifecycleStep, Lifecycle!Next, Lifecycle!Create, Lifecycle!Advance, Lifecycle!Relaunch,
        Lifecycle!Exhaust, Lifecycle!validTransitions, States
<1>3. QED
  BY <1>1, <1>2

\* A step holds no run for a URL but the one it starts for a ticket without.
UrlGatesKept ==
  \A r \in Runs : gate'[r] = "missing_repo_url" =>
    gate[r] = "missing_repo_url" \/ (state'[r] # Unused /\ ticketOf'[r] \in NoRepo)

LEMMA GatesAreKept ==
  ASSUME TypeInv, [Next]_vars
  PROVE  UrlGatesKept /\ granted \subseteq granted'
<1>0. gate \in [Runs -> GateTypes \cup {"none"}]
  BY Zenon DEF TypeInv, RunTypes
<1> USE <1>0 DEF UrlGatesKept, runVars, slack, ghosts, CancelPending
<1>1. ASSUME NEW th \in Threads, ProcessTicketSteps(th)
      PROVE  UrlGatesKept /\ granted \subseteq granted'
  <2>1. CASE \E r \in Runs : StartRepoURLPoll(th, r)
    <3>1. PICK r \in Runs : StartRepoURLPoll(th, r)
      BY <2>1
    <3>2. /\ state'[r] # Unused /\ ticketOf'[r] \in NoRepo /\ UNCHANGED granted
          /\ \A q \in Runs \ {r} : gate'[q] = gate[q]
      BY <3>1 DEF TypeInv, RunTypes, StartRepoURLPoll, HoldNewRun, Unused
    <3>3. QED
      BY <3>2, Zenon
  <2>2. CASE \E r \in Runs : HoldForStart(th, r)
    BY <2>2, Zenon DEF HoldForStart, HoldNewRun
  <2>3. CASE \/ RefuseTicket(th) \/ RefuseNoRepo(th) \/ MarkInProgress(th)
             \/ \E r \in Runs : LaunchTaskRun(th, r)
    BY <2>3, Zenon DEF RefuseTicket, RefuseNoRepo, MarkInProgress, LaunchTaskRun
  <2>4. QED
    BY <1>1, <2>1, <2>2, <2>3, Zenon DEF ProcessTicketSteps
<1>2. ASSUME NEW th \in {Loop, Dog}, HandleJobFailed(th)
      PROVE  UrlGatesKept /\ granted \subseteq granted'
  BY <1>2, Zenon DEF HandleJobFailed, JobFailed, FailureIgnored, FallBack, Retry, GiveUp,
       LaunchFallbackJob, LaunchRetryJob, Relaunch, FallBackPanics, Die
<1>3. ASSUME NEW th \in Threads, Report(th) PROVE UrlGatesKept /\ granted \subseteq granted'
  BY <1>3, Zenon DEF Report
<1>4. CASE LoopNext
  <2>1. CASE \/ LoopPoll \/ LoopReap \/ LoopDone \/ HandleJobComplete
             \/ \E t \in Tickets : LoopTicket(t)
             \/ \E r \in Runs : CheckJobStatus(r)
    BY <2>1, Zenon DEF LoopPoll, LoopReap, LoopDone, LoopTicket, ProcessTicket,
         CheckJobStatus, HandleJobComplete, PromptContinuation, HoldForMerge,
         HoldCompletedRun, ReviewRejects, JobSucceeded
  <2> HIDE DEF UrlGatesKept
  <2>2. QED
    BY <1>1, <1>2, <1>3, <1>4, <2>1 DEF LoopNext
<1>5. CASE DogNext
  BY <1>2, <1>3, <1>5, Zenon DEF DogNext, WatchdogTick, WatchdogDone, WatchdogCheck
<1>6. ASSUME NEW h \in Hooks, HookSteps(h) \/ Requests(h)
      PROVE  UrlGatesKept /\ granted \subseteq granted'
  <2>1. CASE ApprovalSteps(h) \/ Requests(h)
    BY <2>1, Zenon DEF ApprovalSteps, Requests, RejectRun, ResolvePreStart, LaunchPreStart,
         ResolvePreMerge, ResolveContinuation, LaunchContinuationJob, FailRepoURLTaskRun,
         Refused, WebhookTicket, ProcessTicket, ApprovalCallback, RepoURLArrives,
         RepoURLFails, ResolveApproval
  <2> HIDE DEF UrlGatesKept
  <2>2. QED
    BY <1>1, <1>3, <1>6, <2>1 DEF HookSteps
<1>7. CASE AnyJobEnds \/ Crash \/ (\E t \in Tickets : RequeueTicket(t)) \/ UNCHANGED vars
  BY <1>7, Zenon DEF AnyJobEnds, JobEnds, Crash, Die, RequeueTicket, vars
<1> HIDE DEF UrlGatesKept
<1>8. QED
  BY <1>4, <1>5, <1>6, <1>7 DEF Next

\* With the pre_start gate no run gets a Job before a human approved its start,
\* over retries, continuations, requeued tickets and restarts of the controller; a
\* run whose repository came from an answer in Slack is started by that answer.
\* The watchdog is off: it relaunches a run it finds waiting.
THEOREM StartsNeedApproval ==
  ASSUME "watchdog" \notin Features
  PROVE  Spec => []StartsAreApproved
<1>1. CASE "pre_start" \notin Gates
  <2>1. StartsAreApproved
    BY <1>1 DEF StartsAreApproved
  <2>2. QED
    BY <2>1, PTL
<1>2. CASE "pre_start" \in Gates
  <2>1. Init => StartInv
    BY InitiallyConfined DEF Init, StartInv, NoDog, UrlGates
  <2>2. TypeInv /\ StartInv /\ [Next]_vars => StartInv'
    <3> SUFFICES ASSUME TypeInv, StartInv, [Next]_vars PROVE StartInv'
      OBVIOUS
    <3>1. NoDog' /\ UrlGatesKept /\ granted \subseteq granted'
      BY DogStaysIdle, GatesAreKept DEF StartInv
    <3>a. UrlGates'
      BY <3>1, TicketsStay, Zenon DEF StartInv, UrlGates, UrlGatesKept
    <3>2. ASSUME NEW r \in Runs, r \notin granted', state'[r] = Unused \/ ticketOf'[r] \notin NoRepo
          PROVE  Confined(r)'
      <4>1. Confined(r) /\ gate[r] # "missing_repo_url"
        BY <3>1, <3>2, TicketsStay, Zenon DEF StartInv, UrlGates
      <4>2. Confined(r)' \/ Launched(r) \/ Approved(r)
        BY <4>1, Confinement DEF StartInv
      <4>3. ~Launched(r)
        BY <1>2 DEF Launched, MayStart
      <4>4. ~Approved(r)
        <5>1. ASSUME NEW h \in Hooks, pc[h] = "preStart", cur[h] = r PROVE gate[r] = "pre_start"
          BY <4>1, <5>1 DEF Confined, Holds, InHandler, Resting
        <5>2. QED
          BY <3>2, <5>1 DEF Approved
      <4>5. QED
        BY <4>2, <4>3, <4>4
    <3>3. QED
      BY <3>1, <3>a, <3>2 DEF StartInv
  <2>3. TypeInv /\ StartInv => StartsAreApproved
    <3>1. TypeInv => \A j \in DOMAIN jobs : j[1] \in Runs
      BY JobHasRun
    <3>2. QED
      BY <3>1 DEF StartInv, StartsAreApproved, Confined
  <2>4. QED
    BY <2>1, <2>2, <2>3, TypeCorrect, PTL DEF Spec
<1>3. QED
  BY <1>1, <1>2

-----------------------------------------------------------------------------
(* The guard rails *)

\* Which runs a step adds to the ones with an approval message, and which it sends
\* to resolvePreStartApproval.
NewlyAsked ==
  \A r \in asked' \ asked :
    \/ pc[Loop] = "complete" /\ cur[Loop] = r
    \/ state'[r] # Unused /\ ticketOf'[r] \notin Rejected

NewlyStarting ==
  \A th \in Threads : pc'[th] = "preStart" =>
    \/ pc[th] = "preStart" /\ cur'[th] = cur[th]
    \/ LET r == cur'[th] IN
       state[r] = "NeedsHuman" /\ (r \in asked \/ ticketOf[r] \notin Rejected)

\* Most steps move one goroutine elsewhere and send no message.
LEMMA QuietlyOn ==
  ASSUME TypeInv, NEW th \in Threads, OnlyMoves(th) \/ Die, pc'[th] # "preStart",
         asked' \subseteq asked
  PROVE  NewlyAsked /\ NewlyStarting
  BY Zenon DEF OnlyMoves, Die, NewlyAsked, NewlyStarting

LEMMA Messages ==
  ASSUME TypeInv, [Next]_vars
  PROVE  NewlyAsked /\ NewlyStarting
<1>0. pc \in [Threads -> PCs]
  BY Zenon DEF TypeInv, RunTypes
<1> USE <1>0 DEF slack, CancelPending
<1>1. ASSUME NEW th \in Threads, ProcessTicketSteps(th) PROVE NewlyAsked /\ NewlyStarting
  <2>1. pc'[th] # "preStart" /\ OnlyMoves(th)
    BY <1>1, ProcessMoves, Zenon DEF ProcessTicketSteps, RefuseTicket, RefuseNoRepo,
         MarkInProgress, StartRepoURLPoll, HoldForStart, HoldNewRun, LaunchTaskRun
  <2>2. CASE asked' \subseteq asked
    BY <2>1, <2>2, QuietlyOn
  <2>3. ASSUME NEW r \in Runs, HoldForStart(th, r) PROVE NewlyAsked /\ NewlyStarting
    BY <2>1, <2>3 DEF TypeInv, RunTypes, HoldForStart, HoldNewRun, Unused, OnlyMoves, NewlyAsked,
        NewlyStarting
  <2>4. QED
    BY <1>1, <2>2, <2>3, Zenon DEF ProcessTicketSteps, RefuseTicket, RefuseNoRepo,
         MarkInProgress, StartRepoURLPoll, LaunchTaskRun
<1>2. ASSUME NEW th \in {Loop, Dog}, HandleJobFailed(th) PROVE NewlyAsked /\ NewlyStarting
  BY <1>2, HandlerMoves, QuietlyOn, ZenonT(20) DEF HandleJobFailed, JobFailed,
       FailureIgnored, FallBack, Retry, GiveUp, LaunchFallbackJob, LaunchRetryJob, Relaunch,
       FallBackPanics, Die
<1>3. ASSUME NEW th \in Threads, Report(th) PROVE NewlyAsked /\ NewlyStarting
  BY <1>3, HandlerMoves, QuietlyOn, Zenon DEF Report
<1>4. CASE LoopNext
  <2>1. CASE LoopPoll \/ LoopReap \/ LoopDone \/ ReviewRejects \/ JobSucceeded
    BY <1>4, <2>1, LoopMoves, QuietlyOn, Zenon DEF LoopPoll, LoopReap, LoopDone,
         ReviewRejects, JobSucceeded
  <2>2. CASE \E t \in Tickets : LoopTicket(t)
    BY <1>4, <2>2, LoopMoves, QuietlyOn DEF LoopTicket, ProcessTicket, control
  <2>3. CASE \E r \in Runs : CheckJobStatus(r)
    BY <1>4, <2>3, LoopMoves, QuietlyOn, Zenon DEF CheckJobStatus, control
  <2>4. CASE PromptContinuation \/ HoldForMerge
    BY <2>4, Zenon DEF TypeInv, RunTypes, PromptContinuation, HoldForMerge,
         HoldCompletedRun, NewlyAsked, NewlyStarting
  <2>5. QED
    BY <1>1, <1>2, <1>3, <1>4, <2>1, <2>2, <2>3, <2>4 DEF LoopNext, HandleJobComplete
<1>5. CASE DogNext
  <2>1. CASE WatchdogTick \/ WatchdogDone \/ \E r \in Runs : WatchdogCheck(r)
    BY <2>1 DEF TypeInv, RunTypes, WatchdogTick, WatchdogDone, WatchdogCheck, control, NewlyAsked,
        NewlyStarting
  <2>2. QED
    BY <1>2, <1>3, <1>5, <2>1 DEF DogNext
<1>6. ASSUME NEW h \in Hooks, HookSteps(h) \/ Requests(h) PROVE NewlyAsked /\ NewlyStarting
  <2>1. CASE ApprovalSteps(h)
    BY <1>6, <2>1, HookMoves, QuietlyOn, Zenon DEF ApprovalSteps, RejectRun,
         ResolvePreStart, LaunchPreStart, ResolvePreMerge, ResolveContinuation,
         LaunchContinuationJob, FailRepoURLTaskRun, Refused
  <2>2. CASE \E t \in Tickets : WebhookTicket(h, t)
    BY <1>6, <2>2, HookMoves, QuietlyOn, Zenon DEF WebhookTicket, ProcessTicket, control
  <2>3. CASE \E r \in Runs : RepoURLFails(h, r)
    BY <1>6, <2>3, HookMoves, QuietlyOn, Zenon DEF RepoURLFails
  <2>4. CASE \E r \in Runs : ApprovalCallback(h, r) \/ RepoURLArrives(h, r)
    BY <2>4 DEF TypeInv, RunTypes, ApprovalCallback, RepoURLArrives, ResolveApproval, control,
        NewlyAsked, NewlyStarting
  <2>5. QED
    BY <1>1, <1>3, <1>6, <2>1, <2>2, <2>3, <2>4 DEF HookSteps, Requests
<1>7. CASE AnyJobEnds \/ Crash \/ (\E t \in Tickets : RequeueTicket(t)) \/ UNCHANGED vars
  BY <1>7, Zenon DEF AnyJobEnds, JobEnds, Crash, Die, RequeueTicket, vars, control,
       NewlyAsked, NewlyStarting
<1>8. QED
  BY <1>4, <1>5, <1>6, <1>7 DEF Next

\* A ticket the guard rails refuse never gets a Job, also when its repository only
\* becomes known from an answer in Slack: for any number of answers, approvals and
\* webhooks, over restarts.  The watchdog is off, as it relaunches a run it finds
\* waiting for the answer.
THEOREM RefusedNeverRun ==
  ASSUME "watchdog" \notin Features
  PROVE  Spec => []RefusedTicketsNeverRun
<1>1. Init => RefusedInv
  BY InitiallyConfined DEF Init, RefusedInv, NoDog, Holds, InHandler, Resting
<1>2. TypeInv /\ RefusedInv /\ [Next]_vars => RefusedInv'
  <2> SUFFICES ASSUME TypeInv, RefusedInv, [Next]_vars PROVE RefusedInv'
    OBVIOUS
  <2>1. NoDog'
    BY DogStaysIdle DEF RefusedInv
  <2>2. ASSUME NEW r \in Runs, state'[r] = Unused \/ ticketOf'[r] \in Rejected
        PROVE  /\ Confined(r)' /\ r \notin asked'
               /\ \A th \in Threads : Holds(th, r)' => pc'[th] # "preStart"
    <3>1. /\ Confined(r) /\ r \notin asked
          /\ \A th \in Threads : Holds(th, r) => pc[th] # "preStart"
          /\ state[r] = Unused \/ ticketOf[r] \in Rejected
      BY <2>2, TicketsStay DEF RefusedInv
    <3>2. Confined(r)'
      <4>1. ~Launched(r)
        BY <2>2 DEF Launched, MayStart
      <4>2. ~Approved(r)
        BY <3>1 DEF Approved, Holds, InHandler, Resting
      <4>3. QED
        BY <3>1, <4>1, <4>2, Confinement DEF RefusedInv
    <3>3. r \notin asked'
      BY <2>2, <3>1, Messages, Zenon DEF NewlyAsked, Confined, Holds, InHandler, Resting
    <3>4. ASSUME NEW th \in Threads, Holds(th, r)' PROVE pc'[th] # "preStart"
      BY <3>1, <3>4, Messages DEF NewlyStarting, Holds, InHandler, Resting, Unused
    <3>5. QED
      BY <3>2, <3>3, <3>4
  <2>3. QED
    BY <2>1, <2>2 DEF RefusedInv
<1>3. TypeInv /\ RefusedInv => RefusedTicketsNeverRun
  BY JobHasRun DEF RefusedInv, RefusedTicketsNeverRun, Confined
<1>4. QED
  BY <1>1, <1>2, <1>3, TypeCorrect, PTL DEF Spec
=============================================================================
