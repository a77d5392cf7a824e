---------------------------- MODULE Jobs_proofs -----------------------------
(***************************************************************************)
(* How many Jobs a run gets: the continuations and the budget of Jobs.     *)
(***************************************************************************)
EXTENDS Reconciler_proofs

USE DEF Threads, Goto, Enter, Return, AfterTicket, AfterJob

\* The limit is tested when the prompt is sent, the count raised when the answer
\* comes.
ContInv ==
  /\ ContinuationBudget
  /\ \A r \in Runs : state[r] = Unused => cont[r] = 0
  /\ \A r \in Runs : state[r] = "NeedsHuman" /\ gate[r] = "continuation" => cont[r] < MaxContinuations
  /\ \A h \in Hooks : pc[h] = "continuation" => cont[cur[h]] < MaxContinuations

-----------------------------------------------------------------------------
(* The limit on continuations *)

\* What bears on the limit: a prompt is sent below it, an answer to a prompt is
\* taken up, an approval is counted, or none of these.
ContTypes ==
  /\ cont \in [Runs -> Nat] /\ state \in [Runs -> States \cup {Unused}]
  /\ gate \in [Runs -> GateTypes \cup {"none"}] /\ pc \in [Threads -> PCs]
  /\ cur \in [Threads -> Runs \cup {NoRun}] /\ MaxContinuations \in Nat

LEMMA ContProcess ==
  ASSUME TypeInv, ContInv, NEW th \in Threads, ProcessTicketSteps(th)
  PROVE  ContInv'
<1>0. ContTypes
  BY ConfigAssumption, Zenon DEF TypeInv, RunTypes, ContTypes
<1> USE <1>0, ConfigAssumption
    DEF ContTypes, ContInv, ContinuationBudget, runVars, counters
<1>1. CASE RefuseTicket(th) \/ RefuseNoRepo(th) \/ MarkInProgress(th)
  BY <1>1 DEF RefuseTicket, RefuseNoRepo, MarkInProgress
<1>2. ASSUME NEW r \in Runs, NEW g \in {"pre_start", "missing_repo_url"}, HoldNewRun(th, r, g)
      PROVE  ContInv'
  BY <1>2 DEF HoldNewRun, Unused
<1>3. ASSUME NEW r \in Runs, LaunchTaskRun(th, r) PROVE ContInv'
  BY <1>3 DEF LaunchTaskRun, Unused
<1> HIDE DEF ContInv
<1>4. QED
  BY <1>1, <1>2, <1>3, Zenon DEF ProcessTicketSteps, StartRepoURLPoll, HoldForStart

LEMMA ContLoops ==
  ASSUME TypeInv, ContInv, LoopNext \/ DogNext
  PROVE  ContInv'
<1>0. ContTypes
  BY ConfigAssumption, Zenon DEF TypeInv, RunTypes, ContTypes
<1> USE <1>0, ConfigAssumption
    DEF ContTypes, ContInv, ContinuationBudget, runVars, counters, control
<1>1. CASE \/ LoopPoll \/ LoopReap \/ LoopDone \/ (\E t \in Tickets : LoopTicket(t))
           \/ WatchdogTick \/ WatchdogDone
  BY <1>1 DEF LoopPoll, LoopReap, LoopDone, LoopTicket, ProcessTicket, WatchdogTick, WatchdogDone
<1>2. ASSUME NEW r \in Runs, CheckJobStatus(r) \/ WatchdogCheck(r) PROVE ContInv'
  BY <1>2 DEF CheckJobStatus, WatchdogCheck
<1>3. CASE PromptContinuation \/ HoldForMerge
  <2>1. PICK g \in {"pre_merge", "continuation"} :
          /\ HoldCompletedRun(g)
          /\ g = "continuation" => cont[cur[Loop]] < MaxContinuations
    BY <1>3, Zenon DEF PromptContinuation, HoldForMerge
  <2>2. QED
    BY <2>1 DEF HoldCompletedRun, Transition, Unused
<1>4. CASE ReviewRejects \/ JobSucceeded
  BY <1>4 DEF ReviewRejects, JobSucceeded, Transition, TryTransition, Unused
<1>5. ASSUME NEW th \in {Loop, Dog}, Report(th) \/ JobFailed(th) \/ FailureIgnored(th)
      PROVE  ContInv'
  BY <1>5 DEF Report, JobFailed, FailureIgnored
<1>6. ASSUME NEW th \in {Loop, Dog}, FallBack(th) \/ Retry(th) \/ GiveUp(th) PROVE ContInv'
  BY <1>6 DEF FallBack, Retry, GiveUp, Requeue, Transition, Unused
<1>7. ASSUME NEW th \in {Loop, Dog}, NEW kind \in {"fallback", "retry"}, NEW n,
             Relaunch(th, kind, n)
      PROVE  ContInv'
  BY <1>7 DEF Relaunch, Transition, Unused
<1>8. ASSUME NEW th \in {Loop, Dog}, FallBackPanics(th) PROVE ContInv'
  BY <1>8, Zenon DEF FallBackPanics, Die
<1> HIDE DEF ContInv
<1>9. QED
  BY <1>1, <1>2, <1>3, <1>4, <1>5, <1>6, <1>7, <1>8, ContProcess, Zenon
  DEF LoopNext, DogNext, HandleJobComplete, HandleJobFailed, LaunchFallbackJob, LaunchRetryJob

\* The one step that raises the count is the answer of the only callback.
LEMMA ContHooks ==
  ASSUME \A g, h \in Hooks : g = h, TypeInv, ContInv, NEW h \in Hooks, HookSteps(h) \/ Requests(h)
  PROVE  ContInv'
<1>0. ContTypes
  BY ConfigAssumption, Zenon DEF TypeInv, RunTypes, ContTypes
<1> USE <1>0, ConfigAssumption
    DEF ContTypes, ContInv, ContinuationBudget, runVars, counters, control, Refused
<1>1. ASSUME NEW t \in Tickets, WebhookTicket(h, t) PROVE ContInv'
  BY <1>1 DEF WebhookTicket, ProcessTicket
<1>2. ASSUME NEW r \in Runs, NEW approved \in BOOLEAN, ResolveApproval(h, r, approved)
      PROVE  ContInv'
  BY <1>2 DEF ResolveApproval, Resolver
<1>3. ASSUME NEW r \in Runs, RepoURLFails(h, r) PROVE ContInv'
  BY <1>3, Zenon DEF RepoURLFails
<1>4. CASE RejectRun(h) \/ ResolvePreStart(h) \/ ResolvePreMerge(h)
  BY <1>4 DEF RejectRun, ResolvePreStart, ResolvePreMerge, Transition, Unused
<1>5. CASE ResolveContinuation(h)
  <2>1. cur[h] \in Runs
    BY <1>5, HoldsRun, Zenon DEF ResolveContinuation, Resting
  <2>2. \A g \in Hooks : g = h
    OBVIOUS
  <2>3. CASE Refused(h, "Running")
    BY <1>5, <2>3, Zenon DEF ResolveContinuation
  <2>4. CASE Transition(cur[h], "Running") /\ cont' = [cont EXCEPT ![cur[h]] = @ + 1]
    BY <1>5, <2>1, <2>2, <2>4 DEF ResolveContinuation, Transition, Unused
  <2>5. QED
    BY <1>5, <2>3, <2>4, Zenon DEF ResolveContinuation
<1>6. CASE LaunchPreStart(h) \/ LaunchContinuationJob(h)
  BY <1>6 DEF LaunchPreStart, LaunchContinuationJob
<1>7. CASE FailRepoURLTaskRun(h)
  BY <1>7 DEF FailRepoURLTaskRun, TryTransition, Unused
<1>8. CASE Report(h)
  BY <1>8, Zenon DEF Report
<1> HIDE DEF ContInv
<1>9. QED
  BY <1>1, <1>2, <1>3, <1>4, <1>5, <1>6, <1>7, <1>8, ContProcess
  DEF HookSteps, Requests, ApprovalSteps, ApprovalCallback, RepoURLArrives

LEMMA ContinuationsCounted ==
  ASSUME \A g, h \in Hooks : g = h
  PROVE  Spec => []ContInv
<1>1. Init => ContInv
  BY ConfigAssumption DEF Init, ContInv, ContinuationBudget, Unused
<1>2. TypeInv /\ ContInv /\ [Next]_vars => ContInv'
  <2> SUFFICES ASSUME TypeInv, ContInv, [Next]_vars PROVE ContInv'
    OBVIOUS
  <2>1. CASE AnyJobEnds \/ Crash \/ (\E t \in Tickets : RequeueTicket(t)) \/ UNCHANGED vars
    BY <2>1, Zenon DEF AnyJobEnds, JobEnds, Crash, Die, RequeueTicket, vars, runVars,
         counters, control, ContInv, ContinuationBudget
  <2>2. QED
    BY <2>1, ContLoops, ContHooks DEF Next
<1>3. QED
  BY <1>1, <1>2, TypeCorrect, PTL DEF Spec

\* A run is continued at most max_continuations times, although the limit is
\* tested when the prompt is sent and the count raised when the answer arrives,
\* as long as the answers are resolved one at a time.
THEOREM ContinuationsAreLimited ==
  ASSUME \A g, h \in Hooks : g = h
  PROVE  Spec => []ContinuationBudget
<1>1. ContInv => ContinuationBudget
  BY DEF ContInv
<1>2. QED
  BY <1>1, ContinuationsCounted, PTL

-----------------------------------------------------------------------------
(* How many Jobs a run can have *)

\* The names the launches of one run may use.
Budgeted(r) ==
  {<<r, "base", 1>>} \cup {<<r, "retry", n>> : n \in 1..MaxRetries}
    \cup {<<r, "fallback", n>> : n \in 2..ChainLen}
    \cup {<<r, "continuation", n>> : n \in 1..MaxContinuations}

\* Every Job is budgeted for, and so is the one a goroutine is about to create.
JobsBudgeted == \A j \in DOMAIN jobs : j \in Budgeted(j[1])

NextBudgeted ==
  /\ \A th \in {Loop, Dog} : /\ pc[th] = "retry" => retry[cur[th]] >= 1
                             /\ pc[th] = "fallback" => attempts[cur[th]] \in 2..ChainLen
  /\ \A h \in Hooks : pc[h] = "launchContinuation" => cont[cur[h]] >= 1

BudgetInv == ("watchdog" \in Features \/ NoDog) /\ JobsBudgeted /\ NextBudgeted

LEMMA BudgetCreate ==
  ASSUME JobsBudgeted, NEW j, j \in Budgeted(j[1]), CreateJob(j) \/ UNCHANGED jobs
  PROVE  JobsBudgeted'
  BY DEF JobsBudgeted, CreateJob, Budgeted

LEMMA BudgetNames ==
  ASSUME NEW r \in Runs, NEW kind \in {"base", "retry", "fallback", "continuation"}, NEW n \in Nat,
         \/ kind = "base" /\ n = 1
         \/ kind = "retry" /\ n \in 1..MaxRetries
         \/ kind = "fallback" /\ n \in 2..ChainLen
         \/ kind = "continuation" /\ n \in 1..MaxContinuations
  PROVE  JobName(r, kind, n) \in Budgeted(JobName(r, kind, n)[1])
<1>1. <<r, "base", 1>> \in Budgeted(r) /\ <<r, kind, n>> \in Budgeted(r)
  BY DEF Budgeted
<1> QED
  BY <1>1, NamesOfRun, Zenon

LEMMA BudgetBase ==
  ASSUME NEW r \in Runs
  PROVE  JobName(r, "base", 1) \in Budgeted(JobName(r, "base", 1)[1])
<1>1. <<r, "base", 1>> \in Budgeted(r)
  BY DEF Budgeted
<1>2. JobName(r, "base", 1) = <<r, "base", 1>>
  BY Zenon DEF JobName
<1>3. QED
  BY <1>1, <1>2, NameRun, Zenon

LEMMA BudgetProcess ==
  ASSUME TypeInv, JobsBudgeted, NextBudgeted, NEW th \in Threads, ProcessTicketSteps(th)
  PROVE  JobsBudgeted' /\ NextBudgeted'
<1> USE Numbers DEF NumberTypes, NextBudgeted, runVars, counters
<1>1. CASE RefuseTicket(th) \/ RefuseNoRepo(th) \/ MarkInProgress(th)
  BY <1>1 DEF RefuseTicket, RefuseNoRepo, MarkInProgress, JobsBudgeted
<1>2. ASSUME NEW r \in Runs, NEW g, HoldNewRun(th, r, g) PROVE JobsBudgeted' /\ NextBudgeted'
  BY <1>2, Zenon DEF HoldNewRun, JobsBudgeted
<1>3. ASSUME NEW r \in Runs, LaunchTaskRun(th, r) PROVE JobsBudgeted' /\ NextBudgeted'
  <2>1. CreateJob(JobName(r, "base", 1)) \/ UNCHANGED jobs
    BY <1>3, Zenon DEF LaunchTaskRun
  <2>a. JobName(r, "base", 1) \in Budgeted(JobName(r, "base", 1)[1])
    BY BudgetBase, Zenon
  <2>2. JobsBudgeted'
    BY <2>a, <2>1, BudgetCreate, Zenon
  <2>3. NextBudgeted'
    BY <1>3 DEF LaunchTaskRun
  <2>4. QED
    BY <2>2, <2>3, Zenon
<1> HIDE DEF NextBudgeted
<1>4. QED
  BY <1>1, <1>2, <1>3, Zenon DEF ProcessTicketSteps, StartRepoURLPoll, HoldForStart

LEMMA BudgetFailed ==
  ASSUME "diagnosis" \notin Features \/ "watchdog" \notin Features,
         TypeInv, BudgetInv, NEW th \in {Loop, Dog}, HandleJobFailed(th)
  PROVE  JobsBudgeted' /\ NextBudgeted'
<1>0. "diagnosis" \notin Features \/ (th = Loop /\ NoDog)
  BY ConfigAssumption, Zenon DEF BudgetInv, NoDog, HandleJobFailed, JobFailed,
       FailureIgnored, FallBack, Retry, GiveUp, LaunchFallbackJob, LaunchRetryJob, Relaunch,
       FallBackPanics
<1>a. \A other \in Threads : pc[other] \in {"retry", "fallback"} => cur[other] \in Runs
  BY HoldsRun DEF Resting
<1> USE Numbers DEF NumberTypes, BudgetInv, NextBudgeted, runVars, counters
<1>1. CASE JobFailed(th) \/ GiveUp(th)
  BY <1>1 DEF JobFailed, GiveUp, JobsBudgeted
<1>2. CASE FailureIgnored(th)
  <2>1. JobsBudgeted'
    BY <1>2, Zenon DEF FailureIgnored, JobsBudgeted
  <2>2. \/ UNCHANGED attempts
        \/ /\ "diagnosis" \in Features /\ pc[th] = "decide"
           /\ attempts' = [attempts EXCEPT ![cur[th]] = @ + 1]
    BY <1>2, Zenon DEF FailureIgnored, SwitchEngine
  <2>3. \A other \in {Loop, Dog} : pc'[other] = "fallback" => attempts'[cur'[other]] \in 2..ChainLen
    BY <1>0, <1>2, <2>2, Zenon DEF FailureIgnored, NoDog
  <2>4. QED
    BY <1>2, <2>1, <2>3, Zenon DEF FailureIgnored
<1>3. CASE FallBack(th)
  <2>1. cur[th] \in Runs
    BY <1>3, HoldsRun, Zenon DEF FallBack, Resting
  <2>2. QED
    BY <1>a, <1>3, <2>1 DEF FallBack, JobsBudgeted
<1>4. CASE Retry(th)
  <2>1. cur[th] \in Runs
    BY <1>4, HoldsRun, Zenon DEF Retry, Resting
  <2>2. \/ UNCHANGED attempts
        \/ /\ "diagnosis" \in Features /\ pc[th] = "decide"
           /\ attempts' = [attempts EXCEPT ![cur[th]] = @ + 1]
    BY <1>4, Zenon DEF Retry, SwitchEngine
  <2>3. \A other \in {Loop, Dog} : pc'[other] = "fallback" => attempts'[cur'[other]] \in 2..ChainLen
    BY <1>0, <1>4, <2>2, Zenon DEF Retry, NoDog
  <2>4. \A other \in {Loop, Dog} : pc'[other] = "retry" => retry'[cur'[other]] >= 1
    BY <1>a, <1>4, <2>1 DEF Retry, CountRetry
  <2>5. QED
    BY <1>4, <2>3, <2>4, Zenon DEF Retry, JobsBudgeted
<1>5. ASSUME NEW kind \in {"fallback", "retry"}, NEW n \in Nat, Relaunch(th, kind, n),
             kind = "retry" => n = retry[cur[th]], kind = "fallback" => n = attempts[cur[th]]
      PROVE  JobsBudgeted' /\ NextBudgeted'
  <2>1. (CreateJob(JobName(cur[th], kind, n)) \/ UNCHANGED jobs) /\ cur[th] \in Runs
    BY <1>a, <1>5, Zenon DEF Relaunch
  <2>2. kind = "retry" => n \in 1..MaxRetries
    BY <1>a, <1>5 DEF Relaunch
  <2>3. kind = "fallback" => n \in 2..ChainLen
    BY <1>5, Zenon DEF Relaunch
  <2>4. JobsBudgeted'
    BY <2>1, <2>2, <2>3, BudgetNames, BudgetCreate, Zenon
  <2>5. NextBudgeted'
    BY <1>5, Zenon DEF Relaunch
  <2>6. QED
    BY <2>4, <2>5, Zenon
<1>6. CASE LaunchFallbackJob(th) \/ LaunchRetryJob(th)
  <2>1. cur[th] \in Runs
    BY <1>a, <1>6, Zenon DEF LaunchFallbackJob, LaunchRetryJob, Relaunch
  <2>2. attempts[cur[th]] \in Nat /\ retry[cur[th]] \in Nat
    BY <2>1
  <2> HIDE DEF NextBudgeted
  <2>3. QED
    BY <1>5, <1>6, <2>2, Zenon DEF LaunchFallbackJob, LaunchRetryJob
<1>7. CASE FallBackPanics(th)
  BY <1>7, Zenon DEF FallBackPanics, Die, JobsBudgeted
<1> HIDE DEF NextBudgeted
<1>8. QED
  BY <1>1, <1>2, <1>3, <1>4, <1>6, <1>7, Zenon DEF HandleJobFailed

\* Most steps create no Job, count nothing and leave no goroutine about to
\* create one.
BudgetQuiet(th) ==
  /\ UNCHANGED <<jobs, retry, attempts, cont>> /\ OnlyMoves(th)
  /\ pc'[th] \notin {"retry", "fallback", "launchContinuation"}

LEMMA QuietKeepsBudget ==
  ASSUME BudgetInv, NEW th \in Threads, BudgetQuiet(th)
  PROVE  JobsBudgeted' /\ NextBudgeted'
<1>1. JobsBudgeted'
  BY DEF BudgetInv, JobsBudgeted, BudgetQuiet
<1>2. QED
  BY <1>1 DEF BudgetInv, NextBudgeted, BudgetQuiet, OnlyMoves

LEMMA BudgetLoops ==
  ASSUME "diagnosis" \notin Features \/ "watchdog" \notin Features,
         TypeInv, BudgetInv, LoopNext \/ DogNext
  PROVE  JobsBudgeted' /\ NextBudgeted'
<1>0. pc \in [Threads -> PCs] /\ cur \in [Threads -> Runs \cup {NoRun}]
  BY Zenon DEF TypeInv, RunTypes
<1> USE <1>0 DEF BudgetQuiet, OnlyMoves, runVars, counters, control
<1>1. LoopPoll \/ LoopReap \/ LoopDone => BudgetQuiet(Loop)
  BY Zenon DEF LoopPoll, LoopReap, LoopDone
<1>2. ASSUME NEW t \in Tickets, LoopTicket(t) PROVE BudgetQuiet(Loop)
  BY <1>2, Zenon DEF LoopTicket, ProcessTicket
<1>3. WatchdogTick \/ WatchdogDone => BudgetQuiet(Dog)
  BY Zenon DEF WatchdogTick, WatchdogDone
<1>4. ASSUME NEW r \in Runs, CheckJobStatus(r) PROVE BudgetQuiet(Loop)
  BY <1>4, Zenon DEF CheckJobStatus
<1>5. ASSUME NEW r \in Runs, WatchdogCheck(r) PROVE BudgetQuiet(Dog)
  BY <1>5, Zenon DEF WatchdogCheck
<1>6. PromptContinuation \/ HoldForMerge => BudgetQuiet(Loop)
  BY Zenon DEF PromptContinuation, HoldForMerge, HoldCompletedRun
<1>7. ReviewRejects \/ JobSucceeded => BudgetQuiet(Loop)
  BY Zenon DEF ReviewRejects, JobSucceeded
<1>8. ASSUME NEW th \in {Loop, Dog}, Report(th) PROVE BudgetQuiet(th)
  BY <1>8, Zenon DEF Report
<1> HIDE DEF BudgetQuiet
<1>9. QED
  <2>1. CASE \E th \in Threads : BudgetQuiet(th)
    BY <2>1, QuietKeepsBudget
  <2>2. ASSUME NEW th \in Threads, ProcessTicketSteps(th) PROVE JobsBudgeted' /\ NextBudgeted'
    BY <2>2, BudgetProcess DEF BudgetInv
  <2>3. QED
    BY <1>1, <1>2, <1>3, <1>4, <1>5, <1>6, <1>7, <1>8, <2>1, <2>2, BudgetFailed, Zenon
    DEF LoopNext, DogNext, HandleJobComplete

LEMMA BudgetHooks ==
  ASSUME TypeInv, BudgetInv, ContInv, NEW h \in Hooks, HookSteps(h) \/ Requests(h)
  PROVE  JobsBudgeted' /\ NextBudgeted'
<1>0. pc \in [Threads -> PCs] /\ cur \in [Threads -> Runs \cup {NoRun}]
  BY Zenon DEF TypeInv, RunTypes
<1>a. \A th \in Threads :
        pc[th] \in {"retry", "continuation", "launchContinuation"} => cur[th] \in Runs
  BY HoldsRun DEF Resting
<1>1. ASSUME BudgetQuiet(h) PROVE JobsBudgeted' /\ NextBudgeted'
  BY <1>1, QuietKeepsBudget
<1>2. ASSUME NEW r \in Runs, NEW approved \in BOOLEAN, ResolveApproval(h, r, approved)
      PROVE  BudgetQuiet(h)
  BY <1>0, <1>2 DEF BudgetQuiet, OnlyMoves, ResolveApproval, Resolver, runVars, counters, control
<1>3. ASSUME NEW r \in Runs, RepoURLFails(h, r) PROVE BudgetQuiet(h)
  BY <1>0, <1>3, Zenon DEF BudgetQuiet, OnlyMoves, RepoURLFails, runVars, counters
<1>4. ASSUME NEW t \in Tickets, WebhookTicket(h, t) PROVE BudgetQuiet(h)
  BY <1>0, <1>4, Zenon DEF BudgetQuiet, OnlyMoves, WebhookTicket, ProcessTicket, runVars,
       counters, control
<1>5. CASE RejectRun(h) \/ ResolvePreStart(h) \/ ResolvePreMerge(h)
  <2>1. BudgetQuiet(h)
    BY <1>0, <1>5, Zenon DEF BudgetQuiet, OnlyMoves, RejectRun, ResolvePreStart,
         ResolvePreMerge, Refused, runVars, counters
  <2>2. QED
    BY <1>1, <2>1
<1>6. CASE Report(h)
  <2>1. BudgetQuiet(h)
    BY <1>0, <1>6, Zenon DEF BudgetQuiet, OnlyMoves, Report, runVars, counters
  <2>2. QED
    BY <1>1, <2>1
<1>7. CASE ResolveContinuation(h)
  <2>1. UNCHANGED <<jobs, retry, attempts>> /\ OnlyMoves(h)
    BY <1>0, <1>7, Zenon DEF OnlyMoves, ResolveContinuation, Refused
  <2>2. pc'[h] = "launchContinuation" => cur'[h] = cur[h] /\ cont' = [cont EXCEPT ![cur[h]] = @ + 1]
    BY <1>0, <1>7, Zenon DEF ResolveContinuation, Refused
  <2>3. cur[h] \in Runs /\ (UNCHANGED cont \/ cont' = [cont EXCEPT ![cur[h]] = @ + 1])
    BY <1>a, <1>7, Zenon DEF ResolveContinuation, Refused
  <2>4. JobsBudgeted'
    BY <2>1 DEF BudgetInv, JobsBudgeted
  <2>5. \A r \in Runs : cont[r] >= 1 => cont'[r] >= 1
    BY <2>3, Numbers DEF NumberTypes
  <2>6. pc'[h] = "launchContinuation" => cont'[cur'[h]] >= 1
    BY <2>2, <2>3, Numbers DEF NumberTypes
  <2>7. ASSUME NEW g \in Hooks, g # h, pc'[g] = "launchContinuation" PROVE cont'[cur'[g]] >= 1
    <3>1. pc[g] = "launchContinuation" /\ cur'[g] = cur[g]
      BY <2>1, <2>7 DEF OnlyMoves
    <3>2. QED
      BY <1>a, <2>5, <3>1, Zenon DEF BudgetInv, NextBudgeted
  <2>8. QED
    BY <2>1, <2>4, <2>6, <2>7, ConfigAssumption DEF BudgetInv, NextBudgeted, OnlyMoves
<1>8. CASE LaunchPreStart(h)
  <2>1. (CreateJob(JobName(cur[h], "base", 1)) \/ UNCHANGED jobs) /\ cur[h] \in Runs
    BY <1>8, HoldsRun, Zenon DEF LaunchPreStart, Resting
  <2>a. JobName(cur[h], "base", 1) \in Budgeted(JobName(cur[h], "base", 1)[1])
    BY <2>1, BudgetBase, Zenon
  <2>2. JobsBudgeted'
    BY <2>a, <2>1, BudgetCreate, Zenon DEF BudgetInv
  <2>3. UNCHANGED <<retry, attempts, cont>> /\ OnlyMoves(h) /\ pc'[h] \in {"idle", "mark"}
    BY <1>0, <1>8, Zenon DEF OnlyMoves, LaunchPreStart, counters
  <2>4. QED
    BY <2>2, <2>3 DEF BudgetInv, NextBudgeted, OnlyMoves
<1>9. CASE LaunchContinuationJob(h)
  <2>1. cont[cur[h]] \in 1..MaxContinuations /\ cont[cur[h]] \in Nat
    BY <1>a, <1>9, Numbers, ConfigAssumption
    DEF LaunchContinuationJob, BudgetInv, NextBudgeted, NumberTypes, ContInv, ContinuationBudget
  <2>2. /\ CreateJob(JobName(cur[h], "continuation", cont[cur[h]])) \/ UNCHANGED jobs
        /\ cur[h] \in Runs
    BY <1>9, HoldsRun, Zenon DEF LaunchContinuationJob, Resting
  <2>3. JobsBudgeted'
    BY <2>1, <2>2, BudgetNames, BudgetCreate, Zenon DEF BudgetInv
  <2>4. UNCHANGED <<retry, attempts, cont>> /\ OnlyMoves(h) /\ pc'[h] = "idle"
    BY <1>0, <1>9, Zenon DEF OnlyMoves, LaunchContinuationJob, counters
  <2>5. QED
    BY <2>3, <2>4 DEF BudgetInv, NextBudgeted, OnlyMoves
<1>10. CASE FailRepoURLTaskRun(h)
  <2>1. UNCHANGED <<jobs, attempts, cont>> /\ OnlyMoves(h) /\ pc'[h] = "idle"
    BY <1>0, <1>10, Zenon DEF OnlyMoves, FailRepoURLTaskRun
  <2>2. UNCHANGED retry \/ retry' = [retry EXCEPT ![cur[h]] = MaxRetries]
    BY <1>10 DEF FailRepoURLTaskRun, UseUpRetries
  <2>3. \A r \in Runs : retry[r] >= 1 => retry'[r] >= 1
    BY <2>2, Numbers DEF NumberTypes
  <2>4. JobsBudgeted'
    BY <2>1 DEF BudgetInv, JobsBudgeted
  <2>5. QED
    BY <1>a, <2>1, <2>3, <2>4, ConfigAssumption DEF BudgetInv, NextBudgeted, OnlyMoves
<1>11. CASE ProcessTicketSteps(h)
  BY <1>11, BudgetProcess DEF BudgetInv
<1>12. QED
  <2>1. Requests(h) => BudgetQuiet(h)
    BY <1>2, <1>3, <1>4, Zenon DEF Requests, ApprovalCallback, RepoURLArrives
  <2>2. QED
    BY <1>1, <1>5, <1>6, <1>7, <1>8, <1>9, <1>10, <1>11, <2>1 DEF HookSteps, ApprovalSteps

\* Answers are resolved one at a time, and a diagnosis does not race with the
\* watchdog for the same run (a switched engine would be counted as a fallback).
LEMMA JobsAreBudgeted ==
  ASSUME \A g, h \in Hooks : g = h, "diagnosis" \notin Features \/ "watchdog" \notin Features
  PROVE  Spec => []BudgetInv
<1>1. Init => BudgetInv
  BY DEF Init, BudgetInv, NoDog, JobsBudgeted, NextBudgeted
<1>2. TypeInv /\ ContInv /\ BudgetInv /\ [Next]_vars => BudgetInv'
  <2> SUFFICES ASSUME TypeInv, ContInv, BudgetInv, [Next]_vars PROVE BudgetInv'
    OBVIOUS
  <2>1. "watchdog" \in Features \/ NoDog'
    BY DogStaysIdle DEF BudgetInv
  <2>2. CASE AnyJobEnds \/ Crash \/ (\E t \in Tickets : RequeueTicket(t)) \/ UNCHANGED vars
    <3>1. JobsBudgeted'
      BY <2>2, Zenon DEF AnyJobEnds, JobEnds, Crash, Die, RequeueTicket, vars, BudgetInv,
           JobsBudgeted
    <3>2. NextBudgeted'
      BY <2>2, Zenon DEF AnyJobEnds, JobEnds, Crash, Die, RequeueTicket, vars, runVars,
           counters, control, BudgetInv, NextBudgeted
    <3>3. QED
      BY <2>1, <3>1, <3>2 DEF BudgetInv
  <2>3. QED
    BY <2>1, <2>2, BudgetLoops, BudgetHooks DEF Next, BudgetInv
<1>3. QED
  BY <1>1, <1>2, TypeCorrect, ContinuationsCounted, PTL DEF Spec

-----------------------------------------------------------------------------
(* A ticket whose run is reported does not stay "running" *)

\* SettledTicketIsClosed: the ticket is marked before anybody can report its run.
SettledInv ==
  /\ \A r \in Runs : state[r] = Unused => reports[r] = 0 /\ ticketOf[r] = NoTicket
  /\ \A t \in Tickets : taskRuns[t] # NoRun =>
       /\ ticketOf[taskRuns[t]] = t
       /\ reports[taskRuns[t]] > 0 => ticket[t] # "running"
  /\ pc[Loop] = "mark" =>
       /\ Registered(cur[Loop]) /\ reports[cur[Loop]] = 0 /\ state[cur[Loop]] = "Running"
       /\ \A h \in Hooks : pc[h] # "idle" => cur[h] # cur[Loop]

\* What the leaves below need of the types, beside LoopTypes.
ReportTypes ==
  /\ LoopTypes /\ reports \in [Runs -> Nat]
  /\ ticket \in [Tickets -> {"idle", "running", "succeeded", "failed"}]

LEMMA TypesOfReports ==
  ASSUME TypeInv
  PROVE  ReportTypes
  BY TypesOfLoop, Zenon DEF TypeInv, RunTypes, ReportTypes

\* A step that reports nothing, starts nothing and marks no ticket as running, and
\* that takes a run the loop is marking only if it is the loop.
SettledQuiet ==
  /\ UNCHANGED <<reports, ticketOf>>
  /\ \A t \in Tickets : taskRuns'[t] \in {taskRuns[t], NoRun}
  /\ \A t \in Tickets : ticket'[t] = "running" => ticket[t] = "running"
  /\ \A r \in Runs : state'[r] = Unused <=> state[r] = Unused

LEMMA QuietStaysSettled ==
  ASSUME TypeInv, ByLoop, SettledInv, SettledQuiet, pc'[Loop] # "mark", OnlyMoves(Loop) \/ Die
  PROVE  SettledInv'
<1> USE TypesOfReports DEF ReportTypes, LoopTypes
<1>1. \A h \in Hooks : pc'[h] # "idle" => pc[h] # "idle" /\ cur'[h] = cur[h] /\ cur[h] \in Runs
  <2>1. \A h \in Hooks : pc[h] # "idle" => cur[h] \in Runs
    BY HoldsRun, Zenon DEF ByLoop, Asks, Resting
  <2>2. QED
    BY <2>1, Zenon DEF OnlyMoves, Die
<1>2. QED
  BY <1>1 DEF SettledInv, SettledQuiet

LEMMA SettledLoop ==
  ASSUME LoopStarts, "ticketing" \notin Faults, TypeInv, ByLoop, SettledInv, LoopNext
  PROVE  SettledInv'
<1> USE TypesOfReports DEF ReportTypes, LoopTypes
<1>0. OnlyMoves(Loop) \/ Die
  BY LoopMoves, Zenon
<1>a. \A h \in Hooks : pc'[h] # "idle" =>
        pc[h] # "idle" /\ cur'[h] = cur[h] /\ cur[h] \in Runs /\ ticketOf[cur[h]] \in Tickets
  <2>1. \A h \in Hooks : pc[h] # "idle" => cur[h] \in Runs /\ ticketOf[cur[h]] \in Tickets
    BY Zenon DEF TypeInv, HandlesRuns, InHandler, ByLoop, Asks, Resting
  <2>2. QED
    BY <1>0, <2>1, Zenon DEF OnlyMoves, Die
<1>b. pc[Loop] \in PCs \ (Resting \cup {"admit"}) => cur[Loop] \in Runs /\ ticketOf[cur[Loop]] \in Tickets
  BY Zenon DEF TypeInv, HandlesRuns, InHandler
<1>c. pc[Loop] = "admit" => tk[Loop] \in Tickets
  BY Zenon DEF TypeInv, HandlesRuns
<1>1. CASE LoopPoll \/ LoopReap \/ LoopDone \/ (\E t \in Tickets : LoopTicket(t))
           \/ (\E r \in Runs : CheckJobStatus(r))
  <2>1. SettledQuiet /\ pc'[Loop] # "mark"
    BY <1>1, ZenonT(20) DEF SettledQuiet, LoopPoll, LoopReap, LoopDone, LoopTicket,
         ProcessTicket, CheckJobStatus, runVars, ghosts, control
  <2>2. QED
    BY <1>0, <2>1, QuietStaysSettled, Zenon
<1>2. CASE RefuseTicket(Loop) \/ RefuseNoRepo(Loop)
  <2>1. SettledQuiet /\ pc'[Loop] # "mark"
    BY <1>2 DEF SettledQuiet, RefuseTicket, RefuseNoRepo, Mark, runVars, ghosts
  <2>2. QED
    BY <1>0, <2>1, QuietStaysSettled, Zenon
<1>3. CASE MarkInProgress(Loop)
  <2>1. /\ UNCHANGED <<taskRuns, state, ticketOf, reports>> /\ pc'[Loop] # "mark"
        /\ pc[Loop] = "mark" /\ ticket' = [ticket EXCEPT ![ticketOf[cur[Loop]]] = "running"]
    BY <1>3, Zenon DEF MarkInProgress, Mark, runVars, ghosts
  <2>2. QED
    BY <1>a, <2>1 DEF SettledInv, Registered
<1>4. ASSUME NEW r \in Runs, LaunchTaskRun(Loop, r) PROVE SettledInv'
  <2>1. /\ state[r] = Unused /\ tk[Loop] \in Tickets /\ UNCHANGED <<ticket, reports>>
        /\ ticketOf' = [ticketOf EXCEPT ![r] = tk[Loop]]
        /\ \/ /\ state' = [state EXCEPT ![r] = "Running"] /\ cur'[Loop] = r
              /\ taskRuns' = [taskRuns EXCEPT ![tk[Loop]] = r]
           \/ /\ state' = [state EXCEPT ![r] = "Queued"] /\ pc'[Loop] # "mark"
              /\ UNCHANGED taskRuns
    BY <1>4, <1>c, Zenon DEF LaunchTaskRun, Unallocated, ghosts
  <2>2. reports[r] = 0 /\ \A h \in Hooks : pc'[h] # "idle" => cur[h] # r
    BY <1>a, <2>1 DEF SettledInv
  <2>3. \A t \in Tickets : taskRuns[t] # r
    BY <2>1 DEF SettledInv
  <2>4. \A q \in Runs : state'[q] = Unused => reports'[q] = 0 /\ ticketOf'[q] = NoTicket
    BY <2>1 DEF SettledInv, Unused
  <2>5. \A t \in Tickets : taskRuns'[t] # NoRun =>
          /\ ticketOf'[taskRuns'[t]] = t
          /\ reports'[taskRuns'[t]] > 0 => ticket'[t] # "running"
    BY <2>1, <2>2, <2>3 DEF SettledInv, Unused
  <2>6. pc'[Loop] = "mark" =>
          /\ Registered(cur[Loop])' /\ reports'[cur'[Loop]] = 0 /\ state'[cur'[Loop]] = "Running"
          /\ \A h \in Hooks : pc'[h] # "idle" => cur'[h] # cur'[Loop]
    BY <1>a, <2>1, <2>2 DEF Registered
  <2>7. QED
    BY <2>4, <2>5, <2>6, Zenon DEF SettledInv
<1>5. CASE HandleJobComplete \/ HandleJobFailed(Loop)
  <2>1. /\ pc[Loop] # "mark" /\ pc'[Loop] # "mark" /\ UNCHANGED <<ticket, reports, ticketOf>>
        /\ (\A t \in Tickets : taskRuns'[t] \in {taskRuns[t], NoRun})
    BY <1>5, ZenonT(20) DEF HandleJobComplete, PromptContinuation, HoldForMerge,
         HoldCompletedRun, ReviewRejects, JobSucceeded, HandleJobFailed, JobFailed,
         FailureIgnored, FallBack, Retry, GiveUp, LaunchFallbackJob, LaunchRetryJob,
         Relaunch, FallBackPanics, Die, ghosts, runVars
  <2>2. \/ UNCHANGED state
        \/ \E s, target \in States : /\ CanTransition(state[cur[Loop]], target)
                                     /\ state' = [state EXCEPT ![cur[Loop]] = s]
    <3>1. CASE HandleJobComplete
      BY <3>1, Zenon DEF HandleJobComplete, PromptContinuation, HoldForMerge,
           HoldCompletedRun, ReviewRejects, JobSucceeded, Transition, TryTransition, States
    <3>2. CASE HandleJobFailed(Loop)
      BY <3>2, Zenon DEF HandleJobFailed, JobFailed, FailureIgnored, FallBack, Retry,
           GiveUp, LaunchFallbackJob, LaunchRetryJob, Relaunch, FallBackPanics, Die,
           Requeue, Transition, States, runVars
    <3>3. QED
      BY <1>5, <3>1, <3>2, Zenon
  <2>3. \A r \in Runs : state'[r] = Unused <=> state[r] = Unused
    BY <2>2, ZenonT(20) DEF CanTransition, validTransitions, Unused, States
  <2>4. SettledQuiet
    BY <2>1, <2>3, Zenon DEF SettledQuiet
  <2>5. QED
    BY <1>0, <2>1, <2>4, QuietStaysSettled, Zenon
<1>6. CASE Report(Loop)
  <2>1. /\ UNCHANGED <<taskRuns, state, ticketOf>> /\ pc'[Loop] # "mark"
        /\ cur[Loop] \in Runs /\ ticketOf[cur[Loop]] \in Tickets
        /\ reports' = [reports EXCEPT ![cur[Loop]] = @ + 1]
        /\ \E s \in {"succeeded", "failed"} : ticket' = [ticket EXCEPT ![ticketOf[cur[Loop]]] = s]
    BY <1>6, <1>b, Zenon DEF Report, Mark, runVars, PCs, Resting
  <2>2. state[cur[Loop]] # Unused
    BY <2>1, Zenon DEF SettledInv
  <2>3. QED
    BY <1>a, <2>1, <2>2 DEF SettledInv
<1>7. \A r \in Runs : ~StartRepoURLPoll(Loop, r) /\ ~HoldForStart(Loop, r)
  BY Zenon DEF LoopStarts, StartRepoURLPoll, HoldForStart
<1>8. QED
  BY <1>1, <1>2, <1>3, <1>4, <1>5, <1>6, <1>7, Zenon DEF LoopNext, ProcessTicketSteps

LEMMA SettledAnswers ==
  ASSUME LoopStarts, "ticketing" \notin Faults, TypeInv, ByLoop, SettledInv,
         NEW h \in Hooks, AnswerSteps(h)
  PROVE  SettledInv'
<1> USE TypesOfReports DEF ReportTypes, LoopTypes
<1>0. /\ UNCHANGED <<taskRuns, ticketOf>> /\ OnlyMoves(h)
      /\ \A g \in Hooks \ {h} : pc'[g] = pc[g] /\ cur'[g] = cur[g]
      /\ pc'[Loop] = pc[Loop] /\ cur'[Loop] = cur[Loop]
  <2>1. OnlyMoves(h)
    BY AnswerMoves, Zenon
  <2>2. UNCHANGED <<taskRuns, ticketOf>>
    BY Zenon DEF AnswerSteps, RejectRun, ResolvePreMerge, ResolveContinuation,
         LaunchContinuationJob, Report, ApprovalCallback, ResolveApproval, runVars
  <2>3. QED
    BY <2>1, <2>2, Zenon DEF OnlyMoves
<1>a. pc[h] # "idle" => cur[h] \in Runs /\ ticketOf[cur[h]] \in Tickets /\ state[cur[h]] # Unused
  <2>1. pc[h] # "idle" => cur[h] \in Runs /\ ticketOf[cur[h]] \in Tickets
    BY Zenon DEF TypeInv, HandlesRuns, InHandler, ByLoop, Asks, Resting
  <2>2. QED
    BY <2>1, Zenon DEF SettledInv
<1>b. pc[Loop] = "mark" => cur[Loop] \in Runs
  BY HoldsRun, Zenon DEF Resting
<1>1. ASSUME NEW r \in Runs, ApprovalCallback(h, r) PROVE SettledInv'
  <2>1. UNCHANGED <<state, reports, ticket>> /\ pc[h] = "idle"
    BY <1>1, Zenon DEF ApprovalCallback, ResolveApproval, runVars, ghosts
  <2>2. pc'[h] = "idle" \/ (cur'[h] = r /\ state[r] = "NeedsHuman")
    BY <1>1, Zenon DEF ApprovalCallback, ResolveApproval, control
  <2>3. QED
    BY <1>0, <1>b, <2>1, <2>2 DEF SettledInv, Registered
<1>2. CASE RejectRun(h) \/ ResolvePreMerge(h) \/ ResolveContinuation(h) \/ LaunchContinuationJob(h)
  <2>1. /\ UNCHANGED <<reports, ticket>> /\ pc[h] # "idle"
        /\ pc'[h] = "idle" \/ cur'[h] = cur[h]
    BY <1>2, Zenon DEF RejectRun, ResolvePreMerge, ResolveContinuation,
         LaunchContinuationJob, Refused, ghosts
  <2>2. \A r \in Runs \ {cur[h]} : state'[r] = state[r]
    BY <1>2, ZenonT(20) DEF RejectRun, ResolvePreMerge, ResolveContinuation,
         LaunchContinuationJob, Refused, Transition
  <2>3. \A r \in Runs : state'[r] = Unused => state[r] = Unused
    BY <1>2, ZenonT(20) DEF RejectRun, ResolvePreMerge, ResolveContinuation,
         LaunchContinuationJob, Refused, Transition, Unused
  <2>4. QED
    BY <1>0, <1>a, <1>b, <2>1, <2>2, <2>3 DEF SettledInv, Registered
<1>3. CASE Report(h)
  <2>1. /\ UNCHANGED state /\ pc[h] # "idle" /\ pc'[h] = "idle"
        /\ reports' = [reports EXCEPT ![cur[h]] = @ + 1]
        /\ \E s \in {"succeeded", "failed"} : ticket' = [ticket EXCEPT ![ticketOf[cur[h]]] = s]
    BY <1>3, Zenon DEF Report, Mark, runVars
  <2>2. QED
    BY <1>0, <1>a, <1>b, <2>1 DEF SettledInv, Registered
<1>4. QED
  BY <1>1, <1>2, <1>3, Zenon DEF AnswerSteps

\* Once the backend has heard of the outcome of a ticket's run, the ticket is not
\* left "running", where no poll would find it: a run's MarkInProgress comes before
\* any report on it.  Runs start in the loop (a start approved or announced by a
\* webhook is marked beside a report), and ticketing calls succeed.
THEOREM SettledTicketsAreClosed ==
  ASSUME LoopStarts, "ticketing" \notin Faults
  PROVE  Spec => []SettledTicketIsClosed
<1>1. Init => SettledInv
  BY DEF Init, SettledInv
<1>2. ASSUME TypeInv, ByLoop, SettledInv, OtherSteps PROVE SettledInv'
  <2> USE <1>2, TypesOfReports DEF ReportTypes, LoopTypes
  <2>1. CASE Crash
    BY <2>1, Zenon DEF Crash, Die, runVars, SettledInv
  <2>2. CASE AnyJobEnds \/ (\E t \in Tickets : RequeueTicket(t)) \/ UNCHANGED vars
    <3>1. /\ UNCHANGED <<taskRuns, state, ticketOf, reports, pc, cur>>
          /\ \A t \in Tickets : ticket'[t] = "running" => ticket[t] = "running"
      BY <2>2, Zenon DEF AnyJobEnds, JobEnds, RequeueTicket, vars, runVars, control, ghosts
    <3>2. QED
      BY <3>1, Zenon DEF SettledInv, Registered
  <2>3. QED
    BY <2>1, <2>2, Zenon DEF OtherSteps
<1>3. TypeInv /\ ByLoop /\ SettledInv /\ [Next]_vars => SettledInv'
  BY <1>2, LoopAndAnswers, SettledLoop, SettledAnswers
<1>4. SettledInv => SettledTicketIsClosed
  BY Zenon DEF SettledInv, SettledTicketIsClosed
<1>5. QED
  BY <1>1, <1>3, <1>4, LoopsAlone, TypeCorrect, PTL DEF Spec
=============================================================================
