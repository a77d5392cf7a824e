---------------------------- MODULE Names_proofs ----------------------------
(***************************************************************************)
(* The names under which a run's Jobs are created again: none is taken, and*)
(* a run that is to be retried is on its way to a Job.                     *)
(***************************************************************************)
EXTENDS Reconciler_proofs

USE DEF Threads, Goto, Enter, Return, AfterTicket, AfterJob

\* Approvals and repository answers, which move a run on behind the back of the
\* goroutine that handles its Job, come only where something is asked.
Unasked == Gates = {} /\ MaxContinuations = 0 /\ "repoPoller" \notin Features

NothingAsked ==
  /\ asked = {} /\ polling = {}
  /\ \A h \in Hooks : pc[h] \in {"idle", "admit", "mark"}

Relaunching(th) == pc[th] \in {"fallback", "retry"}

\* Nobody takes the run from the goroutine that relaunches it.
Undisturbed ==
  /\ NothingAsked
  /\ \A th \in {Loop, Dog} : Relaunching(th) => state[cur[th]] = "Retrying"
  /\ \A a, b \in {Loop, Dog} : Relaunching(a) /\ Relaunching(b) /\ cur[a] = cur[b] => a = b

\* One goroutine at a time relaunches a run in one way, and the number in the name
\* it will use is past every number in use.
Numbered ==
  /\ \A th \in {Loop, Dog} : /\ pc[th] = "retry" => retry[cur[th]] >= 1
                             /\ pc[th] = "fallback" => attempts[cur[th]] >= 2
  /\ \A a, b \in {Loop, Dog} : Relaunching(a) /\ pc[a] = pc[b] /\ cur[a] = cur[b] => a = b

NamesFree ==
  \A j \in DOMAIN jobs :
    /\ j[2] = "retry" => j[3] <= retry[j[1]]
    /\ j[2] = "fallback" => j[3] <= attempts[j[1]]
    /\ \A th \in {Loop, Dog} : cur[th] = j[1] =>
         /\ pc[th] = "retry" /\ j[2] = "retry" => j[3] < retry[j[1]]
         /\ pc[th] = "fallback" /\ j[2] = "fallback" => j[3] < attempts[j[1]]

NamesInv ==
  /\ "watchdog" \in Features \/ NoDog
  /\ Unasked => Undisturbed
  /\ Numbered /\ NamesFree

-----------------------------------------------------------------------------
(* Where nothing is asked, nothing is answered *)

\* A step that sends no question and leaves the callbacks where they are.
LEMMA StillNothingAsked ==
  ASSUME NothingAsked, UNCHANGED polling, asked' \subseteq asked,
         \/ \A h \in Hooks : pc'[h] = pc[h]
         \/ \E th \in Hooks : OnlyMoves(th) /\ pc'[th] \in {"idle", "admit", "mark"}
  PROVE  NothingAsked'
  BY DEF NothingAsked, OnlyMoves

LEMMA NothingIsAsked ==
  ASSUME Unasked, TypeInv, NothingAsked, [Next]_vars
  PROVE  NothingAsked'
<1>0. /\ pc \in [Threads -> PCs] /\ cont \in [Runs -> Nat]
      /\ \A th \in {Loop, Dog} : OnlyMoves(th) => \A h \in Hooks : pc'[h] = pc[h]
  BY ConfigAssumption DEF TypeInv, RunTypes, OnlyMoves
<1> USE <1>0 DEF slack, CancelPending
<1>1. ASSUME NEW th \in Threads, ProcessTicketSteps(th) PROVE NothingAsked'
  <2>1. OnlyMoves(th)
    BY <1>1, ProcessMoves
  <2>2. pc'[th] \in {AfterTicket(th), "mark"} /\ UNCHANGED slack
    BY <1>1, Zenon DEF ProcessTicketSteps, RefuseTicket, RefuseNoRepo, MarkInProgress,
         StartRepoURLPoll, HoldForStart, HoldNewRun, LaunchTaskRun, Unasked
  <2>3. QED
    BY <2>1, <2>2, StillNothingAsked
<1>2. CASE Die
  BY <1>2 DEF Die, NothingAsked
<1>3. ASSUME NEW th \in {Loop, Dog}, HandleJobFailed(th) \/ Report(th) PROVE NothingAsked'
  <2>1. (asked' \subseteq asked /\ UNCHANGED polling) \/ Die
    BY <1>3, Zenon DEF HandleJobFailed, JobFailed, FailureIgnored, FallBack, Retry, GiveUp,
         LaunchFallbackJob, LaunchRetryJob, Relaunch, FallBackPanics, Report
  <2>2. QED
    BY <1>2, <1>3, <2>1, HandlerMoves, StillNothingAsked
<1>4. CASE LoopNext
  <2>1. CASE \/ LoopPoll \/ LoopReap \/ LoopDone \/ ReviewRejects \/ JobSucceeded
             \/ \E t \in Tickets : LoopTicket(t)
             \/ \E r \in Runs : CheckJobStatus(r)
    <3>1. UNCHANGED slack
      BY <2>1, Zenon DEF LoopPoll, LoopReap, LoopDone, LoopTicket, ProcessTicket,
           CheckJobStatus, ReviewRejects, JobSucceeded
    <3>2. QED
      BY <1>2, <1>4, <3>1, LoopMoves, StillNothingAsked
  <2>2. ~PromptContinuation /\ ~HoldForMerge
    <3>1. pc[Loop] = "complete" => cur[Loop] \in Runs
      BY HoldsRun DEF Resting
    <3>2. QED
      BY <3>1 DEF PromptContinuation, HoldForMerge, Unasked
  <2>3. QED
    BY <1>1, <1>3, <1>4, <2>1, <2>2 DEF LoopNext, HandleJobComplete
<1>5. CASE DogNext
  <2>1. CASE WatchdogTick \/ WatchdogDone \/ \E r \in Runs : WatchdogCheck(r)
    BY <2>1, ConfigAssumption, Zenon
    DEF WatchdogTick, WatchdogDone, WatchdogCheck, control, NothingAsked
  <2>2. QED
    BY <1>3, <1>5, <2>1 DEF DogNext
<1>6. ASSUME NEW h \in Hooks, HookSteps(h) \/ Requests(h) PROVE NothingAsked'
  <2>1. ~ApprovalSteps(h) /\ ~Report(h)
    BY Zenon DEF NothingAsked, ApprovalSteps, RejectRun, ResolvePreStart, LaunchPreStart,
         ResolvePreMerge, ResolveContinuation, LaunchContinuationJob, FailRepoURLTaskRun,
         Report
  <2>2. CASE Requests(h)
    BY <2>2, Zenon DEF Requests, WebhookTicket, ProcessTicket, ApprovalCallback,
         RepoURLArrives, RepoURLFails, control, NothingAsked
  <2>3. QED
    BY <1>1, <1>6, <2>1, <2>2 DEF HookSteps
<1>7. CASE AnyJobEnds \/ (\E t \in Tickets : RequeueTicket(t)) \/ UNCHANGED vars
  BY <1>7, Zenon DEF AnyJobEnds, JobEnds, RequeueTicket, vars, control, NothingAsked
<1>8. QED
  BY <1>2, <1>4, <1>5, <1>6, <1>7 DEF Next, Crash

-----------------------------------------------------------------------------
(* The name of a relaunch is free *)

\* Numbers only grow, no numbered Job appears, and nobody begins a relaunch.
NamesQuiet ==
  /\ \A j \in DOMAIN jobs' \ DOMAIN jobs : j[2] \notin {"retry", "fallback"}
  /\ \A r \in Runs : retry'[r] >= retry[r] /\ attempts'[r] >= attempts[r]
  /\ \A th \in {Loop, Dog} : Relaunching(th)' => pc'[th] = pc[th] /\ cur'[th] = cur[th]

RetryingStays == \A r \in Runs : state[r] = "Retrying" => state'[r] = "Retrying"

\* What the table allows a run that is being relaunched.
LEMMA RetryingTable ==
  ASSUME NEW target, CanTransition("Retrying", target)
  PROVE  target = "Running"
  BY DEF CanTransition, validTransitions

LEMMA NameTypes ==
  ASSUME TypeInv
  PROVE  /\ \A j \in DOMAIN jobs : j[1] \in Runs /\ j[3] \in Nat
         /\ \A r \in Runs : retry[r] \in Nat /\ attempts[r] \in Nat
         /\ \A th \in {Loop, Dog} : Relaunching(th) => cur[th] \in Runs
<1>1. \A j \in DOMAIN jobs : j[1] \in Runs /\ j[3] \in Nat
  BY DEF TypeInv, RunTypes, JobNames
<1>2. \A r \in Runs : retry[r] \in Nat /\ attempts[r] \in Nat
  BY Numbers DEF NumberTypes
<1>3. \A th \in {Loop, Dog} : Relaunching(th) => cur[th] \in Runs
  BY HoldsRun DEF Relaunching, Resting
<1>4. QED
  BY <1>1, <1>2, <1>3

LEMMA QuietKeepsNames ==
  ASSUME TypeInv, TypeInv', Numbered, NamesFree, NamesQuiet
  PROVE  Numbered' /\ NamesFree'
<1>0. \A r \in Runs : /\ retry[r] \in Nat /\ attempts[r] \in Nat
                      /\ retry'[r] \in Nat /\ attempts'[r] \in Nat
  <2>1. retry' \in [Runs -> 0..MaxRetries] /\ attempts' \in [Runs -> Nat \ {0}]
    BY Zenon DEF TypeInv, RunTypes
  <2>2. QED
    BY <2>1, NameTypes, MaxRetriesAssumption
<1>1. Numbered'
  <2>1. \A th \in {Loop, Dog} : Relaunching(th)' => cur[th] \in Runs
    BY NameTypes DEF NamesQuiet, Relaunching
  <2>2. \A a, b \in {Loop, Dog} :
          Relaunching(a)' /\ pc'[a] = pc'[b] /\ cur'[a] = cur'[b] => a = b
    BY DEF Numbered, NamesQuiet, Relaunching
  <2>3. QED
    BY <1>0, <2>1, <2>2 DEF Numbered, NamesQuiet, Relaunching
<1>2. ASSUME NEW j \in DOMAIN jobs'
      PROVE  /\ j[2] = "retry" => j[3] <= retry'[j[1]]
             /\ j[2] = "fallback" => j[3] <= attempts'[j[1]]
             /\ \A th \in {Loop, Dog} : cur'[th] = j[1] =>
                  /\ pc'[th] = "retry" /\ j[2] = "retry" => j[3] < retry'[j[1]]
                  /\ pc'[th] = "fallback" /\ j[2] = "fallback" => j[3] < attempts'[j[1]]
  <2>1. CASE j \notin DOMAIN jobs
    BY <2>1, Zenon DEF NamesQuiet
  <2>2. CASE j \in DOMAIN jobs
    <3>1. /\ j[1] \in Runs /\ j[3] \in Nat /\ retry[j[1]] \in Nat /\ attempts[j[1]] \in Nat
          /\ retry'[j[1]] \in Nat /\ attempts'[j[1]] \in Nat
      BY <1>0, <2>2, NameTypes
    <3>2. retry'[j[1]] >= retry[j[1]] /\ attempts'[j[1]] >= attempts[j[1]]
      BY <3>1, Zenon DEF NamesQuiet
    <3>3. \A th \in {Loop, Dog} : Relaunching(th)' => pc'[th] = pc[th] /\ cur'[th] = cur[th]
      BY DEF NamesQuiet
    <3>4. QED
      BY <2>2, <3>1, <3>2, <3>3 DEF NamesFree, Relaunching
  <2>3. QED
    BY <2>1, <2>2, Zenon
<1>3. QED
  BY <1>1, <1>2, Zenon DEF NamesFree

\* No run begins to wait for a relaunch, and none loses the goroutine it waits for
\* unless the controller forgets the run.
WaitsQuietly ==
  /\ \A r \in Runs : state'[r] = "Retrying" => state[r] = "Retrying"
  /\ \/ \A r \in Runs : ~Registered(r)'
     \/ /\ \A r \in Runs : state[r] = "Retrying" /\ Registered(r)' => Registered(r)
        /\ \A th \in {Loop, Dog} : Relaunching(th) => pc'[th] = pc[th] /\ cur'[th] = cur[th]

\* What every step does that neither begins nor ends a relaunch.
Aside == NamesQuiet /\ WaitsQuietly /\ (NothingAsked => RetryingStays)

\* What the leaves below need of the types.
AsideTypes ==
  /\ NumberTypes /\ state \in [Runs -> States \cup {Unused}]
  /\ ticketOf \in [Runs -> Tickets \cup {NoTicket}] /\ NoTicket \notin Tickets
  /\ taskRuns \in [Tickets -> Runs \cup {NoRun}] /\ NoRun \notin Runs
  /\ Loop # Dog /\ Loop \notin Hooks /\ Dog \notin Hooks

LEMMA Types ==
  ASSUME TypeInv
  PROVE  AsideTypes
  BY Numbers, ConfigAssumption, Zenon DEF TypeInv, RunTypes, AsideTypes

\* A step of one goroutine that creates no Job, counts nothing and changes the state
\* of no run.
LEMMA AsideMove ==
  ASSUME TypeInv, NEW th \in Threads, OnlyMoves(th), ~Relaunching(th), ~Relaunching(th)',
         UNCHANGED <<state, retry, attempts, taskRuns, ticketOf>>, DOMAIN jobs' = DOMAIN jobs
  PROVE  Aside
<1> USE Types DEF AsideTypes, NumberTypes
<1>1. NamesQuiet
  BY DEF NamesQuiet, OnlyMoves, Relaunching
<1>2. WaitsQuietly
  BY Zenon DEF WaitsQuietly, OnlyMoves, Registered
<1>3. QED
  BY <1>1, <1>2, Zenon DEF Aside, RetryingStays

\* A step that changes the state of one run, not to Retrying and from it only to
\* Running after an answer.
LEMMA AsideTransition ==
  ASSUME TypeInv, NEW th \in Threads, OnlyMoves(th), ~Relaunching(th), ~Relaunching(th)',
         NEW r \in Runs, NEW s, s # "Retrying",
         CanTransition(state[r], s) \/ state[r] = Unused,
         s = "Running" => ~NothingAsked \/ state[r] = Unused,
         state' = [state EXCEPT ![r] = s],
         \A q \in Runs : retry'[q] >= retry[q], UNCHANGED attempts,
         \A q \in Runs : q # r => ticketOf'[q] = ticketOf[q],
         ticketOf'[r] = ticketOf[r] \/ state[r] = Unused,
         \A t \in Tickets : taskRuns'[t] \in {taskRuns[t], r},
         \A t \in Tickets : taskRuns'[t] = taskRuns[t] \/ state[r] = Unused,
         \A j \in DOMAIN jobs' \ DOMAIN jobs : j[2] = "base"
  PROVE  Aside
<1> USE Types DEF AsideTypes, NumberTypes
<1>1. NamesQuiet
  BY DEF NamesQuiet, OnlyMoves, Relaunching
<1>2. WaitsQuietly
  BY DEF WaitsQuietly, OnlyMoves, Registered, Unused
<1>3. NothingAsked => RetryingStays
  BY RetryingTable DEF RetryingStays, Unused
<1>4. QED
  BY <1>1, <1>2, <1>3, Zenon DEF Aside

LEMMA AsideProcess ==
  ASSUME TypeInv, NEW th \in Threads, ProcessTicketSteps(th)
  PROVE  Aside
<1>0. OnlyMoves(th) /\ ~Relaunching(th) /\ pc[th] \in {"admit", "mark"}
  BY ProcessMoves, Zenon DEF Relaunching, ProcessTicketSteps, RefuseTicket, RefuseNoRepo,
       MarkInProgress, StartRepoURLPoll, HoldForStart, HoldNewRun, LaunchTaskRun
<1> USE <1>0, Types DEF AsideTypes, NumberTypes, Relaunching, runVars, counters
<1>1. CASE RefuseTicket(th) \/ RefuseNoRepo(th) \/ MarkInProgress(th)
  BY <1>1, AsideMove, Zenon DEF RefuseTicket, RefuseNoRepo, MarkInProgress
<1>a. \A q \in Runs : retry[q] >= retry[q]
  OBVIOUS
<1>2. ASSUME NEW r \in Runs, NEW g, HoldNewRun(th, r, g) PROVE Aside
  <2>1. /\ state' = [state EXCEPT ![r] = "NeedsHuman"] /\ state[r] = Unused /\ ~Relaunching(th)'
        /\ UNCHANGED <<retry, attempts, jobs>>
        /\ \A q \in Runs : q # r => ticketOf'[q] = ticketOf[q]
        /\ \A t \in Tickets : taskRuns'[t] \in {taskRuns[t], r}
    BY <1>2, Zenon DEF HoldNewRun, Unallocated
  <2>2. QED
    BY <1>a, <2>1, AsideTransition, Zenon
<1>3. ASSUME NEW r \in Runs, LaunchTaskRun(th, r) PROVE Aside
  <2>1. /\ \E s \in {"Running", "Queued"} : state' = [state EXCEPT ![r] = s]
        /\ state[r] = Unused /\ ~Relaunching(th)'
        /\ UNCHANGED <<retry, attempts>>
        /\ \A q \in Runs : q # r => ticketOf'[q] = ticketOf[q]
        /\ \A t \in Tickets : taskRuns'[t] \in {taskRuns[t], r}
    BY <1>3 DEF LaunchTaskRun, Unallocated
  <2>2. \A j \in DOMAIN jobs' \ DOMAIN jobs : j[2] = "base"
    BY <1>3 DEF LaunchTaskRun, CreateJob, JobName
  <2>3. QED
    BY <1>a, <2>1, <2>2, AsideTransition, Zenon
<1>4. QED
  BY <1>1, <1>2, <1>3, Zenon DEF ProcessTicketSteps, StartRepoURLPoll, HoldForStart

LEMMA AsideDie ==
  ASSUME TypeInv, Die
  PROVE  Aside
<1> USE Types DEF AsideTypes, NumberTypes, Die, runVars, counters
<1>1. NamesQuiet
  BY DEF NamesQuiet, Relaunching
<1>2. WaitsQuietly /\ RetryingStays
  BY Zenon DEF WaitsQuietly, Registered, RetryingStays
<1>3. QED
  BY <1>1, <1>2, Zenon DEF Aside

LEMMA AsideFailed ==
  ASSUME TypeInv, NEW th \in {Loop, Dog},
         \/ JobFailed(th) \/ FailureIgnored(th) \/ GiveUp(th) \/ FallBackPanics(th) \/ Report(th)
  PROVE  Aside
<1> USE Types DEF AsideTypes, NumberTypes, Relaunching, runVars, counters
<1>a. ~Relaunching(th)
  BY Zenon DEF JobFailed, FailureIgnored, GiveUp, FallBackPanics, Report
<1>b. OnlyMoves(th) \/ Die
  BY HandlerMoves, Zenon DEF HandleJobFailed
<1>c. \A q \in Runs : retry[q] >= retry[q]
  OBVIOUS
<1>1. CASE JobFailed(th) \/ Report(th)
  BY <1>1, <1>a, <1>b, AsideMove, AsideDie, Zenon DEF JobFailed, Report
<1>2. CASE FailureIgnored(th)
  <2>0. cur[th] \in Runs
    BY <1>2, HoldsRun, Zenon DEF FailureIgnored, Resting
  <2>1. /\ ~Relaunching(th)' /\ UNCHANGED <<state, retry, jobs, ticketOf, taskRuns>>
        /\ \/ UNCHANGED attempts \/ attempts' = [attempts EXCEPT ![cur[th]] = @ + 1]
    BY <1>2, Zenon DEF FailureIgnored, SwitchEngine
  <2>2. \A r \in Runs : retry'[r] >= retry[r] /\ attempts'[r] >= attempts[r]
    BY <2>0, <2>1
  <2>3. OnlyMoves(th) => NamesQuiet /\ WaitsQuietly /\ RetryingStays
    BY <1>a, <2>1, <2>2, Zenon DEF NamesQuiet, WaitsQuietly, RetryingStays, OnlyMoves,
         Registered
  <2>4. QED
    BY <1>b, <2>3, AsideDie, Zenon DEF Aside
<1>3. CASE GiveUp(th)
  <2>0. cur[th] \in Runs
    BY <1>3, HoldsRun, Zenon DEF GiveUp, Resting
  <2>1. /\ ~Relaunching(th)' /\ UNCHANGED <<retry, attempts, jobs, ticketOf, taskRuns>>
        /\ CanTransition(state[cur[th]], "Failed")
        /\ state' = [state EXCEPT ![cur[th]] = "Failed"]
    BY <1>3, Zenon DEF GiveUp, Transition
  <2>2. QED
    BY <1>a, <1>b, <1>c, <2>0, <2>1, AsideTransition, AsideDie, Zenon
<1>4. CASE FallBackPanics(th)
  BY <1>4, AsideDie, Zenon DEF FallBackPanics
<1>5. QED
  BY <1>1, <1>2, <1>3, <1>4

LEMMA AsideLoops ==
  ASSUME TypeInv,
         \/ LoopPoll \/ LoopReap \/ LoopDone \/ HandleJobComplete \/ WatchdogTick \/ WatchdogDone
         \/ \E t \in Tickets : LoopTicket(t)
         \/ \E r \in Runs : CheckJobStatus(r) \/ WatchdogCheck(r)
  PROVE  Aside
<1> USE Types DEF AsideTypes, NumberTypes, Relaunching, runVars, counters, control
<1>1. CASE \/ LoopPoll \/ LoopReap \/ LoopDone \/ \E t \in Tickets : LoopTicket(t)
           \/ \E r \in Runs : CheckJobStatus(r)
  <2>1. /\ OnlyMoves(Loop) /\ ~Relaunching(Loop) /\ ~Relaunching(Loop)'
        /\ UNCHANGED <<state, retry, attempts, taskRuns, ticketOf, jobs>>
    BY <1>1, ZenonT(20) DEF OnlyMoves, LoopPoll, LoopReap, LoopDone, LoopTicket,
         ProcessTicket, CheckJobStatus
  <2>2. QED
    BY <2>1, AsideMove, Zenon
<1>2. CASE WatchdogTick \/ WatchdogDone \/ \E r \in Runs : WatchdogCheck(r)
  <2>1. /\ OnlyMoves(Dog) /\ ~Relaunching(Dog) /\ ~Relaunching(Dog)'
        /\ UNCHANGED <<state, retry, attempts, taskRuns, ticketOf, jobs>>
    BY <1>2, ZenonT(20) DEF OnlyMoves, WatchdogTick, WatchdogDone, WatchdogCheck
  <2>2. QED
    BY <2>1, AsideMove, Zenon
<1>3. CASE HandleJobComplete
  <2>0. pc[Loop] = "complete" /\ cur[Loop] \in Runs
    <3>1. pc[Loop] = "complete"
      BY <1>3, Zenon DEF HandleJobComplete, PromptContinuation, HoldForMerge, ReviewRejects,
           JobSucceeded
    <3>2. QED
      BY <3>1, HoldsRun, Zenon DEF Resting
  <2>1. /\ OnlyMoves(Loop) /\ ~Relaunching(Loop)'
        /\ UNCHANGED <<retry, attempts, taskRuns, ticketOf, jobs>>
        /\ \/ UNCHANGED state
           \/ \E s \in {"NeedsHuman", "Failed", "Succeeded"} :
                 /\ CanTransition(state[cur[Loop]], s)
                 /\ state' = [state EXCEPT ![cur[Loop]] = s]
    BY <1>3, Zenon DEF OnlyMoves, HandleJobComplete, PromptContinuation, HoldForMerge,
         HoldCompletedRun, ReviewRejects, JobSucceeded, Transition, TryTransition
  <2>2. \A q \in Runs : retry[q] >= retry[q]
    OBVIOUS
  <2>3. QED
    BY <2>0, <2>1, <2>2, AsideMove, AsideTransition, Zenon
<1>4. QED
  BY <1>1, <1>2, <1>3

LEMMA AsideHooks ==
  ASSUME TypeInv, NEW h \in Hooks, HookSteps(h) \/ Requests(h)
  PROVE  Aside
<1> USE Types DEF AsideTypes, NumberTypes, Relaunching, runVars, counters, control
<1>a. OnlyMoves(h) \/ Die
  BY HookMoves
<1> DEFINE r == cur[h]
           Quiet == /\ \A j \in DOMAIN jobs' \ DOMAIN jobs : j[2] \notin {"retry", "fallback"}
                    /\ \A q \in Runs : retry'[q] >= retry[q]
                    /\ UNCHANGED <<attempts, taskRuns, ticketOf>>
                    /\ \/ UNCHANGED state
                       \/ /\ r \in Runs
                          /\ \E s \in {"Failed", "Succeeded", "Running"} :
                               /\ CanTransition(state[r], s) /\ (s = "Running" => ~NothingAsked)
                               /\ state' = [state EXCEPT ![r] = s]
<1>c. ASSUME Quiet PROVE Aside
  <2>1. CASE OnlyMoves(h)
    <3>1. NamesQuiet
      BY <1>c, <2>1 DEF NamesQuiet, OnlyMoves
    <3>2. WaitsQuietly
      BY <1>c, <2>1 DEF WaitsQuietly, OnlyMoves, Registered
    <3>3. NothingAsked => RetryingStays
      BY <1>c, RetryingTable DEF RetryingStays
    <3>4. QED
      BY <3>1, <3>2, <3>3 DEF Aside
  <2>2. QED
    BY <1>a, <2>1, AsideDie
<1>d. pc[h] \notin Resting \cup {"admit"} => r \in Runs
  BY HoldsRun
<1>1. CASE ProcessTicketSteps(h)
  BY <1>1, AsideProcess
<1>2. CASE Requests(h) \/ Report(h)
  <2>1. UNCHANGED <<state, retry, attempts, taskRuns, ticketOf, jobs>>
    BY <1>2, Zenon DEF Requests, WebhookTicket, ProcessTicket, ApprovalCallback,
         RepoURLArrives, RepoURLFails, ResolveApproval, Report
  <2>2. QED
    BY <1>c, <2>1
<1>3. CASE RejectRun(h) \/ ResolvePreMerge(h)
  <2>1. Quiet
    BY <1>3, <1>d DEF RejectRun, ResolvePreMerge, Refused, Transition, Resting
  <2>2. QED
    BY <1>c, <2>1, Zenon
<1>4. CASE ResolvePreStart(h) \/ ResolveContinuation(h)
  <2>1. ~NothingAsked
    BY <1>4, Zenon DEF NothingAsked, ResolvePreStart, ResolveContinuation
  <2>2. Quiet
    BY <1>4, <1>d, <2>1 DEF ResolvePreStart, ResolveContinuation, Refused, Transition, Resting
  <2>3. QED
    BY <1>c, <2>2, Zenon
<1>5. CASE LaunchPreStart(h) \/ LaunchContinuationJob(h)
  <2>1. Quiet
    BY <1>5 DEF LaunchPreStart, LaunchContinuationJob, CreateJob, JobName
  <2>2. QED
    BY <1>c, <2>1, Zenon
<1>6. CASE FailRepoURLTaskRun(h)
  <2>0. r \in Runs
    BY <1>6, <1>d, Zenon DEF FailRepoURLTaskRun, Resting
  <2>1. Quiet
    BY <1>6, <2>0 DEF FailRepoURLTaskRun, UseUpRetries, TryTransition
  <2>2. QED
    BY <1>c, <2>1, Zenon
<1> HIDE DEF Quiet
<1>7. QED
  BY <1>1, <1>2, <1>3, <1>4, <1>5, <1>6, Zenon DEF HookSteps, ApprovalSteps

\* Where two goroutines never relaunch one run in the same way: without the watchdog
\* there is one of them, without questions a run that one relaunches is out of the
\* other's reach, and with one retry and one fallback the second finds none left.
OneRelauncher ==
  \/ "watchdog" \notin Features
  \/ Unasked
  \/ MaxRetries <= 1 /\ ChainLen <= 2

\* The run a goroutine is about to relaunch is not one another goroutine relaunches
\* in that way.
LEMMA RelaunchesAlone ==
  ASSUME OneRelauncher, TypeInv, NamesInv, NEW th \in {Loop, Dog}, Retry(th) \/ FallBack(th)
  PROVE  /\ cur[th] \in Runs /\ CanTransition(state[cur[th]], "Failed")
         /\ \A b \in {Loop, Dog} : b # th /\ cur[b] = cur[th] =>
              pc[b] # pc'[th] /\ (Unasked => ~Relaunching(b))
<1> USE Types DEF AsideTypes, NumberTypes
<1> DEFINE kind == pc'[th]
<1>0. /\ pc[th] \in {"decide", "decideFallback"} /\ CanTransition(state[cur[th]], "Failed")
      /\ kind = "retry" => retry[cur[th]] < MaxRetries
      /\ kind = "fallback" => attempts[cur[th]] < ChainLen
      /\ kind \in {"retry", "fallback"}
  BY Zenon DEF Retry, FallBack, CanRetry, Requeue
<1>1. cur[th] \in Runs
  BY <1>0, HoldsRun, Zenon DEF Resting
<1>2. ~CanTransition("Retrying", "Failed")
  BY RetryingTable
<1>3. CASE "watchdog" \notin Features
  BY <1>0, <1>1, <1>3, Zenon DEF NamesInv, NoDog, Relaunching
<1>4. CASE Unasked
  BY <1>0, <1>1, <1>2, <1>4, Zenon DEF NamesInv, Undisturbed, Relaunching
<1>5. CASE MaxRetries <= 1 /\ ChainLen <= 2 /\ ~Unasked
  BY <1>0, <1>1, <1>5 DEF NamesInv, Numbered
<1>6. QED
  BY <1>3, <1>4, <1>5, Zenon DEF OneRelauncher

LEMMA RequeueKeepsNames ==
  ASSUME OneRelauncher, TypeInv, TypeInv', NamesInv, NEW th \in {Loop, Dog},
         Retry(th) \/ FallBack(th)
  PROVE  Numbered' /\ NamesFree' /\ (Unasked /\ NothingAsked' => Undisturbed')
<1> DEFINE r == cur[th]
           kind == pc'[th]
<1>1. /\ r \in Runs /\ CanTransition(state[r], "Failed")
      /\ \A b \in {Loop, Dog} : b # th /\ cur[b] = r =>
           pc[b] # kind /\ (Unasked => ~Relaunching(b))
  BY RelaunchesAlone, Zenon
<1>2. /\ kind \in {"retry", "fallback"} /\ OnlyMoves(th) /\ UNCHANGED <<cur, jobs>>
      /\ state' = [state EXCEPT ![r] = "Retrying"]
      /\ retry' = IF kind = "retry" THEN [retry EXCEPT ![r] = @ + 1] ELSE retry
      /\ attempts' = [attempts EXCEPT ![r] = @ + 1] \/ (kind = "retry" /\ UNCHANGED attempts)
  BY Types, Zenon DEF AsideTypes, NumberTypes, Retry, FallBack, Requeue, CountRetry,
       SwitchEngine, OnlyMoves
<1> USE Types DEF AsideTypes, NumberTypes
<1>3. \A q \in Runs : /\ retry'[q] >= retry[q] /\ attempts'[q] >= attempts[q]
                      /\ retry'[q] \in Nat /\ attempts'[q] \in Nat
                      /\ retry[q] \in Nat /\ attempts[q] \in Nat
  BY <1>1, <1>2
<1>4. kind = "retry" => retry'[r] = retry[r] + 1
  BY <1>1, <1>2, Zenon
<1>5. kind = "fallback" => attempts'[r] = attempts[r] + 1
  BY <1>1, <1>2, Zenon
<1>6. Numbered'
  <2>1. \A b \in {Loop, Dog} : Relaunching(b)' => cur[b] \in Runs
    BY <1>1, <1>2, NameTypes, Zenon DEF Relaunching, OnlyMoves
  <2>2. \A b \in {Loop, Dog} : /\ pc'[b] = "retry" => retry'[cur'[b]] >= 1
                               /\ pc'[b] = "fallback" => attempts'[cur'[b]] >= 2
    BY <1>1, <1>2, <1>3, <1>4, <1>5, <2>1 DEF NamesInv, Numbered, Relaunching, OnlyMoves
  <2>3. \A a, b \in {Loop, Dog} :
          Relaunching(a)' /\ pc'[a] = pc'[b] /\ cur'[a] = cur'[b] => a = b
    BY <1>1, <1>2 DEF NamesInv, Numbered, Relaunching, OnlyMoves
  <2>4. QED
    BY <2>2, <2>3, Zenon DEF Numbered
<1>7. NamesFree'
  <2> SUFFICES ASSUME NEW j \in DOMAIN jobs'
               PROVE  /\ j[2] = "retry" => j[3] <= retry'[j[1]]
                      /\ j[2] = "fallback" => j[3] <= attempts'[j[1]]
                      /\ \A b \in {Loop, Dog} : cur'[b] = j[1] =>
                           /\ pc'[b] = "retry" /\ j[2] = "retry" => j[3] < retry'[j[1]]
                           /\ pc'[b] = "fallback" /\ j[2] = "fallback" => j[3] < attempts'[j[1]]
    BY Zenon DEF NamesFree
  <2>1. /\ j[1] \in Runs /\ j[3] \in Nat /\ j \in DOMAIN jobs
        /\ retry[j[1]] \in Nat /\ attempts[j[1]] \in Nat
        /\ retry'[j[1]] \in Nat /\ attempts'[j[1]] \in Nat
        /\ retry'[j[1]] >= retry[j[1]] /\ attempts'[j[1]] >= attempts[j[1]]
    BY <1>2, <1>3, NameTypes, Zenon
  <2>2. QED
    BY <1>2, <1>4, <1>5, <2>1 DEF NamesInv, NamesFree, OnlyMoves
<1>8. Unasked /\ NothingAsked' => Undisturbed'
  BY <1>1, <1>2 DEF NamesInv, Undisturbed, Relaunching, OnlyMoves
<1>9. QED
  BY <1>6, <1>7, <1>8

LEMMA RelaunchKeepsNames ==
  ASSUME TypeInv, TypeInv', NamesInv, NEW th \in {Loop, Dog}, NEW kind \in {"retry", "fallback"},
         NEW n \in Nat, n = (IF kind = "retry" THEN retry[cur[th]] ELSE attempts[cur[th]]),
         Relaunch(th, kind, n)
  PROVE  Numbered' /\ NamesFree' /\ (Unasked /\ NothingAsked' => Undisturbed')
<1> DEFINE r == cur[th]
<1>1. /\ r \in Runs /\ pc[th] = kind /\ OnlyMoves(th) /\ ~Relaunching(th)'
      /\ UNCHANGED <<retry, attempts>>
      /\ DOMAIN jobs' \subseteq DOMAIN jobs \cup {<<r, "base", 1>>, <<r, kind, n>>}
  <2>1. pc[th] = kind /\ r \in Runs
    BY HoldsRun, Zenon DEF Relaunch, Resting
  <2>2. OnlyMoves(th) /\ ~Relaunching(th)' /\ UNCHANGED <<retry, attempts>>
    BY Types, Zenon DEF AsideTypes, NumberTypes, Relaunch, OnlyMoves, Relaunching, counters
  <2>3. DOMAIN jobs' \subseteq DOMAIN jobs \cup {<<r, "base", 1>>, <<r, kind, n>>}
    BY Zenon DEF Relaunch, CreateJob, JobName
  <2>4. QED
    BY <2>1, <2>2, <2>3, Zenon
<1>2. Numbered'
  BY <1>1 DEF NamesInv, Numbered, Relaunching, OnlyMoves
<1>3. ASSUME NEW j \in DOMAIN jobs'
      PROVE  /\ j[2] = "retry" => j[3] <= retry'[j[1]]
             /\ j[2] = "fallback" => j[3] <= attempts'[j[1]]
             /\ \A b \in {Loop, Dog} : cur'[b] = j[1] =>
                  /\ pc'[b] = "retry" /\ j[2] = "retry" => j[3] < retry'[j[1]]
                  /\ pc'[b] = "fallback" /\ j[2] = "fallback" => j[3] < attempts'[j[1]]
  <2>1. \A b \in {Loop, Dog} : Relaunching(b)' =>
          b # th /\ pc'[b] = pc[b] /\ cur'[b] = cur[b] /\ Relaunching(b)
    BY <1>1, Zenon DEF OnlyMoves, Relaunching
  <2>2. CASE j \in DOMAIN jobs
    BY <1>1, <2>1, <2>2, Zenon DEF NamesInv, NamesFree, Relaunching
  <2>3. CASE j = <<r, kind, n>>
    <3>1. j[1] = r /\ j[2] = kind /\ j[3] = n
      BY <2>3, Zenon
    <3>2. \A b \in {Loop, Dog} : b # th /\ cur[b] = r => pc[b] # kind
      BY <1>1, Zenon DEF NamesInv, Numbered, Relaunching
    <3>3. n <= n
      OBVIOUS
    <3>4. QED
      BY <1>1, <2>1, <3>1, <3>2, <3>3, Zenon DEF Relaunching
  <2>4. CASE j = <<r, "base", 1>>
    <3>1. j[2] = "base"
      BY <2>4, Zenon
    <3>2. QED
      BY <3>1
  <2>5. QED
    BY <1>1, <2>2, <2>3, <2>4, Zenon
<1>4. Unasked /\ NothingAsked' => Undisturbed'
  <2>1. \A q \in Runs \ {r} : state'[q] = state[q]
    BY Types, Zenon DEF AsideTypes, Relaunch, Transition
  <2>2. QED
    BY <1>1, <2>1, NameTypes DEF NamesInv, Undisturbed, Relaunching, OnlyMoves
<1>5. QED
  BY <1>2, <1>3, <1>4, Zenon DEF NamesFree

LEMMA AsideKeepsNames ==
  ASSUME TypeInv, TypeInv', NamesInv, Aside
  PROVE  Numbered' /\ NamesFree' /\ (Unasked /\ NothingAsked' => Undisturbed')
<1>1. Numbered' /\ NamesFree'
  BY QuietKeepsNames DEF NamesInv, Aside
<1>2. Unasked /\ NothingAsked' => Undisturbed'
  <2>1. \A th \in {Loop, Dog} : Relaunching(th)' =>
          Relaunching(th) /\ cur'[th] = cur[th] /\ cur[th] \in Runs
    BY NameTypes, Zenon DEF Aside, NamesQuiet, Relaunching
  <2>2. QED
    BY <2>1 DEF NamesInv, Undisturbed, Aside, RetryingStays
<1>3. QED
  BY <1>1, <1>2

\* The three kinds of steps, as the invariants below see them.
LEMMA NamesStep ==
  ASSUME TypeInv, [Next]_vars
  PROVE  \/ Aside
         \/ \E th \in {Loop, Dog} :
              \/ Retry(th) \/ FallBack(th)
              \/ Relaunch(th, "retry", retry[cur[th]])
              \/ Relaunch(th, "fallback", attempts[cur[th]])
<1>1. CASE LoopNext \/ DogNext
  <2>1. ASSUME NEW th \in {Loop, Dog}, HandleJobFailed(th)
        PROVE  \/ Aside \/ Retry(th) \/ FallBack(th)
               \/ Relaunch(th, "retry", retry[cur[th]])
               \/ Relaunch(th, "fallback", attempts[cur[th]])
    BY <2>1, AsideFailed DEF HandleJobFailed, LaunchFallbackJob, LaunchRetryJob
  <2>2. ASSUME NEW th \in {Loop, Dog}, Report(th) PROVE Aside
    BY <2>2, AsideFailed
  <2>3. ProcessTicketSteps(Loop) => Aside
    BY AsideProcess
  <2>4. QED
    BY <1>1, <2>1, <2>2, <2>3, AsideLoops, Zenon DEF LoopNext, DogNext
<1>2. CASE AnyJobEnds \/ (\E t \in Tickets : RequeueTicket(t)) \/ UNCHANGED vars
  <2>1. UNCHANGED <<state, retry, attempts, taskRuns, ticketOf, pc, cur>> /\ DOMAIN jobs' = DOMAIN jobs
    BY <1>2, Zenon DEF AnyJobEnds, JobEnds, RequeueTicket, vars, runVars, counters, control
  <2>2. NamesQuiet /\ WaitsQuietly /\ RetryingStays
    BY <2>1, Types DEF AsideTypes, NumberTypes, NamesQuiet, WaitsQuietly, RetryingStays,
        Relaunching, Registered
  <2>3. QED
    BY <2>2 DEF Aside
<1>3. QED
  BY <1>1, <1>2, AsideHooks, AsideDie, Zenon DEF Next, Crash

LEMMA NamesNext ==
  ASSUME OneRelauncher, TypeInv, TypeInv', NamesInv, [Next]_vars
  PROVE  NamesInv'
<1>1. "watchdog" \in Features \/ NoDog'
  BY DogStaysIdle DEF NamesInv
<1>2. Unasked => NothingAsked'
  BY NothingIsAsked DEF NamesInv, Undisturbed
<1>3. Numbered' /\ NamesFree' /\ (Unasked /\ NothingAsked' => Undisturbed')
  <2>1. ASSUME NEW th \in {Loop, Dog}, Retry(th) \/ FallBack(th)
        PROVE  Numbered' /\ NamesFree' /\ (Unasked /\ NothingAsked' => Undisturbed')
    BY <2>1, RequeueKeepsNames
  <2>2. ASSUME NEW th \in {Loop, Dog}, NEW kind \in {"retry", "fallback"},
               Relaunch(th, kind, IF kind = "retry" THEN retry[cur[th]] ELSE attempts[cur[th]])
        PROVE  Numbered' /\ NamesFree' /\ (Unasked /\ NothingAsked' => Undisturbed')
    <3>1. cur[th] \in Runs
      BY <2>2, HoldsRun, Zenon DEF Relaunch, Resting
    <3>2. retry[cur[th]] \in Nat /\ attempts[cur[th]] \in Nat
      BY <3>1, NameTypes
    <3>3. QED
      BY <2>2, <3>2, RelaunchKeepsNames, Zenon
  <2>3. QED
    BY <2>1, <2>2, NamesStep, AsideKeepsNames, Zenon
<1>4. QED
  BY <1>1, <1>2, <1>3 DEF NamesInv

LEMMA NamesHold ==
  ASSUME OneRelauncher
  PROVE  Spec => []NamesInv
<1>1. Init => NamesInv
  BY DEF Init, NamesInv, NoDog, Undisturbed, NothingAsked, Relaunching, Numbered, NamesFree
<1>2. TypeInv /\ TypeInv' /\ NamesInv /\ [Next]_vars => NamesInv'
  BY NamesNext
<1>3. QED
  BY <1>1, <1>2, TypeCorrect, PTL DEF Spec

\* The name launchFallbackJob or launchRetryJob builds for the next Job of a run is
\* in use by no earlier attempt, so Create never refuses it for that reason: the
\* numbers in the names never collide.  Run ids are short enough for Build to leave
\* the number in the name.  With the watchdog, gates and longer chains together an
\* answer can move the run on between the count and the launch, and the numbers
\* collide after all.
THEOREM RelaunchesFindNames ==
  ASSUME OneRelauncher, LongIds = {}
  PROVE  Spec => []RelaunchNamesAreNew
<1>1. TypeInv /\ NamesInv => RelaunchNamesAreNew
  <2> SUFFICES ASSUME TypeInv, NamesInv PROVE RelaunchNamesAreNew
    OBVIOUS
  <2>1. ASSUME NEW r \in Runs, NEW kind, NEW n \in Nat, <<r, kind, n>> \in DOMAIN jobs
        PROVE  /\ <<r, kind, n>>[1] = r /\ <<r, kind, n>>[2] = kind /\ <<r, kind, n>>[3] = n
               /\ ~(n < n)
    OBVIOUS
  <2>2. \A th \in {Loop, Dog} :
          /\ pc[th] = "retry" => <<cur[th], "retry", retry[cur[th]]>> \notin DOMAIN jobs
          /\ pc[th] = "fallback" => <<cur[th], "fallback", attempts[cur[th]]>> \notin DOMAIN jobs
    BY <2>1, NameTypes DEF NamesInv, NamesFree, Relaunching
  <2>3. ASSUME NEW r, NEW kind, NEW n PROVE JobName(r, kind, n) = <<r, kind, n>>
    BY Zenon DEF JobName
  <2>4. QED
    BY <2>2, <2>3, Zenon DEF RelaunchNamesAreNew
<1>2. QED
  BY <1>1, NamesHold, TypeCorrect, PTL

-----------------------------------------------------------------------------
(* A run that waits for a relaunch gets it *)

\* Only a decision to relaunch the run again takes it off the abandoned ones.
LEMMA AbandonedStay ==
  ASSUME TypeInv, [Next]_vars
  PROVE  abandoned \subseteq abandoned' \/ \E th \in {Loop, Dog} : Retry(th) \/ FallBack(th)
<1> USE DEF ghosts
<1>1. ASSUME NEW th \in Threads, ProcessTicketSteps(th) PROVE abandoned' = abandoned
  BY <1>1, Zenon DEF ProcessTicketSteps, RefuseTicket, RefuseNoRepo, MarkInProgress,
       StartRepoURLPoll, HoldForStart, HoldNewRun, LaunchTaskRun
<1>2. ASSUME NEW th \in {Loop, Dog}, HandleJobFailed(th)
      PROVE  abandoned \subseteq abandoned' \/ Retry(th) \/ FallBack(th)
  BY <1>2, Zenon DEF HandleJobFailed, JobFailed, FailureIgnored, GiveUp, LaunchFallbackJob,
       LaunchRetryJob, Relaunch, FallBackPanics, Die
<1>3. ASSUME NEW th \in Threads, Report(th) PROVE abandoned' = abandoned
  BY <1>3, Zenon DEF Report
<1>4. CASE LoopNext
  <2>1. CASE \/ LoopPoll \/ LoopReap \/ LoopDone \/ HandleJobComplete
             \/ \E t \in Tickets : LoopTicket(t)
             \/ \E r \in Runs : CheckJobStatus(r)
    BY <2>1, Zenon DEF LoopPoll, LoopReap, LoopDone, LoopTicket, ProcessTicket,
         CheckJobStatus, HandleJobComplete, PromptContinuation, HoldForMerge,
         HoldCompletedRun, ReviewRejects, JobSucceeded
  <2>2. QED
    BY <1>1, <1>2, <1>3, <1>4, <2>1, Zenon DEF LoopNext
<1>5. CASE DogNext
  BY <1>2, <1>3, <1>5, Zenon DEF DogNext, WatchdogTick, WatchdogDone, WatchdogCheck
<1>6. ASSUME NEW h \in Hooks, HookSteps(h) \/ Requests(h) PROVE abandoned' = abandoned
  <2>1. CASE ApprovalSteps(h) \/ Requests(h)
    BY <2>1, Zenon DEF ApprovalSteps, Requests, RejectRun, ResolvePreStart, LaunchPreStart,
         ResolvePreMerge, ResolveContinuation, LaunchContinuationJob, FailRepoURLTaskRun,
         WebhookTicket, ProcessTicket, ApprovalCallback, RepoURLArrives, RepoURLFails,
         ResolveApproval
  <2>2. QED
    BY <1>1, <1>3, <1>6, <2>1, Zenon DEF HookSteps
<1>7. CASE AnyJobEnds \/ Crash \/ (\E t \in Tickets : RequeueTicket(t)) \/ UNCHANGED vars
  BY <1>7, Zenon DEF AnyJobEnds, JobEnds, Crash, Die, RequeueTicket, vars
<1>8. QED
  BY <1>4, <1>5, <1>6, <1>7, Zenon DEF Next

LEMMA RetryingNext ==
  ASSUME TypeInv, RetryingIsOnItsWay, [Next]_vars
  PROVE  RetryingIsOnItsWay'
<1> DEFINE Waits(r) == \E b \in {Loop, Dog} : cur[b] = r /\ pc[b] \in {"fallback", "retry"}
<1> SUFFICES ASSUME NEW r \in Runs, Registered(r)', state'[r] = "Retrying", r \notin abandoned'
             PROVE  Waits(r)'
  BY DEF RetryingIsOnItsWay
<1>1. Registered(r) /\ state[r] = "Retrying" /\ r \notin abandoned => Waits(r)
  BY DEF RetryingIsOnItsWay
<1> USE Types DEF AsideTypes, NumberTypes, counters
<1>3. ASSUME NEW th \in {Loop, Dog}, Retry(th) \/ FallBack(th)
      PROVE  Waits(r)'
  <2>1. /\ pc[th] \notin {"fallback", "retry"} /\ pc'[th] \in {"fallback", "retry"}
        /\ OnlyMoves(th) /\ UNCHANGED <<cur, taskRuns, ticketOf>>
        /\ state' = [state EXCEPT ![cur[th]] = "Retrying"]
        /\ abandoned' = abandoned \ {cur[th]}
    BY <1>3, Zenon DEF Retry, FallBack, Requeue, OnlyMoves
  <2>2. CASE r = cur[th]
    BY <2>1, <2>2, Zenon
  <2>3. CASE r # cur[th]
    <3>1. r \notin abandoned
      BY <2>1, <2>3, Zenon
    <3>2. QED
      BY <1>1, <2>1, <2>3, <3>1, Zenon DEF Registered, OnlyMoves
  <2>4. QED
    BY <2>2, <2>3, Zenon
<1>2. CASE Aside /\ ~\E th \in {Loop, Dog} : Retry(th) \/ FallBack(th)
  <2>1. state[r] = "Retrying" /\ Registered(r) /\ r \notin abandoned
    BY <1>2, AbandonedStay, Zenon DEF Aside, WaitsQuietly
  <2>2. QED
    BY <1>1, <1>2, <2>1 DEF Aside, WaitsQuietly, Relaunching
<1>4. ASSUME NEW th \in {Loop, Dog}, NEW kind \in {"retry", "fallback"}, NEW n, Relaunch(th, kind, n)
      PROVE  Waits(r)'
  <2>1. /\ OnlyMoves(th) /\ UNCHANGED <<taskRuns, ticketOf>>
        /\ \A q \in Runs \ {cur[th]} : state'[q] = state[q]
        /\ abandoned \subseteq abandoned'
    BY <1>4, Zenon DEF Relaunch, OnlyMoves, Transition
  <2>2. CanTransition("Retrying", "Running")
    BY Zenon DEF CanTransition, validTransitions
  <2>3. r # cur[th]
    <3>1. cur[th] \in Runs
      BY <1>4, HoldsRun, Zenon DEF Relaunch, Resting
    <3>2. state'[cur[th]] # "Retrying" \/ cur[th] \in abandoned'
      BY <1>4, <2>2, <3>1, Zenon DEF Relaunch, Transition
    <3>3. QED
      BY <3>2, Zenon
  <2>4. QED
    BY <1>1, <2>1, <2>3, Zenon DEF Registered, OnlyMoves
<1>5. QED
  BY <1>2, <1>3, <1>4, NamesStep, Zenon

\* A registered run in Retrying has the goroutine that will relaunch it, or that
\* goroutine came and launchRetryJob or launchFallbackJob returned early: neither
\* an answer, nor the watchdog, nor a restart leaves it there with nobody coming.
\* It holds in every configuration.
THEOREM RetryingRunsAreRelaunched == Spec => []RetryingIsOnItsWay
<1>1. Init => RetryingIsOnItsWay
  BY DEF Init, RetryingIsOnItsWay, Unused
<1>2. TypeInv /\ RetryingIsOnItsWay /\ [Next]_vars => RetryingIsOnItsWay'
  BY RetryingNext
<1>3. QED
  BY <1>1, <1>2, TypeCorrect, PTL DEF Spec
=============================================================================
