----------------------------- MODULE Reconciler -----------------------------
(***************************************************************************)
(* The core of the controller (internal/controller): how the reconcile     *)
(* loop, the watchdog loop, webhook and approval callbacks and the         *)
(* repository-URL poller drive TaskRuns that share one in-memory map, and  *)
(* the Kubernetes Jobs they create.                                        *)
(*                                                                         *)
(* A goroutine is a thread with a program counter.  A step of a thread is  *)
(* what it does between two points at which another goroutine can run and  *)
(* be noticed: the critical sections of r.mu, and the calls that leave the *)
(* process (Kubernetes, ticketing, Slack, the LLM).                        *)
(***************************************************************************)
EXTENDS TaskRun, FiniteSets

CONSTANTS
  Tickets,            \* ticket ids; the idempotency key of t is "<t>-1"
  Runs,               \* TaskRun ids that can be allocated (a bound)
  Hooks,              \* concurrent webhook / approval / poller goroutines (a bound)
  Loop, Dog,          \* the reconcile and the watchdog goroutine
  NoRun, NoTicket,    \* "absent"
  MaxConcurrentJobs,  \* guardrails.max_concurrent_jobs
  ChainLen,           \* length of the engine chain SelectEngines returns
  MaxContinuations,   \* max_continuations, 0 when continuation_prompt is off
  Gates,              \* guardrails.approval_gates
  Rejected,           \* tickets validateGuardRails refuses
  NoRepo,             \* tickets with no repository URL in them
  LongIds,            \* runs whose id is too long for a Job name (57 characters or more)
  Features,           \* optional parts that are configured
  Faults,             \* external calls that may fail
  MaxCrashes          \* how often the process may be killed (a bound)

ASSUME ConfigAssumption ==
  /\ MaxConcurrentJobs \in Nat \ {0} /\ ChainLen \in Nat \ {0}
  /\ MaxContinuations \in Nat /\ MaxCrashes \in Nat
  /\ Gates \subseteq {"pre_start", "pre_merge"}
  /\ Features \subseteq {"watchdog", "webhooks", "repoPoller", "codeReview",
                         "diagnosis", "estimator", "requeue"}
  /\ Faults \subseteq {"launch", "ticketing"}
  /\ NoRun \notin Runs /\ NoTicket \notin Tickets
  /\ Loop # Dog /\ Loop \notin Hooks /\ Dog \notin Hooks
  /\ Rejected \subseteq Tickets /\ NoRepo \subseteq Tickets /\ LongIds \subseteq Runs

ASSUME FiniteAssumption == IsFiniteSet(Runs)

Threads == {Loop, Dog} \cup Hooks

VARIABLES
  ticket,     \* run_state of each ticket in the ticketing backend
  taskRuns,   \* Reconciler.taskRuns, by ticket
  state, retry, attempts, cont, gate, jobName, ticketOf,   \* fields of TaskRun
  jobs,       \* Kubernetes Jobs: name -> status
  asked,      \* runs with an approval message (buttons) in Slack
  polling,    \* runs whose pollRepoURL goroutine waits for an answer
  pc, cur, tk,           \* of each thread: control point, its run, its ticket
  queue, active, todo,   \* locals of reconcileOnce, checkRunningJobs, runWatchdogChecks
  reports,    \* per run: MarkComplete / MarkFailed calls made for it
  granted,    \* runs some human approved the start of
  abandoned,  \* runs whose last relaunch returned early
  crashes

counters == <<retry, attempts, cont>>
runVars  == <<state, counters, gate, jobName, ticketOf>>
slack    == <<asked, polling>>
control  == <<pc, cur, tk>>
locals   == <<queue, active, todo>>
ghosts   == <<reports, granted, abandoned, crashes>>
vars == <<ticket, taskRuns, runVars, jobs, slack, control, locals, ghosts>>

\* Job ids are <run id>, <run id>-r<RetryCount>, -fb<attempt>, -c<count>.
JobNames == Runs \X {"base", "retry", "fallback", "continuation"} \X Nat

\* Build cuts osmia-<job id> at 63 characters, and with it the suffix of a long id.
JobName(r, kind, n) == IF r \in LongIds THEN <<r, "base", 1>> ELSE <<r, kind, n>>
NoJob == <<>>

GateTypes == {"pre_start", "pre_merge", "continuation", "missing_repo_url"}

\* Control points outside a handler, and inside one.
Resting == {"idle", "tickets", "reap", "watch"}
PCs == Resting \cup
       {"admit", "mark",                                          \* ProcessTicket
        "complete",                                               \* handleJobComplete
        "failed", "decide", "decideFallback", "fallback", "retry",\* handleJobFailed
        "reportComplete", "reportFailed",                         \* ticketing calls
        "reject", "preStart", "launchPreStart", "preMerge",       \* ResolveApproval
        "continuation", "launchContinuation",
        "exhaust"}                                                \* failRepoURLTaskRun

-----------------------------------------------------------------------------
(* Helpers *)

Unallocated == {r \in Runs : state[r] = Unused}

\* r is the run the controller finds under its ticket's idempotency key.
Registered(r) == ticketOf[r] \in Tickets /\ taskRuns[ticketOf[r]] = r

Terminal(r) == IsTerminal(state[r], retry[r])

\* activeJobCount: registered runs that are neither terminal nor Queued.
Counted == {r \in Runs : Registered(r) /\ ~Terminal(r) /\ state[r] # "Queued"}

\* The idempotency check of ProcessTicket.
Occupied(t) == taskRuns[t] # NoRun /\ ~Terminal(taskRuns[t])

\* Bound: every ProcessTicket call past its check needs a run id to allocate.
HeapRoom == Cardinality(Unallocated) >
              Cardinality({th \in Threads : pc[th] = "admit"})

\* Variant of the two below: the table is not consulted.
SetState(r, target) == state' = [state EXCEPT ![r] = target]

\* tr.Transition(target) for the run r, when it succeeds.
Transition(r, target) == /\ CanTransition(state[r], target)
                         /\ state' = [state EXCEPT ![r] = target]

\* _ = tr.Transition(target): the error of a refused one is ignored.
TryTransition(r, target) ==
  state' = IF CanTransition(state[r], target) THEN [state EXCEPT ![r] = target] ELSE state

\* Jobs().Create: names are not reused, so an existing one is an error.
CreateJob(j) ==
  /\ j \notin DOMAIN jobs
  /\ jobs' = [i \in DOMAIN jobs \cup {j} |-> IF i = j THEN "active" ELSE jobs[i]]

\* A launch stops early: session, spec, job build or Create returned an error.
LaunchFails(j) == "launch" \in Faults \/ j \in DOMAIN jobs

\* Variant: tr.JobName keeps the name of the first Job.
NameFirstJob(r, j) ==
  jobName' = IF jobName[r] = NoJob THEN [jobName EXCEPT ![r] = j] ELSE jobName

\* tr.JobName = job.Name
NameJob(r, j) == jobName' = [jobName EXCEPT ![r] = j]

\* A ticketing call; its error is logged and otherwise ignored.
Mark(t, s) == \/ ticket' = [ticket EXCEPT ![t] = s]
              \/ "ticketing" \in Faults /\ UNCHANGED ticket

Goto(th, l) == pc' = [pc EXCEPT ![th] = l] /\ UNCHANGED <<cur, tk>>

\* Enter a handler of the run r; return from one to l.
Enter(th, l, r) == /\ pc' = [pc EXCEPT ![th] = l]
                   /\ cur' = [cur EXCEPT ![th] = r]
                   /\ tk' = [tk EXCEPT ![th] = NoTicket]
Return(th, l) == Enter(th, l, NoRun)

\* Where ProcessTicket and the job handlers return to.
AfterTicket(th) == IF th = Loop THEN "tickets" ELSE "idle"
AfterJob(th) == IF th = Loop THEN "reap" ELSE IF th = Dog THEN "watch" ELSE "idle"

\* Variant: a processed ticket is not counted.
ForgetTicket(th) == UNCHANGED locals

\* reconcileOnce: activeCount++ when ProcessTicket returned no error.
CountTicket(th) == /\ active' = IF th = Loop THEN active + 1 ELSE active
                   /\ UNCHANGED <<queue, todo>>

\* runWatchdogCheck cancels the pending approval once handleJobFailed returns.
CancelPending(th) == /\ asked' = IF th = Dog THEN asked \ {cur[th]} ELSE asked
                     /\ UNCHANGED polling

-----------------------------------------------------------------------------
Init ==
  /\ ticket = [t \in Tickets |-> "idle"]
  /\ taskRuns = [t \in Tickets |-> NoRun]
  /\ state = [r \in Runs |-> Unused]
  /\ retry = [r \in Runs |-> 0]
  /\ attempts = [r \in Runs |-> 1]
  /\ cont = [r \in Runs |-> 0]
  /\ gate = [r \in Runs |-> "none"]
  /\ jobName = [r \in Runs |-> NoJob]
  /\ ticketOf = [r \in Runs |-> NoTicket]
  /\ jobs = [j \in {} |-> "active"]
  /\ asked = {} /\ polling = {}
  /\ pc = [th \in Threads |-> "idle"]
  /\ cur = [th \in Threads |-> NoRun]
  /\ tk = [th \in Threads |-> NoTicket]
  /\ queue = {} /\ active = 0 /\ todo = [th \in {Loop, Dog} |-> {}]
  /\ reports = [r \in Runs |-> 0]
  /\ granted = {} /\ abandoned = {} /\ crashes = 0

-----------------------------------------------------------------------------
(* reconcileOnce, and ProcessTicket as the loop and the webhooks call it *)

\* A tick: at the job limit the poll is skipped, otherwise the ready tickets
\* are listed.  The deferred checkRunningJobs runs either way.
LoopPoll ==
  /\ pc[Loop] = "idle"
  /\ active' = Cardinality(Counted)
  /\ \/ queue' = IF active' >= MaxConcurrentJobs
                 THEN {} ELSE {t \in Tickets : ticket[t] = "idle"}
     \/ "ticketing" \in Faults /\ queue' = {}
  /\ Goto(Loop, "tickets")
  /\ UNCHANGED <<ticket, taskRuns, runVars, jobs, slack, todo, ghosts>>

\* ProcessTicket up to its idempotency check, which releases r.mu before the
\* new run is registered.
ProcessTicket(th, t) ==
  /\ IF Occupied(t)
     THEN /\ UNCHANGED control
          /\ active' = IF th = Loop THEN active + 1 ELSE active
     ELSE /\ pc' = [pc EXCEPT ![th] = "admit"]
          /\ tk' = [tk EXCEPT ![th] = t]
          /\ UNCHANGED <<cur, active>>
  /\ UNCHANGED <<ticket, taskRuns, runVars, jobs, slack, todo, ghosts>>

LoopTicket(t) ==
  /\ pc[Loop] = "tickets"
  /\ t \in queue /\ active < MaxConcurrentJobs /\ HeapRoom
  /\ queue' = queue \ {t}
  /\ ProcessTicket(Loop, t)

\* A ticketing webhook; senders redeliver, so it may come at any time.
WebhookTicket(h, t) ==
  /\ "webhooks" \in Features
  /\ pc[h] = "idle" /\ HeapRoom
  /\ ProcessTicket(h, t)
  /\ UNCHANGED queue

\* ProcessTicket refuses the ticket: guard rails, or the predicted cost.  An
\* error of MarkFailed is the error ProcessTicket returns.
RefuseTicket(th) ==
  /\ pc[th] = "admit"
  /\ tk[th] \notin NoRepo
  /\ tk[th] \in Rejected \/ "estimator" \in Features
  /\ \/ ticket' = [ticket EXCEPT ![tk[th]] = "failed"] /\ CountTicket(th)
     \/ "ticketing" \in Faults /\ UNCHANGED <<ticket, locals>>
  /\ Return(th, AfterTicket(th))
  /\ UNCHANGED <<taskRuns, runVars, jobs, slack, ghosts>>

\* No repository URL and nobody to ask: the error return is not counted.
RefuseNoRepo(th) ==
  /\ pc[th] = "admit"
  /\ tk[th] \in NoRepo /\ "repoPoller" \notin Features
  /\ Mark(tk[th], "failed")
  /\ Return(th, AfterTicket(th))
  /\ UNCHANGED <<taskRuns, runVars, jobs, slack, locals, ghosts>>

\* The run is registered in NeedsHuman, held at the gate g.
HoldNewRun(th, r, g) ==
  /\ pc[th] = "admit"
  /\ r \in Unallocated
  /\ state' = [state EXCEPT ![r] = "NeedsHuman"]
  /\ gate' = [gate EXCEPT ![r] = g]
  /\ ticketOf' = [ticketOf EXCEPT ![r] = tk[th]]
  /\ taskRuns' = [taskRuns EXCEPT ![tk[th]] = r]
  /\ CountTicket(th)
  /\ Return(th, AfterTicket(th))
  /\ UNCHANGED <<ticket, counters, jobName, jobs, ghosts>>

\* startRepoURLPoll: ask for the URL in Slack from a goroutine of its own.
StartRepoURLPoll(th, r) ==
  /\ tk[th] \in NoRepo /\ "repoPoller" \in Features
  /\ HoldNewRun(th, r, "missing_repo_url")
  /\ polling' = polling \cup {r}
  /\ UNCHANGED asked

\* The pre_start gate: hold the run and ask for approval instead of launching.
HoldForStart(th, r) ==
  /\ tk[th] \notin NoRepo \cup Rejected /\ "pre_start" \in Gates
  /\ HoldNewRun(th, r, "pre_start")
  /\ asked' = asked \cup {r}
  /\ UNCHANGED polling

\* Variant: the pre_start gate is not looked at.
MayStartUngated(t) == t \notin NoRepo \cup Rejected

\* Nothing stops ProcessTicket from launching the ticket.
MayStart(t) == t \notin NoRepo \cup Rejected /\ "pre_start" \notin Gates

\* newLaunchTaskRun and launchTaskRun: the Job is created before the run is
\* registered, so nobody sees it Queued.
LaunchTaskRun(th, r) ==
  LET j == JobName(r, "base", 1) IN
  /\ pc[th] = "admit"
  /\ MayStart(tk[th])
  /\ r \in Unallocated
  /\ ticketOf' = [ticketOf EXCEPT ![r] = tk[th]]
  /\ \/ /\ CreateJob(j)
        /\ state' = [state EXCEPT ![r] = "Running"]
        /\ NameJob(r, j)
        /\ taskRuns' = [taskRuns EXCEPT ![tk[th]] = r]
        /\ Enter(th, "mark", r)
     \/ /\ LaunchFails(j)
        /\ state' = [state EXCEPT ![r] = "Queued"]
        /\ Return(th, AfterTicket(th))
        /\ UNCHANGED <<jobs, jobName, taskRuns>>
  /\ UNCHANGED <<ticket, counters, gate, slack, locals, ghosts>>

\* The OnLaunched hook of ProcessTicket, and the end of resolvePreStartApproval.
MarkInProgress(th) ==
  /\ pc[th] = "mark"
  /\ Mark(ticketOf[cur[th]], "running")
  /\ CountTicket(th)
  /\ Return(th, AfterTicket(th))
  /\ UNCHANGED <<taskRuns, runVars, jobs, slack, ghosts>>

\* Variant: at the limit the tick ends before the jobs are checked.
ReapBelowLimit ==
  /\ pc[Loop] = "tickets"
  /\ queue = {} \/ active >= MaxConcurrentJobs \/ ~HeapRoom
  /\ todo' = [todo EXCEPT ![Loop] = IF active >= MaxConcurrentJobs THEN {}
                                    ELSE {r \in Runs : Registered(r) /\ state[r] = "Running"}]
  /\ queue' = {} /\ active' = 0
  /\ Goto(Loop, "reap")
  /\ UNCHANGED <<ticket, taskRuns, runVars, jobs, slack, ghosts>>

\* The tickets are done, or the limit is reached: the deferred checkRunningJobs
\* snapshots the Running runs.
LoopReap ==
  /\ pc[Loop] = "tickets"
  /\ queue = {} \/ active >= MaxConcurrentJobs \/ ~HeapRoom
  /\ todo' = [todo EXCEPT ![Loop] = {r \in Runs : Registered(r) /\ state[r] = "Running"}]
  /\ queue' = {} /\ active' = 0
  /\ Goto(Loop, "reap")
  /\ UNCHANGED <<ticket, taskRuns, runVars, jobs, slack, ghosts>>

ProcessTicketSteps(th) ==
  \/ RefuseTicket(th) \/ RefuseNoRepo(th) \/ MarkInProgress(th)
  \/ \E r \in Runs : StartRepoURLPoll(th, r) \/ HoldForStart(th, r) \/ LaunchTaskRun(th, r)

-----------------------------------------------------------------------------
(* checkJobStatus and handleJobComplete, in the reconcile loop *)

\* checkJobStatus looks up the Job the run names and dispatches on it.
CheckJobStatus(r) ==
  LET j == jobName[r]
      ended(status) == j \in DOMAIN jobs /\ jobs[j] = status
  IN
  /\ pc[Loop] = "reap"
  /\ r \in todo[Loop]
  /\ todo' = [todo EXCEPT ![Loop] = @ \ {r}]
  /\ \/ ended("complete") /\ Enter(Loop, "complete", r)
     \/ ended("failed") /\ Enter(Loop, "failed", r)
     \/ ~ended("complete") /\ ~ended("failed") /\ UNCHANGED control
  /\ UNCHANGED <<ticket, taskRuns, runVars, jobs, slack, queue, active, ghosts>>

LoopDone ==
  /\ pc[Loop] = "reap" /\ todo[Loop] = {}
  /\ Goto(Loop, "idle")
  /\ UNCHANGED <<ticket, taskRuns, runVars, jobs, slack, locals, ghosts>>

\* Hold the completed run at the gate g and ask; nothing happens to a run that
\* has left Running in the meantime.
HoldCompletedRun(g) ==
  LET r == cur[Loop] IN
  /\ \/ /\ Transition(r, "NeedsHuman")
        /\ gate' = [gate EXCEPT ![r] = g]
        /\ asked' = asked \cup {r}
     \/ ~CanTransition(state[r], "NeedsHuman") /\ UNCHANGED <<state, gate, asked>>
  /\ Return(Loop, "reap")
  /\ UNCHANGED <<ticket, taskRuns, counters, jobName, ticketOf, jobs, polling, locals, ghosts>>

\* Variant: the number of continuations is not limited.
PromptAlways == /\ pc[Loop] = "complete"
                /\ MaxContinuations > 0
                /\ HoldCompletedRun("continuation")

\* promptContinuation: the agent ran out of turns, ask whether to continue.
\* Whether turns were exhausted is the agent's doing.
PromptContinuation == /\ pc[Loop] = "complete"
                      /\ cont[cur[Loop]] < MaxContinuations
                      /\ HoldCompletedRun("continuation")

\* The pre_merge gate: hold the completed run until a human approves.
HoldForMerge == /\ pc[Loop] = "complete"
                /\ "pre_merge" \in Gates
                /\ HoldCompletedRun("pre_merge")

\* ReviewDiff did not pass: the transition's error is ignored.
ReviewRejects ==
  /\ pc[Loop] = "complete"
  /\ "pre_merge" \notin Gates /\ "codeReview" \in Features
  /\ TryTransition(cur[Loop], "Failed")
  /\ Goto(Loop, "reportFailed")
  /\ UNCHANGED <<ticket, taskRuns, counters, gate, jobName, ticketOf, jobs, slack, locals, ghosts>>

\* The end of handleJobComplete, up to the ticketing call.
JobSucceeded ==
  LET r == cur[Loop] IN
  /\ pc[Loop] = "complete"
  /\ "pre_merge" \notin Gates
  /\ \/ Transition(r, "Succeeded") /\ Goto(Loop, "reportComplete")
     \/ ~CanTransition(state[r], "Succeeded") /\ UNCHANGED state /\ Return(Loop, "reap")
  /\ UNCHANGED <<ticket, taskRuns, counters, gate, jobName, ticketOf, jobs, slack, locals, ghosts>>

\* Variant: a failure is not reported to the ticketing backend.
ReportSuccessOnly(th) ==
  /\ \/ pc[th] = "reportComplete" /\ Mark(ticketOf[cur[th]], "succeeded")
     \/ pc[th] = "reportFailed" /\ UNCHANGED ticket
  /\ reports' = [reports EXCEPT ![cur[th]] = @ + 1]
  /\ CancelPending(th)
  /\ Return(th, AfterJob(th))
  /\ UNCHANGED <<taskRuns, runVars, jobs, locals, granted, abandoned, crashes>>

\* MarkComplete / MarkFailed, after r.mu was released.
Report(th) ==
  LET r == cur[th] IN
  /\ \/ pc[th] = "reportComplete" /\ Mark(ticketOf[r], "succeeded")
     \/ pc[th] = "reportFailed" /\ Mark(ticketOf[r], "failed")
  /\ reports' = [reports EXCEPT ![r] = @ + 1]
  /\ CancelPending(th)
  /\ Return(th, AfterJob(th))
  /\ UNCHANGED <<taskRuns, runVars, jobs, locals, granted, abandoned, crashes>>

HandleJobComplete == PromptContinuation \/ HoldForMerge \/ ReviewRejects \/ JobSucceeded

-----------------------------------------------------------------------------
(* handleJobFailed, from checkJobStatus and from the watchdog *)

\* Fallback and retry are judged possible under a read lock; the diagnosis
\* that follows runs without r.mu and may call an LLM.
JobFailed(th) ==
  /\ pc[th] = "failed"
  /\ Goto(th, IF ChainLen > attempts[cur[th]] THEN "decideFallback" ELSE "decide")
  /\ UNCHANGED <<ticket, taskRuns, runVars, jobs, slack, locals, ghosts>>

\* Variant: the error of Transition(Failed) is ignored.
RequeueAnyway(r) == /\ state' = [state EXCEPT ![r] = "Retrying"]
                    /\ abandoned' = abandoned \ {r}

\* Failed, then Retrying, in one critical section.
Requeue(r) == /\ CanTransition(state[r], "Failed")
              /\ state' = [state EXCEPT ![r] = "Retrying"]
              /\ abandoned' = abandoned \ {r}

\* A diagnosis may switch the engine of a retry, appending to EngineAttempts.
SwitchEngine(r) == /\ "diagnosis" \in Features
                   /\ attempts' = [attempts EXCEPT ![r] = @ + 1]

\* Variants: one retry too many; retries that are not counted.
CanRetryOnceMore(r) == retry[r] <= MaxRetries
RetryNotCounted(r) == UNCHANGED retry

CanRetry(r) == retry[r] < MaxRetries
CountRetry(r) == retry' = [retry EXCEPT ![r] = @ + 1]

\* Another goroutine moved the run on: Transition(Failed) is refused.
FailureIgnored(th) ==
  LET r == cur[th] IN
  /\ \/ pc[th] = "decide"
     \/ pc[th] = "decideFallback" /\ (attempts[r] < ChainLen \/ "diagnosis" \in Features)
  /\ ~CanTransition(state[r], "Failed")
  /\ \/ UNCHANGED attempts
     \/ pc[th] = "decide" /\ CanRetry(r) /\ SwitchEngine(r)
  /\ CancelPending(th)
  /\ Return(th, AfterJob(th))
  /\ UNCHANGED <<ticket, taskRuns, state, retry, cont, gate, jobName, ticketOf, jobs,
                 locals, ghosts>>

\* The next engine of the chain takes over.
FallBack(th) ==
  LET r == cur[th] IN
  /\ pc[th] = "decideFallback"
  /\ attempts[r] < ChainLen
  /\ Requeue(r)
  /\ attempts' = [attempts EXCEPT ![r] = @ + 1]
  /\ Goto(th, "fallback")
  /\ UNCHANGED <<ticket, taskRuns, retry, cont, gate, jobName, ticketOf, jobs, slack,
                 locals, reports, granted, crashes>>

\* Variant: the relaunch is left to a later tick.
RetryLater(th) ==
  /\ pc[th] = "decide"
  /\ CanRetry(cur[th]) /\ Requeue(cur[th]) /\ CountRetry(cur[th])
  /\ Return(th, AfterJob(th))
  /\ UNCHANGED <<ticket, taskRuns, attempts, cont, gate, jobName, ticketOf, jobs, slack,
                 locals, reports, granted, crashes>>

\* Retry, when the chain holds no further engine.
Retry(th) ==
  LET r == cur[th] IN
  /\ pc[th] = "decide"
  /\ CanRetry(r) /\ Requeue(r) /\ CountRetry(r)
  /\ UNCHANGED attempts \/ SwitchEngine(r)
  /\ Goto(th, "retry")
  /\ UNCHANGED <<ticket, taskRuns, cont, gate, jobName, ticketOf, jobs, slack, locals, reports, granted, crashes>>

\* Retries are used up, or the diagnosis advises against another attempt; an
\* infrastructure failure skips the fallback as well.
GiveUp(th) ==
  /\ \/ pc[th] = "decide" /\ ~CanRetry(cur[th])
     \/ pc[th] \in {"decide", "decideFallback"} /\ "diagnosis" \in Features
  /\ Transition(cur[th], "Failed")
  /\ Goto(th, "reportFailed")
  /\ UNCHANGED <<ticket, taskRuns, counters, gate, jobName, ticketOf, jobs, slack, locals, ghosts>>

\* launchFallbackJob / launchRetryJob: a new Job, and back to Running.  An early
\* return leaves the run in Retrying, a refused transition leaves the Job alone.
Relaunch(th, kind, n) ==
  LET r == cur[th]
      j == JobName(r, kind, n)
  IN
  /\ pc[th] = kind
  /\ \/ CreateJob(j) /\ Transition(r, "Running") /\ NameJob(r, j) /\ UNCHANGED abandoned
     \/ CreateJob(j) /\ ~CanTransition(state[r], "Running") /\ UNCHANGED <<state, jobName, abandoned>>
     \/ LaunchFails(j) /\ abandoned' = abandoned \cup {r} /\ UNCHANGED <<jobs, state, jobName>>
  /\ CancelPending(th)
  /\ Return(th, AfterJob(th))
  /\ UNCHANGED <<ticket, taskRuns, counters, gate, ticketOf, locals, reports, granted, crashes>>

LaunchFallbackJob(th) == Relaunch(th, "fallback", attempts[cur[th]])

LaunchRetryJob(th) == Relaunch(th, "retry", retry[cur[th]])

\* The process is gone: memory is lost; Jobs, tickets and messages are not.
Die ==
  /\ pc' = [th \in Threads |-> "idle"]
  /\ cur' = [th \in Threads |-> NoRun]
  /\ tk' = [th \in Threads |-> NoTicket]
  /\ taskRuns' = [t \in Tickets |-> NoRun]
  /\ queue' = {} /\ active' = 0 /\ todo' = [th \in {Loop, Dog} |-> {}]
  /\ polling' = {}
  /\ UNCHANGED <<ticket, runVars, jobs, asked, reports, granted, abandoned>>

\* chain[len(tr.EngineAttempts)] with a stale canFallBack: index out of range.
FallBackPanics(th) ==
  /\ pc[th] = "decideFallback"
  /\ attempts[cur[th]] >= ChainLen
  /\ Die
  /\ UNCHANGED crashes

Crash ==
  /\ crashes < MaxCrashes
  /\ crashes' = crashes + 1
  /\ Die

HandleJobFailed(th) ==
  \/ JobFailed(th) \/ FailureIgnored(th) \/ FallBack(th) \/ Retry(th) \/ GiveUp(th)
  \/ LaunchFallbackJob(th) \/ LaunchRetryJob(th) \/ FallBackPanics(th)

-----------------------------------------------------------------------------
(* The watchdog loop *)

\* runWatchdogChecks snapshots the Running and NeedsHuman runs.
WatchdogTick ==
  /\ "watchdog" \in Features
  /\ pc[Dog] = "idle"
  /\ todo' = [todo EXCEPT ![Dog] =
       {r \in Runs : Registered(r) /\ state[r] \in {"Running", "NeedsHuman"}}]
  /\ Goto(Dog, "watch")
  /\ UNCHANGED <<ticket, taskRuns, runVars, jobs, slack, queue, active, ghosts>>

\* runWatchdogCheck: no anomaly, or a terminating one in the state read now.
WatchdogCheck(r) ==
  /\ pc[Dog] = "watch"
  /\ r \in todo[Dog]
  /\ todo' = [todo EXCEPT ![Dog] = @ \ {r}]
  /\ \/ UNCHANGED control
     \/ state[r] \in {"Running", "NeedsHuman"} /\ Enter(Dog, "failed", r)
  /\ UNCHANGED <<ticket, taskRuns, runVars, jobs, slack, queue, active, ghosts>>

WatchdogDone ==
  /\ pc[Dog] = "watch" /\ todo[Dog] = {}
  /\ Goto(Dog, "idle")
  /\ UNCHANGED <<ticket, taskRuns, runVars, jobs, slack, locals, ghosts>>

-----------------------------------------------------------------------------
(* ResolveApproval, from Slack callbacks and from pollRepoURL *)

Resolver(g) == IF g = "pre_merge" THEN "preMerge"
               ELSE IF g = "continuation" THEN "continuation" ELSE "preStart"

\* The run is looked up under r.mu; its state and gate are read after that.
ResolveApproval(h, r, approved) ==
  /\ pc[h] = "idle"
  /\ IF Registered(r) /\ state[r] = "NeedsHuman"
     THEN Enter(h, IF approved THEN Resolver(gate[r]) ELSE "reject", r)
     ELSE UNCHANGED control
  /\ UNCHANGED <<ticket, taskRuns, runVars, jobs, asked, locals, ghosts>>

\* A click on a message that still shows its buttons.
ApprovalCallback(h, r) ==
  /\ r \in asked
  /\ \E approved \in BOOLEAN : ResolveApproval(h, r, approved)
  /\ UNCHANGED polling

\* Variant: the guard rails are not asked about the URL.
RepoURLUnchecked(h, r) ==
  /\ r \in polling
  /\ polling' = polling \ {r}
  /\ ResolveApproval(h, r, TRUE)

\* pollRepoURL got a URL the guard rails accept.
RepoURLArrives(h, r) ==
  /\ r \in polling /\ ticketOf[r] \notin Rejected
  /\ polling' = polling \ {r}
  /\ ResolveApproval(h, r, TRUE)

\* No answer, an error, or a repository the guard rails refuse:
\* failRepoURLTaskRun marks the ticket first ...
RepoURLFails(h, r) ==
  /\ r \in polling /\ pc[h] = "idle"
  /\ polling' = polling \ {r}
  /\ Mark(ticketOf[r], "failed")
  /\ reports' = [reports EXCEPT ![r] = @ + 1]
  /\ Enter(h, "exhaust", r)
  /\ UNCHANGED <<taskRuns, runVars, jobs, asked, locals, granted, abandoned, crashes>>

UseUpRetries(r) == retry' = [retry EXCEPT ![r] = MaxRetries]

\* ... then uses up the retries, whether or not the run could be failed.
FailRepoURLTaskRun(h) ==
  LET r == cur[h] IN
  /\ pc[h] = "exhaust"
  /\ IF Registered(r)
     THEN TryTransition(r, "Failed") /\ UseUpRetries(r)
     ELSE UNCHANGED <<state, retry>>
  /\ Return(h, "idle")
  /\ UNCHANGED <<ticket, taskRuns, attempts, cont, gate, jobName, ticketOf, jobs, slack,
                 locals, ghosts>>

\* A resolver's transition is refused when the run has moved on.
Refused(h, target) ==
  /\ ~CanTransition(state[cur[h]], target)
  /\ Return(h, "idle")
  /\ UNCHANGED <<state, cont, granted>>

RejectRun(h) ==
  /\ pc[h] = "reject"
  /\ \/ Refused(h, "Failed")
     \/ /\ Transition(cur[h], "Failed")
        /\ Goto(h, "reportFailed")
        /\ UNCHANGED <<cont, granted>>
  /\ UNCHANGED <<ticket, taskRuns, retry, attempts, gate, jobName, ticketOf, jobs, slack,
                 locals, reports, abandoned, crashes>>

\* resolvePreStartApproval moves to Running before it creates the Job ...
ResolvePreStart(h) ==
  /\ pc[h] = "preStart"
  /\ \/ Refused(h, "Running")
     \/ /\ Transition(cur[h], "Running")
        /\ granted' = IF gate[cur[h]] = "pre_start" THEN granted \cup {cur[h]} ELSE granted
        /\ Goto(h, "launchPreStart")
        /\ UNCHANGED cont
  /\ UNCHANGED <<ticket, taskRuns, retry, attempts, gate, jobName, ticketOf, jobs, slack,
                 locals, reports, abandoned, crashes>>

\* ... and an error on the way leaves it Running without one.
LaunchPreStart(h) ==
  LET r == cur[h]
      j == JobName(r, "base", 1)
  IN
  /\ pc[h] = "launchPreStart"
  /\ \/ CreateJob(j) /\ NameJob(r, j) /\ Goto(h, "mark")
     \/ LaunchFails(j) /\ Return(h, "idle") /\ UNCHANGED <<jobs, jobName>>
  /\ UNCHANGED <<ticket, taskRuns, state, counters, gate, ticketOf, slack, locals, ghosts>>

\* resolvePreMergeApproval asks for the transition to Succeeded.
ResolvePreMerge(h) ==
  /\ pc[h] = "preMerge"
  /\ \/ Refused(h, "Succeeded")
     \/ /\ Transition(cur[h], "Succeeded")
        /\ Goto(h, "reportComplete")
        /\ UNCHANGED <<cont, granted>>
  /\ UNCHANGED <<ticket, taskRuns, retry, attempts, gate, jobName, ticketOf, jobs, slack,
                 locals, reports, abandoned, crashes>>

\* resolveContinuationApproval: Running under the old Job name ...
ResolveContinuation(h) ==
  /\ pc[h] = "continuation"
  /\ \/ Refused(h, "Running")
     \/ /\ Transition(cur[h], "Running")
        /\ cont' = [cont EXCEPT ![cur[h]] = @ + 1]
        /\ Goto(h, "launchContinuation")
        /\ UNCHANGED granted
  /\ UNCHANGED <<ticket, taskRuns, retry, attempts, gate, jobName, ticketOf, jobs, slack,
                 locals, reports, abandoned, crashes>>

\* ... then the resume job; an error in between leaves it that way.
LaunchContinuationJob(h) ==
  LET r == cur[h]
      j == JobName(r, "continuation", cont[r])
  IN
  /\ pc[h] = "launchContinuation"
  /\ \/ CreateJob(j) /\ NameJob(r, j)
     \/ LaunchFails(j) /\ UNCHANGED <<jobs, jobName>>
  /\ Return(h, "idle")
  /\ UNCHANGED <<ticket, taskRuns, state, counters, gate, ticketOf, slack, locals, ghosts>>

ApprovalSteps(h) ==
  \/ RejectRun(h) \/ ResolvePreStart(h) \/ LaunchPreStart(h) \/ ResolvePreMerge(h)
  \/ ResolveContinuation(h) \/ LaunchContinuationJob(h) \/ FailRepoURLTaskRun(h)

-----------------------------------------------------------------------------
(* Kubernetes and the ticketing backend's users *)

JobEnds(j, status) ==
  /\ jobs[j] = "active"
  /\ jobs' = [jobs EXCEPT ![j] = status]
  /\ UNCHANGED <<ticket, taskRuns, runVars, slack, control, locals, ghosts>>

\* RequeueTicket, refused while the ticket is running.
RequeueTicket(t) ==
  /\ "requeue" \in Features /\ HeapRoom
  /\ ticket[t] \in {"succeeded", "failed"}
  /\ ticket' = [ticket EXCEPT ![t] = "idle"]
  /\ UNCHANGED <<taskRuns, runVars, jobs, slack, control, locals, ghosts>>

-----------------------------------------------------------------------------
LoopNext ==
  \/ LoopPoll \/ LoopReap \/ LoopDone
  \/ \E t \in Tickets : LoopTicket(t)
  \/ \E r \in Runs : CheckJobStatus(r)
  \/ ProcessTicketSteps(Loop) \/ HandleJobComplete \/ HandleJobFailed(Loop) \/ Report(Loop)

DogNext ==
  \/ WatchdogTick \/ WatchdogDone
  \/ \E r \in Runs : WatchdogCheck(r)
  \/ HandleJobFailed(Dog) \/ Report(Dog)

\* What a goroutine started by a request does once it is running.
HookSteps(h) == ProcessTicketSteps(h) \/ ApprovalSteps(h) \/ Report(h)

Requests(h) ==
  \/ \E t \in Tickets : WebhookTicket(h, t)
  \/ \E r \in Runs : ApprovalCallback(h, r) \/ RepoURLArrives(h, r) \/ RepoURLFails(h, r)

AnyJobEnds == \E j \in DOMAIN jobs, status \in {"complete", "failed"} : JobEnds(j, status)

Next ==
  \/ LoopNext \/ DogNext
  \/ \E h \in Hooks : HookSteps(h) \/ Requests(h)
  \/ AnyJobEnds \/ Crash
  \/ \E t \in Tickets : RequeueTicket(t)

Spec == Init /\ [][Next]_vars

\* The tickers keep the loops going, goroutines run to their end, and every Job
\* ends (its activeDeadlineSeconds sees to that).
Fairness == /\ WF_vars(LoopNext) /\ WF_vars(DogNext) /\ WF_vars(AnyJobEnds)
            /\ \A h \in Hooks : WF_vars(HookSteps(h))

FairSpec == Spec /\ Fairness

-----------------------------------------------------------------------------
(* Properties *)

RunTypes ==
  /\ ticket \in [Tickets -> {"idle", "running", "succeeded", "failed"}]
  /\ taskRuns \in [Tickets -> Runs \cup {NoRun}]
  /\ state \in [Runs -> States \cup {Unused}]
  /\ retry \in [Runs -> 0..MaxRetries]
  /\ attempts \in [Runs -> Nat \ {0}] /\ cont \in [Runs -> Nat]
  /\ gate \in [Runs -> GateTypes \cup {"none"}]
  /\ jobName \in [Runs -> JobNames \cup {NoJob}]
  /\ ticketOf \in [Runs -> Tickets \cup {NoTicket}]
  /\ DOMAIN jobs \subseteq JobNames
  /\ \A j \in DOMAIN jobs : jobs[j] \in {"active", "complete", "failed"}
  /\ asked \subseteq Runs /\ polling \subseteq Runs
  /\ pc \in [Threads -> PCs]
  /\ cur \in [Threads -> Runs \cup {NoRun}]
  /\ tk \in [Threads -> Tickets \cup {NoTicket}]
  /\ queue \subseteq Tickets
  /\ todo \in [{Loop, Dog} -> SUBSET Runs]
  /\ reports \in [Runs -> Nat]
  /\ granted \subseteq Runs /\ abandoned \subseteq Runs /\ crashes \in 0..MaxCrashes

\* Every variable stays within its type, and no retry exceeds the budget.
TypeOK == RunTypes /\ active \in Nat

\* The ticketing backend hears of the outcome of a run once, whichever of the
\* goroutines that handle the run decides it (handleJobComplete, handleJobFailed,
\* ResolveApproval).
OneOutcome == \A r \in Runs : reports[r] <= 1

\* The reconcile loop never has more runs under way than
\* guardrails.max_concurrent_jobs, however its count of the active ones goes
\* stale between activeJobCount and the launches of one reconcileOnce.
SlotLimit == Cardinality(Counted) <= MaxConcurrentJobs

\* Every live Job is the one its run names, and the run is registered and
\* Running, so that checkRunningJobs will notice the end of it.
LiveJobsAreTracked ==
  \A j \in DOMAIN jobs : jobs[j] = "active" =>
    LET r == j[1] IN Registered(r) /\ state[r] = "Running" /\ jobName[r] = j

\* A Retrying run has a goroutine on its way to relaunch it, unless its relaunch
\* returned early: nothing else moves a run out of Retrying, and checkRunningJobs
\* does not look at it.
RetryingIsOnItsWay ==
  \A r \in Runs : Registered(r) /\ state[r] = "Retrying" /\ r \notin abandoned =>
    \E th \in {Loop, Dog} : cur[th] = r /\ pc[th] \in {"fallback", "retry"}

\* Jobs ever started for one run, over fallbacks, retries and continuations.
JobBudget ==
  \A r \in Runs : Cardinality({j \in DOMAIN jobs : j[1] = r}) <=
                    ChainLen + MaxRetries + MaxContinuations

\* The names under which launchFallbackJob and launchRetryJob create the next Job of
\* a run are new ("to avoid K8s name collisions"), so Create does not refuse them
\* because of an earlier attempt.
RelaunchNamesAreNew ==
  \A th \in {Loop, Dog} :
    /\ pc[th] = "retry" => JobName(cur[th], "retry", retry[cur[th]]) \notin DOMAIN jobs
    /\ pc[th] = "fallback" => JobName(cur[th], "fallback", attempts[cur[th]]) \notin DOMAIN jobs

\* shouldPromptContinuation's limit holds for the approvals that follow it.
ContinuationBudget == \A r \in Runs : cont[r] <= MaxContinuations

\* Once the backend knows the outcome of a ticket's run and no goroutine is still
\* busy with it, the ticket is not left "running" (where no poll finds it).
SettledTicketIsClosed ==
  \A t \in Tickets :
    LET r == taskRuns[t] IN
    r # NoRun /\ reports[r] > 0 /\ (\A th \in Threads : cur[th] # r)
      => ticket[t] # "running"

\* With the pre_start gate, no Job of a run exists before a human approved it, for
\* tickets that came with their repository (the answer of pollRepoURL passes no gate).
StartsAreApproved ==
  "pre_start" \in Gates =>
    \A j \in DOMAIN jobs : ticketOf[j[1]] \notin NoRepo => j[1] \in granted

\* A ticket the guard rails refuse never gets a Job, whether its repository is
\* known to ProcessTicket or typed into Slack later (pollRepoURL).
RefusedTicketsNeverRun == \A j \in DOMAIN jobs : ticketOf[j[1]] \notin Rejected

\* An approval at the pre_merge gate completes the run (ResolveApproval).
PreMergeApprovalCompletes ==
  [][\A h \in Hooks :
       pc[h] = "preMerge" /\ pc'[h] # "preMerge" /\ state[cur[h]] = "NeedsHuman"
         => state'[cur[h]] = "Succeeded"]_vars

\* No ticket is worked on by two runs at once (the idempotency key).
OneLiveRunPerTicket ==
  \A i, j \in DOMAIN jobs :
    jobs[i] = "active" /\ jobs[j] = "active" /\ ticketOf[i[1]] = ticketOf[j[1]]
      => i[1] = j[1]

\* Every ticket reaches an outcome: the loop picks it up, however many tickets
\* compete for the slots, and each failed attempt is followed by another one or
\* by the report.
TicketSettles == \A t \in Tickets : <>(ticket[t] \in {"succeeded", "failed"})

\* The abstract specification, with the runs' state and retry count as they are.
Lifecycle == INSTANCE RunLifecycle WITH Runs <- Runs, state <- state, retry <- retry

\* Whatever the goroutines interleave, each run moves along validTransitions only,
\* and is relaunched and exhausted the way RunLifecycle says.
LifecycleSpec == Lifecycle!Spec
=============================================================================
