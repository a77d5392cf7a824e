---------------------------- MODULE Limits_proofs ---------------------------
(***************************************************************************)
(* What is counted: the runs under way stay within                         *)
(* guardrails.max_concurrent_jobs without ticketing webhooks, and the Jobs *)
(* of a run within its budget.                                             *)
(***************************************************************************)
EXTENDS Jobs_proofs, FiniteSetTheorems

USE DEF Threads, Goto, Enter, Return, AfterTicket, AfterJob

Unseen == {Unused, "Queued"}

\* What reconcileOnce relies on: it is the only goroutine that registers runs, and
\* its count bounds the runs under way while it goes through the tickets, although
\* the other goroutines change those runs all along.
SlotInv ==
  /\ \A th \in Threads \ {Loop} : pc[th] # "admit"
  /\ \A t \in Tickets : taskRuns[t] # NoRun => state[taskRuns[t]] \notin Unseen
  /\ Cardinality(Counted) <= MaxConcurrentJobs
  /\ pc[Loop] = "tickets" => Cardinality(Counted) <= active
  /\ pc[Loop] = "admit" => Cardinality(Counted) <= active /\ active < MaxConcurrentJobs
  /\ pc[Loop] = "mark" => Cardinality(Counted) <= active + 1 /\ active < MaxConcurrentJobs

LEMMA CountedIsFinite == IsFiniteSet(Counted) /\ Cardinality(Counted) \in Nat
  BY FiniteAssumption, FS_Subset, FS_CardinalityType DEF Counted

\* activeJobCount finds a number, and the loop only adds to it.
LEMMA ActiveIsCount ==
  ASSUME active \in Nat, [Next]_vars
  PROVE  active' \in Nat
<1> USE DEF locals
<1>1. active' \in {active, active + 1, 0, Cardinality(Counted)}
  <2>1. CASE LoopPoll \/ LoopReap \/ LoopDone \/ \E r \in Runs : CheckJobStatus(r)
    BY <2>1, Zenon DEF LoopPoll, LoopReap, LoopDone, CheckJobStatus
  <2>2. ASSUME NEW th \in Threads, ProcessTicketSteps(th) \/ \E t \in Tickets : ProcessTicket(th, t)
        PROVE  active' \in {active, active + 1}
    BY <2>2, Zenon DEF ProcessTicketSteps, ProcessTicket, RefuseTicket, RefuseNoRepo,
         MarkInProgress, StartRepoURLPoll, HoldForStart, HoldNewRun, LaunchTaskRun,
         CountTicket
  <2>3. CASE HandleJobComplete
    BY <2>3, Zenon DEF HandleJobComplete, PromptContinuation, HoldForMerge,
         HoldCompletedRun, ReviewRejects, JobSucceeded
  <2>4. ASSUME NEW th \in Threads, HandleJobFailed(th) \/ Report(th)
        PROVE  active' \in {active, 0}
    BY <2>4, Zenon DEF HandleJobFailed, JobFailed, FailureIgnored, FallBack, Retry, GiveUp,
         Report, LaunchFallbackJob, LaunchRetryJob, Relaunch, FallBackPanics, Die
  <2>5. CASE WatchdogTick \/ WatchdogDone \/ \E r \in Runs : WatchdogCheck(r)
    BY <2>5, Zenon DEF WatchdogTick, WatchdogDone, WatchdogCheck
  <2>6. ASSUME NEW h \in Hooks, ApprovalSteps(h)
        PROVE  active' = active
    BY <2>6, Zenon DEF ApprovalSteps, RejectRun, ResolvePreStart, LaunchPreStart,
         ResolvePreMerge, ResolveContinuation, LaunchContinuationJob, FailRepoURLTaskRun,
         Refused
  <2>7. ASSUME NEW h \in Hooks, NEW r \in Runs,
               ApprovalCallback(h, r) \/ RepoURLArrives(h, r) \/ RepoURLFails(h, r)
        PROVE  active' = active
    BY <2>7, Zenon DEF ApprovalCallback, RepoURLArrives, RepoURLFails, ResolveApproval
  <2>8. CASE AnyJobEnds \/ Crash \/ (\E t \in Tickets : RequeueTicket(t)) \/ UNCHANGED vars
    BY <2>8, Zenon DEF AnyJobEnds, JobEnds, Crash, Die, RequeueTicket, vars
  <2>9. QED
    BY <2>1, <2>2, <2>3, <2>4, <2>5, <2>6, <2>7, <2>8
    DEF Next, LoopNext, LoopTicket, DogNext, HookSteps, Requests, WebhookTicket
<1>2. QED
  BY <1>1, CountedIsFinite

\* Every variable keeps its type, the loop's count of the active runs included.
THEOREM TypesHold == Spec => []TypeOK
<1>1. Init => active \in Nat
  BY DEF Init
<1>2. active \in Nat /\ [Next]_vars => (active \in Nat)'
  BY ActiveIsCount
<1>3. TypeInv /\ active \in Nat => TypeOK
  BY DEF TypeInv, TypeOK
<1>4. QED
  BY <1>1, <1>2, <1>3, TypeCorrect, PTL DEF Spec

\* What the leaves below need of the types.
LEMMA SlotTypes ==
  ASSUME TypeInv
  PROVE pc \in [Threads -> PCs]
  BY DEF TypeInv, RunTypes

LEMMA SlotMaps ==
  ASSUME TypeInv
  PROVE /\ DOMAIN state = Runs /\ state = [r \in Runs |-> state[r]]
        /\ DOMAIN taskRuns = Tickets /\ taskRuns = [t \in Tickets |-> taskRuns[t]]
        /\ DOMAIN ticketOf = Runs /\ ticketOf = [r \in Runs |-> ticketOf[r]]
  BY DEF TypeInv, RunTypes

\* A registered run stays seen, and a terminal one terminal.
LEMMA RunsGoForward ==
  ASSUME TypeInv, LifecycleStep, NEW r \in Runs
  PROVE /\ state[r] \notin Unseen => state'[r] \notin Unseen
        /\ Terminal(r) => Terminal(r)'
<1> USE MaxRetriesAssumption DEF TypeInv, RunTypes, Unseen, Unused, Terminal, IsTerminal
<1>1. ASSUME NEW q \in Runs, Lifecycle!Create(q)
      PROVE /\ state[r] \notin Unseen => state'[r] \notin Unseen
            /\ Terminal(r) => Terminal(r)'
  BY <1>1, Zenon DEF Lifecycle!Create, Lifecycle!Unused
<1>2. ASSUME NEW q \in Runs, Lifecycle!Advance(q)
      PROVE /\ state[r] \notin Unseen => state'[r] \notin Unseen
            /\ Terminal(r) => Terminal(r)'
  BY <1>2, SameTable, TableFacts DEF Lifecycle!Advance, States
<1>3. ASSUME NEW q \in Runs, Lifecycle!Relaunch(q)
      PROVE /\ state[r] \notin Unseen => state'[r] \notin Unseen
            /\ Terminal(r) => Terminal(r)'
  BY <1>3, SameTable, TableFacts DEF Lifecycle!Relaunch
<1>4. ASSUME NEW q \in Runs, Lifecycle!Exhaust(q)
      PROVE /\ state[r] \notin Unseen => state'[r] \notin Unseen
            /\ Terminal(r) => Terminal(r)'
  BY <1>4, SameTable, TableFacts DEF Lifecycle!Exhaust
<1>5. QED
  BY <1>1, <1>2, <1>3, <1>4, Zenon DEF LifecycleStep, Lifecycle!Next

\* Only a run that is newly registered can add to the ones counted.
LEMMA CountedGrowsBy ==
  ASSUME TypeInv, TypeInv', SlotInv, LifecycleStep, NEW new \in SUBSET Runs,
         \A r \in Runs : ticketOf'[r] = ticketOf[r] \/ state[r] = Unused,
         \A t \in Tickets : taskRuns'[t] \in {taskRuns[t], NoRun} \cup new,
         \A r \in new : state'[r] \notin Unseen
  PROVE /\ Counted' \subseteq Counted \cup new
        /\ \A t \in Tickets : taskRuns'[t] # NoRun => state'[taskRuns'[t]] \notin Unseen
<1>1. ASSUME NEW r \in Counted', r \notin new PROVE r \in Counted
  <2>1. r \in Runs /\ ticketOf'[r] \in Tickets /\ taskRuns'[ticketOf'[r]] = r
    BY <1>1 DEF Counted, Registered
  <2>2. taskRuns[ticketOf'[r]] = r
    BY <1>1, <2>1, ConfigAssumption
  <2>3. state[r] \notin Unseen
    BY <2>1, <2>2, ConfigAssumption, Zenon DEF SlotInv
  <2>4. ~Terminal(r)
    BY <1>1, <2>1, RunsGoForward DEF Counted
  <2>5. QED
    BY <2>1, <2>2, <2>3, <2>4 DEF Counted, Registered, Unseen
<1>2. ASSUME NEW t \in Tickets, taskRuns'[t] # NoRun PROVE state'[taskRuns'[t]] \notin Unseen
  BY <1>2, RunsGoForward DEF SlotInv, TypeInv, RunTypes
<1>3. QED
  BY <1>1, <1>2

-----------------------------------------------------------------------------
(* Steps that register nothing *)

SlotQuiet ==
  /\ UNCHANGED ticketOf
  /\ \A t \in Tickets : taskRuns'[t] \in {taskRuns[t], NoRun}
  /\ \A th \in Threads \ {Loop} : pc'[th] # "admit"
  /\ pc'[Loop] \in {"tickets", "admit", "mark"} => pc'[Loop] = pc[Loop] /\ active' = active

LEMMA QuietKeepsSlots ==
  ASSUME TypeInv, TypeInv', active \in Nat, SlotInv, LifecycleStep, SlotQuiet
  PROVE SlotInv'
<1>1. /\ Counted' \subseteq Counted
      /\ \A t \in Tickets : taskRuns'[t] # NoRun => state'[taskRuns'[t]] \notin Unseen
  <2>1. /\ {} \in SUBSET Runs
        /\ \A r \in Runs : ticketOf'[r] = ticketOf[r] \/ state[r] = Unused
        /\ \A t \in Tickets : taskRuns'[t] \in {taskRuns[t], NoRun} \cup {}
        /\ \A r \in {} : state'[r] \notin Unseen
    BY DEF SlotQuiet
  <2>2. /\ Counted' \subseteq Counted \cup {}
        /\ \A t \in Tickets : taskRuns'[t] # NoRun => state'[taskRuns'[t]] \notin Unseen
    BY <2>1, CountedGrowsBy, Zenon
  <2>3. QED
    BY <2>2
<1>2. Cardinality(Counted') <= Cardinality(Counted) /\ Cardinality(Counted') \in Nat
  BY <1>1, CountedIsFinite, FS_Subset, FS_CardinalityType
<1>3. QED
  BY <1>1, <1>2, CountedIsFinite, SlotTypes, ConfigAssumption DEF SlotInv, SlotQuiet

\* Everything but ProcessTicket and LoopPoll.
LEMMA FailedIsQuiet ==
  ASSUME TypeInv, SlotInv, NEW th \in {Loop, Dog}, HandleJobFailed(th)
  PROVE SlotQuiet
<1>0. pc \in [Threads -> PCs]
  BY SlotTypes
<1> USE <1>0, ConfigAssumption DEF SlotInv, SlotQuiet, locals
<1>1. CASE JobFailed(th)
  BY <1>1, Zenon DEF JobFailed, runVars
<1>2. CASE FailureIgnored(th)
  BY <1>2, Zenon DEF FailureIgnored
<1>3. CASE FallBack(th) \/ Retry(th)
  BY <1>3, Zenon DEF FallBack, Retry
<1>4. CASE GiveUp(th)
  BY <1>4, Zenon DEF GiveUp
<1>5. ASSUME NEW n, NEW kind \in {"fallback", "retry"}, Relaunch(th, kind, n)
      PROVE SlotQuiet
  BY <1>5, Zenon DEF Relaunch
<1>6. CASE FallBackPanics(th)
  BY <1>6, Zenon DEF FallBackPanics, Die, runVars
<1>7. QED
  BY <1>1, <1>2, <1>3, <1>4, <1>5, <1>6
  DEF HandleJobFailed, LaunchFallbackJob, LaunchRetryJob

LEMMA LoopsAreQuiet ==
  ASSUME TypeInv, SlotInv,
         \/ LoopReap \/ LoopDone \/ WatchdogTick \/ WatchdogDone
         \/ \E r \in Runs : CheckJobStatus(r) \/ WatchdogCheck(r)
         \/ HandleJobComplete
  PROVE SlotQuiet
<1>0. pc \in [Threads -> PCs]
  BY SlotTypes
<1> USE <1>0, ConfigAssumption DEF SlotInv, SlotQuiet, locals, runVars, control
<1>1. CASE LoopReap \/ LoopDone
  BY <1>1, Zenon DEF LoopReap, LoopDone
<1>2. CASE WatchdogTick \/ WatchdogDone
  BY <1>2, Zenon DEF WatchdogTick, WatchdogDone
<1>3. ASSUME NEW r \in Runs, CheckJobStatus(r) PROVE SlotQuiet
  BY <1>3, Zenon DEF CheckJobStatus
<1>4. ASSUME NEW r \in Runs, WatchdogCheck(r) PROVE SlotQuiet
  BY <1>4 DEF WatchdogCheck
<1>5. CASE PromptContinuation \/ HoldForMerge
  BY <1>5, Zenon DEF PromptContinuation, HoldForMerge, HoldCompletedRun
<1>6. CASE ReviewRejects \/ JobSucceeded
  BY <1>6, Zenon DEF ReviewRejects, JobSucceeded
<1>7. QED
  BY <1>1, <1>2, <1>3, <1>4, <1>5, <1>6 DEF HandleJobComplete

LEMMA ReportIsQuiet ==
  ASSUME TypeInv, SlotInv, NEW th \in Threads, Report(th)
  PROVE SlotQuiet
  BY SlotTypes, ConfigAssumption, Zenon DEF Report, SlotInv, SlotQuiet, locals, runVars

LEMMA HooksAreQuiet ==
  ASSUME "webhooks" \notin Features, TypeInv, SlotInv, NEW h \in Hooks,
         Requests(h) \/ ApprovalSteps(h)
  PROVE SlotQuiet
<1>0. pc \in [Threads -> PCs]
  BY SlotTypes
<1> USE <1>0, ConfigAssumption DEF SlotInv, SlotQuiet, locals, runVars, control
<1>1. ASSUME NEW r \in Runs, NEW approved \in BOOLEAN, ResolveApproval(h, r, approved)
      PROVE SlotQuiet
  BY <1>1, Zenon DEF ResolveApproval, Resolver
<1>2. ASSUME NEW r \in Runs, RepoURLFails(h, r) PROVE SlotQuiet
  BY <1>2, Zenon DEF RepoURLFails
<1>3. CASE Requests(h)
  <2>1. ASSUME NEW r \in Runs, ApprovalCallback(h, r) \/ RepoURLArrives(h, r)
        PROVE \E approved \in BOOLEAN : ResolveApproval(h, r, approved)
    BY <2>1, Zenon DEF ApprovalCallback, RepoURLArrives
  <2> HIDE DEF SlotQuiet, SlotInv
  <2>2. QED
    BY <1>1, <1>2, <1>3, <2>1 DEF Requests, WebhookTicket
<1>4. CASE RejectRun(h) \/ ResolvePreStart(h)
  BY <1>4, Zenon DEF RejectRun, ResolvePreStart, Refused
<1>5. CASE ResolvePreMerge(h) \/ ResolveContinuation(h)
  BY <1>5, Zenon DEF ResolvePreMerge, ResolveContinuation, Refused
<1>6. CASE LaunchPreStart(h)
  BY <1>6, Zenon DEF LaunchPreStart
<1>7. CASE LaunchContinuationJob(h)
  BY <1>7, Zenon DEF LaunchContinuationJob
<1>8. CASE FailRepoURLTaskRun(h)
  BY <1>8, Zenon DEF FailRepoURLTaskRun
<1>9. QED
  BY <1>3, <1>4, <1>5, <1>6, <1>7, <1>8 DEF ApprovalSteps

-----------------------------------------------------------------------------
(* reconcileOnce *)

\* How the loop moves on, with or without counting a ticket.
CountMoves ==
  pc'[Loop] \in {"tickets", "admit", "mark"} =>
    \/ pc'[Loop] = pc[Loop] /\ active' = active
    \/ pc[Loop] = "tickets" /\ pc'[Loop] = "tickets" /\ active' = active + 1
    \/ /\ pc[Loop] = "tickets" /\ pc'[Loop] = "admit"
       /\ active' = active /\ active < MaxConcurrentJobs
    \/ pc[Loop] \in {"admit", "mark"} /\ pc'[Loop] = "tickets" /\ active' = active + 1
    \/ pc[Loop] = "admit" /\ pc'[Loop] = "tickets" /\ active' = active

LEMMA CountMovesKeepSlots ==
  ASSUME active \in Nat, SlotInv, UNCHANGED <<taskRuns, state>>, Counted' = Counted,
         \A th \in Threads \ {Loop} : pc'[th] # "admit", CountMoves
  PROVE SlotInv'
<1>1. \A t \in Tickets : taskRuns'[t] # NoRun => state'[taskRuns'[t]] \notin Unseen
  BY DEF SlotInv
<1>2. /\ Cardinality(Counted') = Cardinality(Counted) /\ Cardinality(Counted) \in Nat
      /\ MaxConcurrentJobs \in Nat
  BY CountedIsFinite, ConfigAssumption
<1>3. /\ pc'[Loop] = "tickets" => Cardinality(Counted') <= active'
      /\ pc'[Loop] = "admit" => Cardinality(Counted') <= active' /\ active' < MaxConcurrentJobs
      /\ pc'[Loop] = "mark" =>
           Cardinality(Counted') <= active' + 1 /\ active' < MaxConcurrentJobs
  BY <1>2 DEF SlotInv, CountMoves
<1>4. QED
  BY <1>1, <1>2, <1>3, Zenon DEF SlotInv

LEMMA SameCountKeepsSlots ==
  ASSUME TypeInv, active \in Nat, SlotInv, UNCHANGED <<taskRuns, state>>, Counted' = Counted,
         \/ /\ pc[Loop] = "tickets" /\ active < MaxConcurrentJobs
            /\ \/ UNCHANGED pc /\ active' = active + 1
               \/ pc' = [pc EXCEPT ![Loop] = "admit"] /\ active' = active
         \/ /\ pc[Loop] \in {"admit", "mark"} /\ pc' = [pc EXCEPT ![Loop] = "tickets"]
            /\ active' = active + 1 \/ (pc[Loop] = "admit" /\ active' = active)
         \/ \E th \in Threads \ {Loop} : pc' = [pc EXCEPT ![th] = "idle"] /\ active' = active
  PROVE SlotInv'
<1>1. \A th \in Threads \ {Loop} : pc'[th] # "admit"
  BY SlotTypes, ConfigAssumption, Zenon DEF SlotInv
<1>2. CountMoves
  BY SlotTypes, ConfigAssumption DEF CountMoves
<1>3. QED
  BY <1>1, <1>2, SlotTypes, CountMovesKeepSlots

\* activeJobCount, and the tickets that need no new run.
LEMMA PollKeepsSlots ==
  ASSUME TypeInv, TypeInv', active \in Nat, SlotInv, LifecycleStep,
         LoopPoll \/ \E t \in Tickets : LoopTicket(t)
  PROVE SlotInv'
<1>1. UNCHANGED <<taskRuns, state, retry, ticketOf>>
  BY Zenon DEF LoopPoll, LoopTicket, ProcessTicket, runVars, counters
<1>2. Counted' = Counted
  BY <1>1 DEF Counted, Registered, Terminal
<1>3. CASE LoopPoll
  BY <1>1, <1>2, <1>3, CountedIsFinite, SlotTypes, ConfigAssumption DEF LoopPoll, SlotInv
<1>4. ASSUME NEW t \in Tickets, LoopTicket(t) PROVE SlotInv'
  <2>1. /\ pc[Loop] = "tickets" /\ active < MaxConcurrentJobs
        /\ \/ UNCHANGED pc /\ active' = active + 1
           \/ pc' = [pc EXCEPT ![Loop] = "admit"] /\ active' = active
    BY <1>4, Zenon DEF LoopTicket, ProcessTicket, control
  <2>2. QED
    BY <1>1, <1>2, <2>1, SameCountKeepsSlots
<1>5. QED
  BY <1>3, <1>4

\* One new run, for which the loop has counted a free slot.
LEMMA NewRunKeepsSlots ==
  ASSUME TypeInv, TypeInv', active \in Nat, SlotInv, LifecycleStep, NEW r \in Runs, r \in Unallocated,
         pc[Loop] = "admit",
         ticketOf' = [ticketOf EXCEPT ![r] = tk[Loop]],
         taskRuns' = [taskRuns EXCEPT ![tk[Loop]] = r],
         state'[r] \notin Unseen,
         \/ pc' = [pc EXCEPT ![Loop] = "tickets"] /\ active' = active + 1
         \/ pc' = [pc EXCEPT ![Loop] = "mark"] /\ active' = active
  PROVE SlotInv'
<1>1. /\ {r} \in SUBSET Runs
      /\ \A q \in Runs : ticketOf'[q] = ticketOf[q] \/ state[q] = Unused
      /\ \A t \in Tickets : taskRuns'[t] \in {taskRuns[t], NoRun} \cup {r}
      /\ \A q \in {r} : state'[q] \notin Unseen
  <2>1. \A q \in Runs : ticketOf'[q] = ticketOf[q] \/ state[q] = Unused
    BY SlotMaps DEF Unallocated
  <2>2. \A t \in Tickets : taskRuns'[t] \in {taskRuns[t], NoRun} \cup {r}
    BY SlotMaps
  <2>3. QED
    BY <2>1, <2>2
<1>2. /\ Counted' \subseteq Counted \cup {r}
      /\ \A t \in Tickets : taskRuns'[t] # NoRun => state'[taskRuns'[t]] \notin Unseen
  BY <1>1, CountedGrowsBy, Zenon
<1>3. IsFiniteSet(Counted \cup {r}) /\ Cardinality(Counted \cup {r}) <= Cardinality(Counted) + 1
  <2>1. /\ IsFiniteSet(Counted \cup {r})
        /\ Cardinality(Counted \cup {r}) =
             IF r \in Counted THEN Cardinality(Counted) ELSE Cardinality(Counted) + 1
    BY CountedIsFinite, FS_AddElement
  <2>2. QED
    BY <2>1, CountedIsFinite
<1>4. Cardinality(Counted') <= Cardinality(Counted) + 1 /\ Cardinality(Counted') \in Nat
  <2>1. /\ IsFiniteSet(Counted')
        /\ Cardinality(Counted') <= Cardinality(Counted \cup {r})
    BY <1>2, <1>3, FS_Subset
  <2>2. Cardinality(Counted') \in Nat /\ Cardinality(Counted \cup {r}) \in Nat
    BY <1>3, <2>1, FS_CardinalityType
  <2>3. QED
    BY <1>3, <2>1, <2>2, CountedIsFinite
<1>5. \A th \in Threads \ {Loop} : pc'[th] # "admit"
  BY SlotTypes, Zenon DEF SlotInv
<1>6. \/ pc'[Loop] = "tickets" /\ active' = active + 1
      \/ pc'[Loop] = "mark" /\ active' = active
  BY SlotTypes
<1>7. Cardinality(Counted) <= active /\ active < MaxConcurrentJobs
  BY DEF SlotInv
<1>8. QED
  BY <1>2, <1>4, <1>5, <1>6, <1>7, CountedIsFinite, SlotTypes, ConfigAssumption DEF SlotInv

\* A launch that failed registers nothing.
LEMMA FailedLaunchKeepsSlots ==
  ASSUME TypeInv, TypeInv', active \in Nat, SlotInv, LifecycleStep, NEW r \in Runs, r \in Unallocated,
         ticketOf' = [ticketOf EXCEPT ![r] = tk[Loop]], UNCHANGED <<taskRuns, active>>,
         pc[Loop] = "admit", pc' = [pc EXCEPT ![Loop] = "tickets"]
  PROVE SlotInv'
<1>1. /\ {} \in SUBSET Runs
      /\ \A q \in Runs : ticketOf'[q] = ticketOf[q] \/ state[q] = Unused
      /\ \A t \in Tickets : taskRuns'[t] \in {taskRuns[t], NoRun} \cup {}
      /\ \A q \in {} : state'[q] \notin Unseen
  BY SlotMaps DEF Unallocated
<1>2. /\ Counted' \subseteq Counted \cup {}
      /\ \A t \in Tickets : taskRuns'[t] # NoRun => state'[taskRuns'[t]] \notin Unseen
  BY <1>1, CountedGrowsBy, Zenon
<1>3. Cardinality(Counted') <= Cardinality(Counted) /\ Cardinality(Counted') \in Nat
  BY <1>2, CountedIsFinite, FS_Subset, FS_CardinalityType
<1>4. \A th \in Threads \ {Loop} : pc'[th] # "admit"
  BY SlotTypes DEF SlotInv
<1>5. pc'[Loop] = "tickets" /\ active' = active
  BY SlotTypes
<1>6. Cardinality(Counted) <= active /\ active < MaxConcurrentJobs
  BY DEF SlotInv
<1>7. QED
  BY <1>2, <1>3, <1>4, <1>5, <1>6, CountedIsFinite, SlotTypes, ConfigAssumption DEF SlotInv

LEMMA ProcessKeepsSlots ==
  ASSUME TypeInv, TypeInv', active \in Nat, SlotInv, LifecycleStep, NEW th \in Threads, ProcessTicketSteps(th)
  PROVE SlotInv'
<1>1. CASE RefuseTicket(th) \/ RefuseNoRepo(th) \/ MarkInProgress(th)
  <2>1. UNCHANGED <<taskRuns, state, retry, ticketOf>>
    BY <1>1, Zenon DEF RefuseTicket, RefuseNoRepo, MarkInProgress, runVars, counters
  <2>2. Counted' = Counted
    BY <2>1 DEF Counted, Registered, Terminal
  <2>3. CASE th = Loop
    <3>1. /\ pc[Loop] \in {"admit", "mark"} /\ pc' = [pc EXCEPT ![Loop] = "tickets"]
          /\ active' = active + 1 \/ (pc[Loop] = "admit" /\ active' = active)
      BY <1>1, <2>3, Zenon DEF RefuseTicket, RefuseNoRepo, MarkInProgress, CountTicket,
           locals
    <3>2. QED
      BY <2>1, <2>2, <3>1, SameCountKeepsSlots
  <2>4. CASE th # Loop
    <3>1. pc' = [pc EXCEPT ![th] = "idle"] /\ active' = active
      BY <1>1, <2>4, Zenon DEF RefuseTicket, RefuseNoRepo, MarkInProgress, CountTicket,
           locals
    <3>2. QED
      BY <2>1, <2>2, <2>4, <3>1, SameCountKeepsSlots, Zenon
  <2>5. QED
    BY <2>3, <2>4
<1>2. ASSUME NEW r \in Runs, NEW g, HoldNewRun(th, r, g) PROVE SlotInv'
  <2>1. th = Loop
    BY <1>2, Zenon DEF HoldNewRun, SlotInv
  <2>2. state'[r] \notin Unseen
    BY <1>2, SlotMaps DEF HoldNewRun, Unseen, Unused
  <2>3. QED
    <3>1. /\ r \in Unallocated /\ pc[Loop] = "admit"
          /\ ticketOf' = [ticketOf EXCEPT ![r] = tk[Loop]]
          /\ taskRuns' = [taskRuns EXCEPT ![tk[Loop]] = r]
          /\ pc' = [pc EXCEPT ![Loop] = "tickets"] /\ active' = active + 1
      BY <1>2, <2>1 DEF HoldNewRun, CountTicket
    <3>2. QED
      BY <2>2, <3>1, NewRunKeepsSlots, Zenon
<1>3. ASSUME NEW r \in Runs, LaunchTaskRun(th, r) PROVE SlotInv'
  <2>1. th = Loop /\ r \in Unallocated /\ pc[Loop] = "admit" /\ UNCHANGED active
    BY <1>3, Zenon DEF LaunchTaskRun, SlotInv, locals
  <2>2. ticketOf' = [ticketOf EXCEPT ![r] = tk[Loop]]
    BY <1>3, <2>1, Zenon DEF LaunchTaskRun
  <2>3. \/ /\ taskRuns' = [taskRuns EXCEPT ![tk[Loop]] = r]
           /\ state' = [state EXCEPT ![r] = "Running"]
           /\ pc' = [pc EXCEPT ![Loop] = "mark"]
        \/ UNCHANGED taskRuns /\ pc' = [pc EXCEPT ![Loop] = "tickets"]
    BY <1>3, <2>1, Zenon DEF LaunchTaskRun
  <2>4. CASE state' = [state EXCEPT ![r] = "Running"]
    <3>1. state'[r] \notin Unseen
      BY <2>4, SlotMaps DEF Unseen, Unused
    <3>2. QED
      BY <2>1, <2>2, <2>3, <3>1, NewRunKeepsSlots, FailedLaunchKeepsSlots, Zenon
  <2>5. QED
    BY <2>1, <2>2, <2>3, <2>4, FailedLaunchKeepsSlots, Zenon
<1>4. QED
  BY <1>1, <1>2, <1>3 DEF ProcessTicketSteps, StartRepoURLPoll, HoldForStart

\* The runs under way never exceed max_concurrent_jobs when tickets come from the
\* reconcile loop alone, although retries, approvals, the watchdog and crashes go
\* on between its count and its launches.
THEOREM SlotsAreLimited ==
  ASSUME "webhooks" \notin Features
  PROVE  Spec => []SlotLimit
<1>1. Init => SlotInv
  <2> SUFFICES ASSUME Init PROVE SlotInv
    OBVIOUS
  <2>1. Counted = {}
    BY ConfigAssumption DEF Init, Counted, Registered
  <2>2. Cardinality(Counted) = 0
    BY <2>1, FS_EmptySet
  <2>3. MaxConcurrentJobs \in Nat /\ 0 <= MaxConcurrentJobs
    BY ConfigAssumption
  <2>4. pc[Loop] = "idle" /\ \A th \in Threads : pc[th] # "admit"
    BY DEF Init
  <2>5. \A t \in Tickets : taskRuns[t] = NoRun
    BY DEF Init
  <2> HIDE DEF Counted
  <2>6. QED
    BY <2>2, <2>3, <2>4, <2>5 DEF SlotInv
<1>2. ASSUME TypeInv, TypeInv', active \in Nat, SlotInv, LifecycleStep, [Next]_vars PROVE SlotInv'
  <2>1. CASE AnyJobEnds \/ (\E t \in Tickets : RequeueTicket(t)) \/ UNCHANGED vars
    BY <1>2, <2>1, QuietKeepsSlots, Zenon
    DEF AnyJobEnds, JobEnds, RequeueTicket, vars, runVars, control, locals, SlotQuiet, SlotInv
  <2>2. CASE Crash
    BY <1>2, <2>2, QuietKeepsSlots DEF Crash, Die, runVars, SlotQuiet
  <2>3. CASE LoopNext
    BY <1>2, <2>3, PollKeepsSlots, ProcessKeepsSlots, FailedIsQuiet, LoopsAreQuiet,
       ReportIsQuiet, QuietKeepsSlots DEF LoopNext
  <2>4. CASE DogNext
    BY <1>2, <2>4, FailedIsQuiet, LoopsAreQuiet, ReportIsQuiet, QuietKeepsSlots DEF DogNext
  <2>5. ASSUME NEW h \in Hooks, HookSteps(h) \/ Requests(h) PROVE SlotInv'
    BY <1>2, <2>5, HooksAreQuiet, ProcessKeepsSlots, ReportIsQuiet, QuietKeepsSlots
    DEF HookSteps
  <2>6. QED
    BY <1>2, <2>1, <2>2, <2>3, <2>4, <2>5, Zenon DEF Next
<1>3. TypeInv /\ TypeInv' /\ TypeOK /\ SlotInv /\ [Next]_vars => SlotInv'
  BY <1>2, LifecycleNext DEF TypeOK
<1>4. SlotInv => SlotLimit
  BY DEF SlotInv, SlotLimit
<1>5. QED
  BY <1>1, <1>3, <1>4, TypeCorrect, TypesHold, PTL DEF Spec

-----------------------------------------------------------------------------
(* The Jobs of one run *)

LEMMA BudgetSize ==
  ASSUME NEW r
  PROVE  /\ IsFiniteSet(Budgeted(r))
         /\ Cardinality(Budgeted(r)) <= ChainLen + MaxRetries + MaxContinuations
<1> DEFINE B == {<<r, "base", 1>>}
           R == {<<r, "retry", n>> : n \in 1..MaxRetries}
           F == {<<r, "fallback", n>> : n \in 2..ChainLen}
           C == {<<r, "continuation", n>> : n \in 1..MaxContinuations}
<1>0. MaxRetries \in Nat /\ ChainLen \in Nat \ {0} /\ MaxContinuations \in Nat
  BY MaxRetriesAssumption, ConfigAssumption
<1>1. ASSUME NEW kind, NEW a \in Nat, NEW b \in Nat
      PROVE  /\ IsFiniteSet({<<r, kind, n>> : n \in a..b})
             /\ Cardinality({<<r, kind, n>> : n \in a..b}) \in Nat
             /\ Cardinality({<<r, kind, n>> : n \in a..b}) <= (IF a > b THEN 0 ELSE b - a + 1)
  <2> DEFINE T == {<<r, kind, n>> : n \in a..b}
             f == [n \in a..b |-> <<r, kind, n>>]
  <2>1. IsFiniteSet(a..b) /\ Cardinality(a..b) = IF a > b THEN 0 ELSE b - a + 1
    BY FS_Interval
  <2>2. f \in Surjection(a..b, T)
    BY Zenon DEF Surjection
  <2> HIDE DEF T, f
  <2>3. IsFiniteSet(T) /\ Cardinality(T) <= Cardinality(a..b)
    BY <2>1, <2>2, FS_Surjection
  <2>4. Cardinality(T) \in Nat
    BY <2>3, FS_CardinalityType
  <2>5. QED
    BY <2>1, <2>3, <2>4 DEF T
<1>2. IsFiniteSet(R) /\ Cardinality(R) <= MaxRetries
  <2>1. /\ IsFiniteSet(R) /\ Cardinality(R) \in Nat
        /\ Cardinality(R) <= (IF 1 > MaxRetries THEN 0 ELSE MaxRetries - 1 + 1)
    BY <1>0, <1>1, Zenon
  <2> HIDE DEF R
  <2>2. QED
    BY <1>0, <2>1
<1>3. IsFiniteSet(F) /\ Cardinality(F) <= ChainLen - 1
  <2>1. /\ IsFiniteSet(F) /\ Cardinality(F) \in Nat
        /\ Cardinality(F) <= (IF 2 > ChainLen THEN 0 ELSE ChainLen - 2 + 1)
    BY <1>0, <1>1, Zenon
  <2> HIDE DEF F
  <2>2. QED
    BY <1>0, <2>1
<1>4. IsFiniteSet(C) /\ Cardinality(C) <= MaxContinuations
  <2>1. /\ IsFiniteSet(C) /\ Cardinality(C) \in Nat
        /\ Cardinality(C) <= (IF 1 > MaxContinuations THEN 0 ELSE MaxContinuations - 1 + 1)
    BY <1>0, <1>1, Zenon
  <2> HIDE DEF C
  <2>2. QED
    BY <1>0, <2>1
<1>5. IsFiniteSet(B) /\ Cardinality(B) = 1
  BY FS_Singleton, Zenon
<1>6. Budgeted(r) = ((B \cup R) \cup F) \cup C
  BY DEF Budgeted
<1> HIDE DEF B, R, F, C
<1>7. ASSUME NEW S, NEW T, IsFiniteSet(S), IsFiniteSet(T)
      PROVE  /\ IsFiniteSet(S \cup T)
             /\ Cardinality(S \cup T) <= Cardinality(S) + Cardinality(T)
             /\ Cardinality(S \cup T) \in Nat /\ Cardinality(S) \in Nat /\ Cardinality(T) \in Nat
  <2>1. IsFiniteSet(S \cap T)
    BY <1>7, FS_Subset
  <2>2. /\ Cardinality(S \cap T) \in Nat /\ Cardinality(S) \in Nat /\ Cardinality(T) \in Nat
    BY <1>7, <2>1, FS_CardinalityType
  <2>3. /\ IsFiniteSet(S \cup T)
        /\ Cardinality(S \cup T) = Cardinality(S) + Cardinality(T) - Cardinality(S \cap T)
    BY <1>7, FS_Union
  <2>4. Cardinality(S \cup T) \in Nat
    BY <2>3, FS_CardinalityType
  <2>5. QED
    BY <2>2, <2>3, <2>4
<1>8. IsFiniteSet(B \cup R) /\ Cardinality(B \cup R) <= 1 + MaxRetries
  BY <1>0, <1>2, <1>5, <1>7
<1>9. IsFiniteSet((B \cup R) \cup F) /\ Cardinality((B \cup R) \cup F) <= MaxRetries + ChainLen
  BY <1>0, <1>3, <1>7, <1>8
<1>10. /\ IsFiniteSet(((B \cup R) \cup F) \cup C)
       /\ Cardinality(((B \cup R) \cup F) \cup C) <= ChainLen + MaxRetries + MaxContinuations
  <2> DEFINE D == (B \cup R) \cup F
  <2>1. IsFiniteSet(D) /\ Cardinality(D) <= MaxRetries + ChainLen
    BY <1>9
  <2> HIDE DEF D
  <2>2. /\ IsFiniteSet(D \cup C) /\ Cardinality(D \cup C) <= Cardinality(D) + Cardinality(C)
        /\ Cardinality(D \cup C) \in Nat /\ Cardinality(D) \in Nat /\ Cardinality(C) \in Nat
    BY <1>4, <1>7, <2>1, Zenon
  <2>3. QED
    BY <1>0, <1>4, <2>1, <2>2 DEF D
<1>11. QED
  BY <1>6, <1>10

\* The Jobs of one run never exceed its engines, retries and continuations
\* together, over fallbacks, restarts and relaunches that fail.  Answers are
\* resolved one at a time, and a diagnosis does not race with the watchdog for the
\* same run (a switched engine would be counted as a fallback).
THEOREM JobsAreLimited ==
  ASSUME \A g, h \in Hooks : g = h, "diagnosis" \notin Features \/ "watchdog" \notin Features
  PROVE  Spec => []JobBudget
<1>1. TypeInv /\ BudgetInv => JobBudget
  <2> SUFFICES ASSUME TypeInv, BudgetInv, NEW r \in Runs
               PROVE  Cardinality({j \in DOMAIN jobs : j[1] = r}) <=
                        ChainLen + MaxRetries + MaxContinuations
    BY DEF JobBudget
  <2> DEFINE mine == {j \in DOMAIN jobs : j[1] = r}
  <2>1. mine \subseteq Budgeted(r)
    BY DEF BudgetInv, JobsBudgeted
  <2> HIDE DEF mine
  <2>2. /\ Cardinality(mine) <= Cardinality(Budgeted(r)) /\ IsFiniteSet(mine)
        /\ IsFiniteSet(Budgeted(r))
        /\ Cardinality(Budgeted(r)) <= ChainLen + MaxRetries + MaxContinuations
    BY <2>1, BudgetSize, FS_Subset
  <2>3. Cardinality(mine) \in Nat /\ Cardinality(Budgeted(r)) \in Nat
    BY <2>2, FS_CardinalityType
  <2>4. QED
    BY <2>2, <2>3, ConfigAssumption, MaxRetriesAssumption DEF mine
<1>2. QED
  BY <1>1, TypeCorrect, JobsAreBudgeted, PTL
=============================================================================
