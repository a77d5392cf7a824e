------------------------------ MODULE Watchdog ------------------------------
(***************************************************************************)
(* The watchdog of one TaskRun: telemetry fed from the agent's events, the *)
(* heartbeat built from it at every check, the rules, and the counting of  *)
(* consecutive ticks.  Time counts check intervals.                        *)
(***************************************************************************)
EXTENDS Integers, Sequences, FiniteSets, SequencesExt

CONSTANTS
  Tools,          \* tool names the agent may call
  Rules,          \* the thresholds: [loop, thrash, stall, velocity, maxCost, human -> Nat]
  MinTicks,       \* min_consecutive_ticks
  Grace,          \* research_grace_period_minutes
  CostReports,    \* tokens and cost an event may report: pairs
  MaxCalls, MaxJobs   \* bounds: the agent's tool calls, and its attempts

VARIABLES
  wstate, job,           \* the run's state, its attempt
  age, waited,           \* time since CreatedAt and since UpdatedAt, as far as it matters
  tele,                  \* TaskRun's telemetry fields
  beat,                  \* r.heartbeats: the heartbeat of the previous check
  ticks,                 \* w.ticks: the reason seen last and how often in a row
  checks,                \* reasons the last MinTicks checks of the run found
  acted                  \* the last confirmed anomaly: its reason, action and evidence

watchVars == <<wstate, job, age, waited, tele, beat, ticks, checks, acted>>

NoBeat == [calls |-> -1, same |-> 0, tokens |-> 0, cost |-> 0]
NoTicks == [code |-> "none", n |-> 0]
NoAct == [code |-> "none", action |-> "none", saw |-> <<>>]

WatchInit ==
  /\ wstate = "Running" /\ job = 1 /\ age = 0 /\ waited = 0
  /\ tele = [calls |-> 0, last |-> "none", same |-> 0, tokens |-> 0, cost |-> 0]
  /\ beat = NoBeat /\ ticks = NoTicks
  /\ checks = <<>> /\ acted = NoAct

-----------------------------------------------------------------------------
(* The rules: the reason code each finds in the heartbeat cur, given the one before *)

\* A heartbeat is stored at every check, so that two of them are one interval apart.
Elapsed == 1

\* No rule sees files change: tr.FilesChanged is written nowhere.
CheckLoop(cur) == Rules.loop > 0 /\ cur.same >= Rules.loop

CheckThrashing(cur, prev) ==
  /\ Rules.thrash > 0
  /\ cur.tokens - (IF prev = NoBeat THEN 0 ELSE prev.tokens) >= Rules.thrash

CheckStall(cur, prev) ==
  /\ Rules.stall > 0 /\ prev # NoBeat
  /\ cur.calls <= prev.calls /\ Elapsed >= Rules.stall

\* costDelta / elapsed.Minutes() * 10 > MaxUSDPer10Minutes
CheckCostVelocity(cur, prev) ==
  /\ Rules.velocity > 0 /\ prev # NoBeat
  /\ (cur.cost - prev.cost) * 10 > Rules.velocity * Elapsed

CheckTotalCost(cur) == Rules.maxCost > 0 /\ cur.cost > Rules.maxCost

InGrace == age < Grace

EvaluateRunningRules(cur, prev) ==
  IF CheckLoop(cur) THEN "loop"
  ELSE IF ~InGrace /\ CheckThrashing(cur, prev) THEN "thrashing"
  ELSE IF CheckStall(cur, prev) THEN "stall"
  ELSE IF CheckCostVelocity(cur, prev) THEN "cost_velocity"
  ELSE IF CheckTotalCost(cur) THEN "total_cost" ELSE "none"

EvaluateNeedsHumanRules ==
  IF Rules.human > 0 /\ waited > Rules.human THEN "unanswered_human" ELSE "none"

EvaluateRules(cur, prev) ==
  IF wstate = "Running" THEN EvaluateRunningRules(cur, prev) ELSE EvaluateNeedsHumanRules

\* The default actions; thrashing is only warned of until it has been confirmed once.
ActionOf(code) ==
  IF code = "cost_velocity" THEN "warn"
  ELSE IF code = "thrashing" /\ ~(ticks.code = code /\ ticks.n >= MinTicks) THEN "warn"
  ELSE "terminate"

\* Variants of the count: a clean check does not end a row; every check starts one.
CountAcrossGaps(code) ==
  IF code = "none" THEN ticks
  ELSE [code |-> code, n |-> IF ticks.code = code THEN ticks.n + 1 ELSE 1]
CountOne(code) == IF code = "none" THEN NoTicks ELSE [code |-> code, n |-> 1]
CountTicks(code) ==
  IF code = "none" THEN NoTicks
  ELSE [code |-> code, n |-> IF ticks.code = code THEN ticks.n + 1 ELSE 1]

-----------------------------------------------------------------------------
(* Actions *)

BuildHeartbeat ==
  [calls |-> tele.calls, same |-> tele.same, tokens |-> tele.tokens,
   cost |-> tele.cost]

\* handleJobFailed of a terminated run: a relaunch keeps the telemetry, the heartbeat
\* and the ticks; a final failure drops the heartbeat.
Terminate(code) ==
  /\ waited' = 0
  /\ IF job < MaxJobs
     THEN wstate' = "Running" /\ job' = job + 1
     ELSE wstate' = "Failed" /\ UNCHANGED job

\* runWatchdogCheck and Watchdog.Check, at every tick of the watchdog's loop.
RunWatchdogCheck ==
  LET cur == BuildHeartbeat
      code == EvaluateRules(cur, beat)
      seen == Append(checks, code)
      confirmed == code # "none" /\ CountTicks(code).n >= MinTicks
      act == ActionOf(code)
      kill == confirmed /\ act = "terminate"
  IN /\ wstate \in {"Running", "NeedsHuman"}
     /\ age' = Min({age + 1, Grace})
     /\ ticks' = LET t == CountTicks(code) IN [t EXCEPT !.n = Min({@, MinTicks + 1})]
     /\ checks' = IF Len(seen) > MinTicks THEN Tail(seen) ELSE seen
     /\ acted' = IF confirmed THEN [code |-> code, action |-> act, saw |-> checks']
                 ELSE acted
     /\ IF kill THEN Terminate(code)
        ELSE waited' = Min({waited + 1, Rules.human + 1}) /\ UNCHANGED <<wstate, job>>
     /\ beat' = IF kill /\ job = MaxJobs THEN NoBeat ELSE cur
     /\ UNCHANGED tele

\* ConsumeStreamEvent
ConsumeToolCall(t) ==
  /\ wstate = "Running" /\ tele.calls < MaxCalls
  /\ tele' = [tele EXCEPT !.calls = @ + 1, !.last = t,
                          !.same = IF tele.last = t THEN @ + 1 ELSE 1]
  /\ UNCHANGED <<wstate, job, age, waited, beat, ticks, checks, acted>>

\* What the event says, whatever was said before: a new attempt counts from zero.
ConsumeCost(tokens, cost) ==
  /\ wstate = "Running"
  /\ tele' = [tele EXCEPT !.tokens = tokens, !.cost = cost]
  /\ UNCHANGED <<wstate, job, age, waited, beat, ticks, checks, acted>>

AskHuman ==
  /\ wstate = "Running" /\ wstate' = "NeedsHuman" /\ waited' = 0
  /\ UNCHANGED <<job, age, tele, beat, ticks, checks, acted>>

HumanAnswers ==
  /\ wstate = "NeedsHuman" /\ wstate' = "Running" /\ waited' = 0
  /\ UNCHANGED <<job, age, tele, beat, ticks, checks, acted>>

WatchNext ==
  \/ RunWatchdogCheck
  \/ \E t \in Tools : ConsumeToolCall(t)
  \/ \E c \in CostReports : ConsumeCost(c[1], c[2])
  \/ AskHuman \/ HumanAnswers

WatchSpec == WatchInit /\ [][WatchNext]_watchVars


-----------------------------------------------------------------------------
(* Properties *)

\* Nothing is confirmed on the evidence of one check: a reason must have been found by
\* the last MinTicks checks, without a gap (Check, MinConsecutiveTicks).
AnomaliesPersist ==
  acted.code # "none" =>
    Len(acted.saw) = MinTicks /\ \A i \in DOMAIN acted.saw : acted.saw[i] = acted.code

\* A run whose agent repeats one tool call for ever does not stay that way.
LoopingEnds ==
  wstate = "Running" /\ tele.same >= Rules.loop
    ~> wstate # "Running" \/ tele.same < Rules.loop \/ job > 1
=============================================================================
