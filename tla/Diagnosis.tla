----------------------------- MODULE Diagnosis -----------------------------
(***************************************************************************)
(* What happens to a failed attempt of one run: the events kept for it,    *)
(* the diagnosis (internal/diagnosis, internal/controller/diagnosis.go)    *)
(* and the choice of handleJobFailed between the next engine, a retry and  *)
(* giving up.  The reconcile loop and the watchdog loop may both be        *)
(* handling the same failure.                                              *)
(***************************************************************************)
EXTENDS TaskRun, EngineSelector

CONSTANTS
  EngineLabels,     \* what an osmia:engine: label of the ticket may name, "" for no label
  RunEvents,        \* stream events: [tool, words, onTest, result]
  MaxKept,          \* maxDiagnosisEvents
  IdenticalLimit,   \* more identical tool calls in a row are confusion
  SwitchLimit,      \* more changes of tool are confusion
  MaxDiagnoses,     \* max_diagnoses_per_task
  Analysers,        \* subset of {"off", "rules", "llm"}
  ModelAnswers,     \* bound: the modes the language model answers
  MaxSeen           \* bound: events of the run

Handlers == {"loop", "dog"}
Modes == {"infra_failure", "permission_blocked", "dependency_missing", "model_confusion",
          "scope_creep", "test_misunderstanding", "wrong_approach"}

ASSUME DiagnosisAssumption ==
  MaxKept \in Nat \ {0} /\ IsInjective(ConfiguredEngines) /\ DefaultEngines("") # <<>>
  /\ ModelAnswers \subseteq Modes

VARIABLES
  analyser, chain,             \* which analyser is configured; engineChains of the run
  dstate, tries, retryCount,   \* State, EngineAttempts and RetryCount of the run
  diagnosed,                   \* DiagnosisHistory, as the modes
  kept, told, lastTool, same,  \* runEvents, Result, LastToolName, ConsecutiveIdenticalTools
  seen, reading,               \* events so far; a stream reader is registered
  djob, panicked,              \* its Job; the process has died of a panic
  dpc, plan, found, evidence   \* per handler: control point, what is possible, its
                               \* diagnosis, whether it took evidence of infrastructure

attemptVars == <<dstate, tries, retryCount, diagnosed>>
telemetryVars == <<kept, told, lastTool, same, seen, reading>>
handlerVars == <<dpc, plan, found, evidence>>
diagnosisVars == <<analyser, chain, attemptVars, telemetryVars, djob, panicked, handlerVars>>

NoDiagnosis == [mode |-> "none", suggested |-> ""]
NoPlan == [fallBack |-> FALSE, retry |-> FALSE]
NoResult == [success |-> TRUE, words |-> {}]

DiagnosisInit ==
  /\ analyser \in Analysers /\ chain \in {DefaultEngines(l) : l \in EngineLabels}
  /\ dstate = "Running" /\ tries = <<chain[1]>> /\ retryCount = 0 /\ diagnosed = <<>>
  /\ kept = <<>> /\ told = NoResult /\ lastTool = "" /\ same = 0
  /\ seen = 0 /\ reading = TRUE /\ djob = "active" /\ panicked = FALSE
  /\ dpc = [h \in Handlers |-> "idle"]
  /\ plan = [h \in Handlers |-> NoPlan]
  /\ found = [h \in Handlers |-> NoDiagnosis]
  /\ evidence = [h \in Handlers |-> FALSE]

-----------------------------------------------------------------------------
(* The stream of the attempt *)

\* recordRunEvent keeps the latest MaxKept events, and none when diagnosis is off.
RecordRunEvent(e) ==
  kept' = IF analyser = "off" THEN kept ELSE
          LET all == Append(kept, e)
          IN  SubSeq(all, 1 + (IF Len(all) > MaxKept THEN Len(all) - MaxKept ELSE 0), Len(all))

\* The reader hands an event to the watchdog's counters, to the result and to the record.
ReadEvent(e) ==
  /\ reading /\ seen < MaxSeen
  /\ seen' = seen + 1
  /\ IF e.tool = "" THEN UNCHANGED <<lastTool, same>>
     ELSE lastTool' = e.tool /\ same' = IF e.tool = lastTool THEN same + 1 ELSE 1
  /\ told' = IF e.result = "" THEN told ELSE [success |-> e.result = "success", words |-> e.words]
  /\ RecordRunEvent(e)
  /\ UNCHANGED <<analyser, chain, attemptVars, reading, djob, panicked, handlerVars>>

JobEnds(s) == djob = "active" /\ djob' = s
              /\ UNCHANGED <<analyser, chain, attemptVars, telemetryVars, panicked, handlerVars>>

\* handleJobComplete, as far as the run and its events go.
HandleJobComplete ==
  /\ dpc["loop"] = "idle" /\ dstate = "Running" /\ djob = "complete"
  /\ dstate' = "Succeeded" /\ kept' = <<>> /\ reading' = FALSE
  /\ UNCHANGED <<analyser, chain, tries, retryCount, diagnosed, told, lastTool, same, seen, djob, panicked, handlerVars>>

-----------------------------------------------------------------------------
(* The analysers *)

Calls(events) == SelectSeq(events, LAMBDA e : e.tool # "")
Switches(events) == LET c == Calls(events)
                    IN  Cardinality({i \in 2..Len(c) : c[i].tool # c[i - 1].tool})
DetectModelConfusion(events) == same > IdenticalLimit \/ Switches(events) > SwitchLimit
DetectTestMisunderstanding(events) ==
  \E e \in Range(events) : e.tool \in {"Edit", "Write"} /\ e.onTest
DetectWrongApproach == ~told.success

\* The words of the events and of the last result; the reasons the loop and the watchdog
\* give for a running Job hold none of the patterns.
Words(events) == told.words \cup UNION {e.words : e \in Range(events)}

\* The rules in their order of priority; FilesChanged is never written, so that
\* scope_creep is left to the language model.  (Variant: infrastructure comes last.)
AnalyseInfraLast(events) ==
  CASE "permission" \in Words(events)     -> "permission_blocked"
    [] "dependency" \in Words(events)     -> "dependency_missing"
    [] DetectModelConfusion(events)       -> "model_confusion"
    [] DetectTestMisunderstanding(events) -> "test_misunderstanding"
    [] "infra" \in Words(events)          -> "infra_failure"
    [] DetectWrongApproach                -> "wrong_approach"
    [] OTHER                              -> "unknown"
Analyse(events) ==
  LET rules == << <<"infra" \in Words(events), "infra_failure">>,
                  <<"permission" \in Words(events), "permission_blocked">>,
                  <<"dependency" \in Words(events), "dependency_missing">>,
                  <<DetectModelConfusion(events), "model_confusion">>,
                  <<DetectTestMisunderstanding(events), "test_misunderstanding">>,
                  <<DetectWrongApproach, "wrong_approach">>,
                  <<TRUE, "unknown">> >>
  IN  rules[CHOOSE i \in DOMAIN rules : rules[i][1] /\ \A j \in 1..i - 1 : ~rules[j][1]][2]

\* The language model's answer when it is a known mode, and the rules otherwise.
LLMAnalyse(events) == ModelAnswers \cup {Analyse(events)}

\* suggestEngine: the first configured, registered engine the run has not tried.
\* (Variant: also one it has tried.)
IsEngineSpecific(mode) == mode = "model_confusion"
FirstOr(s) == IF s = <<>> THEN "" ELSE s[1]
SuggestAnyEngine(mode) ==
  IF ~IsEngineSpecific(mode) THEN ""
  ELSE FirstOr(SelectSeq(ConfiguredEngines, LAMBDA n : n \in Registered /\ n # Last(tries)))
SuggestEngine(mode) ==
  IF ~IsEngineSpecific(mode) THEN ""
  ELSE FirstOr(SelectSeq(ConfiguredEngines, LAMBDA n : n \in Registered \ Range(tries)))

-----------------------------------------------------------------------------
(* handleJobFailed, up to the launch of the next Job *)

Reach(h, l) == dpc' = [dpc EXCEPT ![h] = l]

\* What a handler saw is forgotten when it returns or launches.
Forget(h) ==
  /\ plan' = [plan EXCEPT ![h] = NoPlan]
  /\ found' = [found EXCEPT ![h] = NoDiagnosis]
  /\ evidence' = [evidence EXCEPT ![h] = FALSE]

\* The loop finds the Job failed, the watchdog finds an anomaly; the stream is drained.
BeginFailure(h) ==
  /\ dpc[h] = "idle" /\ dstate = "Running" /\ (h = "loop" => djob = "failed")
  /\ Reach(h, "look") /\ reading' = FALSE
  /\ UNCHANGED <<analyser, chain, attemptVars, kept, told, lastTool, same, seen, djob, panicked,
                 plan, found, evidence>>

\* What is possible, under the read lock.
LookAhead(h) ==
  /\ dpc[h] = "look" /\ Reach(h, "diagnose")
  /\ plan' = [plan EXCEPT ![h] = [fallBack |-> Len(chain) > Len(tries), retry |-> retryCount < MaxRetries]]
  /\ UNCHANGED <<analyser, chain, attemptVars, telemetryVars, djob, panicked, found, evidence>>

\* takeRunEvents and, when something is possible and diagnosis is on, diagnoseFailure.
DiagnoseFailure(h) ==
  /\ dpc[h] = "diagnose" /\ Reach(h, "decide")
  /\ kept' = <<>>
  /\ evidence' = [evidence EXCEPT ![h] = "infra" \in Words(kept)]
  /\ \E mode \in IF analyser = "off" \/ ~(plan[h].fallBack \/ plan[h].retry) THEN {"none"}
                 ELSE IF analyser = "llm" THEN LLMAnalyse(kept) ELSE {Analyse(kept)} :
       found' = [found EXCEPT ![h] = [mode |-> mode, suggested |-> SuggestEngine(mode)]]
  /\ UNCHANGED <<analyser, chain, attemptVars, told, lastTool, same, seen, reading, djob, panicked, plan>>

\* chain[len(tr.EngineAttempts)] is beyond the chain once somebody else fell back.
FallBack(h) ==
  IF Len(tries) < Len(chain)
  THEN IF CanTransition(dstate, "Failed")
       THEN /\ tries' = Append(tries, chain[Len(tries) + 1]) /\ dstate' = "Retrying"
            /\ Reach(h, "launchFallback") /\ UNCHANGED <<retryCount, diagnosed, panicked>>
       ELSE Reach(h, "idle") /\ UNCHANGED <<attemptVars, panicked>>
  ELSE panicked' = TRUE /\ UNCHANGED <<attemptVars, dpc>>

\* Without a diagnosis every retry is made.
ShouldRetry(mode) ==
  mode = "none" \/ (/\ MaxDiagnoses > 0 => Len(diagnosed) < MaxDiagnoses
                    /\ mode \notin Range(diagnosed) \cup {"infra_failure"})

NoteDiagnosis(mode) == diagnosed' = IF mode = "none" THEN diagnosed ELSE Append(diagnosed, mode)

\* The engine is switched before the state is known to allow the retry.
\* (Variant: a retry is not counted.)
RetryUncounted(h) ==
  LET to == found[h].suggested IN
  /\ tries' = IF to \in {"", Last(tries)} THEN tries ELSE Append(tries, to)
  /\ UNCHANGED <<panicked, retryCount>> /\ NoteDiagnosis(found[h].mode)
  /\ IF CanTransition(dstate, "Failed")
     THEN dstate' = "Retrying" /\ Reach(h, "launchRetry")
     ELSE Reach(h, "idle") /\ UNCHANGED dstate
Retry(h) ==
  LET to == found[h].suggested IN
  /\ tries' = IF to \in {"", Last(tries)} THEN tries ELSE Append(tries, to)
  /\ UNCHANGED panicked /\ NoteDiagnosis(found[h].mode)
  /\ IF CanTransition(dstate, "Failed")
     THEN retryCount' = retryCount + 1 /\ dstate' = "Retrying" /\ Reach(h, "launchRetry")
     ELSE Reach(h, "idle") /\ UNCHANGED <<dstate, retryCount>>

FailForGood(h) ==
  /\ dstate' = IF CanTransition(dstate, "Failed") THEN "Failed" ELSE dstate
  /\ Reach(h, "idle") /\ UNCHANGED <<tries, retryCount, panicked>>
  /\ IF retryCount < MaxRetries THEN NoteDiagnosis(found[h].mode) ELSE UNCHANGED diagnosed

\* The decision, under the lock; fallBack is as it was before the diagnosis.
ChooseNext(h) ==
  /\ dpc[h] = "decide"
  /\ IF plan[h].fallBack /\ found[h].mode # "infra_failure" THEN FallBack(h)
     ELSE IF retryCount < MaxRetries /\ ShouldRetry(found[h].mode) THEN Retry(h)
     ELSE FailForGood(h)
  /\ Forget(h) /\ UNCHANGED <<analyser, chain, telemetryVars, djob>>

\* launchFallbackJob and launchRetryJob; only the latter reads the new Job's stream.  The
\* telemetry and the result stay.
Launching(h) == dpc[h] \in {"launchFallback", "launchRetry"}
Launch(h) ==
  /\ Launching(h) /\ Reach(h, "idle")
  /\ IF CanTransition(dstate, "Running")
     THEN dstate' = "Running" /\ djob' = "active" /\ reading' = (reading \/ dpc[h] = "launchRetry")
     ELSE UNCHANGED <<dstate, djob, reading>>
  /\ UNCHANGED <<analyser, chain, tries, retryCount, diagnosed, kept, told, lastTool, same, seen,
                 panicked, plan, found, evidence>>

\* One of their early returns: session, spec, Job or Create; the run stays as it is.
LaunchReturns(h) ==
  /\ Launching(h) /\ Reach(h, "idle")
  /\ UNCHANGED <<analyser, chain, attemptVars, telemetryVars, djob, panicked, plan, found, evidence>>

FailureStep(h) ==
  LookAhead(h) \/ DiagnoseFailure(h) \/ ChooseNext(h) \/ Launch(h) \/ LaunchReturns(h)

DiagnosisNext ==
  /\ ~panicked
  /\ \/ \E e \in RunEvents : ReadEvent(e)
     \/ \E s \in {"complete", "failed"} : JobEnds(s)
     \/ HandleJobComplete
     \/ \E h \in Handlers : BeginFailure(h) \/ FailureStep(h)
DiagnosisLoop == ~panicked /\ (HandleJobComplete \/ BeginFailure("loop") \/ FailureStep("loop"))
-----------------------------------------------------------------------------
(* Properties *)

\* Neither the fallback nor a switch after a diagnosis runs an engine of the run again,
\* even when the loop and the watchdog choose from what they saw at different times
\* (suggestEngine: an engine "that this task run has not tried").
EnginesAreNotRepeated == IsInjective(tries)

\* A handler that took evidence of an infrastructure failure starts no other Job: not the
\* next engine and not a retry.  (The other handler may, without that evidence.)
InfraIsFinal ==
  [][\A h \in Handlers :
       analyser = "rules" /\ dpc[h] = "decide" /\ evidence[h] => ~Launching(h)']_diagnosisVars

\* A run does not fail and start again for ever, however its failures are diagnosed and
\* whoever handles them: it ends, or the last launch returned early and nobody is left to
\* take it out of Retrying, or the process died of the index past the chain.
FailuresEnd ==
  djob = "failed" ~> \/ dstate \in {"Succeeded", "Failed"} \/ panicked
                     \/ dstate = "Retrying" /\ \A h \in Handlers : dpc[h] = "idle"
=============================================================================
