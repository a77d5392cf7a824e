----------------------------- MODULE Tournament -----------------------------
(***************************************************************************)
(* Competitive execution of one ticket: the tournament coordinator         *)
(* (internal/tournament) and the handlers of the controller that drive it. *)
(* Candidates and the judge are TaskRuns; the reconcile loop handles the   *)
(* ends of their Jobs while the watchdog loop may fail any of them.        *)
(***************************************************************************)
EXTENDS TaskRun, FiniteSets, Integers

CONSTANTS
  Candidates,     \* positions 1..n in the list of candidate engines
  Judge,          \* the judge's run
  ThresholdPct,   \* early_termination_threshold in percent, 0 when unset
  LoopT, DogT,    \* the reconcile and the watchdog goroutine
  Anomalous,      \* bound: the runs the watchdog may find an anomaly in
  MishapSets      \* subsets of {"jobFails", "watchdog", "launch"} to consider

ASSUME TournamentAssumption ==
  /\ Candidates \subseteq Nat \ {0} /\ Judge \notin Candidates
  /\ ThresholdPct \in 0..100 /\ LoopT # DogT

VARIABLES
  mishaps,            \* what may go wrong in this behaviour
  tticket,            \* the ticket in the ticketing backend
  tstate,             \* Tournament.State
  entrants,           \* Tournament.TaskRunIDs
  cstate,             \* CandidateStates
  results,            \* the candidates that have an entry in CandidateResults
  winner,             \* WinnerTaskRunID, 0 when unset
  rstate, rretry, rjob, \* of each run: state, retry count, the Job it names
  tpc, trun,          \* of each goroutine: control point and the run it handles
  judged, picked,     \* candidates shown to the judge; the one its index meant
  judges, stray       \* judge Jobs created; candidate Jobs nobody registered

coordVars == <<tstate, entrants, cstate, results, winner>>
competitorVars == <<rstate, rretry, rjob>>
tournamentVars ==
  <<mishaps, tticket, coordVars, competitorVars, tpc, trun, judged, picked, judges, stray>>

Competitors == Candidates \cup {Judge}
Goroutines == {LoopT, DogT}

\* Runs the controller has in its taskRuns map.
Entered(r) == IF r = Judge THEN rstate[r] # Unused ELSE r \in entrants

\* CompletedResults, in the order of TaskRunIDs, and its i-th element.
Completed == entrants \cap results
Nth(S, i) == CHOOSE c \in S : Cardinality({d \in S : d < c}) = i

\* IsReadyForJudging: int(total*threshold + 0.5), at least one, 0.6 by default.
\* (Variant: rounded down.)
RequiredRoundedDown ==
  LET pct == IF ThresholdPct = 0 THEN 60 ELSE ThresholdPct
      n   == (Cardinality(entrants) * pct) \div 100
  IN  IF n < 1 THEN 1 ELSE n
Required ==
  LET pct == IF ThresholdPct = 0 THEN 60 ELSE ThresholdPct
      n   == (Cardinality(entrants) * pct + 50) \div 100
  IN  IF n < 1 THEN 1 ELSE n

TournamentInit ==
  /\ mishaps \in MishapSets
  /\ tticket = "ready" /\ tstate = "None" /\ entrants = {} /\ winner = 0
  /\ cstate = [c \in Candidates |-> "Competing"]
  /\ results = {}
  /\ rstate = [r \in Competitors |-> Unused]
  /\ rretry = [r \in Competitors |-> 0]
  /\ rjob = [r \in Competitors |-> "none"]
  /\ tpc = [g \in Goroutines |-> "idle"]
  /\ trun = [g \in Goroutines |-> Judge]
  /\ judged = {} /\ picked = 0 /\ judges = 0 /\ stray = 0

At(g, l) == /\ tpc' = [tpc EXCEPT ![g] = l]
            /\ trun' = [trun EXCEPT ![g] = IF l = "idle" THEN Judge ELSE @]
Handle(g, l, r) == tpc' = [tpc EXCEPT ![g] = l] /\ trun' = [trun EXCEPT ![g] = r]
MoveRun(r, s) == CanTransition(rstate[r], s) /\ rstate' = [rstate EXCEPT ![r] = s]

-----------------------------------------------------------------------------
(* The coordinator; each operation is atomic under its mutex *)

StartTournament(S) ==
  /\ tstate' = "Competing" /\ entrants' = S
  /\ UNCHANGED <<cstate, results, winner>>

\* Variant: results are taken in whatever state the tournament is.
RecordAnyTime(c) ==
  /\ c \in entrants
  /\ results' = results \cup {c}
  /\ UNCHANGED <<tstate, entrants, cstate, winner>>

\* OnCandidateComplete, when it returns no error.
OnCandidateComplete(c) ==
  /\ tstate = "Competing" /\ c \in entrants
  /\ results' = results \cup {c}
  /\ UNCHANGED <<tstate, entrants, cstate, winner>>

BeginJudging ==
  /\ tstate = "Competing"
  /\ tstate' = "Judging"
  /\ cstate' = [c \in Candidates |-> IF c \in Completed THEN cstate[c] ELSE "Eliminated"]
  /\ UNCHANGED <<entrants, results, winner>>

SelectWinner(c) ==
  /\ tstate = "Judging" /\ c \in results
  /\ tstate' = "Selected" /\ winner' = c
  /\ cstate' = [d \in Candidates |-> IF d = c THEN "Selected" ELSE "Eliminated"]
  /\ UNCHANGED <<entrants, results>>

\* Accepted in every state.
CancelTournament ==
  /\ tstate' = "Cancelled"
  /\ cstate' = [c \in Candidates |-> "Eliminated"]
  /\ UNCHANGED <<entrants, results, winner>>

-----------------------------------------------------------------------------
(* launchTournament *)

\* Candidates whose session, spec, Job or Create failed are skipped.  With fewer
\* than two left it gives up, and the Jobs created so far belong to nobody.
LaunchTournament(S) ==
  /\ tpc[LoopT] = "idle" /\ tticket = "ready" /\ tstate = "None"
  /\ S = Candidates \/ "launch" \in mishaps
  /\ IF Cardinality(S) < 2
     THEN /\ stray = 0    \* bound: the ticket stays ready and would be tried again
          /\ stray' = Cardinality(S)
          /\ UNCHANGED <<tticket, coordVars, competitorVars, tpc, trun>>
     ELSE /\ StartTournament(S)
          /\ rstate' = [r \in Competitors |-> IF r \in S THEN "Running" ELSE rstate[r]]
          /\ rjob' = [r \in Competitors |-> IF r \in S THEN "active" ELSE rjob[r]]
          /\ At(LoopT, "mark")
          /\ UNCHANGED <<tticket, rretry, stray>>
  /\ UNCHANGED <<judged, picked, judges>>

MarkTournament ==
  /\ tpc[LoopT] = "mark"
  /\ tticket' = "running"
  /\ At(LoopT, "idle")
  /\ UNCHANGED <<coordVars, competitorVars, judged, picked, judges, stray>>

-----------------------------------------------------------------------------
(* handleCandidateComplete, launchJudge and handleJudgeComplete *)

CheckCompetitor(r) ==
  /\ tpc[LoopT] = "idle" /\ Entered(r) /\ rstate[r] = "Running"
  /\ \/ rjob[r] = "complete" /\ Handle(LoopT, "complete", r)
     \/ rjob[r] = "failed" /\ Handle(LoopT, "failed", r)
  /\ UNCHANGED <<tticket, coordVars, competitorVars, judged, picked, judges, stray>>

\* The transition to Succeeded comes first; when it is refused nothing follows.
CompetitorComplete ==
  LET r == trun[LoopT] IN
  /\ tpc[LoopT] = "complete"
  /\ \/ MoveRun(r, "Succeeded") /\ At(LoopT, IF r = Judge THEN "select" ELSE "record")
     \/ ~CanTransition(rstate[r], "Succeeded") /\ At(LoopT, "idle") /\ UNCHANGED rstate
  /\ UNCHANGED <<tticket, coordVars, rretry, rjob, judged, picked, judges, stray>>

RecordCandidate ==
  LET c == trun[LoopT] IN
  /\ tpc[LoopT] = "record"
  /\ \/ /\ OnCandidateComplete(c)
        /\ At(LoopT, IF Cardinality(Completed') >= Required THEN "ready" ELSE "idle")
     \/ /\ ~(tstate = "Competing" /\ c \in entrants)
        /\ At(LoopT, "idle")
        /\ UNCHANGED coordVars
  /\ UNCHANGED <<tticket, competitorVars, judged, picked, judges, stray>>

\* launchJudge: too few results, or no such judge engine, cancels the tournament.
PrepareJudge ==
  /\ tpc[LoopT] = "ready"
  /\ \/ /\ Cardinality(Completed) < 2 \/ "launch" \in mishaps
        /\ CancelTournament /\ At(LoopT, "idle")
     \/ /\ Cardinality(Completed) >= 2
        /\ At(LoopT, "begin") /\ UNCHANGED coordVars
  /\ UNCHANGED <<tticket, competitorVars, judged, picked, judges, stray>>

CallBeginJudging ==
  /\ tpc[LoopT] = "begin"
  /\ \/ BeginJudging /\ judged' = Completed /\ At(LoopT, "launchJudge")
     \/ /\ tstate # "Competing"
        /\ At(LoopT, "idle") /\ UNCHANGED <<coordVars, judged>>
  /\ UNCHANGED <<tticket, competitorVars, picked, judges, stray>>

LaunchJudge ==
  /\ tpc[LoopT] = "launchJudge"
  /\ \/ /\ rstate' = [rstate EXCEPT ![Judge] = "Running"]
        /\ rjob' = [rjob EXCEPT ![Judge] = "active"]
        /\ judges' = judges + 1
        /\ UNCHANGED coordVars
     \/ /\ "launch" \in mishaps
        /\ CancelTournament
        /\ UNCHANGED <<rstate, rjob, judges>>
  /\ At(LoopT, "idle")
  /\ UNCHANGED <<tticket, rretry, judged, picked, stray>>

\* The decision names an index into CompletedResults, which is built anew; one
\* that cannot be parsed or is out of range counts as 0.
HandleJudgeDecision(i) ==
  LET k == IF i \in 0..(Cardinality(Completed) - 1) THEN i ELSE 0 IN
  /\ tpc[LoopT] = "select"
  /\ \/ /\ Completed # {}
        /\ SelectWinner(Nth(Completed, k))
        /\ picked' = Nth(judged, IF i \in 0..(Cardinality(judged) - 1) THEN i ELSE 0)
        /\ At(LoopT, "reportComplete")
     \/ /\ Completed # {} /\ tstate # "Judging"
        /\ At(LoopT, "idle") /\ UNCHANGED <<coordVars, picked>>
     \/ /\ Completed = {}
        /\ CancelTournament /\ At(LoopT, "idle") /\ UNCHANGED picked
  /\ UNCHANGED <<tticket, competitorVars, judged, judges, stray>>

-----------------------------------------------------------------------------
(* handleJobFailed for a candidate or the judge, from either goroutine *)

\* The coordinator hears of the failure first, and of every further one: a failed
\* candidate counts as completed, but only a success asks whether to judge.
CompetitorFailed(g) ==
  LET r == trun[g] IN
  /\ tpc[g] = "failed"
  /\ IF r = Judge THEN CancelTournament
     ELSE \/ OnCandidateComplete(r)
          \/ ~(tstate = "Competing" /\ r \in entrants) /\ UNCHANGED coordVars
  /\ At(g, "decide")
  /\ UNCHANGED <<tticket, competitorVars, judged, picked, judges, stray>>

\* The engine chain of a competitor has one element, so there is no fallback.
DecideCompetitor(g) ==
  LET r == trun[g] IN
  /\ tpc[g] = "decide"
  /\ \/ /\ CanTransition(rstate[r], "Failed") /\ rretry[r] < MaxRetries
        /\ rstate' = [rstate EXCEPT ![r] = "Retrying"]
        /\ rretry' = [rretry EXCEPT ![r] = @ + 1]
        /\ At(g, "retry")
     \/ /\ rretry[r] >= MaxRetries /\ MoveRun(r, "Failed")
        /\ At(g, "reportFailed") /\ UNCHANGED rretry
     \/ /\ ~CanTransition(rstate[r], "Failed")
        /\ At(g, "idle") /\ UNCHANGED <<rstate, rretry>>
  /\ UNCHANGED <<tticket, coordVars, rjob, judged, picked, judges, stray>>

\* launchRetryJob; an early return leaves the run Retrying.
RetryCompetitor(g) ==
  LET r == trun[g] IN
  /\ tpc[g] = "retry"
  /\ \/ MoveRun(r, "Running") /\ rjob' = [rjob EXCEPT ![r] = "active"]
     \/ "launch" \in mishaps /\ UNCHANGED <<rstate, rjob>>
  /\ At(g, "idle")
  /\ UNCHANGED <<tticket, coordVars, rretry, judged, picked, judges, stray>>

ReportTournament(g) ==
  /\ \/ tpc[g] = "reportComplete" /\ tticket' = "succeeded"
     \/ tpc[g] = "reportFailed" /\ tticket' = "failed"
  /\ At(g, "idle")
  /\ UNCHANGED <<coordVars, competitorVars, judged, picked, judges, stray>>

\* runWatchdogCheck found an anomaly in a Running run.
WatchdogFails(r) ==
  /\ "watchdog" \in mishaps
  /\ tpc[DogT] = "idle" /\ Entered(r) /\ rstate[r] = "Running"
  /\ Handle(DogT, "failed", r)
  /\ UNCHANGED <<tticket, coordVars, competitorVars, judged, picked, judges, stray>>

CompetitorJobEnds(r) ==
  /\ rjob[r] = "active"
  /\ \/ rjob' = [rjob EXCEPT ![r] = "complete"]
     \/ "jobFails" \in mishaps /\ rjob' = [rjob EXCEPT ![r] = "failed"]
  /\ UNCHANGED <<tticket, coordVars, rstate, rretry, tpc, trun, judged, picked, judges, stray>>

FailureSteps(g) ==
  CompetitorFailed(g) \/ DecideCompetitor(g) \/ RetryCompetitor(g) \/ ReportTournament(g)

TournamentLoop ==
  \/ \E S \in SUBSET Candidates : LaunchTournament(S)
  \/ MarkTournament \/ CompetitorComplete \/ RecordCandidate \/ PrepareJudge
  \/ CallBeginJudging \/ LaunchJudge
  \/ \E i \in 0..Cardinality(Candidates) : HandleJudgeDecision(i)
  \/ \E r \in Competitors : CheckCompetitor(r)
  \/ FailureSteps(LoopT)

TournamentNext ==
  /\ \/ TournamentLoop
     \/ FailureSteps(DogT)
     \/ \E r \in Anomalous : WatchdogFails(r)
     \/ \E r \in Competitors : CompetitorJobEnds(r)
  /\ UNCHANGED mishaps

TournamentSpec == TournamentInit /\ [][TournamentNext]_tournamentVars


-----------------------------------------------------------------------------
(* Properties *)

\* The winner is the candidate the judge's index meant: handleJudgeComplete builds
\* the list again, after results may have come in since the judge was shown it.
WinnerIsThePickedOne == winner = picked

\* However often the threshold is reached and whatever fails meanwhile, one judge
\* at most is started for a tournament (launchJudge, BeginJudging).
OneJudge == judges <= 1

\* Without failures a tournament reaches a winner and the ticket is completed.
TournamentDecides == mishaps = {} => <>(tstate = "Selected" /\ tticket = "succeeded")

\* With no failure, the threshold never cancels the tournament it is meant to cut
\* short (IsReadyForJudging against the two results launchJudge asks for).
UndisturbedIsNotCancelled == mishaps = {} => tstate # "Cancelled"
=============================================================================
