------------------------------ MODULE Learning ------------------------------
(***************************************************************************)
(* What the controller learns from the outcomes of task runs: samples and  *)
(* percentile profiles for the watchdog, fingerprints of the engines for   *)
(* routing, and a history of costs for the estimator.  Outcomes are        *)
(* recorded by the reconcile loop and by webhook handlers concurrently.    *)
(***************************************************************************)
EXTENDS EngineSelector, Integers, FiniteSets

CONSTANTS
  Recorders,      \* goroutines that call recordTaskOutcome
  Outcomes,       \* [cached, ticket, repo, engine, success, cost, dims, label, labels, words,
                  \* bullets]; cached: the controller has the run's ticket in its cache
  Pasts,          \* sequences of outcomes recorded before, one at a time
  Engines,        \* availableEngines
  Dimensions,     \* of routing
  MinSamples,     \* for routing and for calibrated profiles
  NearestK,       \* defaultK (5)
  CostPerEngine,  \* default_cost_per_engine: [low, high] of the engines it names
  MaxPredictedCost, \* max_predicted_cost_per_job, 0 for none
  MaxOutcomes     \* bound on the further outcomes of a behaviour

VARIABLES
  recording,      \* of each recorder: its outcome and what it holds of the stores
  samples,        \* calibrator: sorted samples by profile key
  profiles,       \* profile store: by key
  prints,         \* fingerprint objects, by identity
  store,          \* fingerprint store: the identity of each engine's, 0 for none
  history,        \* estimator store
  outcomes,       \* the outcomes recorded so far
  left            \* further outcomes

learnVars == <<recording, samples, profiles, prints, store, history, outcomes, left>>

-----------------------------------------------------------------------------
(* Calibration *)

ProfileKey(o) == IF o.cached THEN <<o.repo, o.engine, o.dims["task_type"]>> ELSE <<"", o.engine, "">>

\* insertSorted.
InsertSorted(s, v) ==
  LET below == SelectSeq(s, LAMBDA x : x < v)
  IN below \o <<v>> \o SubSeq(s, Len(below) + 1, Len(s))

\* percentile: linear interpolation at rank p(n-1), in hundredths of a sample.
Percentile(s, p) ==
  LET rank == p * (Len(s) - 1)
      lower == rank \div 100
      frac == rank % 100
  IN IF frac = 0 THEN 100 * s[lower + 1]
     ELSE s[lower + 1] * (100 - frac) + s[lower + 2] * frac

\* RefreshProfile: the profile computed from the samples of a key.
Profile(s) ==
  [count |-> Len(s), p50 |-> Percentile(s, 50), p90 |-> Percentile(s, 90),
   p99 |-> Percentile(s, 99)]

\* matchRepoGlob for patterns without metacharacters.
MatchRepoGlob(pattern, value) == pattern = "*" \/ pattern = value

\* ResolveProfile: exact, glob, any repository, any engine.
Trusted == {k \in DOMAIN profiles : profiles[k].count >= MinSamples}
ResolveProfile(repo, engine, type) ==
  LET globs == {k \in Trusted : k[2] = engine /\ k[3] = type /\ MatchRepoGlob(k[1], repo)}
  IN (Trusted \cap {<<repo, engine, type>>, <<"*", engine, type>>, <<"*", "*", type>>}) \cup globs

\* resolveRules asks with the ticket's id for the repository and with no task type.
ResolveRules(o) == ResolveProfile(o.ticket, o.engine, "")

-----------------------------------------------------------------------------
(* Routing *)

NoStats == [ok |-> 0, bad |-> 0]
Tally(s, success) == IF success THEN [s EXCEPT !.ok = @ + 1] ELSE [s EXCEPT !.bad = @ + 1]
Lookup(f, k) == IF k \in DOMAIN f THEN f[k] ELSE NoStats

\* values: the statistics of <<dimension, value>>; all: those of a whole dimension.
NewEngineFingerprint(e) == [engine |-> e, tasks |-> 0, all |-> NoStats, values |-> <<>>]

\* Update: every dimension, and the values that are not empty.
Update(fp, o) ==
  LET given == {<<d, o.dims[d]>> : d \in {x \in Dimensions : o.dims[x] # ""}}
  IN [engine |-> fp.engine, tasks |-> fp.tasks + 1, all |-> Tally(fp.all, o.success),
      values |-> [k \in DOMAIN fp.values \cup given |->
                    IF k \in given THEN Tally(Lookup(fp.values, k), o.success) ELSE fp.values[k]]]

\* SuccessRate with Laplace smoothing, as a fraction.
SuccessRate(s) == <<s.ok + 1, s.ok + s.bad + 2>>

Times(a, b) == <<a[1] * b[1], a[2] * b[2]>>

Score(fp, o) ==
  FoldSet(LAMBDA d, acc :
            Times(acc, SuccessRate(IF o.dims[d] # "" /\ <<d, o.dims[d]>> \in DOMAIN fp.values
                                   THEN fp.values[<<d, o.dims[d]>>] ELSE fp.all)),
          <<1, 1>>, Dimensions)

Above(a, b) == a[1] * b[2] > b[1] * a[2]

\* The score of an engine; without a fingerprint the uninformed prior.
EngineScore(e, o) ==
  IF store[e] = 0 THEN Score(NewEngineFingerprint(e), o) ELSE Score(prints[store[e]], o)

Informed == \E e \in Engines : store[e] # 0 /\ prints[store[e]].tasks >= MinSamples

\* The engines by falling score; the sort is not stable.
Ranked(o) ==
  {c \in [1 .. Cardinality(Engines) -> Engines] :
     /\ IsInjective(c)
     /\ \A i, j \in DOMAIN c : i < j => ~Above(EngineScore(c[j], o), EngineScore(c[i], o))}

\* SelectEngines: the chains it may answer for a ticket like that of o.  Exploring swaps
\* place i to the front, and place 1 stands for not exploring.
SelectEngines(o, i) ==
  IF ~Informed THEN {DefaultEngines(o.label)} ELSE {[c EXCEPT ![1] = c[i], ![i] = c[1]] : c \in Ranked(o)}

-----------------------------------------------------------------------------
(* Estimation; scores are in hundredths *)

\* By the length of the description and its bulleted requirements.
ScoreDescription(words, bullets) ==
  LET length == IF words < 20 THEN 10 ELSE IF words < 50 THEN 30 ELSE IF words < 150 THEN 60 ELSE 90
      listed == IF bullets > 5 THEN 10 ELSE IF bullets > 2 THEN 5 ELSE 0
  IN IF words = 0 THEN 20 ELSE length + listed

LabelScores ==
  "typo-fix" :> 10 @@ [docs |-> 15, bug |-> 30, bug_fix |-> 30, enhancement |-> 50, feature |-> 60,
                       refactor |-> 65, security |-> 70, architecture |-> 85, migration |-> 80]
ScoreLabels(labels) ==
  FoldSet(LAMBDA l, acc : IF LabelScores[l] > acc THEN LabelScores[l] ELSE acc, 30,
          labels \cap DOMAIN LabelScores)

ScoreRepoSize(files) ==
  IF files <= 100 THEN 20 ELSE IF files <= 500 THEN 40 ELSE IF files <= 1000 THEN 50
  ELSE IF files <= 5000 THEN 80 ELSE 100

TypeScores ==
  [typo_fix |-> 10, docs |-> 15, bug_fix |-> 35, test |-> 30, enhancement |-> 50, new_feature |-> 60,
   refactor |-> 65, security_fix |-> 70, migration |-> 80, architecture |-> 90]
ScoreTaskType(type) == IF type \in DOMAIN TypeScores THEN TypeScores[type] ELSE 40

\* ComplexityScorer.Score; the controller passes no repository size.
Complexity(o) ==
  [desc |-> ScoreDescription(o.words, o.bullets), label |-> ScoreLabels(o.labels),
   size |-> ScoreRepoSize(0), type |-> ScoreTaskType(o.dims["task_type"])]
Overall(c) == (30 * c.desc + 15 * c.label + 25 * c.size + 30 * c.type) \div 100

Square(x) == x * x
Distance(a, b) ==
  Square(a.desc - b.desc) + Square(a.label - b.label) + Square(a.size - b.size)
  + Square(a.type - b.type)

\* QuerySimilar: the NearestK nearest outcomes of the engine, of equally near ones any.
QuerySimilar(c, engine) ==
  LET mine == {i \in DOMAIN history : history[i].engine = engine}
      dist == [i \in mine |-> Distance(c, Complexity(history[i]))]
      k == IF Cardinality(mine) < NearestK THEN Cardinality(mine) ELSE NearestK
  IN {S \in kSubset(k, mine) : \A i \in S, j \in mine \ S : dist[i] <= dist[j]}

\* aggregateNeighbours: P25 and P75 of the sorted costs.  (Variant: unsorted costs.)
NeighbourCostsAsFound(S) == LET q == SetToSeq(S) IN [i \in DOMAIN q |-> history[q[i]].cost]
NeighbourCosts(S) == SortSeq([i \in DOMAIN SetToSeq(S) |-> history[SetToSeq(S)[i]].cost], LAMBDA a, b : a < b)

AggregateNeighbours(S) ==
  LET c == NeighbourCosts(S)
      n == Len(c)
  IN [low |-> 100 * c[(n \div 4) + 1], high |-> 100 * c[((3 * n) \div 4) + 1]]

\* coldStartPrediction: the configured range of the engine, or 1 to 5, by the complexity.
CostRange(engine) ==
  IF engine \in DOMAIN CostPerEngine THEN CostPerEngine[engine] ELSE [low |-> 1, high |-> 5]
ColdStart(c, engine) ==
  [low |-> CostRange(engine).low * (50 + Overall(c)), high |-> CostRange(engine).high * (50 + Overall(c))]

Predict(c, engine) ==
  {IF Cardinality(S) >= 2 THEN AggregateNeighbours(S) ELSE ColdStart(c, engine) : S \in QuerySimilar(c, engine)}

\* It is the high estimate that is compared.
ShouldAutoReject(p) == MaxPredictedCost > 0 /\ p.high > 100 * MaxPredictedCost

-----------------------------------------------------------------------------
(* recordTaskOutcome *)

Resting == [at |-> "idle"]

\* The stores as the recordings of a past have left them; the program starts with <<>>.
LearnInit ==
  /\ outcomes \in Pasts /\ left = MaxOutcomes
  /\ recording = [r \in Recorders |-> Resting]
  /\ samples = [k \in {ProfileKey(o) : o \in Range(outcomes)} |->
                  FoldLeft(LAMBDA s, o : InsertSorted(s, o.cost), <<>>,
                           SelectSeq(outcomes, LAMBDA o : ProfileKey(o) = k))]
  /\ profiles = [k \in DOMAIN samples |-> Profile(samples[k])]
  /\ history = SelectSeq(outcomes, LAMBDA o : o.cached)
  /\ LET known == SetToSeq({o.engine : o \in Range(history)}) IN
       /\ prints = [i \in DOMAIN known |->
                      FoldLeft(Update, NewEngineFingerprint(known[i]),
                               SelectSeq(history, LAMBDA o : o.engine = known[i]))]
       /\ store = [e \in Engines |-> IF e \in Range(known) THEN AntiFunction(known)[e] ELSE 0]

At(r, l) == recording[r].at = l
Move(r, rec) == recording' = [recording EXCEPT ![r] = rec]
SetAt(f, k, v) == [x \in DOMAIN f \cup {k} |-> IF x = k THEN v ELSE f[x]]

\* Calibrator.Record, under its lock.
Record(r, o) ==
  /\ At(r, "idle") /\ left > 0 /\ left' = left - 1
  /\ outcomes' = Append(outcomes, o)
  /\ samples' = SetAt(samples, ProfileKey(o),
                      InsertSorted(IF ProfileKey(o) \in DOMAIN samples
                                   THEN samples[ProfileKey(o)] ELSE <<>>, o.cost))
  /\ Move(r, [at |-> "refresh", o |-> o])
  /\ UNCHANGED <<profiles, prints, store, history>>

\* RefreshProfile reads the samples, and puts the profile under another lock.
ReadSamples(r) ==
  /\ At(r, "refresh")
  /\ Move(r, [at |-> "put", o |-> recording[r].o,
              profile |-> Profile(samples[ProfileKey(recording[r].o)])])
  /\ UNCHANGED <<samples, profiles, prints, store, history, outcomes, left>>

\* Nothing else is recorded of a run whose ticket is not cached, as that of an incident.
PutProfile(r) ==
  /\ At(r, "put")
  /\ profiles' = SetAt(profiles, ProfileKey(recording[r].o), recording[r].profile)
  /\ Move(r, IF recording[r].o.cached THEN [at |-> "route", o |-> recording[r].o] ELSE Resting)
  /\ UNCHANGED <<samples, prints, store, history, outcomes, left>>

\* IntelligentSelector.RecordOutcome: Get the object or make a new one, Update it under
\* its own lock, Save the pointer.  (Variant: the store hands out copies.)
GetCopy(r) ==
  LET e == recording[r].o.engine IN
  /\ At(r, "route")
  /\ prints' = Append(prints, IF store[e] = 0 THEN NewEngineFingerprint(e) ELSE prints[store[e]])
  /\ Move(r, [at |-> "update", o |-> recording[r].o, print |-> Len(prints) + 1])
  /\ UNCHANGED <<samples, profiles, store, history, outcomes, left>>
GetFingerprint(r) ==
  LET e == recording[r].o.engine IN
  /\ At(r, "route")
  /\ prints' = IF store[e] = 0 THEN Append(prints, NewEngineFingerprint(e)) ELSE prints
  /\ Move(r, [at |-> "update", o |-> recording[r].o,
              print |-> IF store[e] = 0 THEN Len(prints) + 1 ELSE store[e]])
  /\ UNCHANGED <<samples, profiles, store, history, outcomes, left>>

\* Until it is saved an updated object is in nobody's hands but its maker's, and a saved
\* one is saved again: one step.
SaveFingerprint(r) ==
  /\ At(r, "update")
  /\ LET p == recording[r].print IN
       /\ prints' = [prints EXCEPT ![p] = Update(@, recording[r].o)]
       /\ store' = [store EXCEPT ![recording[r].o.engine] = p]
  /\ Move(r, [at |-> "estimate", o |-> recording[r].o])
  /\ UNCHANGED <<samples, profiles, history, outcomes, left>>

SaveOutcome(r) ==
  /\ At(r, "estimate") /\ history' = Append(history, recording[r].o)
  /\ Move(r, Resting)
  /\ UNCHANGED <<samples, profiles, prints, store, outcomes, left>>

LearnNext ==
  \E r \in Recorders :
    \/ \E o \in Outcomes : Record(r, o)
    \/ ReadSamples(r) \/ PutProfile(r) \/ GetFingerprint(r) \/ SaveFingerprint(r) \/ SaveOutcome(r)

LearnSpec == LearnInit /\ [][LearnNext]_learnVars

-----------------------------------------------------------------------------
(* Properties *)

AllResting == \A r \in Recorders : At(r, "idle")
OutcomesOf(e) == {i \in DOMAIN outcomes : outcomes[i].cached /\ outcomes[i].engine = e}

\* However recordings overlap, every outcome of a cached ticket is counted in one
\* fingerprint of its engine and in no second one, and fingerprints are made only while
\* the engine has none: at most one by each recorder.  What the overlap of first outcomes
\* loses is what those made in vain have counted; later ones are never lost.
OutcomesCount ==
  \A e \in Engines :
    LET made == {p \in DOMAIN prints : prints[p].engine = e} IN
    /\ Cardinality(made) <= Cardinality(Recorders)
    /\ AllResting => MapThenSumSet(LAMBDA p : prints[p].tasks, made) = Cardinality(OutcomesOf(e))


\* ProcessTicket rejects a ticket for its predicted cost only with a cause, whatever its
\* complexity and whichever of equally near outcomes are taken: with NearestK outcomes of
\* the engine at least two of them were beyond the limit, so that one costly run rejects
\* nobody; with fewer one was; with less than two the scaled range of the engine is.
RejectionsHaveCause ==
  \A e \in Engines, o \in Outcomes :
    LET mine == {i \in DOMAIN history : history[i].engine = e}
        costly == {i \in mine : history[i].cost > MaxPredictedCost}
    IN \/ IF Cardinality(mine) < 2 THEN 150 * CostRange(e).high > 100 * MaxPredictedCost
          ELSE Cardinality(costly) >= IF Cardinality(mine) < NearestK THEN 1 ELSE 2
       \/ \A p \in Predict(Complexity(o), e) : ~ShouldAutoReject(p)

\* Once enough runs of a repository, engine and task type are recorded, the watchdog judges
\* the next one by what they were like.
LearnedIsUsed ==
  \A o \in Outcomes : ProfileKey(o) \in Trusted => ResolveRules(o) # {}
=============================================================================
