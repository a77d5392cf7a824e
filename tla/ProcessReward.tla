--------------------------- MODULE ProcessReward ---------------------------
(***************************************************************************)
(* The process reward model (internal/prm): every tool call of an agent is  *)
(* buffered; every EvaluationInterval calls the last WindowSize of them are *)
(* scored, the score joins a bounded trajectory, and the trajectory decides *)
(* between carrying on, a hint for the agent and an escalation.             *)
(***************************************************************************)
EXTENDS Integers, Sequences, FiniteSets, SequencesExt

CONSTANTS
    ToolNames,        \* tools the agent may call
    ReadTools, EditTools, TestTools,   \* isReadTool, isEditTool, isTestTool
    Intervals,        \* values of EvaluationInterval
    WindowSize,
    MaxTrajectoryLength,
    NudgeAt,          \* ScoreThresholdNudge
    EscalateAt,       \* ScoreThresholdEscalate
    MaxToolCalls      \* bound on the calls of a run

VARIABLES
    interval,      \* EvaluationInterval of this evaluator
    called,        \* every tool call of the run, in order
    eventBuffer,   \* the calls the evaluator still holds
    trajectory,    \* the scores the trajectory still holds
    advice         \* what the last evaluation decided

prmVars == <<interval, called, eventBuffer, trajectory, advice>>

\* The last n elements of s, or all of them.
Recent(s, n) == IF Len(s) > n THEN SubSeq(s, Len(s) - n + 1, Len(s)) ELSE s

\* maxConsecutiveRepeats: the longest run of one tool.
MaxConsecutiveRepeats(tools) ==
    CHOOSE n \in 1..Len(tools) :
        LET HasRun(m) == \E i \in 1..(Len(tools) - m + 1) :
                            \A j \in i..(i + m - 1) : tools[j] = tools[i]
        IN HasRun(n) /\ ~ HasRun(n + 1)

HasPattern(tools, A, B) ==
    \E i \in 1..(Len(tools) - 1) : tools[i] \in A /\ tools[i + 1] \in B

Least(a, b) == IF a < b THEN a ELSE b
Most(a, b) == IF a > b THEN a ELSE b

\* ScoreStep: from a baseline of 5, minus repetition, plus productive pairs of
\* calls, plus or minus diversity, kept within 1..10.
ScoreStep(tools) ==
    LET n == Len(tools)
        unique == Cardinality(ToSet(tools))
        repeats == MaxConsecutiveRepeats(tools)
        raw == 5
               - (IF repeats >= 4 THEN Least(3, repeats - 3) ELSE 0)
               + (IF HasPattern(tools, ReadTools, EditTools) THEN 2 ELSE 0)
               + (IF HasPattern(tools, EditTools, TestTools) THEN 2 ELSE 0)
               + (IF n >= 3 /\ 10 * unique > 7 * n THEN 1 ELSE 0)
               - (IF n >= 5 /\ 100 * unique <= 15 * n THEN 2 ELSE 0)
    IN IF n = 0 THEN 5 ELSE Most(1, Least(10, raw))

\* hasConsecutiveDrops, hasConsecutiveIncreases, hasPlateau and hasOscillation
\* look at the tail of the scores only.
Steps(ss, n) == LET t == Recent(ss, n + 1) IN [i \in 1..n |-> t[i + 1] - t[i]]
HasConsecutiveDrops(ss, n) == Len(ss) >= n + 1 /\ \A i \in 1..n : Steps(ss, n)[i] < 0
HasConsecutiveIncreases(ss, n) == Len(ss) >= n + 1 /\ \A i \in 1..n : Steps(ss, n)[i] > 0
HasPlateau(ss, n) == Len(ss) >= n /\ \A x, y \in ToSet(Recent(ss, n)) : x = y
HasOscillation(ss, n) ==
    /\ Len(ss) >= n + 1
    /\ \A i \in 1..n : Steps(ss, n)[i] # 0
    /\ \A i \in 2..n : (Steps(ss, n)[i] > 0) # (Steps(ss, n)[i - 1] > 0)

Pattern(ss) ==
    IF Len(ss) < 3 THEN "none"
    ELSE IF HasConsecutiveDrops(ss, 3) THEN "sustained_decline"
    ELSE IF HasOscillation(ss, 4) THEN "oscillation"
    ELSE IF HasPlateau(ss, 5) THEN "plateau"
    ELSE IF HasConsecutiveIncreases(ss, 3) THEN "recovery"
    ELSE "none"

CurrentTrend(ss) ==
    IF Len(ss) < 2 THEN "stable"
    ELSE IF Last(ss) < ss[Len(ss) - 1] THEN "declining"
    ELSE IF Last(ss) > ss[Len(ss) - 1] THEN "improving"
    ELSE "stable"

\* Decide: a good score carries on whatever the pattern; a bad one escalates
\* only in a sustained decline; any other bad sign is a nudge.
Decide(ss) ==
    IF Last(ss) >= NudgeAt THEN "continue"
    ELSE IF Last(ss) <= EscalateAt /\ Pattern(ss) = "sustained_decline" THEN "escalate"
    ELSE IF \/ CurrentTrend(ss) = "declining"
            \/ Pattern(ss) \in {"oscillation", "sustained_decline", "plateau"}
         THEN "nudge"
    ELSE "continue"

\* AddScore: the trajectory forgets its oldest score when it is full.
\* (Variant: it forgets one score too many.)
AddScoreShort(ss, x) == Recent(Append(ss, x), MaxTrajectoryLength - 1)
AddScore(ss, x) == Recent(Append(ss, x), MaxTrajectoryLength)

\* evaluate trims the buffer to the window after it has been scored.
Trim(buf) == Recent(buf, WindowSize)

PrmInit ==
    /\ interval \in Intervals
    /\ called = <<>> /\ eventBuffer = <<>>
    /\ trajectory = <<>> /\ advice = "continue"

\* ProcessEvent for a tool call; other events change nothing.
ProcessEvent(tool) ==
    LET buf == Append(eventBuffer, tool)
        count == Len(called) + 1
        score == ScoreStep(Recent(buf, WindowSize))
    IN /\ Len(called) < MaxToolCalls
       /\ called' = Append(called, tool)
       /\ UNCHANGED interval
       /\ IF count % interval # 0
          THEN /\ eventBuffer' = buf
               /\ UNCHANGED <<trajectory, advice>>
          ELSE /\ trajectory' = AddScore(trajectory, score)
               /\ advice' = Decide(AddScore(trajectory, score))
               /\ eventBuffer' = Trim(buf)

PrmNext == \E tool \in ToolNames : ProcessEvent(tool)
PrmSpec == PrmInit /\ [][PrmNext]_prmVars

\* The score of every evaluation, from all the calls before it.
AllScores ==
    [k \in 1..(Len(called) \div interval) |->
        ScoreStep(Recent(SubSeq(called, 1, k * interval), WindowSize))]

\* The advice is the one that all the calls of the run ask for: cutting the buffer
\* to the window and the trajectory to its length never hides a pattern or invents
\* one (evaluate, AddScore, Pattern, Decide).
ForgettingChangesNothing == AllScores # <<>> => advice = Decide(AllScores)
=============================================================================
