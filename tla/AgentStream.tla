---------------------------- MODULE AgentStream ----------------------------
(***************************************************************************)
(* The event stream of one TaskRun over its attempts: the agent's pod      *)
(* writes lines, the last of which is its result; a reader goroutine       *)
(* follows the pod's log into a channel; a forwarder goroutine takes the   *)
(* events out and captures the result; the reconcile loop drains them when *)
(* the Job has ended and then uses the result.                             *)
(***************************************************************************)
EXTENDS Integers

CONSTANTS
  MaxAttempts,    \* Jobs of the run: the first one and its relaunches
  LinesPerPod,    \* lines a successful agent writes, the result last
  ChannelCap,     \* capacity of the event channel
  StreamMishaps   \* subsets of {"failure", "stream", "fallback"} to consider

VARIABLES
  stmishaps,
  attempt,        \* the Job in progress
  pods, written,  \* of each Job: its pod, and the lines it has written
  rd,             \* the stream reader started with each Job
  entry,          \* whose reader streamReaders and streamDone hold; 0 for none
  result,         \* the pod tr.Result was captured from; 0 for nil
  lpc, final,     \* the loop; the result the completion used
  drainTimedOut

streamVars == <<stmishaps, attempt, pods, written, rd, entry, result, lpc, final, drainTimedOut>>

Attempts == 1..MaxAttempts
NoReader == [st |-> "none", pod |-> 0, read |-> 0, handled |-> 0, cancelled |-> FALSE]
NewReader == [NoReader EXCEPT !.st = "resolving"]

StreamInit ==
  /\ stmishaps \in StreamMishaps
  /\ attempt = 1 /\ entry = 1 /\ result = 0 /\ lpc = "idle" /\ final = 0
  /\ pods = [a \in Attempts |-> IF a = 1 THEN "pending" ELSE "none"]
  /\ written = [a \in Attempts |-> 0]
  /\ rd = [a \in Attempts |-> IF a = 1 THEN NewReader ELSE NoReader]
  /\ drainTimedOut = FALSE

-----------------------------------------------------------------------------
(* The pods *)

PodStarts(a) ==
  /\ pods[a] = "pending" /\ pods' = [pods EXCEPT ![a] = "running"]
  /\ UNCHANGED <<stmishaps, attempt, written, rd, entry, result, lpc, final, drainTimedOut>>

PodWrites(a) ==
  /\ pods[a] = "running" /\ written[a] < LinesPerPod
  /\ written' = [written EXCEPT ![a] = @ + 1]
  /\ UNCHANGED <<stmishaps, attempt, pods, rd, entry, result, lpc, final, drainTimedOut>>

\* An agent that fails may have written a result, one that says so, or not.
PodEnds(a) ==
  /\ pods[a] = "running"
  /\ \/ written[a] = LinesPerPod /\ pods' = [pods EXCEPT ![a] = "succeeded"]
     \/ "failure" \in stmishaps /\ pods' = [pods EXCEPT ![a] = "failed"]
  /\ UNCHANGED <<stmishaps, attempt, written, rd, entry, result, lpc, final, drainTimedOut>>

\* ttlSecondsAfterFinished removes the Job and its pod.
PodRemoved(a) ==
  /\ pods[a] = "failed" /\ a < attempt
  /\ pods' = [pods EXCEPT ![a] = "none"]
  /\ UNCHANGED <<stmishaps, attempt, written, rd, entry, result, lpc, final, drainTimedOut>>

-----------------------------------------------------------------------------
(* The reader and the forwarder of attempt a *)

\* Build labels the pods of a Job with the id it is given: the run's own id for the
\* first Job, "<id>-r1", "<id>-fb2" or "<id>-c1" for the others.
JobLabel(a) == IF a = 1 THEN "id" ELSE "id-suffixed"

\* resolvePodName: pods labelled with the run's id whose agent has started.
MatchingPods ==
  {p \in Attempts : JobLabel(p) = "id" /\ pods[p] \notin {"none", "pending"}}

ResolvePodName(a) ==
  /\ rd[a].st = "resolving" /\ ~rd[a].cancelled
  /\ \E p \in MatchingPods : rd' = [rd EXCEPT ![a].st = "reading", ![a].pod = p]
  /\ UNCHANGED <<stmishaps, attempt, pods, written, entry, result, lpc, final, drainTimedOut>>

\* ReadStream blocks while the channel is full.
ReadStream(a) ==
  /\ rd[a].st = "reading" /\ ~rd[a].cancelled
  /\ rd[a].read < written[rd[a].pod] /\ rd[a].read - rd[a].handled < ChannelCap
  /\ rd' = [rd EXCEPT ![a].read = @ + 1]
  /\ UNCHANGED <<stmishaps, attempt, pods, written, entry, result, lpc, final, drainTimedOut>>

\* The log ends, or the API fails, or a line is longer than the scanner takes.
LogEnds(a) ==
  rd[a].st = "reading" /\ pods[rd[a].pod] # "running" /\ rd[a].read = written[rd[a].pod]

StreamCloses(a) ==
  /\ rd[a].st \in {"resolving", "reading"}
  /\ LogEnds(a) \/ "stream" \in stmishaps \/ rd[a].cancelled
  /\ rd' = [rd EXCEPT ![a].st = "closed"]
  /\ UNCHANGED <<stmishaps, attempt, pods, written, entry, result, lpc, final, drainTimedOut>>

\* Forward hands an event to the processors; resultProcessor captures the last one.
HandleEvent(a) ==
  /\ rd[a].st \in {"reading", "closed"} /\ rd[a].handled < rd[a].read
  /\ rd' = [rd EXCEPT ![a].handled = @ + 1]
  /\ result' = IF rd'[a].handled = LinesPerPod THEN rd[a].pod ELSE result
  /\ UNCHANGED <<stmishaps, attempt, pods, written, entry, lpc, final, drainTimedOut>>

\* Forward returns: the channel is closed and empty, or the context is cancelled.
\* Then done is closed.
ForwardReturns(a) ==
  /\ rd[a].st \in {"resolving", "reading", "closed"}
  /\ rd[a].cancelled \/ (rd[a].st = "closed" /\ rd[a].handled = rd[a].read)
  /\ rd' = [rd EXCEPT ![a].st = "done"]
  /\ UNCHANGED <<stmishaps, attempt, pods, written, entry, result, lpc, final, drainTimedOut>>

-----------------------------------------------------------------------------
(* The reconcile loop *)

JobEndSeen ==
  /\ lpc = "idle" /\ pods[attempt] \in {"succeeded", "failed"} /\ lpc' = "drain"
  /\ UNCHANGED <<stmishaps, attempt, pods, written, rd, entry, result, final, drainTimedOut>>

\* Variants: the reader is not waited for; it is forgotten and not cancelled.
CancelAtOnce ==
  /\ lpc = "drain" /\ lpc' = "finish" /\ entry' = 0
  /\ rd' = IF entry = 0 THEN rd ELSE [rd EXCEPT ![entry].cancelled = TRUE]
  /\ UNCHANGED <<stmishaps, attempt, pods, written, result, final, drainTimedOut>>
ForgetReader ==
  /\ lpc = "drain" /\ lpc' = "finish" /\ entry' = 0
  /\ drainTimedOut' = (entry # 0 /\ rd[entry].st # "done")
  /\ UNCHANGED <<stmishaps, attempt, pods, written, rd, result, final>>

\* drainStreamReader: done is closed, or streamDrainTimeout has passed; then
\* cancelStreamReader.
DrainStreamReader ==
  /\ lpc = "drain" /\ lpc' = "finish" /\ entry' = 0
  /\ IF entry = 0 THEN UNCHANGED <<rd, drainTimedOut>>
     ELSE /\ drainTimedOut' = (drainTimedOut \/ rd[entry].st # "done")
          /\ rd' = [rd EXCEPT ![entry].cancelled = TRUE]
  /\ UNCHANGED <<stmishaps, attempt, pods, written, result, final>>

\* handleJobComplete uses tr.Result, or a generic result, here -1, without one.
Complete ==
  /\ lpc = "finish" /\ pods[attempt] = "succeeded"
  /\ lpc' = "done" /\ final' = IF result = 0 THEN -1 ELSE result
  /\ UNCHANGED <<stmishaps, attempt, pods, written, rd, entry, result, drainTimedOut>>

\* handleJobFailed relaunches: a retry and a continuation start a reader, a
\* fallback does not.  tr.Result is kept.
Relaunch ==
  /\ lpc = "finish" /\ pods[attempt] = "failed"
  /\ IF attempt = MaxAttempts THEN lpc' = "done" /\ UNCHANGED <<attempt, pods, rd, entry>>
     ELSE /\ lpc' = "idle" /\ attempt' = attempt + 1
          /\ pods' = [pods EXCEPT ![attempt'] = "pending"]
          /\ \/ entry' = attempt' /\ rd' = [rd EXCEPT ![attempt'] = NewReader]
             \/ "fallback" \in stmishaps /\ UNCHANGED <<entry, rd>>
  /\ UNCHANGED <<stmishaps, written, result, final, drainTimedOut>>

ReaderStep(a) ==
  ResolvePodName(a) \/ ReadStream(a) \/ StreamCloses(a) \/ HandleEvent(a) \/ ForwardReturns(a)
StreamLoop == JobEndSeen \/ DrainStreamReader \/ Complete \/ Relaunch

StreamNext ==
  \/ StreamLoop
  \/ \E a \in Attempts :
       PodStarts(a) \/ PodWrites(a) \/ PodEnds(a) \/ PodRemoved(a) \/ ReaderStep(a)

StreamSpec == StreamInit /\ [][StreamNext]_streamVars

-----------------------------------------------------------------------------
(* Properties *)

\* The result of a run that succeeds at once is not dropped for a generic one, unless
\* the log failed or took longer than streamDrainTimeout.
ResultIsKept ==
  final = -1 /\ attempt = 1 => drainTimedOut \/ "stream" \in stmishaps

\* No reader goroutine outlives its run.
ReadersStop == lpc = "done" ~> \A a \in Attempts : rd[a].st \in {"none", "done"}
=============================================================================
