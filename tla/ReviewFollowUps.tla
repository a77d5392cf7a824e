-------------------------- MODULE ReviewFollowUps --------------------------
(***************************************************************************)
(* Review follow-ups of one pull request: the review poller                *)
(* (internal/reviewpoller), the reconcile loop that drains it and launches *)
(* follow-up runs, and the rebuilding of the poller's memory from the      *)
(* TaskRun store after a restart.  Reviewers comment at any moment; the    *)
(* process may crash at any moment when the store is the SQLite one.       *)
(***************************************************************************)
EXTENDS Integers, Sequences, FiniteSets

CONSTANTS
  FollowUpLimits, \* values of review_response.max_follow_up_jobs to consider
  MinSeverity,    \* review_response.min_severity
  CommentKinds,   \* what reviewers may write
  SummaryKinds,   \* what a finished follow-up may write
  MaxEvents,      \* bound on the time of the last comment
  ReviewMishaps   \* subsets of {"crash", "identity", "launch", "llm"} to consider

ASSUME FollowUpAssumption == FollowUpLimits \subseteq Nat \ {0}

VARIABLES
  rmishaps, maxFollowUps,   \* what may go wrong, and the limit in force
  clock,          \* the last timestamp given out
  pr,             \* "none", "open" or "merged"
  openedAt,       \* UpdatedAt of the run that opened it
  thread,         \* its review comments
  watched,        \* the poller tracks it: FALSE or TRUE
  count, processed, ignoreBefore,   \* its TrackedPR
  ppc, listed,    \* the poll in progress: control point and comments fetched
  followUps,      \* requests emitted and not yet drained
  drained,        \* requests the reconcile loop still has to launch
  fstore,         \* follow-up runs in the TaskRun store, oldest first
  fjobs,          \* those with a Job the controller follows
  up              \* the process is up

pollerVars == <<watched, count, processed, ignoreBefore, ppc, listed, followUps>>
settings == <<rmishaps, maxFollowUps>>
reviewVars == <<settings, clock, pr, openedAt, thread, pollerVars, drained,
                fstore, fjobs, up>>

Severity == [info |-> 0, warning |-> 1, error |-> 2]

\* meetsMinSeverity
MeetsMinSeverity(s) == Severity[s] >= Severity[MinSeverity]

\* prefilterBotSummary: bots are only listened to on lines of the diff.
Prefiltered(k) == k.bot /\ ~k.inline

\* RuleBasedClassifier.Classify: whether the comment asks for work, and how badly.
RuleSeverity(k) ==
  CASE k.empty \/ Prefiltered(k)         -> "none"
    [] "error" \in k.words               -> "error"
    [] "warning" \in k.words             -> "warning"
    [] OTHER                             -> "none"

\* LLMClassifier.Classify: any answer it may give, the fallback included.
Severities(k) ==
  CASE Prefiltered(k)       -> {"none"}
    [] "llm" \in rmishaps   -> {"none", "info", "warning", "error"}
    [] OTHER                -> {RuleSeverity(k)}

Acts(s) == s # "none" /\ MeetsMinSeverity(s)
MayAct(k) == \E s \in Severities(k) : Acts(s)
MayIgnore(k) == \E s \in Severities(k) : ~Acts(s)

ReviewInit ==
  /\ rmishaps \in ReviewMishaps /\ maxFollowUps \in FollowUpLimits
  /\ clock = 0 /\ pr = "none" /\ openedAt = 0 /\ thread = {}
  /\ watched = FALSE /\ count = 0 /\ processed = {} /\ ignoreBefore = 0
  /\ ppc = "idle" /\ listed = {}
  /\ followUps = <<>> /\ drained = <<>> /\ fstore = <<>> /\ fjobs = {}
  /\ up = TRUE

Stamp == clock' = clock + 1
Within == clock < MaxEvents   \* bound on what is written on the PR

-----------------------------------------------------------------------------
(* The pull request *)

\* handleJobComplete saves the run that opened it, then registerForReview.
\* Register does nothing for a PR that is tracked.
Register ==
  /\ up /\ pr = "none"
  /\ Stamp /\ pr' = "open" /\ openedAt' = clock'
  /\ watched' = TRUE /\ count' = 0 /\ processed' = {} /\ ignoreBefore' = 0
  /\ UNCHANGED <<settings, thread, ppc, listed, followUps, drained, fstore, fjobs, up>>

Comment(k) ==
  /\ pr = "open" /\ Within /\ Stamp
  /\ thread' = thread \cup {[at |-> clock', self |-> FALSE, kind |-> k]}
  /\ UNCHANGED <<settings, pr, openedAt, pollerVars, drained, fstore, fjobs, up>>

Merge ==
  /\ pr = "open" /\ pr' = "merged"
  /\ UNCHANGED <<settings, clock, openedAt, thread, pollerVars, drained, fstore, fjobs, up>>

-----------------------------------------------------------------------------
(* The poller's goroutine *)

\* poll and the first half of pollPR: status, then the comments.  Skipping the
\* PR (settling, no backend, an API error) is a poll that does not happen.
PollPR ==
  /\ up /\ ppc = "idle" /\ watched
  /\ \/ /\ pr = "open"
        /\ listed' = thread /\ ppc' = "listed"
        /\ UNCHANGED watched
     \/ /\ pr = "merged"
        /\ watched' = FALSE
        /\ UNCHANGED <<listed, ppc>>
  /\ UNCHANGED <<settings, clock, pr, openedAt, thread, count, processed, ignoreBefore,
                 followUps, drained, fstore, fjobs, up>>

\* Comments the loop of pollPR hands to the classifier; selfUser may not know
\* the account Osmia comments as.
ToClassify(knowsSelf) ==
  {c \in listed \ processed : c.at >= ignoreBefore /\ ~(knowsSelf /\ c.self)}

\* The second half of pollPR: everything fetched is processed from now on, and
\* the actionable comments make one request unless the PR had its share.
ClassifyAndEmit(knowsSelf, A) ==
  /\ up /\ ppc = "listed"
  /\ knowsSelf \/ "identity" \in rmishaps
  /\ A \subseteq ToClassify(knowsSelf)
  /\ \A c \in A : MayAct(c.kind)
  /\ \A c \in ToClassify(knowsSelf) \ A : MayIgnore(c.kind)
  /\ processed' = processed \cup listed
  /\ IF A # {} /\ count < maxFollowUps
     THEN count' = count + 1 /\ followUps' = Append(followUps, A)
     ELSE UNCHANGED <<count, followUps>>
  /\ ppc' = "idle" /\ listed' = {}
  /\ UNCHANGED <<settings, clock, pr, openedAt, thread, watched, ignoreBefore, drained,
                 fstore, fjobs, up>>

-----------------------------------------------------------------------------
(* The reconcile loop *)

\* Variant: only the first request survives the draining.
DrainOne ==
  /\ up /\ drained = <<>> /\ followUps # <<>>
  /\ drained' = <<Head(followUps)>> /\ followUps' = <<>>
  /\ UNCHANGED <<settings, clock, pr, openedAt, thread, watched, count, processed,
                 ignoreBefore, ppc, listed, fstore, fjobs, up>>

DrainFollowUps ==
  /\ up /\ drained = <<>> /\ followUps # <<>>
  /\ drained' = followUps /\ followUps' = <<>>
  /\ UNCHANGED <<settings, clock, pr, openedAt, thread, watched, count, processed,
                 ignoreBefore, ppc, listed, fstore, fjobs, up>>

\* processFollowUpTask: without an engine the request is dropped; otherwise the
\* run is saved, and dropped there when its session, spec or Job fails.
ProcessFollowUpTask ==
  /\ up /\ drained # <<>>
  /\ drained' = Tail(drained)
  /\ \/ /\ Stamp
        /\ fstore' = Append(fstore, [at |-> clock', batch |-> Head(drained)])
        /\ \/ fjobs' = fjobs \cup {Len(fstore')}
           \/ "launch" \in rmishaps /\ UNCHANGED fjobs
     \/ "launch" \in rmishaps /\ UNCHANGED <<clock, fstore, fjobs>>
  /\ UNCHANGED <<settings, pr, openedAt, thread, pollerVars, up>>

\* handleFollowUpComplete answers the comments it was about, on the PR.
HandleFollowUpComplete(i, k) ==
  /\ up /\ i \in fjobs
  /\ fjobs' = fjobs \ {i}
  /\ Within /\ Stamp /\ thread' = thread \cup {[at |-> clock', self |-> TRUE, kind |-> k]}
  /\ UNCHANGED <<settings, pr, openedAt, pollerVars, drained, fstore, up>>

-----------------------------------------------------------------------------
(* Crash and restart *)

CrashController ==
  /\ "crash" \in rmishaps /\ up
  /\ up' = FALSE
  /\ watched' = FALSE /\ count' = 0 /\ processed' = {} /\ ignoreBefore' = 0
  /\ ppc' = "idle" /\ listed' = {} /\ followUps' = <<>> /\ drained' = <<>> /\ fjobs' = {}
  /\ UNCHANGED <<settings, clock, pr, openedAt, thread, fstore>>

\* reviewTrackingFromTaskRuns: the newer of the PR's opening and its last follow-up.
HandledUntil ==
  IF fstore = <<>> THEN openedAt ELSE fstore[Len(fstore)].at

\* Variant: the point handled so far is not carried over.
RestoreTimeless ==
  /\ ~up /\ up' = TRUE
  /\ watched' = (pr # "none") /\ count' = Len(fstore)
  /\ UNCHANGED <<settings, clock, pr, openedAt, thread, processed, ignoreBefore, ppc, listed,
                 followUps, drained, fstore, fjobs>>

\* restoreReviewTracking and Restore, within the restore window.
RestoreReviewTracking ==
  /\ ~up /\ up' = TRUE
  /\ watched' = (pr # "none") /\ count' = Len(fstore) /\ ignoreBefore' = HandledUntil
  /\ UNCHANGED <<settings, clock, pr, openedAt, thread, processed, ppc, listed,
                 followUps, drained, fstore, fjobs>>

-----------------------------------------------------------------------------
PollerStep ==
  \/ PollPR
  \/ \E b \in BOOLEAN : \E A \in SUBSET ToClassify(b) : ClassifyAndEmit(b, A)

LoopStep == DrainFollowUps \/ ProcessFollowUpTask

ReviewNext ==
  \/ Register \/ Merge \/ PollerStep \/ LoopStep
  \/ \E k \in CommentKinds : Comment(k)
  \/ \E i \in fjobs, k \in SummaryKinds : HandleFollowUpComplete(i, k)
  \/ CrashController \/ RestoreReviewTracking

ReviewSpec == ReviewInit /\ [][ReviewNext]_reviewVars

-----------------------------------------------------------------------------
(* Properties *)

\* A restart gives a PR no new follow-ups: the number launched in all lives of the
\* process stays within max_follow_up_jobs (pollPR, reviewTrackingFromTaskRuns).
FollowUpBudget == Len(fstore) <= maxFollowUps

\* No comment is handed to two follow-ups, although what was processed is forgotten
\* in a crash and comments are fetched again after it (IgnoreBefore).
HandledOnce ==
  \A i, j \in 1..Len(fstore) : i # j => fstore[i].batch \cap fstore[j].batch = {}

\* Unless something fails, no comment that asks for work stays unanswered for ever: it is
\* handed to a follow-up, or the PR is merged or has had its share of them.
CommentIsAddressed ==
  []<>(rmishaps = {} /\ pr # "merged" /\ Len(fstore) < maxFollowUps =>
         \A c \in thread : ~c.self /\ MayAct(c.kind) => \E i \in DOMAIN fstore : c \in fstore[i].batch)
=============================================================================
