---------------------------- MODULE Flows_proofs ----------------------------
(***************************************************************************)
(* The sessions an agent resumes, the follow-ups of pull requests and the  *)
(* log of the agent.                                                       *)
(***************************************************************************)
EXTENDS ReviewFollowUps, AgentStream, Sessions, TLAPS

-----------------------------------------------------------------------------
(* A later Job of a run finds the conversations of the earlier ones, for any  *)
(* TTL and any number of Jobs.                                                *)

Volumes == [exists : BOOLEAN, age : Nat, idle : Nat, talks : SUBSET Nat, doomed : BOOLEAN]

SessionTypes ==
  /\ volume \in Volumes
  /\ njob \in Nat /\ silent \in Nat /\ rested \in Nat /\ spoken \subseteq 1 .. njob
  /\ phase = "running" => njob > 0

\* A directory has been idle for no longer than the conversation has been silent, and
\* that for no longer than the longest silence so far.
SilenceIsSeen == volume.idle <= silent /\ silent <= rested

\* As long as no silence has outlasted the TTL, the directory holds all that was said.
AllIsKept ==
  backend = "shared-pvc" /\ rested <= TTL =>
    /\ njob > 0 => volume.exists
    /\ ~ volume.doomed /\ volume.talks = spoken

SessionInv == SessionTypes /\ SilenceIsSeen /\ AllIsKept /\ SessionIsResumed

LEMMA SessionStepsKeep ==
  ASSUME TTL \in Nat, SessionInv, [SessionNext]_sessionVars
  PROVE SessionInv'
<1>t. /\ volume \in Volumes /\ volume.idle \in Nat /\ volume.age \in Nat /\ volume.talks \subseteq Nat
      /\ njob \in Nat /\ silent \in Nat /\ rested \in Nat /\ spoken \subseteq 1 .. njob
      /\ NoVolume \in Volumes /\ NoVolume.idle = 0 /\ NoVolume.talks = {} /\ NoVolume.doomed = FALSE
  BY Zenon DEF SessionInv, SessionTypes, Volumes, NoVolume
<1>1. CASE LaunchJob
  <2>1. /\ volume' \in Volumes /\ volume'.exists /\ njob' = njob + 1
        /\ volume.exists => volume' = volume
        /\ ~ volume.exists => volume'.idle = 0 /\ volume'.talks = {} /\ ~ volume'.doomed
        /\ resumed' = volume'.talks
        /\ UNCHANGED <<backend, spoken, silent, rested>>
    BY <1>1, <1>t, Zenon DEF LaunchJob, Volumes, NoVolume
  <2>2. njob + 1 \notin spoken /\ spoken \subseteq 1 .. njob' /\ (njob = 0 => spoken = {})
    BY <1>t, <2>1
  <2>3. SessionTypes' /\ SilenceIsSeen'
    BY <1>t, <2>1, <2>2 DEF SessionTypes, SessionInv, SilenceIsSeen
  <2>4. backend = "shared-pvc" /\ rested <= TTL => volume'.talks = spoken /\ ~ volume'.doomed
    <3>1. CASE volume.exists
      BY <2>1, <3>1 DEF SessionInv, AllIsKept
    <3>2. CASE ~ volume.exists /\ njob = 0
      BY <2>1, <2>2, <3>2, Zenon
    <3>3. CASE ~ volume.exists /\ njob > 0
      BY <3>3 DEF SessionInv, AllIsKept
    <3> QED
      BY <1>t, <3>1, <3>2, <3>3
  <2>5. AllIsKept' /\ SessionIsResumed'
    BY <2>1, <2>2, <2>4 DEF AllIsKept, SessionIsResumed
  <2> QED
    BY <2>3, <2>5 DEF SessionInv
<1>2. CASE AgentTalks
  <2>1. /\ volume' \in Volumes /\ volume'.idle = 0 /\ volume'.talks = volume.talks \cup {njob}
        /\ volume'.exists /\ volume'.doomed = volume.doomed
    BY <1>2, <1>t, Zenon DEF AgentTalks, Volumes
  <2>2. SessionTypes' /\ SilenceIsSeen'
    <3>1. njob \in 1 .. njob
      BY <1>2, <1>t DEF AgentTalks, SessionInv, SessionTypes
    <3> QED
      BY <1>2, <1>t, <2>1, <3>1 DEF AgentTalks, SessionTypes, SessionInv, SilenceIsSeen
  <2>3. AllIsKept' /\ SessionIsResumed'
    BY <1>2, <2>1 DEF AgentTalks, SessionInv, AllIsKept, SessionIsResumed
  <2> QED
    BY <2>2, <2>3 DEF SessionInv
<1>3. CASE JobFinishes
  <2>1. /\ volume' \in Volumes /\ volume'.idle <= volume.idle /\ phase' # "running"
        /\ ~ volume.doomed => volume' = volume
    BY <1>3, <1>t DEF JobFinishes
  <2> QED
    BY <1>3, <1>t, <2>1
    DEF JobFinishes, SessionTypes, Volumes, SessionInv, SilenceIsSeen, AllIsKept, SessionIsResumed
<1>4. CASE LaunchRefused \/ GiveUp
  BY <1>4, Zenon DEF LaunchRefused, GiveUp, SessionTypes, SessionInv, SilenceIsSeen,
       AllIsKept, SessionIsResumed
<1>5. CASE Sweep
  <2>1. ~ (backend = "shared-pvc" /\ rested <= TTL)
    BY <1>5, <1>t DEF Sweep, Stale, SessionInv, SilenceIsSeen
  <2>2. CASE volume' = NoVolume
    BY <1>5, <1>t, <2>1, <2>2
    DEF Sweep, SessionTypes, SessionInv, SilenceIsSeen, AllIsKept, SessionIsResumed
  <2>3. CASE volume' = [volume EXCEPT !.doomed = TRUE]
    <3>1. volume' \in Volumes /\ volume'.idle = volume.idle
      BY <1>t, <2>3, Zenon DEF Volumes
    <3> QED
      BY <1>5, <1>t, <2>1, <3>1
      DEF Sweep, SessionTypes, SessionInv, SilenceIsSeen, AllIsKept, SessionIsResumed
  <2> QED
    BY <1>5, <2>2, <2>3 DEF Sweep
<1>6. CASE Ages
  <2>1. /\ Older(volume.idle) \in Nat /\ Older(volume.age) \in Nat /\ Older(silent) \in Nat
        /\ Older(volume.idle) <= Older(silent)
    BY <1>t DEF Older, SessionInv, SilenceIsSeen
  <2>2. /\ volume' \in Volumes /\ volume'.idle = Older(volume.idle) /\ volume'.talks = volume.talks
        /\ volume'.exists = volume.exists /\ volume'.doomed = volume.doomed
    BY <1>6, <1>t, <2>1, Zenon DEF Ages, Volumes
  <2>3. silent' = Older(silent) /\ rested' \in Nat /\ rested <= rested' /\ silent' <= rested'
    BY <1>6, <1>t, <2>1 DEF Ages
  <2>4. SessionTypes' /\ SilenceIsSeen'
    BY <1>6, <1>t, <2>1, <2>2, <2>3, Zenon DEF Ages, SessionInv, SessionTypes, SilenceIsSeen
  <2>5. rested' <= TTL => rested <= TTL
    BY <1>t, <2>3
  <2>6. AllIsKept' /\ SessionIsResumed'
    BY <1>6, <2>2, <2>5 DEF Ages, SessionInv, AllIsKept, SessionIsResumed
  <2> QED
    BY <2>4, <2>6 DEF SessionInv
<1>7. CASE UNCHANGED sessionVars
  BY <1>7, Zenon DEF sessionVars, SessionTypes, SessionInv, SilenceIsSeen, AllIsKept,
       SessionIsResumed
<1> QED
  BY <1>1, <1>2, <1>3, <1>4, <1>5, <1>6, <1>7 DEF SessionNext

\* On the shared claim the cleaner takes no session away from a run whose agents spoke
\* within the TTL: each Job finds all that the earlier ones said (sweepSharedPVC,
\* newestModTime).
THEOREM SessionsAreResumed ==
  ASSUME TTL \in Nat
  PROVE SessionSpec => []SessionIsResumed
<1>1. SessionInit => SessionInv
  BY DEF SessionInit, SessionInv, SessionTypes, Volumes, NoVolume, SilenceIsSeen, AllIsKept,
         SessionIsResumed
<1>2. SessionInv /\ [SessionNext]_sessionVars => SessionInv'
  BY SessionStepsKeep
<1>3. SessionInv => SessionIsResumed
  BY DEF SessionInv
<1> QED
  BY <1>1, <1>2, <1>3, PTL DEF SessionSpec

-----------------------------------------------------------------------------
(* Follow-ups of a pull request stay within their budget and no comment is *)
(* handed to two of them, across crashes and restarts, for any comments,   *)
(* any limit and any behaviour of the classifier.                          *)

Comments == [at : Nat, self : BOOLEAN, kind : CommentKinds \cup SummaryKinds]
Batches == SUBSET Comments
FollowUpRuns == [at : Nat, batch : Batches]

ReviewTypes ==
  /\ maxFollowUps \in Nat /\ clock \in Nat /\ count \in Nat /\ ignoreBefore \in Nat
  /\ openedAt \in Nat
  /\ thread \in Batches /\ listed \in Batches /\ processed \in Batches
  /\ followUps \in Seq(Batches) /\ drained \in Seq(Batches) /\ fstore \in Seq(FollowUpRuns)

\* Every request counts when it is emitted; the count is forgotten in a crash, and the
\* requests that are not in the store yet with it.
Budgeted ==
  /\ Len(fstore) <= maxFollowUps
  /\ up => count <= maxFollowUps /\ Len(fstore) + Len(drained) + Len(followUps) <= count
  /\ ~ up => followUps = <<>> /\ drained = <<>>

\* Before there is a pull request there is nothing to follow up.
Nothing ==
  pr = "none" => /\ ~ watched /\ ppc = "idle"
                 /\ followUps = <<>> /\ drained = <<>> /\ fstore = <<>>

\* Comments and follow-up runs are stamped in the order they come in; a follow-up is
\* newer than its comments.
Stamped ==
  /\ \A c \in thread : c.at <= clock
  /\ listed \subseteq thread /\ processed \subseteq thread
  /\ openedAt <= clock
  /\ \A i \in 1 .. Len(fstore) : /\ fstore[i].at <= clock /\ fstore[i].batch \subseteq thread
                                 /\ \A c \in fstore[i].batch : c.at < fstore[i].at
  /\ \A i, j \in 1 .. Len(fstore) : i < j => fstore[i].at < fstore[j].at

\* What is in a request is processed, and what is in the store is processed or too old.
Known ==
  /\ \A i \in 1 .. Len(followUps) : followUps[i] \subseteq processed
  /\ \A i \in 1 .. Len(drained) : drained[i] \subseteq processed
  /\ up => \A i \in 1 .. Len(fstore) : \A c \in fstore[i].batch : c \in processed \/ c.at < ignoreBefore

\* Requests and follow-up runs share no comment.
Disjoint ==
  /\ HandledOnce
  /\ \A i, j \in 1 .. Len(followUps) : i # j => followUps[i] \cap followUps[j] = {}
  /\ \A i, j \in 1 .. Len(drained) : i # j => drained[i] \cap drained[j] = {}
  /\ \A i \in 1 .. Len(followUps) : \A j \in 1 .. Len(drained) : followUps[i] \cap drained[j] = {}
  /\ \A i \in 1 .. Len(followUps) : \A j \in 1 .. Len(fstore) : followUps[i] \cap fstore[j].batch = {}
  /\ \A i \in 1 .. Len(drained) : \A j \in 1 .. Len(fstore) : drained[i] \cap fstore[j].batch = {}

ReviewInv == ReviewTypes /\ Budgeted /\ Nothing /\ Stamped /\ Known /\ Disjoint

LEMMA InitiallyNothing == ReviewInit => ReviewInv
<1> SUFFICES ASSUME ReviewInit PROVE ReviewInv
  OBVIOUS
<1>1. ReviewTypes
  BY FollowUpAssumption DEF ReviewInit, ReviewTypes, Batches
<1>2. Budgeted /\ Nothing
  BY FollowUpAssumption DEF ReviewInit, Budgeted, Nothing
<1>3. Stamped /\ Known /\ Disjoint
  BY DEF ReviewInit, Stamped, Known, Disjoint, HandledOnce
<1> QED
  BY <1>1, <1>2, <1>3 DEF ReviewInv

\* What the elements of the sequences are; timestamps are numbers.
LEMMA Times ==
  ASSUME ReviewTypes
  PROVE  /\ \A c \in thread : c.at \in Nat
         /\ \A i \in 1 .. Len(fstore) : /\ fstore[i] \in FollowUpRuns /\ fstore[i].at \in Nat
                                        /\ fstore[i].batch \in Batches
         /\ \A i \in 1 .. Len(drained) : drained[i] \in Batches
         /\ \A i \in 1 .. Len(followUps) : followUps[i] \in Batches
<1>1. \A c \in thread : c.at \in Nat
  BY DEF ReviewTypes, Batches, Comments
<1>2. /\ \A i \in 1 .. Len(fstore) : fstore[i] \in FollowUpRuns
      /\ \A i \in 1 .. Len(drained) : drained[i] \in Batches
      /\ \A i \in 1 .. Len(followUps) : followUps[i] \in Batches
  BY DEF ReviewTypes
<1>3. \A f \in FollowUpRuns : f.at \in Nat /\ f.batch \in Batches
  BY DEF FollowUpRuns
<1> QED
  BY <1>1, <1>2, <1>3

\* The clock goes on, the thread grows by a comment of that time, and the poller's and
\* the loop's state stays: a comment, or the answer of a follow-up.
LEMMA ThreadGrows ==
  ASSUME ReviewInv, NEW s \in BOOLEAN, NEW k \in CommentKinds \cup SummaryKinds,
         clock' = clock + 1, thread' = thread \cup {[at |-> clock', self |-> s, kind |-> k]},
         UNCHANGED <<settings, pr, openedAt, pollerVars, drained, fstore, up>>
  PROVE  ReviewInv'
<1> DEFINE new == [at |-> clock + 1, self |-> s, kind |-> k]
<1> USE DEF ReviewInv
<1>1. clock \in Nat /\ clock + 1 \in Nat
  BY DEF ReviewTypes
<1>2. new \in Comments /\ new.at = clock + 1 /\ thread' = thread \cup {new}
  BY <1>1, Zenon DEF Comments
<1> HIDE DEF new
<1>3. ReviewTypes'
  BY <1>1, <1>2, Zenon DEF ReviewTypes, Batches, settings, pollerVars
<1>4. Budgeted' /\ Nothing'
  BY Zenon DEF Budgeted, Nothing, settings, pollerVars
<1>5. Stamped'
  <2>0. \A c \in thread : c.at \in Nat /\ c.at <= clock
    BY Zenon DEF Stamped, ReviewTypes, Batches, Comments
  <2>1. \A c \in thread' : c.at <= clock'
    BY <1>1, <1>2, <2>0
  <2>2. \A i \in 1 .. Len(fstore) : fstore[i].at \in Nat
    BY Times, Zenon
  <2> QED
    BY <1>1, <1>2, <2>1, <2>2 DEF Stamped, ReviewTypes, pollerVars
<1>6. Known' /\ Disjoint'
  BY Zenon DEF Known, Disjoint, HandledOnce, pollerVars
<1> QED
  BY <1>3, <1>4, <1>5, <1>6, Zenon

LEMMA RegisterKeeps ==
  ASSUME ReviewInv, Register
  PROVE  ReviewInv'
<1> USE DEF ReviewInv
<1>1. /\ followUps = <<>> /\ drained = <<>> /\ fstore = <<>> /\ ppc = "idle"
      /\ UNCHANGED <<followUps, drained, fstore, ppc, listed, thread, up, maxFollowUps>>
  BY DEF Register, Nothing, settings
<1>2. /\ pr' = "open" /\ clock' = clock + 1 /\ openedAt' = clock' /\ count' = 0
      /\ processed' = {} /\ ignoreBefore' = 0 /\ up
  BY DEF Register, Stamp
<1>3. ReviewTypes'
  BY <1>1, <1>2 DEF ReviewTypes, Batches
<1>4. Budgeted' /\ Nothing'
  BY <1>1, <1>2 DEF Budgeted, Nothing, ReviewTypes
<1>5. Stamped'
  BY <1>1, <1>2, Times DEF Stamped, ReviewTypes
<1>6. Known' /\ Disjoint'
  BY <1>1, <1>2 DEF Known, Disjoint, HandledOnce
<1> QED
  BY <1>3, <1>4, <1>5, <1>6

LEMMA PollKeeps ==
  ASSUME ReviewInv, PollPR
  PROVE  ReviewInv'
<1> USE DEF ReviewInv
<1>1. /\ listed' \in {listed, thread} /\ watched /\ pr' = pr
      /\ UNCHANGED <<settings, clock, openedAt, thread, count, processed, ignoreBefore,
                     followUps, drained, fstore, up>>
  BY Zenon DEF PollPR
<1>2. ReviewTypes'
  BY <1>1, Zenon DEF ReviewTypes, settings
<1>3. Budgeted' /\ Nothing'
  BY <1>1, Zenon DEF Budgeted, Nothing, settings
<1>4. Stamped'
  BY <1>1, Zenon DEF Stamped
<1>5. Known' /\ Disjoint'
  BY <1>1, Zenon DEF Known, Disjoint, HandledOnce
<1> QED
  BY <1>2, <1>3, <1>4, <1>5

LEMMA ClassifyKeeps ==
  ASSUME ReviewInv, NEW b \in BOOLEAN, NEW A \in SUBSET ToClassify(b), ClassifyAndEmit(b, A)
  PROVE  ReviewInv'
<1> USE DEF ReviewInv
<1>1. /\ up /\ ppc = "listed" /\ processed' = processed \cup listed /\ listed' = {} /\ ppc' = "idle"
      /\ UNCHANGED <<settings, clock, pr, openedAt, thread, watched, ignoreBefore, drained,
                     fstore, up>>
  BY Zenon DEF ClassifyAndEmit
<1>2. /\ A \subseteq listed /\ A \cap processed = {} /\ A \in Batches
      /\ \A c \in A : ~ (c.at < ignoreBefore)
  BY Times DEF ToClassify, ReviewTypes, Batches, Stamped
<1>3. pr # "none"
  BY <1>1 DEF Nothing
<1>4. Stamped'
  BY <1>1, Zenon DEF Stamped
<1>5. CASE UNCHANGED <<count, followUps>>
  <2>1. ReviewTypes' /\ Budgeted' /\ Nothing'
    BY <1>1, <1>3, <1>5, Zenon DEF ReviewTypes, Batches, Budgeted, Nothing, settings
  <2>2. Known' /\ Disjoint'
    BY <1>1, <1>5, Zenon DEF Known, Disjoint, HandledOnce
  <2> QED
    BY <1>4, <2>1, <2>2
<1>6. CASE count < maxFollowUps /\ count' = count + 1 /\ followUps' = Append(followUps, A)
  <2>1. /\ followUps' \in Seq(Batches) /\ Len(followUps') = Len(followUps) + 1
        /\ followUps'[Len(followUps) + 1] = A
        /\ \A i \in 1 .. Len(followUps) : followUps'[i] = followUps[i]
        /\ Len(followUps) \in Nat /\ Len(drained) \in Nat /\ Len(fstore) \in Nat
    BY <1>2, <1>6 DEF ReviewTypes
  <2>2. ReviewTypes' /\ Nothing'
    BY <1>1, <1>3, <1>6, <2>1 DEF ReviewTypes, Batches, Nothing, settings
  <2>3. Budgeted'
    BY <1>1, <1>6, <2>1 DEF Budgeted, ReviewTypes, settings
  <2>4. Known'
    BY <1>1, <1>2, <2>1 DEF Known
  <2>5. /\ \A i \in 1 .. Len(followUps) : A \cap followUps[i] = {}
        /\ \A i \in 1 .. Len(drained) : A \cap drained[i] = {}
        /\ \A i \in 1 .. Len(fstore) : A \cap fstore[i].batch = {}
    BY <1>1, <1>2, Zenon DEF Known
  <2>6. Disjoint'
    <3>1. HandledOnce'
      BY <1>1, Zenon DEF Disjoint, HandledOnce
    <3>2. \A i, j \in 1 .. Len(followUps') : i # j => followUps'[i] \cap followUps'[j] = {}
      BY <2>1, <2>5 DEF Disjoint
    <3>3. \A i \in 1 .. Len(followUps') : \A j \in 1 .. Len(drained') : followUps'[i] \cap drained'[j] = {}
      BY <1>1, <2>1, <2>5 DEF Disjoint
    <3>4. \A i \in 1 .. Len(followUps') : \A j \in 1 .. Len(fstore') : followUps'[i] \cap fstore'[j].batch = {}
      BY <1>1, <2>1, <2>5 DEF Disjoint
    <3> QED
      BY <1>1, <3>1, <3>2, <3>3, <3>4 DEF Disjoint
  <2> QED
    BY <1>4, <2>2, <2>3, <2>4, <2>6
<1> QED
  BY <1>5, <1>6, Zenon DEF ClassifyAndEmit

LEMMA DrainKeeps ==
  ASSUME ReviewInv, DrainFollowUps
  PROVE  ReviewInv'
<1> USE DEF ReviewInv
<1>1. /\ drained = <<>> /\ drained' = followUps /\ followUps' = <<>> /\ followUps # <<>> /\ up
      /\ UNCHANGED <<settings, clock, pr, openedAt, thread, watched, count, processed,
                     ignoreBefore, ppc, listed, fstore, up>>
  BY DEF DrainFollowUps
<1>2. ReviewTypes'
  BY <1>1, Zenon DEF ReviewTypes, settings
<1>3. Len(followUps) \in Nat /\ Len(fstore) \in Nat /\ Len(drained) = 0 /\ Len(followUps') = 0
  BY <1>1 DEF ReviewTypes
<1>4. Budgeted'
  BY <1>1, <1>3 DEF Budgeted, ReviewTypes, settings
<1>5. Nothing' /\ Stamped'
  BY <1>1, Zenon DEF Nothing, Stamped
<1>6. Known'
  BY <1>1 DEF Known
<1>7. Disjoint'
  BY <1>1, <1>3 DEF Disjoint, HandledOnce
<1> QED
  BY <1>2, <1>4, <1>5, <1>6, <1>7

\* The oldest drained request is dealt with.
LEMMA TailOfDrained ==
  ASSUME ReviewTypes, drained # <<>>, drained' = Tail(drained)
  PROVE  /\ drained' \in Seq(Batches) /\ Len(drained') = Len(drained) - 1
         /\ \A i \in 1 .. Len(drained') : drained'[i] = drained[i + 1] /\ i + 1 \in 1 .. Len(drained)
         /\ Head(drained) = drained[1] /\ 1 \in 1 .. Len(drained) /\ Head(drained) \in Batches
BY DEF ReviewTypes

LEMMA ProcessKeeps ==
  ASSUME ReviewInv, ProcessFollowUpTask
  PROVE  ReviewInv'
<1> USE DEF ReviewInv
<1>1. /\ up /\ drained # <<>> /\ drained' = Tail(drained)
      /\ UNCHANGED <<settings, pr, openedAt, thread, pollerVars, up>>
  BY Zenon DEF ProcessFollowUpTask
<1>2. /\ drained' \in Seq(Batches) /\ Len(drained') = Len(drained) - 1
      /\ \A i \in 1 .. Len(drained') : drained'[i] = drained[i + 1] /\ i + 1 \in 1 .. Len(drained)
      /\ Head(drained) = drained[1] /\ 1 \in 1 .. Len(drained) /\ Head(drained) \in Batches
  BY <1>1, TailOfDrained
<1>3. /\ Len(followUps) \in Nat /\ Len(fstore) \in Nat /\ Len(drained) \in Nat
      /\ clock \in Nat /\ count \in Nat /\ maxFollowUps \in Nat
  BY DEF ReviewTypes
<1>4. pr # "none"
  BY <1>1 DEF Nothing
<1>5. \A i, j \in 1 .. Len(drained') : i # j => drained'[i] \cap drained'[j] = {}
  <2> SUFFICES ASSUME NEW i \in 1 .. Len(drained'), NEW j \in 1 .. Len(drained'), i # j
               PROVE  drained'[i] \cap drained'[j] = {}
    OBVIOUS
  <2>1. /\ drained'[i] = drained[i + 1] /\ i + 1 \in 1 .. Len(drained)
        /\ drained'[j] = drained[j + 1] /\ j + 1 \in 1 .. Len(drained) /\ i + 1 # j + 1
    BY <1>2, <1>3
  <2> QED
    BY <2>1, Zenon DEF Disjoint
<1>6. CASE UNCHANGED <<clock, fstore, fjobs>>
  <2>1. ReviewTypes' /\ Nothing' /\ Stamped'
    BY <1>1, <1>2, <1>4, <1>6, Zenon DEF ReviewTypes, Nothing, Stamped, settings, pollerVars
  <2>2. Budgeted'
    BY <1>1, <1>2, <1>3, <1>6 DEF Budgeted, settings, pollerVars
  <2>3. Known'
    BY <1>1, <1>2, <1>6, Zenon DEF Known, pollerVars
  <2>4. Disjoint'
    <3>1. \A i \in 1 .. Len(drained') : drained'[i] \in {drained[m] : m \in 1 .. Len(drained)}
      BY <1>2, Zenon
    <3>2. \A i \in 1 .. Len(followUps) : \A j \in 1 .. Len(drained') : followUps[i] \cap drained'[j] = {}
      BY <3>1, Zenon DEF Disjoint
    <3>3. \A i \in 1 .. Len(drained') : \A j \in 1 .. Len(fstore) : drained'[i] \cap fstore[j].batch = {}
      BY <3>1 DEF Disjoint
    <3> QED
      BY <1>1, <1>5, <1>6, <3>2, <3>3 DEF Disjoint, HandledOnce, pollerVars
  <2> QED
    BY <2>1, <2>2, <2>3, <2>4
<1>7. CASE Stamp /\ fstore' = Append(fstore, [at |-> clock', batch |-> Head(drained)])
  <2> DEFINE new == [at |-> clock + 1, batch |-> Head(drained)]
             n == Len(fstore) + 1
  <2>1. /\ clock' = clock + 1 /\ fstore' = Append(fstore, new)
        /\ new \in FollowUpRuns /\ new.at = clock + 1 /\ new.batch = drained[1]
    BY <1>2, <1>3, <1>7 DEF Stamp, FollowUpRuns
  <2> HIDE DEF new
  <2>2. /\ fstore' \in Seq(FollowUpRuns) /\ Len(fstore') = n /\ fstore'[n] = new
        /\ \A i \in 1 .. Len(fstore) : fstore'[i] = fstore[i]
    BY <2>1 DEF ReviewTypes
  <2>3. ReviewTypes'
    BY <1>1, <1>2, <1>3, <2>1, <2>2 DEF ReviewTypes, settings, pollerVars
  <2>4. Nothing'
    BY <1>1, <1>4 DEF Nothing
  <2>5. Budgeted'
    BY <1>1, <1>2, <1>3, <2>2 DEF Budgeted, settings, pollerVars
  <2>6. drained[1] \subseteq processed /\ drained[1] \subseteq thread
    BY <1>2, Zenon DEF Known, Stamped
  <2>7. Stamped'
    <3>1. /\ \A c \in thread : c.at \in Nat /\ c.at <= clock
          /\ \A i \in 1 .. Len(fstore) : fstore[i].at \in Nat /\ fstore[i].at <= clock
          /\ openedAt \in Nat /\ openedAt <= clock
      BY Times, Zenon DEF Stamped, ReviewTypes
    <3>2. \A i \in 1 .. Len(fstore') : /\ fstore'[i].at <= clock' /\ fstore'[i].batch \subseteq thread'
                                       /\ \A c \in fstore'[i].batch : c.at < fstore'[i].at
      <4> SUFFICES ASSUME NEW i \in 1 .. Len(fstore')
                   PROVE  /\ fstore'[i].at <= clock' /\ fstore'[i].batch \subseteq thread
                          /\ \A c \in fstore'[i].batch : c.at < fstore'[i].at
        BY <1>1, Zenon
      <4>1. CASE i = n
        BY <1>3, <2>1, <2>2, <2>6, <3>1, <4>1
      <4>2. CASE i \in 1 .. Len(fstore)
        BY <1>3, <2>1, <2>2, <3>1, <4>2 DEF Stamped
      <4> QED
        BY <1>3, <2>2, <4>1, <4>2
    <3>3. \A i, j \in 1 .. Len(fstore') : i < j => fstore'[i].at < fstore'[j].at
      BY <1>3, <2>1, <2>2, <3>1 DEF Stamped
    <3> QED
      BY <1>1, <1>3, <2>1, <3>1, <3>2, <3>3 DEF Stamped, pollerVars
  <2>8. Known'
    BY <1>1, <1>2, <1>3, <2>1, <2>2, <2>6 DEF Known, pollerVars
  <2>9. /\ \A i \in 1 .. Len(drained') : drained'[i] \cap drained[1] = {}
        /\ \A i \in 1 .. Len(followUps) : followUps[i] \cap drained[1] = {}
        /\ \A i \in 1 .. Len(fstore) : drained[1] \cap fstore[i].batch = {}
    <3>1. \A i \in 1 .. Len(drained') : i + 1 # 1
      BY <1>2, <1>3
    <3>2. \A i \in 1 .. Len(drained') : drained'[i] \cap drained[1] = {}
      BY <1>2, <3>1, Zenon DEF Disjoint
    <3> QED
      BY <1>2, <3>2, Zenon DEF Disjoint
  <2>10. Disjoint'
    <3>1. HandledOnce'
      BY <1>3, <2>1, <2>2, <2>9 DEF Disjoint, HandledOnce
    <3>2. \A i \in 1 .. Len(drained') : \A j \in 1 .. Len(fstore') : drained'[i] \cap fstore'[j].batch = {}
      <4> SUFFICES ASSUME NEW i \in 1 .. Len(drained'), NEW j \in 1 .. Len(fstore')
                   PROVE  drained'[i] \cap fstore'[j].batch = {}
        OBVIOUS
      <4>1. CASE j = n
        BY <2>1, <2>2, <2>9, <4>1
      <4>2. CASE j \in 1 .. Len(fstore)
        BY <1>2, <2>2, <4>2, ZenonT(20) DEF Disjoint
      <4> QED
        BY <1>3, <2>2, <4>1, <4>2
    <3>3. \A i \in 1 .. Len(followUps) : \A j \in 1 .. Len(fstore') : followUps[i] \cap fstore'[j].batch = {}
      BY <1>3, <2>1, <2>2, <2>9 DEF Disjoint
    <3>4. \A i \in 1 .. Len(followUps) : \A j \in 1 .. Len(drained') : followUps[i] \cap drained'[j] = {}
      BY <1>2, Zenon DEF Disjoint
    <3> QED
      BY <1>1, <1>5, <3>1, <3>2, <3>3, <3>4 DEF Disjoint, pollerVars
  <2> QED
    BY <2>3, <2>4, <2>5, <2>7, <2>8, <2>10
<1> QED
  BY <1>6, <1>7, Zenon DEF ProcessFollowUpTask

LEMMA CrashKeeps ==
  ASSUME ReviewInv, CrashController
  PROVE  ReviewInv'
<1> USE DEF ReviewInv
<1>1. /\ ~ up' /\ ~ watched' /\ count' = 0 /\ processed' = {} /\ ignoreBefore' = 0 /\ ppc' = "idle"
      /\ listed' = {} /\ followUps' = <<>> /\ drained' = <<>>
      /\ UNCHANGED <<settings, clock, pr, openedAt, thread, fstore>>
  BY DEF CrashController
<1>2. ReviewTypes'
  BY <1>1 DEF ReviewTypes, Batches, settings
<1>3. Budgeted' /\ Nothing' /\ Stamped'
  BY <1>1 DEF Budgeted, Nothing, Stamped, settings
<1>4. Known' /\ Disjoint'
  BY <1>1 DEF Known, Disjoint, HandledOnce
<1> QED
  BY <1>2, <1>3, <1>4

LEMMA RestoreKeeps ==
  ASSUME ReviewInv, RestoreReviewTracking
  PROVE  ReviewInv'
<1> USE DEF ReviewInv
<1>1. /\ ~ up /\ up' /\ watched' = (pr # "none") /\ count' = Len(fstore) /\ ignoreBefore' = HandledUntil
      /\ UNCHANGED <<settings, clock, pr, openedAt, thread, processed, ppc, listed,
                     followUps, drained, fstore>>
  BY DEF RestoreReviewTracking
<1>2. /\ Len(fstore) \in Nat /\ followUps = <<>> /\ drained = <<>>
  BY <1>1 DEF ReviewTypes, Budgeted
<1>3. HandledUntil \in Nat
  BY <1>2, Times DEF HandledUntil, ReviewTypes
<1>4. ReviewTypes' /\ Nothing'
  BY <1>1, <1>2, <1>3, Zenon DEF ReviewTypes, Nothing, settings
<1>5. Budgeted'
  BY <1>1, <1>2 DEF Budgeted, settings, ReviewTypes
<1>6. Stamped'
  BY <1>1, Zenon DEF Stamped
<1>7. ASSUME NEW i \in 1 .. Len(fstore), NEW c \in fstore[i].batch PROVE c.at < HandledUntil
  <2>1. /\ HandledUntil = fstore[Len(fstore)].at /\ Len(fstore) \in 1 .. Len(fstore)
    BY <1>2 DEF HandledUntil, ReviewTypes
  <2>2. /\ c.at \in Nat /\ fstore[i].at \in Nat /\ fstore[Len(fstore)].at \in Nat
        /\ c.at < fstore[i].at /\ fstore[i].at <= fstore[Len(fstore)].at
    BY <1>2, <2>1, Times DEF Stamped
  <2> QED
    BY <2>1, <2>2
<1>8. Known'
  BY <1>1, <1>2, <1>7 DEF Known
<1>9. Disjoint'
  BY <1>1 DEF Disjoint, HandledOnce
<1> QED
  BY <1>4, <1>5, <1>6, <1>8, <1>9

LEMMA ReviewStepsKeep == ReviewInv /\ [ReviewNext]_reviewVars => ReviewInv'
<1> SUFFICES ASSUME ReviewInv, [ReviewNext]_reviewVars PROVE ReviewInv'
  OBVIOUS
<1>1. CASE Register
  BY <1>1, RegisterKeeps
<1>2. ASSUME UNCHANGED <<settings, clock, openedAt, thread, pollerVars, drained, fstore, up>>,
             pr' = pr \/ pr' # "none"
      PROVE  ReviewInv'
  BY <1>2 DEF ReviewInv, ReviewTypes, Budgeted, Nothing, Stamped, Known, Disjoint, HandledOnce,
              settings, pollerVars
<1>3. CASE Merge
  BY <1>2, <1>3 DEF Merge
<1>4. CASE PollerStep
  BY <1>4, PollKeeps, ClassifyKeeps DEF PollerStep
<1>5. CASE LoopStep
  BY <1>5, DrainKeeps, ProcessKeeps DEF LoopStep
<1>6. ASSUME NEW k \in CommentKinds, Comment(k) PROVE ReviewInv'
  BY <1>6, ThreadGrows, Zenon DEF Comment, Stamp
<1>7. ASSUME NEW i \in fjobs, NEW k \in SummaryKinds, HandleFollowUpComplete(i, k) PROVE ReviewInv'
  BY <1>7, ThreadGrows, Zenon DEF HandleFollowUpComplete, Stamp
<1>8. CASE CrashController
  BY <1>8, CrashKeeps
<1>9. CASE RestoreReviewTracking
  BY <1>9, RestoreKeeps
<1>10. CASE UNCHANGED reviewVars
  BY <1>2, <1>10 DEF reviewVars
<1> QED
  BY <1>1, <1>3, <1>4, <1>5, <1>6, <1>7, <1>8, <1>9, <1>10 DEF ReviewNext

\* max_follow_up_jobs bounds the follow-ups of a pull request over all lives of the
\* process (pollPR, reviewTrackingFromTaskRuns).
THEOREM FollowUpsStayInBudget == ReviewSpec => []FollowUpBudget
<1>1. ReviewInv => FollowUpBudget
  BY DEF ReviewInv, Budgeted, FollowUpBudget
<1> QED
  BY <1>1, InitiallyNothing, ReviewStepsKeep, PTL DEF ReviewSpec

\* No review comment is handed to two follow-ups, although the poller forgets in a crash
\* what it has processed (Restore, IgnoreBefore).
THEOREM CommentsAreHandledOnce == ReviewSpec => []HandledOnce
<1>1. ReviewInv => HandledOnce
  BY Zenon DEF ReviewInv, Disjoint
<1> QED
  BY <1>1, InitiallyNothing, ReviewStepsKeep, PTL DEF ReviewSpec

-----------------------------------------------------------------------------
(* The result of a run that succeeds at once is used, for any length of its log *)
(* and any capacity of the channel.                                             *)

Readers == [st : {"none", "resolving", "reading", "closed", "done"},
            pod : Nat, read : Nat, handled : Nat, cancelled : BOOLEAN]

StreamTypes ==
  /\ attempt \in Attempts /\ result \in Nat
  /\ pods \in [Attempts -> {"none", "pending", "running", "succeeded", "failed"}]
  /\ written \in [Attempts -> 0 .. LinesPerPod]
  /\ rd \in [Attempts -> Readers]

\* The reader of the first Job, as long as there is no other: it follows the Job's own
\* pod to the end of its log, and the forwarder takes out all that it read.
LogIsRead ==
  LET r == rd[1] IN
  /\ \A a \in Attempts \ {1} : rd[a].st = "none"
  /\ r.st # "none" /\ r.handled <= r.read /\ r.read <= written[1]
  /\ r.st = "reading" \/ r.read > 0 => r.pod = 1
  /\ r.pod = 1 => pods[1] \notin {"none", "pending"}
  /\ r.st \in {"closed", "done"} /\ ~ r.cancelled
       => r.pod = 1 /\ pods[1] # "running" /\ r.read = written[1]
  /\ r.st = "done" /\ ~ r.cancelled => r.handled = r.read
  /\ r.handled = LinesPerPod => result # 0

\* The loop has not cancelled it before it has waited for it.
LoopWaits ==
  /\ lpc \in {"idle", "drain"} => entry = 1 /\ ~ rd[1].cancelled
  /\ pods[1] = "succeeded" => written[1] = LinesPerPod
  /\ lpc \in {"finish", "done"} /\ pods[1] = "succeeded" /\ result = 0 => drainTimedOut
  /\ lpc # "idle" => pods[1] \in {"succeeded", "failed"}

StreamInv ==
  /\ StreamTypes /\ ResultIsKept
  /\ attempt = 1 /\ "stream" \notin stmishaps => LogIsRead /\ LoopWaits

LEMMA PodsKeepResult ==
  ASSUME StreamInv, NEW a \in Attempts, 1 \in Attempts, LinesPerPod \in Nat \ {0},
         PodStarts(a) \/ PodWrites(a) \/ PodEnds(a) \/ PodRemoved(a)
  PROVE StreamInv'
<1>1. StreamTypes'
  BY DEF PodStarts, PodWrites, PodEnds, PodRemoved, StreamInv, StreamTypes
<1>2. ResultIsKept'
  BY Zenon DEF PodStarts, PodWrites, PodEnds, PodRemoved, StreamInv, ResultIsKept
<1>3. ASSUME attempt = 1, "stream" \notin stmishaps PROVE LogIsRead' /\ LoopWaits'
  <2>1. LogIsRead /\ LoopWaits /\ rd[1] \in Readers /\ written[1] \in 0 .. LinesPerPod
    BY <1>3 DEF StreamInv, StreamTypes
  <2>2. CASE PodStarts(a)
    BY <2>1, <2>2 DEF PodStarts, StreamInv, StreamTypes, LogIsRead, LoopWaits
  <2>3. CASE PodWrites(a)
    <3>1. /\ UNCHANGED <<rd, pods, result, lpc, entry, drainTimedOut>> /\ pods[a] = "running"
          /\ written[a] < LinesPerPod /\ written' = [written EXCEPT ![a] = @ + 1]
      BY <2>3, Zenon DEF PodWrites
    <3> QED
      BY <2>1, <3>1 DEF Readers, StreamInv, StreamTypes, LogIsRead, LoopWaits
  <2>4. CASE PodEnds(a)
    BY <2>1, <2>4 DEF PodEnds, StreamInv, StreamTypes, LogIsRead, LoopWaits
  <2>5. CASE PodRemoved(a)
    <3>1. a # 1
      BY <1>3, <2>5 DEF PodRemoved, Attempts
    <3> QED
      BY <2>1, <2>5, <3>1, Zenon DEF PodRemoved, StreamInv, StreamTypes, LogIsRead,
           LoopWaits
  <2> QED
    BY <2>2, <2>3, <2>4, <2>5
<1>4. UNCHANGED <<attempt, stmishaps>>
  BY Zenon DEF PodStarts, PodWrites, PodEnds, PodRemoved
<1> QED
  BY <1>1, <1>2, <1>3, <1>4 DEF StreamInv

LEMMA ReaderKeepsResult ==
  ASSUME StreamInv, NEW a \in Attempts, 1 \in Attempts, LinesPerPod \in Nat \ {0}, ReaderStep(a)
  PROVE StreamInv'
<1> DEFINE r == rd[a]
<1>r. r \in Readers /\ Attempts \subseteq Nat \ {0}
  BY DEF StreamInv, StreamTypes, Attempts
<1>f. /\ r.read \in Nat /\ r.handled \in Nat /\ r.pod \in Nat /\ r.cancelled \in BOOLEAN
  BY <1>r DEF Readers
<1>u. UNCHANGED <<stmishaps, attempt, pods, written, entry, lpc, final, drainTimedOut>>
  BY Zenon DEF ReaderStep, ResolvePodName, ReadStream, StreamCloses, HandleEvent,
       ForwardReturns
<1>2. ResultIsKept'
  BY <1>u DEF StreamInv, ResultIsKept
<1>3. ASSUME result' \in Nat, NEW new \in Readers, rd' = [rd EXCEPT ![a] = new],
             r.st # "none", new.st # "none", new.cancelled = r.cancelled,
             attempt = 1 /\ "stream" \notin stmishaps /\ a = 1 /\ LogIsRead =>
               /\ new.handled <= new.read /\ new.read <= written[1]
               /\ new.st = "reading" \/ new.read > 0 => new.pod = 1
               /\ new.pod = 1 => pods[1] \notin {"none", "pending"}
               /\ new.st \in {"closed", "done"} /\ ~ new.cancelled
                    => new.pod = 1 /\ pods[1] # "running" /\ new.read = written[1]
               /\ new.st = "done" /\ ~ new.cancelled => new.handled = new.read
               /\ new.handled = LinesPerPod => result' # 0
               /\ result' = result \/ result' # 0
      PROVE  StreamInv'
  <2>1. StreamTypes'
    BY <1>3, <1>u, Zenon DEF StreamInv, StreamTypes
  <2>2. ASSUME attempt = 1, "stream" \notin stmishaps PROVE LogIsRead' /\ LoopWaits'
    <3>1. LogIsRead /\ LoopWaits
      BY <2>2 DEF StreamInv
    <3>2. a = 1
      BY <1>3, <3>1, Zenon DEF LogIsRead
    <3>3. rd'[1] = new /\ \A b \in Attempts \ {1} : rd'[b] = rd[b]
      BY <1>3, <3>2, Zenon DEF StreamInv, StreamTypes
    <3>4. LogIsRead'
      BY <1>3, <1>u, <2>2, <3>1, <3>2, <3>3, Zenon DEF LogIsRead
    <3>5. LoopWaits'
      BY <1>3, <1>u, <2>2, <3>1, <3>2, <3>3, Zenon DEF LoopWaits
    <3> QED
      BY <3>4, <3>5
  <2> QED
    BY <1>2, <1>u, <2>1, <2>2 DEF StreamInv
<1>n. result \in Nat
  BY DEF StreamInv, StreamTypes
<1>4. CASE ResolvePodName(a)
  <2>1. PICK p \in MatchingPods : rd' = [rd EXCEPT ![a].st = "reading", ![a].pod = p]
    BY <1>4, Zenon DEF ResolvePodName
  <2>2. p = 1 /\ pods[1] \notin {"none", "pending"}
    BY DEF MatchingPods, JobLabel
  <2> DEFINE new == [r EXCEPT !.st = "reading", !.pod = 1]
  <2>3. /\ new \in Readers /\ rd' = [rd EXCEPT ![a] = new] /\ new.st = "reading" /\ new.pod = 1
        /\ new.cancelled = r.cancelled /\ new.read = r.read /\ new.handled = r.handled
    BY <1>r, <2>1, <2>2, Zenon DEF Readers, StreamInv, StreamTypes
  <2>4. r.st = "resolving" /\ result' = result
    BY <1>4 DEF ResolvePodName
  <2> HIDE DEF new
  <2> QED
    BY <1>3, <1>n, <2>2, <2>3, <2>4, Zenon DEF LogIsRead
<1>5. CASE ReadStream(a)
  <2> DEFINE new == [r EXCEPT !.read = @ + 1]
  <2>1. /\ new \in Readers /\ rd' = [rd EXCEPT ![a] = new] /\ new.st = r.st /\ new.pod = r.pod
        /\ new.cancelled = r.cancelled /\ new.read = r.read + 1 /\ new.handled = r.handled
    BY <1>5, <1>r DEF ReadStream, Readers, StreamInv, StreamTypes
  <2>2. r.st = "reading" /\ result' = result /\ r.read < written[r.pod]
    BY <1>5, Zenon DEF ReadStream
  <2>3. written[1] \in Nat
    BY DEF StreamInv, StreamTypes
  <2> HIDE DEF new
  <2>4. a = 1 /\ LogIsRead => r.pod = 1 /\ r.handled <= r.read + 1 /\ r.read + 1 <= written[1]
    BY <1>f, <2>2, <2>3 DEF LogIsRead
  <2> QED
    BY <1>3, <1>n, <2>1, <2>2, <2>4, Zenon DEF LogIsRead
<1>6. CASE StreamCloses(a)
  <2> DEFINE new == [r EXCEPT !.st = "closed"]
  <2>1. /\ new \in Readers /\ rd' = [rd EXCEPT ![a] = new] /\ new.st = "closed" /\ new.pod = r.pod
        /\ new.cancelled = r.cancelled /\ new.read = r.read /\ new.handled = r.handled
    BY <1>6, <1>r, Zenon DEF StreamCloses, Readers, StreamInv, StreamTypes
  <2>2. /\ r.st \in {"resolving", "reading"} /\ result' = result
        /\ LogEnds(a) \/ "stream" \in stmishaps \/ r.cancelled
    BY <1>6 DEF StreamCloses
  <2> HIDE DEF new
  <2> QED
    BY <1>3, <1>n, <2>1, <2>2, ZenonT(20) DEF LogIsRead, LogEnds
<1>7. CASE HandleEvent(a)
  <2> DEFINE new == [r EXCEPT !.handled = @ + 1]
  <2>1. /\ new \in Readers /\ rd' = [rd EXCEPT ![a] = new] /\ new.st = r.st /\ new.pod = r.pod
        /\ new.cancelled = r.cancelled /\ new.read = r.read /\ new.handled = r.handled + 1
        /\ rd'[a] = new
    BY <1>7, <1>r DEF HandleEvent, Readers, StreamInv, StreamTypes
  <2>2. /\ r.st \in {"reading", "closed"} /\ r.handled < r.read
        /\ result' = IF new.handled = LinesPerPod THEN r.pod ELSE result
    BY <1>7, <2>1, Zenon DEF HandleEvent
  <2> HIDE DEF new
  <2>3. r.handled + 1 <= r.read /\ r.read > 0
    BY <1>f, <2>2
  <2>4. a = 1 /\ LogIsRead => r.pod = 1
    BY <2>3, Zenon DEF LogIsRead
  <2>5. a = 1 /\ LogIsRead => /\ result' = result \/ result' # 0
                              /\ new.handled = LinesPerPod => result' # 0
    BY <2>2, <2>4
  <2>6. a = 1 /\ LogIsRead =>
          /\ new.handled <= new.read /\ new.read <= written[1]
          /\ new.pod = 1 /\ pods[1] \notin {"none", "pending"}
          /\ new.st \in {"closed", "done"} /\ ~ new.cancelled
               => new.pod = 1 /\ pods[1] # "running" /\ new.read = written[1]
    BY <2>1, <2>2, <2>3, <2>4, Zenon DEF LogIsRead
  <2>7. result' \in Nat /\ r.st # "none" /\ new.st # "none" /\ new.st # "done"
    BY <1>f, <2>1, <2>2, Zenon DEF StreamInv, StreamTypes
  <2> QED
    BY <1>3, <2>1, <2>5, <2>6, <2>7, Zenon
<1>8. CASE ForwardReturns(a)
  <2> DEFINE new == [r EXCEPT !.st = "done"]
  <2>1. /\ new \in Readers /\ rd' = [rd EXCEPT ![a] = new] /\ new.st = "done" /\ new.pod = r.pod
        /\ new.cancelled = r.cancelled /\ new.read = r.read /\ new.handled = r.handled
    BY <1>8, <1>r, Zenon DEF ForwardReturns, Readers, StreamInv, StreamTypes
  <2>2. /\ r.st \in {"resolving", "reading", "closed"} /\ result' = result
        /\ r.cancelled \/ (r.st = "closed" /\ r.handled = r.read)
    BY <1>8, Zenon DEF ForwardReturns
  <2> HIDE DEF new
  <2> QED
    BY <1>3, <1>n, <2>1, <2>2, ZenonT(20) DEF LogIsRead
<1> QED
  BY <1>4, <1>5, <1>6, <1>7, <1>8 DEF ReaderStep

LEMMA LoopKeepsResult ==
  ASSUME StreamInv, 1 \in Attempts, LinesPerPod \in Nat \ {0}, MaxAttempts \in Nat, StreamLoop
  PROVE StreamInv'
<1>1. CASE JobEndSeen
  BY <1>1 DEF JobEndSeen, StreamInv, StreamTypes, ResultIsKept, LogIsRead, LoopWaits
<1>2. CASE DrainStreamReader
  <2>1. StreamTypes'
    <3>1. CASE entry = 0
      BY <1>2, <3>1 DEF DrainStreamReader, StreamInv, StreamTypes
    <3>2. CASE entry \in Attempts
      <4>1. [rd[entry] EXCEPT !.cancelled = TRUE] \in Readers
        BY <3>2, ZenonT(20) DEF StreamInv, StreamTypes, Readers
      <4>2. rd' = [rd EXCEPT ![entry] = [rd[entry] EXCEPT !.cancelled = TRUE]]
        BY <1>2, <3>2 DEF DrainStreamReader, StreamInv, StreamTypes, Attempts
      <4> QED
        BY <1>2, <3>2, <4>1, <4>2 DEF DrainStreamReader, StreamInv, StreamTypes
    <3>3. CASE entry \notin Attempts \cup {0}
      BY <1>2, <3>3 DEF DrainStreamReader, StreamInv, StreamTypes
    <3> QED
      BY <3>1, <3>2, <3>3
  <2>2. ResultIsKept'
    BY <1>2, Zenon DEF DrainStreamReader, StreamInv, ResultIsKept
  <2>3. ASSUME attempt = 1, "stream" \notin stmishaps PROVE LogIsRead' /\ LoopWaits'
    <3> DEFINE r == rd[1]
               new == [r EXCEPT !.cancelled = TRUE]
    <3>1. /\ LogIsRead /\ LoopWaits /\ r \in Readers /\ entry = 1 /\ ~ r.cancelled
          /\ pods[1] \in {"succeeded", "failed"} /\ written[1] \in 0 .. LinesPerPod
      BY <1>2, <2>3, Zenon DEF DrainStreamReader, StreamInv, StreamTypes, LoopWaits
    <3>2. /\ rd'[1] = new /\ \A b \in Attempts \ {1} : rd'[b] = rd[b]
          /\ drainTimedOut' = (drainTimedOut \/ r.st # "done")
      BY <1>2, <3>1 DEF DrainStreamReader, StreamInv, StreamTypes
    <3>3. /\ new.cancelled /\ new.st = r.st /\ new.pod = r.pod /\ new.read = r.read
          /\ new.handled = r.handled
      BY <3>1 DEF Readers
    <3> HIDE DEF new
    <3>4. UNCHANGED <<pods, written, result>> /\ lpc' = "finish"
      BY <1>2 DEF DrainStreamReader
    <3>5. LogIsRead'
      BY <3>1, <3>2, <3>3, <3>4 DEF LogIsRead
    <3>6. r.st = "done" /\ pods[1] = "succeeded" => result # 0
      BY <3>1, Zenon DEF LogIsRead, LoopWaits
    <3>7. LoopWaits'
      BY <3>1, <3>2, <3>4, <3>6, Zenon DEF LoopWaits
    <3> QED
      BY <3>5, <3>7
  <2> QED
    BY <1>2, <2>1, <2>2, <2>3 DEF DrainStreamReader, StreamInv
<1>3. CASE Complete
  <2>1. ResultIsKept'
    BY <1>3 DEF Complete, StreamInv, StreamTypes, ResultIsKept, LoopWaits
  <2>2. StreamTypes'
    BY <1>3 DEF Complete, StreamInv, StreamTypes
  <2>3. LogIsRead /\ LoopWaits /\ attempt = 1 => LogIsRead' /\ LoopWaits'
    BY <1>3, Zenon DEF Complete, LogIsRead, LoopWaits
  <2> QED
    BY <1>3, <2>1, <2>2, <2>3 DEF Complete, StreamInv
<1>4. CASE Relaunch
  <2>1. CASE attempt = MaxAttempts
    BY <1>4, <2>1 DEF Relaunch, StreamInv, StreamTypes, ResultIsKept, LogIsRead, LoopWaits
  <2>2. CASE attempt # MaxAttempts
    <3>1. attempt' = attempt + 1 /\ attempt' \in Attempts /\ attempt' # 1 /\ NewReader \in Readers
      <4>1. attempt' = attempt + 1
        BY <1>4, <2>2 DEF Relaunch
      <4>2. attempt \in 1 .. MaxAttempts
        BY DEF StreamInv, StreamTypes, Attempts
      <4>3. NewReader \in Readers
        BY Zenon DEF NewReader, NoReader, Readers
      <4> QED
        BY <2>2, <4>1, <4>2, <4>3 DEF Attempts
    <3>2. StreamTypes'
      BY <1>4, <2>2, <3>1 DEF Relaunch, StreamInv, StreamTypes
    <3> QED
      BY <3>1, <3>2 DEF StreamInv, ResultIsKept
  <2> QED
    BY <2>1, <2>2
<1> QED
  BY <1>1, <1>2, <1>3, <1>4 DEF StreamLoop

\* The result the agent of the first Job wrote is the one handleJobComplete uses, however
\* the log, the reader, the forwarder and the reconcile loop interleave, unless the log
\* failed or draining it timed out (drainStreamReader).
THEOREM FirstResultIsUsed ==
  ASSUME MaxAttempts \in Nat \ {0}, LinesPerPod \in Nat \ {0}
  PROVE StreamSpec => []ResultIsKept
<1>1. 1 \in Attempts
  BY DEF Attempts
<1>2. StreamInit => StreamInv
  <2> SUFFICES ASSUME StreamInit PROVE StreamInv
    OBVIOUS
  <2>1. NoReader \in Readers /\ NewReader \in Readers /\ NoReader.st = "none"
    BY Zenon DEF NewReader, NoReader, Readers
  <2>2. /\ NewReader.st = "resolving" /\ NewReader.pod = 0 /\ NewReader.read = 0
        /\ NewReader.handled = 0 /\ NewReader.cancelled = FALSE
    BY DEF NewReader, NoReader
  <2>3. StreamTypes /\ ResultIsKept
    BY <1>1, <2>1 DEF StreamInit, StreamTypes, ResultIsKept
  <2>4. LogIsRead /\ LoopWaits
    BY <1>1, <2>1, <2>2 DEF StreamInit, LogIsRead, LoopWaits
  <2> QED
    BY <2>3, <2>4 DEF StreamInv
<1>3. StreamInv /\ [StreamNext]_streamVars => StreamInv'
  <2> SUFFICES ASSUME StreamInv, [StreamNext]_streamVars PROVE StreamInv'
    OBVIOUS
  <2>1. CASE UNCHANGED streamVars
    BY <2>1 DEF streamVars, StreamInv, StreamTypes, ResultIsKept, LogIsRead, LoopWaits
  <2> QED
    BY <1>1, <2>1, LoopKeepsResult, PodsKeepResult, ReaderKeepsResult DEF StreamNext
<1>4. StreamInv => ResultIsKept
  BY DEF StreamInv
<1> QED
  BY <1>2, <1>3, <1>4, PTL DEF StreamSpec
=============================================================================
