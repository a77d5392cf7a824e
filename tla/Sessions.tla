------------------------------ MODULE Sessions ------------------------------
(***************************************************************************)
(* Session persistence (internal/sessionstore): the storage a task run's    *)
(* agents keep their conversation in, so that a later Job of the same run   *)
(* resumes it, and the cleaner that removes old storage. The controller     *)
(* calls Prepare before every Job of the run, the first and the later ones. *)
(*                                                                          *)
(* Ages count cleaner intervals and stop at TTL + 1.                        *)
(***************************************************************************)
EXTENDS Integers

CONSTANTS
    SessionBackends,   \* subset of {"shared-pvc", "per-taskrun-pvc"}
    TTL,               \* Cleaner.ttl
    MaxSessionJobs     \* Jobs one run may have

VARIABLES
    backend,    \* the configured backend
    phase,      \* "new", "running", "between" Jobs, or "ended"
    njob,       \* Jobs launched so far
    volume,     \* the claim, or the run's directory on the shared claim
    spoken,     \* the Jobs that added to the conversation
    silent,     \* how long ago the last of them did
    resumed,    \* the Jobs whose conversation the current Job found
    rested,     \* the longest such silence so far
    refused     \* a later Job was given up because Prepare failed

sessionVars == <<backend, phase, njob, volume, spoken, silent, resumed, rested, refused>>

NoVolume == [exists |-> FALSE, age |-> 0, idle |-> 0, talks |-> {}, doomed |-> FALSE]
Older(n) == IF n > TTL THEN n ELSE n + 1

SessionInit ==
    /\ backend \in SessionBackends
    /\ phase = "new" /\ njob = 0
    /\ volume = NoVolume
    /\ spoken = {} /\ silent = 0
    /\ resumed = {} /\ rested = 0 /\ refused = FALSE

\* Prepare: nothing to do on the shared claim; a claim of its own is created,
\* which fails when the claim of that name exists already.
Prepare == backend = "per-taskrun-pvc" => ~ volume.exists

\* A Job of the run is launched: Prepare, then the Job that mounts the storage.
\* A directory that is missing on the shared claim is created by the mount.
LaunchJob ==
    /\ phase \in {"new", "between"}
    /\ njob < MaxSessionJobs
    /\ Prepare
    /\ phase' = "running"
    /\ njob' = njob + 1
    /\ volume' = IF volume.exists THEN volume ELSE [NoVolume EXCEPT !.exists = TRUE]
    /\ resumed' = volume'.talks
    /\ UNCHANGED <<backend, spoken, silent, rested, refused>>

\* launchRetryJob and launchContinuationJob return when Prepare fails; the run
\* stays as it is.
LaunchRefused ==
    /\ phase = "between"
    /\ njob < MaxSessionJobs
    /\ ~ Prepare
    /\ refused' = TRUE
    /\ UNCHANGED <<backend, phase, njob, volume, spoken, silent, resumed, rested>>

\* The agent adds to its conversation.
AgentTalks ==
    /\ phase = "running"
    /\ volume.exists
    /\ volume' = [volume EXCEPT !.talks = @ \cup {njob}, !.idle = 0]
    /\ spoken' = spoken \cup {njob}
    /\ silent' = 0
    /\ UNCHANGED <<backend, phase, njob, resumed, rested, refused>>

\* The Job ends; a claim deleted while its pod ran goes away with the pod.
JobFinishes ==
    /\ phase = "running"
    /\ phase' \in {"between", "ended"}
    /\ volume' = IF volume.doomed THEN NoVolume ELSE volume
    /\ UNCHANGED <<backend, njob, spoken, silent, resumed, rested, refused>>

\* A run that waits for a person or a retry is given up.
GiveUp ==
    /\ phase = "between"
    /\ phase' = "ended"
    /\ UNCHANGED <<backend, njob, volume, spoken, silent, resumed, rested, refused>>

\* sweepSharedPVC removes directories whose newest file is older than the TTL,
\* sweepPerTaskRunPVCs claims that were created before that.
\* (Variant: directories go by their age.)
StaleByAge == volume.exists /\ volume.age > TTL
Stale ==
    /\ volume.exists
    /\ IF backend = "shared-pvc" THEN volume.idle > TTL ELSE volume.age > TTL

Sweep ==
    /\ Stale
    /\ ~ volume.doomed
    /\ volume' = IF backend = "per-taskrun-pvc" /\ phase = "running"
                 THEN [volume EXCEPT !.doomed = TRUE]
                 ELSE NoVolume
    /\ UNCHANGED <<backend, phase, njob, spoken, silent, resumed, rested, refused>>

\* Time passes between two runs of the cleaner.
Ages ==
    /\ volume.exists
    /\ volume.age <= TTL \/ volume.idle <= TTL
    /\ volume' = [volume EXCEPT !.age = Older(@), !.idle = Older(@)]
    /\ silent' = Older(silent)
    /\ rested' = IF silent' > rested THEN silent' ELSE rested
    /\ UNCHANGED <<backend, phase, njob, spoken, resumed, refused>>

SessionNext ==
    \/ LaunchJob \/ LaunchRefused \/ AgentTalks \/ JobFinishes \/ GiveUp
    \/ Sweep \/ Ages

SessionSpec == SessionInit /\ [][SessionNext]_sessionVars


\* On the shared claim, a later Job finds the conversations of all earlier Jobs,
\* unless nothing was said for longer than the TTL: the cleaner goes by the newest
\* file and never removes a session that is in use (sweepSharedPVC,
\* newestModTime).
SessionIsResumed ==
    backend = "shared-pvc" /\ phase = "running" /\ rested <= TTL
        => resumed = spoken \ {njob}

\* A retry or a continuation is never given up for its storage (store.go:
\* "so that retry pods can resume").
LaterJobsArePrepared == ~ refused
=============================================================================
