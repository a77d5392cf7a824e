-------------------------- MODULE Services_proofs --------------------------
(***************************************************************************)
(* What stands beside the controller's loop: the secrets of tasks, the     *)
(* plugin host, the local store of tickets and tournaments.                *)
(***************************************************************************)
EXTENDS LocalTickets, PluginHost, Tournament, TaskSecrets, TLAPS

-----------------------------------------------------------------------------
(* A Job keeps the Secret it was given, and gets no variable it must not have, *)
(* for any tasks, policy and aliases, wherever a launch is killed.             *)

LaunchPoints == {"idle", "staged", "adopt", "discard", "done", "aborted", "killed"}

SecretTypes ==
  /\ spc \in [SecretRuns -> LaunchPoints]
  /\ secretObj \in [SecretRuns -> {"none", "unowned", "owned"}]
  /\ sjob \in [SecretRuns -> {"none", "active", "deleted"}]
  /\ DOMAIN jobEnv = SecretRuns

\* Only a Secret whose launch is over is old enough to be swept, and what a sweep
\* still has to delete has no owner.
SweptAreOver ==
  /\ sweep \subseteq old
  /\ \A r \in SecretRuns : r \in old => spc[r] \in {"done", "aborted", "killed"}
  /\ \A r \in SecretRuns : r \in sweep => secretObj[r] # "owned"

\* A launch that goes on holds a Secret for the values it needs, and a Job that got
\* values owns its Secret once it is adopted.
LaunchHolds ==
  \A r \in SecretRuns :
    /\ HasValues(r) /\ spc[r] \in {"staged", "adopt"} => secretObj[r] # "none"
    /\ sjob[r] = "active" => spc[r] \in {"adopt", "done", "killed"}
    /\ sjob[r] = "active" /\ spc[r] = "done" /\ r \notin unadopted
         /\ jobEnv[r] \cap Plan(asked[r]).values # {}
         => secretObj[r] = "owned"

SecretInv == SecretTypes /\ SweptAreOver /\ LaunchHolds

LEMMA InitiallyNoSecret == SecretsInit => SecretInv
BY DEF SecretsInit, SecretInv, SecretTypes, SweptAreOver, LaunchHolds, LaunchPoints

LEMMA LaunchStepsKeepSecrets ==
  ASSUME SecretInv, NEW r \in SecretRuns,
         CreateTaskSecret(r) \/ CreateJob(r) \/ DiscardTaskSecret(r) \/ AdoptTaskSecret(r)
  PROVE SecretInv'
<1> USE DEF SecretTypes, LaunchPoints, Launching, HasValues
<1>1. CASE CreateTaskSecret(r)
  <2>1. SecretTypes'
    BY <1>1 DEF CreateTaskSecret, SecretInv
  <2>2. SweptAreOver'
    BY <1>1 DEF CreateTaskSecret, SecretInv, SweptAreOver
  <2>3. LaunchHolds'
    BY <1>1 DEF CreateTaskSecret, SecretInv, LaunchHolds
  <2> QED
    BY <2>1, <2>2, <2>3 DEF SecretInv
<1>2. CASE CreateJob(r)
  <2>1. SecretTypes'
    BY <1>2 DEF CreateJob, SecretInv
  <2>2. SweptAreOver'
    BY <1>2, Zenon DEF CreateJob, SecretInv, SweptAreOver
  <2>3. LaunchHolds'
    BY <1>2 DEF CreateJob, SecretInv, LaunchHolds
  <2> QED
    BY <2>1, <2>2, <2>3 DEF SecretInv
<1>3. CASE DiscardTaskSecret(r)
  <2>1. SecretTypes'
    BY <1>3, Zenon DEF DiscardTaskSecret, SecretInv
  <2>2. SweptAreOver'
    BY <1>3, Zenon DEF DiscardTaskSecret, SecretInv, SweptAreOver
  <2>3. LaunchHolds'
    BY <1>3 DEF DiscardTaskSecret, SecretInv, LaunchHolds
  <2> QED
    BY <2>1, <2>2, <2>3 DEF SecretInv
<1>4. CASE AdoptTaskSecret(r)
  <2>1. SecretTypes'
    BY <1>4, Zenon DEF AdoptTaskSecret, SecretInv
  <2>2. SweptAreOver'
    BY <1>4, Zenon DEF AdoptTaskSecret, SecretInv, SweptAreOver
  <2>3. LaunchHolds'
    BY <1>4 DEF AdoptTaskSecret, SecretInv, LaunchHolds
  <2> QED
    BY <2>1, <2>2, <2>3 DEF SecretInv
<1> QED
  BY <1>1, <1>2, <1>3, <1>4

LEMMA SecretStepsKeep == SecretInv /\ [SecretsNext]_secretVars => SecretInv'
<1> USE DEF SecretTypes, LaunchPoints, HasValues
<1> SUFFICES ASSUME SecretInv, [SecretsNext]_secretVars PROVE SecretInv'
  OBVIOUS
<1>1. CASE SweepOrphans
  BY <1>1, Zenon DEF SweepOrphans, Stranded, launchVars, SecretInv, SweptAreOver,
       LaunchHolds
<1>2. CASE KillController
  <2>1. SecretTypes' /\ SweptAreOver'
    BY <1>2 DEF KillController, SecretInv, SweptAreOver
  <2>2. LaunchHolds'
    BY <1>2 DEF KillController, SecretInv, LaunchHolds
  <2> QED
    BY <2>1, <2>2 DEF SecretInv
<1>3. ASSUME NEW r \in SecretRuns, DeleteJob(r) PROVE SecretInv'
  <2>1. SecretTypes' /\ SweptAreOver'
    BY <1>3, Zenon DEF DeleteJob, SecretInv, SweptAreOver
  <2>2. LaunchHolds'
    BY <1>3, Zenon DEF DeleteJob, SecretInv, LaunchHolds
  <2> QED
    BY <2>1, <2>2 DEF SecretInv
<1>4. ASSUME NEW r \in SecretRuns, RelaunchJob(r) PROVE SecretInv'
  <2>1. SecretTypes' /\ SweptAreOver'
    BY <1>4, Zenon DEF RelaunchJob, SecretInv, SweptAreOver
  <2>2. LaunchHolds'
    BY <1>4 DEF RelaunchJob, SecretInv, LaunchHolds
  <2> QED
    BY <2>1, <2>2 DEF SecretInv
<1>5. ASSUME NEW r \in SecretRuns, GracePasses(r) PROVE SecretInv'
  BY <1>5, Zenon DEF GracePasses, SecretInv, SweptAreOver, LaunchHolds
<1>6. ASSUME NEW r \in SecretRuns, SweepDelete(r) PROVE SecretInv'
  <2>1. SecretTypes' /\ SweptAreOver'
    BY <1>6, Zenon DEF SweepDelete, SecretInv, SweptAreOver
  <2>2. LaunchHolds'
    BY <1>6 DEF SweepDelete, SecretInv, SweptAreOver, LaunchHolds
  <2> QED
    BY <2>1, <2>2 DEF SecretInv
<1>7. ASSUME NEW r \in SecretRuns, SweepDeleteFails(r) PROVE SecretInv'
  BY <1>7, Zenon DEF SweepDeleteFails, launchVars, SecretInv, SweptAreOver, LaunchHolds
<1>8. CASE UNCHANGED secretVars
  BY <1>8, Zenon DEF secretVars, launchVars, SecretInv, SweptAreOver, LaunchHolds
<1> QED
  BY <1>1, <1>2, <1>3, <1>4, <1>5, <1>6, <1>7, <1>8, LaunchStepsKeepSecrets, Zenon
       DEF SecretsNext

\* However launches, sweeps, deletions of Jobs and kills of the controller interleave, a
\* Job that was given an adopted Secret finds it (createTaskSecret, adoptTaskSecret,
\* sweepOrphanedTaskSecrets).
THEOREM AdoptedSecretsStay == SecretsSpec => []JobFindsItsSecret
<1>1. SecretInv => JobFindsItsSecret
  BY Zenon DEF SecretInv, LaunchHolds, JobFindsItsSecret, HasValues
<1> QED
  BY <1>1, InitiallyNoSecret, SecretStepsKeep, PTL DEF SecretsSpec

\* Every request has a variable after the expansion of its alias.
LEMMA ExpandedIsNamed ==
  ASSUME NEW e, EntryToRequest(e) # Bad
  PROVE  Expand(EntryToRequest(e)).env # ""
<1>1. EntryToRequest(e).path # ""
  BY Zenon DEF EntryToRequest, Bad
<1>2. CASE EntryToRequest(e).scheme = "alias"
  BY <1>1, <1>2, Zenon DEF Expand, FirstNonEmpty
<1>3. CASE EntryToRequest(e).scheme # "alias"
  <2>1. EntryToRequest(e).env # ""
    BY <1>3, Zenon DEF EntryToRequest, Bad
  <2> QED
    BY <1>3, <2>1, Zenon DEF Expand
<1> QED
  BY <1>2, <1>3, Zenon

\* The policy sees the variables the aliases stand for.
LEMMA AcceptedIsUnblocked ==
  ASSUME NEW task, Accepts(task)
  PROVE  PlanEnv(task) \cap Policy.blocked = {}
<1> SUFFICES ASSUME NEW v \in PlanEnv(task) PROVE v \notin Policy.blocked
  OBVIOUS
<1>1. PICK q \in Requests(task) : v = Expand(q).env
  BY Zenon DEF PlanEnv, Plan
<1>2. q # Bad /\ ResolvedAllowed(Expand(q))
  BY DEF Accepts
<1>3. ASSUME NEW e, q = EntryToRequest(e) PROVE v # ""
  BY <1>1, <1>2, <1>3, ExpandedIsNamed, Zenon
<1>4. ASSUME NEW l, l.env # "", q = LabelToRequest(l) PROVE v # ""
  <2>1. q.env # ""
    BY <1>4, Zenon DEF LabelToRequest
  <2>2. QED
    BY <1>1, <2>1, Zenon DEF Expand, FirstNonEmpty
<1>5. v # ""
  BY <1>3, <1>4 DEF Requests, SecretLabels
<1> QED
  BY <1>1, <1>2, <1>5, Zenon DEF ResolvedAllowed

\* What was staged was accepted.
StagedIsAccepted ==
  /\ SecretTypes
  /\ \A r \in SecretRuns : spc[r] = "staged" => Accepts(asked[r])
  /\ NoForbiddenVariable

LEMMA StagedStepsKeep ==
  SecretInv /\ StagedIsAccepted /\ [SecretsNext]_secretVars => StagedIsAccepted'
<1> SUFFICES ASSUME SecretInv, StagedIsAccepted, [SecretsNext]_secretVars PROVE StagedIsAccepted'
  OBVIOUS
<1>t. SecretTypes'
  BY SecretStepsKeep DEF SecretInv
<1>1. ASSUME NEW r \in SecretRuns, CreateTaskSecret(r) PROVE StagedIsAccepted'
  BY <1>1, <1>t DEF CreateTaskSecret, Launching, StagedIsAccepted, SecretTypes, NoForbiddenVariable
<1>2. ASSUME NEW r \in SecretRuns, CreateJob(r) PROVE StagedIsAccepted'
  <2>1. UNCHANGED asked /\ \A q \in SecretRuns : spc'[q] = "staged" => spc[q] = "staged"
    BY <1>2, Zenon DEF CreateJob, Launching, StagedIsAccepted, SecretTypes
  <2>2. jobEnv' = jobEnv \/ /\ jobEnv' = [jobEnv EXCEPT ![r] = PlanEnv(asked[r])]
                             /\ PlanEnv(asked[r]) \cap SpecEnv = {} /\ spc[r] = "staged"
    BY <1>2, Zenon DEF CreateJob, NoCollision
  <2>3. spc[r] = "staged" => PlanEnv(asked[r]) \cap Policy.blocked = {}
    BY AcceptedIsUnblocked DEF StagedIsAccepted
  <2>4. NoForbiddenVariable'
    BY <2>2, <2>3 DEF StagedIsAccepted, SecretTypes, NoForbiddenVariable
  <2> QED
    BY <1>t, <2>1, <2>4 DEF StagedIsAccepted
<1>3. ASSUME NEW r \in SecretRuns, RelaunchJob(r) PROVE StagedIsAccepted'
  BY <1>3, <1>t, Zenon DEF RelaunchJob, StagedIsAccepted, SecretTypes, NoForbiddenVariable
<1>4. ASSUME UNCHANGED <<asked, jobEnv>>,
             \A r \in SecretRuns : spc'[r] = "staged" => spc[r] = "staged"
      PROVE  StagedIsAccepted'
  BY <1>4, <1>t DEF StagedIsAccepted, NoForbiddenVariable
<1>5. ASSUME NEW r \in SecretRuns, DiscardTaskSecret(r) \/ AdoptTaskSecret(r) PROVE StagedIsAccepted'
  BY <1>4, <1>5, Zenon DEF DiscardTaskSecret, AdoptTaskSecret, Launching, StagedIsAccepted,
       SecretTypes
<1>6. ASSUME NEW r \in SecretRuns,
             DeleteJob(r) \/ GracePasses(r) \/ SweepDelete(r) \/ SweepDeleteFails(r)
      PROVE  StagedIsAccepted'
  BY <1>4, <1>6, Zenon DEF DeleteJob, GracePasses, SweepDelete, SweepDeleteFails, launchVars
<1>7. CASE SweepOrphans \/ KillController \/ UNCHANGED secretVars
  BY <1>4, <1>7, Zenon DEF SweepOrphans, KillController, secretVars, launchVars
<1> QED
  BY <1>1, <1>2, <1>3, <1>5, <1>6, <1>7, Zenon DEF SecretsNext

\* Whatever a task asks for and whatever its aliases stand for, no Job gets a variable
\* that the policy blocks or that its engine's spec names (ValidateResolved after
\* expandAliases, checkEnvCollision); of the keys of a Secret mounted whole it says
\* nothing but for the blocked ones.
THEOREM ForbiddenIsNeverInjected == SecretsSpec => []NoForbiddenVariable
<1>1. SecretsInit => StagedIsAccepted
  BY InitiallyNoSecret DEF SecretsInit, SecretInv, StagedIsAccepted, NoForbiddenVariable
<1>2. StagedIsAccepted => NoForbiddenVariable
  BY DEF StagedIsAccepted
<1> QED
  BY <1>1, <1>2, InitiallyNoSecret, SecretStepsKeep, StagedStepsKeep, PTL DEF SecretsSpec

-----------------------------------------------------------------------------
(* The plugin host keeps its processes apart: whatever is loaded, restarted, *)
(* shut down or dies, for any plugins and any restart limit.                 *)

Instances == [process : Nat, restarts : 0 .. MaxRestarts, healthy : BOOLEAN]

HostTypes ==
  /\ DOMAIN loaded \subseteq Plugins /\ loaded \in [DOMAIN loaded -> Instances]
  /\ spawned \in Nat
  /\ launches \in [Plugins -> Nat]

\* Process numbers are never used again, and only a marked instance was killed.
Apart ==
  /\ \A p \in DOMAIN loaded : loaded[p].process <= spawned
  /\ \A n \in killed : n \in Nat /\ n <= spawned
  /\ \A p, q \in DOMAIN loaded : loaded[p].process = loaded[q].process => p = q
  /\ \A p \in DOMAIN loaded : loaded[p].healthy => loaded[p].process \notin killed

\* The starts of a plugin are its load and the restarts its instance inherited.
StartsCounted ==
  \A p \in Plugins : launches[p] = IF p \in DOMAIN loaded THEN 1 + loaded[p].restarts ELSE 0

HostInv == HostTypes /\ Apart /\ StartsCounted /\ NoOrphanProcess

USE DEF hostVars

LEMMA InitiallyApart == HostInit => HostInv
<1> SUFFICES ASSUME HostInit PROVE HostInv
  OBVIOUS
<1>1. loaded = <<>> /\ DOMAIN loaded = {}
  BY DEF HostInit
<1>2. HostTypes
  BY <1>1 DEF HostInit, HostTypes
<1>3. Apart /\ StartsCounted /\ NoOrphanProcess
  BY <1>1 DEF HostInit, Apart, StartsCounted, NoOrphanProcess
<1> QED
  BY <1>2, <1>3 DEF HostInv

LEMMA LoadKeepsApart ==
  ASSUME HostInv, NEW p \in Plugins, LoadPlugin(p)
  PROVE  HostInv'
<1> DEFINE new == Instance(spawned + 1, 0, TRUE)
<1> USE DEF HostInv
<1>1. CASE UNCHANGED <<loaded, running, launches>>
  <2>1. spawned \in Nat /\ spawned' = spawned + 1 /\ killed' = killed
    BY Zenon DEF LoadPlugin, HostTypes
  <2>2. HostTypes'
    BY <1>1, <2>1 DEF HostTypes
  <2>3. \A q \in DOMAIN loaded : loaded[q].process \in Nat
    BY DEF HostTypes, Instances
  <2>4. Apart'
    BY <1>1, <2>1, <2>3 DEF Apart
  <2>5. StartsCounted' /\ NoOrphanProcess'
    BY <1>1 DEF StartsCounted, NoOrphanProcess
  <2> QED
    BY <2>2, <2>4, <2>5
<1>2. CASE /\ loaded' = Register(loaded, p, new)
           /\ running' = running \cup {spawned + 1} /\ launches' = [launches EXCEPT ![p] = 1]
  <2>1. /\ p \notin DOMAIN loaded /\ spawned' = spawned + 1 /\ killed' = killed
        /\ new \in Instances /\ new.process = spawned + 1 /\ new.restarts = 0
    <3>1. p \notin DOMAIN loaded /\ spawned' = spawned + 1 /\ killed' = killed
      BY Zenon DEF LoadPlugin
    <3>2. spawned + 1 \in Nat /\ 0 \in 0 .. MaxRestarts
      BY HostAssumption DEF HostTypes
    <3> QED
      BY <3>1, <3>2 DEF Instance, Instances
  <2> HIDE DEF new
  <2>2. /\ DOMAIN loaded' = DOMAIN loaded \cup {p}
        /\ loaded'[p] = new
        /\ \A q \in DOMAIN loaded : q # p /\ loaded'[q] = loaded[q]
    BY <1>2, <2>1 DEF Register
  <2>3. HostTypes'
    <3>1. loaded' = [q \in DOMAIN loaded' |-> loaded'[q]]
      BY <1>2 DEF Register
    <3>2. \A q \in DOMAIN loaded' : loaded'[q] \in Instances
      BY <2>1, <2>2 DEF HostTypes
    <3> QED
      BY <1>2, <2>1, <2>2, <3>1, <3>2 DEF HostTypes
  <2>4. Apart'
    <3>1. \A q \in DOMAIN loaded : loaded[q].process \in Nat /\ loaded[q].process <= spawned
      BY DEF HostTypes, Apart, Instances
    <3>2. \A q \in DOMAIN loaded' : loaded'[q].process <= spawned'
      BY <2>1, <2>2, <3>1 DEF HostTypes
    <3>3. \A n \in killed' : n \in Nat /\ n <= spawned'
      BY <2>1 DEF Apart, HostTypes
    <3>4. \A q, t \in DOMAIN loaded' : loaded'[q].process = loaded'[t].process => q = t
      BY <2>1, <2>2, <3>1 DEF HostTypes, Apart
    <3>5. spawned + 1 \notin killed'
      BY <2>1 DEF Apart, HostTypes
    <3>6. \A q \in DOMAIN loaded' : loaded'[q].healthy => loaded'[q].process \notin killed'
      BY <2>1, <2>2, <3>5, Zenon DEF Apart
    <3> QED
      BY <3>2, <3>3, <3>4, <3>6, Zenon DEF Apart
  <2>5. StartsCounted'
    BY <1>2, <2>1, <2>2 DEF StartsCounted, HostTypes
  <2>6. NoOrphanProcess'
    BY <1>2, <2>1, <2>2 DEF NoOrphanProcess
  <2> QED
    BY <2>3, <2>4, <2>5, <2>6
<1> QED
  BY <1>1, <1>2, Zenon DEF LoadPlugin

LEMMA RestartKeepsApart ==
  ASSUME HostInv, NEW p \in Plugins, RestartPlugin(p)
  PROVE  HostInv'
<1> DEFINE inst == loaded[p]
           new == Instance(spawned + 1, inst.restarts + 1, TRUE)
           marked == Instance(inst.process, inst.restarts + 1, FALSE)
<1> USE DEF HostInv
<1>1. p \in DOMAIN loaded /\ inst \in Instances
  BY DEF RestartPlugin, HostTypes
<1>2. /\ inst.process \in Nat /\ inst.restarts \in 0 .. MaxRestarts /\ inst.healthy \in BOOLEAN
      /\ \A q \in DOMAIN loaded : loaded[q].process \in Nat /\ loaded[q].process <= spawned
  BY <1>1, Zenon DEF Instances, HostTypes, Apart
<1>3. CASE inst.restarts >= MaxRestarts
  <2>1. /\ loaded' = [loaded EXCEPT ![p].healthy = FALSE]
        /\ UNCHANGED <<running, killed, spawned, launches>>
    BY <1>3, Zenon DEF RestartPlugin, RestartWith
  <2>2. /\ DOMAIN loaded' = DOMAIN loaded
        /\ \A q \in DOMAIN loaded : q # p => loaded'[q] = loaded[q]
        /\ loaded'[p] = [inst EXCEPT !.healthy = FALSE]
    BY <1>1, <2>1 DEF HostTypes
  <2>3. /\ loaded'[p] \in Instances /\ loaded'[p].process = inst.process
        /\ loaded'[p].restarts = inst.restarts /\ ~ loaded'[p].healthy
    BY <1>1, <2>2, Zenon DEF Instances
  <2>4. HostTypes'
    BY <2>1, <2>2, <2>3, Zenon DEF HostTypes
  <2>5. Apart'
    BY <1>1, <2>1, <2>2, <2>3 DEF Apart
  <2>6. StartsCounted'
    BY <1>1, <2>1, <2>2, <2>3 DEF StartsCounted
  <2>7. NoOrphanProcess'
    BY <1>1, <2>1, <2>2, <2>3 DEF NoOrphanProcess
  <2> QED
    BY <2>4, <2>5, <2>6, <2>7
<1>4. CASE ~ (inst.restarts >= MaxRestarts)
  <2>1. /\ spawned' = spawned + 1 /\ launches' = [launches EXCEPT ![p] = @ + 1]
        /\ killed' = killed \cup {inst.process}
    BY <1>4, Zenon DEF RestartPlugin, RestartWith
  <2>2. inst.restarts + 1 \in 0 .. MaxRestarts /\ spawned \in Nat
    BY <1>2, <1>4, HostAssumption DEF HostTypes
  <2>3. /\ new \in Instances /\ new.process = spawned + 1 /\ new.restarts = inst.restarts + 1
        /\ marked \in Instances /\ marked.process = inst.process
        /\ marked.restarts = inst.restarts + 1 /\ ~ marked.healthy
    BY <1>2, <2>2 DEF Instance, Instances
  <2>4. \/ running' = (running \ {inst.process}) \cup {spawned + 1} /\ loaded' = [loaded EXCEPT ![p] = new]
        \/ running' = running \ {inst.process} /\ loaded' = [loaded EXCEPT ![p] = marked]
    BY <1>4, Zenon DEF RestartPlugin, RestartWith
  <2> HIDE DEF new, marked
  <2>5. PICK i \in {new, marked} : loaded' = [loaded EXCEPT ![p] = i]
    BY <2>4
  <2>6. /\ DOMAIN loaded' = DOMAIN loaded /\ loaded'[p] = i
        /\ \A q \in DOMAIN loaded : q # p => loaded'[q] = loaded[q]
    BY <1>1, <2>5 DEF HostTypes
  <2>7. /\ i \in Instances /\ i.restarts = inst.restarts + 1
        /\ i.process = spawned + 1 \/ (i.process = inst.process /\ ~ i.healthy)
    BY <2>3, <2>5, Zenon
  <2>8. HostTypes'
    BY <2>1, <2>2, <2>5, <2>6, <2>7 DEF HostTypes
  <2>9. Apart'
    <3>1. \A q \in DOMAIN loaded' : loaded'[q].process <= spawned'
      BY <1>1, <1>2, <2>1, <2>2, <2>6, <2>7
    <3>2. \A n \in killed' : n \in Nat /\ n <= spawned'
      BY <1>1, <1>2, <2>1, <2>2 DEF Apart
    <3>3. \A q, t \in DOMAIN loaded' : loaded'[q].process = loaded'[t].process => q = t
      BY <1>1, <1>2, <2>2, <2>6, <2>7 DEF Apart
    <3>4. ASSUME NEW q \in DOMAIN loaded', loaded'[q].healthy
          PROVE  loaded'[q].process \notin killed'
      <4>1. CASE q = p
        BY <1>1, <1>2, <2>1, <2>2, <2>6, <2>7, <3>4, <4>1 DEF Apart
      <4>2. CASE q # p
        BY <1>1, <2>1, <2>6, <3>4, <4>2, Zenon DEF Apart
      <4> QED
        BY <4>1, <4>2
    <3> QED
      BY <3>1, <3>2, <3>3, <3>4, Zenon DEF Apart
  <2>10. StartsCounted'
    BY <1>1, <1>2, <2>1, <2>6, <2>7 DEF StartsCounted, HostTypes
  <2>11. NoOrphanProcess'
    BY <1>1, <2>3, <2>4, <2>6 DEF NoOrphanProcess
  <2> QED
    BY <2>8, <2>9, <2>10, <2>11
<1> QED
  BY <1>3, <1>4

LEMMA StepsKeepApart == HostInv /\ [HostNext]_hostVars => HostInv'
<1> SUFFICES ASSUME HostInv, [HostNext]_hostVars PROVE HostInv'
  OBVIOUS
<1>1. ASSUME NEW p \in Plugins, LoadPlugin(p) PROVE HostInv'
  BY <1>1, LoadKeepsApart
<1>2. ASSUME NEW p \in Plugins, RestartPlugin(p) PROVE HostInv'
  BY <1>2, RestartKeepsApart
<1>3. CASE Shutdown
  <2>1. DOMAIN loaded' = {} /\ loaded' = <<>>
    BY <1>3 DEF Shutdown
  <2>2. HostTypes' /\ StartsCounted'
    BY <1>3, <2>1 DEF Shutdown, HostInv, HostTypes, StartsCounted
  <2>3. NoOrphanProcess'
    BY <1>3, Zenon DEF Shutdown, HostInv, NoOrphanProcess
  <2>4. Apart'
    BY <1>3, <2>1 DEF Shutdown, HostInv, HostTypes, Apart, Instances
  <2> QED
    BY <2>2, <2>3, <2>4 DEF HostInv
<1>4. CASE ProcessDies
  BY <1>4 DEF ProcessDies, HostInv, HostTypes, Apart, StartsCounted, NoOrphanProcess
<1>5. CASE UNCHANGED hostVars
  BY <1>5, Zenon DEF HostInv, HostTypes, Apart, StartsCounted, NoOrphanProcess
<1> QED
  BY <1>1, <1>2, <1>3, <1>4, <1>5, Zenon DEF HostNext

LEMMA ApartIsEnough == HostInv => NoOrphanProcess /\ KilledIsNotHandedOut /\ StartsAreBounded
<1> SUFFICES ASSUME HostInv PROVE NoOrphanProcess /\ KilledIsNotHandedOut /\ StartsAreBounded
  OBVIOUS
<1>1. KilledIsNotHandedOut
  BY DEF HostInv, Apart, KilledIsNotHandedOut, GetPlugin
<1>2. StartsAreBounded
  BY HostAssumption DEF HostInv, HostTypes, StartsCounted, Instances, StartsAreBounded
<1> QED
  BY <1>1, <1>2 DEF HostInv

\* No process outlives its plugin (RestartPlugin, Shutdown).
THEOREM NoProcessIsOrphaned == HostSpec => []NoOrphanProcess
BY InitiallyApart, StepsKeepApart, ApartIsEnough, PTL DEF HostSpec

\* GetPlugin never hands out a process that the host has killed.
THEOREM HandedOutWasNotKilled == HostSpec => []KilledIsNotHandedOut
BY InitiallyApart, StepsKeepApart, ApartIsEnough, PTL DEF HostSpec

\* A plugin is started at most 1 + MaxRestarts times until it is shut down.
THEOREM RestartsAreLimited == HostSpec => []StartsAreBounded
BY InitiallyApart, StepsKeepApart, ApartIsEnough, PTL DEF HostSpec

-----------------------------------------------------------------------------
(* The local store implements TicketBackend, for any tickets, any seed file, any *)
(* number of concurrent requests of the local UI, and marks at any time.         *)

Rows == [state : {"none", "todo", "in_progress", "done"},
         run : {"none", "idle", "running", "succeeded", "failed"}]

LocalTypes ==
  /\ row \in [TicketIDs -> Rows] /\ requests \in [TicketIDs -> Nat] /\ marks \subseteq TicketIDs
  /\ DOMAIN req = Clients
  /\ \A c \in Clients : req[c].eligible => req[c].ticket \in TicketIDs

\* A ticket that is not in the store was neither asked for nor marked.
LocalInv ==
  /\ LocalTypes
  /\ \A t \in TicketIDs : ~ Has(t) => requests[t] = 0 /\ t \notin marks

LEMMA RowFields ==
  /\ \A s, r : Row(s, r).state = s /\ Row(s, r).run = r
  /\ \A s \in {"none", "todo", "in_progress", "done"} :
       \A r \in {"none", "idle", "running", "succeeded", "failed"} : Row(s, r) \in Rows
  /\ NoRow = Row("none", "none")
BY DEF Row, Rows, NoRow

LEMMA InitiallyLocal == LocalInit => LocalInv
<1> SUFFICES ASSUME LocalInit PROVE LocalInv
  OBVIOUS
<1>1. /\ row = [t \in TicketIDs |-> NoRow] /\ requests = [t \in TicketIDs |-> 0] /\ marks = {}
      /\ DOMAIN req = Clients /\ \A c \in Clients : ~ req[c].eligible
  BY DEF LocalInit, NoRequest
<1>2. NoRow \in Rows
  BY RowFields
<1> QED
  BY <1>1, <1>2 DEF LocalInv, LocalTypes

\* One ticket's row is replaced.
LEMMA RowReplaced ==
  ASSUME LocalTypes, NEW t \in TicketIDs, NEW x \in Rows, row' = [row EXCEPT ![t] = x]
  PROVE  /\ row' \in [TicketIDs -> Rows] /\ row'[t] = x
         /\ \A u \in TicketIDs : u # t => row'[u] = row[u]
BY DEF LocalTypes

\* What a mark does to the store: the row is there, and is not ready afterwards.
LEMMA MarksWithdraw ==
  ASSUME LocalTypes, NEW t \in TicketIDs,
         LocalMarkInProgress(t) \/ LocalMarkComplete(t) \/ LocalMarkFailed(t)
  PROVE  /\ row' \in [TicketIDs -> Rows] /\ Has(t) /\ Has(t)' /\ ~ ReadyTicket(t)'
         /\ \A u \in TicketIDs : u # t => row'[u] = row[u]
         /\ marks' = marks \cup {t} /\ UNCHANGED <<req, requests>>
<1>1. PICK s \in {"none", "todo", "in_progress", "done"}, r \in {"running", "succeeded", "failed"} :
        row' = [row EXCEPT ![t] = Row(s, r)]
  <2>1. row[t].state \in {"none", "todo", "in_progress", "done"}
    BY DEF LocalTypes, Rows
  <2> QED
    BY <2>1, Zenon DEF LocalMarkInProgress, LocalMarkComplete, LocalMarkFailed, TransitionTicket,
         Transition
<1>2. Has(t) /\ marks' = marks \cup {t} /\ UNCHANGED <<req, requests>>
  BY Zenon DEF LocalMarkInProgress, LocalMarkComplete, LocalMarkFailed, TransitionTicket
<1>3. Row(s, r) \in Rows /\ Row(s, r) # NoRow /\ Row(s, r) # Row("todo", "idle")
  BY RowFields
<1>4. /\ row' \in [TicketIDs -> Rows] /\ row'[t] = Row(s, r)
      /\ \A u \in TicketIDs : u # t => row'[u] = row[u]
  BY <1>1, <1>3, RowReplaced, Zenon
<1> QED
  BY <1>2, <1>3, <1>4, Zenon DEF Has, ReadyTicket

\* A person puts a ticket up that is not ready: it was asked for once more.
PutUp(t) ==
  /\ ~ ReadyTicket(t) /\ row' = [row EXCEPT ![t] = Row("todo", "idle")]
  /\ requests' = [requests EXCEPT ![t] = @ + 1] /\ marks' = marks \ {t}

LEMMA CreatedIsPutUp ==
  ASSUME LocalInv, NEW t \in TicketIDs, CreateTicket(t)
  PROVE  PutUp(t) /\ UNCHANGED req
<1>1. t \notin marks /\ marks' = marks
  BY DEF CreateTicket, LocalInv
<1>2. ~ ReadyTicket(t)
  BY RowFields DEF CreateTicket, ReadyTicket, Has
<1> QED
  BY <1>1, <1>2 DEF CreateTicket, PutUp

LEMMA RequeuedIsPutUp ==
  ASSUME LocalInv, NEW c \in Clients, RequeueTicket(c)
  PROVE  /\ DOMAIN req' = Clients
         /\ \A d \in Clients : req'[d].eligible => req'[d].ticket \in TicketIDs
         /\ UNCHANGED <<row, requests, marks>> \/ \E t \in TicketIDs : PutUp(t)
<1>1. req[c].ticket \in TicketIDs
  BY Zenon DEF RequeueTicket, LocalInv, LocalTypes
<1>2. /\ DOMAIN req' = Clients
      /\ \A d \in Clients : req'[d].eligible => req'[d].ticket \in TicketIDs
  BY Zenon DEF RequeueTicket, NoRequest, LocalInv, LocalTypes
<1>3. UNCHANGED <<row, requests, marks>> \/ PutUp(req[c].ticket)
  BY Zenon DEF RequeueTicket, MayRequeue, ReadyTicket, PutUp
<1> QED
  BY <1>1, <1>2, <1>3, Zenon

LEMMA PutUpKeepsLocal ==
  ASSUME LocalInv, NEW t \in TicketIDs, PutUp(t), DOMAIN req' = Clients,
         \A d \in Clients : req'[d].eligible => req'[d].ticket \in TicketIDs
  PROVE  LocalInv'
<1>1. Row("todo", "idle") \in Rows /\ Row("todo", "idle") # NoRow
  BY RowFields
<1>2. /\ row' \in [TicketIDs -> Rows] /\ row'[t] = Row("todo", "idle")
      /\ \A u \in TicketIDs : u # t => row'[u] = row[u]
  BY <1>1, RowReplaced, Zenon DEF PutUp, LocalInv
<1>3. /\ requests' \in [TicketIDs -> Nat] /\ marks' \subseteq TicketIDs
      /\ \A u \in TicketIDs : u # t => requests'[u] = requests[u]
  BY DEF PutUp, LocalInv, LocalTypes
<1>4. LocalTypes'
  BY <1>2, <1>3, Zenon DEF LocalTypes
<1>5. ASSUME NEW u \in TicketIDs, ~ Has(u)' PROVE requests'[u] = 0 /\ u \notin marks'
  <2>1. u # t
    BY <1>1, <1>2, <1>5 DEF Has
  <2>2. ~ Has(u)
    BY <1>2, <1>5, <2>1 DEF Has
  <2> QED
    BY <1>3, <2>1, <2>2 DEF LocalInv, PutUp
<1> QED
  BY <1>4, <1>5 DEF LocalInv

LEMMA StepsKeepLocal == LocalInv /\ [LocalNext]_localVars => LocalInv'
<1> SUFFICES ASSUME LocalInv, [LocalNext]_localVars PROVE LocalInv'
  OBVIOUS
<1>1. CASE ImportSeedFile
  <2> DEFINE new == {t \in Seed : ~ Has(t)}
  <2>1. /\ row' = [t \in TicketIDs |-> IF t \in new THEN Row("todo", "idle") ELSE row[t]]
        /\ requests' = [t \in TicketIDs |-> IF t \in new THEN 1 ELSE requests[t]]
        /\ UNCHANGED <<req, marks>>
    BY <1>1, Zenon DEF ImportSeedFile
  <2> HIDE DEF new
  <2>2. LocalTypes'
    BY <2>1, RowFields, Zenon DEF LocalInv, LocalTypes
  <2>3. \A t \in TicketIDs : ~ Has(t)' => requests'[t] = 0 /\ t \notin marks'
    BY <2>1, RowFields DEF LocalInv, Has
  <2> QED
    BY <2>2, <2>3 DEF LocalInv
<1>2. CASE CloseBackend
  <2>1. /\ UNCHANGED <<row, requests, marks>>
        /\ DOMAIN req' = Clients /\ \A c \in Clients : ~ req'[c].eligible
    BY <1>2 DEF CloseBackend, NoRequest
  <2> QED
    BY <2>1, Zenon DEF LocalInv, LocalTypes, Has
<1>3. ASSUME NEW t \in TicketIDs,
             LocalMarkInProgress(t) \/ LocalMarkComplete(t) \/ LocalMarkFailed(t)
      PROVE  LocalInv'
  <2>1. /\ row' \in [TicketIDs -> Rows] /\ Has(t)'
        /\ \A u \in TicketIDs : u # t => row'[u] = row[u]
        /\ marks' = marks \cup {t} /\ UNCHANGED <<req, requests>>
    BY <1>3, MarksWithdraw, Zenon DEF LocalInv
  <2>2. LocalTypes'
    BY <2>1 DEF LocalInv, LocalTypes
  <2> QED
    BY <2>1, <2>2, Zenon DEF LocalInv, Has
<1>4. ASSUME NEW t \in TicketIDs, CreateTicket(t) PROVE LocalInv'
  BY <1>4, CreatedIsPutUp, PutUpKeepsLocal, Zenon DEF LocalInv, LocalTypes
<1>5. ASSUME NEW t \in TicketIDs, NEW c \in Clients, CheckRequeue(c, t) PROVE LocalInv'
  <2>1. /\ UNCHANGED <<row, requests, marks>>
        /\ req' = [req EXCEPT ![c] = [ticket |-> t, eligible |-> TRUE]]
    BY <1>5, Zenon DEF CheckRequeue
  <2> QED
    BY <2>1, Zenon DEF LocalInv, LocalTypes, Has
<1>6. ASSUME NEW c \in Clients, RequeueTicket(c) PROVE LocalInv'
  <2>1. CASE UNCHANGED <<row, requests, marks>>
    BY <1>6, <2>1, RequeuedIsPutUp, Zenon DEF LocalInv, LocalTypes, Has
  <2> QED
    BY <1>6, <2>1, RequeuedIsPutUp, PutUpKeepsLocal, Zenon
<1>7. CASE UNCHANGED localVars
  BY <1>7, Zenon DEF localVars, LocalInv, LocalTypes, Has
<1> QED
  BY <1>1, <1>2, <1>3, <1>4, <1>5, <1>6, <1>7, Zenon DEF LocalNext

-----------------------------------------------------------------------------
(* The refinement *)

\* Every step of the store is a step of the abstract backend, or leaves it alone.
LEMMA StepsRefine == LocalInv /\ [LocalNext]_localVars => [Local!BackendNext]_(Local!backendVars)
<1> SUFFICES ASSUME LocalInv, [LocalNext]_localVars
             PROVE  [Local!BackendNext]_(Local!backendVars)
  OBVIOUS
<1> DEFINE offered == {t \in TicketIDs : ReadyTicket(t)}
<1>0. ASSUME UNCHANGED <<row, requests, marks>> PROVE UNCHANGED Local!backendVars
  BY <1>0 DEF Local!backendVars, ReadyTicket
<1>1. ASSUME NEW S \in SUBSET TicketIDs, \A t \in S : ~ ReadyTicket(t) /\ ReadyTicket(t)',
             \A t \in TicketIDs \ S : row'[t] = row[t],
             requests' = [t \in TicketIDs |-> IF t \in S THEN requests[t] + 1 ELSE requests[t]],
             marks' = marks \ S
      PROVE  Local!BackendNext
  <2>1. \A t \in TicketIDs \ S : ReadyTicket(t)' <=> ReadyTicket(t)
    BY <1>1, Zenon DEF ReadyTicket
  <2>2. S \cap offered = {} /\ offered' = offered \cup S
    BY <1>1, <2>1
  <2>3. Local!Ask(S)
    BY <1>1, <2>2, Zenon DEF Local!Ask
  <2> QED
    BY <2>3 DEF Local!BackendNext
<1>2. ASSUME NEW t \in TicketIDs, PutUp(t) PROVE Local!BackendNext
  <2>1. /\ row'[t] = Row("todo", "idle") /\ \A u \in TicketIDs \ {t} : row'[u] = row[u]
        /\ requests' = [u \in TicketIDs |-> IF u \in {t} THEN requests[u] + 1 ELSE requests[u]]
    BY <1>2, Zenon DEF PutUp, LocalInv, LocalTypes
  <2> QED
    BY <1>1, <1>2, <2>1, Zenon DEF PutUp, ReadyTicket
<1>3. CASE ImportSeedFile
  <2> DEFINE new == {t \in Seed : ~ Has(t)}
  <2>1. new \in SUBSET TicketIDs /\ \A t \in new : ~ Has(t)
    BY SeedAssumption
  <2>2. \A t \in new : ~ ReadyTicket(t) /\ requests[t] = 0 /\ t \notin marks
    BY <2>1, RowFields DEF ReadyTicket, Has, LocalInv
  <2>3. /\ row' = [t \in TicketIDs |-> IF t \in new THEN Row("todo", "idle") ELSE row[t]]
        /\ requests' = [t \in TicketIDs |-> IF t \in new THEN 1 ELSE requests[t]]
        /\ marks' = marks
    BY <1>3, Zenon DEF ImportSeedFile
  <2> HIDE DEF new
  <2>4. requests' = [t \in TicketIDs |-> IF t \in new THEN requests[t] + 1 ELSE requests[t]]
    BY <2>1, <2>2, <2>3
  <2>5. marks' = marks \ new /\ \A t \in new : ReadyTicket(t)'
    BY <2>1, <2>2, <2>3 DEF ReadyTicket
  <2> QED
    BY <1>1, <2>1, <2>2, <2>3, <2>4, <2>5, Zenon
<1>4. CASE CloseBackend
  BY <1>0, <1>4 DEF CloseBackend
<1>5. ASSUME NEW t \in TicketIDs,
             LocalMarkInProgress(t) \/ LocalMarkComplete(t) \/ LocalMarkFailed(t)
      PROVE  Local!BackendNext
  <2>1. /\ ~ ReadyTicket(t)' /\ \A u \in TicketIDs : u # t => row'[u] = row[u]
        /\ marks' = marks \cup {t} /\ UNCHANGED requests
    BY <1>5, MarksWithdraw, Zenon DEF LocalInv
  <2>2. \A u \in TicketIDs : u # t => (ReadyTicket(u)' <=> ReadyTicket(u))
    BY <2>1, Zenon DEF ReadyTicket
  <2>3. offered' = offered \ {t}
    BY <2>1, <2>2
  <2>4. Local!Mark(t)
    BY <2>1, <2>3, Zenon DEF Local!Mark
  <2> QED
    BY <2>4 DEF Local!BackendNext
<1>6. ASSUME NEW t \in TicketIDs, CreateTicket(t) PROVE Local!BackendNext
  BY <1>2, <1>6, CreatedIsPutUp
<1>7. ASSUME NEW t \in TicketIDs, NEW c \in Clients, CheckRequeue(c, t)
      PROVE  UNCHANGED Local!backendVars
  BY <1>0, <1>7, Zenon DEF CheckRequeue
<1>8. ASSUME NEW c \in Clients, RequeueTicket(c) PROVE [Local!BackendNext]_(Local!backendVars)
  BY <1>0, <1>2, <1>8, RequeuedIsPutUp, Zenon
<1>9. CASE UNCHANGED localVars
  BY <1>0, <1>9, Zenon DEF localVars
<1> QED
  BY <1>3, <1>4, <1>5, <1>6, <1>7, <1>8, <1>9, Zenon DEF LocalNext

\* The local store keeps the promises of ticketing.Backend: a ticket is offered from when a
\* person puts it up until the controller marks it, whatever order the controller's marks,
\* the UI's requests and restarts come in.
THEOREM LocalImplementsBackend == LocalSpec => LocalIsABackend
<1>1. LocalInit => Local!BackendInit
  <2> SUFFICES ASSUME LocalInit PROVE Local!BackendInit
    OBVIOUS
  <2>1. \A t \in TicketIDs : ~ ReadyTicket(t)
    BY RowFields DEF LocalInit, ReadyTicket
  <2> QED
    BY <2>1 DEF LocalInit, Local!BackendInit
<1> QED
  BY <1>1, InitiallyLocal, StepsKeepLocal, StepsRefine, PTL
     DEF LocalSpec, LocalIsABackend, Local!BackendSpec

-----------------------------------------------------------------------------
(* A tournament has one judge and the winner its judge meant, for any number of *)
(* candidates, any threshold and any order of completions, failures, retries    *)
(* and watchdog interventions.                                                  *)

Points == {"idle", "mark", "complete", "failed", "record", "ready", "begin", "launchJudge",
           "select", "reportComplete", "reportFailed", "decide", "retry"}

TournamentTypes ==
  /\ tpc \in [Goroutines -> Points]
  /\ judges \in Nat

\* No judge before the judging has begun, and one launch of it after that.
JudgeOnce ==
  /\ tstate \in {"None", "Competing"} => judges = 0 /\ tpc[LoopT] # "launchJudge"
  /\ tpc[LoopT] = "launchJudge" => judges = 0
  /\ OneJudge

\* While the tournament is judged, the list of results is the one the judge was shown.
SameResults == tstate = "Judging" => judged = Completed

TournamentInv == TournamentTypes /\ JudgeOnce /\ SameResults /\ WinnerIsThePickedOne

LEMMA InitiallyUnjudged == TournamentInit => TournamentInv
BY DEF TournamentInit, TournamentInv, TournamentTypes, JudgeOnce, SameResults, OneJudge,
       WinnerIsThePickedOne, Points, Goroutines

\* A step of g to a point other than the launch of the judge.
Elsewhere ==
  tpc' \in [Goroutines -> Points] /\ (tpc'[LoopT] = "launchJudge" => tpc[LoopT] = "launchJudge")

LEMMA GoesElsewhere ==
  ASSUME TournamentTypes, NEW g \in Goroutines, NEW l \in Points \ {"launchJudge"},
         tpc' = [tpc EXCEPT ![g] = l]
  PROVE  Elsewhere
BY DEF TournamentTypes, Elsewhere, Goroutines

\* Steps that leave the coordinator alone, or only cancel the tournament.
LEMMA QuietStep ==
  ASSUME TournamentInv, Elsewhere, coordVars' = coordVars \/ CancelTournament,
         UNCHANGED <<judged, picked, judges>>
  PROVE  TournamentInv'
<1>1. TournamentTypes'
  BY DEF TournamentInv, TournamentTypes, Elsewhere
<1>2. tstate' = tstate \/ tstate' = "Cancelled"
  BY DEF coordVars, CancelTournament
<1>3. entrants' = entrants /\ results' = results /\ winner' = winner
  BY DEF coordVars, CancelTournament
<1>4. JudgeOnce'
  BY <1>2 DEF TournamentInv, JudgeOnce, OneJudge, Elsewhere
<1>5. SameResults'
  BY <1>2, <1>3 DEF TournamentInv, SameResults, Completed
<1>6. WinnerIsThePickedOne'
  BY <1>3 DEF TournamentInv, WinnerIsThePickedOne
<1> QED
  BY <1>1, <1>4, <1>5, <1>6 DEF TournamentInv

\* Results come in while the candidates compete.
LEMMA ResultStep ==
  ASSUME TournamentInv, Elsewhere, NEW c, OnCandidateComplete(c), UNCHANGED <<judged, picked, judges>>
  PROVE  TournamentInv'
<1>1. tstate = "Competing" /\ tstate' = "Competing" /\ winner' = winner
  BY DEF OnCandidateComplete
<1> QED
  BY <1>1 DEF TournamentInv, TournamentTypes, JudgeOnce, OneJudge, SameResults,
              WinnerIsThePickedOne, Elsewhere

LEMMA FailureStepsKeep ==
  ASSUME TournamentInv, NEW g \in Goroutines, FailureSteps(g)
  PROVE  TournamentInv'
<1>0. TournamentTypes
  BY DEF TournamentInv
<1>1. CASE CompetitorFailed(g)
  <2>1. Elsewhere /\ UNCHANGED <<judged, picked, judges>>
    BY <1>0, <1>1, GoesElsewhere, Zenon DEF CompetitorFailed, At, Points
  <2>2. \/ coordVars' = coordVars \/ CancelTournament
        \/ OnCandidateComplete(trun[g])
    BY <1>1 DEF CompetitorFailed
  <2> QED
    BY <2>1, <2>2, QuietStep, ResultStep
<1>2. CASE DecideCompetitor(g)
  <2>1. Elsewhere
    BY <1>0, <1>2, GoesElsewhere, Zenon DEF DecideCompetitor, At, Points
  <2> QED
    BY <1>2, <2>1, QuietStep, Zenon DEF DecideCompetitor
<1>3. CASE RetryCompetitor(g)
  <2>1. Elsewhere
    BY <1>0, <1>3, GoesElsewhere, Zenon DEF RetryCompetitor, At, Points
  <2> QED
    BY <1>3, <2>1, QuietStep, Zenon DEF RetryCompetitor
<1>4. CASE ReportTournament(g)
  <2>1. Elsewhere
    BY <1>0, <1>4, GoesElsewhere, Zenon DEF ReportTournament, At, Points
  <2> QED
    BY <1>4, <2>1, QuietStep DEF ReportTournament
<1> QED
  BY <1>1, <1>2, <1>3, <1>4 DEF FailureSteps

LEMMA LoopKeeps ==
  ASSUME TournamentInv, TournamentLoop
  PROVE  TournamentInv'
<1>0. TournamentTypes /\ LoopT \in Goroutines
  BY DEF TournamentInv, Goroutines
<1>1. ASSUME NEW S \in SUBSET Candidates, LaunchTournament(S) PROVE TournamentInv'
  <2>1. CASE UNCHANGED <<tticket, coordVars, competitorVars, tpc, trun>>
    <3>1. Elsewhere
      BY <1>0, <2>1 DEF Elsewhere, TournamentTypes
    <3> QED
      BY <1>1, <2>1, <3>1, QuietStep, Zenon DEF LaunchTournament
  <2>2. CASE StartTournament(S) /\ At(LoopT, "mark")
    <3>1. Elsewhere
      BY <1>0, <2>2, GoesElsewhere, Zenon DEF At, Points
    <3>2. tstate = "None" /\ tstate' = "Competing" /\ winner' = winner
          /\ UNCHANGED <<judged, picked, judges>>
      BY <1>1, <2>2, Zenon DEF LaunchTournament, StartTournament
    <3> QED
      BY <3>1, <3>2 DEF TournamentInv, TournamentTypes, JudgeOnce, OneJudge, SameResults,
                        WinnerIsThePickedOne, Elsewhere
  <2> QED
    BY <1>1, <2>1, <2>2, Zenon DEF LaunchTournament
<1>2. CASE MarkTournament
  <2>1. Elsewhere
    BY <1>0, <1>2, GoesElsewhere, Zenon DEF MarkTournament, At, Points
  <2> QED
    BY <1>2, <2>1, QuietStep DEF MarkTournament
<1>3. CASE CompetitorComplete
  <2>1. Elsewhere
    BY <1>0, <1>3, GoesElsewhere, Zenon DEF CompetitorComplete, At, Points
  <2> QED
    BY <1>3, <2>1, QuietStep, Zenon DEF CompetitorComplete
<1>4. CASE RecordCandidate
  <2>1. Elsewhere
    BY <1>0, <1>4, GoesElsewhere, Zenon DEF RecordCandidate, At, Points
  <2>2. OnCandidateComplete(trun[LoopT]) \/ UNCHANGED coordVars
    BY <1>4 DEF RecordCandidate
  <2> QED
    BY <1>4, <2>1, <2>2, QuietStep, ResultStep, Zenon DEF RecordCandidate
<1>5. CASE PrepareJudge
  <2>1. Elsewhere
    BY <1>0, <1>5, GoesElsewhere, Zenon DEF PrepareJudge, At, Points
  <2> QED
    BY <1>5, <2>1, QuietStep DEF PrepareJudge
<1>6. CASE CallBeginJudging
  <2>1. CASE BeginJudging /\ judged' = Completed /\ At(LoopT, "launchJudge")
    <3>1. tpc' \in [Goroutines -> Points] /\ tpc'[LoopT] = "launchJudge"
      BY <1>0, <2>1 DEF At, Points, TournamentTypes
    <3>2. /\ tstate = "Competing" /\ tstate' = "Judging" /\ Completed' = Completed
          /\ UNCHANGED <<winner, picked, judges>>
      BY <1>6, <2>1, Zenon DEF CallBeginJudging, BeginJudging, Completed
    <3> QED
      BY <2>1, <3>1, <3>2 DEF TournamentInv, TournamentTypes, JudgeOnce, OneJudge,
                              SameResults, WinnerIsThePickedOne
  <2>2. CASE At(LoopT, "idle") /\ UNCHANGED <<coordVars, judged>>
    <3>1. Elsewhere
      BY <1>0, <2>2, GoesElsewhere, Zenon DEF At, Points
    <3> QED
      BY <1>6, <2>2, <3>1, QuietStep, Zenon DEF CallBeginJudging
  <2> QED
    BY <1>6, <2>1, <2>2 DEF CallBeginJudging
<1>7. CASE LaunchJudge
  <2>1. Elsewhere /\ tpc'[LoopT] = "idle" /\ tpc[LoopT] = "launchJudge"
    BY <1>0, <1>7, GoesElsewhere, Zenon DEF LaunchJudge, At, Points, TournamentTypes
  <2>2. CASE judges' = judges + 1 /\ UNCHANGED coordVars
    <3>1. judges = 0 /\ tstate \notin {"None", "Competing"} /\ tstate' = tstate
      BY <2>1, <2>2 DEF TournamentInv, JudgeOnce, coordVars
    <3>2. TournamentTypes' /\ JudgeOnce'
      BY <2>1, <2>2, <3>1 DEF TournamentTypes, JudgeOnce, OneJudge, Elsewhere
    <3>3. SameResults' /\ WinnerIsThePickedOne'
      BY <1>7, <2>2, Zenon DEF LaunchJudge, TournamentInv, SameResults,
           WinnerIsThePickedOne, Completed, coordVars
    <3> QED
      BY <3>2, <3>3 DEF TournamentInv
  <2>3. CASE CancelTournament /\ UNCHANGED judges
    BY <1>7, <2>1, <2>3, QuietStep, Zenon DEF LaunchJudge
  <2> QED
    BY <1>7, <2>2, <2>3, Zenon DEF LaunchJudge
<1>8. ASSUME NEW i \in 0 .. Cardinality(Candidates), HandleJudgeDecision(i) PROVE TournamentInv'
  <2>1. Elsewhere /\ tpc'[LoopT] # "launchJudge" /\ UNCHANGED <<judged, judges>>
    BY <1>0, <1>8, GoesElsewhere, Zenon DEF HandleJudgeDecision, At, Points, TournamentTypes
  <2>2. CASE /\ SelectWinner(Nth(Completed, IF i \in 0..(Cardinality(Completed) - 1) THEN i ELSE 0))
             /\ picked' = Nth(judged, IF i \in 0..(Cardinality(judged) - 1) THEN i ELSE 0)
    <3>1. tstate = "Judging" /\ tstate' = "Selected" /\ judged = Completed
      BY <2>2, Zenon DEF SelectWinner, TournamentInv, SameResults
    <3>2. WinnerIsThePickedOne'
      BY <2>2, <3>1 DEF SelectWinner, WinnerIsThePickedOne
    <3>3. TournamentTypes' /\ JudgeOnce' /\ SameResults'
      BY <2>1, <3>1 DEF TournamentInv, TournamentTypes, JudgeOnce, OneJudge, SameResults, Elsewhere
    <3> QED
      BY <3>2, <3>3 DEF TournamentInv
  <2>3. CASE (UNCHANGED coordVars \/ CancelTournament) /\ UNCHANGED picked
    BY <2>1, <2>3, QuietStep
  <2> QED
    BY <1>8, <2>2, <2>3, Zenon DEF HandleJudgeDecision
<1>9. ASSUME NEW r \in Competitors, CheckCompetitor(r) PROVE TournamentInv'
  <2>1. Elsewhere
    BY <1>0, <1>9, GoesElsewhere, Zenon DEF CheckCompetitor, Handle, Points
  <2> QED
    BY <1>9, <2>1, QuietStep, Zenon DEF CheckCompetitor
<1>10. CASE FailureSteps(LoopT)
  BY <1>0, <1>10, FailureStepsKeep
<1> QED
  BY <1>1, <1>2, <1>3, <1>4, <1>5, <1>6, <1>7, <1>8, <1>9, <1>10, Zenon DEF TournamentLoop

LEMMA TournamentStepsKeep == TournamentInv /\ [TournamentNext]_tournamentVars => TournamentInv'
<1> SUFFICES ASSUME TournamentInv, [TournamentNext]_tournamentVars PROVE TournamentInv'
  OBVIOUS
<1>0. TournamentTypes /\ DogT \in Goroutines
  BY DEF TournamentInv, Goroutines
<1>1. CASE TournamentLoop
  BY <1>1, LoopKeeps
<1>2. CASE FailureSteps(DogT)
  BY <1>0, <1>2, FailureStepsKeep
<1>3. ASSUME NEW r \in Anomalous, WatchdogFails(r) PROVE TournamentInv'
  <2>1. Elsewhere
    BY <1>0, <1>3, GoesElsewhere, Zenon DEF WatchdogFails, Handle, Points
  <2> QED
    BY <1>3, <2>1, QuietStep DEF WatchdogFails
<1>4. ASSUME NEW r \in Competitors, CompetitorJobEnds(r) PROVE TournamentInv'
  <2>1. Elsewhere
    BY <1>0, <1>4 DEF CompetitorJobEnds, Elsewhere, TournamentTypes
  <2> QED
    BY <1>4, <2>1, QuietStep, Zenon DEF CompetitorJobEnds
<1>5. CASE UNCHANGED tournamentVars
  <2>1. Elsewhere
    BY <1>0, <1>5, Zenon DEF tournamentVars, Elsewhere, TournamentTypes
  <2> QED
    BY <1>5, <2>1, QuietStep, Zenon DEF tournamentVars
<1> QED
  BY <1>1, <1>2, <1>3, <1>4, <1>5 DEF TournamentNext

\* One judge at most is started for a tournament, whatever fails or is retried meanwhile
\* (launchJudge, BeginJudging).
THEOREM OneJudgePerTournament == TournamentSpec => []OneJudge
<1>1. TournamentInv => OneJudge
  BY DEF TournamentInv, JudgeOnce
<1> QED
  BY <1>1, InitiallyUnjudged, TournamentStepsKeep, PTL DEF TournamentSpec

\* The winner is the candidate the judge meant by its index, although the list is built
\* anew when the judge has ended (CompletedResults, SelectWinner).
THEOREM JudgesChoiceWins == TournamentSpec => []WinnerIsThePickedOne
<1>1. TournamentInv => WinnerIsThePickedOne
  BY DEF TournamentInv
<1> QED
  BY <1>1, InitiallyUnjudged, TournamentStepsKeep, PTL DEF TournamentSpec
=============================================================================
