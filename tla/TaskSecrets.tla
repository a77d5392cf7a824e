---------------------------- MODULE TaskSecrets ----------------------------
(***************************************************************************)
(* Task-scoped secrets: what a task may ask for (internal/secretresolver), *)
(* and the life of the ephemeral Kubernetes Secret that carries the values *)
(* to its Job (internal/controller/secrets.go, launchTaskRun).  Launches   *)
(* run in several goroutines; the reconcile loop sweeps stranded Secrets;  *)
(* the process may be killed between any two steps of a launch.            *)
(***************************************************************************)
EXTENDS Integers, Sequences, FiniteSets, Functions

CONSTANTS
  SecretRuns,         \* TaskRuns launched
  SecretTasks,        \* what a task may declare: [body, labels], entries and labels
  Policy,             \* [raw, schemes, blocked, allowed, tenant]
  Aliases,            \* alias name -> [env, scheme, path, tenant]
  Backends,           \* schemes with a registered backend
  SpecEnv,            \* variables the engine's spec names: Env, SecretKeyRefs, SecretEnv
  MaxSecretRequests,
  SecretMishaps       \* subsets of {"api", "adopt", "crash", "relaunch"} to consider

VARIABLES
  smishaps,
  asked,        \* what each task declares
  spc,          \* control point of each launch
  secretObj,    \* its Secret: "none", "unowned" or "owned" by the Job
  old,          \* Secrets past taskSecretOrphanGrace
  sjob,         \* its Job: "none", "active" or "deleted"
  jobEnv,       \* variables of the Job taken from task secrets
  unadopted,    \* launches whose adoption failed
  sweep         \* Secrets the sweep in progress still has to delete

launchVars == <<spc, secretObj, old, sjob, jobEnv, unadopted>>
secretVars == <<smishaps, asked, launchVars, sweep>>

-----------------------------------------------------------------------------
(* Requests and their resolution *)

Bad == [env |-> "", scheme |-> "bad", path |-> ""]

\* entryToRequest; "blank" stands for white space.  An alias has no variable yet.
EntryToRequest(e) ==
  CASE e.alias \notin {"", "blank"} -> [env |-> "", scheme |-> "alias", path |-> e.alias]
    [] e.alias = "" /\ e.path \notin {"", "blank"} /\ e.env \notin {"", "blank"}
                                    -> [env |-> e.env, scheme |-> e.scheme, path |-> e.path]
    [] OTHER                        -> Bad

\* The labels ParseLabels does not skip: osmia:secret:ENV=URI.
SecretLabels(labels) == {l \in labels : l.env # ""}
LabelToRequest(l) == [env |-> l.env, scheme |-> l.scheme, path |-> l.path]

\* taskSecretRequests: from the description's blocks and from the labels.
Requests(task) ==
  {EntryToRequest(e) : e \in Range(task.body)} \cup {LabelToRequest(l) : l \in SecretLabels(task.labels)}
Declared(task) == Len(task.body) + Cardinality(SecretLabels(task.labels))

\* ValidateRawRef, on what the task wrote.
RawRefAllowed(q) == Policy.raw \/ q.scheme = "alias"

\* ValidateAliasTenant
TenantMatches(a) == a.tenant = "" \/ a.tenant = Policy.tenant

\* expandAliases: the task's variable, else the alias's, else the alias's name.
FirstNonEmpty(a, b, c) == IF a # "" THEN a ELSE IF b # "" THEN b ELSE c
Expand(q) ==
  IF q.scheme # "alias" THEN q
  ELSE LET a == Aliases[q.path]
       IN  [env |-> FirstNonEmpty(q.env, a.env, q.path),
            scheme |-> a.scheme, path |-> a.path]

\* ValidateResolved, on the concrete reference.
ResolvedAllowed(q) ==
  /\ Policy.schemes = {} \/ q.scheme \in Policy.schemes
  /\ q.env = "" \/ /\ q.env \notin Policy.blocked
                   /\ Policy.allowed = {} \/ q.env \in Policy.allowed

\* resolveOne finds a way to supply the value; k8s references need no backend.
Resolvable(q) == q.scheme # "" /\ (q.scheme = "k8s" \/ q.scheme \in Backends)

\* Variant: the rules for variables see the one the task wrote.
AcceptsUnexpanded(task) ==
  LET qs == Requests(task)
      aliased == {q \in qs : q.scheme = "alias"}
  IN  /\ Bad \notin qs /\ Declared(task) <= MaxSecretRequests
      /\ \A q \in qs : RawRefAllowed(q)
      /\ \A q \in aliased : q.path \in DOMAIN Aliases /\ TenantMatches(Aliases[q.path])
      /\ \A q \in qs : ResolvedAllowed([Expand(q) EXCEPT !.env = q.env]) /\ Resolvable(Expand(q))

\* Resolve returns no error: parsing, limit, raw references, expansion, policy
\* on what the aliases stand for, and a backend for each.
Accepts(task) ==
  LET qs == Requests(task)
      aliased == {q \in qs : q.scheme = "alias"}
  IN  /\ Bad \notin qs /\ Declared(task) <= MaxSecretRequests
      /\ \A q \in qs : RawRefAllowed(q)
      /\ \A q \in aliased : q.path \in DOMAIN Aliases /\ TenantMatches(Aliases[q.path])
      /\ \A q \in qs : ResolvedAllowed(Expand(q)) /\ Resolvable(Expand(q))

\* resolveTaskSecrets: variables injected by reference to an existing Secret, and
\* those whose value must be written to an ephemeral one.
Plan(task) ==
  LET qs == {Expand(q) : q \in Requests(task)}
  IN  [keyRefs |-> {q.env : q \in {p \in qs : p.scheme = "k8s"}},
       values  |-> {q.env : q \in {p \in qs : p.scheme # "k8s"}}]

PlanEnv(task) == Plan(task).keyRefs \cup Plan(task).values

\* applyTaskSecrets refuses a variable the engine's spec names (checkEnvCollision); what
\* else the Secrets hold that are mounted whole with envFrom is not known here.
NoCollision(task) == PlanEnv(task) \cap SpecEnv = {}

-----------------------------------------------------------------------------
SecretsInit ==
  /\ smishaps \in SecretMishaps
  /\ asked \in [SecretRuns -> SecretTasks]
  /\ spc = [r \in SecretRuns |-> "idle"]
  /\ secretObj = [r \in SecretRuns |-> "none"] /\ old = {}
  /\ sjob = [r \in SecretRuns |-> "none"]
  /\ jobEnv = [r \in SecretRuns |-> {}] /\ unadopted = {}
  /\ sweep = {}

Launching(r, l) == spc' = [spc EXCEPT ![r] = l]
May(m) == m \in smishaps
HasValues(r) == Plan(asked[r]).values # {}

\* resolveTaskSecrets and createTaskSecret: any refusal aborts the launch.
CreateTaskSecret(r) ==
  /\ spc[r] = "idle"
  /\ \/ /\ Accepts(asked[r])
        /\ IF HasValues(r) THEN secretObj' = [secretObj EXCEPT ![r] = "unowned"]
                           ELSE UNCHANGED secretObj
        /\ Launching(r, "staged")
     \/ /\ ~Accepts(asked[r]) \/ May("api")
        /\ Launching(r, "aborted") /\ UNCHANGED secretObj
  /\ UNCHANGED <<smishaps, asked, old, sjob, jobEnv, unadopted, sweep>>

\* applyTaskSecrets, Build and the creation of the Job.
CreateJob(r) ==
  /\ spc[r] = "staged"
  /\ \/ /\ NoCollision(asked[r])
        /\ sjob' = [sjob EXCEPT ![r] = "active"]
        /\ jobEnv' = [jobEnv EXCEPT ![r] = PlanEnv(asked[r])]
        /\ Launching(r, IF HasValues(r) THEN "adopt" ELSE "done")
     \/ /\ ~NoCollision(asked[r]) \/ May("api")
        /\ Launching(r, "discard") /\ UNCHANGED <<sjob, jobEnv>>
  /\ UNCHANGED <<smishaps, asked, secretObj, old, unadopted, sweep>>

\* discardTaskSecret; a failed deletion is only logged.
DiscardTaskSecret(r) ==
  /\ spc[r] = "discard"
  /\ \/ secretObj' = [secretObj EXCEPT ![r] = "none"]
     \/ May("api") /\ UNCHANGED secretObj
  /\ Launching(r, "aborted")
  /\ UNCHANGED <<smishaps, asked, old, sjob, jobEnv, unadopted, sweep>>

\* adoptTaskSecret; a failure is only logged and the run goes on.
AdoptTaskSecret(r) ==
  /\ spc[r] = "adopt"
  /\ \/ /\ secretObj[r] = "unowned"
        /\ secretObj' = [secretObj EXCEPT ![r] = "owned"] /\ UNCHANGED unadopted
     \/ /\ secretObj[r] = "none" \/ May("adopt")
        /\ unadopted' = unadopted \cup {r} /\ UNCHANGED secretObj
  /\ Launching(r, "done")
  /\ UNCHANGED <<smishaps, asked, old, sjob, jobEnv, sweep>>

\* The Job is deleted after its TTL; Kubernetes collects what it owns.
DeleteJob(r) ==
  /\ sjob[r] = "active" /\ spc[r] \in {"done", "killed"}
  /\ sjob' = [sjob EXCEPT ![r] = "deleted"]
  /\ secretObj' = [secretObj EXCEPT ![r] = IF @ = "owned" THEN "none" ELSE @]
  /\ UNCHANGED <<smishaps, asked, spc, old, jobEnv, unadopted, sweep>>

\* launchRetryJob, launchFallbackJob, the approved launch and the continuation
\* build a Job of their own, which no task secret is resolved for.
RelaunchJob(r) ==
  /\ May("relaunch") /\ spc[r] = "done" /\ sjob[r] = "deleted"
  /\ sjob' = [sjob EXCEPT ![r] = "active"]
  /\ jobEnv' = [jobEnv EXCEPT ![r] = {}]
  /\ UNCHANGED <<smishaps, asked, spc, secretObj, old, unadopted, sweep>>

KillController ==
  /\ May("crash") /\ \E r \in SecretRuns : spc[r] \in {"staged", "adopt", "discard"}
  /\ spc' = [r \in SecretRuns |-> IF spc[r] \in {"idle", "done", "aborted"} THEN spc[r] ELSE "killed"]
  /\ sweep' = {}
  /\ UNCHANGED <<smishaps, asked, secretObj, old, sjob, jobEnv, unadopted>>

\* The grace period outlasts every launch that is still going on.
GracePasses(r) ==
  /\ secretObj[r] # "none" /\ r \notin old /\ spc[r] \in {"done", "aborted", "killed"}
  /\ old' = old \cup {r}
  /\ UNCHANGED <<smishaps, asked, spc, secretObj, sjob, jobEnv, unadopted, sweep>>

\* Variants: the sweep forgets the grace period, or takes Secrets with a Job only.
SweepGraceless == {r \in SecretRuns : secretObj[r] = "unowned"}
SweepOfJobs == {r \in SecretRuns : secretObj[r] = "unowned" /\ r \in old /\ sjob[r] = "active"}

\* The Secrets of the list without an owner and past the grace period.
Stranded == {r \in SecretRuns : secretObj[r] = "unowned" /\ r \in old}

\* sweepOrphanedTaskSecrets lists first and deletes one by one.
SweepOrphans ==
  /\ sweep = {} /\ Stranded # {}
  /\ sweep' = Stranded
  /\ UNCHANGED <<smishaps, asked, launchVars>>

SweepDelete(r) ==
  /\ r \in sweep /\ sweep' = sweep \ {r}
  /\ secretObj' = [secretObj EXCEPT ![r] = "none"]
  /\ UNCHANGED <<smishaps, asked, spc, old, sjob, jobEnv, unadopted>>

SweepDeleteFails(r) ==
  /\ May("api") /\ r \in sweep /\ sweep' = sweep \ {r}
  /\ UNCHANGED <<smishaps, asked, launchVars>>

SecretsNext ==
  \/ SweepOrphans \/ KillController
  \/ \E r \in SecretRuns :
       \/ CreateTaskSecret(r) \/ CreateJob(r) \/ DiscardTaskSecret(r) \/ AdoptTaskSecret(r)
       \/ DeleteJob(r) \/ RelaunchJob(r) \/ GracePasses(r)
       \/ SweepDelete(r) \/ SweepDeleteFails(r)

SecretsSpec == SecretsInit /\ [][SecretsNext]_secretVars

-----------------------------------------------------------------------------
(* Properties *)

\* A Job whose Secret was adopted finds it as long as it lives: neither the sweep nor
\* an aborted launch takes it away, however a launch and a sweep interleave.
JobFindsItsSecret ==
  \A r \in SecretRuns :
    sjob[r] = "active" /\ jobEnv[r] \cap Plan(asked[r]).values # {} /\ r \notin unadopted
      /\ spc[r] # "killed"
      => secretObj[r] # "none"

\* A Secret whose launch died, or was aborted and could not be cleaned up, does not
\* stay: it is swept in the end (sweepOrphanedTaskSecrets).
StrandedIsSwept ==
  \A r \in SecretRuns :
    (secretObj[r] = "unowned" /\ spc[r] \in {"killed", "aborted"}) ~> secretObj[r] = "none"

\* Whatever aliases stand for, in a description or in a label, a Job gets no variable
\* that the policy blocks or that the engine's spec names (ValidateResolved after
\* expandAliases, checkEnvCollision).  A variable that only a mounted Secret holds is
\* kept from tasks by the policy's patterns alone.
NoForbiddenVariable ==
  \A r \in SecretRuns : jobEnv[r] \cap (Policy.blocked \cup SpecEnv) = {}
=============================================================================
