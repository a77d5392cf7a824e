------------------------------ MODULE MCFlows ------------------------------
(***************************************************************************)
(* The flows around the reconcile loop, for TLC: a behaviour is one of a   *)
(* tournament, a pull request under review, the secrets of two tasks, the  *)
(* log of an agent, its session, or the process itself.  The variables of  *)
(* the others keep one initial value.                                      *)
(***************************************************************************)
EXTENDS Tournament, ReviewFollowUps, TaskSecrets, AgentStream, Sessions, Startup

CONSTANT Parts
VARIABLE part

flowVars == <<part, tournamentVars, reviewVars, secretVars, streamVars, sessionVars, startVars>>

MCMishaps == {{}, {"watchdog"}, {"jobFails"}, {"launch"}}
MCUndisturbed == {{}}

Kind(bot, inline, words) == [empty |-> FALSE, bot |-> bot, inline |-> inline, words |-> words]
MCCommentKinds == {Kind(FALSE, FALSE, {"error"}), Kind(TRUE, FALSE, {"error"}),
                   Kind(TRUE, TRUE, {"warning"})}
MCSummaryKinds == {Kind(FALSE, FALSE, {"error"})}
MCReviewMishaps == {{}, {"crash"}, {"launch", "llm"}, {"crash", "identity"}}

Entry(alias, env, scheme, path) == [alias |-> alias, env |-> env, scheme |-> scheme, path |-> path]
MCPolicy == [raw |-> TRUE, schemes |-> {"vault", "k8s"}, blocked |-> {"PATH"},
             allowed |-> {}, tenant |-> "ticketing"]
MCAliases ==
  [db    |-> [env |-> "DB_URL", scheme |-> "vault", path |-> "db", tenant |-> ""],
   sly   |-> [env |-> "PATH", scheme |-> "vault", path |-> "p", tenant |-> ""],
   other |-> [env |-> "X", scheme |-> "k8s", path |-> "x", tenant |-> "incident"]]
Label(env, scheme, path) == [env |-> env, scheme |-> scheme, path |-> path]
Task(body, labels) == [body |-> body, labels |-> labels]
MCSecretTasks ==
  {Task(<<>>, {}), Task(<<Entry("db", "", "", "")>>, {}), Task(<<Entry("sly", "", "", "")>>, {}),
   Task(<<Entry("", "TOKEN", "k8s", "s/k")>>, {Label("", "", ""), Label("DB", "alias", "db")}),
   Task(<<>>, {Label("PATH", "alias", "db")}), Task(<<>>, {Label("API_KEY", "vault", "k")}),
   Task(<<Entry("", "blank", "vault", "k")>>, {})}
MCSecretMishaps == {{"api", "adopt"}, {"crash", "relaunch"}}

MCStreamMishaps == {{"failure"}, {"failure", "stream", "fallback"}}

Backend(match, name, kind) == [match |-> match, backend |-> name, kind |-> kind, malformed |-> FALSE]
MCBase ==
  [sessions |-> "", runStore |-> "sqlite", ticketing |-> "local", lacks |-> {}, webhook |-> "on",
   notify |-> {"slack", "discord", "telegram"}, approval |-> "slack", review |-> "coderabbit",
   secrets |-> {"k8s"}, memory |-> TRUE, tokenKey |-> "", secretKeys |-> {"token"},
   scm |-> <<Backend({"github"}, "a", "github"), Backend({"github", "gitlab"}, "b", "gitlab")>>]
MCConfigs == {MCBase,
  [MCBase EXCEPT !.ticketing = "jira"],
  [MCBase EXCEPT !.lacks = {<<"ticketing", "store_path">>}],
  [MCBase EXCEPT !.runStore = "postgres"],
  [MCBase EXCEPT !.webhook = "svix-header", !.approval = "teams"],
  [MCBase EXCEPT !.secrets = {"vault", "aws-secrets-manager"},
                 !.lacks = {<<"secrets", "cache_ttl">>}],
  [MCBase EXCEPT !.ticketing = "", !.secrets = {}, !.scm[1].malformed = TRUE],
  [MCBase EXCEPT !.ticketing = "github", !.webhook = "off", !.memory = FALSE, !.notify = {"slack"},
                 !.runStore = "memory", !.secretKeys = {"GITHUB_TOKEN", "SLACK_TOKEN"}],
  [MCBase EXCEPT !.ticketing = "linear", !.tokenKey = "key"],
  [MCBase EXCEPT !.ticketing = "shortcut", !.lacks = {<<"slack", "channel_id">>}]}

MCInit ==
  /\ part \in Parts
  /\ part = "tournament" \/ mishaps = {"watchdog"}
  /\ part = "review" \/ (rmishaps = {} /\ maxFollowUps = 1)
  /\ part = "secrets" \/ (smishaps = {"api", "adopt"} /\ asked = [r \in SecretRuns |-> Task(<<>>, {})])
  /\ part = "stream" \/ stmishaps = {"failure"}
  /\ part = "session" \/ backend = "shared-pvc"
  /\ part = "process" \/ conf = MCBase
  /\ TournamentInit /\ ReviewInit /\ SecretsInit /\ StreamInit /\ SessionInit /\ StartupInit

MCNext ==
  \/ /\ part = "tournament" /\ TournamentNext
     /\ UNCHANGED <<part, reviewVars, secretVars, streamVars, sessionVars, startVars>>
  \/ /\ part = "review" /\ ReviewNext
     /\ UNCHANGED <<part, tournamentVars, secretVars, streamVars, sessionVars, startVars>>
  \/ /\ part = "secrets" /\ SecretsNext
     /\ UNCHANGED <<part, tournamentVars, reviewVars, streamVars, sessionVars, startVars>>
  \/ /\ part = "stream" /\ StreamNext
     /\ UNCHANGED <<part, tournamentVars, reviewVars, secretVars, sessionVars, startVars>>
  \/ /\ part = "session" /\ SessionNext
     /\ UNCHANGED <<part, tournamentVars, reviewVars, secretVars, streamVars, startVars>>
  \/ /\ part = "process" /\ StartupNext
     /\ UNCHANGED <<part, tournamentVars, reviewVars, secretVars, streamVars, sessionVars>>

\* The reconcile and watchdog loops, the review poller and the sweep run on tickers;
\* activeDeadlineSeconds ends every Job; the API does not refuse a deletion for ever;
\* time passes, and no reader stops by itself.  Nothing is assumed of people, of the
\* agent and its log, or of what may go wrong.
MCFairness ==
  /\ WF_tournamentVars(part = "tournament" /\ TournamentLoop /\ UNCHANGED mishaps)
  /\ WF_tournamentVars(part = "tournament" /\ FailureSteps(DogT) /\ UNCHANGED mishaps)
  /\ \A r \in Competitors :
       WF_tournamentVars(part = "tournament" /\ CompetitorJobEnds(r) /\ UNCHANGED mishaps)
  /\ WF_reviewVars(part = "review" /\ PollerStep) /\ WF_reviewVars(part = "review" /\ LoopStep)
  /\ WF_secretVars(part = "secrets" /\ SweepOrphans)
  /\ \A r \in SecretRuns : /\ WF_secretVars(part = "secrets" /\ GracePasses(r))
                           /\ SF_secretVars(part = "secrets" /\ SweepDelete(r))
  /\ WF_streamVars(part = "stream" /\ StreamLoop)
  /\ \A a \in Attempts : WF_streamVars(part = "stream" /\ ReaderStep(a))

MCSpec == MCInit /\ [][MCNext]_flowVars /\ MCFairness
=============================================================================
