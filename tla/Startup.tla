------------------------------ MODULE Startup ------------------------------
(***************************************************************************)
(* The controller's process: the configuration is loaded and validated,    *)
(* the parts are built from it one after the other, the servers and the    *)
(* background goroutines start, the reconcile loop runs until a signal     *)
(* cancels the context, and the servers and stores are closed in order.    *)
(***************************************************************************)
EXTENDS Integers, Sequences, FiniteSets, SequencesExt

CONSTANTS
  Configs,        \* configurations to consider
  Servers,        \* {"ui", "hook"}: HTTP servers whose handlers use stores
  MaxInitFaults   \* how many initialisations fail for a reason of the moment

VARIABLES
  conf,           \* the configuration file
  step,           \* the next step of main, "exit" after it
  parts,          \* what was handed to NewReconciler
  routers,        \* the SCM entries of the controller and of the review poller
  goroutines,     \* background goroutines and servers started
  stores,         \* of each store: "none", "open" or "closed"
  cancelled,      \* the context: a signal arrived
  ready,          \* /readyz
  inflight,       \* servers with a request in progress
  overdue,        \* shutdownCtx has expired
  misuse,         \* <<server, store>>: a request met a closed store
  initFaults, code

startVars == <<conf, step, parts, routers, goroutines, stores, cancelled, ready,
               inflight, overdue, misuse, initFaults, code>>

-----------------------------------------------------------------------------
(* The configuration *)

\* Validate: what it rejects of the fields the steps below depend on.  It knows
\* nothing of the backends' names, of their other keys and of svix headers.
Validate(c) ==
  /\ c.sessions \in {"", "shared-pvc", "per-taskrun-pvc"}
  /\ c.runStore \in {"memory", "sqlite"}
  /\ c.ticketing = "local" => <<"ticketing", "store_path">> \notin c.lacks
  /\ c.webhook # "no-secret"
  /\ <<"poller", "min_severity">> \notin c.lacks

\* resolveSecretToken: the configured key of the Secret, else a well-known one, else
\* "token".
TokenFound(c, known) ==
  IF c.tokenKey # "" THEN c.tokenKey \in c.secretKeys
  ELSE (known \cup {"token"}) \cap c.secretKeys # {}

\* configString: the keys a part cannot do without (absent, or not strings).
Has(c, p, keys) == \A k \in keys : <<p, k>> \notin c.lacks

GitHubTicketing(c) ==
  Has(c, "ticketing", {"owner", "repo", "token_secret"}) /\ TokenFound(c, {"GITHUB_TOKEN"})
ShortcutTicketing(c) ==
  /\ Has(c, "ticketing", {"token_secret", "trigger_state"})
  /\ TokenFound(c, {"SHORTCUT_API_TOKEN", "SHORTCUT_TOKEN"})
LinearTicketing(c) ==
  /\ Has(c, "ticketing", {"token_secret", "team_id"})
  /\ TokenFound(c, {"LINEAR_API_KEY", "LINEAR_TOKEN"})
LocalTicketing(c) == Has(c, "ticketing", {"store_path", "seed_file"})

TicketingBuilds(c) ==
  \/ c.ticketing = "github" /\ GitHubTicketing(c)
  \/ c.ticketing = "shortcut" /\ ShortcutTicketing(c)
  \/ c.ticketing = "linear" /\ LinearTicketing(c)
  \/ c.ticketing = "local" /\ LocalTicketing(c)
  \/ c.ticketing = ""                               \* noop

SlackChannel(c) ==
  Has(c, "slack", {"channel_id", "token_secret"}) /\ TokenFound(c, {"SLACK_BOT_TOKEN", "SLACK_TOKEN"})
DiscordChannel(c) == Has(c, "discord", {"webhook_url"})
TelegramChannel(c) ==
  /\ Has(c, "telegram", {"chat_id", "token_secret", "thread_id"})
  /\ TokenFound(c, {"TELEGRAM_BOT_TOKEN", "TELEGRAM_TOKEN"})
ApprovalBuilds(c) ==
  /\ c.approval = "slack" /\ Has(c, "approval", {"channel_id", "token_secret"})
  /\ TokenFound(c, {"SLACK_BOT_TOKEN", "SLACK_TOKEN"})
ReviewBuilds(c) ==
  /\ c.review = "coderabbit" /\ Has(c, "review", {"api_key_secret"})
  /\ TokenFound(c, {"CODERABBIT_API_KEY", "api_key"})
ScmBuilds(c, e) ==
  /\ ~e.malformed /\ e.kind \in {"github", "gitlab"}
  /\ TokenFound(c, IF e.kind = "github" THEN {"GITHUB_TOKEN"} ELSE {"GITLAB_TOKEN"})
SecretsBuild(c) ==
  /\ c.secrets \subseteq {"k8s", "vault", "aws-secrets-manager"}
  /\ "aws-secrets-manager" \in c.secrets => Has(c, "secrets", {"cache_ttl"})

\* webhook.NewServer prepares its configuration; a signature header together with
\* svix passes Validate and is refused here.
HookBuilds(c) == c.webhook # "svix-header"

Wanted(c, p) ==
  CASE p = "slack" -> "slack" \in c.notify
    [] p = "discord" -> "discord" \in c.notify
    [] p = "telegram" -> "telegram" \in c.notify
    [] p = "runStore" -> c.runStore = "sqlite"
    [] p = "approval" -> c.approval # ""
    [] p = "review" -> c.review # ""
    [] p = "secrets" -> c.secrets # {}
    [] p = "memory" -> c.memory
    [] p = "ui" -> c.ticketing = "local"
    [] p = "hook" -> c.webhook # "off"
    [] OTHER -> TRUE

Builds(c, p) ==
  CASE p = "ticketing" -> TicketingBuilds(c)
    [] p = "slack" -> SlackChannel(c)
    [] p = "discord" -> DiscordChannel(c)
    [] p = "telegram" -> TelegramChannel(c)
    [] p = "approval" -> ApprovalBuilds(c)
    [] p = "review" -> ReviewBuilds(c)
    [] p = "secrets" -> SecretsBuild(c)
    [] p = "hook" -> HookBuilds(c)
    [] OTHER -> TRUE

-----------------------------------------------------------------------------
(* main *)

\* The steps that may fail, in their order; a failure ends the process, or the
\* controller goes on without the part.
InitOrder == <<"k8s", "ticketing", "slack", "discord", "telegram", "runStore", "approval",
               "scm", "review", "secrets", "memory", "poller", "ui", "hook">>
\* (Variant: a resolver that cannot be built is done without.)
FatalButSecrets(p) == p \in {"k8s", "ticketing", "runStore", "memory", "ui", "hook"}
Fatal(p) == p \in {"k8s", "ticketing", "runStore", "secrets", "memory", "ui", "hook"}

After(p) ==
  LET i == CHOOSE i \in DOMAIN InitOrder : InitOrder[i] = p
  IN IF i = Len(InitOrder) THEN "run" ELSE InitOrder[i + 1]

StoreOf(c, p) ==
  CASE p = "ticketing" /\ c.ticketing = "local" -> {"tickets"}
    [] p = "runStore" -> {"runs"}
    [] p = "memory" -> {"graph"}
    [] OTHER -> {}

\* Goroutines started with a part: the decay loop, the servers.
Spawned(p) == {p} \cap {"memory", "ui", "hook"}

StartupInit ==
  /\ conf \in Configs /\ step = "load"
  /\ parts = {} /\ goroutines = {} /\ cancelled = FALSE /\ ready = FALSE
  /\ routers = [controller |-> <<>>, poller |-> <<>>]
  /\ stores = [s \in {"tickets", "runs", "graph"} |-> "none"]
  /\ inflight = {} /\ overdue = FALSE /\ misuse = {} /\ initFaults = 0 /\ code = -1

Exit(n) == step' = "exit" /\ code' = n

LoadConfig ==
  /\ step = "load"
  /\ IF Validate(conf) THEN step' = "k8s" /\ UNCHANGED code ELSE Exit(1)
  /\ UNCHANGED <<conf, parts, routers, goroutines, stores, cancelled, ready, inflight,
                 overdue, misuse, initFaults>>

Skip(p) ==
  /\ step' = After(p) /\ UNCHANGED <<parts, goroutines, stores, code>>

InitPart(p) ==
  /\ step = p /\ p \notin {"scm", "poller"}
  /\ \/ ~Wanted(conf, p) /\ Skip(p) /\ UNCHANGED initFaults
     \/ /\ Wanted(conf, p) /\ Builds(conf, p)
        /\ step' = After(p) /\ parts' = parts \cup {p}
        /\ goroutines' = goroutines \cup Spawned(p)
        /\ stores' = [s \in DOMAIN stores |-> IF s \in StoreOf(conf, p) THEN "open" ELSE stores[s]]
        /\ UNCHANGED <<initFaults, code>>
     \/ /\ Wanted(conf, p)
        /\ IF ~Builds(conf, p) THEN UNCHANGED initFaults
           ELSE p # "ui" /\ initFaults < MaxInitFaults /\ initFaults' = initFaults + 1
        /\ IF Fatal(p) THEN Exit(1) /\ UNCHANGED <<parts, goroutines, stores>> ELSE Skip(p)
  /\ UNCHANGED <<conf, routers, cancelled, ready, inflight, overdue, misuse>>

InitKubernetes == InitPart("k8s")
InitTicketing == InitPart("ticketing")
InitNotifications == \E p \in {"slack", "discord", "telegram"} : InitPart(p)
InitRunStore == InitPart("runStore")
InitApproval == InitPart("approval")
InitReview == InitPart("review")
InitSecrets == InitPart("secrets")
InitMemory == InitPart("memory")
InitUI == InitPart("ui")
InitWebhooks == InitPart("hook")

\* The SCM backends are built for the controller and again for the review poller;
\* an entry that cannot be built is left out of its router.
BuildRouter(who, p) ==
  /\ step = p /\ step' = After(p)
  /\ \E failed \in SUBSET DOMAIN conf.scm :
       /\ initFaults + Cardinality(failed) <= MaxInitFaults
       /\ initFaults' = initFaults + Cardinality(failed)
       /\ LET good == {i \in DOMAIN conf.scm : i \notin failed /\ ScmBuilds(conf, conf.scm[i])}
          IN routers' = [routers EXCEPT ![who] =
               SelectSeq(conf.scm, LAMBDA e : \E i \in good : conf.scm[i] = e)]
  /\ UNCHANGED <<conf, parts, goroutines, stores, cancelled, ready, inflight, overdue, misuse,
                 code>>

InitScm == BuildRouter("controller", "scm")
InitPoller == BuildRouter("poller", "poller")

Run ==
  /\ step = "run"
  /\ IF ready /\ cancelled THEN step' = "stop ui" /\ UNCHANGED ready
     ELSE ~ready /\ ready' = TRUE /\ UNCHANGED step
  /\ UNCHANGED <<conf, parts, routers, goroutines, stores, cancelled, inflight, overdue,
                 misuse, initFaults, code>>

\* http.Server.Shutdown stops accepting and waits for the requests in progress until
\* shutdownCtx expires.
Drained(s) == s \notin inflight \/ overdue

StopServer(s, here, next) ==
  /\ step = here /\ Drained(s) /\ step' = next
  /\ goroutines' = goroutines \ {s}
  /\ UNCHANGED <<conf, parts, routers, stores, cancelled, ready, inflight, overdue, misuse,
                 initFaults, code>>

CloseStores(S, here, next) ==
  /\ step = here
  /\ stores' = [s \in DOMAIN stores |->
                  IF s \in S /\ stores[s] = "open" THEN "closed" ELSE stores[s]]
  /\ IF next = "exit" THEN Exit(0) ELSE step' = next /\ UNCHANGED code
  /\ UNCHANGED <<conf, parts, routers, goroutines, cancelled, ready, inflight, overdue, misuse,
                 initFaults>>

\* (Variant: the stores are closed before the servers are stopped.)
CloseFirst ==
  \/ CloseStores({"tickets"}, "stop ui", "close tickets")
  \/ StopServer("ui", "close tickets", "stop hook")
  \/ StopServer("hook", "stop hook", "close rest")
  \/ CloseStores({"graph", "runs"}, "close rest", "exit")
ShutDown ==
  \/ StopServer("ui", "stop ui", "close tickets")
  \/ CloseStores({"tickets"}, "close tickets", "stop hook")
  \/ StopServer("hook", "stop hook", "close rest")
  \/ CloseStores({"graph", "runs"}, "close rest", "exit")

MainStep ==
  \/ LoadConfig \/ InitKubernetes \/ InitTicketing \/ InitNotifications \/ InitRunStore
  \/ InitApproval \/ InitScm \/ InitReview \/ InitSecrets \/ InitMemory \/ InitPoller
  \/ InitUI \/ InitWebhooks \/ Run \/ ShutDown

-----------------------------------------------------------------------------
(* Around main *)

Signal ==
  /\ ~cancelled /\ step \notin {"load", "k8s", "ticketing", "slack", "discord", "telegram", "exit"}
  /\ cancelled' = TRUE
  /\ UNCHANGED <<conf, step, parts, routers, goroutines, stores, ready, inflight, overdue,
                 misuse, initFaults, code>>

DeadlinePasses ==
  /\ step \in {"stop ui", "close tickets", "stop hook"} /\ ~overdue /\ overdue' = TRUE
  /\ UNCHANGED <<conf, step, parts, routers, goroutines, stores, cancelled, ready, inflight,
                 misuse, initFaults, code>>

\* A port that cannot be listened on ends the process, except for the webhooks'.
ListenFails(s) ==
  /\ s \in goroutines /\ s # "memory" /\ step # "exit" /\ initFaults < MaxInitFaults
  /\ initFaults' = initFaults + 1
  /\ IF s = "ui" THEN Exit(1) ELSE UNCHANGED <<step, code>>
  /\ goroutines' = goroutines \ {s}
  /\ UNCHANGED <<conf, parts, routers, stores, cancelled, ready, inflight, overdue, misuse>>

RequestStarts(s) ==
  /\ s \in goroutines /\ s \notin inflight
  /\ step \notin {"exit", "stop " \o s}
  /\ inflight' = inflight \cup {s}
  /\ UNCHANGED <<conf, step, parts, routers, goroutines, stores, cancelled, ready, overdue,
                 misuse, initFaults, code>>

\* A request's last use of the stores: the UI's tickets; a webhook's tickets and runs.
RequestEnds(s) ==
  /\ s \in inflight /\ step # "exit"
  /\ inflight' = inflight \ {s}
  /\ misuse' = misuse \cup
       {<<s, st>> : st \in {x \in (IF s = "ui" THEN {"tickets"} ELSE {"tickets", "runs"}) :
                              stores[x] = "closed"}}
  /\ UNCHANGED <<conf, step, parts, routers, goroutines, stores, cancelled, ready, overdue,
                 initFaults, code>>

StartupNext ==
  \/ MainStep \/ Signal \/ DeadlinePasses
  \/ \E s \in Servers : ListenFails(s) \/ RequestStarts(s) \/ RequestEnds(s)

StartupSpec == StartupInit /\ [][StartupNext]_startVars

-----------------------------------------------------------------------------
(* Properties *)

\* A controller that says it is ready has every part its configuration asks for, but
\* for those it may do without; in particular it resolves secrets.
ReadyIsComplete ==
  ready => \A p \in Range(InitOrder) \ {"slack", "discord", "telegram", "approval", "scm", "review", "poller"} :
             Wanted(conf, p) => p \in parts

\* A request of the local UI does not find its store closed, unless it outlives the
\* shutdown deadline.
UIStoreIsOpen == <<"ui", "tickets">> \in misuse => overdue
=============================================================================
