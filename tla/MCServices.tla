----------------------------- MODULE MCServices -----------------------------
(***************************************************************************)
(* The services around the reconcile loop, for TLC: a behaviour is one of  *)
(* a remote tracker, the local ticket store, the webhook server, the       *)
(* plug-in host, the step scorer, the watchdog, the memory, what is learned*)
(* from outcomes, or the diagnosis of a run's failures.  The variables of  *)
(* the others keep one initial value.                                      *)
(***************************************************************************)
EXTENDS Trackers, LocalTickets, Webhooks, PluginHost, ProcessReward,
        Watchdog, Knowledge, Learning, Diagnosis

CONSTANT Parts
VARIABLE part

serviceVars == <<part, trackerVars, localVars, hookVars, hostVars, prmVars,
                 watchVars, memoryVars, learnVars, diagnosisVars>>

ColumnOf(id, name, type) == [id |-> id, name |-> name, type |-> type]
MCWorkflows ==
  << <<ColumnOf(1, "Ready", "unstarted"), ColumnOf(2, "Dev", "started"), ColumnOf(3, "Done", "done")>>,
     <<ColumnOf(4, "Todo", "unstarted"), ColumnOf(5, "Doing", "started"),
       ColumnOf(7, "Dev", "started"), ColumnOf(6, "Done", "done")>> >>
MappingOf(a, b) == [trigger |-> a, inProgress |-> b]
MCMappingSets == {<<MappingOf("Ready", "Dev")>>, <<MappingOf("Ready", "Dev"), MappingOf("Todo", "Doing")>>,
                  <<MappingOf("Todo", "")>>}

Item(kind, act, tags, id) == [kind |-> kind, act |-> act, tags |-> tags, id |-> id]
Delivery(source, signed, items) == [source |-> source, signed |-> signed, items |-> items]
MCEvents == {
  Delivery("github", TRUE, <<Item("issues", "labeled", {"osmia"}, "7")>>),
  Delivery("github", TRUE, <<Item("issues", "closed", {"osmia"}, "8")>>),
  Delivery("gitlab", FALSE, <<Item("issue", "open", {}, "9")>>),
  Delivery("slack", TRUE, <<Item("other", "x", {}, "s1"), Item("osmia_approval", "approve", {}, "a1")>>),
  Delivery("slack", TRUE, <<Item("osmia_approval", "reject", {}, "a1")>>),
  Delivery("shortcut", TRUE, <<Item("story", "update", {5}, "11"), Item("story", "update", {6}, "12")>>),
  Delivery("generic", TRUE, <<Item("generic", "", {}, "")>>),
  Delivery("incident-io", TRUE, <<Item("created", "", {"body"}, "i1")>>),
  Delivery("incident-io", TRUE, <<Item("updated", "", {"body", "new_status"}, "i1")>>)}
From(sources) == {e \in MCEvents : e.source \in sources}
MCInboxes == {From({"slack"}), From({"shortcut", "generic"}), From({"incident-io"}),
              From({"github", "gitlab", "generic"})}

MCRules == [loop |-> 2, thrash |-> 1, stall |-> 2, velocity |-> 10, maxCost |-> 2, human |-> 2]
MCCostReports == {<<1, 0>>, <<2, 3>>}
MCHistories == {[useCase |-> "ticketing", result |-> "Succeeded", stale |-> FALSE, attempts |-> 1],
                [useCase |-> "incident", result |-> "TimedOut", stale |-> TRUE, attempts |-> 1]}

MCRuns == [l \in Learners |->
             [useCase |-> "ticketing", tenant |-> "", state |-> "Queued", result |-> "Succeeded",
              stale |-> FALSE, attempts |-> 1]]

OutcomeOf(engine, type, success, cost) ==
  [cached |-> TRUE, ticket |-> "T1", repo |-> "R1", engine |-> engine, success |-> success, cost |-> cost,
   dims |-> [task_type |-> type, complexity |-> ""], label |-> "", labels |-> {"bug"}, words |-> 30,
   bullets |-> 3]
Cheap == OutcomeOf("a", "bug_fix", TRUE, 3)
Costly == OutcomeOf("a", "bug_fix", FALSE, 9)
Docs == [OutcomeOf("b", "docs", TRUE, 1) EXCEPT !.label = "b"]
MCOutcomes == {Cheap, Costly, Docs, [OutcomeOf("a", "", FALSE, 3) EXCEPT !.cached = FALSE, !.ticket = "I1"]}
MCNoPasts == {<<>>}
MCPasts == MCNoPasts \cup {<<Docs, Cheap, Cheap, Cheap, Costly>>}
MCCostPerEngine == [b |-> [low |-> 2, high |-> 8]]

Says(words) == [tool |-> "", words |-> words, onTest |-> FALSE, result |-> ""]
EditsTest == [tool |-> "Edit", words |-> {}, onTest |-> TRUE, result |-> ""]
MCRunEvents == {Says({"infra", "permission"}), EditsTest}
MCConfiguredEngines == <<"a", "b">>

MCInit ==
  /\ part \in Parts
  /\ part = "tracker" \/ (tracker = "github" /\ mappings = ResolvedMappings(<<MappingOf("Todo", "")>>))
  /\ part = "hooks" \/ inbox = From({"slack"})
  /\ part = "host" \/ declared = [p \in Plugins |-> KnownVersion]
  /\ part = "prm" \/ interval = 1
  /\ part = "memory" \/ run = MCRuns
  /\ part = "learning" \/ outcomes = <<>>
  /\ part = "failures" \/ (analyser = "off" /\ chain = MCConfiguredEngines)
  /\ TrackersInit /\ LocalInit /\ HooksInit /\ HostInit /\ PrmInit
  /\ WatchInit /\ MemoryInit /\ LearnInit /\ DiagnosisInit

MCNext ==
  \/ /\ part = "tracker" /\ TrackersNext
     /\ UNCHANGED <<part, localVars, hookVars, hostVars, prmVars, watchVars, memoryVars, learnVars,
                    diagnosisVars>>
  \/ /\ part = "local" /\ LocalNext
     /\ UNCHANGED <<part, trackerVars, hookVars, hostVars, prmVars, watchVars, memoryVars, learnVars,
                    diagnosisVars>>
  \/ /\ part = "hooks" /\ HooksNext
     /\ UNCHANGED <<part, trackerVars, localVars, hostVars, prmVars, watchVars, memoryVars, learnVars,
                    diagnosisVars>>
  \/ /\ part = "host" /\ HostNext
     /\ UNCHANGED <<part, trackerVars, localVars, hookVars, prmVars, watchVars, memoryVars, learnVars,
                    diagnosisVars>>
  \/ /\ part = "prm" /\ PrmNext
     /\ UNCHANGED <<part, trackerVars, localVars, hookVars, hostVars, watchVars, memoryVars, learnVars,
                    diagnosisVars>>
  \/ /\ part = "watchdog" /\ WatchNext
     /\ UNCHANGED <<part, trackerVars, localVars, hookVars, hostVars, prmVars, memoryVars, learnVars,
                    diagnosisVars>>
  \/ /\ part = "memory" /\ MemoryNext
     /\ UNCHANGED <<part, trackerVars, localVars, hookVars, hostVars, prmVars, watchVars, learnVars,
                    diagnosisVars>>
  \/ /\ part = "learning" /\ LearnNext
     /\ UNCHANGED <<part, trackerVars, localVars, hookVars, hostVars, prmVars, watchVars, memoryVars,
                    diagnosisVars>>
  \/ /\ part = "failures" /\ DiagnosisNext
     /\ UNCHANGED <<part, trackerVars, localVars, hookVars, hostVars, prmVars, watchVars, memoryVars,
                    learnVars>>

\* The watchdog and the reconcile loop run on tickers, and activeDeadlineSeconds ends every
\* Job.  Nothing is assumed of the agent or of people.
MCFairness ==
  /\ WF_watchVars(part = "watchdog" /\ RunWatchdogCheck)
  /\ WF_diagnosisVars(part = "failures" /\ DiagnosisLoop)
  /\ WF_diagnosisVars(part = "failures" /\ ~panicked /\ FailureStep("dog"))
  /\ WF_diagnosisVars(part = "failures" /\ ~panicked /\ \E s \in {"complete", "failed"} : JobEnds(s))

MCSpec == MCInit /\ [][MCNext]_serviceVars /\ MCFairness
=============================================================================
