SPECIFICATION MCSpec
CONSTANTS
  Parts = {"learning"}
  Tickets = {"t1", "t2"}
  Trackers = {"github", "linear", "shortcut"}
  Workflows <- MCWorkflows
  MappingSets <- MCMappingSets
  ExcludeLabels = {"in-progress", "osmia-failed"}
  MaxAsks = 2
  TicketIDs = {"t1", "t2"}
  Seed = {"t1"}
  Clients = {"c1", "c2"}
  MaxEventsOf = 4
  Events <- MCEvents
  Inboxes <- MCInboxes
  Slots = {1, 2}
  TriggerLabels = {"osmia"}
  TargetState = 0
  Configured = {"github", "slack", "gitlab", "generic", "incident-io"}
  MaxDeliveries = 2
  MaxFaults = 1
  Plugins = {"p", "q"}
  Versions = {1, 2}
  KnownVersion = 1
  MaxRestarts = 2
  MaxProcesses = 6
  ToolNames = {"Read", "Edit", "Bash"}
  ReadTools = {"Read"}
  EditTools = {"Edit"}
  TestTools = {"Bash"}
  Intervals = {1, 2}
  WindowSize = 7
  MaxTrajectoryLength = 5
  NudgeAt = 7
  EscalateAt = 3
  MaxToolCalls = 9
  Tools = {"a", "b"}
  Rules <- MCRules
  MinTicks = 2
  Grace = 1
  MaxCalls = 3
  CostReports <- MCCostReports
  MaxJobs = 2
  Histories <- MCHistories
  Learners = {1, 2}
  MaxConfidence = 1
  MaxMemoryFaults = 1
  Recorders = {"loop", "hook"}
  Outcomes <- MCOutcomes
  Engines = {"a", "b"}
  Dimensions = {"task_type", "complexity"}
  MinSamples = 2
  Pasts <- MCNoPasts
  NearestK = 5
  CostPerEngine <- MCCostPerEngine
  MaxPredictedCost = 4
  MaxOutcomes = 3
  EngineLabels = {"", "b"}
  MaxRetries = 2
  ConfiguredEngines <- MCConfiguredEngines
  Registered = {"a", "b"}
  RunEvents <- MCRunEvents
  MaxKept = 1
  IdenticalLimit = 1
  SwitchLimit = 0
  MaxDiagnoses = 3
  Analysers = {"off", "rules", "llm"}
  MaxSeen = 2
  ModelAnswers = {"scope_creep", "model_confusion"}
INVARIANT LearnedIsUsed
CHECK_DEADLOCK FALSE
