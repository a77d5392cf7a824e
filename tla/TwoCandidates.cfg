SPECIFICATION MCSpec
CONSTANTS
  Parts = {"tournament"}
  MaxRetries = 1
  Candidates = {1, 2}
  Judge = 9
  ThresholdPct = 60
  LoopT = LoopT
  DogT = DogT
  Anomalous = {2, 9}
  MishapSets <- MCUndisturbed
  FollowUpLimits = {1, 2}
  MinSeverity = "warning"
  CommentKinds <- MCCommentKinds
  SummaryKinds <- MCSummaryKinds
  MaxEvents = 4
  ReviewMishaps <- MCReviewMishaps
  SecretRuns = {s1, s2}
  SecretTasks <- MCSecretTasks
  Policy <- MCPolicy
  Aliases <- MCAliases
  Backends = {"vault"}
  SpecEnv = {"API_KEY"}
  MaxSecretRequests = 2
  SecretMishaps <- MCSecretMishaps
  MaxAttempts = 2
  LinesPerPod = 2
  ChannelCap = 1
  StreamMishaps <- MCStreamMishaps
  SessionBackends = {"shared-pvc", "per-taskrun-pvc"}
  TTL = 2
  MaxSessionJobs = 3
  Configs <- MCConfigs
  Servers = {"ui", "hook"}
  MaxInitFaults = 1
INVARIANT UndisturbedIsNotCancelled
CHECK_DEADLOCK FALSE
