SPECIFICATION Spec
CONSTANTS
  Tickets = {t1}
  Runs = {r1}
  Hooks = {h1}
  Loop = Loop
  Dog = Dog
  NoRun = NoRun
  NoTicket = NoTicket
  MaxRetries = 1
  MaxConcurrentJobs = 1
  ChainLen = 1
  MaxContinuations = 0
  Gates = {"pre_merge"}
  Rejected = {}
  NoRepo = {}
  LongIds = {}
  Features = {}
  Faults = {}
  MaxCrashes = 0
PROPERTIES PreMergeApprovalCompletes
