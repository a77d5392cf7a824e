SPECIFICATION Spec
CONSTANTS
  Tickets = {t1, t2, t3}
  Runs = {r1, r2}
  Hooks = {h1}
  Loop = Loop
  Dog = Dog
  NoRun = NoRun
  NoTicket = NoTicket
  MaxRetries = 1
  MaxConcurrentJobs = 1
  ChainLen = 1
  MaxContinuations = 1
  Gates = {"pre_start", "pre_merge"}
  Rejected = {t3}
  NoRepo = {t2, t3}
  LongIds = {}
  Features = {"repoPoller", "requeue"}
  Faults = {"launch", "ticketing"}
  MaxCrashes = 1
SYMMETRY Symmetry
INVARIANTS StartsAreApproved ContinuationBudget RefusedTicketsNeverRun
