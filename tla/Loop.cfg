SPECIFICATION Spec
CONSTANTS
  Tickets = {t1, t2, t3}
  Runs = {r1, r2, r3}
  Hooks = {}
  Loop = Loop
  Dog = Dog
  NoRun = NoRun
  NoTicket = NoTicket
  MaxRetries = 1
  MaxConcurrentJobs = 1
  ChainLen = 2
  MaxContinuations = 0
  Gates = {}
  Rejected = {}
  NoRepo = {t3}
  LongIds = {}
  Features = {"codeReview", "diagnosis", "estimator", "requeue"}
  Faults = {"launch"}
  MaxCrashes = 0
SYMMETRY Symmetry
INVARIANTS SlotLimit LiveJobsAreTracked JobBudget SettledTicketIsClosed
