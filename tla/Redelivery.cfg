SPECIFICATION Spec
CONSTANTS
  Tickets = {t1}
  Runs = {r1, r2}
  Hooks = {h1, h2}
  Loop = Loop
  Dog = Dog
  NoRun = NoRun
  NoTicket = NoTicket
  MaxRetries = 1
  MaxConcurrentJobs = 1
  ChainLen = 1
  MaxContinuations = 0
  Gates = {}
  Rejected = {}
  NoRepo = {}
  LongIds = {}
  Features = {"webhooks"}
  Faults = {}
  MaxCrashes = 0
INVARIANTS OneLiveRunPerTicket
