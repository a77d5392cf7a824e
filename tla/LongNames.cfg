SPECIFICATION Spec
CONSTANTS
  Tickets = {t1}
  Runs = {r1}
  Hooks = {}
  Loop = Loop
  Dog = Dog
  NoRun = NoRun
  NoTicket = NoTicket
  MaxRetries = 1
  MaxConcurrentJobs = 1
  ChainLen = 2
  MaxContinuations = 0
  Gates = {}
  Rejected = {}
  NoRepo = {}
  LongIds = {r1}
  Features = {}
  Faults = {}
  MaxCrashes = 0
INVARIANT RelaunchNamesAreNew
