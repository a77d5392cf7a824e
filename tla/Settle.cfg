SPECIFICATION FairSpec
CONSTANTS
  Tickets = {t1, t2}
  Runs = {r1, r2}
  Hooks = {}
  Loop = Loop
  Dog = Dog
  NoRun = NoRun
  NoTicket = NoTicket
  MaxRetries = 1
  MaxConcurrentJobs = 1
  ChainLen = 1
  MaxContinuations = 0
  Gates = {}
  Rejected = {}
  NoRepo = {}
  LongIds = {}
  Features = {"watchdog"}
  Faults = {}
  MaxCrashes = 0
PROPERTIES TicketSettles
