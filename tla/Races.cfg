SPECIFICATION Spec
CONSTANTS
  Tickets = {t1}
  Runs = {r1}
  Hooks = {h1, h2}
  Loop = Loop
  Dog = Dog
  NoRun = NoRun
  NoTicket = NoTicket
  MaxRetries = 1
  MaxConcurrentJobs = 1
  ChainLen = 2
  MaxContinuations = 1
  Gates = {}
  Rejected = {}
  NoRepo = {}
  LongIds = {}
  Features = {"watchdog", "webhooks"}
  Faults = {"launch"}
  MaxCrashes = 0
SYMMETRY Symmetry
INVARIANTS OneOutcome RetryingIsOnItsWay RelaunchNamesAreNew
PROPERTIES LifecycleSpec
