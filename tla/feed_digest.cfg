\* One process with two runs at a time, two entries, two subscriptions, one crash.
CONSTANTS
  Procs = {daemon}
  Daemon = daemon
  Jobs = {j1}
  Slots = {s1, s2}
  MaxCrashes = 1
  None = None
  MaxEntry = 2
  Shown = 2
  Matching = {1}
  MaxSubs = 2
SPECIFICATION Spec
CHECK_DEADLOCK FALSE
INVARIANTS NothingSkipped DigestedWereSent AlertedOnce
PROPERTIES StoredIsDigested
