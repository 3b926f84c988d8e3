\* More agents run than the cap allows.
SPECIFICATION Spec
CONSTANTS
  a = a
  b = b
  search = search
  Agents <- MCAgents
  Tools = {search}
  Allowed <- MCAllowed
  MaxSteps = 2
  Cap = 1
  Awaiters = {w1, w2}
INVARIANT CapHolds
CHECK_DEADLOCK FALSE
